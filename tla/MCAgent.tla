------------------------------- MODULE MCAgent -------------------------------
(* Agent for TLC.  Every bound is a constant of the configurations.        *)
EXTENDS Agent

==============================================================================
