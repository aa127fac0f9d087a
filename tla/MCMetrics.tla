------------------------------ MODULE MCMetrics ------------------------------
(* Small instances of Metrics. *)
EXTENDS Metrics
==============================================================================
