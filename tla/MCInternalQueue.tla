--------------------------- MODULE MCInternalQueue ---------------------------
(* InternalQueue for TLC.  Every bound is a constant of the configuration. *)
EXTENDS InternalQueue, Sequences

(* What the producers push: the walk of a signal handler, on a deeper stack *)
(* than the instance of Pipeline has.  It fits an array of MAX_FRAMES       *)
(* frames, unless OCaml code called back from C is met with room for one    *)
(* frame only.                                                              *)
Walk(late) == INSTANCE StackWalker WITH
                  PCs <- {1, 2, 3}, Foreign <- {1}, HandlerPC <- 9, MAX_FRAMES <- 5,
                  NUMBER_OF_SIGNAL_HANDLER_FRAMES <- 1, LateCallbacks <- late
ASSUME WalkFits == \A walk \in Walk(FALSE)!linkable_handle : Len(walk.frames) <= 5
ASSUME LateCallbackOverruns == \E walk \in Walk(TRUE)!linkable_handle : Len(walk.frames) = 6

==============================================================================
