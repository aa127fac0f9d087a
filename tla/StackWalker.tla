----------------------------- MODULE StackWalker -----------------------------
(***************************************************************************)
(* linkable_handle of lib/linkable_profiler.c: the walk over the stack of  *)
(* the interrupted thread that a signal handler makes.  libunwind steps    *)
(* through foreign frames; at an OCaml frame the walk changes to the       *)
(* runtime's frame descriptors.  What both find is the interrupted         *)
(* program's and is chosen freely.  The walk only touches the handler's    *)
(* own frames, so it is the set of its results.                            *)
(***************************************************************************)
EXTENDS Integers, Sequences

CONSTANTS PCs,           \* addresses in the program
          Foreign,       \* those outside OCaml's code fragments
          HandlerPC,     \* the address of the handler's own frames
          MAX_FRAMES,
          NUMBER_OF_SIGNAL_HANDLER_FRAMES,
          LateCallbacks  \* TRUE: the walk may meet OCaml code called back
                         \* from C with room for one frame only

ASSUME WalkerAssumption ==
    /\ PCs \subseteq Nat \ {0} /\ Foreign \subseteq PCs
    /\ HandlerPC \in (Nat \ {0}) \ PCs
    /\ NUMBER_OF_SIGNAL_HANDLER_FRAMES \in Nat
    /\ MAX_FRAMES \in Nat /\ MAX_FRAMES > NUMBER_OF_SIGNAL_HANDLER_FRAMES
    /\ LateCallbacks \in BOOLEAN

CallFrame == [frame : PCs \cup {HandlerPC}, isForeign : BOOLEAN]

\* The walk: the frames so far, which loop it is in, first_ocaml_frame, and
\* the ErrorType it ended with.
Begin == [frames |-> << >>, loop |-> "unwind", first |-> TRUE, type |-> "walking"]
End(w, type) == [w EXCEPT !.type = type, !.loop = "unwind", !.first = TRUE]
Found(w, fs) == [w EXCEPT !.frames = @ \o fs]
Frame(pc, isForeign) == [frame |-> pc, isForeign |-> isForeign]

\* The while condition of both loops.
HasRoom(w) == Len(w.frames) < MAX_FRAMES

\* Where libunwind can be: first in the handler, then in the program.
UnwoundPCs(w) ==
    IF Len(w.frames) < NUMBER_OF_SIGNAL_HANDLER_FRAMES THEN {HandlerPC} ELSE PCs

\* unw_step and the frame it finds.
Unwind(w) ==
    {End(w, "SUCCESS"), End(w, "STEP_FAIL")} \cup
    {IF pc \in Foreign \cup {HandlerPC}
       THEN Found(w, <<Frame(pc, TRUE)>>)
       ELSE [Found(w, <<Frame(pc, FALSE)>>) EXCEPT !.loop = "descriptors"]
     : pc \in UnwoundPCs(w)}

\* No descriptor: back to libunwind if there was none at all, else the end.
NoDescriptor(w) ==
    IF w.first THEN [w EXCEPT !.loop = "unwind"] ELSE End(w, "SUCCESS")

\* A return address other than the previous frame, as after a callback from
\* C: a frame of its own before the caller's.
ReturnAddresses(w) ==
    {ret \in PCs \ Foreign : /\ ret # w.frames[Len(w.frames)].frame
                             /\ LateCallbacks \/ Len(w.frames) + 2 <= MAX_FRAMES}

\* The frame of the caller a descriptor leads to, alone or after one of the
\* return address.
Caller(w, pc) == [Found(w, <<Frame(pc, FALSE)>>) EXCEPT !.first = FALSE]
CalledBack(w, ret, pc) ==
    [Found(w, <<Frame(ret, FALSE), Frame(pc, FALSE)>>) EXCEPT !.first = FALSE]

\* caml_next_frame_descriptor found the caller, or nothing.
Descriptors(w) ==
    {NoDescriptor(w)} \cup
    {Caller(w, pc) : pc \in PCs \ Foreign} \cup
    {CalledBack(w, ret, pc) : ret \in ReturnAddresses(w), pc \in PCs \ Foreign}

\* One turn of the loop the walk is in; either loop ends when it is full.
Turn(w) ==
    IF w.type # "walking" THEN {w}
    ELSE IF ~HasRoom(w) THEN {End(w, "SUCCESS")}
    ELSE IF w.loop = "unwind" THEN Unwind(w)
    ELSE Descriptors(w)

\* Two turns at most for each frame, the last of them to end.
Walks[n \in Nat] ==
    IF n = 0 THEN {Begin} ELSE UNION {Turn(w) : w \in Walks[n - 1]}

\* What linkable_handle returns: frames and an error type.
linkable_handle ==
    {[frames |-> w.frames, type |-> w.type] : w \in Walks[2 * MAX_FRAMES + 1]} \cup
    {[frames |-> << >>, type |-> type] : type \in {"GET_CONTEXT_FAIL", "INIT_LOCAL_FAIL"}}

==============================================================================
