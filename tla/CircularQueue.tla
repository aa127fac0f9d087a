---------------------------- MODULE CircularQueue ----------------------------
(***************************************************************************)
(* Profiler::handle of lib/profiler.cpp, run by the signal handlers, and   *)
(* the queue of lib/circular_queue.cpp it pushes to: the main ring, here   *)
(* with the error notifications, and the ring of stack traces with a       *)
(* buffer of frames per slot.  The rings are used as InternalQueue shows   *)
(* them to work (BoundedFifo): a slot is reserved, filled and committed,   *)
(* and read in order.  Nothing pushes to the allocation ring.              *)
(***************************************************************************)
EXTENDS StackWalker

CONSTANTS Threads,             \* the application threads that are signalled
          SIGPROF, SIGALRM,    \* process time and elapsed time
          MainSize,            \* how many notifications the main ring holds
          Size,                \* how many traces the stack ring holds
          maxFramesToCapture,  \* frames per buffer, the option __maxFrames
          None

ASSUME QueueAssumption ==
    /\ Size \in Nat \ {0} /\ MainSize \in Nat
    /\ maxFramesToCapture \in Nat

VARIABLES
    handler,       \* per thread: where its signal handler is
    mainQueue,     \* number of notifications in the main ring
    input, output, \* of the stack ring
    slots,         \* its holders
    frame_buffer_, \* the frames each slot points to
    captured       \* history: the frames the trace in a slot was taken from

queueVars == <<handler, mainQueue, input, output, slots, frame_buffer_, captured>>

Signals == {SIGPROF, SIGALRM}
Slots == 0 .. Size

advance(index) == (index + 1) % (Size + 1)

\* A cleared frame, and a buffer as the constructor makes it.
Zero == [frame |-> 0, isForeign |-> FALSE]
ZeroBuffer == [k \in 1 .. maxFramesToCapture |-> Zero]

Idle == [at |-> "idle", is_error |-> FALSE, slot |-> None]
EmptyHolder == [committed |-> FALSE, num_frames |-> 0, signum |-> None, threadId |-> None]

QueueInit ==
    /\ handler = [t \in Threads |-> Idle]
    /\ mainQueue = 0
    /\ input = 0 /\ output = 0
    /\ slots = [s \in Slots |-> EmptyHolder]
    /\ frame_buffer_ = [s \in Slots |-> ZeroBuffer]
    /\ captured = [s \in Slots |-> << >>]

-----------------------------------------------------------------------------
(* The signal handler *)

\* A notification that finds no room is dropped.
pushNotification == mainQueue' = IF mainQueue < MainSize THEN mainQueue + 1 ELSE mainQueue

\* The handler begins: linkable_handle, and pushError if it failed.  The
\* frames are the handler's own, and nothing depends on them or on the
\* signal, until they are in the slot: pushStackTrace chooses both.
handle(t, is_error) ==
    /\ handler[t].at = "idle"
    /\ handler' = [handler EXCEPT ![t] = [at |-> "push", is_error |-> is_error, slot |-> None]]
    /\ IF is_error THEN pushNotification ELSE UNCHANGED mainQueue
    /\ UNCHANGED <<input, output, slots, frame_buffer_, captured>>

\* acquireWrite finds the ring full: the trace is lost.  (It is counted, for
\* the statistics that are sent to the collector and for nothing else.)
Lose(t) ==
    /\ handler[t].at = "push"
    /\ advance(input) = output
    /\ handler' = [handler EXCEPT ![t] = Idle]
    /\ UNCHANGED <<mainQueue, input, output, slots, frame_buffer_, captured>>

acquireWrite(t) ==
    /\ handler[t].at = "push"
    /\ advance(input) # output
    /\ handler' = [handler EXCEPT ![t].at = "write", ![t].slot = input]
    /\ input' = advance(input)
    /\ UNCHANGED <<mainQueue, output, slots, frame_buffer_, captured>>

\* The length of a trace as CallTrace has it: negative for an error.
num_frames(walk) == IF walk.type # "SUCCESS" THEN -1 * Len(walk.frames) ELSE Len(walk.frames)

\* Mutant: an error's frames are copied too, so the length is not its sign's.
writeAll(fb, walk) ==
    [k \in DOMAIN fb |-> IF k <= Len(walk.frames) THEN walk.frames[k] ELSE fb[k]]

\* The copy of the frames; num_frames of an error is negative and copies none.
write(fb, walk) ==
    [k \in DOMAIN fb |-> IF k <= num_frames(walk) THEN walk.frames[k] ELSE fb[k]]

\* write, the other fields and commitWrite: what the walk found is in the slot.
pushStackTrace(t, walk, signum) ==
    /\ handler[t].at = "write"
    /\ handler[t].is_error <=> walk.type # "SUCCESS"
    /\ LET s == handler[t].slot IN
       /\ frame_buffer_' = [frame_buffer_ EXCEPT ![s] = write(@, walk)]
       /\ slots' = [slots EXCEPT ![s] = [committed |-> TRUE, num_frames |-> num_frames(walk),
                                          signum |-> signum, threadId |-> t]]
       /\ captured' = [captured EXCEPT ![s] = walk.frames]
    /\ handler' = [handler EXCEPT ![t] = Idle]
    /\ UNCHANGED <<mainQueue, input, output>>

\* What a handler does once it has begun.
Handler(t) ==
    \/ Lose(t)
    \/ acquireWrite(t)
    \/ \E walk \in linkable_handle, signum \in Signals : pushStackTrace(t, walk, signum)

-----------------------------------------------------------------------------
(* The consumer's side of pop, used by the queue listeners *)

\* The slot at output has been reserved, and committed.
Reserved == output # input
Ready == Reserved /\ slots[output].committed

\* Mutant: the last frame is not cleared.
CleanedShort(fb, n) == [k \in DOMAIN fb |-> IF k < n THEN Zero ELSE fb[k]]

\* The memset over the frames the trace had; none for an error.
Cleaned(fb, n) == [k \in DOMAIN fb |-> IF k <= n THEN Zero ELSE fb[k]]

\* The end of pop: clear the frames, then commitRead.  (What is left in the
\* holder is written again before it is read again.)
FinishRead ==
    /\ frame_buffer_' = [frame_buffer_ EXCEPT ![output] = Cleaned(@, slots[output].num_frames)]
    /\ slots' = [slots EXCEPT ![output] = EmptyHolder]
    /\ output' = advance(output)
    /\ captured' = [captured EXCEPT ![output] = << >>]
    /\ UNCHANGED <<handler, input>>

-----------------------------------------------------------------------------
(* Properties of the queue *)

\* The frames a listener gets for a trace are the frames of the walk, at
\* most as many as the buffer has, whatever the slot was used for before.
\* (A broken trace gets none.)
FramesIntact ==
    \A s \in Slots : slots[s].committed =>
        /\ Len(captured[s]) <= maxFramesToCapture
        /\ \A k \in 1 .. maxFramesToCapture :
              frame_buffer_[s][k] =
                  IF k <= slots[s].num_frames THEN captured[s][k] ELSE Zero

==============================================================================
