---------------------------- MODULE InternalQueue ----------------------------
(***************************************************************************)
(* The lock-free ring of lib/internal_queue.h, at the granularity of its   *)
(* atomic operations.  Producers are the threads and signal handlers that  *)
(* push (CircularQueue's push methods are acquireWrite, the writes to the  *)
(* slot, commitWrite); the consumer is the processor thread (pop is        *)
(* acquireRead, the listener call, commitRead).  Atomics are sequentially  *)
(* consistent here, which is what the relaxed and release/acquire orders   *)
(* of the code give on x86.                                                *)
(***************************************************************************)
EXTENDS Integers, FiniteSets

CONSTANTS Size,       \* the template argument Size
          Producers,
          Items,
          None,       \* no item, no producer
          Timely      \* TRUE: no producer is stalled between its check and
                      \* its CAS for as long as the ring takes to go round

ASSUME SizeAssumption == Size \in Nat \ {0}
ASSUME NoneAssumption == None \notin Items \cup Producers
ASSUME TimelyAssumption == Timely \in BOOLEAN

Capacity == Size + 1
Slots == 0 .. Size

\* Mutant: the index does not wrap.
advanceUnwrapped(index) == index + 1

advance(index) == (index + 1) % Capacity

VARIABLES
    input,        \* next slot to reserve
    output,       \* next slot to read
    is_committed, \* per slot: COMMITTED or UNCOMMITTED, as a Boolean
    content,      \* per slot: what was last written to it
    pc,           \* per producer: where it is in its push
    currentInput, \* per producer: the local of acquireWrite
    item,         \* per producer: what it is pushing
    cpc,          \* where the consumer is in its pop
    inHand        \* what the consumer's listener was given

queueVars == <<input, output, is_committed, content>>
producerVars == <<pc, currentInput, item>>
consumerVars == <<cpc, inHand>>
vars == <<input, output, is_committed, content, pc, currentInput, item, cpc, inHand>>

Init ==
    /\ input = 0
    /\ output = 0
    /\ is_committed = [s \in Slots |-> FALSE]
    /\ content = [s \in Slots |-> None]
    /\ pc = [p \in Producers |-> "idle"]
    /\ currentInput = [p \in Producers |-> 0]
    /\ item = [p \in Producers |-> None]
    /\ cpc = "idle"
    /\ inHand = None

-----------------------------------------------------------------------------
(* acquireWrite *)

\* A push begins with some item.
Push(p, i) ==
    /\ pc[p] = "idle"
    /\ pc' = [pc EXCEPT ![p] = "load"]
    /\ item' = [item EXCEPT ![p] = i]
    /\ UNCHANGED <<queueVars, currentInput, consumerVars>>

\* currentInput = input.load()
LoadInput(p) ==
    /\ pc[p] = "load"
    /\ currentInput' = [currentInput EXCEPT ![p] = input]
    /\ pc' = [pc EXCEPT ![p] = "check"]
    /\ UNCHANGED <<queueVars, item, consumerVars>>

\* output.load() == nextInput: there is no room, return false.
Reject(p) ==
    /\ pc[p] = "check"
    /\ output = advance(currentInput[p])
    /\ pc' = [pc EXCEPT ![p] = "idle"]
    /\ UNCHANGED <<queueVars, currentInput, item, consumerVars>>

\* Mutant: the sentinel slot is used too.
HasRoomNoSentinel(p) ==
    /\ pc[p] = "check"
    /\ pc' = [pc EXCEPT ![p] = "cas"]
    /\ UNCHANGED <<queueVars, currentInput, item, consumerVars>>

\* There is room: go on to the compare-exchange.
HasRoom(p) ==
    /\ pc[p] = "check"
    /\ output # advance(currentInput[p])
    /\ pc' = [pc EXCEPT ![p] = "cas"]
    /\ UNCHANGED <<queueVars, currentInput, item, consumerVars>>

\* The environment assumption behind Timely.  input would come back to the
\* value another producer loaded before that producer tries its CAS.
Laps(p) ==
    \E q \in Producers \ {p} :
        pc[q] = "cas" /\ currentInput[q] = advance(input)

\* The compare-exchange succeeds: slot currentInput[p] is p's.
CasSucceeds(p) ==
    /\ pc[p] = "cas"
    /\ input = currentInput[p]
    /\ Timely => ~Laps(p)
    /\ input' = advance(currentInput[p])
    /\ pc' = [pc EXCEPT ![p] = "write"]
    /\ UNCHANGED <<output, is_committed, content, currentInput, item, consumerVars>>

\* The compare-exchange fails: round the loop again.
CasFails(p) ==
    /\ pc[p] = "cas"
    /\ input # currentInput[p]
    /\ pc' = [pc EXCEPT ![p] = "load"]
    /\ UNCHANGED <<queueVars, currentInput, item, consumerVars>>

(* The push methods of CircularQueue: fill the slot, then commitWrite. *)
WriteSlot(p) ==
    /\ pc[p] = "write"
    /\ content' = [content EXCEPT ![currentInput[p]] = item[p]]
    /\ pc' = [pc EXCEPT ![p] = "commit"]
    /\ UNCHANGED <<input, output, is_committed, currentInput, item, consumerVars>>

\* Mutant: the early return of a failed push that reserved its slot.
CommitForgotten(p) ==
    /\ pc[p] = "commit"
    /\ pc' = [pc EXCEPT ![p] = "idle"]
    /\ UNCHANGED <<queueVars, currentInput, item, consumerVars>>

commitWrite(p) ==
    /\ pc[p] = "commit"
    /\ is_committed' = [is_committed EXCEPT ![currentInput[p]] = TRUE]
    /\ pc' = [pc EXCEPT ![p] = "idle"]
    /\ UNCHANGED <<input, output, content, currentInput, item, consumerVars>>

-----------------------------------------------------------------------------
(* acquireRead and commitRead, called by CircularQueue::pop *)

\* currentOutput = output.load(); only the consumer stores output, so
\* output itself stands for the local.  An empty queue returns false.
FindEntry ==
    /\ cpc = "idle"
    /\ output # input
    /\ cpc' = "wait"
    /\ UNCHANGED <<queueVars, producerVars, inHand>>

\* Mutant: the consumer does not wait for the producer to finish writing.
ReadUncommitted ==
    /\ cpc = "wait"
    /\ inHand' = content[output]
    /\ cpc' = "read"
    /\ UNCHANGED <<queueVars, producerVars>>

\* The spin of acquireRead ends and the listener is handed the entry.
AwaitCommitted ==
    /\ cpc = "wait"
    /\ is_committed[output]
    /\ inHand' = content[output]
    /\ cpc' = "read"
    /\ UNCHANGED <<queueVars, producerVars>>

\* Mutant: the slot is given back still marked as committed.
ResetForgotten ==
    /\ cpc = "read"
    /\ cpc' = "advance"
    /\ UNCHANGED <<queueVars, producerVars, inHand>>

\* commitRead, first store: is_committed = UNCOMMITTED.
ResetSlot ==
    /\ cpc = "read"
    /\ is_committed' = [is_committed EXCEPT ![output] = FALSE]
    /\ cpc' = "advance"
    /\ UNCHANGED <<input, output, content, producerVars, inHand>>

\* commitRead, second store: output = advance(position).
AdvanceOutput ==
    /\ cpc = "advance"
    /\ output' = advance(output)
    /\ inHand' = None
    /\ cpc' = "idle"
    /\ UNCHANGED <<input, is_committed, content, producerVars>>

-----------------------------------------------------------------------------
\* What a producer does once its push has begun.
Producer(p) ==
    \/ LoadInput(p)
    \/ Reject(p)
    \/ HasRoom(p)
    \/ CasSucceeds(p)
    \/ CasFails(p)
    \/ WriteSlot(p)
    \/ commitWrite(p)

Consumer ==
    \/ FindEntry
    \/ AwaitCommitted
    \/ ResetSlot
    \/ AdvanceOutput

Next ==
    \/ \E p \in Producers, i \in Items : Push(p, i)
    \/ \E p \in Producers : Producer(p)
    \/ Consumer

Spec == Init /\ [][Next]_vars

(* Producers run to the end of their push and the processor thread keeps   *)
(* polling; nothing forces a producer to start one.                        *)
FairSpec ==
    /\ Spec
    /\ \A p \in Producers : WF_vars(Producer(p))
    /\ WF_vars(Consumer)

-----------------------------------------------------------------------------
(* Properties *)

\* The steps from one index forward to another.
Distance(from, to) == IF from <= to THEN to - from ELSE to - from + Capacity

\* The slots from output up to, not including, input.
Occupied(s) == Distance(output, s) < Distance(output, input)

\* p has reserved slot currentInput[p] and not yet committed it.
Holds(p) == pc[p] \in {"write", "commit"}

\* The type of every variable.
TypeOK ==
    /\ input \in Slots
    /\ output \in Slots
    /\ is_committed \in [Slots -> BOOLEAN]
    /\ content \in [Slots -> Items \cup {None}]
    /\ pc \in [Producers -> {"idle", "load", "check", "cas", "write", "commit"}]
    /\ currentInput \in [Producers -> Slots]
    /\ item \in [Producers -> Items \cup {None}]
    /\ cpc \in {"idle", "wait", "read", "advance"}
    /\ inHand \in Items \cup {None}

\* A slot a producer is filling is its own: it lies between output and
\* input, no other producer fills it, it is not committed yet and the
\* consumer is not reading it (acquireWrite/commitWrite against
\* acquireRead/commitRead).
SlotOwnership ==
    /\ \A p \in Producers : Holds(p) =>
           /\ Occupied(currentInput[p])
           /\ ~is_committed[currentInput[p]]
           /\ cpc \in {"read", "advance"} => currentInput[p] # output
    /\ \A p, q \in Producers :
           Holds(p) /\ Holds(q) /\ currentInput[p] = currentInput[q] => p = q

\* The spin of acquireRead always has somebody to wait for: an occupied
\* slot is committed, or a producer is still filling it, or it is the one
\* commitRead is giving back.
NoOrphanSlot ==
    \A s \in Slots : Occupied(s) /\ ~is_committed[s] =>
        \/ \E p \in Producers : Holds(p) /\ currentInput[p] = s
        \/ s = output /\ cpc = "advance"

\* A slot outside output..input carries no stale COMMITTED mark, so that a
\* later reservation of it cannot be read before it is written.
FreeSlotsReset == \A s \in Slots : ~Occupied(s) => ~is_committed[s]

\* Strengthening: where the consumer is agrees with the slot at output.
ConsumerInv ==
    /\ cpc # "idle" => output # input
    /\ cpc = "read" => is_committed[output]
    /\ cpc = "advance" => ~is_committed[output]

\* Strengthening: a compare-exchange that would succeed still has room.
RoomInv ==
    \A p \in Producers :
        pc[p] = "cas" /\ currentInput[p] = input => output # advance(input)

\* The inductive invariant of the ring when no producer is lapped.
IInv == /\ TypeOK
        /\ SlotOwnership
        /\ NoOrphanSlot
        /\ FreeSlotsReset
        /\ ConsumerInv
        /\ RoomInv

\* The ring as a sequence of entries, oldest first: an uncommitted slot is
\* an entry whose writer holds it; the slot commitRead has reset but not
\* yet passed still counts as the entry in the consumer's hand.
Writers(s) == {p \in Producers : Holds(p) /\ currentInput[p] = s}

EntryOf(s) ==
    IF is_committed[s] \/ Writers(s) = {}
    THEN [writer |-> None, item |-> content[s]]
    ELSE LET p == CHOOSE w \in Writers(s) : TRUE
         IN  [writer |-> p, item |-> item[p]]

Contents == [k \in 1 .. Distance(output, input) |->
                EntryOf((output + k - 1) % Capacity)]

Fifo == INSTANCE BoundedFifo WITH queue <- Contents

\* The ring implements the bounded first-in first-out queue: nothing is
\* lost, duplicated, reordered or read half-written, and at most Size
\* entries are held (acquireWrite's sentinel gap).
ImplementsFifo == Fifo!Spec

\* Every reserved slot is eventually read and given back.
Drains == \A s \in Slots : Occupied(s) ~> ~Occupied(s)

==============================================================================
