----------------------------- MODULE BoundedFifo -----------------------------
(***************************************************************************)
(* What a bounded multi-producer, single-consumer queue promises.  An      *)
(* entry is reserved, then made ready by the producer that reserved it,    *)
(* and handed to the consumer in the order of the reservations, once,      *)
(* never before it is ready; its place is given back only after the        *)
(* consumer has finished with it.  InternalQueue implements this           *)
(* specification.                                                          *)
(***************************************************************************)
EXTENDS Naturals, Sequences

CONSTANTS Size,       \* how many entries the queue holds
          Producers,  \* the threads (and signal handlers) that push
          Items,      \* the values they push
          None        \* no item in the consumer's hands, no writer left

VARIABLES queue,      \* entries in the order they were reserved
          inHand      \* the item the consumer is working on

vars == <<queue, inHand>>

\* An entry still being written names its writer; writer = None is ready.
Entry == [writer : Producers \cup {None}, item : Items]

Init == /\ queue = << >>
        /\ inHand = None

\* A producer takes the next place; it has no other unfinished place.
Reserve(p, i) ==
    /\ Len(queue) < Size
    /\ \A k \in DOMAIN queue : queue[k].writer # p
    /\ queue' = Append(queue, [writer |-> p, item |-> i])
    /\ UNCHANGED inHand

\* The owner of a place finishes its entry.
Publish(p) ==
    \E k \in DOMAIN queue :
        /\ queue[k].writer = p
        /\ queue' = [queue EXCEPT ![k].writer = None]
        /\ UNCHANGED inHand

\* The consumer is handed the oldest entry, which must be ready.
Deliver ==
    /\ queue # << >>
    /\ Head(queue).writer = None
    /\ inHand = None
    /\ inHand' = Head(queue).item
    /\ UNCHANGED queue

\* The consumer has finished: the place of the oldest entry is free again.
Release ==
    /\ inHand # None
    /\ queue' = Tail(queue)
    /\ inHand' = None

Next == \/ \E p \in Producers, i \in Items : Reserve(p, i)
        \/ \E p \in Producers : Publish(p)
        \/ Deliver
        \/ Release

Spec == Init /\ [][Next]_vars

==============================================================================
