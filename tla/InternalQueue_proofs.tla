------------------------- MODULE InternalQueue_proofs -------------------------
(***************************************************************************)
(* Proofs about the lock-free ring, for every Size and every set of        *)
(* producers and items: its safety invariants, and that it implements the  *)
(* bounded first-in first-out queue.                                       *)
(***************************************************************************)
EXTENDS InternalQueue, SequenceTheorems, TLAPS

\* advance is the successor that wraps at Size (internal_queue.h:74).
LEMMA AdvanceWraps ==
    ASSUME NEW i \in Slots
    PROVE  /\ advance(i) = (IF i = Size THEN 0 ELSE i + 1)
           /\ advance(i) \in Slots
  <1>1. CASE i = Size
    <2>1. Capacity \in Nat \ {0} /\ i + 1 = Capacity
      BY <1>1, SizeAssumption DEF Capacity
    <2>2. Capacity % Capacity = 0
      BY <2>1
    <2>3. QED
      BY <1>1, <2>1, <2>2, SizeAssumption DEF advance, Slots
  <1>2. CASE i # Size
    <2>1. i + 1 \in 0 .. Capacity - 1 /\ Capacity \in Nat \ {0}
      BY <1>2, SizeAssumption DEF Capacity, Slots
    <2>2. (i + 1) % Capacity = i + 1
      BY <2>1
    <2>3. QED
      BY <1>2, <2>1, <2>2, SizeAssumption DEF advance, Slots, Capacity
  <1>3. QED
    BY <1>1, <1>2

\* The occupied slots run from output up to, not including, input.
LEMMA OccupiedEnds ==
    ASSUME input \in Slots, output \in Slots
    PROVE  /\ ~Occupied(input)
           /\ Occupied(output) <=> input # output
  BY SizeAssumption DEF Occupied, Distance, Slots, Capacity

\* Reserving a slot when there is room occupies exactly one more slot.
LEMMA ReserveOccupies ==
    ASSUME input \in Slots, output \in Slots, NEW s \in Slots,
           output # advance(input), input' = advance(input), output' = output
    PROVE  Occupied(s)' <=> Occupied(s) \/ s = input
  <1>1. input' = (IF input = Size THEN 0 ELSE input + 1)
    BY AdvanceWraps
  <1>2. output # (IF input = Size THEN 0 ELSE input + 1)
    BY AdvanceWraps
  <1>3. QED
    BY <1>1, <1>2, SizeAssumption DEF Occupied, Distance, Slots, Capacity

\* Passing a slot frees exactly that slot.
LEMMA PassFrees ==
    ASSUME input \in Slots, output \in Slots, NEW s \in Slots,
           output # input, output' = advance(output), input' = input
    PROVE  Occupied(s)' <=> Occupied(s) /\ s # output
  <1>1. output' = (IF output = Size THEN 0 ELSE output + 1)
    BY AdvanceWraps
  <1>2. QED
    BY <1>1, SizeAssumption DEF Occupied, Distance, Slots, Capacity

-----------------------------------------------------------------------------
\* The initial state satisfies the inductive invariant.
LEMMA InitIInv == Init => IInv
  <1> SUFFICES ASSUME Init PROVE IInv
    OBVIOUS
  <1>1. TypeOK
    BY SizeAssumption DEF Init, TypeOK, Slots
  <1>2. \A s \in Slots : ~is_committed[s] /\ ~Occupied(s)
    BY SizeAssumption DEF Init, Slots, Occupied, Distance, Capacity
  <1>3. SlotOwnership /\ NoOrphanSlot /\ FreeSlotsReset
    BY <1>2 DEF Init, SlotOwnership, NoOrphanSlot, FreeSlotsReset, Holds
  <1>4. ConsumerInv /\ RoomInv
    BY DEF Init, ConsumerInv, RoomInv
  <1>5. QED
    BY <1>1, <1>3, <1>4 DEF IInv

\* Every step keeps every variable in its type.
LEMMA NextType == TypeOK /\ [Next]_vars => TypeOK'
  <1> SUFFICES ASSUME TypeOK, [Next]_vars PROVE TypeOK'
    OBVIOUS
  <1>a. \A i \in Slots : advance(i) \in Slots
    BY AdvanceWraps
  <1>1. ASSUME NEW p \in Producers, NEW i \in Items, Push(p, i) PROVE TypeOK'
    BY <1>1 DEF Push, TypeOK, queueVars, consumerVars
  <1>2. ASSUME NEW p \in Producers, LoadInput(p) PROVE TypeOK'
    BY <1>2 DEF LoadInput, TypeOK, queueVars, consumerVars
  <1>3. ASSUME NEW p \in Producers, Reject(p) PROVE TypeOK'
    BY <1>3 DEF Reject, TypeOK, queueVars, consumerVars
  <1>4. ASSUME NEW p \in Producers, HasRoom(p) PROVE TypeOK'
    BY <1>4 DEF HasRoom, TypeOK, queueVars, consumerVars
  <1>5. ASSUME NEW p \in Producers, CasSucceeds(p) PROVE TypeOK'
    BY <1>5, <1>a DEF CasSucceeds, TypeOK, consumerVars
  <1>6. ASSUME NEW p \in Producers, CasFails(p) PROVE TypeOK'
    BY <1>6 DEF CasFails, TypeOK, queueVars, consumerVars
  <1>7. ASSUME NEW p \in Producers, WriteSlot(p) PROVE TypeOK'
    BY <1>7 DEF WriteSlot, TypeOK, consumerVars
  <1>8. ASSUME NEW p \in Producers, commitWrite(p) PROVE TypeOK'
    BY <1>8 DEF commitWrite, TypeOK, consumerVars
  <1>9. ASSUME FindEntry PROVE TypeOK'
    BY <1>9 DEF FindEntry, TypeOK, queueVars, producerVars
  <1>10. ASSUME AwaitCommitted PROVE TypeOK'
    BY <1>10 DEF AwaitCommitted, TypeOK, queueVars, producerVars
  <1>11. ASSUME ResetSlot PROVE TypeOK'
    BY <1>11 DEF ResetSlot, TypeOK, producerVars
  <1>12. ASSUME AdvanceOutput PROVE TypeOK'
    BY <1>12, <1>a DEF AdvanceOutput, TypeOK, producerVars
  <1>13. CASE UNCHANGED vars
    BY <1>13 DEF vars, TypeOK
  <1>14. QED
    BY <1>1, <1>2, <1>3, <1>4, <1>5, <1>6, <1>7, <1>8, <1>9, <1>10, <1>11,
       <1>12, <1>13 DEF Next, Producer, Consumer

\* The part of the ring's state that the safety invariants read, other than
\* the producers' control: a step that changes none of it and moves no
\* producer into or out of a slot keeps them.
LEMMA OutsideSlots ==
    ASSUME IInv, TypeOK', Timely,
           UNCHANGED <<input, output, is_committed, cpc>>,
           \A p \in Producers : Holds(p)' <=> Holds(p),
           \A p \in Producers : Holds(p) => currentInput'[p] = currentInput[p],
           \A p \in Producers :
               pc'[p] = "cas" =>
                   \/ pc[p] = "cas" /\ currentInput'[p] = currentInput[p]
                   \/ output # advance(currentInput'[p])
    PROVE  IInv'
  <1>1. \A s \in Slots : Occupied(s)' <=> Occupied(s)
    BY DEF Occupied, Distance
  <1>2. SlotOwnership'
    BY <1>1 DEF IInv, TypeOK, SlotOwnership
  <1>3. NoOrphanSlot'
    BY <1>1 DEF IInv, TypeOK, NoOrphanSlot
  <1>4. FreeSlotsReset'
    BY <1>1 DEF IInv, TypeOK, FreeSlotsReset
  <1>5. ConsumerInv'
    BY DEF IInv, ConsumerInv
  <1>6. RoomInv'
    BY DEF IInv, RoomInv, advance, Capacity
  <1>7. QED
    BY <1>2, <1>3, <1>4, <1>5, <1>6 DEF IInv

\* Every step of a system whose producers are not lapped keeps the invariant.
LEMMA NextIInv == Timely /\ IInv /\ [Next]_vars => IInv'
  <1> SUFFICES ASSUME Timely, IInv, [Next]_vars PROVE IInv'
    OBVIOUS
  <1>a. TypeOK /\ TypeOK'
    BY NextType DEF IInv
  <1>b. \A i \in Slots : advance(i) \in Slots
    BY AdvanceWraps
  <1>1. ASSUME NEW p \in Producers, NEW i \in Items, Push(p, i) PROVE IInv'
    BY <1>1, <1>a, OutsideSlots
       DEF Push, TypeOK, queueVars, consumerVars, Holds
  <1>2. ASSUME NEW p \in Producers, LoadInput(p) PROVE IInv'
    BY <1>2, <1>a, OutsideSlots
       DEF LoadInput, TypeOK, queueVars, consumerVars, Holds
  <1>3. ASSUME NEW p \in Producers, Reject(p) PROVE IInv'
    BY <1>3, <1>a, OutsideSlots
       DEF Reject, TypeOK, queueVars, consumerVars, Holds
  <1>4. ASSUME NEW p \in Producers, HasRoom(p) PROVE IInv'
    BY <1>4, <1>a, OutsideSlots
       DEF HasRoom, TypeOK, queueVars, consumerVars, Holds
  <1>5. ASSUME NEW p \in Producers, CasSucceeds(p) PROVE IInv'
    <2>1. /\ output # advance(input)
          /\ input' = advance(input)
          /\ output' = output
          /\ currentInput[p] = input
          /\ ~Holds(p)
      BY <1>5 DEF CasSucceeds, IInv, RoomInv, Holds
    <2>2. \A s \in Slots : Occupied(s)' <=> Occupied(s) \/ s = input
      BY <2>1, <1>a, ReserveOccupies DEF TypeOK
    <2>3. ~Occupied(input) /\ ~is_committed[input]
      BY <1>a, OccupiedEnds DEF IInv, FreeSlotsReset, TypeOK
    <2>4. /\ UNCHANGED <<is_committed, currentInput, cpc>>
          /\ Holds(p)'
          /\ \A q \in Producers \ {p} : Holds(q)' <=> Holds(q)
          /\ \A q \in Producers \ {p} : pc'[q] = pc[q]
          /\ pc'[p] = "write"
      BY <1>5, <1>a DEF CasSucceeds, TypeOK, Holds, consumerVars
    <2>5. cpc \in {"read", "advance"} => input # output
      BY DEF IInv, ConsumerInv
    <2>6. SlotOwnership'
      <3>1. ASSUME NEW q \in Producers, Holds(q)'
            PROVE  (/\ Occupied(currentInput[q])
                    /\ ~is_committed[currentInput[q]]
                    /\ cpc \in {"read", "advance"} => currentInput[q] # output)'
        <4>1. Occupied(currentInput[q])' <=>
                  Occupied(currentInput[q]) \/ currentInput[q] = input
          BY <2>1, <2>4, <1>a, ReserveOccupies DEF Occupied, TypeOK
        <4>2. CASE q = p
          BY <4>1, <4>2, <2>1, <2>3, <2>4, <2>5
        <4>3. CASE q # p
          BY <4>1, <4>3, <3>1, <2>1, <2>4 DEF IInv, SlotOwnership
        <4>4. QED
          BY <4>2, <4>3
      <3>2. ASSUME NEW q \in Producers, NEW r \in Producers,
                   Holds(q)', Holds(r)', currentInput'[q] = currentInput'[r]
            PROVE  q = r
        BY <3>2, <2>1, <2>3, <2>4, <1>a DEF IInv, SlotOwnership
      <3>3. QED
        BY <3>1, <3>2 DEF SlotOwnership
    <2>7. NoOrphanSlot'
      BY <2>1, <2>2, <2>4, <1>a DEF IInv, NoOrphanSlot, TypeOK
    <2>8. FreeSlotsReset'
      BY <2>2, <2>4, <1>a DEF IInv, FreeSlotsReset, TypeOK
    <2>9. ConsumerInv'
      BY <2>1, <2>4, <1>a DEF IInv, ConsumerInv, TypeOK
    <2>10. RoomInv'
      <3>1. \A q \in Producers \ {p} :
                ~(pc[q] = "cas" /\ currentInput[q] = advance(input))
        BY <1>5 DEF CasSucceeds, Laps
      <3>2. QED
        BY <3>1, <2>1, <2>4 DEF RoomInv
    <2>11. QED
      BY <2>6, <2>7, <2>8, <2>9, <2>10, <1>a DEF IInv
  <1>6. ASSUME NEW p \in Producers, CasFails(p) PROVE IInv'
    BY <1>6, <1>a, OutsideSlots
       DEF CasFails, TypeOK, queueVars, consumerVars, Holds
  <1>7. ASSUME NEW p \in Producers, WriteSlot(p) PROVE IInv'
    BY <1>7, <1>a, OutsideSlots
       DEF WriteSlot, TypeOK, consumerVars, Holds
  <1>8. ASSUME NEW p \in Producers, commitWrite(p) PROVE IInv'
    <2>1. /\ UNCHANGED <<input, output, currentInput, cpc>>
          /\ is_committed' = [is_committed EXCEPT ![currentInput[p]] = TRUE]
          /\ Holds(p) /\ ~Holds(p)'
          /\ \A q \in Producers \ {p} : Holds(q)' <=> Holds(q)
          /\ \A q \in Producers : pc'[q] = "cas" => pc[q] = "cas"
      BY <1>8, <1>a DEF commitWrite, TypeOK, Holds, consumerVars
    <2>2. \A s \in Slots : Occupied(s)' <=> Occupied(s)
      BY <2>1 DEF Occupied, Distance
    <2>3. /\ Occupied(currentInput[p])
          /\ cpc \in {"read", "advance"} => currentInput[p] # output
          /\ currentInput[p] \in Slots
          /\ \A q \in Producers \ {p} :
                 Holds(q) => currentInput[q] # currentInput[p]
      BY <2>1, <1>a DEF IInv, SlotOwnership, TypeOK
    <2>4. \A s \in Slots \ {currentInput[p]} : is_committed'[s] = is_committed[s]
      BY <2>1, <1>a DEF TypeOK
    <2>5. is_committed'[currentInput[p]]
      BY <2>1, <2>3, <1>a DEF TypeOK
    <2>6. SlotOwnership'
      BY <2>1, <2>2, <2>3, <2>4, <1>a DEF IInv, SlotOwnership, TypeOK
    <2>7. NoOrphanSlot'
      BY <2>1, <2>2, <2>3, <2>4, <2>5, <1>a DEF IInv, NoOrphanSlot, TypeOK
    <2>8. FreeSlotsReset'
      BY <2>2, <2>3, <2>4, <1>a DEF IInv, FreeSlotsReset, TypeOK
    <2>9. ConsumerInv'
      BY <2>1, <2>3, <2>4, <2>5, <1>a DEF IInv, ConsumerInv, TypeOK
    <2>10. RoomInv'
      BY <2>1 DEF IInv, RoomInv, advance, Capacity
    <2>11. QED
      BY <2>6, <2>7, <2>8, <2>9, <2>10, <1>a DEF IInv
  <1>9. ASSUME FindEntry PROVE IInv'
    <2>1. /\ UNCHANGED <<input, output, is_committed, pc, currentInput>>
          /\ cpc = "idle" /\ cpc' = "wait" /\ output # input
      BY <1>9 DEF FindEntry, queueVars, producerVars
    <2>2. \A s \in Slots : Occupied(s)' <=> Occupied(s)
      BY <2>1 DEF Occupied, Distance
    <2>3. QED
      BY <2>1, <2>2, <1>a DEF IInv, SlotOwnership, NoOrphanSlot,
         FreeSlotsReset, ConsumerInv, RoomInv, Holds, TypeOK, advance, Capacity
  <1>10. ASSUME AwaitCommitted PROVE IInv'
    <2>1. /\ UNCHANGED <<input, output, is_committed, pc, currentInput>>
          /\ cpc = "wait" /\ cpc' = "read" /\ is_committed[output]
      BY <1>10 DEF AwaitCommitted, queueVars, producerVars
    <2>2. \A s \in Slots : Occupied(s)' <=> Occupied(s)
      BY <2>1 DEF Occupied, Distance
    <2>3. QED
      BY <2>1, <2>2, <1>a DEF IInv, SlotOwnership, NoOrphanSlot,
         FreeSlotsReset, ConsumerInv, RoomInv, Holds, TypeOK, advance, Capacity
  <1>11. ASSUME ResetSlot PROVE IInv'
    <2>1. /\ UNCHANGED <<input, output, pc, currentInput>>
          /\ cpc = "read" /\ cpc' = "advance" /\ output # input
          /\ is_committed' = [is_committed EXCEPT ![output] = FALSE]
      BY <1>11 DEF ResetSlot, producerVars, IInv, ConsumerInv
    <2>2. \A s \in Slots : Occupied(s)' <=> Occupied(s)
      BY <2>1 DEF Occupied, Distance
    <2>3. /\ ~is_committed'[output]
          /\ \A s \in Slots \ {output} : is_committed'[s] = is_committed[s]
      BY <2>1, <1>a DEF TypeOK
    <2>4. SlotOwnership'
      BY <2>1, <2>2, <2>3, <1>a DEF IInv, SlotOwnership, Holds, TypeOK
    <2>5. NoOrphanSlot' /\ FreeSlotsReset'
      BY <2>1, <2>2, <2>3, <1>a
         DEF IInv, NoOrphanSlot, FreeSlotsReset, Holds, TypeOK
    <2>6. ConsumerInv' /\ RoomInv'
      BY <2>1, <2>3 DEF IInv, ConsumerInv, RoomInv, advance, Capacity
    <2>7. QED
      BY <2>4, <2>5, <2>6, <1>a DEF IInv
  <1>12. ASSUME AdvanceOutput PROVE IInv'
    <2>1. /\ UNCHANGED <<input, is_committed, pc, currentInput>>
          /\ cpc = "advance" /\ cpc' = "idle" /\ output # input
          /\ output' = advance(output)
          /\ ~is_committed[output]
      BY <1>12 DEF AdvanceOutput, producerVars, IInv, ConsumerInv
    <2>2. \A s \in Slots : Occupied(s)' <=> Occupied(s) /\ s # output
      BY <2>1, <1>a, PassFrees DEF TypeOK
    <2>3. SlotOwnership'
      BY <2>1, <2>2, <1>a DEF IInv, SlotOwnership, Holds, TypeOK
    <2>4. NoOrphanSlot' /\ FreeSlotsReset'
      BY <2>1, <2>2, <1>a DEF IInv, NoOrphanSlot, FreeSlotsReset, Holds, TypeOK
    <2>5. ConsumerInv'
      BY <2>1 DEF ConsumerInv
    <2>6. RoomInv'
      <3>1. advance(output) # advance(input)
        BY <2>1, <1>a, AdvanceWraps, SizeAssumption DEF TypeOK, Slots
      <3>2. QED
        BY <3>1, <2>1 DEF RoomInv, advance, Capacity
    <2>7. QED
      BY <2>3, <2>4, <2>5, <2>6, <1>a DEF IInv
  <1>13. CASE UNCHANGED vars
    BY <1>13, <1>a, OutsideSlots DEF vars, Holds
  <1>14. QED
    BY <1>1, <1>2, <1>3, <1>4, <1>5, <1>6, <1>7, <1>8, <1>9, <1>10, <1>11,
       <1>12, <1>13 DEF Next, Producer, Consumer

-----------------------------------------------------------------------------
\* Every variable of the ring keeps its type, lapped or not.
THEOREM TypeCorrect == Spec => []TypeOK
  <1>1. Init => TypeOK
    BY InitIInv DEF IInv
  <1>2. QED
    BY <1>1, NextType, PTL DEF Spec

\* If no producer is lapped, a slot being filled belongs to one producer
\* alone and is never read, whatever the size of the ring.
THEOREM OwnershipSafe == Timely => (Spec => []SlotOwnership)
  <1> SUFFICES ASSUME Timely PROVE Spec => []SlotOwnership
    OBVIOUS
  <1>1. IInv /\ [Next]_vars => IInv'
    BY NextIInv
  <1>2. IInv => SlotOwnership
    BY DEF IInv
  <1>3. QED
    BY InitIInv, <1>1, <1>2, PTL DEF Spec

\* If no producer is lapped, the consumer only ever waits for a slot that a
\* producer is filling.
THEOREM WaitSafe == Timely => (Spec => []NoOrphanSlot)
  <1> SUFFICES ASSUME Timely PROVE Spec => []NoOrphanSlot
    OBVIOUS
  <1>1. IInv /\ [Next]_vars => IInv'
    BY NextIInv
  <1>2. IInv => NoOrphanSlot
    BY DEF IInv
  <1>3. QED
    BY InitIInv, <1>1, <1>2, PTL DEF Spec

\* If no producer is lapped, a free slot is never marked committed, so that
\* its next reservation cannot be read before it is written.
THEOREM ResetSafe == Timely => (Spec => []FreeSlotsReset)
  <1> SUFFICES ASSUME Timely PROVE Spec => []FreeSlotsReset
    OBVIOUS
  <1>1. IInv /\ [Next]_vars => IInv'
    BY NextIInv
  <1>2. IInv => FreeSlotsReset
    BY DEF IInv
  <1>3. QED
    BY InitIInv, <1>1, <1>2, PTL DEF Spec

-----------------------------------------------------------------------------
(* The ring implements BoundedFifo, if no producer is lapped.  The mapping *)
(* is Contents of InternalQueue.                                           *)

\* The slot of the k-th entry.
SlotOf(k) == (output + k - 1) % Capacity

\* What the ring holds in place of the entries of BoundedFifo.
Held == [writer : Producers \cup {None}, item : Items \cup {None}]

\* Strengthening of the inductive invariant by the data: who pushes has an
\* item, a slot that is about to be committed holds it, and the consumer has
\* the content of the slot at output in hand.
DataInv ==
    /\ \A p \in Producers : pc[p] # "idle" => item[p] \in Items
    /\ \A p \in Producers : pc[p] = "commit" => content[currentInput[p]] = item[p]
    /\ \A s \in Slots : is_committed[s] => content[s] \in Items
    /\ inHand # None <=> cpc \in {"read", "advance"}
    /\ cpc \in {"read", "advance"} => content[output] = inHand

\* The number of entries.
LEMMA DistanceType ==
    ASSUME NEW a \in Slots, NEW b \in Slots
    PROVE  /\ Distance(a, b) \in 0 .. Size
           /\ Distance(a, b) = 0 <=> a = b
  BY SizeAssumption DEF Distance, Slots, Capacity

\* The entries' slots are the occupied ones, one each.
LEMMA SlotOfEntry ==
    TypeOK =>
        \A k \in 1 .. Distance(output, input) :
            SlotOf(k) \in Slots /\ Distance(output, SlotOf(k)) = k - 1
  <1> SUFFICES ASSUME TypeOK, NEW k \in 1 .. Distance(output, input)
               PROVE  SlotOf(k) \in Slots /\ Distance(output, SlotOf(k)) = k - 1
    OBVIOUS
  <1>1. /\ Size \in Nat \ {0} /\ Capacity = Size + 1
        /\ output \in 0 .. Size /\ k \in 1 .. Size
    BY SizeAssumption, DistanceType DEF TypeOK, Capacity, Slots
  <1>2. CASE output + k - 1 <= Size
    <2>1. output + k - 1 \in 0 .. Capacity - 1
      BY <1>1, <1>2
    <2>2. (output + k - 1) % Capacity = output + k - 1
      BY <1>1, <2>1
    <2>3. QED
      BY <1>1, <1>2, <2>2 DEF SlotOf, Slots, Distance
  <1>3. CASE ~(output + k - 1 <= Size)
    <2>1. output + k - 1 - Capacity \in 0 .. Capacity - 1
      BY <1>1, <1>3
    <2>2. (output + k - 1) % Capacity = output + k - 1 - Capacity
      BY <1>1, <2>1
    <2>3. QED
      BY <1>1, <1>3, <2>1, <2>2 DEF SlotOf, Slots, Distance
  <1>4. QED
    BY <1>2, <1>3

\* The same of the next state.
LEMMA SlotOfEntryNext ==
    (TypeOK =>
        \A k \in 1 .. Distance(output, input) :
            SlotOf(k) \in Slots /\ Distance(output, SlotOf(k)) = k - 1)'
  BY SlotOfEntry, PTL

\* Two slots at the same distance are one.
LEMMA DistanceInjective ==
    ASSUME NEW a \in Slots, NEW b \in Slots, NEW c \in Slots,
           Distance(a, b) = Distance(a, c)
    PROVE  b = c
  BY SizeAssumption DEF Distance, Slots, Capacity

\* The entry of a slot its writer holds, and of one nobody holds.
EntryFacts(s) ==
    /\ EntryOf(s) \in Held
    /\ is_committed[s] => EntryOf(s) = [writer |-> None, item |-> content[s]]
    /\ (\A p \in Producers : ~(Holds(p) /\ currentInput[p] = s)) =>
           EntryOf(s) = [writer |-> None, item |-> content[s]]
    /\ \A p \in Producers : Holds(p) /\ currentInput[p] = s =>
           EntryOf(s) = [writer |-> p, item |-> item[p]]

LEMMA EntryOfSlot == TypeOK /\ SlotOwnership => \A s \in Slots : EntryFacts(s)
  <1> SUFFICES ASSUME TypeOK, SlotOwnership, NEW s \in Slots PROVE EntryFacts(s)
    OBVIOUS
  <1>1. ASSUME NEW p \in Producers, Holds(p), currentInput[p] = s
        PROVE  ~is_committed[s] /\ Writers(s) = {p}
    BY <1>1 DEF SlotOwnership, Writers
  <1>2. ASSUME NEW p \in Producers, Holds(p), currentInput[p] = s
        PROVE  EntryOf(s) = [writer |-> p, item |-> item[p]]
    BY <1>1, <1>2 DEF EntryOf
  <1>3. ASSUME \A p \in Producers : ~(Holds(p) /\ currentInput[p] = s)
        PROVE  EntryOf(s) = [writer |-> None, item |-> content[s]]
    BY <1>3 DEF EntryOf, Writers
  <1>4. is_committed[s] => EntryOf(s) = [writer |-> None, item |-> content[s]]
    BY DEF EntryOf
  <1>5. EntryOf(s) \in Held
    BY <1>2, <1>3 DEF Held, TypeOK
  <1>6. QED
    BY <1>2, <1>3, <1>4, <1>5 DEF EntryFacts

\* The same of the next state.
LEMMA EntryOfSlotNext == (TypeOK /\ SlotOwnership => \A s \in Slots : EntryFacts(s))'
  BY EntryOfSlot, PTL

\* Contents is a sequence of them.
LEMMA ContentsSeq ==
    TypeOK /\ SlotOwnership =>
        /\ Contents \in Seq(Held)
        /\ Len(Contents) = Distance(output, input)
        /\ \A k \in 1 .. Distance(output, input) :
               Contents[k] = EntryOf(SlotOf(k))
  <1> SUFFICES ASSUME TypeOK, SlotOwnership
               PROVE  /\ Contents \in Seq(Held)
                      /\ Len(Contents) = Distance(output, input)
                      /\ \A k \in 1 .. Distance(output, input) :
                             Contents[k] = EntryOf(SlotOf(k))
    OBVIOUS
  <1>1. Distance(output, input) \in Nat
    BY DistanceType DEF TypeOK
  <1>2. \A k \in 1 .. Distance(output, input) : EntryOf(SlotOf(k)) \in Held
    BY SlotOfEntry, EntryOfSlot DEF EntryFacts
  <1>3. Contents = [k \in 1 .. Distance(output, input) |-> EntryOf(SlotOf(k))]
    BY DEF Contents, SlotOf
  <1>4. QED
    BY <1>1, <1>2, <1>3

\* The same of the next state.
LEMMA ContentsSeqNext ==
    (TypeOK /\ SlotOwnership =>
        /\ Contents \in Seq(Held)
        /\ Len(Contents) = Distance(output, input)
        /\ \A k \in 1 .. Distance(output, input) :
               Contents[k] = EntryOf(SlotOf(k)))'
  BY ContentsSeq, PTL

\* A step that changes neither who holds a slot nor what its holder pushes
\* keeps its entry; the content counts only where nobody holds the slot.
LEMMA EntryKept ==
    ASSUME NEW s \in Slots,
           is_committed'[s] = is_committed[s],
           \A p \in Producers :
               (Holds(p) /\ currentInput[p] = s)' <=> Holds(p) /\ currentInput[p] = s,
           \A p \in Producers :
               Holds(p) /\ currentInput[p] = s => item'[p] = item[p],
           content'[s] = content[s] \/
               (~is_committed[s] /\ \E p \in Producers : Holds(p) /\ currentInput[p] = s)
    PROVE  EntryOf(s)' = EntryOf(s)
  <1>1. Writers(s)' = Writers(s)
    BY DEF Writers
  <1>2. CASE is_committed[s] \/ Writers(s) = {}
    BY <1>1, <1>2 DEF EntryOf, Writers
  <1>3. CASE ~(is_committed[s] \/ Writers(s) = {})
    <2> DEFINE w == CHOOSE q \in Writers(s) : TRUE
    <2>1. w \in Writers(s)
      BY <1>3
    <2>2. item'[w] = item[w]
      BY <2>1 DEF Writers
    <2>3. QED
      BY <1>1, <1>3, <2>2 DEF EntryOf
  <1>4. QED
    BY <1>2, <1>3

\* A step that keeps the ends of the ring and all entries is a stutter.
LEMMA ContentsKept ==
    ASSUME TypeOK, UNCHANGED <<input, output>>,
           \A s \in Slots : EntryOf(s)' = EntryOf(s)
    PROVE  Contents' = Contents
  <1>1. \A k \in 1 .. Distance(output, input) : EntryOf(SlotOf(k))' = EntryOf(SlotOf(k))
    <2> SUFFICES ASSUME NEW k \in 1 .. Distance(output, input)
                 PROVE  EntryOf(SlotOf(k))' = EntryOf(SlotOf(k))
      OBVIOUS
    <2>1. SlotOf(k) \in Slots /\ SlotOf(k)' = SlotOf(k)
      BY SlotOfEntry DEF SlotOf
    <2>2. QED
      BY <2>1
  <1>2. QED
    BY <1>1 DEF Contents, SlotOf, Distance

-----------------------------------------------------------------------------
\* Every step keeps the data where the invariant says it is: only the
\* producer that holds a slot writes to it.
LEMMA NextDataInv == Timely /\ IInv /\ DataInv /\ [Next]_vars => DataInv'
  <1> SUFFICES ASSUME Timely, IInv, DataInv, [Next]_vars PROVE DataInv'
    OBVIOUS
  <1>a. TypeOK /\ TypeOK' /\ SlotOwnership /\ ConsumerInv
    BY NextType DEF IInv
  <1>1. ASSUME NEW p \in Producers, NEW i \in Items, Push(p, i) PROVE DataInv'
    BY <1>1, <1>a DEF Push, TypeOK, queueVars, consumerVars, DataInv
  <1>2. ASSUME NEW p \in Producers,
               LoadInput(p) \/ Reject(p) \/ HasRoom(p) \/ CasSucceeds(p) \/ CasFails(p)
        PROVE  DataInv'
    BY <1>2, <1>a DEF LoadInput, Reject, HasRoom, CasSucceeds, CasFails, TypeOK,
       queueVars, consumerVars, DataInv
  <1>3. ASSUME NEW p \in Producers, WriteSlot(p) PROVE DataInv'
    <2>1. \A q \in Producers : pc[q] = "commit" => currentInput[q] # currentInput[p]
      BY <1>3, <1>a DEF WriteSlot, SlotOwnership, Holds
    <2>2. /\ ~is_committed[currentInput[p]]
          /\ cpc \in {"read", "advance"} => currentInput[p] # output
      BY <1>3, <1>a DEF WriteSlot, SlotOwnership, Holds
    <2>3. QED
      BY <1>3, <1>a, <2>1, <2>2 DEF WriteSlot, TypeOK, consumerVars, DataInv
  <1>4. ASSUME NEW p \in Producers, commitWrite(p) PROVE DataInv'
    BY <1>4, <1>a DEF commitWrite, TypeOK, consumerVars, DataInv
  <1>5. CASE FindEntry
    BY <1>5, <1>a DEF FindEntry, queueVars, producerVars, DataInv
  <1>6. CASE AwaitCommitted
    BY <1>6, <1>a, NoneAssumption DEF AwaitCommitted, queueVars, producerVars, DataInv, TypeOK
  <1>7. CASE ResetSlot
    BY <1>7, <1>a DEF ResetSlot, producerVars, DataInv, TypeOK
  <1>8. CASE AdvanceOutput
    BY <1>8, <1>a DEF AdvanceOutput, producerVars, DataInv
  <1>9. CASE UNCHANGED vars
    BY <1>9 DEF vars, DataInv
  <1>10. QED
    BY <1>1, <1>2, <1>3, <1>4, <1>5, <1>6, <1>7, <1>8, <1>9 DEF Next, Producer, Consumer

-----------------------------------------------------------------------------
(* The steps of the ring, as steps of the queue *)

\* A compare-exchange that succeeds reserves a place at the end.
LEMMA CasReserves ==
    ASSUME IInv, IInv', DataInv, NEW p \in Producers, CasSucceeds(p)
    PROVE  Fifo!Reserve(p, item[p])
  <1> DEFINE e == [writer |-> p, item |-> item[p]]
  <1> PICK D \in 0 .. Size : D = Distance(output, input)
    BY DistanceType DEF IInv, TypeOK
  <1>a. TypeOK /\ TypeOK' /\ SlotOwnership /\ SlotOwnership'
    BY DEF IInv
  <1>1. /\ output # advance(input) /\ input' = advance(input) /\ output' = output
        /\ currentInput[p] = input /\ pc[p] = "cas" /\ pc' = [pc EXCEPT ![p] = "write"]
        /\ UNCHANGED <<is_committed, content, currentInput, item, inHand>>
    BY DEF CasSucceeds, IInv, RoomInv, consumerVars
  <1>2. D < Size /\ Distance(output, input)' = D + 1
    <2>1. advance(input) = IF input = Size THEN 0 ELSE input + 1
      BY <1>a, AdvanceWraps DEF TypeOK
    <2>2. QED
      BY <1>1, <1>a, <2>1, SizeAssumption DEF Distance, TypeOK, Slots, Capacity
  <1>3. /\ Contents \in Seq(Held) /\ Len(Contents) = D
        /\ \A k \in 1 .. D : Contents[k] = EntryOf(SlotOf(k))
    BY <1>a, ContentsSeq
  <1>4. /\ Contents' \in Seq(Held) /\ Len(Contents') = D + 1
        /\ \A k \in 1 .. D + 1 : Contents'[k] = EntryOf(SlotOf(k))'
    BY <1>a, <1>2, ContentsSeqNext
  <1>5. \A s \in Slots \ {input} : EntryOf(s)' = EntryOf(s)
    <2> SUFFICES ASSUME NEW s \in Slots, s # input PROVE EntryOf(s)' = EntryOf(s)
      OBVIOUS
    <2>1. \A q \in Producers :
              (Holds(q) /\ currentInput[q] = s)' <=> Holds(q) /\ currentInput[q] = s
      BY <1>1, <1>a DEF Holds, TypeOK
    <2>2. QED
      BY <1>1, <2>1, EntryKept
  <1>6. \A k \in 1 .. D : Contents'[k] = Contents[k]
    <2> SUFFICES ASSUME NEW k \in 1 .. D PROVE Contents'[k] = Contents[k]
      OBVIOUS
    <2>1. SlotOf(k) \in Slots /\ Distance(output, SlotOf(k)) = k - 1 /\ SlotOf(k)' = SlotOf(k)
      BY <1>1, <1>a, SlotOfEntry DEF SlotOf
    <2>2. SlotOf(k) # input
      BY <2>1, <1>2
    <2>3. k \in 1 .. D + 1
      BY <1>2
    <2>4. QED
      BY <1>3, <1>4, <1>5, <2>1, <2>2, <2>3
  <1>7. Contents'[D + 1] = e
    <2>1. D + 1 \in 1 .. Distance(output, input)'
      BY <1>2
    <2>2. SlotOf(D + 1)' \in Slots /\ Distance(output', SlotOf(D + 1)') = D
      BY <2>1, <1>2, <1>a, SlotOfEntryNext DEF Distance, Slots, Capacity
    <2> PICK s \in Slots : s = input
      BY <1>a DEF TypeOK
    <2>3. SlotOf(D + 1)' = s
      BY <2>2, <1>1, <1>a, DistanceInjective DEF TypeOK
    <2>4. Holds(p)' /\ currentInput'[p] = s /\ item'[p] = item[p]
      BY <1>1, <1>a DEF Holds, TypeOK
    <2>5. EntryOf(s)' = e
      BY <2>4, <1>1, <1>a, EntryOfSlotNext DEF EntryFacts, TypeOK
    <2>6. QED
      BY <1>2, <1>4, <2>3, <2>5
  <1>8. e \in Held /\ item[p] \in Items
    BY <1>1 DEF DataInv, Held
  <1>9. Contents' = Append(Contents, e)
    BY <1>2, <1>3, <1>4, <1>6, <1>7, <1>8, AppendProperties, SeqEqual
  <1>10. \A k \in DOMAIN Contents : Contents[k].writer # p
    <2> SUFFICES ASSUME NEW k \in 1 .. D PROVE EntryOf(SlotOf(k)).writer # p
      BY <1>3
    <2>1. SlotOf(k) \in Slots
      BY <1>a, SlotOfEntry
    <2>2. ~Holds(p) /\ p # None
      BY <1>1, NoneAssumption DEF Holds
    <2>3. QED
      BY <2>1, <2>2, <1>a, EntryOfSlot DEF EntryFacts
  <1>11. QED
    BY <1>1, <1>2, <1>3, <1>9, <1>10 DEF Fifo!Reserve

\* commitWrite makes the entry ready.
LEMMA CommitPublishes ==
    ASSUME IInv, IInv', DataInv, NEW p \in Producers, commitWrite(p)
    PROVE  Fifo!Publish(p)
  <1>a. TypeOK /\ TypeOK' /\ SlotOwnership /\ SlotOwnership'
    BY DEF IInv
  <1> PICK s \in Slots : s = currentInput[p]
    BY <1>a DEF TypeOK
  <1> PICK D \in 0 .. Size : D = Distance(output, input)
    BY <1>a, DistanceType DEF TypeOK
  <1>1. /\ UNCHANGED <<input, output, content, currentInput, item, inHand>>
        /\ pc[p] = "commit" /\ pc' = [pc EXCEPT ![p] = "idle"]
        /\ is_committed' = [is_committed EXCEPT ![s] = TRUE]
    BY DEF commitWrite, consumerVars
  <1>2. Holds(p) /\ Occupied(s) /\ content[s] = item[p]
    BY <1>1, <1>a DEF SlotOwnership, Holds, DataInv
  <1>3. EntryOf(s) = [writer |-> p, item |-> item[p]]
    BY <1>2, <1>a, EntryOfSlot DEF EntryFacts
  <1>4. EntryOf(s)' = [writer |-> None, item |-> item[p]]
    <2>1. is_committed'[s] /\ content'[s] = item[p]
      BY <1>1, <1>2, <1>a DEF TypeOK
    <2>2. QED
      BY <2>1, <1>a, EntryOfSlotNext DEF EntryFacts
  <1>5. \A t \in Slots \ {s} : EntryOf(t)' = EntryOf(t)
    <2> SUFFICES ASSUME NEW t \in Slots, t # s PROVE EntryOf(t)' = EntryOf(t)
      OBVIOUS
    <2>1. \A q \in Producers :
              (Holds(q) /\ currentInput[q] = t)' <=> Holds(q) /\ currentInput[q] = t
      BY <1>1, <1>a DEF Holds, TypeOK
    <2>2. is_committed'[t] = is_committed[t]
      BY <1>1, <1>a DEF TypeOK
    <2>3. QED
      BY <1>1, <2>1, <2>2, EntryKept
  <1>6. PICK k \in 1 .. D : SlotOf(k) = s
    <2> DEFINE n == Distance(output, s) + 1
    <2>1. n \in 1 .. D
      BY <1>2, <1>a, DistanceType DEF Occupied, TypeOK
    <2>2. SlotOf(n) \in Slots /\ Distance(output, SlotOf(n)) = Distance(output, s)
      BY <2>1, <1>a, SlotOfEntry, DistanceType DEF TypeOK
    <2>3. SlotOf(n) = s
      BY <2>2, <1>a, DistanceInjective DEF TypeOK
    <2>4. QED
      BY <2>1, <2>3
  <1>7. /\ Contents \in Seq(Held) /\ Len(Contents) = D
        /\ \A j \in 1 .. D : Contents[j] = EntryOf(SlotOf(j))
    BY <1>a, ContentsSeq
  <1>8. /\ Contents' \in Seq(Held) /\ Len(Contents') = D
        /\ \A j \in 1 .. D : Contents'[j] = EntryOf(SlotOf(j))'
    BY <1>1, <1>a, ContentsSeqNext DEF Distance
  <1>9. \A j \in 1 .. D : Contents'[j] = IF j = k THEN [Contents[k] EXCEPT !.writer = None] ELSE Contents[j]
    <2> SUFFICES ASSUME NEW j \in 1 .. D
                 PROVE  Contents'[j] = IF j = k THEN [Contents[k] EXCEPT !.writer = None] ELSE Contents[j]
      OBVIOUS
    <2>1. SlotOf(j) \in Slots /\ SlotOf(j)' = SlotOf(j)
      BY <1>1, <1>a, SlotOfEntry DEF SlotOf
    <2>2. CASE j = k
      BY <2>1, <2>2, <1>3, <1>4, <1>6, <1>7, <1>8
    <2>3. CASE j # k
      <3>1. SlotOf(j) # s
        <4>1. Distance(output, SlotOf(j)) = j - 1 /\ Distance(output, SlotOf(k)) = k - 1
          BY <1>a, SlotOfEntry
        <4>2. QED
          BY <4>1, <2>3, <1>6
      <3>2. QED
        BY <3>1, <2>1, <2>3, <1>5, <1>7, <1>8
    <2>4. QED
      BY <2>2, <2>3
  <1>10. Contents' = [Contents EXCEPT ![k].writer = None]
    BY <1>7, <1>8, <1>9
  <1>11. k \in DOMAIN Contents /\ Contents[k].writer = p
    BY <1>3, <1>6, <1>7
  <1>12. QED
    BY <1>1, <1>10, <1>11 DEF Fifo!Publish

\* The oldest entry is the one of the slot at output.
LEMMA HeadEntry ==
    ASSUME IInv, output # input
    PROVE  /\ Contents # << >>
           /\ Head(Contents) = EntryOf(output)
  <1>a. TypeOK /\ SlotOwnership
    BY DEF IInv
  <1>1. Distance(output, input) \in Nat \ {0} /\ 1 \in 1 .. Distance(output, input)
    BY <1>a, DistanceType DEF TypeOK
  <1>2. Contents \in Seq(Held) /\ Len(Contents) # 0 /\ Contents[1] = EntryOf(SlotOf(1))
    BY <1>1, <1>a, ContentsSeq
  <1>3. SlotOf(1) \in Slots /\ Distance(output, SlotOf(1)) = 0
    BY <1>1, <1>a, SlotOfEntry
  <1>4. SlotOf(1) = output
    BY <1>3, <1>a, DistanceType DEF TypeOK
  <1>5. Contents # << >>
    BY <1>2
  <1>6. QED
    BY <1>2, <1>4, <1>5

\* The end of the spin delivers the oldest entry.
LEMMA AwaitDelivers ==
    ASSUME IInv, DataInv, AwaitCommitted
    PROVE  Fifo!Deliver
  <1>a. TypeOK /\ SlotOwnership /\ ConsumerInv
    BY DEF IInv
  <1>1. /\ cpc = "wait" /\ is_committed[output] /\ inHand' = content[output]
        /\ UNCHANGED <<input, output, is_committed, content, pc, currentInput, item>>
    BY DEF AwaitCommitted, queueVars, producerVars
  <1>2. output # input /\ output \in Slots /\ inHand = None
    BY <1>1, <1>a DEF ConsumerInv, DataInv, TypeOK
  <1>3. EntryOf(output) = [writer |-> None, item |-> content[output]]
    BY <1>1, <1>2, <1>a, EntryOfSlot DEF EntryFacts
  <1>4. Contents' = Contents
    <2>1. \A s \in Slots : EntryOf(s)' = EntryOf(s)
      BY <1>1, EntryKept DEF Holds
    <2>2. QED
      BY <1>1, <2>1, <1>a, ContentsKept
  <1>5. QED
    BY <1>1, <1>2, <1>3, <1>4, HeadEntry DEF Fifo!Deliver

\* The second store of commitRead gives the place of the oldest entry back.
LEMMA AdvanceReleases ==
    ASSUME IInv, IInv', DataInv, AdvanceOutput
    PROVE  Fifo!Release
  <1>a. TypeOK /\ TypeOK' /\ SlotOwnership /\ SlotOwnership' /\ ConsumerInv
    BY DEF IInv
  <1> PICK D \in 0 .. Size : D = Distance(output, input)
    BY <1>a, DistanceType DEF TypeOK
  <1>1. /\ cpc = "advance" /\ output' = advance(output) /\ inHand' = None
        /\ UNCHANGED <<input, is_committed, content, pc, currentInput, item>>
    BY DEF AdvanceOutput, producerVars
  <1>2. output # input /\ inHand # None
    BY <1>1, <1>a DEF ConsumerInv, DataInv
  <1>3. D > 0 /\ Distance(output, input)' = D - 1
    <2>1. output' = IF output = Size THEN 0 ELSE output + 1
      BY <1>1, <1>a, AdvanceWraps DEF TypeOK
    <2>2. QED
      BY <1>1, <1>2, <1>a, <2>1, SizeAssumption DEF Distance, TypeOK, Slots, Capacity
  <1>4. /\ Contents \in Seq(Held) /\ Len(Contents) = D
        /\ \A k \in 1 .. D : Contents[k] = EntryOf(SlotOf(k))
    BY <1>a, ContentsSeq
  <1>5. /\ Contents' \in Seq(Held) /\ Len(Contents') = D - 1
        /\ \A k \in 1 .. D - 1 : Contents'[k] = EntryOf(SlotOf(k))'
    BY <1>a, <1>3, ContentsSeqNext
  <1>6. \A s \in Slots : EntryOf(s)' = EntryOf(s)
    BY <1>1, EntryKept DEF Holds
  <1>7. \A k \in 1 .. D - 1 : Contents'[k] = Contents[k + 1]
    <2> SUFFICES ASSUME NEW k \in 1 .. D - 1 PROVE Contents'[k] = Contents[k + 1]
      OBVIOUS
    <2>1. k + 1 \in 1 .. D
      BY <1>3
    <2>2. SlotOf(k + 1) \in Slots /\ Distance(output, SlotOf(k + 1)) = k
      BY <2>1, <1>a, SlotOfEntry
    <2>3. SlotOf(k)' \in Slots /\ Distance(output', SlotOf(k)') = k - 1
      BY <1>3, <1>a, SlotOfEntryNext DEF Distance, Slots, Capacity
    <2>4. output' = IF output = Size THEN 0 ELSE output + 1
      BY <1>1, <1>a, AdvanceWraps DEF TypeOK
    <2>5. SlotOf(k)' = SlotOf(k + 1)
      BY <2>1, <2>2, <2>3, <2>4, <1>a, SizeAssumption DEF Distance, TypeOK, Slots, Capacity
    <2>6. QED
      BY <2>1, <2>2, <2>5, <1>4, <1>5, <1>6
  <1>8. Contents' = Tail(Contents)
    <2>1. Contents # << >>
      BY <1>2, HeadEntry
    <2>2. /\ Tail(Contents) \in Seq(Held) /\ Len(Tail(Contents)) = D - 1
          /\ \A k \in 1 .. D - 1 : Tail(Contents)[k] = Contents[k + 1]
      BY <1>4, <2>1, HeadTailProperties
    <2>3. QED
      BY <1>5, <1>7, <2>2, SeqEqual
  <1>9. QED
    BY <1>1, <1>2, <1>8 DEF Fifo!Release

\* Every other step leaves the queue as it is: a slot's content counts only
\* once its producer is done, and a slot that was reset keeps its content.
LEMMA OthersStutter ==
    ASSUME IInv,
           \/ \E p \in Producers, i \in Items : Push(p, i)
           \/ \E p \in Producers :
                  LoadInput(p) \/ Reject(p) \/ HasRoom(p) \/ CasFails(p) \/ WriteSlot(p)
           \/ FindEntry \/ ResetSlot \/ UNCHANGED vars
    PROVE  UNCHANGED <<Contents, inHand>>
  <1>a. TypeOK /\ SlotOwnership /\ ConsumerInv
    BY DEF IInv
  <1>1. UNCHANGED <<input, output, inHand>>
    BY DEF Push, LoadInput, Reject, HasRoom, CasFails, WriteSlot, FindEntry,
       ResetSlot, queueVars, consumerVars, vars
  <1>2. ASSUME NEW s \in Slots PROVE EntryOf(s)' = EntryOf(s)
    <2>1. ASSUME NEW p \in Producers,
                 \/ \E i \in Items : Push(p, i)
                 \/ LoadInput(p) \/ Reject(p) \/ HasRoom(p) \/ CasFails(p)
          PROVE  EntryOf(s)' = EntryOf(s)
      <3>1. /\ UNCHANGED <<is_committed, content>>
            /\ ~Holds(p) /\ ~Holds(p)'
            /\ \A q \in Producers \ {p} : /\ Holds(q)' <=> Holds(q)
                                         /\ currentInput'[q] = currentInput[q]
                                         /\ item'[q] = item[q]
        BY <2>1, <1>a DEF Push, LoadInput, Reject, HasRoom, CasFails, queueVars, Holds, TypeOK
      <3>2. \A q \in Producers :
                (Holds(q) /\ currentInput[q] = s)' <=> Holds(q) /\ currentInput[q] = s
        BY <3>1
      <3>3. \A q \in Producers : Holds(q) /\ currentInput[q] = s => item'[q] = item[q]
        BY <3>1
      <3>4. QED
        BY <3>1, <3>2, <3>3, EntryKept
    <2>2. ASSUME NEW p \in Producers, WriteSlot(p) PROVE EntryOf(s)' = EntryOf(s)
      <3>1. /\ UNCHANGED <<is_committed, currentInput, item>>
            /\ Holds(p)
            /\ \A q \in Producers : Holds(q)' <=> Holds(q)
            /\ \A t \in Slots \ {currentInput[p]} : content'[t] = content[t]
        BY <2>2, <1>a DEF WriteSlot, Holds, TypeOK
      <3>2. ~is_committed[currentInput[p]]
        BY <3>1, <1>a DEF SlotOwnership
      <3>3. QED
        BY <3>1, <3>2, EntryKept
    <2>3. CASE FindEntry \/ UNCHANGED vars
      BY <2>3, EntryKept DEF FindEntry, queueVars, producerVars, vars, Holds
    <2>4. CASE ResetSlot
      <3>1. /\ UNCHANGED <<content, pc, currentInput, item>>
            /\ cpc = "read" /\ is_committed' = [is_committed EXCEPT ![output] = FALSE]
        BY <2>4 DEF ResetSlot, producerVars
      <3>2. \A q \in Producers : ~(Holds(q) /\ currentInput[q] = output)
        BY <3>1, <1>a DEF SlotOwnership
      <3>3. CASE s # output
        BY <3>1, <3>3, <1>a, EntryKept DEF Holds, TypeOK
      <3>4. CASE s = output
        BY <3>1, <3>2, <3>4 DEF EntryOf, Writers, Holds
      <3>5. QED
        BY <3>3, <3>4
    <2>5. QED
      BY <2>1, <2>2, <2>3, <2>4
  <1>3. QED
    BY <1>1, <1>2, <1>a, ContentsKept

-----------------------------------------------------------------------------
\* If no producer is lapped, the ring of any size implements the bounded
\* first-in first-out queue: no entry is lost, duplicated, reordered, read
\* before it is ready or given back before the listener has finished
\* (acquireWrite, commitWrite, acquireRead and commitRead of
\* internal_queue.h).
THEOREM RingImplementsFifo == Timely => (Spec => ImplementsFifo)
  <1> SUFFICES ASSUME Timely PROVE Spec => ImplementsFifo
    OBVIOUS
  <1>1. Init => IInv /\ DataInv
    BY InitIInv DEF Init, DataInv
  <1>2. Init => Fifo!Init
    <2> SUFFICES ASSUME Init PROVE Contents = << >> /\ inHand = None
      BY DEF Fifo!Init
    <2>1. Len(Contents) = 0 /\ Contents \in Seq(Held)
      BY <1>1, ContentsSeq, SizeAssumption DEF Init, IInv, Distance
    <2>2. QED
      BY <2>1, EmptySeq DEF Init
  <1>3. IInv /\ DataInv /\ [Next]_vars => IInv' /\ DataInv'
    BY NextIInv, NextDataInv
  <1>4. IInv /\ IInv' /\ DataInv /\ [Next]_vars => [Fifo!Next]_(Fifo!vars)
    <2> SUFFICES ASSUME IInv, IInv', DataInv, [Next]_vars
                 PROVE  Fifo!Next \/ UNCHANGED <<Contents, inHand>>
      BY DEF Fifo!vars
    <2>1. ASSUME NEW p \in Producers, CasSucceeds(p) PROVE Fifo!Next
      BY <2>1, CasReserves DEF Fifo!Next, DataInv, CasSucceeds
    <2>2. ASSUME NEW p \in Producers, commitWrite(p) PROVE Fifo!Next
      BY <2>2, CommitPublishes DEF Fifo!Next
    <2>3. CASE AwaitCommitted
      BY <2>3, AwaitDelivers DEF Fifo!Next
    <2>4. CASE AdvanceOutput
      BY <2>4, AdvanceReleases DEF Fifo!Next
    <2>5. QED
      BY <2>1, <2>2, <2>3, <2>4, OthersStutter DEF Next, Producer, Consumer
  <1>5. QED
    BY <1>1, <1>2, <1>3, <1>4, PTL DEF Spec, ImplementsFifo, Fifo!Spec
===============================================================================
