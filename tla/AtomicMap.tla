------------------------------ MODULE AtomicMap ------------------------------
(***************************************************************************)
(* What the writer of a map with one writer is promised: an assign or an   *)
(* erase takes effect at one moment between its call and its return, and   *)
(* no key but its own is ever touched.                                     *)
(***************************************************************************)
CONSTANTS Keys, Values, NullValue

\* The operation in progress; a call of none is the pause between two.
NoOp == [kind |-> "none"]
Assign(k, v) == [kind |-> "assign", key |-> k, value |-> v]
Erase(k) == [kind |-> "erase", key |-> k]

VARIABLES dict,   \* the value of every key, NullValue where there is none
          op      \* the operation in progress

Init == dict = [k \in Keys |-> NullValue] /\ op = NoOp

Call ==
    /\ op = NoOp
    /\ \/ \E k \in Keys, v \in Values : op' = Assign(k, v)
       \/ \E k \in Keys : op' = Erase(k)
    /\ UNCHANGED dict

\* The value an operation is to leave behind.
Target(o) == IF o.kind = "assign" THEN o.value ELSE NullValue

TakeEffect ==
    /\ op # NoOp
    /\ dict' = [dict EXCEPT ![op.key] = Target(op)]
    /\ UNCHANGED op

Return ==
    /\ op # NoOp
    /\ dict[op.key] = Target(op)
    /\ op' = NoOp
    /\ UNCHANGED dict

\* The whole map is emptied while nobody uses it.
Clear == op = NoOp /\ dict' = [k \in Keys |-> NullValue] /\ UNCHANGED op

Next == Call \/ TakeEffect \/ Return \/ Clear

Spec == Init /\ [][Next]_<<dict, op>>

==============================================================================
