---------------------------- MODULE ConcurrentMap ----------------------------
(***************************************************************************)
(* lib/concurrent_map.h: a hash map of atomic cells, open addressing with  *)
(* linear probing.  "assign and erase operation will run in mutual         *)
(* exclusion with each other, but not with get()": there is one writer,    *)
(* and any number of readers that walk the cells while it changes them.    *)
(* One action is one atomic access that somebody else can see.  Atomics    *)
(* are sequentially consistent, as on x86.                                 *)
(***************************************************************************)
EXTENDS Integers, FiniteSets

CONSTANTS
    Keys, Values,
    NullKey, NullValue,   \* what is in a free cell
    Readers,
    Capacity,             \* the number of cells
    maxLoad,
    hash                  \* KeyTraits::hash

ASSUME MapAssumption ==
    /\ Capacity \in Nat /\ maxLoad \in Nat
    /\ maxLoad < Capacity                       \* MAP_ASSERT in the constructor
    /\ hash \in [Keys -> Nat]
    /\ NullKey \notin Keys
    /\ NullValue \notin Values

Cells == 0 .. Capacity - 1

\* idx++; idx &= m_sizeMask
Following(idx) == (idx + 1) % Capacity
\* (hash(key) - 1) & m_sizeMask
Predecessor(k) == (hash[k] - 1) % Capacity
\* hash(key) & m_sizeMask
Home(k) == hash[k] % Capacity

VARIABLES
    key, value,   \* the fields of every cell
    size,
    op,           \* the writer's operation in progress
    wpc,          \* where the writer is in it
    idx,          \* idx of assign and erase, index of compactChain
    deleteIndex,  \* the cell compactChain is to fill
    first,        \* predecessorIndex, or initialDeleteIndex: where to stop
    reader        \* per reader: its get in progress

cells == <<key, value>>
locals == <<idx, deleteIndex, first>>
vars == <<key, value, size, op, wpc, locals, reader>>

\* The map the cells stand for: a key that is being moved is in two cells,
\* one of which may already have lost its value.
ValuesOf(k) == {value[c] : c \in {d \in Cells : key[d] = k}} \ {NullValue}
Contents == [k \in Keys |->
                IF ValuesOf(k) = {} THEN NullValue ELSE CHOOSE v \in ValuesOf(k) : TRUE]

Map == INSTANCE AtomicMap WITH dict <- Contents

\* A reader at rest, and a get that has just been called.  seen and erases
\* are history: the values its key has had since then, and the erases that
\* were in progress meanwhile.
AtRest == [pc |-> "rest"]

\* Mutant: the first cell of the chain is skipped.
CalledSkipping(k) == [pc |-> "probe", key |-> k, idx |-> Home(k), loaded |-> NullValue,
                      seen |-> {Contents[k]}, erases |-> IF op.kind = "erase" THEN 1 ELSE 0]

Called(k) == [pc |-> "probe", key |-> k, idx |-> Predecessor(k), loaded |-> NullValue,
              seen |-> {Contents[k]}, erases |-> IF op.kind = "erase" THEN 1 ELSE 0]

MaxErases == 2   \* erases counts no further

-----------------------------------------------------------------------------
(* The writer *)

\* Every step of the writer: the readers' history takes note.
Witness(starts) ==
    reader' = [r \in Readers |->
        IF reader[r].pc = "rest" THEN AtRest
        ELSE [reader[r] EXCEPT !.seen = @ \cup {Contents'[reader[r].key]},
                               !.erases = IF starts /\ @ < MaxErases THEN @ + 1 ELSE @]]

\* Mutant: the load limit is not looked at.
assignUnlimited(k, v) ==
    /\ wpc = "idle"
    /\ size' = size + 1
    /\ op' = Map!Assign(k, v)
    /\ wpc' = "assign"
    /\ idx' = Predecessor(k)
    /\ first' = Predecessor(k)
    /\ UNCHANGED <<cells, deleteIndex>>
    /\ Witness(FALSE)

\* assign: one more, if the load limit allows.  A refused assign adds one
\* and takes it away again, which nobody else sees.
assign(k, v) ==
    /\ wpc = "idle"
    /\ size < maxLoad
    /\ size' = size + 1
    /\ op' = Map!Assign(k, v)
    /\ wpc' = "assign"
    /\ idx' = Predecessor(k)
    /\ first' = Predecessor(k)
    /\ UNCHANGED <<cells, deleteIndex>>
    /\ Witness(FALSE)

\* The operation returns, and its locals are gone.
Done == op' = Map!NoOp /\ wpc' = "idle" /\ idx' = 0 /\ deleteIndex' = 0 /\ first' = 0

\* Mutant: an update counts as another entry.
AssignProbeUncounted ==
    LET i == Following(idx)
    IN  /\ wpc = "assign"
        /\ IF i = first THEN Done /\ UNCHANGED <<key, size>>
           ELSE /\ idx' = i
                /\ key' = IF key[i] = NullKey THEN [key EXCEPT ![i] = op.key] ELSE key
                /\ wpc' = IF key'[i] = op.key THEN "store" ELSE "assign"
                /\ UNCHANGED <<op, size, deleteIndex, first>>
        /\ UNCHANGED value
        /\ Witness(FALSE)

\* One turn of assign's loop.  The compare-exchange of a free cell cannot
\* fail: nobody else writes keys.
AssignProbe ==
    LET i == Following(idx)
    IN  /\ wpc = "assign"
        /\ IF i = first THEN Done /\ UNCHANGED <<key, size>>
           ELSE /\ idx' = i
                /\ key' = IF key[i] = NullKey THEN [key EXCEPT ![i] = op.key] ELSE key
                /\ size' = IF key[i] = op.key THEN size - 1 ELSE size
                /\ wpc' = IF key'[i] = op.key THEN "store" ELSE "assign"
                /\ UNCHANGED <<op, deleteIndex, first>>
        /\ UNCHANGED value
        /\ Witness(FALSE)

AssignStore ==
    /\ wpc = "store"
    /\ value' = [value EXCEPT ![idx] = op.value]
    /\ wpc' = "stored"
    /\ UNCHANGED <<key, size, op, locals>>
    /\ Witness(FALSE)

AssignReturn ==
    /\ wpc = "stored"
    /\ Done
    /\ UNCHANGED <<cells, size>>
    /\ Witness(FALSE)

erase(k) ==
    /\ wpc = "idle"
    /\ op' = Map!Erase(k)
    /\ wpc' = "erase"
    /\ idx' = Predecessor(k)
    /\ first' = Predecessor(k)
    /\ UNCHANGED <<cells, size, deleteIndex>>
    /\ Witness(TRUE)

\* One turn of erase's loop: the key is found, or not in the map.
EraseProbe ==
    LET i == Following(idx)
    IN  /\ wpc = "erase"
        /\ IF i = first \/ key[i] = NullKey THEN Done
           ELSE /\ idx' = i
                /\ wpc' = IF key[i] = op.key THEN "nullValue" ELSE "erase"
                /\ first' = IF key[i] = op.key THEN i ELSE first
                /\ UNCHANGED <<op, deleteIndex>>
        /\ UNCHANGED <<cells, size>>
        /\ Witness(FALSE)

\* nullOutCell, on the cell at idx: the value, then the key.
NullOutValue ==
    /\ wpc = "nullValue"
    /\ value' = [value EXCEPT ![idx] = NullValue]
    /\ wpc' = "nullKey"
    /\ UNCHANGED <<key, size, op, locals>>
    /\ Witness(FALSE)

\* Then compactChain has that cell to fill.
NullOutKey ==
    /\ wpc = "nullKey"
    /\ key' = [key EXCEPT ![idx] = NullKey]
    /\ deleteIndex' = idx
    /\ wpc' = "compact"
    /\ UNCHANGED <<value, size, op, idx, first>>
    /\ Witness(FALSE)

\* Mutant: the chain that wraps round the end of the cells is forgotten.
BelongsUnwrapped(k, i) == Home(k) <= deleteIndex /\ deleteIndex <= i

\* Key k in cell i can move back to the cell to fill, as compactChain
\* decides it.
Belongs(k, i) ==
    \/ i < Home(k) /\ (Home(k) <= deleteIndex \/ deleteIndex <= i)
    \/ Home(k) <= deleteIndex /\ deleteIndex <= i

\* One turn of compactChain's loop, up to the first store of a move.
CompactProbe ==
    LET i == Following(idx)
    IN  /\ wpc = "compact"
        /\ IF i = first THEN Done /\ UNCHANGED <<value, size>>
           ELSE IF key[i] = NullKey THEN Done /\ size' = size - 1 /\ UNCHANGED value
           ELSE /\ idx' = i
                /\ IF Belongs(key[i], i)
                   THEN value' = [value EXCEPT ![deleteIndex] = value[i]] /\ wpc' = "move"
                   ELSE UNCHANGED <<value, wpc>>
                /\ UNCHANGED <<op, size, deleteIndex, first>>
        /\ UNCHANGED key
        /\ Witness(FALSE)

\* Mutant: the old cell is emptied first.
MoveEmptied ==
    /\ wpc = "move"
    /\ key' = [key EXCEPT ![idx] = NullKey]
    /\ wpc' = "nullValue"
    /\ UNCHANGED <<value, size, op, locals>>
    /\ Witness(FALSE)

\* The key follows its value; then the old cell is emptied.
Move ==
    /\ wpc = "move"
    /\ key' = [key EXCEPT ![deleteIndex] = key[idx]]
    /\ wpc' = "nullValue"
    /\ UNCHANGED <<value, size, op, locals>>
    /\ Witness(FALSE)

\* "Must be called when there are no concurrent readers or writers."
clear ==
    /\ wpc = "idle"
    /\ \A r \in Readers : reader[r].pc = "rest"
    /\ key' = [c \in Cells |-> NullKey]
    /\ value' = [c \in Cells |-> NullValue]
    /\ size' = 0
    /\ UNCHANGED <<op, wpc, locals, reader>>

-----------------------------------------------------------------------------
(* The readers *)

Reads(r, get) == reader' = [reader EXCEPT ![r] = get] /\ UNCHANGED <<cells, size, op, wpc, locals>>

get(r, k) ==
    /\ reader[r].pc = "rest"
    /\ Reads(r, Called(k))

Answer(g, v) == [g EXCEPT !.pc = "answer", !.loaded = v]

\* One turn of get's loop, to the first load of the key.
GetProbe(r) ==
    LET g == reader[r]
        i == Following(g.idx)
    IN  /\ g.pc = "probe"
        /\ Reads(r, IF i = Predecessor(g.key) \/ key[i] = NullKey THEN Answer(g, NullValue)
                    ELSE [g EXCEPT !.idx = i, !.pc = IF key[i] = g.key THEN "load" ELSE "probe"])

GetLoad(r) ==
    LET g == reader[r]
    IN  /\ g.pc = "load"
        /\ Reads(r, [g EXCEPT !.pc = "reprobe", !.loaded = value[g.idx]])

\* Mutant: the value is returned whosoever it is.
GetUnchecked(r) ==
    LET g == reader[r]
    IN  /\ g.pc = "reprobe"
        /\ Reads(r, Answer(g, g.loaded))

\* The second load of the key: still there, or go on behind it.
GetReProbe(r) ==
    LET g == reader[r]
    IN  /\ g.pc = "reprobe"
        /\ Reads(r, IF key[g.idx] = g.key THEN Answer(g, g.loaded) ELSE [g EXCEPT !.pc = "probe"])

GetReturn(r) == reader[r].pc = "answer" /\ Reads(r, AtRest)

-----------------------------------------------------------------------------
Init ==
    /\ key = [c \in Cells |-> NullKey]
    /\ value = [c \in Cells |-> NullValue]
    /\ size = 0
    /\ op = Map!NoOp
    /\ wpc = "idle"
    /\ idx = 0 /\ deleteIndex = 0 /\ first = 0
    /\ reader = [r \in Readers |-> AtRest]

Writer ==
    \/ AssignProbe \/ AssignStore \/ AssignReturn
    \/ EraseProbe \/ NullOutValue \/ NullOutKey \/ CompactProbe \/ Move

Reader(r) == GetProbe(r) \/ GetLoad(r) \/ GetReProbe(r) \/ GetReturn(r)

Next ==
    \/ \E k \in Keys, v \in Values : assign(k, v)
    \/ \E k \in Keys : erase(k)
    \/ clear
    \/ Writer
    \/ \E r \in Readers, k \in Keys : get(r, k)
    \/ \E r \in Readers : Reader(r)

Spec == Init /\ [][Next]_vars

-----------------------------------------------------------------------------
(* Properties *)

Get == [pc : {"probe", "load", "reprobe", "answer"}, key : Keys, idx : Cells,
        loaded : Values \cup {NullValue}, seen : SUBSET (Values \cup {NullValue}),
        erases : 0 .. MaxErases]

\* The type of every variable.
TypeOK ==
    /\ key \in [Cells -> Keys \cup {NullKey}]
    /\ value \in [Cells -> Values \cup {NullValue}]
    /\ size \in 0 .. maxLoad
    /\ op \in {Map!NoOp} \cup {Map!Assign(k, v) : k \in Keys, v \in Values}
              \cup {Map!Erase(k) : k \in Keys}
    /\ wpc \in {"idle", "assign", "store", "stored", "erase", "nullValue", "nullKey", "compact", "move"}
    /\ idx \in Cells /\ deleteIndex \in Cells /\ first \in Cells
    /\ reader \in [Readers -> Get \cup {AtRest}]

\* The cells from a key's home to cell c, in the order a probe visits them.
Chain(k, c) == {(Home(k) + n) % Capacity : n \in 0 .. (c - Home(k)) % Capacity}

\* Between operations every key is in one cell, with a value, and a probe
\* from its home meets no free cell before it: compactChain leaves no gap
\* behind, wherever the chains wrap and whatever keys share them; a free
\* cell has no value.
ChainsWhole ==
    wpc = "idle" =>
        \A c \in Cells :
            IF key[c] = NullKey THEN value[c] = NullValue
            ELSE /\ value[c] # NullValue
                 /\ \A d \in Cells : key[d] = key[c] => d = c
                 /\ \A d \in Chain(key[c], c) : key[d] # NullKey

\* Between operations size is the number of entries, so that the load limit
\* neither creeps down nor lets the table fill up (the fetch_sub of each
\* way out of assign, erase and compactChain).
SizeExact == wpc = "idle" => size = Cardinality({c \in Cells : key[c] # NullKey})

\* assign and erase take effect at one moment, on their own key alone: in
\* particular the moves of compactChain never take a key out of the cells,
\* and an assign that passed the load limit always finds a cell.
ImplementsMap == Map!Spec

\* A get during which no erase was in progress returns a value that its key
\* had at some moment of the get: assigns alone never mislead a reader.
GetCurrent ==
    \A r \in Readers : reader[r].pc = "answer" /\ reader[r].erases = 0
        => reader[r].loaded \in reader[r].seen

\* A get that one erase at most ran into may miss its key, but it never
\* returns another key's value: its second look at the key notices that the
\* cell has been given to another one (two erases and an assign can bring
\* the same key back to the cell and hide it).
GetOwnValue ==
    \A r \in Readers : reader[r].pc = "answer" /\ reader[r].erases <= 1
        => reader[r].loaded \in reader[r].seen \cup {NullValue}

\* A get of a key that is in the map all the time finds it ("assign and
\* erase operation will run in mutual exclusion With each other, but not
\* with get()").
GetFinds ==
    \A r \in Readers : reader[r].pc = "answer" /\ NullValue \notin reader[r].seen
        => reader[r].loaded # NullValue

==============================================================================
