------------------------- MODULE ConcurrentMap_proofs -------------------------
(***************************************************************************)
(* Proofs about the map of lib/concurrent_map.h, for every number of       *)
(* cells, every load limit below it and every hash: its size and its       *)
(* chains, that its writer implements AtomicMap, and what a concurrent get *)
(* may return.                                                             *)
(***************************************************************************)
EXTENDS ConcurrentMap, FiniteSetTheorems, TLAPS

\* Cell d is met on the way from cell a to cell b, both included.
On(a, d, b) == IF a <= b THEN a <= d /\ d <= b ELSE a <= d \/ d <= b

-----------------------------------------------------------------------------
(* The circle of cells *)

\* idx++; idx &= m_sizeMask is the successor that wraps (concurrent_map.h:178).
LEMMA FollowingWraps ==
    ASSUME NEW i \in Cells
    PROVE  /\ Following(i) \in Cells
           /\ Following(i) = IF i = Capacity - 1 THEN 0 ELSE i + 1
  <1>1. Capacity \in Nat \ {0}
    BY MapAssumption
  <1>2. CASE i = Capacity - 1
    <2>1. i + 1 = Capacity /\ Capacity % Capacity = 0
      BY <1>1, <1>2
    <2>2. QED
      BY <1>1, <1>2, <2>1 DEF Following, Cells
  <1>3. CASE i # Capacity - 1
    <2>1. i + 1 \in 0 .. Capacity - 1
      BY <1>1, <1>3 DEF Cells
    <2>2. (i + 1) % Capacity = i + 1
      BY <1>1, <2>1
    <2>3. QED
      BY <1>1, <1>3, <2>1, <2>2 DEF Following, Cells
  <1>4. QED
    BY <1>2, <1>3

\* The remainder of a division is the only one there is.
LEMMA RemainderUnique ==
    ASSUME NEW n \in Nat \ {0}, NEW q \in Int, NEW r \in 0 .. n - 1
    PROVE  (n * q + r) % n = r
  OBVIOUS

\* A walk starts one cell before the home of its key.
LEMMA HomeFollows ==
    ASSUME NEW k \in Keys
    PROVE  /\ Home(k) \in Cells /\ Predecessor(k) \in Cells
           /\ Following(Predecessor(k)) = Home(k)
  <1>1. Capacity \in Nat \ {0} /\ hash[k] \in Nat
    BY MapAssumption
  <1>2. Home(k) \in Cells /\ Predecessor(k) \in Cells
    BY <1>1 DEF Home, Predecessor, Cells
  <1>3. PICK q \in Int : hash[k] - 1 = Capacity * q + Predecessor(k)
    <2>1. \A n \in Nat \ {0}, m \in Int : m \div n \in Int /\ m = n * (m \div n) + (m % n)
      OBVIOUS
    <2>2. hash[k] - 1 \in Int
      BY <1>1
    <2>3. QED
      BY <1>1, <2>1, <2>2 DEF Predecessor
  <1>4. CASE Predecessor(k) = Capacity - 1
    <2>1. hash[k] = Capacity * (q + 1) + 0
      BY <1>1, <1>2, <1>3, <1>4
    <2>2. hash[k] % Capacity = 0
      BY <1>1, <2>1, RemainderUnique, q + 1 \in Int, 0 \in 0 .. Capacity - 1
    <2>3. QED
      BY <1>2, <1>4, <2>2, FollowingWraps DEF Home
  <1>5. CASE Predecessor(k) # Capacity - 1
    <2>1. Predecessor(k) + 1 \in 0 .. Capacity - 1
      BY <1>1, <1>2, <1>5 DEF Cells
    <2>2. hash[k] = Capacity * q + (Predecessor(k) + 1)
      BY <1>1, <1>2, <1>3 DEF Cells
    <2>3. hash[k] % Capacity = Predecessor(k) + 1
      BY <1>1, <2>1, <2>2, RemainderUnique
    <2>4. QED
      BY <1>2, <1>5, <2>3, FollowingWraps DEF Home
  <1>6. QED
    BY <1>2, <1>4, <1>5

\* A chain, as ChainsWhole has it, is the way from a key's home.
LEMMA ChainOn ==
    ASSUME NEW k \in Keys, NEW c \in Cells, NEW d \in Chain(k, c)
    PROVE  d \in Cells /\ On(Home(k), d, c)
  <1>1. Capacity \in Nat \ {0} /\ Home(k) \in Cells
    BY MapAssumption, HomeFollows
  <1>2. PICK n \in 0 .. (c - Home(k)) % Capacity : d = (Home(k) + n) % Capacity
    BY DEF Chain
  <1>3. (c - Home(k)) % Capacity = IF Home(k) <= c THEN c - Home(k) ELSE c - Home(k) + Capacity
    BY <1>1 DEF Cells
  <1>4. n \in Nat /\ n <= (c - Home(k)) % Capacity
    BY <1>1, <1>2, <1>3 DEF Cells
  <1>5. (Home(k) + n) % Capacity = IF Home(k) + n < Capacity THEN Home(k) + n ELSE Home(k) + n - Capacity
    BY <1>1, <1>3, <1>4 DEF Cells
  <1>6. QED
    BY <1>1, <1>2, <1>3, <1>4, <1>5 DEF Cells, On

\* One step further on the way from a to i.
LEMMA OnStep ==
    ASSUME NEW a \in Cells, NEW i \in Cells, Following(i) # a, NEW d \in Cells
    PROVE  /\ On(a, d, Following(i)) <=> On(a, d, i) \/ d = Following(i)
           /\ ~On(a, Following(i), i)
  BY FollowingWraps, MapAssumption DEF On, Cells

\* What a walk has not met yet lies behind its next cell.
LEMMA NotMet ==
    ASSUME NEW p \in Cells, NEW i \in Cells, NEW c \in Cells, c = p \/ ~On(p, c, i)
    PROVE  /\ Following(i) # p => On(Following(p), Following(i), c)
           /\ Following(i) = p => c = p /\ \A d \in Cells : On(Following(p), d, c)
  BY FollowingWraps, MapAssumption DEF On, Cells

\* What lies before its next cell, a walk has met.
LEMMA Met ==
    ASSUME NEW p \in Cells, NEW i \in Cells, Following(i) # p,
           NEW d \in Cells, On(Following(p), d, Following(i))
    PROVE  (d # p /\ On(p, d, i)) \/ d = Following(i)
  BY FollowingWraps, MapAssumption DEF On, Cells

\* A way holds its ends.
LEMMA OnEnds ==
    ASSUME NEW a \in Cells, NEW b \in Cells
    PROVE  On(a, a, b) /\ On(a, b, b) /\ \A d \in Cells : On(a, d, a) => d = a
  BY MapAssumption DEF On, Cells

\* A chain that is cut short stays a part of itself.
LEMMA OnPart ==
    ASSUME NEW h \in Cells, NEW b \in Cells, NEW c \in Cells, NEW d \in Cells,
           On(h, b, c), On(h, d, b)
    PROVE  On(h, d, c)
  BY MapAssumption DEF On, Cells

\* A chain that ends behind i and holds i goes all the way round.
LEMMA OnRound ==
    ASSUME NEW f \in Cells, NEW i \in Cells, NEW h \in Cells, NEW c \in Cells, NEW d \in Cells,
           c # i, On(f, c, i), On(h, i, c), ~On(f, d, i)
    PROVE  On(h, d, c)
  BY MapAssumption DEF On, Cells

\* A chain that holds e behind i and ends ahead of i passes the cell after i.
LEMMA OnAcross ==
    ASSUME NEW f \in Cells, NEW i \in Cells, NEW h \in Cells, NEW c \in Cells, NEW e \in Cells,
           On(f, e, i), ~On(f, c, i), On(h, e, c), Following(i) # f
    PROVE  On(h, Following(i), c)
  BY FollowingWraps, MapAssumption DEF On, Cells

\* compactChain's test, with its case of a chain that wraps, is that the cell
\* to fill is on the key's chain (concurrent_map.h:306).
LEMMA BelongsOn ==
    ASSUME NEW k \in Keys, NEW i \in Cells, deleteIndex \in Cells
    PROVE  Belongs(k, i) <=> On(Home(k), deleteIndex, i)
  BY HomeFollows, MapAssumption DEF Belongs, On, Cells

-----------------------------------------------------------------------------
(* The inductive invariant *)

Occupied == {c \in Cells : key[c] # NullKey}

\* compactChain has a cell to fill, or it has just copied the key of cell
\* idx to that cell and is emptying idx.
Compacting == wpc \in {"compact", "move"}
Moving == wpc \in {"nullValue", "nullKey"} /\ idx # first

\* The cells compactChain is done with, but for the one it is to fill.
Passed(c) == (Compacting \/ Moving) /\ On(first, c, idx) /\ (wpc # "compact" => c # idx)

\* The operation in progress is the one the writer's position belongs to.
OpInv ==
    /\ wpc = "idle" => op = Map!NoOp
    /\ wpc \in {"assign", "store", "stored"} => op.kind = "assign"
    /\ wpc \in {"erase", "nullValue", "nullKey", "compact", "move"} => op.kind = "erase"

\* size counts the entry an assign is to add, and the one an erase has
\* taken out, until the operation is through.
SizeInv ==
    size = Cardinality(Occupied) + (IF wpc \in {"assign", "compact", "move"} THEN 1 ELSE 0)

\* A key is in one cell, or it is being moved.
UniqueInv ==
    \A c, d \in Cells : key[c] = key[d] /\ key[c] # NullKey /\ c # d
        => Moving /\ (<<c, d>> = <<idx, deleteIndex>> \/ <<d, c>> = <<idx, deleteIndex>>)

\* The only free cell between a key and its home is the one compactChain is
\* to fill, and then only if it has not yet come to the key.
ChainInv ==
    \A c, d \in Cells : key[c] # NullKey /\ key[d] = NullKey /\ On(Home(key[c]), d, c)
        => Compacting /\ d = deleteIndex /\ ~Passed(c)

\* A cell has a value if it has a key, up to the stores in between.
ValueInv ==
    \A c \in Cells :
        /\ key[c] = NullKey /\ value[c] # NullValue => wpc = "move" /\ c = deleteIndex
        /\ key[c] # NullKey /\ value[c] = NullValue => wpc \in {"store", "nullKey"} /\ c = idx

\* Where the walks of assign and erase have been, and what they have found.
WalkInv ==
    /\ wpc \in {"assign", "erase"} =>
          /\ first = Predecessor(op.key)
          /\ \A d \in Cells : d # first /\ On(first, d, idx) => key[d] \notin {NullKey, op.key}
    /\ wpc \in {"store", "stored"} => key[idx] = op.key
    /\ wpc = "stored" => value[idx] = op.value
    /\ wpc \in {"nullValue", "nullKey"} /\ idx = first => key[idx] = op.key
    /\ wpc = "nullKey" => value[idx] = NullValue
    /\ Compacting \/ Moving => \A c \in Cells : key[c] # op.key

\* The walk of compactChain: it has a free cell ahead to stop at, the cell
\* to fill behind it, and moves a key along its own chain.
CompactInv ==
    /\ wpc \in {"nullValue", "nullKey", "compact", "move"} =>
          \E d \in Cells : key[d] = NullKey /\ ~On(first, d, idx)
    /\ Compacting \/ Moving => On(first, deleteIndex, idx)
    /\ Compacting => key[deleteIndex] = NullKey
    /\ wpc = "move" =>
          /\ key[idx] # NullKey /\ idx # first /\ value[deleteIndex] = value[idx]
          /\ On(Home(key[idx]), deleteIndex, idx)
    /\ Moving => key[idx] = key[deleteIndex] /\ idx # deleteIndex /\ key[idx] # NullKey
    /\ Moving /\ wpc = "nullValue" => value[idx] = value[deleteIndex]

WriterInv ==
    OpInv /\ SizeInv /\ UniqueInv /\ ChainInv /\ ValueInv /\ WalkInv /\ CompactInv

\* A get that no erase ran into: the cells behind it held other keys.
CurrentGet(g) ==
    /\ g.pc = "probe" => \A d \in Cells :
          d # Predecessor(g.key) /\ On(Predecessor(g.key), d, g.idx) => key[d] \notin {NullKey, g.key}
    /\ g.pc \in {"load", "reprobe"} => key[g.idx] = g.key
    /\ g.pc \in {"reprobe", "answer"} => g.loaded \in g.seen

\* The cell of a get holds another key, or is about to, and goes on to do
\* so until the next erase.
Foreign(g) ==
    \/ key[g.idx] \notin {NullKey, g.key} /\ (op.kind = "erase" => Passed(g.idx))
    \/ wpc = "move" /\ deleteIndex = g.idx /\ key[idx] # g.key

\* A get that one erase at most ran into: if the cell was taken from its key
\* before the value was loaded, that erase will not bring the key back.
OwnGet(g) ==
    /\ g.pc = "load" =>
          \/ key[g.idx] = g.key
          \/ /\ g.erases = 1
             /\ op.kind = "erase" => /\ Passed(g.idx)
                                     /\ \A d \in Cells : key[d] = g.key => Passed(d)
    /\ g.pc = "reprobe" => g.loaded \in g.seen \cup {NullValue} \/ (g.erases = 1 /\ Foreign(g))
    /\ g.pc = "answer" => g.loaded \in g.seen \cup {NullValue}

GetInv(g) ==
    g.pc # "rest" =>
        /\ Contents[g.key] \in g.seen
        /\ op.kind = "erase" => g.erases > 0
        /\ g.erases = 0 => CurrentGet(g)
        /\ g.erases <= 1 => OwnGet(g)

ReaderInv == \A r \in Readers : GetInv(reader[r])

IInv == TypeOK /\ WriterInv /\ ReaderInv

-----------------------------------------------------------------------------
(* Occupied cells *)

\* The type of what the writer works on, the part of TypeOK without readers.
WriterType ==
    /\ key \in [Cells -> Keys \cup {NullKey}]
    /\ value \in [Cells -> Values \cup {NullValue}]
    /\ size \in 0 .. maxLoad
    /\ op \in {Map!NoOp} \cup {Map!Assign(k, v) : k \in Keys, v \in Values}
              \cup {Map!Erase(k) : k \in Keys}
    /\ wpc \in {"idle", "assign", "store", "stored", "erase", "nullValue", "nullKey", "compact", "move"}
    /\ idx \in Cells /\ deleteIndex \in Cells /\ first \in Cells

\* What the operation in progress has.
LEMMA OpFields ==
    ASSUME WriterType
    PROVE  /\ op.kind \in {"none", "assign", "erase"}
           /\ op = Map!NoOp <=> op.kind = "none"
           /\ op.kind \in {"assign", "erase"} => op.key \in Keys
           /\ op.kind = "assign" => op.value \in Values
  BY DEF WriterType, Map!NoOp, Map!Assign, Map!Erase

\* The occupied cells can be counted.
LEMMA OccupiedFinite ==
    /\ IsFiniteSet(Cells) /\ Cardinality(Cells) = Capacity
    /\ IsFiniteSet(Occupied) /\ Cardinality(Occupied) \in Nat
  <1>1. IsFiniteSet(Cells) /\ Cardinality(Cells) = Capacity
    BY FS_Interval, MapAssumption DEF Cells
  <1>2. Occupied \in SUBSET Cells
    BY DEF Occupied
  <1>3. IsFiniteSet(Occupied)
    BY <1>1, <1>2, FS_Subset
  <1>4. QED
    BY <1>1, <1>3, FS_CardinalityType

\* With fewer entries than cells, one is free; with two fewer, one other
\* than p is.
LEMMA FreeCell ==
    ASSUME Cardinality(Occupied) < Capacity
    PROVE  /\ \E d \in Cells : key[d] = NullKey
           /\ Cardinality(Occupied) + 1 < Capacity =>
                 \A p \in Cells : \E d \in Cells : d # p /\ key[d] = NullKey
  <1>1. \E d \in Cells : key[d] = NullKey
    <2>1. Cells # Occupied
      BY OccupiedFinite, MapAssumption
    <2>2. QED
      BY <2>1 DEF Occupied
  <1>2. ASSUME Cardinality(Occupied) + 1 < Capacity, NEW p \in Cells
        PROVE  \E d \in Cells : d # p /\ key[d] = NullKey
    <2>1. Cardinality(Occupied \cup {p}) \in {Cardinality(Occupied), Cardinality(Occupied) + 1}
      BY OccupiedFinite, FS_AddElement
    <2>2. Cells # Occupied \cup {p}
      BY <1>2, <2>1, OccupiedFinite, MapAssumption
    <2>3. QED
      BY <2>2 DEF Occupied
  <1>3. QED
    BY <1>1, <1>2

\* A key stored in a free cell is one entry more.
LEMMA OccupiedMore ==
    ASSUME key \in [Cells -> Keys \cup {NullKey}], NEW i \in Cells, key[i] = NullKey,
           NEW k \in Keys, key' = [key EXCEPT ![i] = k]
    PROVE  Cardinality(Occupied') = Cardinality(Occupied) + 1
  <1>1. Occupied' = Occupied \cup {i} /\ i \notin Occupied
    BY MapAssumption DEF Occupied
  <1>2. QED
    BY <1>1, OccupiedFinite, FS_AddElement

\* A cell that is emptied is one entry less.
LEMMA OccupiedLess ==
    ASSUME key \in [Cells -> Keys \cup {NullKey}], NEW i \in Cells, key[i] # NullKey,
           key' = [key EXCEPT ![i] = NullKey]
    PROVE  Cardinality(Occupied') = Cardinality(Occupied) - 1
  <1>1. Occupied' = Occupied \ {i} /\ i \in Occupied
    BY MapAssumption DEF Occupied
  <1>2. QED
    BY <1>1, OccupiedFinite, FS_RemoveElement

\* There is always a free cell, since maxLoad is less than Capacity, and two
\* while an assign is looking for one.
LEMMA Room ==
    ASSUME WriterType, SizeInv
    PROVE  /\ \E d \in Cells : key[d] = NullKey
           /\ wpc = "assign" => \A p \in Cells : \E d \in Cells : d # p /\ key[d] = NullKey
  <1>1. Cardinality(Occupied) < Capacity
    BY OccupiedFinite, MapAssumption DEF WriterType, SizeInv
  <1>2. wpc = "assign" => Cardinality(Occupied) + 1 < Capacity
    BY OccupiedFinite, MapAssumption DEF WriterType, SizeInv
  <1>3. QED
    BY <1>1, <1>2, FreeCell

\* A walk that has come to a free cell, or all the way round, and has not
\* met its key, would not find it anywhere.
LEMMA NotInMap ==
    ASSUME WriterType, SizeInv, ChainInv, ~Compacting, NEW k \in Keys, NEW i \in Cells,
           \A d \in Cells : d # Predecessor(k) /\ On(Predecessor(k), d, i) => key[d] # k,
           Following(i) = Predecessor(k) \/ key[Following(i)] = NullKey
    PROVE  \A c \in Cells : key[c] # k
  <1> SUFFICES ASSUME NEW c \in Cells, key[c] = k
               PROVE  FALSE
    OBVIOUS
  <1>1. c = Predecessor(k) \/ ~On(Predecessor(k), c, i)
    OBVIOUS
  <1>2. Predecessor(k) \in Cells /\ Following(Predecessor(k)) = Home(k) /\ Following(i) \in Cells
    BY HomeFollows, FollowingWraps
  <1>3. key[c] # NullKey
    BY MapAssumption
  <1>4. CASE Following(i) = Predecessor(k)
    <2>1. \A d \in Cells : On(Home(k), d, c)
      BY <1>1, <1>2, <1>4, NotMet
    <2>2. PICK d \in Cells : key[d] = NullKey
      BY Room
    <2>3. QED
      BY <1>3, <2>1, <2>2 DEF ChainInv
  <1>5. CASE Following(i) # Predecessor(k)
    <2>1. On(Home(k), Following(i), c)
      BY <1>1, <1>2, <1>5, NotMet
    <2>2. QED
      BY <1>2, <1>3, <1>5, <2>1 DEF ChainInv
  <1>6. QED
    BY <1>4, <1>5

-----------------------------------------------------------------------------
(* The writer keeps its invariant *)

LEMMA WriterInit ==
    ASSUME Init
    PROVE  WriterType /\ WriterInv
  <1>1. WriterType
    BY MapAssumption DEF Init, WriterType, Cells
  <1>2. Cardinality(Occupied) = 0
    <2>1. Occupied = {}
      BY DEF Init, Occupied
    <2>2. QED
      BY <2>1, FS_EmptySet
  <1>3. QED
    BY <1>1, <1>2 DEF Init, WriterInv, OpInv, SizeInv, UniqueInv, ChainInv, ValueInv, WalkInv,
                      CompactInv, Moving, Compacting

LEMMA WriterStutter ==
    ASSUME WriterType, WriterInv, UNCHANGED <<cells, size, op, wpc, locals>>
    PROVE  WriterType' /\ WriterInv'
  BY DEF cells, locals, WriterType, WriterInv, OpInv, SizeInv, Occupied, UniqueInv, ChainInv,
         ValueInv, WalkInv, CompactInv, Moving, Compacting, Passed

\* An operation begins: its walk has met nothing yet.
LEMMA CallKeeps ==
    ASSUME WriterType, WriterInv,
           \/ \E k \in Keys, v \in Values : assign(k, v)
           \/ \E k \in Keys : erase(k)
    PROVE  WriterType' /\ WriterInv'
  <1>1. PICK k \in Keys : /\ \/ /\ wpc' = "assign" /\ size < maxLoad /\ size' = size + 1
                                /\ \E v \in Values : op' = Map!Assign(k, v)
                             \/ wpc' = "erase" /\ size' = size /\ op' = Map!Erase(k)
                          /\ wpc = "idle" /\ idx' = Predecessor(k) /\ first' = Predecessor(k)
                          /\ UNCHANGED <<key, value, deleteIndex>>
    BY DEF assign, erase, cells
  <1>2. Predecessor(k) \in Cells
    BY HomeFollows
  <1>3. WriterType'
    BY <1>1, <1>2, MapAssumption DEF WriterType
  <1>4. OpInv'
    BY <1>1 DEF OpInv, Map!Assign, Map!Erase
  <1>5. SizeInv'
    BY <1>1, OccupiedFinite DEF WriterInv, SizeInv, Occupied
  <1>6. UniqueInv' /\ ChainInv' /\ ValueInv'
    BY <1>1 DEF WriterInv, UniqueInv, ChainInv, ValueInv, Moving, Compacting
  <1>7. WalkInv'
    <2>1. op'.key = k
      BY <1>1 DEF Map!Assign, Map!Erase
    <2>2. \A d \in Cells : On(first', d, idx') => d = first'
      BY <1>1, <1>2, MapAssumption DEF On, Cells
    <2>3. QED
      BY <1>1, <2>1, <2>2 DEF WalkInv, Moving, Compacting
  <1>8. CompactInv'
    BY <1>1 DEF CompactInv, Moving, Compacting
  <1>9. QED
    BY <1>3, <1>4, <1>5, <1>6, <1>7, <1>8 DEF WriterInv

\* An assign that has passed the load limit finds a cell before its walk
\* comes round.
LEMMA AssignRoom ==
    ASSUME WriterType, WriterInv, wpc = "assign"
    PROVE  Following(idx) # first
  <1>1. \A d \in Cells : d # first /\ On(first, d, idx) => key[d] # NullKey
    BY DEF WriterInv, WalkInv
  <1>2. PICK d \in Cells : d # first /\ key[d] = NullKey
    BY Room DEF WriterInv, WriterType
  <1>3. QED
    BY <1>1, <1>2, NotMet DEF WriterType

\* A turn of assign's loop never comes all the way round: it passes the key
\* on, or finds it, or adds it behind what it has met.
LEMMA AssignProbeKeeps ==
    ASSUME WriterType, WriterInv, AssignProbe
    PROVE  WriterType' /\ WriterInv'
  <1> DEFINE i == Following(idx)
  <1>1. wpc = "assign" /\ op.kind = "assign" /\ op.key \in Keys /\ i \in Cells
    BY OpFields, FollowingWraps DEF AssignProbe, WriterType, WriterInv, OpInv
  <1>2. first = Predecessor(op.key) /\ Following(first) = Home(op.key)
    BY <1>1, HomeFollows DEF WriterInv, WalkInv
  <1>3. \A d \in Cells : d # first /\ On(first, d, idx) => key[d] \notin {NullKey, op.key}
    BY <1>1 DEF WriterInv, WalkInv
  <1>4. i # first
    BY <1>1, AssignRoom
  <1>5. /\ idx' = i /\ UNCHANGED <<op, deleteIndex, first, value>>
        /\ key' = IF key[i] = NullKey THEN [key EXCEPT ![i] = op.key] ELSE key
        /\ size' = IF key[i] = op.key THEN size - 1 ELSE size
        /\ wpc' = IF key'[i] = op.key THEN "store" ELSE "assign"
    BY <1>4 DEF AssignProbe
  <1>6. size = Cardinality(Occupied) + 1 /\ Cardinality(Occupied) \in Nat
    BY <1>1, OccupiedFinite DEF WriterInv, SizeInv
  <1>7. WriterType'
    BY <1>1, <1>5, <1>6, MapAssumption DEF WriterType
  <1>8. OpInv'
    BY <1>1, <1>5 DEF OpInv
  <1>9. CASE key[i] = NullKey
    <2>1. key' = [key EXCEPT ![i] = op.key] /\ wpc' = "store" /\ size' = size
      BY <1>1, <1>5, <1>9, MapAssumption DEF WriterType
    <2>2. \A c \in Cells : key[c] # op.key
      BY <1>1, <1>2, <1>3, <1>9, NotInMap DEF WriterInv, Compacting, WriterType
    <2>3. SizeInv'
      <3>1. Cardinality(Occupied') = Cardinality(Occupied) + 1
        <4>1. /\ key \in [Cells -> Keys \cup {NullKey}] /\ i \in Cells /\ key[i] = NullKey
              /\ op.key \in Keys /\ key' = [key EXCEPT ![i] = op.key]
          BY <1>1, <1>9, <2>1 DEF WriterType
        <4> HIDE DEF i
        <4>2. QED
          BY <4>1, OccupiedMore
      <3>2. QED
        BY <1>6, <2>1, <3>1 DEF SizeInv
    <2>4. UniqueInv'
      BY <1>1, <2>1, <2>2 DEF WriterInv, WriterType, UniqueInv, Moving
    <2>5. ChainInv'
      <3> SUFFICES ASSUME NEW c \in Cells, NEW d \in Cells, key'[c] # NullKey, key'[d] = NullKey,
                          On(Home(key'[c]), d, c)
                   PROVE  FALSE
        BY DEF ChainInv
      <3>1. d # i /\ key[d] = NullKey
        BY <1>1, <2>1, MapAssumption DEF WriterType
      <3>2. CASE c = i
        <4>1. key'[c] = op.key
          BY <1>1, <2>1, <3>2 DEF WriterType
        <4>2. On(first, d, idx) /\ d # first
          BY <1>2, <1>4, <3>1, <3>2, <4>1, Met DEF WriterType
        <4>3. QED
          BY <1>3, <3>1, <4>2
      <3>3. CASE c # i
        BY <1>1, <2>1, <3>1, <3>3 DEF WriterInv, WriterType, ChainInv, Compacting
      <3>4. QED
        BY <3>2, <3>3
    <2>6. ValueInv'
      BY <1>1, <1>5, <1>9, <2>1 DEF WriterInv, WriterType, ValueInv
    <2>7. WalkInv' /\ CompactInv'
      BY <1>1, <1>5, <2>1 DEF WriterType, WalkInv, CompactInv, Moving, Compacting
    <2>8. QED
      BY <1>7, <1>8, <2>3, <2>4, <2>5, <2>6, <2>7 DEF WriterInv
  <1>10. CASE key[i] # NullKey
    <2>1. key' = key /\ wpc' = IF key[i] = op.key THEN "store" ELSE "assign"
      BY <1>5, <1>10
    <2>2. SizeInv'
      <3>1. Occupied' = Occupied
        BY <2>1 DEF Occupied
      <3>2. CASE key[i] = op.key
        BY <1>5, <1>6, <2>1, <3>1, <3>2 DEF SizeInv
      <3>3. CASE key[i] # op.key
        BY <1>5, <1>6, <2>1, <3>1, <3>3 DEF SizeInv
      <3>4. QED
        BY <3>2, <3>3
    <2>3. UniqueInv' /\ ChainInv' /\ ValueInv'
      BY <1>1, <1>5, <2>1 DEF WriterInv, WriterType, UniqueInv, ChainInv, ValueInv, Moving, Compacting
    <2>4. WalkInv'
      <3>1. \A d \in Cells : On(first, d, i) <=> On(first, d, idx) \/ d = i
        BY <1>4, OnStep DEF WriterType
      <3>2. QED
        BY <1>2, <1>3, <1>5, <1>10, <2>1, <3>1 DEF WalkInv, Moving, Compacting
    <2>5. CompactInv'
      BY <2>1 DEF CompactInv, Moving, Compacting
    <2>6. QED
      BY <1>7, <1>8, <2>2, <2>3, <2>4, <2>5 DEF WriterInv
  <1>11. QED
    BY <1>9, <1>10

\* The value is stored, and assign returns.
LEMMA AssignEndKeeps ==
    ASSUME WriterType, WriterInv, AssignStore \/ AssignReturn
    PROVE  WriterType' /\ WriterInv'
  <1>1. CASE AssignStore
    <2>1. /\ wpc = "store" /\ wpc' = "stored" /\ value' = [value EXCEPT ![idx] = op.value]
          /\ UNCHANGED <<key, size, op, idx, deleteIndex, first>>
          /\ op.kind = "assign" /\ op.key \in Keys /\ op.value \in Values
      BY <1>1, OpFields DEF AssignStore, locals, WriterInv, OpInv
    <2>2. WriterType'
      BY <2>1 DEF WriterType
    <2>3. SizeInv'
      BY <2>1 DEF WriterInv, SizeInv, Occupied
    <2>4. UniqueInv' /\ ChainInv' /\ ValueInv'
      BY <2>1, MapAssumption DEF WriterInv, WriterType, UniqueInv, ChainInv, ValueInv, WalkInv, Moving, Compacting
    <2>5. OpInv' /\ WalkInv' /\ CompactInv'
      BY <2>1 DEF WriterInv, WriterType, OpInv, WalkInv, CompactInv, Moving, Compacting
    <2>6. QED
      BY <2>2, <2>3, <2>4, <2>5 DEF WriterInv
  <1>2. CASE AssignReturn
    <2>1. wpc = "stored" /\ wpc' = "idle" /\ op' = Map!NoOp /\ UNCHANGED <<key, value, size>>
      BY <1>2 DEF AssignReturn, Done, cells
    <2>2. WriterType'
      BY <1>2, <2>1, MapAssumption DEF WriterType, AssignReturn, Done, Cells
    <2>3. SizeInv'
      BY <2>1 DEF WriterInv, SizeInv, Occupied
    <2>4. UniqueInv' /\ ChainInv' /\ ValueInv'
      BY <2>1 DEF WriterInv, UniqueInv, ChainInv, ValueInv, Moving, Compacting
    <2>5. OpInv' /\ WalkInv' /\ CompactInv'
      BY <2>1 DEF OpInv, WalkInv, CompactInv, Moving, Compacting
    <2>6. QED
      BY <2>2, <2>3, <2>4, <2>5 DEF WriterInv
  <1>3. QED
    BY <1>1, <1>2

\* A turn of erase's loop: the key is found with a free cell ahead, or the
\* walk goes on, or the operation returns.
LEMMA EraseProbeKeeps ==
    ASSUME WriterType, WriterInv, EraseProbe
    PROVE  WriterType' /\ WriterInv'
  <1> DEFINE i == Following(idx)
  <1>1. wpc = "erase" /\ op.kind = "erase" /\ i \in Cells /\ UNCHANGED <<key, value, size>>
    BY FollowingWraps DEF EraseProbe, cells, WriterType, WriterInv, OpInv
  <1>2. /\ first = Predecessor(op.key)
        /\ \A d \in Cells : d # first /\ On(first, d, idx) => key[d] \notin {NullKey, op.key}
    BY <1>1 DEF WriterInv, WalkInv
  <1>3. wpc' \in {"idle", "erase", "nullValue"} /\ idx' \in Cells /\ first' \in Cells /\ deleteIndex' \in Cells
    BY <1>1, MapAssumption DEF EraseProbe, Done, Cells, WriterType
  <1>4. wpc' = "nullValue" => idx' = first'
    BY <1>1 DEF EraseProbe, Done
  <1>5. WriterType'
    <2>1. op' \in {op, Map!NoOp}
      BY <1>1 DEF EraseProbe, Done
    <2>2. QED
      BY <1>1, <1>3, <2>1 DEF WriterType
  <1>6. OpInv'
    BY <1>1 DEF EraseProbe, Done, OpInv
  <1>7. SizeInv'
    BY <1>1, <1>3 DEF WriterInv, SizeInv, Occupied
  <1>8. UniqueInv' /\ ChainInv' /\ ValueInv'
    BY <1>1 DEF WriterInv, UniqueInv, ChainInv, ValueInv, Moving, Compacting
  <1>9. WalkInv'
    <2>1. CASE wpc' = "idle"
      BY <2>1 DEF WalkInv, Moving, Compacting
    <2>2. CASE wpc' = "nullValue"
      <3>1. key'[idx'] = op'.key /\ idx' = first'
        BY <1>1, <2>2 DEF EraseProbe, Done
      <3>2. QED
        BY <2>2, <3>1 DEF WalkInv, Moving, Compacting
    <2>3. CASE wpc' = "erase"
      <3>1. /\ idx' = i /\ first' = first /\ op' = op /\ i # first
            /\ key[i] \notin {NullKey, op.key}
        BY <1>1, <2>3 DEF EraseProbe, Done
      <3>2. \A d \in Cells : On(first, d, i) <=> On(first, d, idx) \/ d = i
        BY <3>1, OnStep DEF WriterType
      <3>3. QED
        BY <1>1, <1>2, <2>3, <3>1, <3>2 DEF WalkInv, Moving, Compacting
    <2>4. QED
      BY <1>3, <2>1, <2>2, <2>3
  <1>10. CompactInv'
    <2>1. CASE wpc' = "nullValue"
      <3>1. key[idx'] # NullKey
        BY <1>1, <2>1 DEF EraseProbe, Done
      <3>2. PICK d \in Cells : key[d] = NullKey
        BY Room DEF WriterInv
      <3>3. ~On(first', d, idx')
        BY <1>3, <1>4, <2>1, <3>1, <3>2, OnEnds
      <3>4. QED
        BY <1>1, <1>4, <2>1, <3>2, <3>3 DEF CompactInv, Moving, Compacting
    <2>2. CASE wpc' # "nullValue"
      BY <1>3, <2>2 DEF CompactInv, Moving, Compacting
    <2>3. QED
      BY <2>1, <2>2
  <1>11. QED
    BY <1>5, <1>6, <1>7, <1>8, <1>9, <1>10 DEF WriterInv

\* nullOutCell, first half.
LEMMA NullOutValueKeeps ==
    ASSUME WriterType, WriterInv, NullOutValue
    PROVE  WriterType' /\ WriterInv'
  <1>1. /\ wpc = "nullValue" /\ wpc' = "nullKey" /\ value' = [value EXCEPT ![idx] = NullValue]
        /\ UNCHANGED <<key, size, op, idx, deleteIndex, first>>
    BY DEF NullOutValue, locals
  <1>2. key[idx] # NullKey
    <2>1. op.key \in Keys
      BY <1>1, OpFields DEF WriterInv, OpInv
    <2>2. QED
      BY <1>1, <2>1, MapAssumption DEF WriterInv, WalkInv, CompactInv, Moving
  <1>3. WriterType'
    BY <1>1 DEF WriterType
  <1>4. SizeInv'
    BY <1>1 DEF WriterInv, SizeInv, Occupied
  <1>5. OpInv' /\ UniqueInv' /\ ChainInv'
    BY <1>1 DEF WriterInv, OpInv, UniqueInv, ChainInv, Moving, Compacting
  <1>6. ValueInv'
    BY <1>1, <1>2 DEF WriterInv, WriterType, ValueInv
  <1>7. WalkInv' /\ CompactInv'
    BY <1>1 DEF WriterInv, WriterType, WalkInv, CompactInv, Moving, Compacting
  <1>8. QED
    BY <1>3, <1>4, <1>5, <1>6, <1>7 DEF WriterInv

\* Second half: the cell is the one to fill.  No chain that has been passed
\* holds it, for it would go round through the free cell ahead.
LEMMA NullOutKeyKeeps ==
    ASSUME WriterType, WriterInv, NullOutKey
    PROVE  WriterType' /\ WriterInv'
  <1>1. /\ wpc = "nullKey" /\ wpc' = "compact" /\ key' = [key EXCEPT ![idx] = NullKey]
        /\ deleteIndex' = idx /\ UNCHANGED <<value, size, op, idx, first>>
    BY DEF NullOutKey
  <1>2. op.kind = "erase" /\ op.key \in Keys
    BY <1>1, OpFields DEF WriterInv, OpInv
  <1>3. key[idx] # NullKey
    BY <1>1, <1>2, MapAssumption DEF WriterInv, WalkInv, CompactInv, Moving
  <1>4. WriterType'
    BY <1>1 DEF WriterType
  <1>5. OpInv'
    BY <1>1, <1>2 DEF OpInv
  <1>6. SizeInv'
    <2>1. Cardinality(Occupied') = Cardinality(Occupied) - 1
      <3>1. /\ key \in [Cells -> Keys \cup {NullKey}] /\ idx \in Cells /\ key[idx] # NullKey
            /\ key' = [key EXCEPT ![idx] = NullKey]
        BY <1>1, <1>3 DEF WriterType
      <3>2. QED
        BY <3>1, OccupiedLess
    <2>2. QED
      BY <1>1, <2>1, OccupiedFinite DEF WriterInv, SizeInv
  <1>7. \A c \in Cells : key'[c] = IF c = idx THEN NullKey ELSE key[c]
    BY <1>1 DEF WriterType
  <1>8. PICK e \in Cells : key[e] = NullKey /\ ~On(first, e, idx)
    BY <1>1 DEF WriterInv, CompactInv
  <1>9. UniqueInv'
    BY <1>1, <1>7 DEF WriterInv, UniqueInv
  <1>10. ChainInv'
    <2> SUFFICES ASSUME NEW c \in Cells, NEW d \in Cells, key'[c] # NullKey, key'[d] = NullKey,
                        On(Home(key'[c]), d, c)
                 PROVE  d = idx /\ ~On(first, c, idx)
      BY <1>1 DEF ChainInv, Compacting, Passed
    <2>1. c # idx /\ key[c] = key'[c] /\ key[c] \in Keys
      BY <1>4, <1>7 DEF WriterType
    <2>2. \A b \in Cells : key[b] = NullKey => ~On(Home(key[c]), b, c)
      BY <1>1, <2>1 DEF WriterInv, ChainInv, Compacting
    <2>3. d = idx
      BY <1>7, <2>1, <2>2
    <2>4. ~On(first, c, idx)
      BY <1>8, <2>1, <2>2, <2>3, HomeFollows, OnRound DEF WriterType
    <2>5. QED
      BY <2>3, <2>4
  <1>11. ValueInv'
    BY <1>1, <1>7 DEF WriterInv, ValueInv, WalkInv
  <1>12. WalkInv'
    <2>1. \A c \in Cells : key'[c] # op.key
      <3>1. CASE idx # first
        BY <1>1, <1>2, <1>7, <3>1, MapAssumption DEF WriterInv, WalkInv, Moving
      <3>2. CASE idx = first
        BY <1>1, <1>2, <1>7, <3>2, MapAssumption DEF WriterInv, WriterType, WalkInv, UniqueInv, Moving
      <3>3. QED
        BY <3>1, <3>2
    <2>2. QED
      BY <1>1, <2>1 DEF WalkInv
  <1>13. CompactInv'
    <2>1. On(first, idx, idx)
      BY OnEnds DEF WriterType
    <2>2. e # idx
      BY <1>8, <2>1
    <2>3. QED
      BY <1>1, <1>4, <1>7, <1>8, <2>1, <2>2 DEF WriterType, CompactInv, Moving, Compacting
  <1>14. QED
    BY <1>4, <1>5, <1>6, <1>9, <1>10, <1>11, <1>12, <1>13 DEF WriterInv

\* A turn of compactChain's loop.  It never comes all the way round, so the
\* check for a cycle is redundant; at a free cell no chain misses the cell
\* that was to be filled; and a key that stays did not need it.
LEMMA CompactProbeKeeps ==
    ASSUME WriterType, WriterInv, CompactProbe
    PROVE  WriterType' /\ WriterInv'
  <1> DEFINE i == Following(idx)
  <1>1. /\ wpc = "compact" /\ op.kind = "erase" /\ key' = key /\ i \in Cells
        /\ idx \in Cells /\ first \in Cells /\ deleteIndex \in Cells
    BY FollowingWraps DEF CompactProbe, WriterType, WriterInv, OpInv
  <1>2. On(first, deleteIndex, idx) /\ key[deleteIndex] = NullKey
    BY <1>1 DEF WriterInv, CompactInv, Compacting
  <1>3. PICK e \in Cells : key[e] = NullKey /\ ~On(first, e, idx)
    BY <1>1 DEF WriterInv, CompactInv
  <1>4. i # first
    <2>1. e # first
      BY <1>1, <1>3, OnEnds
    <2>2. QED
      BY <1>1, <1>3, <2>1, NotMet
  <1>5. /\ \A d \in Cells : On(first, d, i) <=> On(first, d, idx) \/ d = i
        /\ ~On(first, i, idx) /\ i # deleteIndex
    BY <1>1, <1>2, <1>4, OnStep
  <1>6. \A c, d \in Cells : key[c] # NullKey /\ key[d] = NullKey /\ On(Home(key[c]), d, c)
            => d = deleteIndex /\ ~On(first, c, idx)
    BY <1>1 DEF WriterInv, ChainInv, Compacting, Passed
  <1>7. size = Cardinality(Occupied) + 1 /\ Cardinality(Occupied) \in Nat /\ Occupied' = Occupied
    BY <1>1, OccupiedFinite DEF WriterInv, SizeInv, Occupied
  <1>8. \A c, d \in Cells : key[c] = key[d] /\ key[c] # NullKey => c = d
    BY <1>1 DEF WriterInv, UniqueInv, Moving
  <1>9. \A c \in Cells : key[c] = NullKey <=> value[c] = NullValue
    BY <1>1 DEF WriterInv, ValueInv
  <1>10. CASE key[i] = NullKey
    <2>1. /\ op' = Map!NoOp /\ wpc' = "idle" /\ idx' = 0 /\ deleteIndex' = 0 /\ first' = 0
          /\ size' = size - 1 /\ value' = value
      BY <1>4, <1>10 DEF CompactProbe, Done
    <2>2. WriterType'
      BY <1>1, <1>7, <2>1, MapAssumption DEF WriterType, Cells
    <2>3. SizeInv'
      BY <1>7, <2>1 DEF SizeInv
    <2>4. ChainInv'
      <3> SUFFICES ASSUME NEW c \in Cells, NEW d \in Cells, key[c] # NullKey, key[d] = NullKey,
                          On(Home(key[c]), d, c)
                   PROVE  FALSE
        BY <1>1 DEF ChainInv
      <3>1. d = deleteIndex /\ ~On(first, c, idx) /\ Home(key[c]) \in Cells
        BY <1>6, HomeFollows DEF WriterType
      <3>2. On(Home(key[c]), i, c)
        BY <1>1, <1>2, <1>4, <3>1, OnAcross
      <3>3. QED
        BY <1>1, <1>5, <1>6, <1>10, <3>2
    <2>5. OpInv' /\ UniqueInv' /\ ValueInv'
      BY <1>1, <1>8, <1>9, <2>1 DEF OpInv, UniqueInv, ValueInv
    <2>6. WalkInv' /\ CompactInv'
      BY <2>1 DEF WalkInv, CompactInv, Moving, Compacting
    <2>7. QED
      BY <2>2, <2>3, <2>4, <2>5, <2>6 DEF WriterInv
  <1>11. CASE key[i] # NullKey
    <2>1. /\ idx' = i /\ UNCHANGED <<op, size, deleteIndex, first>>
          /\ IF Belongs(key[i], i)
             THEN value' = [value EXCEPT ![deleteIndex] = value[i]] /\ wpc' = "move"
             ELSE value' = value /\ wpc' = wpc
      BY <1>4, <1>11 DEF CompactProbe
    <2>2. Belongs(key[i], i) <=> On(Home(key[i]), deleteIndex, i)
      BY <1>1, <1>11, BelongsOn DEF WriterType
    <2>3. wpc' = IF Belongs(key[i], i) THEN "move" ELSE "compact"
      BY <1>1, <2>1
    <2>4. WriterType'
      BY <1>1, <2>1, <2>3 DEF WriterType
    <2>5. SizeInv'
      BY <1>7, <2>1, <2>3 DEF SizeInv
    <2>6. ChainInv'
      <3> SUFFICES ASSUME NEW c \in Cells, NEW d \in Cells, key[c] # NullKey, key[d] = NullKey,
                          On(Home(key[c]), d, c)
                   PROVE  d = deleteIndex /\ ~Passed(c)'
        BY <1>1, <2>1, <2>3 DEF ChainInv, Compacting
      <3>1. d = deleteIndex /\ ~On(first, c, idx)
        BY <1>6
      <3>2. CASE c = i
        BY <2>1, <2>2, <2>3, <3>1, <3>2 DEF Passed
      <3>3. CASE c # i
        BY <1>5, <2>1, <3>1, <3>3 DEF Passed
      <3>4. QED
        BY <3>1, <3>2, <3>3
    <2>7. OpInv' /\ UniqueInv'
      BY <1>1, <1>8, <2>1, <2>3 DEF OpInv, UniqueInv
    <2>8. ValueInv'
      <3>1. CASE Belongs(key[i], i)
        BY <1>1, <1>2, <1>9, <2>1, <2>3, <3>1 DEF ValueInv, WriterType
      <3>2. CASE ~Belongs(key[i], i)
        BY <1>1, <1>9, <2>1, <3>2 DEF ValueInv
      <3>3. QED
        BY <3>1, <3>2
    <2>9. WalkInv'
      BY <1>1, <2>1, <2>3 DEF WriterInv, WalkInv, Moving, Compacting
    <2>10. CompactInv'
      <3>1. key'[e] = NullKey /\ ~On(first', e, idx')
        BY <1>1, <1>3, <1>5, <1>11, <2>1
      <3>2. On(first', deleteIndex', idx') /\ key'[deleteIndex'] = NullKey
        BY <1>1, <1>2, <1>5, <2>1
      <3>3. wpc' = "move" =>
              /\ key'[idx'] # NullKey /\ idx' # first' /\ value'[deleteIndex'] = value'[idx']
              /\ On(Home(key'[idx']), deleteIndex', idx')
        BY <1>1, <1>4, <1>5, <1>11, <2>1, <2>2, <2>3 DEF WriterType
      <3>4. QED
        BY <2>3, <3>1, <3>2, <3>3 DEF CompactInv, Moving, Compacting
    <2>11. QED
      BY <2>4, <2>5, <2>6, <2>7, <2>8, <2>9, <2>10 DEF WriterInv
  <1>12. QED
    BY <1>10, <1>11

\* The key follows its value to the cell to fill, on its own chain.
LEMMA MoveKeeps ==
    ASSUME WriterType, WriterInv, Move
    PROVE  WriterType' /\ WriterInv'
  <1>1. /\ wpc = "move" /\ wpc' = "nullValue" /\ key' = [key EXCEPT ![deleteIndex] = key[idx]]
        /\ UNCHANGED <<value, size, op, idx, deleteIndex, first>>
    BY DEF Move, locals
  <1>2. /\ key[deleteIndex] = NullKey /\ key[idx] # NullKey /\ idx # first
        /\ value[deleteIndex] = value[idx] /\ On(first, deleteIndex, idx)
        /\ On(Home(key[idx]), deleteIndex, idx)
    BY <1>1 DEF WriterInv, CompactInv, Compacting
  <1>3. /\ idx \in Cells /\ deleteIndex \in Cells /\ idx # deleteIndex /\ key[idx] \in Keys
        /\ \A c \in Cells : key'[c] = IF c = deleteIndex THEN key[idx] ELSE key[c]
    BY <1>1, <1>2 DEF WriterType
  <1>4. WriterType'
    BY <1>1 DEF WriterType
  <1>5. SizeInv'
    <2>1. Cardinality(Occupied') = Cardinality(Occupied) + 1
      <3>1. key \in [Cells -> Keys \cup {NullKey}]
        BY DEF WriterType
      <3>2. QED
        BY <1>1, <1>2, <1>3, <3>1, OccupiedMore
    <2>2. QED
      BY <1>1, <2>1, OccupiedFinite DEF WriterInv, SizeInv
  <1>6. UniqueInv'
    BY <1>1, <1>2, <1>3 DEF WriterInv, UniqueInv, Moving
  <1>7. ChainInv'
    <2> SUFFICES ASSUME NEW c \in Cells, NEW d \in Cells, key'[c] # NullKey, key'[d] = NullKey,
                        On(Home(key'[c]), d, c)
                 PROVE  FALSE
      BY DEF ChainInv
    <2>1. d # deleteIndex /\ key[d] = NullKey
      BY <1>2, <1>3
    <2>2. CASE c = deleteIndex
      <3>1. On(Home(key[idx]), d, deleteIndex) /\ Home(key[idx]) \in Cells
        BY <1>3, <2>2, HomeFollows
      <3>2. On(Home(key[idx]), d, idx)
        BY <1>2, <1>3, <3>1, OnPart
      <3>3. QED
        BY <1>2, <1>3, <2>1, <3>2 DEF WriterInv, ChainInv
    <2>3. CASE c # deleteIndex
      BY <1>3, <2>1, <2>3 DEF WriterInv, ChainInv
    <2>4. QED
      BY <2>2, <2>3
  <1>8. OpInv'
    BY <1>1 DEF WriterInv, OpInv
  <1>9. ValueInv'
    BY <1>1, <1>2, <1>3 DEF WriterInv, ValueInv
  <1>10. WalkInv'
    BY <1>1, <1>2, <1>3 DEF WriterInv, WalkInv, Moving, Compacting
  <1>11. CompactInv'
    <2>1. PICK e \in Cells : key[e] = NullKey /\ ~On(first, e, idx)
      BY <1>1 DEF WriterInv, CompactInv
    <2>2. key'[e] = NullKey
      BY <1>2, <1>3, <2>1
    <2>3. QED
      BY <1>1, <1>2, <1>3, <2>1, <2>2 DEF CompactInv, Moving, Compacting
  <1>12. QED
    BY <1>4, <1>5, <1>6, <1>7, <1>8, <1>9, <1>10, <1>11 DEF WriterInv

LEMMA ClearKeeps ==
    ASSUME WriterType, WriterInv, clear
    PROVE  WriterType' /\ WriterInv'
  <1>1. /\ wpc = "idle" /\ op = Map!NoOp /\ key' = [c \in Cells |-> NullKey]
        /\ value' = [c \in Cells |-> NullValue]
        /\ size' = 0 /\ UNCHANGED <<op, wpc, idx, deleteIndex, first>>
    BY DEF clear, locals, WriterInv, OpInv
  <1>2. WriterType'
    BY <1>1, MapAssumption DEF WriterType
  <1>3. SizeInv'
    <2>1. Occupied' = {}
      BY <1>1 DEF Occupied
    <2>2. QED
      BY <1>1, <2>1, FS_EmptySet DEF SizeInv
  <1>4. QED
    BY <1>1, <1>2, <1>3 DEF WriterInv, OpInv, UniqueInv, ChainInv, ValueInv, WalkInv, CompactInv,
                            Moving, Compacting

\* Every step of the writer and of the readers.
LEMMA WriterKeeps ==
    ASSUME WriterType, WriterInv, [Next]_vars
    PROVE  WriterType' /\ WriterInv'
  <1>1. CASE UNCHANGED vars
    BY <1>1, WriterStutter DEF vars, cells
  <1>2. CASE \/ \E r \in Readers, k \in Keys : get(r, k)
             \/ \E r \in Readers : Reader(r)
    BY <1>2, WriterStutter DEF get, Reader, GetProbe, GetLoad, GetReProbe, GetReturn, Reads
  <1>3. CASE \/ \E k \in Keys, v \in Values : assign(k, v)
             \/ \E k \in Keys : erase(k)
    BY <1>3, CallKeeps
  <1>4. CASE Writer
    BY <1>4, AssignProbeKeeps, AssignEndKeeps, EraseProbeKeeps, NullOutValueKeeps,
       NullOutKeyKeeps, CompactProbeKeeps, MoveKeeps DEF Writer
  <1>5. QED
    BY <1>1, <1>2, <1>3, <1>4, ClearKeeps DEF Next

\* The writer's invariant always holds.
THEOREM WriterCorrect == Spec => [](WriterType /\ WriterInv)
  BY WriterInit, WriterKeeps, PTL DEF Spec

\* Between operations the size is the number of entries: each way out of
\* assign, erase and compactChain has counted right (concurrent_map.h:186, 301).
THEOREM SizeSafe == Spec => []SizeExact
  <1>1. WriterType /\ WriterInv => SizeExact
    BY OccupiedFinite DEF WriterInv, SizeInv, SizeExact, Occupied
  <1>2. QED
    BY <1>1, WriterCorrect, PTL

\* Between operations every key is in one cell, with a value, and no free
\* cell lies between it and its home: compactChain leaves no gap, for every
\* hash and wherever chains wrap or cross (concurrent_map.h:283).
THEOREM ChainsSafe == Spec => []ChainsWhole
  <1>1. WriterType /\ WriterInv => ChainsWhole
    <2> SUFFICES ASSUME WriterType, WriterInv, wpc = "idle", NEW c \in Cells
                 PROVE  IF key[c] = NullKey THEN value[c] = NullValue
                        ELSE /\ value[c] # NullValue
                             /\ \A d \in Cells : key[d] = key[c] => d = c
                             /\ \A d \in Chain(key[c], c) : key[d] # NullKey
      BY DEF ChainsWhole
    <2>1. key[c] = NullKey <=> value[c] = NullValue
      BY DEF WriterInv, ValueInv
    <2>2. ASSUME key[c] # NullKey
          PROVE  \A d \in Cells : key[d] = key[c] => d = c
      BY <2>2 DEF WriterInv, UniqueInv, Moving
    <2>3. ASSUME key[c] # NullKey, NEW d \in Chain(key[c], c)
          PROVE  key[d] # NullKey
      <3>1. key[c] \in Keys
        BY <2>3 DEF WriterType
      <3>2. d \in Cells /\ On(Home(key[c]), d, c)
        BY <2>3, <3>1, ChainOn
      <3>3. QED
        BY <2>3, <3>2 DEF WriterInv, ChainInv, Compacting
    <2>4. QED
      BY <2>1, <2>2, <2>3
  <1>2. QED
    BY <1>1, WriterCorrect, PTL

-----------------------------------------------------------------------------
(* The map the cells stand for *)

\* A key has the value of any of its cells that has one, or none.
LEMMA ContentsOf ==
    ASSUME WriterType, WriterInv
    PROVE  /\ \A c \in Cells : key[c] \in Keys /\ value[c] # NullValue => Contents[key[c]] = value[c]
           /\ \A k \in Keys : (\A c \in Cells : key[c] = k => value[c] = NullValue)
                                  => Contents[k] = NullValue
           /\ Contents \in [Keys -> Values \cup {NullValue}]
  <1>1. ASSUME NEW c \in Cells, key[c] \in Keys, value[c] # NullValue
        PROVE  Contents[key[c]] = value[c]
    <2>1. ASSUME NEW d \in Cells, key[d] = key[c], value[d] # NullValue
          PROVE  value[d] = value[c]
      <3>1. CASE c = d
        BY <3>1
      <3>2. CASE c # d
        <4>1. Moving /\ (<<c, d>> = <<idx, deleteIndex>> \/ <<d, c>> = <<idx, deleteIndex>>)
          BY <1>1, <2>1, <3>2, MapAssumption DEF WriterInv, UniqueInv
        <4>2. CASE wpc = "nullValue"
          BY <4>1, <4>2 DEF WriterInv, CompactInv
        <4>3. CASE wpc = "nullKey"
          BY <1>1, <2>1, <4>1, <4>3 DEF WriterInv, WalkInv
        <4>4. QED
          BY <4>1, <4>2, <4>3 DEF Moving
      <3>3. QED
        BY <3>1, <3>2
    <2>2. ValuesOf(key[c]) = {value[c]}
      BY <1>1, <2>1 DEF ValuesOf
    <2>3. QED
      BY <1>1, <2>2 DEF Contents
  <1>2. ASSUME NEW k \in Keys, \A c \in Cells : key[c] = k => value[c] = NullValue
        PROVE  Contents[k] = NullValue
    <2>1. ValuesOf(k) = {}
      BY <1>2 DEF ValuesOf
    <2>2. QED
      BY <2>1 DEF Contents
  <1>3. Contents \in [Keys -> Values \cup {NullValue}]
    <2>1. \A k \in Keys : ValuesOf(k) \in SUBSET Values
      BY DEF ValuesOf, WriterType
    <2>2. QED
      BY <2>1 DEF Contents
  <1>4. QED
    BY <1>1, <1>2, <1>3

\* The value a key has, of those its cells have.
ValueAmong(S) == IF S = {} THEN NullValue ELSE CHOOSE v \in S : TRUE

LEMMA ContentsAmong ==
    /\ Contents = [k \in Keys |-> ValueAmong(ValuesOf(k))]
    /\ Contents' = [k \in Keys |-> ValueAmong(ValuesOf(k)')]
  <1>1. Contents = [k \in Keys |-> ValueAmong(ValuesOf(k))]
    BY Zenon DEF Contents, ValueAmong
  <1>2. Contents' = [k \in Keys |-> ValueAmong(ValuesOf(k)')]
    BY Zenon DEF Contents, ValueAmong
  <1>3. QED
    BY <1>1, <1>2

\* Steps that leave the values of every key alone.
LEMMA SameContents ==
    ASSUME \A k \in Keys : ValuesOf(k)' = ValuesOf(k)
    PROVE  Contents' = Contents
  BY ContentsAmong

\* A step of the writer other than these two stores does not change the map.
LEMMA OthersKeepMap ==
    ASSUME WriterType, WriterInv,
           \/ AssignProbe \/ AssignReturn \/ EraseProbe \/ NullOutKey \/ CompactProbe \/ Move
           \/ UNCHANGED cells
    PROVE  Contents' = Contents
  <1>1. CASE UNCHANGED cells
    BY <1>1 DEF cells, Contents, ValuesOf
  <1>2. CASE AssignReturn \/ EraseProbe
    BY <1>1, <1>2 DEF AssignReturn, EraseProbe, cells
  <1>3. CASE AssignProbe
    <2>1. Following(idx) \in Cells /\ value' = value /\ wpc = "assign"
      BY <1>3, FollowingWraps DEF AssignProbe, WriterType
    <2>2. key' = key \/ (key[Following(idx)] = NullKey /\ key' = [key EXCEPT ![Following(idx)] = op.key])
      BY <1>3 DEF AssignProbe
    <2>3. key[Following(idx)] = NullKey => value[Following(idx)] = NullValue
      BY <2>1 DEF WriterInv, ValueInv
    <2>4. \A k \in Keys : ValuesOf(k)' = ValuesOf(k)
      BY <2>1, <2>2, <2>3, MapAssumption DEF ValuesOf, WriterType
    <2>5. QED
      BY <2>4, SameContents
  <1>4. CASE NullOutKey
    <2>1. value' = value /\ key' = [key EXCEPT ![idx] = NullKey] /\ value[idx] = NullValue
      BY <1>4 DEF NullOutKey, WriterInv, WalkInv
    <2>2. \A k \in Keys : ValuesOf(k)' = ValuesOf(k)
      BY <2>1, MapAssumption DEF ValuesOf, WriterType
    <2>3. QED
      BY <2>2, SameContents
  <1>5. CASE CompactProbe
    <2>1. /\ key' = key /\ key[deleteIndex] = NullKey
          /\ value' = value \/ value' = [value EXCEPT ![deleteIndex] = value[Following(idx)]]
      BY <1>5 DEF CompactProbe, Done, WriterInv, CompactInv, Compacting
    <2>2. \A k \in Keys : ValuesOf(k)' = ValuesOf(k)
      BY <2>1, MapAssumption DEF ValuesOf, WriterType
    <2>3. QED
      BY <2>2, SameContents
  <1>6. CASE Move
    <2>1. /\ value' = value /\ key' = [key EXCEPT ![deleteIndex] = key[idx]]
          /\ key[deleteIndex] = NullKey /\ value[deleteIndex] = value[idx]
      BY <1>6 DEF Move, WriterInv, CompactInv, Compacting
    <2>2. \A k \in Keys : ValuesOf(k)' = ValuesOf(k)
      BY <2>1, MapAssumption DEF ValuesOf, WriterType
    <2>3. QED
      BY <2>2, SameContents
  <1>7. QED
    BY <1>1, <1>2, <1>3, <1>4, <1>5, <1>6

\* The two stores that change the map: the assigned value, and the one that
\* takes the erased key's value away.
LEMMA StoresTakeEffect ==
    ASSUME WriterType, WriterInv, AssignStore \/ NullOutValue
    PROVE  [Map!TakeEffect]_<<Contents, op>>
  <1>1. op' = op /\ key' = key /\ idx \in Cells
    <2>1. idx \in Cells
      BY DEF WriterType
    <2>2. op' = op /\ key' = key
      BY DEF AssignStore, NullOutValue
    <2>3. QED
      BY <2>1, <2>2
  <1>2. CASE AssignStore
    <2>1. /\ op.kind = "assign" /\ op.key \in Keys /\ op.value \in Values
          /\ key[idx] = op.key /\ value' = [value EXCEPT ![idx] = op.value]
          /\ \A c \in Cells : key[c] = op.key => c = idx
      BY <1>1, <1>2, OpFields, MapAssumption DEF AssignStore, WriterInv, OpInv, WalkInv, UniqueInv, Moving
    <2>2. \A k \in Keys : k = op.key => ValuesOf(k)' = {op.value}
      BY <1>1, <2>1, MapAssumption DEF ValuesOf, WriterType
    <2>3. \A k \in Keys \ {op.key} : ValuesOf(k)' = ValuesOf(k)
      BY <1>1, <2>1 DEF ValuesOf, WriterType
    <2>4. Contents' = [Contents EXCEPT ![op.key] = op.value]
      <3>1. ValueAmong({op.value}) = op.value
        BY DEF ValueAmong
      <3>2. \A k \in Keys : ValueAmong(ValuesOf(k)')
                              = IF k = op.key THEN op.value ELSE ValueAmong(ValuesOf(k))
        BY <2>2, <2>3, <3>1
      <3>3. QED
        BY <2>1, <3>2, ContentsAmong
    <2>5. op # Map!NoOp /\ Map!Target(op) = op.value
      BY <2>1 DEF Map!NoOp, Map!Target
    <2>6. QED
      BY <1>1, <2>4, <2>5 DEF Map!TakeEffect
  <1>3. CASE NullOutValue /\ idx = first
    <2>1. /\ op.kind = "erase" /\ op.key \in Keys
          /\ key[idx] = op.key /\ value' = [value EXCEPT ![idx] = NullValue]
          /\ \A c \in Cells : key[c] = op.key => c = idx
      BY <1>1, <1>3, OpFields, MapAssumption DEF NullOutValue, WriterInv, OpInv, WalkInv, UniqueInv, Moving
    <2>2. \A k \in Keys : k = op.key => ValuesOf(k)' = {}
      BY <1>1, <2>1 DEF ValuesOf, WriterType
    <2>3. \A k \in Keys \ {op.key} : ValuesOf(k)' = ValuesOf(k)
      BY <1>1, <2>1 DEF ValuesOf, WriterType
    <2>4. Contents' = [Contents EXCEPT ![op.key] = NullValue]
      <3>1. ValueAmong({}) = NullValue
        BY DEF ValueAmong
      <3>2. \A k \in Keys : ValueAmong(ValuesOf(k)')
                              = IF k = op.key THEN NullValue ELSE ValueAmong(ValuesOf(k))
        BY <2>2, <2>3, <3>1
      <3>3. QED
        BY <2>1, <3>2, ContentsAmong
    <2>5. op # Map!NoOp /\ Map!Target(op) = NullValue
      BY <2>1 DEF Map!NoOp, Map!Target
    <2>6. QED
      BY <1>1, <2>4, <2>5 DEF Map!TakeEffect
  <1>4. CASE NullOutValue /\ idx # first
    <2>1. /\ value' = [value EXCEPT ![idx] = NullValue]
          /\ key[idx] = key[deleteIndex] /\ idx # deleteIndex /\ value[idx] = value[deleteIndex]
          /\ deleteIndex \in Cells
      BY <1>4 DEF NullOutValue, WriterInv, WriterType, CompactInv, Moving
    <2>2. \A k \in Keys : ValuesOf(k)' = ValuesOf(k)
      BY <1>1, <2>1 DEF ValuesOf, WriterType
    <2>3. QED
      BY <1>1, <2>2, SameContents
  <1>5. QED
    BY <1>2, <1>3, <1>4

\* An operation returns when the map is as it asked for.
LEMMA ReturnsEffective ==
    ASSUME WriterType, WriterInv, AssignProbe \/ AssignReturn \/ EraseProbe \/ CompactProbe
    PROVE  UNCHANGED op \/ Map!Return
  <1>1. Contents' = Contents
    BY OthersKeepMap
  <1>2. op # Map!NoOp /\ op.key \in Keys
    BY OpFields DEF AssignProbe, AssignReturn, EraseProbe, CompactProbe, WriterInv, OpInv
  <1>3. CASE AssignProbe
    BY <1>3, AssignRoom DEF AssignProbe
  <1>4. CASE AssignReturn
    <2>1. op.kind = "assign" /\ key[idx] = op.key /\ value[idx] = op.value /\ op.value \in Values /\ idx \in Cells
      BY <1>4, OpFields DEF AssignReturn, WriterInv, OpInv, WalkInv, WriterType
    <2>2. Contents[op.key] = op.value
      BY <1>2, <2>1, ContentsOf, MapAssumption
    <2>3. QED
      BY <1>1, <1>2, <1>4, <2>1, <2>2 DEF AssignReturn, Done, Map!Return, Map!Target
  <1>5. CASE EraseProbe /\ op' # op
    <2>1. /\ op' = Map!NoOp /\ wpc = "erase" /\ op.kind = "erase"
          /\ Following(idx) = first \/ key[Following(idx)] = NullKey
      BY <1>5 DEF EraseProbe, Done, WriterInv, OpInv
    <2>2. /\ first = Predecessor(op.key) /\ idx \in Cells
          /\ \A d \in Cells : d # first /\ On(first, d, idx) => key[d] # op.key
      BY <2>1 DEF WriterInv, WalkInv, WriterType
    <2>3. \A c \in Cells : key[c] # op.key
      BY <1>2, <2>1, <2>2, NotInMap DEF WriterInv, Compacting
    <2>4. Contents[op.key] = NullValue
      BY <1>2, <2>3, ContentsOf
    <2>5. QED
      BY <1>1, <1>2, <2>1, <2>4 DEF Map!Return, Map!Target
  <1>6. CASE CompactProbe /\ op' # op
    <2>1. op' = Map!NoOp /\ op.kind = "erase" /\ \A c \in Cells : key[c] # op.key
      BY <1>6 DEF CompactProbe, Done, WriterInv, OpInv, WalkInv, Compacting
    <2>2. Contents[op.key] = NullValue
      BY <1>2, <2>1, ContentsOf
    <2>3. QED
      BY <1>1, <1>2, <2>1, <2>2 DEF Map!Return, Map!Target
  <1>7. QED
    BY <1>3, <1>4, <1>5, <1>6

\* The writer implements a map whose operations take effect at one moment and
\* on their own key: every step is a call, the effect or the return of an
\* operation, or is not seen (concurrent_map.h:163, 244, 283).
THEOREM WriterImplementsMap == Spec => ImplementsMap
  <1>1. Init => Map!Init
    BY DEF Init, Map!Init, Contents, ValuesOf
  <1>2. ASSUME WriterType, WriterInv, [Next]_vars
        PROVE  [Map!Next]_<<Contents, op>>
    <2>1. CASE \/ \E k \in Keys, v \in Values : assign(k, v)
               \/ \E k \in Keys : erase(k)
      <3>1. Contents' = Contents
        <4>1. UNCHANGED cells
          BY <2>1 DEF assign, erase, cells
        <4>2. QED
          BY <1>2, <4>1, OthersKeepMap
      <3>2. op = Map!NoOp
        BY <1>2, <2>1 DEF assign, erase, WriterInv, OpInv
      <3>3. Map!Call
        BY <2>1, <3>1, <3>2 DEF assign, erase, Map!Call
      <3>4. QED
        BY <3>3 DEF Map!Next
    <2>2. CASE clear
      <3>1. op = Map!NoOp /\ op' = op
        BY <1>2, <2>2 DEF clear, WriterInv, OpInv
      <3>2. Contents' = [k \in Keys |-> NullValue]
        BY <2>2 DEF clear, Contents, ValuesOf
      <3>3. QED
        BY <3>1, <3>2 DEF Map!Clear, Map!Next
    <2>3. CASE AssignStore \/ NullOutValue
      BY <1>2, <2>3, StoresTakeEffect DEF Map!Next
    <2>4. CASE AssignProbe \/ AssignReturn \/ EraseProbe \/ CompactProbe
      BY <1>2, <2>4, ReturnsEffective, OthersKeepMap DEF Map!Next
    <2>5. CASE NullOutKey \/ Move
      <3>1. Contents' = Contents
        BY <1>2, <2>5, OthersKeepMap
      <3>2. op' = op
        BY <2>5 DEF NullOutKey, Move
      <3>3. QED
        BY <3>1, <3>2
    <2>6. CASE \/ UNCHANGED vars
               \/ \E r \in Readers, k \in Keys : get(r, k)
               \/ \E r \in Readers : Reader(r)
      <3>1. UNCHANGED cells /\ op' = op
        BY <2>6 DEF vars, cells, get, Reader, GetProbe, GetLoad, GetReProbe, GetReturn, Reads
      <3>2. QED
        BY <1>2, <3>1, OthersKeepMap
    <2>7. QED
      BY <1>2, <2>1, <2>2, <2>3, <2>4, <2>5, <2>6 DEF Next, Writer
  <1>3. QED
    BY <1>1, <1>2, WriterCorrect, PTL DEF Spec, ImplementsMap, Map!Spec

-----------------------------------------------------------------------------
(* The readers *)

\* The part of TypeOK about the readers.
ReaderType == reader \in [Readers -> Get \cup {AtRest}]

\* The steps the readers take note of.
WriterStep ==
    \/ \E k \in Keys, v \in Values : assign(k, v)
    \/ \E k \in Keys : erase(k)
    \/ Writer

\* Which of them counts as the start of an erase.
Starts == wpc = "idle" /\ wpc' = "erase"

LEMMA StepIsWitnessed ==
    ASSUME WriterStep
    PROVE  Witness(Starts)
  <1>1. ASSUME NEW starts \in BOOLEAN, Witness(starts), starts <=> Starts
        PROVE  Witness(Starts)
    BY <1>1 DEF Witness
  <1>2. QED
    BY <1>1 DEF WriterStep, Writer, assign, erase, AssignProbe, AssignStore, AssignReturn, EraseProbe,
                NullOutValue, NullOutKey, CompactProbe, Move, Done, Starts

\* What a reader in the middle of a get looks like after such a step.
Noted(g) == [g EXCEPT !.seen = @ \cup {Contents'[g.key]},
                      !.erases = IF Starts /\ @ < MaxErases THEN @ + 1 ELSE @]

LEMMA StepIsNoted ==
    ASSUME ReaderType, WriterStep, NEW r \in Readers
    PROVE  reader'[r] = IF reader[r].pc = "rest" THEN AtRest ELSE Noted(reader[r])
  BY StepIsWitnessed DEF Witness, Noted, ReaderType

\* Contents has the type of a map, in the next state too.
LEMMA ContentsTyped == WriterType /\ WriterInv => Contents \in [Keys -> Values \cup {NullValue}]
  BY ContentsOf

LEMMA NotedType ==
    ASSUME WriterType', WriterInv', NEW g \in Get
    PROVE  /\ Noted(g) \in Get
           /\ Noted(g).pc = g.pc /\ Noted(g).key = g.key /\ Noted(g).idx = g.idx
           /\ Noted(g).loaded = g.loaded /\ Noted(g).seen = g.seen \cup {Contents'[g.key]}
           /\ Noted(g).erases = IF Starts /\ g.erases < MaxErases THEN g.erases + 1 ELSE g.erases
  <1> DEFINE seen == g.seen \cup {Contents'[g.key]}
             erases == IF Starts /\ g.erases < MaxErases THEN g.erases + 1 ELSE g.erases
  <1>1. Contents' \in [Keys -> Values \cup {NullValue}]
    <2>1. (WriterType /\ WriterInv => Contents \in [Keys -> Values \cup {NullValue}])'
      BY ContentsTyped, PTL
    <2>2. QED
      BY <2>1
  <1>2. Contents'[g.key] \in Values \cup {NullValue}
    BY <1>1 DEF Get
  <1>3. seen \in SUBSET (Values \cup {NullValue})
    BY <1>2 DEF Get
  <1>4. erases \in 0 .. MaxErases
    BY DEF Get, MaxErases
  <1>5. Noted(g) = [g EXCEPT !.seen = seen, !.erases = erases]
    BY DEF Noted
  <1> HIDE DEF seen, erases
  <1>6. /\ Noted(g) \in Get
        /\ Noted(g).pc = g.pc /\ Noted(g).key = g.key /\ Noted(g).idx = g.idx
        /\ Noted(g).loaded = g.loaded /\ Noted(g).seen = seen /\ Noted(g).erases = erases
    BY <1>3, <1>4, <1>5 DEF Get
  <1>7. QED
    BY <1>6 DEF seen, erases

LEMMA ReaderTypeKept ==
    ASSUME WriterType, WriterInv, WriterType', WriterInv', ReaderType, [Next]_vars
    PROVE  ReaderType'
  <1>1. CASE WriterStep
    <2>1. reader' \in [Readers -> Get \cup {AtRest}]
      <3>1. DOMAIN reader' = Readers /\ reader' = [r \in Readers |-> reader'[r]]
        BY <1>1, StepIsWitnessed DEF Witness
      <3>2. ASSUME NEW r \in Readers
            PROVE  reader'[r] \in Get \cup {AtRest}
        <4>1. CASE reader[r].pc = "rest"
          BY <1>1, <4>1, StepIsNoted
        <4>2. CASE reader[r].pc # "rest"
          <5>1. reader[r] \in Get
            BY <4>2 DEF ReaderType, AtRest
          <5>2. QED
            BY <1>1, <4>2, <5>1, StepIsNoted, NotedType
        <4>3. QED
          BY <4>1, <4>2
      <3>3. QED
        BY <3>1, <3>2
    <2>2. QED
      BY <2>1 DEF ReaderType
  <1>2. ASSUME NEW r \in Readers, NEW k \in Keys, get(r, k)
        PROVE  ReaderType'
    <2>1. Contents[k] \in Values \cup {NullValue} /\ Predecessor(k) \in Cells
      BY ContentsTyped, HomeFollows
    <2>2. Called(k) \in Get
      BY <2>1 DEF Called, Get, MaxErases
    <2>3. QED
      BY <1>2, <2>2 DEF get, Reads, ReaderType
  <1>3. ASSUME NEW r \in Readers, Reader(r)
        PROVE  ReaderType'
    <2>1. CASE GetReturn(r)
      BY <2>1 DEF GetReturn, Reads, ReaderType
    <2>2. CASE GetProbe(r) \/ GetLoad(r) \/ GetReProbe(r)
      <3>1. reader[r] \in Get
        BY <2>2 DEF GetProbe, GetLoad, GetReProbe, ReaderType, AtRest
      <3>2. Following(reader[r].idx) \in Cells
        BY <3>1, FollowingWraps DEF Get
      <3>3. value[reader[r].idx] \in Values \cup {NullValue}
        BY <3>1 DEF Get, WriterType
      <3>4. reader'[r] \in Get /\ reader' = [reader EXCEPT ![r] = reader'[r]]
        <4>1. CASE GetProbe(r)
          BY <3>1, <3>2, <4>1 DEF GetProbe, Reads, Answer, Get, ReaderType
        <4>2. CASE GetLoad(r)
          BY <3>1, <3>3, <4>2 DEF GetLoad, Reads, Get, ReaderType
        <4>3. CASE GetReProbe(r)
          BY <3>1, <4>3 DEF GetReProbe, Reads, Answer, Get, ReaderType
        <4>4. QED
          BY <2>2, <4>1, <4>2, <4>3
      <3>5. QED
        BY <3>4 DEF ReaderType
    <2>3. QED
      BY <1>3, <2>1, <2>2 DEF Reader
  <1>4. CASE clear \/ UNCHANGED vars
    BY <1>4 DEF clear, vars, ReaderType
  <1>5. QED
    BY <1>1, <1>2, <1>3, <1>4 DEF Next, WriterStep

\* An erase is in progress after a step if it was before, or has just begun;
\* beginning changes no cell.
LEMMA StepStarts ==
    ASSUME WriterType, WriterInv, WriterStep
    PROVE  /\ op'.kind = "erase" => op.kind = "erase" \/ Starts
           /\ Starts => op.kind # "erase" /\ key' = key
  <1>1. wpc = "idle" => op.kind = "none"
    BY DEF WriterInv, OpInv, Map!NoOp
  <1>2. CASE Writer
    <2>1. wpc # "idle" /\ op' \in {op, Map!NoOp}
      BY <1>2 DEF Writer, AssignProbe, AssignStore, AssignReturn, EraseProbe, NullOutValue, NullOutKey,
                  CompactProbe, Move, Done
    <2>2. QED
      BY <2>1 DEF Map!NoOp, Starts
  <1>3. CASE \/ \E k \in Keys, v \in Values : assign(k, v)
             \/ \E k \in Keys : erase(k)
    <2>1. wpc = "idle" /\ key' = key
      BY <1>3 DEF assign, erase, cells
    <2>2. wpc' = "erase" \/ \E k \in Keys, v \in Values : op' = Map!Assign(k, v)
      BY <1>3 DEF assign, erase
    <2>3. QED
      BY <1>1, <2>1, <2>2 DEF Map!Assign, Starts
  <1>4. QED
    BY <1>2, <1>3 DEF WriterStep

\* A key leaves a cell by nullOutCell only.
LEMMA StepKeys ==
    ASSUME WriterType, WriterInv, WriterStep, NEW c \in Cells, key'[c] # key[c]
    PROVE  key[c] = NullKey \/ (NullOutKey /\ c = idx)
  <1>0. key \in [Cells -> Keys \cup {NullKey}]
    BY DEF WriterType
  <1>1. CASE AssignProbe
    BY <1>1 DEF AssignProbe, WriterType
  <1>2. CASE NullOutKey
    <2>1. key' = [key EXCEPT ![idx] = NullKey]
      BY <1>2 DEF NullOutKey
    <2>2. QED
      BY <1>2, <2>1, <1>0
  <1>3. CASE Move
    <2>1. key' = [key EXCEPT ![deleteIndex] = key[idx]] /\ key[deleteIndex] = NullKey
      BY <1>3 DEF Move, WriterInv, CompactInv, Compacting
    <2>2. QED
      BY <2>1, <1>0
  <1>4. CASE key' = key
    BY <1>4
  <1>5. QED
    BY <1>1, <1>2, <1>3, <1>4 DEF WriterStep, Writer, assign, erase, cells, AssignStore, AssignReturn,
                                  EraseProbe, NullOutValue, CompactProbe

\* During an erase a key comes to a cell by compactChain only.
LEMMA StepArrivals ==
    ASSUME WriterType, WriterInv, WriterStep, op.kind = "erase",
           NEW c \in Cells, NEW k \in Keys, key'[c] = k, key[c] # k
    PROVE  Move /\ c = deleteIndex /\ key[idx] = k
  <1>0. key \in [Cells -> Keys \cup {NullKey}]
    BY DEF WriterType
  <1>1. ~AssignProbe
    BY DEF AssignProbe, WriterInv, OpInv
  <1>2. CASE NullOutKey
    <2>1. key' = [key EXCEPT ![idx] = NullKey]
      BY <1>2 DEF NullOutKey
    <2>2. QED
      BY <1>0, <2>1, MapAssumption
  <1>3. CASE Move
    <2>1. key' = [key EXCEPT ![deleteIndex] = key[idx]]
      BY <1>3 DEF Move
    <2>2. QED
      BY <1>0, <1>3, <2>1
  <1>4. CASE key' = key
    BY <1>4
  <1>5. QED
    BY <1>1, <1>2, <1>3, <1>4 DEF WriterStep, Writer, assign, erase, cells, AssignStore, AssignReturn,
                                  EraseProbe, NullOutValue, CompactProbe

\* What compactChain has passed stays passed until it returns.
LEMMA PassedStays ==
    ASSUME WriterType, WriterInv, WriterStep, op.kind = "erase", op'.kind = "erase",
           NEW c \in Cells, Passed(c)
    PROVE  Passed(c)'
  <1>1. wpc \in {"nullValue", "nullKey", "compact", "move"}
    BY DEF Passed, Compacting, Moving
  <1>2. CASE NullOutValue
    BY <1>2 DEF NullOutValue, locals, Passed, Compacting, Moving
  <1>3. CASE NullOutKey
    BY <1>3 DEF NullOutKey, Passed, Compacting, Moving
  <1>4. CASE Move
    BY <1>4 DEF Move, locals, Passed, Compacting, Moving, WriterInv, CompactInv
  <1>5. CASE CompactProbe
    <2>1. /\ wpc = "compact" /\ wpc' \in {"compact", "move"} /\ idx' = Following(idx)
          /\ first' = first /\ Following(idx) # first
      BY <1>5 DEF CompactProbe, Done, Map!NoOp
    <2>2. On(first, c, Following(idx)) /\ c # Following(idx)
      BY <2>1, OnStep DEF Passed, WriterType
    <2>3. QED
      BY <2>1, <2>2 DEF Passed, Compacting
  <1>6. QED
    BY <1>1, <1>2, <1>3, <1>4, <1>5 DEF WriterStep, Writer, assign, erase, AssignProbe, AssignStore,
                                        AssignReturn, EraseProbe

\* A step of the writer keeps what is known of a get in progress.
LEMMA NotedKeeps ==
    ASSUME WriterType, WriterInv, WriterType', WriterInv', WriterStep,
           NEW g \in Get, NEW h \in Get, h = Noted(g), GetInv(g)
    PROVE  GetInv(h)'
  <1>1. /\ h.pc = g.pc /\ h.key = g.key /\ h.idx = g.idx /\ h.loaded = g.loaded
        /\ h.seen = g.seen \cup {Contents'[g.key]}
        /\ h.erases = IF Starts /\ g.erases < MaxErases THEN g.erases + 1 ELSE g.erases
    BY NotedType
  <1>2. /\ g.key \in Keys /\ g.idx \in Cells /\ g.erases \in 0 .. 2 /\ MaxErases = 2
        /\ g.pc \in {"probe", "load", "reprobe", "answer"}
    BY DEF Get, MaxErases
  <1>3. /\ Contents[g.key] \in g.seen
        /\ op.kind = "erase" => g.erases > 0
        /\ g.erases = 0 => CurrentGet(g)
        /\ g.erases <= 1 => OwnGet(g)
    BY <1>2 DEF GetInv
  <1>4. op'.kind = "erase" => h.erases > 0
    BY <1>1, <1>2, <1>3, StepStarts
  <1>5. ASSUME h.erases = 0
        PROVE  CurrentGet(h)'
    <2>1. g.erases = 0 /\ CurrentGet(g) /\ op.kind # "erase"
      BY <1>1, <1>2, <1>3, <1>5
    <2>2. \A c \in Cells : key[c] # NullKey => key'[c] = key[c]
      BY <2>1, StepKeys DEF NullOutKey, WriterInv, OpInv
    <2>3. g.key # NullKey
      BY <1>2, MapAssumption
    <2>4. QED
      BY <1>1, <1>2, <2>1, <2>2, <2>3 DEF CurrentGet
  <1>6. ASSUME h.erases <= 1
        PROVE  OwnGet(h)'
    <2>1. ASSUME g.pc = "load"
          PROVE  \/ key'[g.idx] = g.key
                 \/ /\ h.erases = 1
                    /\ op'.kind = "erase" => /\ Passed(g.idx)'
                                             /\ \A d \in Cells : key'[d] = g.key => Passed(d)'
      <3>1. CASE Starts
        BY <1>1, <1>2, <1>3, <1>6, <2>1, <3>1, StepStarts DEF CurrentGet
      <3>2. CASE ~Starts /\ key[g.idx] = g.key /\ key'[g.idx] # g.key
        <4>1. NullOutKey /\ g.idx = idx
          BY <1>2, <3>2, StepKeys, MapAssumption
        <4>2. op.kind = "erase" /\ g.erases = 1 /\ h.erases = 1
          BY <1>1, <1>2, <1>3, <1>6, <3>2, <4>1 DEF NullOutKey, WriterInv, OpInv
        <4>3. wpc' = "compact" /\ idx' = idx /\ first' = first /\ wpc = "nullKey"
          BY <4>1 DEF NullOutKey
        <4>4. Passed(idx)'
          BY <4>3, OnEnds DEF Passed, Compacting, WriterType
        <4>5. ASSUME NEW d \in Cells, key'[d] = g.key
              PROVE  Passed(d)'
          <5>1. d # idx /\ key[d] = g.key
            BY <1>2, <3>2, <4>1, <4>5 DEF NullOutKey, WriterType
          <5>2. Moving /\ d = deleteIndex
            BY <1>2, <3>2, <4>1, <5>1, MapAssumption DEF WriterInv, UniqueInv
          <5>3. On(first, d, idx)
            BY <5>2 DEF WriterInv, CompactInv
          <5>4. QED
            BY <4>3, <5>3 DEF Passed, Compacting
        <4>6. QED
          BY <4>1, <4>2, <4>3, <4>4, <4>5
      <3>3. CASE ~Starts /\ key[g.idx] # g.key
        <4>1. /\ g.erases = 1 /\ h.erases = 1
              /\ op.kind = "erase" => /\ Passed(g.idx)
                                      /\ \A d \in Cells : key[d] = g.key => Passed(d)
          BY <1>1, <1>2, <1>3, <1>6, <2>1, <3>3 DEF OwnGet
        <4>2. CASE op'.kind # "erase"
          BY <4>1, <4>2
        <4>3. CASE op'.kind = "erase"
          <5>1. op.kind = "erase"
            BY <3>3, <4>3, StepStarts
          <5>2. ASSUME NEW d \in Cells, key'[d] = g.key
                PROVE  Passed(d)'
            <6>1. key[d] = g.key
              <7>1. ~(Move /\ key[idx] = g.key)
                <8>1. idx \in Cells
                  BY DEF WriterType
                <8>2. wpc = "move" => ~Passed(idx)
                  BY DEF Passed
                <8>3. QED
                  BY <4>1, <5>1, <8>1, <8>2 DEF Move
              <7>2. QED
                BY <1>2, <5>1, <5>2, <7>1, StepArrivals
            <6>2. QED
              BY <4>1, <4>3, <5>1, <6>1, PassedStays
          <5>3. Passed(g.idx)'
            BY <1>2, <4>1, <4>3, <5>1, PassedStays
          <5>4. QED
            BY <4>1, <5>2, <5>3
        <4>4. QED
          BY <4>2, <4>3
      <3>4. QED
        BY <3>1, <3>2, <3>3
    <2>2. ASSUME g.pc = "reprobe"
          PROVE  \/ g.loaded \in h.seen \cup {NullValue}
                 \/ /\ h.erases = 1
                    /\ \/ key'[g.idx] \notin {NullKey, g.key} /\ (op'.kind = "erase" => Passed(g.idx)')
                       \/ wpc' = "move" /\ deleteIndex' = g.idx /\ key'[idx'] # g.key
      <3>1. CASE g.loaded \in g.seen \cup {NullValue}
        BY <1>1, <3>1
      <3>2. CASE g.loaded \notin g.seen \cup {NullValue}
        <4>1. g.erases = 1 /\ Foreign(g) /\ h.erases = 1 /\ ~Starts
          BY <1>1, <1>2, <1>3, <1>6, <2>2, <3>2 DEF OwnGet, CurrentGet
        <4>2. CASE key[g.idx] \notin {NullKey, g.key} /\ (op.kind = "erase" => Passed(g.idx))
          <5>1. ~(NullOutKey /\ g.idx = idx)
            BY <4>2 DEF NullOutKey, WriterInv, OpInv, Passed
          <5>2. key'[g.idx] = key[g.idx]
            BY <1>2, <4>2, <5>1, StepKeys
          <5>3. op'.kind = "erase" => Passed(g.idx)'
            BY <1>2, <4>1, <4>2, StepStarts, PassedStays
          <5>4. QED
            BY <4>1, <4>2, <5>2, <5>3
        <4>3. CASE wpc = "move" /\ deleteIndex = g.idx /\ key[idx] # g.key
          <5>1. Move
            BY <4>3 DEF WriterStep, Writer, assign, erase, AssignProbe, AssignStore, AssignReturn,
                        EraseProbe, NullOutValue, NullOutKey, CompactProbe
          <5>2. key'[g.idx] = key[idx] /\ key[idx] # NullKey /\ idx # deleteIndex
            BY <1>2, <4>3, <5>1 DEF Move, WriterType, WriterInv, CompactInv, Compacting
          <5>3. Passed(g.idx)'
            BY <4>3, <5>1, <5>2 DEF Move, locals, Passed, Moving, Compacting, WriterInv, CompactInv
          <5>4. QED
            BY <4>1, <4>3, <5>2, <5>3
        <4>4. QED
          BY <4>1, <4>2, <4>3 DEF Foreign
      <3>3. QED
        BY <3>1, <3>2
    <2>3. g.pc = "answer" => g.loaded \in h.seen \cup {NullValue}
      BY <1>1, <1>2, <1>3, <1>6 DEF OwnGet
    <2>4. QED
      BY <1>1, <2>1, <2>2, <2>3 DEF OwnGet, Foreign
  <1>7. Contents'[h.key] \in h.seen
    BY <1>1
  <1>8. QED
    BY <1>4, <1>5, <1>6, <1>7 DEF GetInv

\* What is known of a get does not depend on other readers.
LEMMA GetStutter ==
    ASSUME UNCHANGED <<cells, size, op, wpc, locals>>, NEW h
    PROVE  GetInv(h) => GetInv(h)'
  <1>1. Contents' = Contents
    BY DEF cells, Contents, ValuesOf
  <1>2. QED
    BY <1>1 DEF cells, locals, GetInv, CurrentGet, OwnGet, Foreign, Passed, Compacting, Moving

\* A get begins: it has met nothing yet.
LEMMA CalledGet ==
    ASSUME WriterType, WriterInv, NEW k \in Keys
    PROVE  GetInv(Called(k))
  <1>1. /\ Called(k).pc = "probe" /\ Called(k).key = k /\ Called(k).idx = Predecessor(k)
        /\ Contents[k] \in Called(k).seen
        /\ op.kind = "erase" => Called(k).erases = 1
    BY DEF Called
  <1>2. \A d \in Cells : ~(d # Predecessor(k) /\ On(Predecessor(k), d, Predecessor(k)))
    BY HomeFollows, OnEnds
  <1>3. QED
    BY <1>1, <1>2 DEF GetInv, CurrentGet, OwnGet

\* A turn of get's loop: the key is met, or another one, or there is none.
LEMMA ProbedGet ==
    ASSUME WriterType, WriterInv, NEW g \in Get, g.pc = "probe", GetInv(g)
    PROVE  LET i == Following(g.idx)
           IN  GetInv(IF i = Predecessor(g.key) \/ key[i] = NullKey THEN Answer(g, NullValue)
                      ELSE [g EXCEPT !.idx = i, !.pc = IF key[i] = g.key THEN "load" ELSE "probe"])
  <1> DEFINE i == Following(g.idx)
  <1>1. /\ g.key \in Keys /\ g.idx \in Cells /\ i \in Cells /\ Predecessor(g.key) \in Cells
        /\ g.erases \in 0 .. 2
    BY HomeFollows, FollowingWraps DEF Get, MaxErases
  <1>2. /\ Contents[g.key] \in g.seen
        /\ op.kind = "erase" => g.erases > 0
        /\ g.erases = 0 => \A d \in Cells : d # Predecessor(g.key) /\ On(Predecessor(g.key), d, g.idx)
                                                => key[d] \notin {NullKey, g.key}
    BY DEF GetInv, CurrentGet
  <1>3. CASE i = Predecessor(g.key) \/ key[i] = NullKey
    <2>1. g.erases = 0 => NullValue \in g.seen
      <3> SUFFICES ASSUME g.erases = 0
                   PROVE  NullValue \in g.seen
        OBVIOUS
      <3>1. ~Compacting
        BY <1>2 DEF Compacting, WriterInv, OpInv
      <3>2. \A c \in Cells : key[c] # g.key
        BY <1>1, <1>2, <1>3, <3>1, NotInMap DEF WriterInv
      <3>3. Contents[g.key] = NullValue
        BY <1>1, <3>2, ContentsOf
      <3>4. QED
        BY <1>2, <3>3
    <2>2. /\ Answer(g, NullValue).pc = "answer" /\ Answer(g, NullValue).loaded = NullValue
          /\ Answer(g, NullValue).key = g.key /\ Answer(g, NullValue).seen = g.seen
          /\ Answer(g, NullValue).erases = g.erases
      BY DEF Answer, Get
    <2>3. GetInv(Answer(g, NullValue))
      BY <1>2, <2>1, <2>2 DEF GetInv, CurrentGet, OwnGet
    <2>4. QED
      BY <1>3, <2>3
  <1>4. CASE ~(i = Predecessor(g.key) \/ key[i] = NullKey)
    <2> DEFINE h == [g EXCEPT !.idx = i, !.pc = IF key[i] = g.key THEN "load" ELSE "probe"]
    <2>1. /\ h.idx = i /\ h.pc = (IF key[i] = g.key THEN "load" ELSE "probe")
          /\ h.key = g.key /\ h.seen = g.seen /\ h.erases = g.erases
      BY DEF Get
    <2>2. \A d \in Cells : On(Predecessor(g.key), d, i) <=> On(Predecessor(g.key), d, g.idx) \/ d = i
      BY <1>1, <1>4, OnStep
    <2> HIDE DEF h, i
    <2>3. GetInv(h)
      <3>1. CASE key[i] = g.key
        BY <1>2, <2>1, <3>1 DEF GetInv, CurrentGet, OwnGet
      <3>2. CASE key[i] # g.key
        BY <1>2, <1>4, <2>1, <2>2, <3>2 DEF GetInv, CurrentGet, OwnGet
      <3>3. QED
        BY <3>1, <3>2
    <2>4. QED
      BY <1>4, <2>3 DEF h, i
  <1>5. QED
    BY <1>3, <1>4

\* The value is loaded: the key's own, or none, or one of a key that has
\* taken the cell over.
LEMMA LoadedGet ==
    ASSUME WriterType, WriterInv, NEW g \in Get, g.pc = "load", GetInv(g)
    PROVE  GetInv([g EXCEPT !.pc = "reprobe", !.loaded = value[g.idx]])
  <1> DEFINE h == [g EXCEPT !.pc = "reprobe", !.loaded = value[g.idx]]
  <1>1. g.key \in Keys /\ g.idx \in Cells /\ g.erases \in 0 .. 2
    BY DEF Get, MaxErases
  <1>2. /\ Contents[g.key] \in g.seen
        /\ op.kind = "erase" => g.erases > 0
        /\ g.erases = 0 => CurrentGet(g)
        /\ g.erases <= 1 => OwnGet(g)
    BY DEF GetInv
  <1>3. /\ h.pc = "reprobe" /\ h.loaded = value[g.idx] /\ h.idx = g.idx
        /\ h.key = g.key /\ h.seen = g.seen /\ h.erases = g.erases
    BY DEF Get
  <1> HIDE DEF h
  <1>4. key[g.idx] = g.key => value[g.idx] \in {Contents[g.key], NullValue}
    BY <1>1, ContentsOf
  <1>5. ASSUME g.erases = 0
        PROVE  CurrentGet(h)
    <2>1. key[g.idx] = g.key /\ ~Moving
      BY <1>2, <1>5 DEF CurrentGet, Moving, WriterInv, OpInv
    <2>2. \A c \in Cells : key[c] = g.key => c = g.idx
      BY <1>1, <2>1, MapAssumption DEF WriterInv, UniqueInv
    <2>3. value[g.idx] = NullValue => Contents[g.key] = NullValue
      BY <1>1, <2>2, ContentsOf
    <2>4. value[g.idx] \in g.seen
      BY <1>2, <1>4, <2>1, <2>3
    <2>5. QED
      BY <1>3, <2>1, <2>4 DEF CurrentGet
  <1>6. ASSUME g.erases <= 1
        PROVE  OwnGet(h)
    <2> SUFFICES ASSUME value[g.idx] \notin g.seen \cup {NullValue}
                 PROVE  g.erases = 1 /\ Foreign(h)
      BY <1>3 DEF OwnGet
    <2>1. key[g.idx] # g.key
      BY <1>2, <1>4
    <2>2. /\ g.erases = 1
          /\ op.kind = "erase" => /\ Passed(g.idx)
                                  /\ \A d \in Cells : key[d] = g.key => Passed(d)
      BY <1>2, <1>6, <2>1 DEF OwnGet
    <2>3. CASE key[g.idx] # NullKey
      BY <1>3, <2>1, <2>2, <2>3 DEF Foreign
    <2>4. CASE key[g.idx] = NullKey
      <3>1. wpc = "move" /\ deleteIndex = g.idx
        BY <1>1, <2>4 DEF WriterInv, ValueInv
      <3>2. op.kind = "erase" /\ idx \in Cells /\ ~Passed(idx)
        BY <3>1 DEF WriterInv, OpInv, Passed, WriterType
      <3>3. key[idx] # g.key
        BY <2>2, <3>2
      <3>4. QED
        BY <1>3, <2>2, <3>1, <3>3 DEF Foreign
    <2>5. QED
      BY <2>3, <2>4
  <1>7. GetInv(h)
    BY <1>2, <1>3, <1>5, <1>6 DEF GetInv
  <1>8. QED
    BY <1>7 DEF h

\* The second look at the key.
LEMMA ReProbedGet ==
    ASSUME WriterType, WriterInv, NEW g \in Get, g.pc = "reprobe", GetInv(g)
    PROVE  GetInv(IF key[g.idx] = g.key THEN Answer(g, g.loaded) ELSE [g EXCEPT !.pc = "probe"])
  <1>1. g.key \in Keys /\ g.idx \in Cells /\ g.erases \in 0 .. 2
    BY DEF Get, MaxErases
  <1>2. /\ Contents[g.key] \in g.seen
        /\ op.kind = "erase" => g.erases > 0
        /\ g.erases = 0 => CurrentGet(g)
        /\ g.erases <= 1 => OwnGet(g)
    BY DEF GetInv
  <1>3. CASE key[g.idx] = g.key
    <2> DEFINE h == Answer(g, g.loaded)
    <2>1. /\ h.pc = "answer" /\ h.loaded = g.loaded /\ h.key = g.key /\ h.seen = g.seen
          /\ h.erases = g.erases
      BY DEF Answer, Get
    <2> HIDE DEF h
    <2>2. ~Foreign(g)
      BY <1>1, <1>3, MapAssumption DEF Foreign, WriterInv, CompactInv, Compacting
    <2>3. GetInv(h)
      BY <1>2, <2>1, <2>2 DEF GetInv, CurrentGet, OwnGet
    <2>4. QED
      BY <1>3, <2>3 DEF h
  <1>4. CASE key[g.idx] # g.key
    <2> DEFINE h == [g EXCEPT !.pc = "probe"]
    <2>1. h.pc = "probe" /\ h.key = g.key /\ h.seen = g.seen /\ h.erases = g.erases
      BY DEF Get
    <2> HIDE DEF h
    <2>2. g.erases # 0
      BY <1>2, <1>4 DEF CurrentGet
    <2>3. GetInv(h)
      BY <1>2, <2>1, <2>2 DEF GetInv, OwnGet
    <2>4. QED
      BY <1>4, <2>3 DEF h
  <1>5. QED
    BY <1>3, <1>4

\* Every step keeps what is known of every get.
LEMMA ReadersKeep ==
    ASSUME WriterType, WriterInv, WriterType', WriterInv', ReaderType, ReaderInv, [Next]_vars
    PROVE  ReaderInv'
  <1>1. CASE WriterStep
    <2> SUFFICES ASSUME NEW r \in Readers
                 PROVE  GetInv(reader[r])'
      BY DEF ReaderInv
    <2>1. PICK g : g = reader[r]
      OBVIOUS
    <2>2. PICK h : h = reader'[r]
      OBVIOUS
    <2>3. GetInv(h)'
      <3>1. CASE g.pc = "rest"
        <4>1. h.pc = "rest"
          BY <1>1, <2>1, <2>2, <3>1, StepIsNoted DEF AtRest
        <4>2. QED
          BY <4>1 DEF GetInv
      <3>2. CASE g.pc # "rest"
        <4>1. g \in Get /\ h = Noted(g)
          BY <1>1, <2>1, <2>2, <3>2, StepIsNoted DEF ReaderType, AtRest
        <4>2. GetInv(g) /\ h \in Get
          BY <2>1, <4>1, NotedType DEF ReaderInv
        <4>3. QED
          BY <1>1, <4>1, <4>2, NotedKeeps
      <3>3. QED
        BY <3>1, <3>2
    <2>4. QED
      BY <2>2, <2>3 DEF GetInv, CurrentGet, OwnGet, Foreign
  <1>2. ASSUME NEW r \in Readers, NEW f, GetInv(f), reader' = [reader EXCEPT ![r] = f],
               UNCHANGED <<cells, size, op, wpc, locals>>
        PROVE  ReaderInv'
    <2> SUFFICES ASSUME NEW q \in Readers
                 PROVE  GetInv(reader[q])'
      BY DEF ReaderInv
    <2>1. PICK h : h = reader'[q]
      OBVIOUS
    <2>2. GetInv(h)
      BY <1>2, <2>1 DEF ReaderType, ReaderInv
    <2>3. GetInv(h)'
      BY <1>2, <2>2, GetStutter
    <2>4. QED
      BY <2>1, <2>3 DEF GetInv, CurrentGet, OwnGet, Foreign
  <1>3. ASSUME NEW r \in Readers, NEW k \in Keys, get(r, k)
        PROVE  ReaderInv'
    <2>1. PICK f : f = Called(k)
      OBVIOUS
    <2>2. GetInv(f)
      BY <2>1, CalledGet
    <2>3. QED
      BY <1>2, <1>3, <2>1, <2>2 DEF get, Reads
  <1>4. ASSUME NEW r \in Readers, Reader(r)
        PROVE  ReaderInv'
    <2>1. PICK g : g = reader[r]
      OBVIOUS
    <2>2. GetInv(g)
      BY <2>1 DEF ReaderInv
    <2>3. g \in Get
      BY <1>4, <2>1 DEF Reader, GetProbe, GetLoad, GetReProbe, GetReturn, ReaderType, AtRest
    <2>4. PICK f : GetInv(f) /\ Reads(r, f)
      <3>1. CASE GetProbe(r)
        BY <2>1, <2>2, <2>3, <3>1, ProbedGet DEF GetProbe
      <3>2. CASE GetLoad(r)
        BY <2>1, <2>2, <2>3, <3>2, LoadedGet DEF GetLoad
      <3>3. CASE GetReProbe(r)
        BY <2>1, <2>2, <2>3, <3>3, ReProbedGet DEF GetReProbe
      <3>4. CASE GetReturn(r)
        <4>1. GetInv(AtRest)
          BY DEF GetInv, AtRest
        <4>2. QED
          BY <3>4, <4>1 DEF GetReturn
      <3>5. QED
        BY <1>4, <3>1, <3>2, <3>3, <3>4 DEF Reader
    <2>5. QED
      BY <1>2, <2>4 DEF Reads
  <1>5. CASE clear
    <2>1. \A r \in Readers : reader'[r].pc = "rest"
      BY <1>5 DEF clear
    <2>2. QED
      BY <2>1 DEF ReaderInv, GetInv
  <1>6. CASE UNCHANGED vars
    <2> SUFFICES ASSUME NEW q \in Readers
                 PROVE  GetInv(reader[q])'
      BY DEF ReaderInv
    <2>1. PICK h : h = reader[q] /\ h = reader'[q]
      BY <1>6 DEF vars
    <2>2. GetInv(h)'
      <3>1. GetInv(h)
        BY <2>1 DEF ReaderInv
      <3>2. UNCHANGED <<cells, size, op, wpc, locals>>
        BY <1>6 DEF vars, cells
      <3>3. QED
        BY <3>1, <3>2, GetStutter
    <2>3. QED
      BY <2>1, <2>2 DEF GetInv, CurrentGet, OwnGet, Foreign
  <1>7. QED
    BY <1>1, <1>3, <1>4, <1>5, <1>6 DEF Next, WriterStep

-----------------------------------------------------------------------------
(* The theorems about writer and readers *)

\* The inductive invariant holds.
THEOREM Inductive == Spec => []IInv
  <1>1. Init => ReaderType /\ ReaderInv
    BY DEF Init, ReaderType, ReaderInv, GetInv, AtRest
  <1>2. TypeOK <=> WriterType /\ ReaderType
    BY DEF TypeOK, WriterType, ReaderType
  <1>3. Init => IInv
    BY <1>1, <1>2, WriterInit DEF IInv
  <1>4. IInv /\ [Next]_vars => WriterType' /\ WriterInv' /\ ReaderType' /\ ReaderInv'
    BY <1>2, WriterKeeps, ReaderTypeKept, ReadersKeep DEF IInv
  <1>5. (TypeOK <=> WriterType /\ ReaderType)'
    BY <1>2, PTL
  <1>6. IInv /\ [Next]_vars => IInv'
    BY <1>4, <1>5 DEF IInv
  <1>7. QED
    BY <1>3, <1>6, PTL DEF Spec

\* Every variable has its type; size stays within the load limit.
THEOREM TypeCorrect == Spec => []TypeOK
  <1>1. IInv => TypeOK
    BY DEF IInv
  <1>2. QED
    BY <1>1, Inductive, PTL

\* A get that runs beside assigns only returns a value its key had during it
\* (concurrent_map.h:210).
THEOREM CurrentSafe == Spec => []GetCurrent
  <1>1. IInv => GetCurrent
    BY DEF IInv, ReaderInv, GetInv, CurrentGet, GetCurrent
  <1>2. QED
    BY <1>1, Inductive, PTL

\* A get that one erase at most ran into returns a value its own key had, or
\* none: the second load of the key does what its comment says, "Otherwise it
\* got erased and rewritten underneath us" (concurrent_map.h:231).
THEOREM OwnValueSafe == Spec => []GetOwnValue
  <1>1. IInv => GetOwnValue
    BY DEF IInv, ReaderInv, GetInv, OwnGet, GetOwnValue
  <1>2. QED
    BY <1>1, Inductive, PTL

==============================================================================
