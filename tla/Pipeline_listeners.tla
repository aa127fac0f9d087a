-------------------------- MODULE Pipeline_listeners --------------------------
(***************************************************************************)
(* Proofs about the two queue listeners, for every program, number of      *)
(* threads and sizes: the collector can read the samples it is sent and    *)
(* knows the file of every function it is told of, and a scrape prints     *)
(* what was recorded since the one before.                                 *)
(*                                                                         *)
(* They go by what a lookup does to the symbol table: LookupKeeps for one  *)
(* address, from HandleKeeps for one callback of backtrace_pcinfo.  The    *)
(* folds of the model are unfolded step by step in the first part.         *)
(***************************************************************************)
EXTENDS Pipeline_proofs

-----------------------------------------------------------------------------
(* Folds over sequences *)

\* The sizes n for which a non-empty set of numbers up to n has a largest.
WithMax == {n \in Nat : \A s \in SUBSET (1 .. n) :
                s # {} => \E x \in s : \A y \in s : x >= y}

LEMMA MaxOfRange ==
    ASSUME NEW n \in Nat, NEW s \in SUBSET (1 .. n), s # {}
    PROVE  Max(s) \in s /\ \A y \in s : Max(s) >= y
  <1>1. 0 \in WithMax
    <2>1. 1 .. 0 = {}
      OBVIOUS
    <2>2. QED
      BY <2>1 DEF WithMax
  <1>2. ASSUME NEW m \in Nat, m \in WithMax
        PROVE  m + 1 \in WithMax
    <2> SUFFICES ASSUME NEW r \in SUBSET (1 .. m + 1), r # {}
                 PROVE  \E x \in r : \A y \in r : x >= y
      BY DEF WithMax
    <2>1. CASE m + 1 \in r
      BY <2>1
    <2>2. CASE m + 1 \notin r
      <3>1. r \in SUBSET (1 .. m)
        BY <2>2
      <3>2. QED
        BY <1>2, <3>1 DEF WithMax
    <2>3. QED
      BY <2>1, <2>2
  <1>3. n \in WithMax
    BY <1>1, <1>2, SetInduction
  <1>4. \E x \in s : \A y \in s : x >= y
    BY <1>3 DEF WithMax
  <1>5. QED
    BY <1>4 DEF Max

\* The largest of a set that has n is n, if there is none beyond.
LEMMA MaxIsLast ==
    ASSUME NEW n \in Nat, NEW s \in SUBSET (1 .. n + 1), n + 1 \in s
    PROVE  Max(s) = n + 1
  <1>1. n + 1 \in Nat /\ s # {}
    OBVIOUS
  <1>2. PICK m \in Nat : m = n + 1
    BY <1>1
  <1>3. s \in SUBSET (1 .. m) /\ m \in s
    BY <1>2
  <1>4. Max(s) \in s /\ \A y \in s : Max(s) >= y
    BY <1>1, <1>3, MaxOfRange
  <1>5. QED
    <2>1. Max(s) \in 1 .. m
      BY <1>3, <1>4
    <2>2. Max(s) >= m
      BY <1>3, <1>4
    <2>3. QED
      BY <1>2, <2>1, <2>2

\* The folds over the subsets of 1 .. n of a step for each number.
IsFold(it, D, x0, step, n) ==
    /\ it \in [SUBSET (1 .. n) -> D]
    /\ it[{}] = x0
    /\ \A s \in SUBSET (1 .. n) : s # {} => it[s] = step[Max(s)][it[s \ {Max(s)}]]
Folded(D, x0, step, N) == {n \in Nat : n <= N => \E it : IsFold(it, D, x0, step, n)}

LEMMA FoldExists ==
    ASSUME NEW D, NEW x0 \in D, NEW N \in Nat, NEW step \in [1 .. N -> [D -> D]]
    PROVE  \E it : IsFold(it, D, x0, step, N)
  <1>1. 0 \in Folded(D, x0, step, N)
    <2>1. 1 .. 0 = {}
      OBVIOUS
    <2>2. IsFold([s \in SUBSET (1 .. 0) |-> x0], D, x0, step, 0)
      BY <2>1 DEF IsFold
    <2>3. QED
      BY <2>2 DEF Folded
  <1>2. ASSUME NEW n \in Nat, n \in Folded(D, x0, step, N)
        PROVE  n + 1 \in Folded(D, x0, step, N)
    <2> SUFFICES ASSUME n + 1 <= N
                 PROVE  \E it : IsFold(it, D, x0, step, n + 1)
      BY DEF Folded
    <2>1. PICK it : IsFold(it, D, x0, step, n)
      BY <1>2 DEF Folded
    <2>2. /\ it \in [SUBSET (1 .. n) -> D] /\ it[{}] = x0
          /\ \A s \in SUBSET (1 .. n) : s # {} => it[s] = step[Max(s)][it[s \ {Max(s)}]]
      BY <2>1 DEF IsFold
    <2>3. \A s \in SUBSET (1 .. n + 1) : s \ {n + 1} \in SUBSET (1 .. n)
      OBVIOUS
    <2>4. step[n + 1] \in [D -> D]
      OBVIOUS
    <2> DEFINE next == [s \in SUBSET (1 .. n + 1) |->
                            IF n + 1 \in s THEN step[n + 1][it[s \ {n + 1}]] ELSE it[s]]
    <2>5. \A s \in SUBSET (1 .. n + 1) : n + 1 \notin s => s \in SUBSET (1 .. n) /\ next[s] = it[s]
      OBVIOUS
    <2>6. next \in [SUBSET (1 .. n + 1) -> D]
      BY <2>2, <2>3, <2>4
    <2>7. next[{}] = x0
      BY <2>2
    <2>8. ASSUME NEW s \in SUBSET (1 .. n + 1), s # {}
          PROVE  next[s] = step[Max(s)][next[s \ {Max(s)}]]
      <3>1. CASE n + 1 \in s
        <4>1. Max(s) = n + 1
          BY <3>1, MaxIsLast
        <4>2. s \ {n + 1} \in SUBSET (1 .. n + 1) /\ n + 1 \notin s \ {n + 1}
          OBVIOUS
        <4>3. next[s \ {n + 1}] = it[s \ {n + 1}]
          BY <2>5, <4>2
        <4>4. next[s] = step[n + 1][it[s \ {n + 1}]]
          BY <3>1
        <4>5. QED
          BY <4>1, <4>3, <4>4
      <3>2. CASE n + 1 \notin s
        <4>1. s \in SUBSET (1 .. n) /\ next[s] = it[s]
          BY <2>5, <3>2
        <4>2. s \ {Max(s)} \in SUBSET (1 .. n + 1) /\ n + 1 \notin s \ {Max(s)}
          BY <3>2
        <4>3. next[s \ {Max(s)}] = it[s \ {Max(s)}]
          BY <2>5, <4>2
        <4>4. QED
          BY <2>2, <2>8, <4>1, <4>3
      <3>3. QED
        BY <3>1, <3>2
    <2> HIDE DEF next
    <2>9. IsFold(next, D, x0, step, n + 1)
      BY <2>6, <2>7, <2>8 DEF IsFold
    <2>10. QED
      BY <2>9
  <1>3. N \in Folded(D, x0, step, N)
    BY <1>1, <1>2, SetInduction
  <1>4. QED
    BY <1>3 DEF Folded

\* The sets 1 .. k a fold goes through.
LEMMA UpToNext ==
    ASSUME NEW k \in Nat
    PROVE  /\ 1 .. k + 1 # {} /\ Max(1 .. k + 1) = k + 1
           /\ (1 .. k + 1) \ {k + 1} = 1 .. k
  <1>1. 1 .. k + 1 \in SUBSET (1 .. k + 1) /\ k + 1 \in 1 .. k + 1
    OBVIOUS
  <1>2. Max(1 .. k + 1) = k + 1
    BY <1>1, MaxIsLast
  <1>3. \A x : x \in (1 .. k + 1) \ {k + 1} <=> x \in 1 .. k
    OBVIOUS
  <1>4. QED
    BY <1>1, <1>2, <1>3

\* The callbacks of backtrace_pcinfo, one after the other.
Callbacks(st, pc, symbol, infos) ==
    FoldLeft(LAMBDA acc, info : handlePcInfo(acc, pc, symbol, info), st, infos)

InTurn(D, x0, pc, symbol, infos, n, result) ==
    \E acc \in [0 .. n -> D] :
        /\ acc[0] = x0 /\ acc[n] = result
        /\ \A k \in 0 .. n - 1 : acc[k + 1] = handlePcInfo(acc[k], pc, symbol, infos[k + 1])

LEMMA CallbacksInTurn ==
    ASSUME NEW pc, NEW symbol, NEW infos, NEW n \in Nat, DOMAIN infos = 1 .. n,
           NEW D, NEW x0, x0 \in D,
           \A st \in D, k \in 1 .. n : handlePcInfo(st, pc, symbol, infos[k]) \in D
    PROVE  InTurn(D, x0, pc, symbol, infos, n, Callbacks(x0, pc, symbol, infos))
  <1> DEFINE Body(it, s) == IF s = {} THEN x0
                            ELSE handlePcInfo(it[s \ {Max(s)}], pc, symbol, infos[Max(s)])
             Eqn(it) == it = [s \in SUBSET (1 .. n) |-> Body(it, s)]
             fold == CHOOSE it : Eqn(it)
             step == [k \in 1 .. n |-> [st \in D |-> handlePcInfo(st, pc, symbol, infos[k])]]
  <1>1. Callbacks(x0, pc, symbol, infos) = fold[1 .. n]
    BY DEF Callbacks, FoldLeft, MapThenFoldSet
  <1>2. \E it : IsFold(it, D, x0, step, n)
    <2>1. step \in [1 .. n -> [D -> D]]
      OBVIOUS
    <2> HIDE DEF step
    <2>2. QED
      BY <2>1, FoldExists
  <1>3. PICK it : IsFold(it, D, x0, step, n)
    BY <1>2
  <1>4. Eqn(it)
    <2>1. ASSUME NEW s \in SUBSET (1 .. n)
          PROVE  it[s] = Body(it, s)
      <3>1. CASE s = {}
        BY <1>3, <3>1 DEF IsFold
      <3>2. CASE s # {}
        <4>1. it[s] = step[Max(s)][it[s \ {Max(s)}]]
          BY <1>3, <3>2 DEF IsFold
        <4>2. Max(s) \in 1 .. n
          BY <3>2, MaxOfRange
        <4>3. it[s \ {Max(s)}] \in D
          BY <1>3 DEF IsFold
        <4>4. QED
          BY <3>2, <4>1, <4>2, <4>3
      <3>3. QED
        BY <3>1, <3>2
    <2>2. it \in [SUBSET (1 .. n) -> D]
      BY <1>3 DEF IsFold
    <2> HIDE DEF Body
    <2>3. QED
      BY <2>1, <2>2
  <1>5. Eqn(fold)
    <2> HIDE DEF Eqn
    <2>1. QED
      BY <1>4
  <1>6. \A s \in SUBSET (1 .. n) : fold[s] = Body(fold, s)
    <2> HIDE DEF Body, fold
    <2>1. QED
      BY <1>5
  <1> HIDE DEF fold
  <1> DEFINE acc == [k \in 0 .. n |-> fold[1 .. k]]
  <1>7. acc[0] = x0
    <2>1. 1 .. 0 = {} /\ 0 \in 0 .. n /\ {} \in SUBSET (1 .. n)
      OBVIOUS
    <2>2. fold[{}] = x0
      BY <1>6, <2>1
    <2>3. QED
      BY <2>1, <2>2
  <1>8. ASSUME NEW k \in 0 .. n - 1
        PROVE  acc[k + 1] = handlePcInfo(acc[k], pc, symbol, infos[k + 1])
    <2>1. k \in Nat /\ 1 .. k + 1 \in SUBSET (1 .. n) /\ k \in 0 .. n /\ k + 1 \in 0 .. n
      OBVIOUS
    <2>2. PICK s : s = 1 .. k + 1
      OBVIOUS
    <2>3. s # {} /\ Max(s) = k + 1 /\ s \ {Max(s)} = 1 .. k
      BY <2>1, <2>2, UpToNext
    <2>4. fold[s] = handlePcInfo(fold[s \ {Max(s)}], pc, symbol, infos[Max(s)])
      BY <1>6, <2>1, <2>2, <2>3
    <2>5. acc[k + 1] = fold[s] /\ acc[k] = fold[1 .. k]
      BY <2>1, <2>2
    <2> HIDE DEF acc
    <2>6. QED
      BY <2>3, <2>4, <2>5
  <1>9. acc[n] = fold[1 .. n]
    OBVIOUS
  <1>10. DOMAIN acc = 0 .. n /\ acc = [k \in 0 .. n |-> acc[k]]
    OBVIOUS
  <1> HIDE DEF acc
  <1>11. \A k \in Nat : k <= n => acc[k] \in D
    <2> DEFINE T == {k \in Nat : k <= n => acc[k] \in D}
    <2>1. 0 \in T
      BY <1>7
    <2>2. ASSUME NEW k \in Nat, k \in T
          PROVE  k + 1 \in T
      <3> SUFFICES ASSUME k + 1 <= n
                   PROVE  acc[k + 1] \in D
        OBVIOUS
      <3>1. k \in 0 .. n - 1 /\ k + 1 \in 1 .. n /\ acc[k] \in D
        BY <2>2
      <3>2. QED
        BY <1>8, <3>1
    <2> HIDE DEF T
    <2>3. \A k \in Nat : k \in T
      BY <2>1, <2>2, SetInduction
    <2>4. QED
      BY <2>3 DEF T
  <1>12. acc \in [0 .. n -> D]
    BY <1>10, <1>11
  <1>13. QED
    BY <1>1, <1>7, <1>8, <1>9, <1>12 DEF InTurn

-----------------------------------------------------------------------------
(* The symbol table *)

\* What is looked up: addresses of the program, and 0 for a broken trace.
Addresses == PCs \cup {0}

\* The k-th function inlined at an address, and its file.
SymbolOf(pc) == IF pc \in Foreign THEN NoName ELSE Syminfo[pc]
NameOf(pc, k) == FunctionName(pc, SymbolOf(pc), Pcinfo[pc][k])
FileOf(pc, k) == FileName(pc, Pcinfo[pc][k])
NamesAt(pc) == {NameOf(pc, k) : k \in DOMAIN Pcinfo[pc]} \cup {FileOf(pc, k) : k \in DOMAIN Pcinfo[pc]}
Names == UNION {NamesAt(pc) : pc \in Addresses}

Location == [methodId : Nat, functionName : Names]
Message == [kind : {"module", "method"}, id : Nat, name : Names, moduleId : Nat]

\* The locations of the first n functions at an address.
Located(locations, pc, n, methods) ==
    /\ locations \in Seq(Location) /\ Len(locations) = n
    /\ \A k \in 1 .. n : /\ NameOf(pc, k) \in DOMAIN methods
                         /\ locations[k].methodId = methods[NameOf(pc, k)]
                         /\ locations[k].functionName = NameOf(pc, k)

\* Functions from some of the members of S.
Partial(S, T) == UNION {[X -> T] : X \in SUBSET S}

TableRecord == [nextId : Nat \ {0}, addrs : Partial(Addresses, Seq(Location)),
                methods : Partial(Names, Nat), files : Partial(Names, Nat),
                locations : Seq(Location), told : Seq(Message)]

\* Tables that agree: the ids in use are below the next one, and the
\* locations of an address are those of its functions.
IdsBelow(ids, n) == \A x \in DOMAIN ids : ids[x] < n
AddrsLocated(addrs, methods) ==
    \A pc \in DOMAIN addrs : Located(addrs[pc], pc, Len(Pcinfo[pc]), methods)
OKTables == {st \in TableRecord : /\ IdsBelow(st.methods, st.nextId)
                                  /\ IdsBelow(st.files, st.nextId)
                                  /\ AddrsLocated(st.addrs, st.methods)}

\* Tables only grow during a lookup.
Grown(st0, st) ==
    /\ st0.nextId <= st.nextId
    /\ \A m \in DOMAIN st0.methods : m \in DOMAIN st.methods /\ st.methods[m] = st0.methods[m]

\* What the messages ms of a lookup announce, going from the next id n0 to
\* n: new ids only, each for one name, files before the functions that name
\* them.
Has(ms, id) == \E j \in 1 .. Len(ms) : ms[j].id = id
NewIds(n0, n, ms) == \A j \in 1 .. Len(ms) : n0 <= ms[j].id /\ ms[j].id < n
MethodsAnnounced(methods0, methods, ms) ==
    \A m \in DOMAIN methods :
        /\ m \in DOMAIN methods0 \/ Has(ms, methods[m])
        /\ \A j \in 1 .. Len(ms) :
              ms[j].id = methods[m] => ms[j].kind = "method" /\ ms[j].name = m
FilesAnnounced(files0, files, ms) ==
    \A f \in DOMAIN files : (f \in DOMAIN files0 /\ files[f] = files0[f]) \/ Has(ms, files[f])
FilesFirst(files0, ms) ==
    \A j \in 1 .. Len(ms) :
        ms[j].kind = "method" /\ ms[j].moduleId # 0 =>
            \/ \E f \in DOMAIN files0 : files0[f] = ms[j].moduleId
            \/ \E i \in 1 .. j - 1 : ms[i].id = ms[j].moduleId
Reached(st0, st) ==
    /\ st \in OKTables /\ Grown(st0, st)
    /\ NewIds(st0.nextId, st.nextId, st.told)
    /\ MethodsAnnounced(st0.methods, st.methods, st.told)
    /\ FilesAnnounced(st0.files, st.files, st.told)
    /\ FilesFirst(st0.files, st.told)

-----------------------------------------------------------------------------
LEMMA NamesHave ==
    ASSUME NEW pc \in Addresses, NEW k \in DOMAIN Pcinfo[pc]
    PROVE  NameOf(pc, k) \in Names /\ FileOf(pc, k) \in Names
  <1>1. NameOf(pc, k) \in NamesAt(pc) /\ FileOf(pc, k) \in NamesAt(pc)
    BY DEF NamesAt
  <1>2. QED
    BY <1>1 DEF Names

\* A function with one more value.
Extended(f, f1, key, value) ==
    /\ DOMAIN f1 = DOMAIN f \cup {key}
    /\ f1[key] = value /\ \A x \in DOMAIN f : x # key => f1[x] = f[x]

LEMMA KnownKeeps ==
    ASSUME NEW S, NEW T, NEW f, f \in Partial(S, T), NEW key, key \in S, NEW value, value \in T
    PROVE  Known(f, key, value) \in Partial(S, T) /\ Extended(f, Known(f, key, value), key, value)
  <1>1. PICK X \in SUBSET S : f \in [X -> T]
    BY DEF Partial
  <1>2. DOMAIN f = X
    BY <1>1
  <1>3. Known(f, key, value) \in [X \cup {key} -> T]
    BY <1>1 DEF Known
  <1>4. QED
    BY <1>2, <1>3 DEF Partial, Known, Extended

LEMMA PartialHas ==
    ASSUME NEW S, NEW T, NEW f \in Partial(S, T)
    PROVE  DOMAIN f \subseteq S /\ \A x \in DOMAIN f : f[x] \in T
  BY DEF Partial

\* More methods leave the locations found before as they are.
LEMMA LocatedKept ==
    ASSUME NEW locations, NEW pc, NEW n, NEW ms, NEW ms1, Located(locations, pc, n, ms),
           \A m \in DOMAIN ms : m \in DOMAIN ms1 /\ ms1[m] = ms[m]
    PROVE  Located(locations, pc, n, ms1)
  BY DEF Located

\* A message with the next id, after those before it.
LEMMA OneMore ==
    ASSUME NEW ms \in Seq(Message), NEW msg \in Message, NEW n0 \in Nat, NEW n \in Nat,
           n0 <= n, NewIds(n0, n, ms), msg.id = n
    PROVE  /\ Append(ms, msg) \in Seq(Message)
           /\ Len(Append(ms, msg)) = Len(ms) + 1 /\ Len(ms) \in Nat
           /\ \A j \in 1 .. Len(ms) : /\ Append(ms, msg)[j] = ms[j] /\ j \in 1 .. Len(ms) + 1
                                      /\ ms[j].id \in Nat /\ ms[j].id < n
           /\ Append(ms, msg)[Len(ms) + 1] = msg /\ Len(ms) + 1 \in 1 .. Len(ms) + 1
           /\ \A j \in 1 .. Len(ms) + 1 : j \in 1 .. Len(ms) \/ j = Len(ms) + 1
           /\ NewIds(n0, n + 1, Append(ms, msg))
           /\ Has(Append(ms, msg), n)
           /\ \A id : Has(ms, id) => Has(Append(ms, msg), id)
  <1>1. PICK l \in Nat : l = Len(ms)
    OBVIOUS
  <1>2. PICK ms1 : ms1 = Append(ms, msg)
    OBVIOUS
  <1>3. /\ ms1 \in Seq(Message) /\ Len(ms1) = l + 1
        /\ \A j \in 1 .. l : ms1[j] = ms[j]
        /\ ms1[l + 1] = msg
    BY <1>1, <1>2
  <1>4. \A j \in 1 .. l + 1 : j \in 1 .. l \/ j = l + 1
    OBVIOUS
  <1>5. \A j \in 1 .. l : j \in 1 .. l + 1
    OBVIOUS
  <1>6. ASSUME NEW j \in 1 .. l
        PROVE  ms[j].id \in Nat /\ n0 <= ms[j].id /\ ms[j].id < n
    <2>1. ms[j] \in Message
      BY <1>1
    <2>2. QED
      BY <1>1, <2>1 DEF NewIds, Message
  <1>7. NewIds(n0, n + 1, ms1)
    <2> SUFFICES ASSUME NEW j \in 1 .. l + 1
                 PROVE  n0 <= ms1[j].id /\ ms1[j].id < n + 1
      BY <1>3 DEF NewIds
    <2>1. CASE j \in 1 .. l
      BY <1>3, <1>6, <2>1
    <2>2. CASE j = l + 1
      BY <1>3, <2>2
    <2>3. QED
      BY <1>4, <2>1, <2>2
  <1>8. l + 1 \in 1 .. l + 1
    OBVIOUS
  <1>9. Has(ms1, n) /\ \A id : Has(ms, id) => Has(ms1, id)
    <2>1. Has(ms1, n)
      BY <1>3, <1>8 DEF Has
    <2>2. ASSUME NEW id, Has(ms, id)
          PROVE  Has(ms1, id)
      <3>1. PICK j \in 1 .. l : ms[j].id = id
        BY <1>1, <2>2 DEF Has
      <3>2. ms1[j].id = id /\ j \in 1 .. l + 1
        BY <1>3, <1>5, <3>1
      <3>3. QED
        BY <1>3, <3>2 DEF Has
    <2>3. QED
      BY <2>1, <2>2
  <1>10. QED
    BY <1>1, <1>2, <1>3, <1>4, <1>5, <1>6, <1>7, <1>8, <1>9

LEMMA AnnounceFile ==
    ASSUME NEW ms \in Seq(Message), NEW n0 \in Nat, NEW n \in Nat, n0 <= n, NewIds(n0, n, ms),
           NEW methods0, NEW files0,
           NEW methods, IdsBelow(methods, n),
           MethodsAnnounced(methods0, methods, ms),
           NEW files, NEW file, NEW files1, DOMAIN files1 = DOMAIN files \cup {file},
           files1[file] = n, \A f \in DOMAIN files : files1[f] = files[f],
           FilesAnnounced(files0, files, ms), FilesFirst(files0, ms),
           NEW msg \in Message, msg.id = n, msg.kind = "module"
    PROVE  /\ MethodsAnnounced(methods0, methods, Append(ms, msg))
           /\ FilesAnnounced(files0, files1, Append(ms, msg))
           /\ FilesFirst(files0, Append(ms, msg))
  <1>1. PICK l \in Nat : l = Len(ms)
    OBVIOUS
  <1>2. PICK ms1 : ms1 = Append(ms, msg)
    OBVIOUS
  <1>3. /\ Len(ms1) = l + 1 /\ ms1[l + 1] = msg
        /\ \A j \in 1 .. l : ms1[j] = ms[j]
        /\ \A j \in 1 .. l + 1 : j \in 1 .. l \/ j = l + 1
        /\ Has(ms1, n) /\ \A id : Has(ms, id) => Has(ms1, id)
    BY <1>1, <1>2, OneMore
  <1>4. MethodsAnnounced(methods0, methods, ms1)
    <2> SUFFICES ASSUME NEW m \in DOMAIN methods
                 PROVE  /\ m \in DOMAIN methods0 \/ Has(ms1, methods[m])
                        /\ \A j \in 1 .. l + 1 :
                              ms1[j].id = methods[m] => ms1[j].kind = "method" /\ ms1[j].name = m
      BY <1>3 DEF MethodsAnnounced
    <2>1. m \in DOMAIN methods0 \/ Has(ms1, methods[m])
      BY <1>3 DEF MethodsAnnounced
    <2>2. ASSUME NEW j \in 1 .. l + 1, ms1[j].id = methods[m]
          PROVE  ms1[j].kind = "method" /\ ms1[j].name = m
      <3>1. CASE j \in 1 .. l
        BY <1>1, <1>3, <2>2, <3>1 DEF MethodsAnnounced
      <3>2. CASE j = l + 1
        <4>1. methods[m] = n
          BY <1>3, <2>2, <3>2
        <4>2. methods[m] < n
          BY DEF IdsBelow
        <4>3. QED
          BY <4>1, <4>2
      <3>3. QED
        BY <1>3, <3>1, <3>2
    <2>3. QED
      BY <2>1, <2>2
  <1>5. FilesAnnounced(files0, files1, ms1)
    BY <1>3 DEF FilesAnnounced
  <1>6. FilesFirst(files0, ms1)
    <2> SUFFICES ASSUME NEW j \in 1 .. l + 1, ms1[j].kind = "method", ms1[j].moduleId # 0
                 PROVE  \/ \E f \in DOMAIN files0 : files0[f] = ms1[j].moduleId
                        \/ \E i \in 1 .. j - 1 : ms1[i].id = ms1[j].moduleId
      BY <1>3 DEF FilesFirst
    <2>1. j \in 1 .. l /\ ms1[j] = ms[j]
      BY <1>3
    <2>2. \A i \in 1 .. j - 1 : ms1[i] = ms[i]
      BY <1>3, <2>1
    <2>3. \/ \E f \in DOMAIN files0 : files0[f] = ms[j].moduleId
          \/ \E i \in 1 .. j - 1 : ms[i].id = ms[j].moduleId
      BY <1>1, <2>1 DEF FilesFirst
    <2>4. QED
      BY <2>1, <2>2, <2>3
  <1>7. QED
    BY <1>2, <1>4, <1>5, <1>6

\* The facts a lookup keeps about its messages, a message about a new
\* function, and the functions with the new one.
AllAnnounced(methods0, methods, files0, files, ms) ==
    /\ MethodsAnnounced(methods0, methods, ms)
    /\ FilesAnnounced(files0, files, ms) /\ FilesFirst(files0, ms)
TellsMethod(msg, n, name, files) ==
    /\ msg.id = n /\ msg.kind = "method" /\ msg.name = name
    /\ msg.moduleId = 0 \/ \E f \in DOMAIN files : files[f] = msg.moduleId
WithName(methods, methods1, name, n) ==
    /\ DOMAIN methods1 = DOMAIN methods \cup {name}
    /\ methods1[name] = n /\ \A m \in DOMAIN methods : methods1[m] = methods[m]

LEMMA AnnounceMethod ==
    ASSUME NEW ms \in Seq(Message), NEW n0 \in Nat, NEW n \in Nat, n0 <= n, NewIds(n0, n, ms),
           NEW methods0, NEW files0, NEW methods, NEW files,
           AllAnnounced(methods0, methods, files0, files, ms), IdsBelow(methods, n),
           NEW name, NEW methods1, WithName(methods, methods1, name, n),
           NEW msg \in Message, TellsMethod(msg, n, name, files)
    PROVE  AllAnnounced(methods0, methods1, files0, files, Append(ms, msg))
  <1> USE DEF AllAnnounced, TellsMethod, WithName
  <1>1. PICK l \in Nat : l = Len(ms)
    OBVIOUS
  <1>2. PICK ms1 : ms1 = Append(ms, msg)
    OBVIOUS
  <1>3. /\ Len(ms1) = l + 1 /\ ms1[l + 1] = msg
        /\ \A j \in 1 .. l : ms1[j] = ms[j] /\ ms[j].id \in Nat /\ ms[j].id < n
        /\ \A j \in 1 .. l + 1 : j \in 1 .. l \/ j = l + 1
        /\ Has(ms1, n) /\ \A id : Has(ms, id) => Has(ms1, id)
    BY <1>1, <1>2, OneMore
  <1>4. MethodsAnnounced(methods0, methods1, ms1)
    <2> SUFFICES ASSUME NEW m \in DOMAIN methods1
                 PROVE  /\ m \in DOMAIN methods0 \/ Has(ms1, methods1[m])
                        /\ \A j \in 1 .. l + 1 :
                              ms1[j].id = methods1[m] => ms1[j].kind = "method" /\ ms1[j].name = m
      BY <1>3 DEF MethodsAnnounced
    <2>1. m \in DOMAIN methods0 \/ Has(ms1, methods1[m])
      <3>1. CASE m \in DOMAIN methods
        BY <1>3, <3>1 DEF MethodsAnnounced
      <3>2. CASE m = name
        BY <1>3, <3>2
      <3>3. QED
        BY <3>1, <3>2
    <2>2. ASSUME NEW j \in 1 .. l + 1, ms1[j].id = methods1[m]
          PROVE  ms1[j].kind = "method" /\ ms1[j].name = m
      <3>1. CASE m \in DOMAIN methods /\ j \in 1 .. l
        BY <1>1, <1>3, <2>2, <3>1 DEF MethodsAnnounced
      <3>2. CASE m \in DOMAIN methods /\ j = l + 1
        <4>1. methods[m] = n
          BY <1>3, <2>2, <3>2
        <4>2. methods[m] < n
          BY <3>2 DEF IdsBelow
        <4>3. QED
          BY <4>1, <4>2
      <3>3. CASE m = name /\ j \in 1 .. l
        <4>1. ms[j].id = n
          BY <1>3, <2>2, <3>3
        <4>2. ms[j].id < n
          BY <1>3, <3>3
        <4>3. QED
          BY <4>1, <4>2
      <3>4. CASE m = name /\ j = l + 1
        BY <1>3, <3>4
      <3>5. QED
        BY <1>3, <3>1, <3>2, <3>3, <3>4
    <2>3. QED
      BY <2>1, <2>2
  <1>5. FilesAnnounced(files0, files, ms1)
    BY <1>3 DEF FilesAnnounced
  <1>6. FilesFirst(files0, ms1)
    <2> SUFFICES ASSUME NEW j \in 1 .. l + 1, ms1[j].kind = "method", ms1[j].moduleId # 0
                 PROVE  \/ \E f \in DOMAIN files0 : files0[f] = ms1[j].moduleId
                        \/ \E i \in 1 .. j - 1 : ms1[i].id = ms1[j].moduleId
      BY <1>3 DEF FilesFirst
    <2>1. CASE j \in 1 .. l
      <3>1. ms1[j] = ms[j] /\ \A i \in 1 .. j - 1 : ms1[i] = ms[i]
        BY <1>3, <2>1
      <3>2. \/ \E f \in DOMAIN files0 : files0[f] = ms[j].moduleId
            \/ \E i \in 1 .. j - 1 : ms[i].id = ms[j].moduleId
        BY <1>1, <2>1, <3>1 DEF FilesFirst
      <3>3. QED
        BY <3>1, <3>2
    <2>2. CASE j = l + 1
      <3>1. ms1[j] = msg /\ j - 1 = l
        BY <1>3, <2>2
      <3>2. PICK f \in DOMAIN files : files[f] = msg.moduleId
        BY <3>1
      <3>3. CASE f \in DOMAIN files0 /\ files[f] = files0[f]
        BY <3>1, <3>2, <3>3
      <3>4. CASE Has(ms, files[f])
        <4>1. PICK i \in 1 .. l : ms[i].id = files[f]
          BY <1>1, <3>4 DEF Has
        <4>2. ms1[i].id = msg.moduleId
          BY <1>3, <3>2, <4>1
        <4>3. QED
          BY <3>1, <4>2
      <3>5. QED
        BY <3>3, <3>4 DEF FilesAnnounced
    <2>3. QED
      BY <1>3, <2>1, <2>2
  <1>7. QED
    BY <1>2, <1>4, <1>5, <1>6

\* Tables by their fields.
Table(n, addrs, methods, files, locations, ms) ==
    [nextId |-> n, addrs |-> addrs, methods |-> methods, files |-> files,
     locations |-> locations, told |-> ms]

LEMMA TableHas ==
    ASSUME NEW n, NEW addrs, NEW methods, NEW files, NEW locations, NEW ms, NEW st,
           st = Table(n, addrs, methods, files, locations, ms)
    PROVE  /\ st.nextId = n /\ st.addrs = addrs /\ st.methods = methods /\ st.files = files
           /\ st.locations = locations /\ st.told = ms
           /\ st \in OKTables <=>
                 /\ n \in Nat \ {0} /\ addrs \in Partial(Addresses, Seq(Location))
                 /\ methods \in Partial(Names, Nat) /\ files \in Partial(Names, Nat)
                 /\ locations \in Seq(Location) /\ ms \in Seq(Message)
                 /\ IdsBelow(methods, n) /\ IdsBelow(files, n) /\ AddrsLocated(addrs, methods)
  <1>1. /\ st.nextId = n /\ st.addrs = addrs /\ st.methods = methods /\ st.files = files
        /\ st.locations = locations /\ st.told = ms
    BY DEF Table
  <1>2. st \in TableRecord <=>
            /\ n \in Nat \ {0} /\ addrs \in Partial(Addresses, Seq(Location))
            /\ methods \in Partial(Names, Nat) /\ files \in Partial(Names, Nat)
            /\ locations \in Seq(Location) /\ ms \in Seq(Message)
    BY DEF Table, TableRecord
  <1>3. QED
    BY <1>1, <1>2 DEF OKTables

LEMMA TableIs ==
    ASSUME NEW st \in OKTables
    PROVE  st = Table(st.nextId, st.addrs, st.methods, st.files, st.locations, st.told)
  BY DEF OKTables, TableRecord, Table

\* What a lookup has reached, by the fields.
LEMMA ReachedHas ==
    ASSUME NEW st0, NEW n, NEW addrs, NEW methods, NEW files, NEW locations, NEW ms, NEW st,
           st = Table(n, addrs, methods, files, locations, ms)
    PROVE  Reached(st0, st) <=>
              /\ st \in OKTables
              /\ st0.nextId <= n
              /\ \A m \in DOMAIN st0.methods : m \in DOMAIN methods /\ methods[m] = st0.methods[m]
              /\ NewIds(st0.nextId, n, ms) /\ MethodsAnnounced(st0.methods, methods, ms)
              /\ FilesAnnounced(st0.files, files, ms) /\ FilesFirst(st0.files, ms)
  <1>1. /\ st.nextId = n /\ st.methods = methods /\ st.files = files /\ st.told = ms
    BY TableHas
  <1>2. QED
    BY <1>1 DEF Reached, Grown

\* A file that is new gets the next id, and is announced.
LEMMA RecordFileKeeps ==
    ASSUME NEW st0 \in OKTables, NEW n, NEW addrs, NEW methods, NEW files, NEW locations, NEW ms,
           NEW st, st = Table(n, addrs, methods, files, locations, ms), Reached(st0, st),
           NEW file \in Names
    PROVE  \E n1, files1, ms1 :
              /\ recordFile(st, file) = Table(n1, addrs, methods, files1, locations, ms1)
              /\ Reached(st0, recordFile(st, file))
              /\ file \in DOMAIN files1
  <1>1. /\ st.nextId = n /\ st.addrs = addrs /\ st.methods = methods /\ st.files = files
        /\ st.locations = locations /\ st.told = ms
    BY TableHas
  <1>2. CASE file \in DOMAIN files
    <2>1. recordFile(st, file) = st
      BY <1>1, <1>2 DEF recordFile
    <2>2. QED
      BY <1>2, <2>1
  <1>3. CASE file \notin DOMAIN files
    <2>1. PICK msg : msg = [kind |-> "module", id |-> n, name |-> file, moduleId |-> 0]
      OBVIOUS
    <2>2. PICK files1 : files1 = Known(files, file, n)
      OBVIOUS
    <2>3. PICK ms1 : ms1 = Append(ms, msg)
      OBVIOUS
    <2>4. PICK new : new = recordFile(st, file)
      OBVIOUS
    <2>5. /\ st \in OKTables
          /\ st0.nextId <= n
          /\ \A m \in DOMAIN st0.methods : m \in DOMAIN methods /\ methods[m] = st0.methods[m]
          /\ NewIds(st0.nextId, n, ms) /\ MethodsAnnounced(st0.methods, methods, ms)
          /\ FilesAnnounced(st0.files, files, ms) /\ FilesFirst(st0.files, ms)
      BY ReachedHas
    <2>6. /\ n \in Nat \ {0} /\ addrs \in Partial(Addresses, Seq(Location))
          /\ methods \in Partial(Names, Nat) /\ files \in Partial(Names, Nat)
          /\ locations \in Seq(Location) /\ ms \in Seq(Message)
          /\ IdsBelow(methods, n) /\ IdsBelow(files, n) /\ AddrsLocated(addrs, methods)
      BY <2>5, TableHas
    <2>7. /\ msg \in Message /\ msg.kind = "module" /\ msg.id = n
          /\ n \in Nat /\ n + 1 \in Nat \ {0} /\ st0.nextId \in Nat
      BY <2>1, <2>6 DEF Message, OKTables, TableRecord
    <2>8. /\ files1 \in Partial(Names, Nat) /\ DOMAIN files1 = DOMAIN files \cup {file}
          /\ files1[file] = n /\ \A f \in DOMAIN files : files1[f] = files[f]
      <3>1. files1 \in Partial(Names, Nat) /\ Extended(files, files1, file, n)
        BY <2>2, <2>6, <2>7, KnownKeeps
      <3>2. QED
        BY <1>3, <3>1 DEF Extended
    <2>9. /\ ms1 \in Seq(Message) /\ NewIds(st0.nextId, n + 1, ms1)
      BY <2>3, <2>5, <2>6, <2>7, OneMore
    <2>10. /\ MethodsAnnounced(st0.methods, methods, ms1)
           /\ FilesAnnounced(st0.files, files1, ms1) /\ FilesFirst(st0.files, ms1)
      <3>1. PICK n0 \in Nat : n0 = st0.nextId
        BY <2>7
      <3>2. PICK methods0, files0 : methods0 = st0.methods /\ files0 = st0.files
        OBVIOUS
      <3>3. /\ ms \in Seq(Message) /\ n \in Nat /\ n0 <= n /\ NewIds(n0, n, ms)
            /\ IdsBelow(methods, n) /\ MethodsAnnounced(methods0, methods, ms)
            /\ FilesAnnounced(files0, files, ms) /\ FilesFirst(files0, ms)
        BY <2>5, <2>6, <2>7, <3>1, <3>2
      <3>4. /\ DOMAIN files1 = DOMAIN files \cup {file}
            /\ files1[file] = n /\ \A f \in DOMAIN files : files1[f] = files[f]
        BY <2>8
      <3>5. msg \in Message /\ msg.id = n /\ msg.kind = "module"
        BY <2>7
      <3>6. /\ MethodsAnnounced(methods0, methods, Append(ms, msg))
            /\ FilesAnnounced(files0, files1, Append(ms, msg)) /\ FilesFirst(files0, Append(ms, msg))
        BY <3>3, <3>4, <3>5, AnnounceFile
      <3>7. QED
        BY <2>3, <3>2, <3>6
    <2>11. IdsBelow(methods, n + 1) /\ IdsBelow(files1, n + 1)
      BY <2>6, <2>7, <2>8, PartialHas DEF IdsBelow
    <2>12. new = Table(n + 1, addrs, methods, files1, locations, ms1)
      BY <1>1, <1>3, <2>1, <2>2, <2>3, <2>4 DEF recordFile, Table
    <2>13. new \in OKTables
      BY <2>6, <2>7, <2>8, <2>9, <2>11, <2>12, TableHas
    <2>14. st0.nextId <= n + 1
      BY <2>5, <2>7
    <2>15. Reached(st0, new)
      BY <2>5, <2>9, <2>10, <2>12, <2>13, <2>14, ReachedHas
    <2>16. QED
      BY <2>4, <2>8, <2>12, <2>15
  <1>4. QED
    BY <1>2, <1>3

\* The parts of handlePcInfo after the file: the function and its location.
WithFile(st, file) == IF file = NoName THEN st ELSE recordFile(st, file)
FileId(st, file) == IF file = NoName THEN 0 ELSE st.files[file]
WithMethod(st, name, fileId) ==
    IF name \in DOMAIN st.methods THEN st
    ELSE [st EXCEPT !.nextId = @ + 1,
                    !.methods = Known(@, name, st.nextId),
                    !.told = Append(@, [kind |-> "method", id |-> st.nextId,
                                        name |-> name, moduleId |-> fileId])]
WithLocation(st, name) ==
    [st EXCEPT !.locations = Append(@, [methodId |-> st.methods[name], functionName |-> name])]

LEMMA HandleParts ==
    ASSUME NEW st, NEW pc, NEW symbol, NEW info, NEW file, file = FileName(pc, info),
           NEW name, name = FunctionName(pc, symbol, info),
           NEW st1, st1 = WithFile(st, file), NEW st2, st2 = WithMethod(st1, name, FileId(st1, file))
    PROVE  handlePcInfo(st, pc, symbol, info) = WithLocation(st2, name)
  BY DEF handlePcInfo, WithFile, FileId, WithMethod, WithLocation

\* A function that is new gets the next id, and is announced after its file.
LEMMA RecordMethodKeeps ==
    ASSUME NEW st0 \in OKTables, NEW n, NEW addrs, NEW methods, NEW files, NEW locations, NEW ms,
           NEW st, st = Table(n, addrs, methods, files, locations, ms), Reached(st0, st),
           NEW name \in Names, NEW fileId, fileId \in Nat,
           fileId = 0 \/ \E f \in DOMAIN files : files[f] = fileId
    PROVE  \E n1, methods1, ms1 :
              /\ WithMethod(st, name, fileId) = Table(n1, addrs, methods1, files, locations, ms1)
              /\ Reached(st0, WithMethod(st, name, fileId))
              /\ name \in DOMAIN methods1
              /\ \A m \in DOMAIN methods : m \in DOMAIN methods1 /\ methods1[m] = methods[m]
  <1>1. /\ st.nextId = n /\ st.addrs = addrs /\ st.methods = methods /\ st.files = files
        /\ st.locations = locations /\ st.told = ms
    BY TableHas
  <1>2. CASE name \in DOMAIN methods
    <2>1. WithMethod(st, name, fileId) = st
      BY <1>1, <1>2 DEF WithMethod
    <2>2. QED
      BY <1>2, <2>1
  <1>3. CASE name \notin DOMAIN methods
    <2>1. PICK msg : msg = [kind |-> "method", id |-> n, name |-> name, moduleId |-> fileId]
      OBVIOUS
    <2>2. PICK methods1 : methods1 = Known(methods, name, n)
      OBVIOUS
    <2>3. PICK ms1 : ms1 = Append(ms, msg)
      OBVIOUS
    <2>4. PICK new : new = WithMethod(st, name, fileId)
      OBVIOUS
    <2>5. /\ st \in OKTables
          /\ st0.nextId <= n
          /\ \A m \in DOMAIN st0.methods : m \in DOMAIN methods /\ methods[m] = st0.methods[m]
          /\ NewIds(st0.nextId, n, ms) /\ MethodsAnnounced(st0.methods, methods, ms)
          /\ FilesAnnounced(st0.files, files, ms) /\ FilesFirst(st0.files, ms)
      BY ReachedHas
    <2>6. /\ n \in Nat \ {0} /\ addrs \in Partial(Addresses, Seq(Location))
          /\ methods \in Partial(Names, Nat) /\ files \in Partial(Names, Nat)
          /\ locations \in Seq(Location) /\ ms \in Seq(Message)
          /\ IdsBelow(methods, n) /\ IdsBelow(files, n) /\ AddrsLocated(addrs, methods)
      BY <2>5, TableHas
    <2>7. /\ msg \in Message /\ msg.kind = "method" /\ msg.id = n
          /\ msg.name = name /\ msg.moduleId = fileId
          /\ n \in Nat /\ n + 1 \in Nat \ {0} /\ st0.nextId \in Nat
      BY <2>1, <2>6 DEF Message, OKTables, TableRecord
    <2>8. /\ methods1 \in Partial(Names, Nat) /\ DOMAIN methods1 = DOMAIN methods \cup {name}
          /\ methods1[name] = n /\ \A m \in DOMAIN methods : methods1[m] = methods[m]
      <3>1. methods1 \in Partial(Names, Nat) /\ Extended(methods, methods1, name, n)
        BY <2>2, <2>6, <2>7, KnownKeeps
      <3>2. QED
        BY <1>3, <3>1 DEF Extended
    <2>9. /\ ms1 \in Seq(Message) /\ NewIds(st0.nextId, n + 1, ms1)
      BY <2>3, <2>5, <2>6, <2>7, OneMore
    <2>10. /\ MethodsAnnounced(st0.methods, methods1, ms1)
           /\ FilesAnnounced(st0.files, files, ms1) /\ FilesFirst(st0.files, ms1)
      <3>1. PICK n0 \in Nat : n0 = st0.nextId
        BY <2>7
      <3>2. PICK methods0, files0 : methods0 = st0.methods /\ files0 = st0.files
        OBVIOUS
      <3>3. /\ ms \in Seq(Message) /\ n \in Nat /\ n0 <= n /\ NewIds(n0, n, ms)
            /\ IdsBelow(methods, n)
        BY <2>5, <2>6, <2>7, <3>1
      <3>4. AllAnnounced(methods0, methods, files0, files, ms)
        BY <2>5, <3>2 DEF AllAnnounced
      <3>5. WithName(methods, methods1, name, n)
        BY <2>8 DEF WithName
      <3>6. msg \in Message /\ TellsMethod(msg, n, name, files)
        BY <2>7 DEF TellsMethod
      <3>7. AllAnnounced(methods0, methods1, files0, files, Append(ms, msg))
        BY <3>3, <3>4, <3>5, <3>6, AnnounceMethod
      <3>8. QED
        BY <2>3, <3>2, <3>7 DEF AllAnnounced
    <2>11. IdsBelow(methods1, n + 1) /\ IdsBelow(files, n + 1)
      BY <2>6, <2>7, <2>8, PartialHas DEF IdsBelow
    <2>12. new = Table(n + 1, addrs, methods1, files, locations, ms1)
      BY <1>1, <1>3, <2>1, <2>2, <2>3, <2>4 DEF WithMethod, Table
    <2>13. AddrsLocated(addrs, methods1)
      BY <2>6, <2>8, LocatedKept DEF AddrsLocated
    <2>14. new \in OKTables
      BY <2>6, <2>7, <2>8, <2>9, <2>11, <2>12, <2>13, TableHas
    <2>15. /\ st0.nextId <= n + 1
           /\ \A m \in DOMAIN st0.methods : m \in DOMAIN methods1 /\ methods1[m] = st0.methods[m]
      BY <2>5, <2>7, <2>8
    <2>16. Reached(st0, new)
      BY <2>9, <2>10, <2>12, <2>14, <2>15, ReachedHas
    <2>17. QED
      BY <2>4, <2>8, <2>12, <2>16
  <1>4. QED
    BY <1>2, <1>3

\* The location is added.
LEMMA LocationKeeps ==
    ASSUME NEW st0 \in OKTables, NEW n, NEW addrs, NEW methods, NEW files, NEW locations, NEW ms,
           NEW st, st = Table(n, addrs, methods, files, locations, ms), Reached(st0, st),
           NEW pc \in Addresses, NEW k \in Nat, NEW name \in Names, name = NameOf(pc, k + 1),
           name \in DOMAIN methods
    PROVE  \E locations1 :
              /\ WithLocation(st, name) = Table(n, addrs, methods, files, locations1, ms)
              /\ Reached(st0, WithLocation(st, name))
              /\ Located(locations, pc, k, methods) => Located(locations1, pc, k + 1, methods)
  <1>1. /\ st.nextId = n /\ st.addrs = addrs /\ st.methods = methods /\ st.files = files
        /\ st.locations = locations /\ st.told = ms
    BY TableHas
  <1>2. PICK location : location = [methodId |-> methods[name], functionName |-> name]
    OBVIOUS
  <1>3. PICK locations1 : locations1 = Append(locations, location)
    OBVIOUS
  <1>4. PICK new : new = WithLocation(st, name)
    OBVIOUS
  <1>5. st \in OKTables
    BY DEF Reached
  <1>6. /\ n \in Nat \ {0} /\ addrs \in Partial(Addresses, Seq(Location))
        /\ methods \in Partial(Names, Nat) /\ files \in Partial(Names, Nat)
        /\ locations \in Seq(Location) /\ ms \in Seq(Message)
        /\ IdsBelow(methods, n) /\ IdsBelow(files, n) /\ AddrsLocated(addrs, methods)
    BY <1>5, TableHas
  <1>7. methods[name] \in Nat
    BY <1>6, PartialHas
  <1>8. location \in Location /\ location.methodId = methods[name] /\ location.functionName = name
    BY <1>2, <1>7 DEF Location
  <1>9. locations1 \in Seq(Location)
    BY <1>3, <1>6, <1>8
  <1>10. ASSUME Located(locations, pc, k, methods)
         PROVE  Located(locations1, pc, k + 1, methods)
    <2>1. /\ Len(locations1) = k + 1
          /\ \A i \in 1 .. k : locations1[i] = locations[i]
          /\ locations1[k + 1] = location
      BY <1>3, <1>6, <1>8, <1>10 DEF Located
    <2>2. ASSUME NEW i \in 1 .. k + 1
          PROVE  /\ NameOf(pc, i) \in DOMAIN methods /\ locations1[i].methodId = methods[NameOf(pc, i)]
                 /\ locations1[i].functionName = NameOf(pc, i)
      <3>1. CASE i \in 1 .. k
        BY <1>10, <2>1, <3>1 DEF Located
      <3>2. CASE i = k + 1
        BY <1>8, <2>1, <3>2
      <3>3. QED
        BY <3>1, <3>2
    <2>3. QED
      BY <1>9, <2>1, <2>2 DEF Located
  <1>11. new = Table(n, addrs, methods, files, locations1, ms)
    BY <1>1, <1>2, <1>3, <1>4 DEF WithLocation, Table
  <1>12. new \in OKTables
    BY <1>6, <1>9, <1>11, TableHas
  <1>13. Reached(st0, new)
    <2>1. /\ st0.nextId <= n
          /\ \A m \in DOMAIN st0.methods : m \in DOMAIN methods /\ methods[m] = st0.methods[m]
          /\ NewIds(st0.nextId, n, ms) /\ MethodsAnnounced(st0.methods, methods, ms)
          /\ FilesAnnounced(st0.files, files, ms) /\ FilesFirst(st0.files, ms)
      BY ReachedHas
    <2>2. QED
      BY <1>11, <1>12, <2>1, ReachedHas
  <1>14. QED
    BY <1>4, <1>10, <1>11, <1>13

\* One callback: the tables go on, and there is one more location.
LEMMA HandleKeeps ==
    ASSUME NEW st0 \in OKTables, NEW st, Reached(st0, st), NEW pc \in Addresses,
           NEW k \in Nat, k + 1 \in DOMAIN Pcinfo[pc],
           NEW new, new = handlePcInfo(st, pc, SymbolOf(pc), Pcinfo[pc][k + 1])
    PROVE  /\ Reached(st0, new) /\ new.addrs = st.addrs
           /\ Located(st.locations, pc, k, st.methods) => Located(new.locations, pc, k + 1, new.methods)
  <1>1. PICK file : file = FileOf(pc, k + 1)
    OBVIOUS
  <1>2. PICK name : name = NameOf(pc, k + 1)
    OBVIOUS
  <1>3. file \in Names /\ name \in Names
    BY <1>1, <1>2, NamesHave
  <1>4. PICK st1 : st1 = WithFile(st, file)
    OBVIOUS
  <1>5. PICK fileId : fileId = FileId(st1, file)
    OBVIOUS
  <1>6. PICK st2 : st2 = WithMethod(st1, name, fileId)
    OBVIOUS
  <1>7. new = WithLocation(st2, name)
    <2>1. file = FileName(pc, Pcinfo[pc][k + 1]) /\ name = FunctionName(pc, SymbolOf(pc), Pcinfo[pc][k + 1])
      BY <1>1, <1>2 DEF FileOf, NameOf
    <2>2. QED
      BY <1>4, <1>5, <1>6, <2>1, HandleParts
  <1>8. PICK n, addrs, methods, files, locations, ms : st = Table(n, addrs, methods, files, locations, ms)
    BY TableIs DEF Reached
  <1>9. st.addrs = addrs /\ st.methods = methods /\ st.locations = locations
    BY <1>8, TableHas
  <1>10. PICK n1, files1, ms1 :
            /\ st1 = Table(n1, addrs, methods, files1, locations, ms1)
            /\ Reached(st0, st1)
            /\ file = NoName \/ file \in DOMAIN files1
    <2>1. CASE file = NoName
      BY <1>4, <1>8, <2>1 DEF WithFile
    <2>2. CASE file # NoName
      BY <1>3, <1>4, <1>8, <2>2, RecordFileKeeps DEF WithFile
    <2>3. QED
      BY <2>1, <2>2
  <1>11. fileId \in Nat /\ (fileId = 0 \/ \E f \in DOMAIN files1 : files1[f] = fileId)
    <2>1. st1.files = files1 /\ files1 \in Partial(Names, Nat)
      BY <1>10, TableHas DEF Reached
    <2>2. \A f \in DOMAIN files1 : files1[f] \in Nat
      BY <2>1, PartialHas
    <2>3. QED
      BY <1>5, <1>10, <2>1, <2>2 DEF FileId
  <1>12. PICK n2, methods2, ms2 :
            /\ st2 = Table(n2, addrs, methods2, files1, locations, ms2)
            /\ Reached(st0, st2)
            /\ name \in DOMAIN methods2
            /\ \A m \in DOMAIN methods : m \in DOMAIN methods2 /\ methods2[m] = methods[m]
    BY <1>3, <1>6, <1>10, <1>11, RecordMethodKeeps
  <1>13. PICK locations3 :
            /\ new = Table(n2, addrs, methods2, files1, locations3, ms2)
            /\ Reached(st0, new)
            /\ Located(locations, pc, k, methods2) => Located(locations3, pc, k + 1, methods2)
    BY <1>2, <1>3, <1>7, <1>12, LocationKeeps
  <1>14. new.addrs = addrs /\ new.methods = methods2 /\ new.locations = locations3
    BY <1>13, TableHas
  <1>15. Located(locations, pc, k, methods) => Located(locations, pc, k, methods2)
    BY <1>12, LocatedKept
  <1>16. QED
    BY <1>9, <1>13, <1>14, <1>15

\* The callbacks of a lookup that finds nothing in the table.
LEMMA LookupCalls ==
    ASSUME NEW st, NEW pc, NEW isForeign, pc \notin DOMAIN st.addrs,
           NEW x0, x0 = [st EXCEPT !.locations = << >>],
           NEW symbol, symbol = handleSyminfo(pc, isForeign),
           NEW found, found = Callbacks(x0, pc, symbol, Pcinfo[pc])
    PROVE  lookup_locations(st, pc, isForeign) =
               [found EXCEPT !.addrs = Known(found.addrs, pc, found.locations)]
  <1>1. lookup_locations(st, pc, isForeign) =
            LET made == Callbacks([st EXCEPT !.locations = << >>], pc, handleSyminfo(pc, isForeign),
                                  Pcinfo[pc])
            IN  [made EXCEPT !.addrs = Known(@, pc, made.locations)]
    BY DEF lookup_locations, Callbacks
  <1>2. QED
    BY <1>1

\* Other locations, or the locations of one more address, change nothing else.
Replaced(st, addrs, locations) == [st EXCEPT !.addrs = addrs, !.locations = locations]

LEMMA OtherLocations ==
    ASSUME NEW st0 \in OKTables, NEW st, Reached(st0, st),
           NEW locations1, locations1 \in Seq(Location),
           NEW addrs1, addrs1 \in Partial(Addresses, Seq(Location)), AddrsLocated(addrs1, st.methods),
           NEW new, new = Replaced(st, addrs1, locations1)
    PROVE  /\ Reached(st0, new) /\ new.addrs = addrs1 /\ new.locations = locations1
           /\ new.methods = st.methods
  <1>1. PICK n, addrs, methods, files, locations, ms : st = Table(n, addrs, methods, files, locations, ms)
    BY TableIs DEF Reached
  <1>2. /\ st \in OKTables
        /\ st0.nextId <= n
        /\ \A m \in DOMAIN st0.methods : m \in DOMAIN methods /\ methods[m] = st0.methods[m]
        /\ NewIds(st0.nextId, n, ms) /\ MethodsAnnounced(st0.methods, methods, ms)
        /\ FilesAnnounced(st0.files, files, ms) /\ FilesFirst(st0.files, ms)
    BY <1>1, ReachedHas
  <1>3. /\ n \in Nat \ {0} /\ methods \in Partial(Names, Nat) /\ files \in Partial(Names, Nat)
        /\ ms \in Seq(Message) /\ IdsBelow(methods, n) /\ IdsBelow(files, n)
        /\ st.methods = methods
    BY <1>1, <1>2, TableHas
  <1>4. new = Table(n, addrs1, methods, files, locations1, ms)
    BY <1>1 DEF Table, Replaced
  <1>5. new \in OKTables
    BY <1>3, <1>4, TableHas
  <1>6. Reached(st0, new)
    BY <1>2, <1>4, <1>5, ReachedHas
  <1>7. QED
    BY <1>3, <1>4, <1>6, TableHas

LEMMA PcinfoSeq ==
    ASSUME NEW pc \in Addresses
    PROVE  Len(Pcinfo[pc]) \in Nat /\ DOMAIN Pcinfo[pc] = 1 .. Len(Pcinfo[pc])
  BY PcinfoAssumption DEF Addresses

\* A lookup: the address has its locations, the others keep theirs.
LEMMA LookupKeeps ==
    ASSUME NEW st0 \in OKTables, NEW st, Reached(st0, st), NEW pc \in Addresses,
           NEW isForeign, handleSyminfo(pc, isForeign) = SymbolOf(pc),
           NEW new, new = lookup_locations(st, pc, isForeign)
    PROVE  /\ Reached(st0, new)
           /\ DOMAIN new.addrs = DOMAIN st.addrs \cup {pc}
           /\ Located(new.locations, pc, Len(Pcinfo[pc]), new.methods)
  <1>1. /\ st.addrs \in Partial(Addresses, Seq(Location)) /\ AddrsLocated(st.addrs, st.methods)
        /\ st.locations \in Seq(Location) /\ st \in TableRecord
    BY DEF Reached, OKTables, TableRecord
  <1>2. CASE pc \in DOMAIN st.addrs
    <2>1. PICK locations1 : locations1 = st.addrs[pc]
      OBVIOUS
    <2>2. Located(locations1, pc, Len(Pcinfo[pc]), st.methods) /\ locations1 \in Seq(Location)
      BY <1>1, <1>2, <2>1 DEF AddrsLocated, Located
    <2>3. new = Replaced(st, st.addrs, locations1)
      <3>1. new = [st EXCEPT !.locations = locations1]
        BY <1>2, <2>1 DEF lookup_locations
      <3>2. QED
        BY <1>1, <3>1 DEF TableRecord, Replaced
    <2>4. /\ Reached(st0, new) /\ new.addrs = st.addrs /\ new.locations = locations1
          /\ new.methods = st.methods
      BY <1>1, <2>2, <2>3, OtherLocations
    <2>5. QED
      BY <1>2, <2>2, <2>4
  <1>3. CASE pc \notin DOMAIN st.addrs
    <2>1. PICK n \in Nat : n = Len(Pcinfo[pc]) /\ DOMAIN Pcinfo[pc] = 1 .. n
      BY PcinfoSeq
    <2>2. PICK x0 : x0 = [st EXCEPT !.locations = << >>]
      OBVIOUS
    <2>3. /\ Reached(st0, x0) /\ x0.addrs = st.addrs /\ x0.locations = << >>
      <3>1. x0 = Replaced(st, st.addrs, << >>)
        BY <1>1, <2>2 DEF TableRecord, Replaced
      <3>2. PICK none : none = << >>
        OBVIOUS
      <3>3. none \in Seq(Location) /\ x0 = Replaced(st, st.addrs, none)
        BY <3>1, <3>2
      <3>4. Reached(st0, x0) /\ x0.addrs = st.addrs /\ x0.locations = none
        BY <1>1, <3>3, OtherLocations
      <3>5. QED
        BY <3>2, <3>4
    <2> DEFINE D == {s \in OKTables : Reached(st0, s)}
    <2>4. PICK symbol, infos : symbol = SymbolOf(pc) /\ infos = Pcinfo[pc]
      OBVIOUS
    <2>5. x0 \in D
      BY <2>3 DEF Reached
    <2>6. ASSUME NEW s \in D, NEW k \in 1 .. n
          PROVE  handlePcInfo(s, pc, symbol, infos[k]) \in D
      <3>1. PICK j \in Nat : k = j + 1
        <4>1. k - 1 \in Nat /\ k = (k - 1) + 1
          BY <2>1
        <4>2. QED
          BY <4>1
      <3>2. PICK s1 : s1 = handlePcInfo(s, pc, symbol, infos[k])
        OBVIOUS
      <3>3. j + 1 \in DOMAIN Pcinfo[pc] /\ s1 = handlePcInfo(s, pc, SymbolOf(pc), Pcinfo[pc][j + 1])
        BY <2>1, <2>4, <3>1, <3>2
      <3>4. Reached(st0, s1)
        BY <3>1, <3>3, HandleKeeps
      <3>5. QED
        BY <3>2, <3>4 DEF Reached
    <2> HIDE DEF D
    <2>7. PICK found : found = Callbacks(x0, pc, symbol, infos)
      OBVIOUS
    <2>8. PICK acc \in [0 .. n -> D] :
              /\ acc[0] = x0 /\ acc[n] = found
              /\ \A k \in 0 .. n - 1 : acc[k + 1] = handlePcInfo(acc[k], pc, symbol, infos[k + 1])
      <3>1. DOMAIN infos = 1 .. n
        BY <2>1, <2>4
      <3>2. InTurn(D, x0, pc, symbol, infos, n, found)
        BY <2>5, <2>6, <2>7, <3>1, CallbacksInTurn
      <3>3. QED
        BY <3>2 DEF InTurn
    <2> DEFINE T == {k \in Nat : k <= n => /\ acc[k].addrs = st.addrs
                                         /\ Located(acc[k].locations, pc, k, acc[k].methods)}
    <2>9. 0 \in T
      <3>1. acc[0].addrs = st.addrs /\ acc[0].locations = << >>
        BY <2>3, <2>8
      <3>2. Located(<< >>, pc, 0, acc[0].methods)
        <4>1. << >> \in Seq(Location) /\ Len(<< >>) = 0 /\ 1 .. 0 = {}
          OBVIOUS
        <4>2. QED
          BY <4>1 DEF Located
      <3>3. QED
        BY <3>1, <3>2
    <2>10. ASSUME NEW k \in Nat, k \in T
           PROVE  k + 1 \in T
      <3> SUFFICES ASSUME k + 1 <= n
                   PROVE  /\ acc[k + 1].addrs = st.addrs
                          /\ Located(acc[k + 1].locations, pc, k + 1, acc[k + 1].methods)
        OBVIOUS
      <3>1. k \in 0 .. n - 1 /\ k + 1 \in 1 .. n /\ k \in 0 .. n /\ k <= n
        BY <2>1
      <3>2. PICK s, s1 : s = acc[k] /\ s1 = acc[k + 1]
        OBVIOUS
      <3>3. s \in D /\ s.addrs = st.addrs /\ Located(s.locations, pc, k, s.methods)
        BY <2>8, <2>10, <3>1, <3>2
      <3>4. s1 = handlePcInfo(s, pc, SymbolOf(pc), Pcinfo[pc][k + 1]) /\ k + 1 \in DOMAIN Pcinfo[pc]
        BY <2>1, <2>4, <2>8, <3>1, <3>2
      <3>5. Reached(st0, s)
        BY <3>3 DEF D
      <3>6. s1.addrs = s.addrs /\ Located(s1.locations, pc, k + 1, s1.methods)
        BY <3>3, <3>4, <3>5, HandleKeeps
      <3>7. QED
        BY <3>2, <3>3, <3>6
    <2> HIDE DEF T
    <2>11. n \in T
      BY <2>9, <2>10, SetInduction
    <2>12. /\ Reached(st0, found) /\ found.addrs = st.addrs
           /\ Located(found.locations, pc, n, found.methods)
      <3>1. found \in D
        BY <2>8
      <3>2. QED
        BY <2>8, <2>11, <3>1 DEF D, T
    <2>13. PICK addrs1 : addrs1 = Known(st.addrs, pc, found.locations)
      OBVIOUS
    <2>14. new = [found EXCEPT !.addrs = addrs1]
      <3>1. symbol = handleSyminfo(pc, isForeign) /\ found = Callbacks(x0, pc, symbol, Pcinfo[pc])
        BY <2>4, <2>7
      <3>2. lookup_locations(st, pc, isForeign) =
                [found EXCEPT !.addrs = Known(found.addrs, pc, found.locations)]
        BY <1>3, <2>2, <3>1, LookupCalls
      <3>3. QED
        BY <2>12, <2>13, <3>2
    <2>15. new = Replaced(found, addrs1, found.locations)
      BY <2>12, <2>14 DEF Reached, OKTables, TableRecord, Replaced
    <2>16. found.locations \in Seq(Location)
      BY <2>12 DEF Located
    <2>17. /\ addrs1 \in Partial(Addresses, Seq(Location)) /\ DOMAIN addrs1 = DOMAIN st.addrs \cup {pc}
           /\ addrs1[pc] = found.locations
           /\ \A x \in DOMAIN st.addrs : x # pc => addrs1[x] = st.addrs[x]
      <3>1. addrs1 \in Partial(Addresses, Seq(Location)) /\ Extended(st.addrs, addrs1, pc, found.locations)
        BY <1>1, <2>13, <2>16, KnownKeeps
      <3>2. QED
        BY <3>1 DEF Extended
    <2>18. AddrsLocated(addrs1, found.methods)
      <3>1. AddrsLocated(st.addrs, found.methods)
        BY <2>12 DEF Reached, OKTables
      <3>2. QED
        BY <1>3, <2>1, <2>12, <2>17, <3>1 DEF AddrsLocated
    <2>19. /\ Reached(st0, new) /\ new.addrs = addrs1 /\ new.locations = found.locations
           /\ new.methods = found.methods
      BY <2>12, <2>15, <2>16, <2>17, <2>18, OtherLocations
    <2>20. QED
      BY <2>1, <2>12, <2>17, <2>19
  <1>4. QED
    BY <1>2, <1>3

-----------------------------------------------------------------------------
(* What the collector knows in a session *)

\* kn is what it has been told, lo the ids that were lost, ms the messages
\* that are to be sent.  The names in the tables are known, lost or about to
\* be sent, each under its own id, and a file before its functions.
SentId(kn, lo, id) == id \in DOMAIN kn \/ id \in lo
IdsUsed(n, kn, ms) ==
    /\ \A id \in DOMAIN kn : id < n
    /\ \A j \in 1 .. Len(ms) : ms[j].id < n
MethodsCovered(methods, kn, lo, ms) ==
    \A m \in DOMAIN methods :
        /\ SentId(kn, lo, methods[m]) \/ Has(ms, methods[m])
        /\ methods[m] \in DOMAIN kn =>
              kn[methods[m]].kind = "method" /\ kn[methods[m]].name = m
        /\ \A j \in 1 .. Len(ms) :
              ms[j].id = methods[m] => ms[j].kind = "method" /\ ms[j].name = m
FilesCovered(files, kn, lo, ms) ==
    \A f \in DOMAIN files : SentId(kn, lo, files[f]) \/ Has(ms, files[f])
FilesBefore(kn, lo, ms) ==
    \A j \in 1 .. Len(ms) :
        ms[j].kind = "method" /\ ms[j].moduleId # 0 =>
            \/ SentId(kn, lo, ms[j].moduleId)
            \/ \E i \in 1 .. j - 1 : ms[i].id = ms[j].moduleId
FilesKnown(kn, lo) ==
    \A id \in DOMAIN kn :
        kn[id].kind = "method" /\ kn[id].moduleId # 0 => SentId(kn, lo, kn[id].moduleId)
SessionOK(n, methods, files, kn, lo, ms) ==
    /\ IdsUsed(n, kn, ms) /\ MethodsCovered(methods, kn, lo, ms)
    /\ FilesCovered(files, kn, lo, ms) /\ FilesBefore(kn, lo, ms) /\ FilesKnown(kn, lo)

LEMMA SessionStarts ==
    ASSUME NEW n, NEW methods, NEW files, NEW kn, NEW ms,
           DOMAIN methods = {}, DOMAIN files = {}, DOMAIN kn = {}, Len(ms) = 0
    PROVE  SessionOK(n, methods, files, kn, {}, ms)
  <1>1. 1 .. Len(ms) = {}
    OBVIOUS
  <1>2. QED
    BY <1>1 DEF SessionOK, IdsUsed, MethodsCovered, FilesCovered, FilesBefore, FilesKnown

\* A lookup adds to the tables what its messages announce.
LEMMA LookupCovered ==
    ASSUME NEW n0 \in Nat, NEW methods0, NEW files0, NEW kn, NEW lo, NEW ms0, Len(ms0) = 0,
           SessionOK(n0, methods0, files0, kn, lo, ms0), DOMAIN kn \subseteq Nat,
           NEW n \in Nat, NEW methods, NEW files, NEW ms \in Seq(Message), n0 <= n,
           \A m \in DOMAIN methods0 : m \in DOMAIN methods /\ methods[m] = methods0[m],
           \A m \in DOMAIN methods : methods[m] \in Nat,
           NewIds(n0, n, ms), MethodsAnnounced(methods0, methods, ms),
           FilesAnnounced(files0, files, ms), FilesFirst(files0, ms)
    PROVE  SessionOK(n, methods, files, kn, lo, ms)
  <1>1. 1 .. Len(ms0) = {}
    OBVIOUS
  <1>2. \A id : ~Has(ms0, id)
    BY <1>1 DEF Has
  <1>3. \A id \in DOMAIN kn : id \in Nat /\ id < n0
    BY DEF SessionOK, IdsUsed
  <1>4. IdsUsed(n, kn, ms)
    BY <1>3 DEF IdsUsed, NewIds
  <1>5. MethodsCovered(methods, kn, lo, ms)
    <2> SUFFICES ASSUME NEW m \in DOMAIN methods
                 PROVE  /\ SentId(kn, lo, methods[m]) \/ Has(ms, methods[m])
                        /\ methods[m] \in DOMAIN kn =>
                              kn[methods[m]].kind = "method" /\ kn[methods[m]].name = m
                        /\ \A j \in 1 .. Len(ms) :
                              ms[j].id = methods[m] => ms[j].kind = "method" /\ ms[j].name = m
      BY DEF MethodsCovered
    <2>1. \A j \in 1 .. Len(ms) :
              ms[j].id = methods[m] => ms[j].kind = "method" /\ ms[j].name = m
      BY DEF MethodsAnnounced
    <2>2. CASE m \in DOMAIN methods0
      <3>1. methods[m] = methods0[m]
        BY <2>2
      <3>2. /\ SentId(kn, lo, methods0[m])
            /\ methods0[m] \in DOMAIN kn =>
                  kn[methods0[m]].kind = "method" /\ kn[methods0[m]].name = m
        BY <1>2, <2>2 DEF SessionOK, MethodsCovered
      <3>3. QED
        BY <2>1, <3>1, <3>2
    <2>3. CASE m \notin DOMAIN methods0
      <3>1. Has(ms, methods[m])
        BY <2>3 DEF MethodsAnnounced
      <3>2. methods[m] \notin DOMAIN kn
        <4>1. PICK j \in 1 .. Len(ms) : ms[j].id = methods[m]
          BY <3>1 DEF Has
        <4>2. n0 <= methods[m]
          BY <4>1 DEF NewIds
        <4>3. methods[m] \in Nat
          OBVIOUS
        <4>4. \A id \in Nat : id < n0 => ~(n0 <= id)
          OBVIOUS
        <4>5. QED
          BY <1>3, <4>2, <4>3, <4>4
      <3>3. QED
        BY <2>1, <3>1, <3>2
    <2>4. QED
      BY <2>2, <2>3
  <1>6. FilesCovered(files, kn, lo, ms)
    BY <1>2 DEF SessionOK, FilesCovered, FilesAnnounced
  <1>7. FilesBefore(kn, lo, ms)
    <2>1. \A f \in DOMAIN files0 : SentId(kn, lo, files0[f])
      BY <1>2 DEF SessionOK, FilesCovered
    <2>2. QED
      BY <2>1 DEF FilesFirst, FilesBefore
  <1>8. QED
    BY <1>4, <1>5, <1>6, <1>7 DEF SessionOK

\* The first message is sent: the collector has it, or it is lost.
LEMMA SentCovered ==
    ASSUME NEW n \in Nat, NEW methods, NEW files, NEW kn, NEW lo, NEW ms \in Seq(Message), ms # << >>,
           SessionOK(n, methods, files, kn, lo, ms),
           NEW kn1, NEW lo1,
           \/ kn1 = Known(kn, Head(ms).id, Head(ms)) /\ lo1 = lo
           \/ kn1 = kn /\ lo1 = lo \cup {Head(ms).id}
    PROVE  SessionOK(n, methods, files, kn1, lo1, Tail(ms))
  <1>1. PICK l \in Nat : l = Len(ms)
    OBVIOUS
  <1>2. PICK h : h = Head(ms)
    OBVIOUS
  <1>3. PICK ms1 : ms1 = Tail(ms)
    OBVIOUS
  <1>4. /\ l > 0 /\ h = ms[1] /\ Len(ms1) = l - 1
        /\ \A j \in 1 .. l - 1 : ms1[j] = ms[j + 1]
    BY <1>1, <1>2, <1>3
  <1>5. /\ 1 \in 1 .. l /\ \A j \in 1 .. l - 1 : j + 1 \in 1 .. l /\ j \in Nat
        /\ \A j \in 1 .. l : j = 1 \/ (j - 1 \in 1 .. l - 1 /\ (j - 1) + 1 = j)
    BY <1>4
  <1>6. \A id : SentId(kn1, lo1, id) <=> SentId(kn, lo, id) \/ id = h.id
    BY <1>2 DEF SentId, Known
  <1>7. \A id \in DOMAIN kn1 : \/ id = h.id /\ kn1[id] = h
                               \/ id \in DOMAIN kn /\ kn1[id] = kn[id]
    BY <1>2 DEF Known
  <1>8. \A id : Has(ms, id) => id = h.id \/ Has(ms1, id)
    <2> SUFFICES ASSUME NEW id, Has(ms, id), id # h.id
                 PROVE  Has(ms1, id)
      OBVIOUS
    <2>1. PICK j \in 1 .. l : ms[j].id = id
      BY <1>1 DEF Has
    <2>2. j - 1 \in 1 .. l - 1 /\ (j - 1) + 1 = j
      BY <1>4, <1>5, <2>1
    <2>3. PICK i \in 1 .. l - 1 : j = i + 1
      BY <2>2
    <2>4. ms1[i].id = id
      BY <1>4, <2>1, <2>3
    <2>5. QED
      BY <1>4, <2>4 DEF Has
  <1> HIDE <1>2, <1>3
  <1>9. IdsUsed(n, kn1, ms1)
    BY <1>1, <1>4, <1>5, <1>7 DEF SessionOK, IdsUsed
  <1>10. MethodsCovered(methods, kn1, lo1, ms1)
    <2> SUFFICES ASSUME NEW m \in DOMAIN methods, NEW id, id = methods[m]
                 PROVE  /\ SentId(kn1, lo1, id) \/ Has(ms1, id)
                        /\ id \in DOMAIN kn1 => kn1[id].kind = "method" /\ kn1[id].name = m
                        /\ \A j \in 1 .. l - 1 :
                              ms1[j].id = id => ms1[j].kind = "method" /\ ms1[j].name = m
      BY <1>4 DEF MethodsCovered
    <2>1. /\ SentId(kn, lo, id) \/ Has(ms, id)
          /\ id \in DOMAIN kn => kn[id].kind = "method" /\ kn[id].name = m
          /\ \A j \in 1 .. l : ms[j].id = id => ms[j].kind = "method" /\ ms[j].name = m
      BY <1>1 DEF SessionOK, MethodsCovered
    <2>2. SentId(kn1, lo1, id) \/ Has(ms1, id)
      BY <1>6, <1>8, <2>1
    <2>3. id \in DOMAIN kn1 => kn1[id].kind = "method" /\ kn1[id].name = m
      BY <1>4, <1>5, <1>7, <2>1
    <2>4. \A j \in 1 .. l - 1 : ms1[j].id = id => ms1[j].kind = "method" /\ ms1[j].name = m
      BY <1>4, <1>5, <2>1
    <2>5. QED
      BY <2>2, <2>3, <2>4
  <1>11. FilesCovered(files, kn1, lo1, ms1)
    BY <1>6, <1>8 DEF SessionOK, FilesCovered
  <1>12. FilesBefore(kn1, lo1, ms1)
    <2> SUFFICES ASSUME NEW j \in 1 .. l - 1, ms1[j].kind = "method", ms1[j].moduleId # 0
                 PROVE  \/ SentId(kn1, lo1, ms1[j].moduleId)
                        \/ \E i \in 1 .. j - 1 : ms1[i].id = ms1[j].moduleId
      BY <1>4 DEF FilesBefore
    <2>1. PICK k \in 1 .. l : k = j + 1 /\ ms1[j] = ms[k]
      BY <1>4, <1>5
    <2>2. \/ SentId(kn, lo, ms[k].moduleId)
          \/ \E i \in 1 .. k - 1 : ms[i].id = ms[k].moduleId
      BY <1>1, <2>1 DEF SessionOK, FilesBefore
    <2>3. CASE SentId(kn, lo, ms[k].moduleId)
      BY <1>6, <2>1, <2>3
    <2>4. ASSUME NEW i \in 1 .. k - 1, ms[i].id = ms[k].moduleId
          PROVE  \/ SentId(kn1, lo1, ms1[j].moduleId)
                 \/ \E q \in 1 .. j - 1 : ms1[q].id = ms1[j].moduleId
      <3>1. CASE i = 1
        BY <1>4, <1>6, <2>1, <2>4, <3>1
      <3>2. CASE i # 1
        <4>1. i - 1 \in 1 .. j - 1 /\ i - 1 \in 1 .. l - 1 /\ (i - 1) + 1 = i
          BY <2>1, <3>2
        <4>2. PICK q : q = i - 1
          OBVIOUS
        <4>3. q \in 1 .. j - 1 /\ ms1[q] = ms[i]
          BY <1>4, <4>1, <4>2
        <4>4. QED
          BY <2>1, <2>4, <4>3
      <3>3. QED
        BY <3>1, <3>2
    <2>5. QED
      BY <2>2, <2>3, <2>4
  <1>13. FilesKnown(kn1, lo1)
    <2> SUFFICES ASSUME NEW id \in DOMAIN kn1, kn1[id].kind = "method", kn1[id].moduleId # 0
                 PROVE  SentId(kn1, lo1, kn1[id].moduleId)
      BY DEF FilesKnown
    <2>1. CASE id \in DOMAIN kn /\ kn1[id] = kn[id]
      BY <1>6, <2>1 DEF SessionOK, FilesKnown
    <2>2. CASE kn1[id] = h
      <3>1. \/ SentId(kn, lo, h.moduleId)
            \/ \E i \in 1 .. 1 - 1 : ms[i].id = h.moduleId
        BY <1>1, <1>4, <1>5, <2>2 DEF SessionOK, FilesBefore
      <3>2. 1 .. 1 - 1 = {}
        OBVIOUS
      <3>3. QED
        BY <1>6, <2>2, <3>1, <3>2
    <2>3. QED
      BY <1>7, <2>1, <2>2
  <1>14. SessionOK(n, methods, files, kn1, lo1, ms1)
    BY <1>9, <1>10, <1>11, <1>12, <1>13 DEF SessionOK
  <1>15. QED
    BY <1>3, <1>14

-----------------------------------------------------------------------------
(* The writer's invariant *)

\* The tables agree, whatever the mode.
TablesInv == Tables \in OKTables

\* Messages are there while they are sent, and the frames looked up are not
\* the handler's.
MessagesInv ==
    /\ writer.messages \in Seq(Message)
    /\ writer.at # "names" => writer.messages = << >>
    /\ writer.at \in {"frame", "names"} =>
          writer.index \in Nat /\ writer.index >= NUMBER_OF_SIGNAL_HANDLER_FRAMES

\* Without a session nothing is known; a new one begins with empty tables,
\* between two turns of the loop.
NothingKnown == DOMAIN told = {} /\ lost = {}
HelloInv ==
    /\ ~isConnected => NothingKnown
    /\ state_ = "SENT_HELLO" => /\ writer.at = "loop"
                                /\ DOMAIN knownMethodToIds_ = {} /\ DOMAIN knownFileToIds_ = {}

SessionInv ==
    isConnected =>
        /\ DOMAIN told \subseteq Nat
        /\ SessionOK(nextId_, knownMethodToIds_, knownFileToIds_, told, lost, writer.messages)

WriterInv == TablesInv /\ MessagesInv /\ HelloInv /\ SessionInv

\* The tables as the state has them.
LEMMA TablesAre == Tables = Table(nextId_, knownAddrToLocations_, knownMethodToIds_, knownFileToIds_, << >>, << >>)
  BY DEF Tables, Table

LEMMA NoNames == \A S, T : << >> \in Partial(S, T) /\ DOMAIN << >> = {}
  <1> SUFFICES ASSUME NEW S, NEW T
               PROVE  << >> \in Partial(S, T) /\ DOMAIN << >> = {}
    OBVIOUS
  <1>1. << >> \in [{} -> T] /\ {} \in SUBSET S
    OBVIOUS
  <1>2. QED
    BY <1>1 DEF Partial

LEMMA EmptyTables ==
    ASSUME NEW n \in Nat \ {0}, NEW st, st = Table(n, << >>, << >>, << >>, << >>, << >>)
    PROVE  st \in OKTables
  <1>1. PICK none : none = << >>
    OBVIOUS
  <1>2. /\ none \in Partial(Addresses, Seq(Location)) /\ none \in Partial(Names, Nat)
        /\ DOMAIN none = {} /\ none \in Seq(Location) /\ none \in Seq(Message)
    BY <1>1, NoNames
  <1>3. IdsBelow(none, n) /\ AddrsLocated(none, none)
    BY <1>2 DEF IdsBelow, AddrsLocated
  <1>4. /\ st.nextId = n /\ st.addrs = none /\ st.methods = none /\ st.files = none
    BY <1>1, TableHas
  <1>5. st \in TableRecord
    BY <1>1, <1>2 DEF TableRecord, Table
  <1>6. QED
    BY <1>3, <1>4, <1>5 DEF OKTables

LEMMA InitWriterInv == Init => WriterInv
  <1> SUFFICES ASSUME Init PROVE WriterInv
    OBVIOUS
  <1>1. SymbolInit /\ WriterInit /\ state_ \in {"DISCONNECTED", "PROMETHEUS_MODE"}
    BY DEF Init
  <1>2. TablesInv
    <2>1. Tables = Table(1, << >>, << >>, << >>, << >>, << >>)
      BY <1>1, TablesAre DEF SymbolInit
    <2>2. 1 \in Nat \ {0}
      OBVIOUS
    <2>3. QED
      BY <2>1, <2>2, EmptyTables DEF TablesInv
  <1>3. MessagesInv
    <2>1. writer.messages = << >> /\ writer.at = "loop"
      BY <1>1 DEF WriterInit, Loop
    <2>2. << >> \in Seq(Message)
      OBVIOUS
    <2>3. QED
      BY <2>1, <2>2 DEF MessagesInv
  <1>4. HelloInv
    BY <1>1, NoNames DEF HelloInv, NothingKnown, WriterInit
  <1>5. SessionInv
    BY <1>1 DEF SessionInv, isConnected
  <1>6. QED
    BY <1>2, <1>3, <1>4, <1>5 DEF WriterInv

\* A step that sends and looks up nothing, in which the session may end.
LEMMA WriterStays ==
    ASSUME WriterInv, UNCHANGED symbolVars, UNCHANGED sessionVars \/ EndSession,
           writer'.messages = writer.messages,
           writer'.at # "names" => writer.messages = << >>,
           writer'.at \in {"frame", "names"} =>
               writer'.index \in Nat /\ writer'.index >= NUMBER_OF_SIGNAL_HANDLER_FRAMES,
           state_ = "SENT_HELLO" => writer'.at = "loop"
    PROVE  WriterInv'
  <1>1. UNCHANGED <<nextId_, knownAddrToLocations_, knownMethodToIds_, knownFileToIds_>>
    BY DEF symbolVars
  <1>2. TablesInv'
    BY <1>1 DEF WriterInv, TablesInv, Tables
  <1>3. MessagesInv'
    BY DEF WriterInv, MessagesInv
  <1>4. CASE UNCHANGED sessionVars
    <2>1. UNCHANGED <<state_, told, lost>>
      BY <1>4 DEF sessionVars
    <2>2. HelloInv'
      BY <1>1, <2>1 DEF WriterInv, HelloInv, NothingKnown, isConnected
    <2>3. SessionInv'
      BY <1>1, <2>1 DEF WriterInv, SessionInv, isConnected
    <2>4. QED
      BY <1>2, <1>3, <2>2, <2>3 DEF WriterInv
  <1>5. CASE EndSession
    <2>1. state_' = "DISCONNECTED" /\ told' = << >> /\ lost' = {}
      BY <1>5 DEF EndSession
    <2>2. HelloInv'
      BY <2>1, NoNames DEF HelloInv, NothingKnown
    <2>3. SessionInv'
      BY <2>1 DEF SessionInv, isConnected
    <2>4. QED
      BY <1>2, <1>3, <2>2, <2>3 DEF WriterInv
  <1>6. QED
    BY <1>4, <1>5

\* A new session: empty tables, and the ids go on.
LEMMA ConnectKeeps ==
    ASSUME WriterInv, onSocketConnect
    PROVE  WriterInv'
  <1>1. /\ writer.at = "loop" /\ state_ = "DISCONNECTED" /\ state_' = "SENT_HELLO"
        /\ knownAddrToLocations_' = << >> /\ knownMethodToIds_' = << >> /\ knownFileToIds_' = << >>
        /\ UNCHANGED <<nextId_, writer, told, lost>>
    BY DEF onSocketConnect, socketConnectHandler_, onSocketConnected, clear_symbols, writerVars
  <1>2. TablesInv'
    <2>1. nextId_ \in Nat \ {0}
      BY TablesAre, TableHas DEF WriterInv, TablesInv
    <2>2. Tables' = Table(nextId_, << >>, << >>, << >>, << >>, << >>)
      BY <1>1 DEF Tables, Table
    <2>3. QED
      BY <2>1, <2>2, EmptyTables DEF TablesInv
  <1>3. MessagesInv'
    BY <1>1 DEF WriterInv, MessagesInv
  <1>4. HelloInv'
    BY <1>1, NoNames DEF WriterInv, HelloInv, NothingKnown, isConnected
  <1>5. SessionInv'
    BY <1>1 DEF SessionInv, isConnected
  <1>6. QED
    BY <1>2, <1>3, <1>4, <1>5 DEF WriterInv

LEMMA FirstRateKeeps ==
    ASSUME WriterInv, onFirstSampleRate
    PROVE  WriterInv'
  <1>1. /\ state_ = "SENT_HELLO" /\ state_' = "CONNECTED" /\ writer.at = "loop"
        /\ UNCHANGED <<nextId_, knownAddrToLocations_, knownMethodToIds_, knownFileToIds_>>
        /\ UNCHANGED <<writer, told, lost>>
    BY DEF onFirstSampleRate, symbolVars, writerVars
  <1>2. TablesInv' /\ MessagesInv'
    BY <1>1 DEF WriterInv, TablesInv, Tables, MessagesInv
  <1>3. HelloInv'
    BY <1>1 DEF HelloInv, isConnected
  <1>4. SessionInv'
    <2>1. /\ DOMAIN told = {} /\ lost = {}
          /\ DOMAIN knownMethodToIds_ = {} /\ DOMAIN knownFileToIds_ = {}
      BY <1>1 DEF WriterInv, HelloInv, NothingKnown, isConnected
    <2>2. Len(writer.messages) = 0
      BY <1>1 DEF WriterInv, MessagesInv
    <2>3. SessionOK(nextId_, knownMethodToIds_, knownFileToIds_, told, lost, writer.messages)
      BY <2>1, <2>2, SessionStarts
    <2>4. QED
      BY <1>1, <2>1, <2>3 DEF SessionInv
  <1>5. QED
    BY <1>2, <1>3, <1>4 DEF WriterInv

\* A name is sent: it is known or lost, or there is no session.
LEMMA SendKeeps ==
    ASSUME WriterInv, WriterShape, onNew
    PROVE  WriterInv'
  <1>1. PICK ms : ms = writer.messages
    OBVIOUS
  <1>2. /\ writer.at = "names" /\ ms # << >> /\ ms \in Seq(Message)
        /\ writer.index \in Nat /\ writer.index >= NUMBER_OF_SIGNAL_HANDLER_FRAMES
    BY <1>1 DEF onNew, WriterInv, MessagesInv
  <1>3. writer'.at = "names" /\ writer'.messages = Tail(ms) /\ writer'.index = writer.index
    BY <1>1, <1>2 DEF onNew, WriterShape
  <1>4. UNCHANGED <<nextId_, knownAddrToLocations_, knownMethodToIds_, knownFileToIds_>>
    BY DEF onNew, symbolVars
  <1>5. TablesInv'
    BY <1>4 DEF WriterInv, TablesInv, Tables
  <1>6. MessagesInv'
    <2>1. Tail(ms) \in Seq(Message)
      BY <1>2
    <2>2. QED
      BY <1>2, <1>3, <2>1 DEF MessagesInv
  <1>7. state_ # "SENT_HELLO"
    BY <1>2 DEF WriterInv, HelloInv
  <1>8. CASE ~isConnected /\ UNCHANGED sessionVars
    <2>1. UNCHANGED <<state_, told, lost>>
      BY <1>8 DEF sessionVars
    <2>2. HelloInv' /\ SessionInv'
      BY <1>7, <1>8, <2>1 DEF WriterInv, HelloInv, NothingKnown, SessionInv, isConnected
    <2>3. QED
      BY <1>5, <1>6, <2>2 DEF WriterInv
  <1>9. CASE isConnected /\ EndSession
    <2>1. state_' = "DISCONNECTED" /\ told' = << >> /\ lost' = {}
      BY <1>9 DEF EndSession
    <2>2. HelloInv' /\ SessionInv'
      BY <2>1, NoNames DEF HelloInv, NothingKnown, SessionInv, isConnected
    <2>3. QED
      BY <1>5, <1>6, <2>2 DEF WriterInv
  <1>10. CASE isConnected /\ (SendName(Head(ms), TRUE) \/ SendName(Head(ms), FALSE))
    <2>1. UNCHANGED state_
      BY <1>10 DEF SendName
    <2>2. \/ told' = Known(told, Head(ms).id, Head(ms)) /\ lost' = lost
          \/ told' = told /\ lost' = lost \cup {Head(ms).id}
      BY <1>10 DEF SendName
    <2>3. PICK kn, lo : kn = told' /\ lo = lost'
      OBVIOUS
    <2>4. nextId_ \in Nat
      BY TablesAre, TableHas DEF WriterInv, TablesInv
    <2>5. /\ DOMAIN told \subseteq Nat
          /\ SessionOK(nextId_, knownMethodToIds_, knownFileToIds_, told, lost, ms)
      BY <1>1, <1>10 DEF WriterInv, SessionInv
    <2>6. SessionOK(nextId_, knownMethodToIds_, knownFileToIds_, kn, lo, Tail(ms))
      BY <1>2, <2>2, <2>3, <2>4, <2>5, SentCovered
    <2>7. DOMAIN kn \subseteq Nat
      <3>1. Head(ms) \in Message
        BY <1>2
      <3>2. Head(ms).id \in Nat
        BY <3>1 DEF Message
      <3>3. QED
        BY <2>2, <2>3, <2>5, <3>2 DEF Known
    <2>8. SessionInv'
      BY <1>3, <1>4, <2>3, <2>6, <2>7 DEF SessionInv
    <2>9. HelloInv'
      BY <1>7, <1>10, <2>1 DEF HelloInv, isConnected
    <2>10. QED
      BY <1>5, <1>6, <2>8, <2>9 DEF WriterInv
  <1>11. QED
    BY <1>1, <1>8, <1>9, <1>10 DEF onNew

\* A lookup starts from the tables and leaves tables.
LEMMA SelfReached ==
    ASSUME NEW st0 \in OKTables, st0.told = << >>
    PROVE  Reached(st0, st0)
  <1>1. PICK none : none = << >>
    OBVIOUS
  <1>2. Len(none) = 0 /\ 1 .. 0 = {} /\ st0.told = none /\ st0.nextId \in Nat
    BY <1>1 DEF OKTables, TableRecord
  <1>3. NewIds(st0.nextId, st0.nextId, none) /\ FilesFirst(st0.files, none)
    BY <1>2 DEF NewIds, FilesFirst
  <1>4. MethodsAnnounced(st0.methods, st0.methods, none) /\ FilesAnnounced(st0.files, st0.files, none)
    BY <1>2 DEF MethodsAnnounced, FilesAnnounced
  <1>5. Grown(st0, st0)
    BY <1>2 DEF Grown
  <1>6. QED
    BY <1>2, <1>3, <1>4, <1>5 DEF Reached

LEMMA UpdateKeeps ==
    ASSUME NEW st \in OKTables, Update(st)
    PROVE  TablesInv'
  <1>1. PICK n, addrs, methods, files, locations, ms : st = Table(n, addrs, methods, files, locations, ms)
    BY TableIs
  <1>2. st.nextId = n /\ st.addrs = addrs /\ st.methods = methods /\ st.files = files
    BY <1>1, TableHas
  <1>3. /\ n \in Nat \ {0} /\ addrs \in Partial(Addresses, Seq(Location))
        /\ methods \in Partial(Names, Nat) /\ files \in Partial(Names, Nat)
        /\ IdsBelow(methods, n) /\ IdsBelow(files, n) /\ AddrsLocated(addrs, methods)
    BY <1>1, TableHas
  <1>4. Tables' = Table(n, addrs, methods, files, << >>, << >>)
    BY <1>2 DEF Update, Tables, Table
  <1>5. PICK none : none = << >>
    OBVIOUS
  <1>6. Tables' = Table(n, addrs, methods, files, none, none)
    BY <1>4, <1>5
  <1>7. none \in Seq(Location) /\ none \in Seq(Message)
    BY <1>5
  <1>8. PICK tables : tables = Tables'
    OBVIOUS
  <1>9. tables \in OKTables
    BY <1>3, <1>6, <1>7, <1>8, TableHas
  <1>10. QED
    BY <1>8, <1>9 DEF TablesInv

-----------------------------------------------------------------------------
(* The frames that are looked up *)

\* A frame of the buffer beyond the handler's: one of the walk, of the
\* program, or a cleared one.
Looked(f) ==
    /\ f.frame \in Addresses
    /\ handleSyminfo(f.frame, f.isForeign) = SymbolOf(f.frame)

LEMMA GoodLooked ==
    ASSUME NEW f \in GoodFrame, f.frame \in PCs
    PROVE  Looked(f)
  <1>1. f.isForeign \in BOOLEAN /\ (f.isForeign <=> f.frame \in Foreign)
    BY WalkerAssumption DEF GoodFrame, CallFrame
  <1>2. CASE f.isForeign
    BY <1>1, <1>2 DEF Looked, Addresses, handleSyminfo, SymbolOf
  <1>3. CASE ~f.isForeign
    BY <1>1, <1>3 DEF Looked, Addresses, handleSyminfo, SymbolOf
  <1>4. QED
    BY <1>2, <1>3

LEMMA ZeroLooked == Looked(Zero)
  <1>1. Zero.frame = 0 /\ Zero.isForeign = FALSE /\ 0 \notin Foreign
    BY WalkerAssumption DEF Zero
  <1>2. QED
    BY <1>1 DEF Looked, Addresses, handleSyminfo, SymbolOf

LEMMA FrameLooked ==
    ASSUME QueueInv, NEW s \in Slots, slots[s].committed,
           NEW k \in Nat, k > NUMBER_OF_SIGNAL_HANDLER_FRAMES, k <= numFrames(s)
    PROVE  /\ Looked(frame_buffer_[s][k])
           /\ ~isError(s) => /\ frame_buffer_[s][k] = captured[s][k]
                             /\ captured[s][k].frame \in PCs
  <1>1. PICK c : c = captured[s]
    OBVIOUS
  <1>2. PICK n : n = slots[s].num_frames
    OBVIOUS
  <1>3. c \in Seq(GoodFrame) /\ Placed(c) /\ Len(c) \in Nat
    BY <1>1 DEF QueueInv, QueueType
  <1>4. n = Len(c) \/ n = -1 * Len(c)
    BY <1>1, <1>2 DEF QueueInv, CommitInv, Complete
  <1>5. /\ Len(c) <= maxFramesToCapture
        /\ \A i \in 1 .. maxFramesToCapture :
              frame_buffer_[s][i] = IF i <= n THEN c[i] ELSE Zero
    BY <1>1, <1>2 DEF QueueInv, FramesIntact
  <1>6. k <= Len(c) /\ (~isError(s) => n = Len(c)) /\ (isError(s) => n < 0)
    <2>1. isError(s) <=> n < 0
      BY <1>2 DEF isError
    <2>2. numFrames(s) = IF n < 0 THEN -1 * n ELSE n
      BY <1>2, <2>1 DEF numFrames
    <2>3. PICK l \in Nat : l = Len(c)
      BY <1>3
    <2>4. n = l \/ n = -1 * l
      BY <1>4, <2>3
    <2>5. numFrames(s) = l /\ (~(n < 0) => n = l)
      BY <2>2, <2>4
    <2>6. QED
      BY <2>1, <2>3, <2>5
  <1>7. k \in 1 .. Len(c) /\ k \in 1 .. maxFramesToCapture
    BY <1>3, <1>5, <1>6, WalkerAssumption, QueueAssumption
  <1>8. c[k] \in GoodFrame /\ c[k].frame \in PCs
    BY <1>3, <1>7 DEF Placed
  <1>9. CASE isError(s)
    <2>1. frame_buffer_[s][k] = Zero
      <3>1. n < 0
        BY <1>6, <1>9
      <3>2. n \in Int
        BY <1>3, <1>4
      <3>3. ~(k <= n)
        BY <3>1, <3>2
      <3>4. QED
        BY <1>5, <1>7, <3>3
    <2>2. QED
      BY <1>9, <2>1, ZeroLooked
  <1>10. CASE ~isError(s)
    <2>1. frame_buffer_[s][k] = c[k]
      BY <1>5, <1>6, <1>7, <1>10
    <2>2. QED
      BY <1>1, <1>8, <2>1, GoodLooked
  <1>11. QED
    BY <1>9, <1>10

\* The lookup of a frame: the tables know what the messages announce.
LEMMA LookupFrameKeeps ==
    ASSUME QueueInv, WriterInv, LookupFrame
    PROVE  /\ WriterInv'
           /\ \A m \in DOMAIN knownMethodToIds_ : /\ m \in DOMAIN knownMethodToIds_'
                                                  /\ knownMethodToIds_'[m] = knownMethodToIds_[m]
           /\ LET pc == frame_buffer_[output][writer.index + 1].frame
              IN  Located(writer'.locations, pc, Len(Pcinfo[pc]), knownMethodToIds_')
  <1>1. PICK f, pc, isForeign : /\ f = frame_buffer_[output][writer.index + 1]
                                /\ pc = f.frame /\ isForeign = f.isForeign
    OBVIOUS
  <1>2. PICK st0 : st0 = Tables
    OBVIOUS
  <1>3. PICK st : st = lookup_locations(st0, pc, isForeign)
    OBVIOUS
  <1>4. WriterShape
    BY DEF QueueInv, ReadInv
  <1>5. /\ writer.at = "frame" /\ writer.index < numFrames(output)
        /\ nextId_' = st.nextId /\ knownAddrToLocations_' = st.addrs
        /\ knownMethodToIds_' = st.methods /\ knownFileToIds_' = st.files
        /\ writer' = [writer EXCEPT !.at = "names", !.messages = st.told, !.locations = st.locations]
        /\ UNCHANGED <<state_, told, lost>>
    BY <1>1, <1>2, <1>3 DEF LookupFrame, Update, sessionVars
  <1>6. /\ writer'.at = "names" /\ writer'.messages = st.told /\ writer'.locations = st.locations
        /\ writer'.index = writer.index
    BY <1>4, <1>5 DEF WriterShape
  <1>7. writer.index \in Nat /\ writer.index >= NUMBER_OF_SIGNAL_HANDLER_FRAMES
    BY <1>5 DEF WriterInv, MessagesInv
  <1>8. Looked(f)
    <2>1. output \in Slots /\ slots[output].committed
      BY <1>5 DEF QueueInv, QueueType, ReadInv, Ready
    <2>2. PICK k \in Nat : k = writer.index + 1
      BY <1>7
    <2>3. k > NUMBER_OF_SIGNAL_HANDLER_FRAMES
      BY <1>7, <2>2, WalkerAssumption
    <2>4. numFrames(output) \in Int
      BY <2>1 DEF QueueInv, QueueType, HolderType, numFrames
    <2>5. k <= numFrames(output)
      BY <1>5, <1>7, <2>2, <2>4
    <2>6. QED
      BY <1>1, <2>1, <2>2, <2>3, <2>5, FrameLooked
  <1>9. st0 = Table(nextId_, knownAddrToLocations_, knownMethodToIds_, knownFileToIds_, << >>, << >>)
    BY <1>2, TablesAre
  <1>10. PICK none : none = << >>
    OBVIOUS
  <1>11. st0 = Table(nextId_, knownAddrToLocations_, knownMethodToIds_, knownFileToIds_, none, none)
    BY <1>9, <1>10
  <1>12. st0 \in OKTables
    BY <1>2 DEF WriterInv, TablesInv
  <1>13. /\ st0.nextId = nextId_ /\ st0.methods = knownMethodToIds_ /\ st0.files = knownFileToIds_
         /\ st0.told = none /\ nextId_ \in Nat \ {0}
    BY <1>11, <1>12, TableHas
  <1>14. Reached(st0, st0)
    BY <1>10, <1>12, <1>13, SelfReached
  <1>15. Reached(st0, st) /\ Located(st.locations, pc, Len(Pcinfo[pc]), st.methods)
    <2>1. pc \in Addresses /\ handleSyminfo(pc, isForeign) = SymbolOf(pc)
      BY <1>1, <1>8 DEF Looked
    <2>2. QED
      BY <1>3, <1>12, <1>14, <2>1, LookupKeeps
  <1>16. PICK n, addrs, methods, files, locations, ms : st = Table(n, addrs, methods, files, locations, ms)
    BY <1>15, TableIs DEF Reached
  <1>17. /\ st.nextId = n /\ st.addrs = addrs /\ st.methods = methods /\ st.files = files
         /\ st.locations = locations /\ st.told = ms
    BY <1>16, TableHas
  <1>18. /\ n \in Nat \ {0} /\ addrs \in Partial(Addresses, Seq(Location))
         /\ methods \in Partial(Names, Nat) /\ files \in Partial(Names, Nat)
         /\ locations \in Seq(Location) /\ ms \in Seq(Message)
         /\ IdsBelow(methods, n) /\ IdsBelow(files, n) /\ AddrsLocated(addrs, methods)
    BY <1>15, <1>16, TableHas DEF Reached
  <1>19. TablesInv'
    BY <1>5, <1>15, UpdateKeeps DEF Reached, Update
  <1>20. MessagesInv'
    BY <1>6, <1>7, <1>17, <1>18 DEF MessagesInv
  <1>21. HelloInv'
    BY <1>5, <1>6 DEF WriterInv, HelloInv, NothingKnown, isConnected
  <1>22. /\ nextId_ <= n
         /\ \A m \in DOMAIN knownMethodToIds_ : m \in DOMAIN methods /\ methods[m] = knownMethodToIds_[m]
         /\ NewIds(nextId_, n, ms) /\ MethodsAnnounced(knownMethodToIds_, methods, ms)
         /\ FilesAnnounced(knownFileToIds_, files, ms) /\ FilesFirst(knownFileToIds_, ms)
    BY <1>13, <1>15, <1>16, ReachedHas
  <1>23. SessionInv'
    <2> SUFFICES ASSUME isConnected
                 PROVE  DOMAIN told \subseteq Nat /\ SessionOK(n, methods, files, told, lost, ms)
      BY <1>5, <1>6, <1>17 DEF SessionInv, isConnected
    <2>1. /\ DOMAIN told \subseteq Nat
          /\ SessionOK(nextId_, knownMethodToIds_, knownFileToIds_, told, lost, writer.messages)
          /\ writer.messages = << >>
      BY <1>5 DEF WriterInv, SessionInv, MessagesInv
    <2>2. PICK n0 \in Nat : n0 = nextId_
      BY <1>13
    <2>3. PICK n1 \in Nat : n1 = n
      BY <1>18
    <2>4. PICK methods0, files0, kn, lo, ms0 :
              /\ methods0 = knownMethodToIds_ /\ files0 = knownFileToIds_
              /\ kn = told /\ lo = lost /\ ms0 = writer.messages
      OBVIOUS
    <2>5. Len(ms0) = 0 /\ SessionOK(n0, methods0, files0, kn, lo, ms0) /\ DOMAIN kn \subseteq Nat
      BY <2>1, <2>2, <2>4
    <2>6. \A m \in DOMAIN methods : methods[m] \in Nat
      BY <1>18, PartialHas
    <2>7. /\ n0 <= n1
          /\ \A m \in DOMAIN methods0 : m \in DOMAIN methods /\ methods[m] = methods0[m]
          /\ NewIds(n0, n1, ms) /\ MethodsAnnounced(methods0, methods, ms)
          /\ FilesAnnounced(files0, files, ms) /\ FilesFirst(files0, ms)
      BY <1>22, <2>2, <2>3, <2>4
    <2>8. SessionOK(n1, methods, files, kn, lo, ms)
      BY <1>18, <2>5, <2>6, <2>7, LookupCovered
    <2>9. QED
      BY <2>1, <2>3, <2>4, <2>8
  <1>24. QED
    BY <1>1, <1>5, <1>6, <1>15, <1>17, <1>19, <1>20, <1>21, <1>22, <1>23 DEF WriterInv

-----------------------------------------------------------------------------
(* The lookups of the exporter *)

\* The lookup for the node at the end of the first k frames, if it is new.
IfNew(st, fs, k) ==
    IF SubSeq(PathOf(fs), 1, k) \notin DOMAIN tree
      THEN lookup_locations(st, fs[k].frame, fs[k].isForeign) ELSE st
NewInTurn(D, x0, fs, n, result) ==
    \E acc \in [0 .. n -> D] :
        /\ acc[0] = x0 /\ acc[n] = result
        /\ \A k \in 0 .. n - 1 : acc[k + 1] = IfNew(acc[k], fs, k + 1)

LEMMA LookupsInTurn ==
    ASSUME NEW fs, NEW n \in Nat, DOMAIN fs = 1 .. n,
           NEW D, NEW x0, x0 \in D, x0 = Tables,
           \A st \in D, k \in 1 .. n : IfNew(st, fs, k) \in D
    PROVE  NewInTurn(D, x0, fs, n, LookupNew(fs))
  <1> DEFINE ks == [k \in DOMAIN fs |-> k]
             Body(it, s) == IF s = {} THEN x0 ELSE IfNew(it[s \ {Max(s)}], fs, ks[Max(s)])
             Eqn(it) == it = [s \in SUBSET (1 .. n) |-> Body(it, s)]
             fold == CHOOSE it : Eqn(it)
             step == [k \in 1 .. n |-> [st \in D |-> IfNew(st, fs, k)]]
  <1>1. LookupNew(fs) = fold[1 .. n]
    BY DEF LookupNew, FoldLeft, MapThenFoldSet, IfNew
  <1>2. \A k \in 1 .. n : ks[k] = k
    OBVIOUS
  <1> HIDE DEF ks
  <1>3. \E it : IsFold(it, D, x0, step, n)
    <2>1. step \in [1 .. n -> [D -> D]]
      OBVIOUS
    <2> HIDE DEF step
    <2>2. QED
      BY <2>1, FoldExists
  <1>4. PICK it : IsFold(it, D, x0, step, n)
    BY <1>3
  <1>5. Eqn(it)
    <2>1. ASSUME NEW s \in SUBSET (1 .. n)
          PROVE  it[s] = Body(it, s)
      <3>1. CASE s = {}
        BY <1>4, <3>1 DEF IsFold
      <3>2. CASE s # {}
        <4>1. it[s] = step[Max(s)][it[s \ {Max(s)}]]
          BY <1>4, <3>2 DEF IsFold
        <4>2. Max(s) \in 1 .. n
          BY <3>2, MaxOfRange
        <4>3. it[s \ {Max(s)}] \in D
          BY <1>4 DEF IsFold
        <4>4. QED
          BY <1>2, <3>2, <4>1, <4>2, <4>3
      <3>3. QED
        BY <3>1, <3>2
    <2>2. it \in [SUBSET (1 .. n) -> D]
      BY <1>4 DEF IsFold
    <2> HIDE DEF Body
    <2>3. QED
      BY <2>1, <2>2
  <1>6. Eqn(fold)
    <2> HIDE DEF Eqn
    <2>1. QED
      BY <1>5
  <1>7. \A s \in SUBSET (1 .. n) : fold[s] = Body(fold, s)
    <2> HIDE DEF Body, fold
    <2>1. QED
      BY <1>6
  <1> HIDE DEF fold
  <1> DEFINE acc == [k \in 0 .. n |-> fold[1 .. k]]
  <1>8. acc[0] = x0
    <2>1. 1 .. 0 = {} /\ 0 \in 0 .. n /\ {} \in SUBSET (1 .. n)
      OBVIOUS
    <2>2. fold[{}] = x0
      BY <1>7, <2>1
    <2>3. QED
      BY <2>1, <2>2
  <1>9. ASSUME NEW k \in 0 .. n - 1
        PROVE  acc[k + 1] = IfNew(acc[k], fs, k + 1)
    <2>1. k \in Nat /\ 1 .. k + 1 \in SUBSET (1 .. n) /\ k \in 0 .. n /\ k + 1 \in 0 .. n
      OBVIOUS
    <2>2. PICK s : s = 1 .. k + 1
      OBVIOUS
    <2>3. s # {} /\ Max(s) = k + 1 /\ s \ {Max(s)} = 1 .. k
      BY <2>1, <2>2, UpToNext
    <2>4. fold[s] = IfNew(fold[s \ {Max(s)}], fs, Max(s))
      <3>1. fold[s] = IfNew(fold[s \ {Max(s)}], fs, ks[Max(s)])
        BY <1>7, <2>1, <2>2, <2>3
      <3>2. k + 1 \in 1 .. n
        OBVIOUS
      <3>3. ks[Max(s)] = Max(s)
        BY <1>2, <2>3, <3>2
      <3>4. QED
        BY <3>1, <3>3
    <2>5. acc[k + 1] = fold[s] /\ acc[k] = fold[1 .. k]
      BY <2>1, <2>2
    <2> HIDE DEF acc
    <2>6. QED
      BY <2>3, <2>4, <2>5
  <1>10. acc[n] = fold[1 .. n]
    OBVIOUS
  <1>11. DOMAIN acc = 0 .. n /\ acc = [k \in 0 .. n |-> acc[k]]
    OBVIOUS
  <1> HIDE DEF acc
  <1>12. \A k \in Nat : k <= n => acc[k] \in D
    <2> DEFINE T == {k \in Nat : k <= n => acc[k] \in D}
    <2>1. 0 \in T
      BY <1>8
    <2>2. ASSUME NEW k \in Nat, k \in T
          PROVE  k + 1 \in T
      <3> SUFFICES ASSUME k + 1 <= n
                   PROVE  acc[k + 1] \in D
        OBVIOUS
      <3>1. k \in 0 .. n - 1 /\ k + 1 \in 1 .. n /\ acc[k] \in D
        BY <2>2
      <3>2. QED
        BY <1>9, <3>1
    <2> HIDE DEF T
    <2>3. \A k \in Nat : k \in T
      BY <2>1, <2>2, SetInduction
    <2>4. QED
      BY <2>3 DEF T
  <1>13. acc \in [0 .. n -> D]
    BY <1>11, <1>12
  <1>14. QED
    BY <1>1, <1>8, <1>9, <1>10, <1>13 DEF NewInTurn

\* All new nodes of a trace are looked up.
LEMMA LookupNewKeeps ==
    ASSUME TablesInv, NEW fs, NEW n \in Nat, DOMAIN fs = 1 .. n, \A k \in 1 .. n : Looked(fs[k])
    PROVE  /\ LookupNew(fs) \in OKTables
           /\ \A k \in 1 .. n : SubSeq(PathOf(fs), 1, k) \notin DOMAIN tree =>
                                  fs[k].frame \in DOMAIN LookupNew(fs).addrs
  <1>1. PICK x0 : x0 = Tables
    OBVIOUS
  <1>2. x0 \in OKTables /\ x0.told = << >>
    BY <1>1 DEF TablesInv, Tables
  <1>3. Reached(x0, x0)
    BY <1>2, SelfReached
  <1> DEFINE D == {s \in OKTables : Reached(x0, s)}
             NewAt(k) == SubSeq(PathOf(fs), 1, k) \notin DOMAIN tree
  <1>4. ASSUME NEW s \in D, NEW k \in 1 .. n
        PROVE  /\ IfNew(s, fs, k) \in D
               /\ DOMAIN s.addrs \subseteq DOMAIN IfNew(s, fs, k).addrs
               /\ NewAt(k) => fs[k].frame \in DOMAIN IfNew(s, fs, k).addrs
    <2>1. CASE ~NewAt(k)
      BY <2>1 DEF IfNew
    <2>2. CASE NewAt(k)
      <3>1. PICK pc, isForeign : pc = fs[k].frame /\ isForeign = fs[k].isForeign
        OBVIOUS
      <3>2. PICK s1 : s1 = lookup_locations(s, pc, isForeign)
        OBVIOUS
      <3>3. IfNew(s, fs, k) = s1
        BY <2>2, <3>1, <3>2 DEF IfNew
      <3>4. pc \in Addresses /\ handleSyminfo(pc, isForeign) = SymbolOf(pc)
        BY <3>1 DEF Looked
      <3>5. Reached(x0, s1) /\ DOMAIN s1.addrs = DOMAIN s.addrs \cup {pc}
        BY <1>2, <3>2, <3>4, LookupKeeps
      <3>6. s1 \in OKTables
        BY <3>5 DEF Reached
      <3>7. QED
        BY <3>1, <3>3, <3>5, <3>6
    <2>3. QED
      BY <2>1, <2>2
  <1>5. x0 \in D
    BY <1>2, <1>3
  <1> HIDE DEF D
  <1>6. PICK result : result = LookupNew(fs)
    OBVIOUS
  <1>7. PICK acc \in [0 .. n -> D] :
            /\ acc[0] = x0 /\ acc[n] = result
            /\ \A k \in 0 .. n - 1 : acc[k + 1] = IfNew(acc[k], fs, k + 1)
    <2>1. NewInTurn(D, x0, fs, n, result)
      <3>1. \A s \in D, k \in 1 .. n : IfNew(s, fs, k) \in D
        BY <1>4
      <3>2. QED
        BY <1>1, <1>5, <1>6, <3>1, LookupsInTurn
    <2>2. QED
      BY <2>1 DEF NewInTurn
  <1> DEFINE T == {k \in Nat : k <= n => \A i \in 1 .. k : NewAt(i) => fs[i].frame \in DOMAIN acc[k].addrs}
  <1> HIDE DEF NewAt
  <1>8. 0 \in T
    <2>1. 1 .. 0 = {}
      OBVIOUS
    <2>2. QED
      BY <2>1
  <1>9. ASSUME NEW k \in Nat, k \in T
        PROVE  k + 1 \in T
    <2> SUFFICES ASSUME k + 1 <= n, NEW i \in 1 .. k + 1, NewAt(i)
                 PROVE  fs[i].frame \in DOMAIN acc[k + 1].addrs
      OBVIOUS
    <2>1. k \in 0 .. n - 1 /\ k + 1 \in 1 .. n /\ k \in 0 .. n /\ k <= n
      OBVIOUS
    <2>2. PICK s, s1 : s = acc[k] /\ s1 = acc[k + 1]
      OBVIOUS
    <2>3. s \in D /\ s1 = IfNew(s, fs, k + 1)
      BY <1>7, <2>1, <2>2
    <2>4. DOMAIN s.addrs \subseteq DOMAIN s1.addrs /\ (NewAt(k + 1) => fs[k + 1].frame \in DOMAIN s1.addrs)
      BY <1>4, <2>1, <2>3
    <2>5. CASE i = k + 1
      BY <2>2, <2>4, <2>5
    <2>6. CASE i \in 1 .. k
      BY <1>9, <2>1, <2>2, <2>4, <2>6
    <2>7. QED
      BY <2>5, <2>6
  <1> HIDE DEF T
  <1>10. n \in T
    BY <1>8, <1>9, SetInduction
  <1>11. \A i \in 1 .. n : NewAt(i) => fs[i].frame \in DOMAIN result.addrs
    BY <1>7, <1>10 DEF T
  <1>12. result \in OKTables
    BY <1>7 DEF D
  <1>13. QED
    BY <1>6, <1>11, <1>12 DEF NewAt

\* The frames of a trace as the exporter takes them.
LEMMA FramesLooked ==
    ASSUME QueueInv, NEW s \in Slots, slots[s].committed, ~(slots[s].num_frames < 0)
    PROVE  \E n \in Nat : /\ DOMAIN Frames(s) = 1 .. n
                          /\ \A k \in 1 .. n : Looked(Frames(s)[k]) /\ Frames(s)[k].frame \in PCs
  <1>1. PICK fb : fb = frame_buffer_[s]
    OBVIOUS
  <1>2. fb \in [1 .. maxFramesToCapture -> GoodFrame \cup {Zero}]
    BY <1>1 DEF QueueInv, QueueType
  <1>3. PICK m \in Nat : m = slots[s].num_frames
    BY DEF QueueInv, QueueType, HolderType
  <1>4. PICK h \in Nat : h = NUMBER_OF_SIGNAL_HANDLER_FRAMES
    BY WalkerAssumption
  <1>5. m <= maxFramesToCapture
    <2>1. captured[s] \in Seq(GoodFrame) /\ Len(captured[s]) <= maxFramesToCapture
      BY DEF QueueInv, QueueType, FramesIntact
    <2>2. m = Len(captured[s]) \/ m = -1 * Len(captured[s])
      BY <1>3 DEF QueueInv, CommitInv, Complete
    <2>3. Len(captured[s]) \in Nat /\ maxFramesToCapture \in Nat
      BY <2>1, QueueAssumption
    <2>4. QED
      BY <2>1, <2>2, <2>3
  <1>6. PICK n \in Nat : n = IF m > h THEN m - h ELSE 0
    OBVIOUS
  <1>7. PICK fs : fs = SubSeq(fb, h + 1, m)
    OBVIOUS
  <1>8. Len(fs) = n /\ \A k \in 1 .. n : fs[k] = fb[k + h]
    <2>1. fb \in Seq(GoodFrame \cup {Zero}) /\ Len(fb) = maxFramesToCapture
      BY <1>2, QueueAssumption
    <2>2. QED
      BY <1>5, <1>6, <1>7, <2>1, QueueAssumption
  <1>9. Frames(s) = Reverse(fs)
    BY <1>1, <1>3, <1>4, <1>7 DEF Frames
  <1>10. DOMAIN Frames(s) = 1 .. n /\ \A k \in 1 .. n : Frames(s)[k] = fs[(n - k) + 1]
    BY <1>8, <1>9 DEF Reverse
  <1>11. ASSUME NEW k \in 1 .. n
         PROVE  Looked(Frames(s)[k]) /\ Frames(s)[k].frame \in PCs
    <2>1. PICK i \in Nat : i = ((n - k) + 1) + h
      OBVIOUS
    <2>2. i > h /\ i <= m /\ (n - k) + 1 \in 1 .. n
      BY <1>6, <2>1
    <2>3. Frames(s)[k] = fb[i]
      BY <1>8, <1>10, <2>1, <2>2
    <2>4. ~isError(s) /\ numFrames(s) = m
      BY <1>3 DEF isError, numFrames
    <2>5. QED
      BY <1>1, <1>4, <2>2, <2>3, <2>4, FrameLooked
  <1>12. QED
    BY <1>10, <1>11

-----------------------------------------------------------------------------
(* Every step keeps the writer's invariant *)

\* The exporter's record: the tables grow, and there is no session.
LEMMA ExporterKeeps ==
    ASSUME QueueInv, WriterInv, RecordForPrometheus
    PROVE  WriterInv'
  <1>1. WriterShape /\ output \in Slots /\ slots[output].committed
    BY DEF QueueInv, QueueType, ReadInv, RecordForPrometheus, Ready
  <1>2. /\ writer.at = "stack" /\ writer' = [writer EXCEPT !.at = "popped", !.read = TRUE]
        /\ state_ = "PROMETHEUS_MODE" /\ UNCHANGED <<state_, told, lost>>
    BY DEF RecordForPrometheus, inPrometheusMode, sessionVars
  <1>3. writer'.at = "popped" /\ writer'.messages = writer.messages
    BY <1>1, <1>2 DEF WriterShape
  <1>4. MessagesInv'
    BY <1>2, <1>3 DEF WriterInv, MessagesInv
  <1>5. HelloInv'
    BY <1>2 DEF WriterInv, HelloInv, NothingKnown, isConnected
  <1>6. SessionInv'
    BY <1>2 DEF SessionInv, isConnected
  <1>7. recordTrace(output)
    BY DEF RecordForPrometheus
  <1>8. TablesInv'
    <2>1. CASE slots[output].num_frames < 0
      <3>1. UNCHANGED symbolVars
        BY <1>7, <2>1 DEF recordTrace
      <3>2. QED
        BY <3>1 DEF symbolVars, WriterInv, TablesInv, Tables
    <2>2. CASE ~(slots[output].num_frames < 0)
      <3>1. PICK fs : fs = Frames(output)
        OBVIOUS
      <3>2. PICK n \in Nat : DOMAIN fs = 1 .. n /\ \A k \in 1 .. n : Looked(fs[k])
        BY <1>1, <2>2, <3>1, FramesLooked
      <3>3. LookupNew(fs) \in OKTables
        BY <3>2, LookupNewKeeps DEF WriterInv
      <3>4. Update(LookupNew(fs))
        BY <1>7, <2>2, <3>1 DEF recordTrace
      <3>5. QED
        BY <3>3, <3>4, UpdateKeeps
    <2>3. QED
      BY <2>1, <2>2
  <1>9. QED
    BY <1>4, <1>5, <1>6, <1>8 DEF WriterInv

LEMMA CollectorKeeps ==
    ASSUME QueueInv, WriterInv, recordStackTrace
    PROVE  WriterInv'
  <1>1. WriterShape
    BY DEF QueueInv, ReadInv
  <1>2. writer.at # "names" => writer.messages = << >>
    BY DEF WriterInv, MessagesInv
  <1>3. writer.at # "loop" => state_ # "SENT_HELLO"
    BY DEF WriterInv, HelloInv
  <1>4. CASE BeginRecord
    <2>1. /\ writer.at = "stack" /\ writer'.at = "frame" /\ writer'.messages = writer.messages
          /\ writer'.index = NUMBER_OF_SIGNAL_HANDLER_FRAMES
      BY <1>1, <1>4 DEF BeginRecord, WriterShape
    <2>2. NUMBER_OF_SIGNAL_HANDLER_FRAMES \in Nat
      BY WalkerAssumption
    <2>3. UNCHANGED symbolVars /\ UNCHANGED sessionVars
      BY <1>4 DEF BeginRecord
    <2>4. writer'.index \in Nat /\ writer'.index >= NUMBER_OF_SIGNAL_HANDLER_FRAMES
      BY <2>1, <2>2
    <2>5. QED
      BY <1>2, <1>3, <2>1, <2>3, <2>4, WriterStays
  <1>5. CASE LookupFrame
    BY <1>5, LookupFrameKeeps
  <1>6. CASE onNew
    BY <1>1, <1>6, SendKeeps
  <1>7. CASE addFrames
    <2>1. /\ writer.at = "names" /\ writer.messages = << >>
          /\ writer'.at = "frame" /\ writer'.messages = writer.messages
          /\ writer'.index = writer.index + 1
      BY <1>1, <1>7 DEF addFrames, WriterShape
    <2>2. writer.index \in Nat /\ writer.index >= NUMBER_OF_SIGNAL_HANDLER_FRAMES
      BY <2>1 DEF WriterInv, MessagesInv
    <2>3. writer'.index \in Nat /\ writer'.index >= NUMBER_OF_SIGNAL_HANDLER_FRAMES
      BY <2>1, <2>2, WalkerAssumption
    <2>4. UNCHANGED symbolVars /\ UNCHANGED sessionVars
      BY <1>7 DEF addFrames
    <2>5. QED
      BY <1>3, <2>1, <2>3, <2>4, WriterStays
  <1>8. CASE SendSample
    <2>1. /\ writer.at = "frame" /\ writer'.at = "popped" /\ writer'.messages = writer.messages
      BY <1>1, <1>8 DEF SendSample, WriterShape
    <2>2. UNCHANGED symbolVars /\ (UNCHANGED sessionVars \/ EndSession)
      BY <1>8 DEF SendSample
    <2>3. QED
      BY <1>2, <1>3, <2>1, <2>2, WriterStays
  <1>9. QED
    BY <1>4, <1>5, <1>6, <1>7, <1>8 DEF recordStackTrace

\* The pops themselves look up nothing.
LEMMA PopsKeep ==
    ASSUME QueueInv, WriterInv, StartPops \/ PopMain \/ MainEmpty \/ StackEmpty \/ NextPop
    PROVE  WriterInv'
  <1>1. WriterShape
    BY DEF QueueInv, ReadInv
  <1>2. writer.at # "names" => writer.messages = << >>
    BY DEF WriterInv, MessagesInv
  <1>3. writer.at # "loop" \/ isActive => state_ # "SENT_HELLO"
    BY DEF WriterInv, HelloInv, isActive, isConnected, inPrometheusMode
  <1>4. ASSUME UNCHANGED symbolVars, UNCHANGED sessionVars \/ EndSession,
               writer.at # "loop" \/ isActive, writer.at # "names",
               writer'.at \in {"loop", "main", "stack", "popped"},
               writer'.messages = writer.messages
        PROVE  WriterInv'
    BY <1>2, <1>3, <1>4, WriterStays
  <1>5. CASE StartPops
    <2>1. writer'.at = "main" /\ writer'.messages = writer.messages
      BY <1>1, <1>5 DEF StartPops, WriterShape
    <2>2. QED
      BY <1>4, <1>5, <2>1 DEF StartPops
  <1>6. CASE PopMain
    <2>1. writer'.at = "stack" /\ writer'.messages = writer.messages
      BY <1>1, <1>6 DEF PopMain, WriterShape
    <2>2. UNCHANGED sessionVars \/ EndSession
      BY <1>6 DEF PopMain, recordNotification
    <2>3. QED
      BY <1>4, <1>6, <2>1, <2>2 DEF PopMain
  <1>7. CASE MainEmpty
    <2>1. writer'.at = "stack" /\ writer'.messages = writer.messages
      BY <1>1, <1>7 DEF MainEmpty, WriterShape
    <2>2. QED
      BY <1>4, <1>7, <2>1 DEF MainEmpty
  <1>8. CASE StackEmpty
    <2>1. writer'.at = "popped" /\ writer'.messages = writer.messages
      BY <1>1, <1>8 DEF StackEmpty, WriterShape
    <2>2. QED
      BY <1>4, <1>8, <2>1 DEF StackEmpty
  <1>9. CASE NextPop
    <2>1. writer.at = "popped"
      BY <1>9 DEF NextPop
    <2>2. writer'.at \in {"main", "loop"} /\ writer'.messages = writer.messages
      <3>1. \/ writer' = [writer EXCEPT !.at = "main", !.polls = @ + 1, !.read = FALSE]
            \/ writer' = Loop
        BY <1>9 DEF NextPop
      <3>2. CASE writer' = Loop
        BY <1>2, <2>1, <3>2 DEF Loop
      <3>3. CASE writer' = [writer EXCEPT !.at = "main", !.polls = @ + 1, !.read = FALSE]
        BY <1>1, <3>3 DEF WriterShape
      <3>4. QED
        BY <3>1, <3>2, <3>3
    <2>3. QED
      BY <1>4, <1>9, <2>1, <2>2 DEF NextPop
  <1>10. QED
    BY <1>5, <1>6, <1>7, <1>8, <1>9

LEMMA NextWriterInv == QueueInv /\ WriterInv /\ [Next]_vars => WriterInv'
  <1> SUFFICES ASSUME QueueInv, WriterInv, [Next]_vars PROVE WriterInv'
    OBVIOUS
  <1>1. ASSUME UNCHANGED symbolVars, UNCHANGED sessionVars \/ EndSession, UNCHANGED writer
        PROVE  WriterInv'
    <2>1. /\ writer.at # "names" => writer.messages = << >>
          /\ writer.at \in {"frame", "names"} =>
                writer.index \in Nat /\ writer.index >= NUMBER_OF_SIGNAL_HANDLER_FRAMES
          /\ state_ = "SENT_HELLO" => writer.at = "loop"
      BY DEF WriterInv, MessagesInv, HelloInv
    <2>2. QED
      BY <1>1, <2>1, WriterStays
  <1>2. ASSUME NEW t \in Threads, Signalled(t)
        PROVE  WriterInv'
    BY <1>1, <1>2 DEF Signalled, writerVars
  <1>3. CASE onSocketConnect
    BY <1>3, ConnectKeeps
  <1>4. CASE onFirstSampleRate
    BY <1>4, FirstRateKeeps
  <1>5. CASE onDisconnect
    BY <1>1, <1>5 DEF onDisconnect, writerVars
  <1>6. CASE ScrapeInPoll
    BY <1>1, <1>6 DEF ScrapeInPoll, Scrape, writerVars
  <1>7. CASE Processor
    BY <1>7, PopsKeep, CollectorKeeps, ExporterKeeps DEF Processor, RecordForCollector
  <1>8. CASE UNCHANGED vars
    BY <1>1, <1>8 DEF vars, writerVars
  <1>9. QED
    BY <1>2, <1>3, <1>4, <1>5, <1>6, <1>7, <1>8 DEF Next

\* A function the collector is told of names a file it was told of before:
\* recordFile comes before the function's callback (symbol_table.cpp:76),
\* onSocketConnected empties all tables at once (log_writer.cpp:386), and a
\* send that fails ends the session or loses one name.
THEOREM ModulesSafe == WalkLength <= maxFramesToCapture => (Spec => []ModulesTold)
  <1> SUFFICES ASSUME WalkLength <= maxFramesToCapture
               PROVE  Spec => []ModulesTold
    OBVIOUS
  <1> DEFINE Inv == QueueInv /\ WriterInv
  <1>1. Inv /\ [Next]_vars => Inv'
    BY NextQueueInv, NextWriterInv
  <1>2. Inv => ModulesTold
    BY DEF WriterInv, SessionInv, SessionOK, FilesKnown, ModulesTold, SentId
  <1>3. Init => Inv
    BY InitQueueInv, InitWriterInv
  <1>4. QED
    BY <1>1, <1>2, <1>3, PTL DEF Spec

-----------------------------------------------------------------------------
(* The tree of the exporter *)

Node == [locations : Seq(Location), seenInPhase : BOOLEAN, count : [Signals -> Nat]]

\* A node below the root has the names of the functions at its address.
Labelled(p, locations) ==
    \/ p = root
    \/ /\ p \in Seq(PCs) /\ Last(p) \in PCs
       /\ Len(locations) = Len(Pcinfo[Last(p)])
       /\ \A k \in 1 .. Len(Pcinfo[Last(p)]) : locations[k].functionName = NameOf(Last(p), k)

\* A node has the count of its path, and its names.
NodesInv ==
    \A p \in DOMAIN tree : /\ tree[p] \in Node
                           /\ tree[p].count = CountAt(p)
                           /\ Labelled(p, tree[p].locations)

\* The nodes on the way to a recorded one are seen, the root once there was
\* a scrape, and no others.
SeenInv ==
    /\ root \in DOMAIN tree
    /\ \A p \in DOMAIN tree : tree[p].seenInPhase => p \in RecordedPaths
    /\ scraped => tree[root].seenInPhase
    /\ \A p \in DOMAIN recorded : /\ p \in DOMAIN tree
                                  /\ \A q \in Nodes(p) : q \in DOMAIN tree /\ tree[q].seenInPhase

TreeInv == NodesInv /\ SeenInv

LEMMA NoCountType == NoCount \in [Signals -> Nat]
  BY DEF NoCount

LEMMA FreshNode ==
    ASSUME NEW locations \in Seq(Location)
    PROVE  /\ ProfileNode(locations) \in Node
           /\ ProfileNode(locations).locations = locations
           /\ ProfileNode(locations).count = NoCount
           /\ ~ProfileNode(locations).seenInPhase
  BY NoCountType DEF ProfileNode, Node

LEMMA InitTreeInv == Init => TreeInv
  <1> SUFFICES ASSUME Init PROVE TreeInv
    OBVIOUS
  <1>1. PICK none : none = << >>
    OBVIOUS
  <1>2. tree = [p \in {root} |-> ProfileNode(none)] /\ scraped = FALSE /\ recorded = none
    BY <1>1 DEF Init, PrometheusInit
  <1>3. DOMAIN tree = {root} /\ tree[root] = ProfileNode(none) /\ DOMAIN recorded = {}
    BY <1>1, <1>2, NoNames
  <1>4. none \in Seq(Location)
    BY <1>1
  <1>5. NodesInv
    BY <1>3, <1>4, FreshNode DEF NodesInv, CountAt, Labelled
  <1>6. SeenInv
    BY <1>2, <1>3, <1>4, FreshNode DEF SeenInv
  <1>7. QED
    BY <1>5, <1>6 DEF TreeInv

\* A scrape resets every node and forgets what was recorded.
LEMMA ScrapeKeeps ==
    ASSUME TreeInv, Scrape
    PROVE  TreeInv'
  <1>1. PICK none : none = << >>
    OBVIOUS
  <1>2. /\ tree' = [end_phase_node EXCEPT ![root].seenInPhase = TRUE]
        /\ scraped' = TRUE /\ recorded' = none /\ DOMAIN none = {}
    BY <1>1, NoNames DEF Scrape
  <1>3. root \in DOMAIN tree /\ DOMAIN end_phase_node = DOMAIN tree
    BY DEF TreeInv, SeenInv, end_phase_node
  <1>4. ASSUME NEW p \in DOMAIN tree
        PROVE  /\ end_phase_node[p] \in Node /\ end_phase_node[p].count = NoCount
               /\ Labelled(p, end_phase_node[p].locations) /\ ~end_phase_node[p].seenInPhase
    <2>1. PICK l : l = tree[p].locations
      OBVIOUS
    <2>2. l \in Seq(Location) /\ Labelled(p, l)
      BY <2>1 DEF TreeInv, NodesInv, Node
    <2>3. end_phase_node[p] = ProfileNode(l)
      BY <2>1 DEF end_phase_node
    <2>4. QED
      BY <2>2, <2>3, FreshNode
  <1>5. DOMAIN tree' = DOMAIN tree
    BY <1>2, <1>3
  <1>6. tree'[root] = [end_phase_node[root] EXCEPT !.seenInPhase = TRUE]
    BY <1>2, <1>3
  <1>7. /\ tree'[root] \in Node /\ tree'[root].count = NoCount /\ tree'[root].seenInPhase
        /\ Labelled(root, tree'[root].locations)
    BY <1>3, <1>4, <1>6 DEF Node, Labelled
  <1>8. \A p \in DOMAIN tree : p # root => tree'[p] = end_phase_node[p]
    BY <1>2, <1>3
  <1>9. CountAt(root)' = NoCount /\ \A p \in DOMAIN tree : CountAt(p)' = NoCount
    BY <1>2 DEF CountAt
  <1>10. NodesInv'
    <2>1. ASSUME NEW p \in DOMAIN tree
          PROVE  tree'[p] \in Node /\ tree'[p].count = NoCount /\ Labelled(p, tree'[p].locations)
      <3>1. CASE p = root
        BY <1>7, <3>1
      <3>2. CASE p # root
        BY <1>4, <1>8, <3>2
      <3>3. QED
        BY <3>1, <3>2
    <2>2. QED
      BY <1>5, <1>9, <2>1 DEF NodesInv, Labelled
  <1>11. SeenInv'
    <2>1. \A p \in DOMAIN tree : tree'[p].seenInPhase => p = root
      BY <1>4, <1>8
    <2>2. root \in RecordedPaths'
      BY DEF RecordedPaths, root
    <2>3. QED
      BY <1>2, <1>3, <1>5, <1>7, <2>1, <2>2 DEF SeenInv
  <1>12. QED
    BY <1>10, <1>11 DEF TreeInv

\* The nodes of a path are its prefixes, the last of them the path itself.
LEMMA NodesOfPath ==
    ASSUME NEW S, NEW path \in Seq(S)
    PROVE  /\ \A k \in 1 .. Len(path) : SubSeq(path, 1, k) # root /\ Last(SubSeq(path, 1, k)) = path[k]
           /\ path # root => path \in Nodes(path)
           /\ root \notin Nodes(path)
  <1>1. \A k \in 1 .. Len(path) : Len(SubSeq(path, 1, k)) = k /\ SubSeq(path, 1, k)[k] = path[k]
    OBVIOUS
  <1>2. \A k \in 1 .. Len(path) : SubSeq(path, 1, k) # root /\ Last(SubSeq(path, 1, k)) = path[k]
    <2>1. Len(root) = 0
      BY DEF root
    <2>2. QED
      BY <1>1, <2>1 DEF Last
  <1>3. ASSUME path # root
        PROVE  path \in Nodes(path)
    <2>1. Len(path) \in 1 .. Len(path)
      BY <1>3 DEF root
    <2>2. SubSeq(path, 1, Len(path)) = path
      OBVIOUS
    <2>3. QED
      BY <2>1, <2>2 DEF Nodes
  <1>4. root \notin Nodes(path)
    BY <1>2 DEF Nodes
  <1>5. QED
    BY <1>2, <1>3, <1>4

\* The node at p, found or made, marked.
LEMMA MarkedNode ==
    ASSUME NEW node \in Node, NEW p
    PROVE  /\ Mark(p, node) \in Node /\ Mark(p, node).seenInPhase
           /\ Mark(p, node).count = node.count /\ Mark(p, node).locations = node.locations
  BY DEF Mark, Node

\* The tree along a path that has been walked: all its nodes are there, seen
\* and named, and no count has changed.
LEMMA WalkedNodes ==
    ASSUME TreeInv, NEW path \in Seq(PCs), NEW st \in OKTables,
           \A k \in 1 .. Len(path) :
               SubSeq(path, 1, k) \notin DOMAIN tree => path[k] \in DOMAIN st.addrs
    PROVE  /\ DOMAIN Walked(path, st.addrs) = DOMAIN tree \cup Nodes(path)
           /\ \A p \in DOMAIN tree \cup Nodes(path) :
                 LET node == Walked(path, st.addrs)[p] IN
                 /\ node \in Node /\ node.count = CountAt(p)
                 /\ Labelled(p, node.locations)
                 /\ p \in Nodes(path) => node.seenInPhase
                 /\ p \in DOMAIN tree /\ tree[p].seenInPhase => node.seenInPhase
                 /\ node.seenInPhase => p \in Nodes(path) \/ (p \in DOMAIN tree /\ tree[p].seenInPhase)
  <1>1. PICK addrs : addrs = st.addrs
    OBVIOUS
  <1>2. ASSUME NEW p \in Nodes(path)
        PROVE  /\ NodeAt(p, addrs) \in Node /\ NodeAt(p, addrs).count = CountAt(p)
               /\ Labelled(p, NodeAt(p, addrs).locations)
    <2>1. PICK k \in 1 .. Len(path) : p = SubSeq(path, 1, k)
      BY DEF Nodes
    <2>2. p # root /\ Last(p) = path[k] /\ p \in Seq(PCs)
      BY <2>1, NodesOfPath
    <2>3. CASE p \in DOMAIN tree
      BY <2>2, <2>3 DEF NodeAt, TreeInv, NodesInv
    <2>4. CASE p \notin DOMAIN tree
      <3>1. PICK pc : pc = path[k]
        OBVIOUS
      <3>2. pc \in PCs /\ pc \in DOMAIN addrs
        BY <1>1, <2>1, <2>4, <3>1
      <3>3. Located(addrs[pc], pc, Len(Pcinfo[pc]), st.methods)
        BY <1>1, <3>2 DEF OKTables, AddrsLocated
      <3>4. addrs[pc] \in Seq(Location) /\ Labelled(p, addrs[pc])
        BY <2>2, <3>1, <3>2, <3>3 DEF Located, Labelled
      <3>5. NodeAt(p, addrs) = ProfileNode(addrs[pc])
        BY <2>2, <2>4, <3>1 DEF NodeAt
      <3>6. CountAt(p) = NoCount
        BY <2>4 DEF CountAt, TreeInv, SeenInv
      <3>7. QED
        BY <3>4, <3>5, <3>6, FreshNode
    <2>5. QED
      BY <2>3, <2>4
  <1> DEFINE W == Walked(path, addrs)
  <1>3. /\ DOMAIN W = DOMAIN tree \cup Nodes(path)
        /\ \A p \in DOMAIN tree \cup Nodes(path) :
              W[p] = IF p \in Nodes(path) THEN Mark(p, NodeAt(p, addrs)) ELSE tree[p]
    BY DEF Walked
  <1> HIDE DEF W
  <1>4. ASSUME NEW p \in DOMAIN tree \cup Nodes(path)
        PROVE  /\ W[p] \in Node /\ W[p].count = CountAt(p)
               /\ Labelled(p, W[p].locations)
               /\ p \in Nodes(path) => W[p].seenInPhase
               /\ p \in DOMAIN tree /\ tree[p].seenInPhase => W[p].seenInPhase
               /\ W[p].seenInPhase => p \in Nodes(path) \/ (p \in DOMAIN tree /\ tree[p].seenInPhase)
    <2>1. CASE p \in Nodes(path)
      <3>1. PICK node : node = NodeAt(p, addrs)
        OBVIOUS
      <3>2. W[p] = Mark(p, node) /\ node \in Node /\ node.count = CountAt(p)
            /\ Labelled(p, node.locations)
        BY <1>2, <1>3, <2>1, <3>1
      <3>3. QED
        BY <2>1, <3>2, MarkedNode
    <2>2. CASE p \notin Nodes(path)
      BY <1>3, <2>2 DEF TreeInv, NodesInv
    <2>3. QED
      BY <2>1, <2>2
  <1>5. QED
    BY <1>1, <1>3, <1>4 DEF W

\* A trace is counted at the end of its path.
LEMMA CountKeeps ==
    ASSUME QueueInv, WriterInv, TreeInv, RecordForPrometheus
    PROVE  TreeInv'
  <1>1. output \in Slots /\ slots[output].committed /\ UNCHANGED scraped /\ recordTrace(output)
    BY DEF QueueInv, QueueType, RecordForPrometheus, Ready
  <1>2. CASE slots[output].num_frames < 0
    <2>1. UNCHANGED <<tree, recorded, scraped>>
      BY <1>1, <1>2 DEF recordTrace
    <2>2. QED
      BY <2>1 DEF TreeInv, NodesInv, SeenInv, CountAt, RecordedPaths, Labelled
  <1>3. CASE ~(slots[output].num_frames < 0)
    <2>1. PICK fs, path, c, st, W : /\ fs = Frames(output) /\ path = PathOf(fs)
                                    /\ c = slots[output].signum /\ st = LookupNew(fs)
                                    /\ W = Walked(path, st.addrs)
      OBVIOUS
    <2>2. PICK count : count = [CountAt(path) EXCEPT ![c] = @ + 1]
      OBVIOUS
    <2>3. /\ tree' = [W EXCEPT ![path].count[c] = @ + 1]
          /\ recorded' = Known(recorded, path, count)
      BY <1>1, <1>3, <2>1, <2>2 DEF recordTrace, CountAt
    <2>4. c \in Signals
      BY <1>1, <2>1 DEF QueueInv, CommitInv, Complete
    <2>5. PICK n \in Nat : /\ DOMAIN fs = 1 .. n
                           /\ \A k \in 1 .. n : Looked(fs[k]) /\ fs[k].frame \in PCs
      BY <1>1, <1>3, <2>1, FramesLooked
    <2>6. path \in Seq(PCs) /\ Len(path) = n /\ \A k \in 1 .. n : path[k] = fs[k].frame
      <3>1. path = [k \in 1 .. n |-> fs[k].frame]
        BY <2>1, <2>5 DEF PathOf
      <3>2. path \in [1 .. n -> PCs]
        BY <2>5, <3>1
      <3>3. QED
        BY <3>1, <3>2
    <2>7. /\ st \in OKTables
          /\ \A k \in 1 .. Len(path) : SubSeq(path, 1, k) \notin DOMAIN tree => path[k] \in DOMAIN st.addrs
      <3>1. TablesInv
        BY DEF WriterInv
      <3>2. QED
        BY <2>1, <2>5, <2>6, <3>1, LookupNewKeeps
    <2> DEFINE P == DOMAIN tree \cup Nodes(path)
    <2>8. /\ DOMAIN W = P
          /\ \A p \in P : /\ W[p] \in Node /\ W[p].count = CountAt(p)
                          /\ Labelled(p, W[p].locations)
                          /\ p \in Nodes(path) => W[p].seenInPhase
                          /\ p \in DOMAIN tree /\ tree[p].seenInPhase => W[p].seenInPhase
                          /\ W[p].seenInPhase =>
                                p \in Nodes(path) \/ (p \in DOMAIN tree /\ tree[p].seenInPhase)
      BY <2>1, <2>6, <2>7, WalkedNodes
    <2>9. path \in P /\ root \in DOMAIN tree
      BY <2>6, NodesOfPath DEF TreeInv, SeenInv
    <2>10. /\ DOMAIN tree' = P
           /\ \A p \in P : p # path => tree'[p] = W[p]
           /\ tree'[path] = [W[path] EXCEPT !.count[c] = @ + 1]
      BY <2>3, <2>8, <2>9
    <2> HIDE DEF P
    <2>11. count \in [Signals -> Nat] /\ CountAt(path) \in [Signals -> Nat]
      <3>1. CountAt(path) \in [Signals -> Nat]
        BY <2>8, <2>9 DEF Node
      <3>2. CountAt(path)[c] + 1 \in Nat
        BY <2>4, <3>1
      <3>3. QED
        BY <2>2, <2>4, <3>1, <3>2
    <2>12. /\ tree'[path] \in Node /\ tree'[path].count = count
           /\ tree'[path].locations = W[path].locations
           /\ tree'[path].seenInPhase = W[path].seenInPhase
      <3>1. PICK node : node = W[path]
        OBVIOUS
      <3>2. node \in Node /\ node.count = CountAt(path)
        BY <2>8, <2>9, <3>1
      <3>3. tree'[path] = [node EXCEPT !.count = count]
        BY <2>2, <2>10, <3>1, <3>2
      <3>4. QED
        BY <2>11, <3>1, <3>2, <3>3 DEF Node
    <2>13. /\ DOMAIN recorded' = DOMAIN recorded \cup {path}
           /\ recorded'[path] = count
           /\ \A p \in DOMAIN recorded : p # path => recorded'[p] = recorded[p]
      BY <2>3 DEF Known
    <2>14. CountAt(path)' = count /\ \A p \in P : p # path => CountAt(p)' = CountAt(p)
      BY <2>13 DEF CountAt
    <2>15. NodesInv'
      <3> SUFFICES ASSUME NEW p \in P
                   PROVE  /\ tree'[p] \in Node /\ tree'[p].count = CountAt(p)'
                          /\ Labelled(p, tree'[p].locations)
        BY <2>10 DEF NodesInv, Labelled
      <3>1. CASE p = path
        BY <2>8, <2>9, <2>12, <2>14, <3>1
      <3>2. CASE p # path
        BY <2>8, <2>10, <2>14, <3>2
      <3>3. QED
        BY <3>1, <3>2
    <2>16. SeenInv'
      <3>1. \A p \in P : tree'[p].seenInPhase = W[p].seenInPhase
        BY <2>10, <2>12
      <3>2. root \in P /\ DOMAIN tree \subseteq P /\ Nodes(path) \subseteq P
        BY <2>9 DEF P
      <3>3. scraped' => tree'[root].seenInPhase
        BY <1>1, <2>8, <2>9, <3>1, <3>2 DEF TreeInv, SeenInv
      <3>4. ASSUME NEW p \in DOMAIN recorded'
            PROVE  p \in P /\ \A q \in Nodes(p) : q \in P /\ tree'[q].seenInPhase
        <4>1. CASE p = path
          BY <2>8, <2>9, <3>1, <3>2, <4>1
        <4>2. CASE p # path
          BY <2>8, <2>13, <3>1, <3>2, <4>2 DEF TreeInv, SeenInv
        <4>3. QED
          BY <4>1, <4>2
      <3>5. ASSUME NEW p \in P, tree'[p].seenInPhase
            PROVE  p \in RecordedPaths'
        <4>1. p \in Nodes(path) \/ p \in RecordedPaths
          BY <2>8, <3>1, <3>5 DEF TreeInv, SeenInv
        <4>2. DOMAIN recorded \subseteq DOMAIN recorded' /\ path \in DOMAIN recorded'
          BY <2>13
        <4>3. QED
          BY <4>1, <4>2 DEF RecordedPaths, root, Nodes
      <3>6. QED
        BY <2>10, <3>2, <3>3, <3>4, <3>5 DEF SeenInv
    <2>17. QED
      BY <2>15, <2>16 DEF TreeInv
  <1>4. QED
    BY <1>2, <1>3

LEMMA NextTreeInv == QueueInv /\ WriterInv /\ TreeInv /\ [Next]_vars => TreeInv'
  <1> SUFFICES ASSUME QueueInv, WriterInv, TreeInv, [Next]_vars PROVE TreeInv'
    OBVIOUS
  <1>1. ASSUME UNCHANGED prometheusVars
        PROVE  TreeInv'
    BY <1>1 DEF prometheusVars, TreeInv, NodesInv, SeenInv, CountAt, RecordedPaths, Labelled
  <1>2. ASSUME NEW t \in Threads, Signalled(t)
        PROVE  TreeInv'
    BY <1>1, <1>2 DEF Signalled
  <1>3. CASE onSocketConnect \/ onFirstSampleRate \/ onDisconnect
    BY <1>1, <1>3 DEF onSocketConnect, onFirstSampleRate, onDisconnect
  <1>4. CASE ScrapeInPoll
    BY <1>4, ScrapeKeeps DEF ScrapeInPoll
  <1>5. CASE StartPops \/ PopMain \/ MainEmpty \/ RecordForCollector \/ StackEmpty \/ NextPop
    BY <1>1, <1>5 DEF StartPops, PopMain, MainEmpty, RecordForCollector, StackEmpty, NextPop
  <1>6. CASE RecordForPrometheus
    BY <1>6, CountKeeps
  <1>7. CASE UNCHANGED vars
    BY <1>1, <1>7 DEF vars
  <1>8. QED
    BY <1>2, <1>3, <1>4, <1>5, <1>6, <1>7 DEF Next, Processor

\* A node on the way to a node of a path is on the way of the path.
LEMMA NodesOfNode ==
    ASSUME NEW path \in Seq(PCs), NEW p \in Nodes(path)
    PROVE  p \in Seq(PCs) /\ Nodes(p) \subseteq Nodes(path)
  <1>1. PICK k \in 1 .. Len(path) : p = SubSeq(path, 1, k)
    BY DEF Nodes
  <1>2. p \in Seq(PCs) /\ Len(p) = k
    BY <1>1
  <1>3. ASSUME NEW i \in 1 .. k
        PROVE  SubSeq(p, 1, i) = SubSeq(path, 1, i) /\ i \in 1 .. Len(path)
    BY <1>1, <1>3
  <1>4. QED
    BY <1>2, <1>3 DEF Nodes

\* A node of the tree has the functions of its address.
LEMMA FunctionsAre ==
    ASSUME TreeInv, NEW p \in DOMAIN tree
    PROVE  functions(p) = FunctionsAt(p)
  <1>1. CASE p = root
    BY <1>1 DEF functions, FunctionsAt
  <1>2. CASE p # root
    <2>1. PICK pc, locations : pc = Last(p) /\ locations = tree[p].locations
      OBVIOUS
    <2>2. PICK n \in Nat : n = Len(Pcinfo[pc]) /\ DOMAIN Pcinfo[pc] = 1 .. n /\ pc \in PCs
      BY <1>2, <2>1, PcinfoSeq DEF TreeInv, NodesInv, Labelled, Addresses
    <2>3. /\ locations \in Seq(Location) /\ Len(locations) = n
          /\ \A k \in 1 .. n : locations[k].functionName = NameOf(pc, k)
      BY <1>2, <2>1, <2>2 DEF TreeInv, NodesInv, Labelled, Node
    <2>4. DOMAIN locations = 1 .. n
      BY <2>3
    <2>5. functions(p) = [k \in 1 .. n |-> NameOf(pc, k)]
      BY <1>2, <2>1, <2>3, <2>4 DEF functions
    <2>6. FunctionsAt(p) = [k \in 1 .. n |-> NameOf(pc, k)]
      BY <1>2, <2>1, <2>2 DEF FunctionsAt, NameOf, SymbolOf, handleSyminfo
    <2>7. QED
      BY <2>5, <2>6
  <1>3. QED
    BY <1>1, <1>2

\* What is shown is what was recorded.
LEMMA ShownIs ==
    ASSUME TreeInv, scraped
    PROVE  Shown = RecordedPaths
  <1>1. \A p \in DOMAIN tree : p \in Seq(PCs)
    <2>1. root \in Seq(PCs)
      BY DEF root
    <2>2. QED
      BY <2>1 DEF TreeInv, NodesInv, Labelled
  <1>2. root \in DOMAIN tree /\ tree[root].seenInPhase
    BY DEF TreeInv, SeenInv
  <1>3. ASSUME NEW p \in Shown
        PROVE  p \in RecordedPaths
    <2>1. p \in DOMAIN tree /\ \A n \in Nodes(p) : tree[n].seenInPhase
      BY DEF Shown
    <2>2. p = root \/ p \in Nodes(p)
      BY <1>1, <2>1, NodesOfPath
    <2>3. QED
      BY <2>1, <2>2 DEF TreeInv, SeenInv, RecordedPaths
  <1>4. ASSUME NEW p \in RecordedPaths
        PROVE  p \in Shown
    <2>1. CASE p = root
      <3>1. Nodes(root) = {}
        <4>1. Len(root) = 0 /\ 1 .. 0 = {}
          BY DEF root
        <4>2. QED
          BY <4>1 DEF Nodes
      <3>2. QED
        BY <1>2, <2>1, <3>1 DEF Shown
    <2>2. CASE p # root
      <3>1. PICK q \in DOMAIN recorded : p \in Nodes(q)
        BY <2>2 DEF RecordedPaths
      <3>2. q \in DOMAIN tree /\ \A n \in Nodes(q) : n \in DOMAIN tree /\ tree[n].seenInPhase
        BY DEF TreeInv, SeenInv
      <3>3. Nodes(p) \subseteq Nodes(q)
        BY <1>1, <3>1, <3>2, NodesOfNode
      <3>4. QED
        BY <1>2, <3>1, <3>2, <3>3 DEF Shown
    <2>3. QED
      BY <2>1, <2>2
  <1>5. QED
    BY <1>3, <1>4

\* A shown node has the signature of its path.
LEMMA SignatureIs ==
    ASSUME TreeInv, scraped, NEW p \in Shown, NEW j
    PROVE  commonStr(p, j) = Signature(p, j)
  <1>1. p \in DOMAIN tree /\ p \in Seq(PCs)
    <2>1. root \in Seq(PCs)
      BY DEF root
    <2>2. QED
      BY <2>1 DEF Shown, TreeInv, NodesInv, Labelled
  <1>2. ASSUME NEW k \in 1 .. Len(p)
        PROVE  functions(SubSeq(p, 1, k - 1)) = FunctionsAt(SubSeq(p, 1, k - 1))
    <2>1. CASE k = 1
      <3>1. SubSeq(p, 1, k - 1) = root
        BY <1>1, <2>1 DEF root
      <3>2. QED
        BY <3>1 DEF functions, FunctionsAt
    <2>2. CASE k # 1
      <3>1. PICK i \in 1 .. Len(p) : i = k - 1
        BY <1>1, <2>2
      <3>2. PICK q : q = SubSeq(p, 1, i)
        OBVIOUS
      <3>3. q \in Nodes(p)
        BY <3>2 DEF Nodes
      <3>4. p # root
        BY DEF root
      <3>5. q \in DOMAIN tree
        <4>1. PICK r \in DOMAIN recorded : p \in Nodes(r)
          BY <3>4, ShownIs DEF RecordedPaths
        <4>2. r \in DOMAIN tree /\ \A n \in Nodes(r) : n \in DOMAIN tree
          BY DEF TreeInv, SeenInv
        <4>3. r \in Seq(PCs)
          <5>1. root \in Seq(PCs)
            BY DEF root
          <5>2. QED
            BY <4>2, <5>1 DEF TreeInv, NodesInv, Labelled
        <4>4. QED
          BY <3>3, <4>1, <4>2, <4>3, NodesOfNode
      <3>6. QED
        BY <3>1, <3>2, <3>5, FunctionsAre
    <2>3. QED
      BY <2>1, <2>2
  <1>3. PICK m : m = Len(p)
    OBVIOUS
  <1>4. [k \in 1 .. m |-> functions(SubSeq(p, 1, k - 1))] = [k \in 1 .. m |-> FunctionsAt(SubSeq(p, 1, k - 1))]
    BY <1>2, <1>3
  <1>5. functions(p) = FunctionsAt(p)
    BY <1>1, FunctionsAre
  <1>6. QED
    BY <1>3, <1>4, <1>5 DEF commonStr, Signature

\* From the second scrape on, a scrape prints exactly the nodes on the paths
\* recorded since the one before, a line with the recorded count for each
\* function inlined there, for every number of threads, addresses and
\* slots: end_phase_node resets every node and keeps it
\* (prometheus_exporter.cpp:44), recordStackTrace marks the nodes it finds
\* as it marks those it makes, and the locations a node was made with are
\* those of its address.
THEOREM ScrapesExact == WalkLength <= maxFramesToCapture => (Spec => []ScrapeExact)
  <1> SUFFICES ASSUME WalkLength <= maxFramesToCapture
               PROVE  Spec => []ScrapeExact
    OBVIOUS
  <1> DEFINE Inv == QueueInv /\ WriterInv /\ TreeInv
  <1>1. Inv /\ [Next]_vars => Inv'
    BY NextQueueInv, NextWriterInv, NextTreeInv
  <1>2. Inv => ScrapeExact
    <2> SUFFICES ASSUME TreeInv, scraped, NEW c \in Signals
                 PROVE  write_profile_node(c) =
                            UNION {{Line(p, Signature(p, j), CountAt(p)[c]) : j \in DOMAIN FunctionsAt(p)} :
                                      p \in RecordedPaths}
      BY DEF ScrapeExact
    <2>1. Shown = RecordedPaths
      BY ShownIs
    <2> DEFINE Written(p) == {Line(p, commonStr(p, j), tree[p].count[c]) : j \in DOMAIN functions(p)}
               Expected(p) == {Line(p, Signature(p, j), CountAt(p)[c]) : j \in DOMAIN FunctionsAt(p)}
    <2>2. ASSUME NEW p \in Shown
          PROVE  Written(p) = Expected(p)
      <3>1. p \in DOMAIN tree
        BY DEF Shown
      <3>2. functions(p) = FunctionsAt(p) /\ tree[p].count = CountAt(p)
        BY <3>1, FunctionsAre DEF TreeInv, NodesInv
      <3>3. \A j : commonStr(p, j) = Signature(p, j)
        BY SignatureIs
      <3>4. QED
        BY <3>2, <3>3
    <2>3. write_profile_node(c) = UNION {Written(p) : p \in Shown}
      BY DEF write_profile_node
    <2> HIDE DEF Written, Expected
    <2>4. UNION {Written(p) : p \in Shown} = UNION {Expected(p) : p \in Shown}
      BY <2>2
    <2>5. QED
      BY <2>1, <2>3, <2>4 DEF Expected
  <1>3. Init => Inv
    BY InitQueueInv, InitWriterInv, InitTreeInv
  <1>4. QED
    BY <1>1, <1>2, <1>3, PTL DEF Spec

-----------------------------------------------------------------------------
(* Sequences put end to end *)

\* acc[i] is the first i of the sequences end to end.
IsFlat(acc, S, seqs, n) ==
    /\ acc \in [1 .. n -> Seq(S)]
    /\ \A i \in 1 .. n : acc[i] = IF i = 1 THEN seqs[1] ELSE acc[i - 1] \o seqs[i]
Flattened(S, seqs, N) == {n \in Nat : n <= N => \E acc : IsFlat(acc, S, seqs, n)}

LEMMA FlatExists ==
    ASSUME NEW S, NEW N \in Nat, NEW seqs \in [1 .. N -> Seq(S)]
    PROVE  \E acc : IsFlat(acc, S, seqs, N)
  <1>1. 0 \in Flattened(S, seqs, N)
    <2>1. 1 .. 0 = {}
      OBVIOUS
    <2>2. IsFlat([i \in {} |-> << >>], S, seqs, 0)
      BY <2>1 DEF IsFlat
    <2>3. QED
      BY <2>2 DEF Flattened
  <1>2. ASSUME NEW n \in Nat, n \in Flattened(S, seqs, N)
        PROVE  n + 1 \in Flattened(S, seqs, N)
    <2> SUFFICES ASSUME n + 1 <= N
                 PROVE  \E acc : IsFlat(acc, S, seqs, n + 1)
      BY DEF Flattened
    <2>1. n <= N /\ n + 1 \in 1 .. N
      OBVIOUS
    <2>2. PICK acc : IsFlat(acc, S, seqs, n)
      BY <1>2, <2>1 DEF Flattened
    <2>3. PICK t \in Seq(S) : t = seqs[n + 1]
      BY <2>1
    <2> DEFINE longer == [i \in 1 .. n + 1 |-> IF i <= n THEN acc[i]
                                               ELSE IF i = 1 THEN t ELSE acc[i - 1] \o t]
    <2>4. \A i \in 1 .. n : acc[i] \in Seq(S)
      BY <2>2 DEF IsFlat
    <2>5. ASSUME NEW i \in 1 .. n + 1
          PROVE  /\ longer[i] \in Seq(S)
                 /\ longer[i] = IF i = 1 THEN seqs[1] ELSE longer[i - 1] \o seqs[i]
      <3>1. CASE i <= n
        <4>1. i \in 1 .. n
          BY <3>1
        <4>2. longer[i] = acc[i]
          BY <3>1
        <4>3. i # 1 => longer[i - 1] = acc[i - 1]
          BY <4>1
        <4>4. QED
          BY <2>2, <2>4, <4>1, <4>2, <4>3 DEF IsFlat
      <3>2. CASE ~(i <= n)
        <4>1. i = n + 1
          BY <3>2
        <4>2. longer[i] = IF i = 1 THEN t ELSE acc[i - 1] \o t
          BY <3>2
        <4>3. i # 1 => i - 1 \in 1 .. n /\ longer[i - 1] = acc[i - 1]
          BY <4>1
        <4>4. i # 1 => acc[i - 1] \in Seq(S)
          BY <2>4, <4>3
        <4>5. QED
          BY <2>3, <4>1, <4>2, <4>3, <4>4
      <3>3. QED
        BY <3>1, <3>2
    <2> HIDE DEF longer
    <2>6. longer \in [1 .. n + 1 -> Seq(S)]
      BY <2>5 DEF longer
    <2>7. IsFlat(longer, S, seqs, n + 1)
      BY <2>5, <2>6 DEF IsFlat
    <2>8. QED
      BY <2>7
  <1>3. N \in Flattened(S, seqs, N)
    BY <1>1, <1>2, SetInduction
  <1>4. QED
    BY <1>3 DEF Flattened

\* FlattenSeq is the last of them.
LEMMA FlattenIs ==
    ASSUME NEW S, NEW n \in Nat \ {0}, NEW seqs \in [1 .. n -> Seq(S)]
    PROVE  \E acc : IsFlat(acc, S, seqs, n) /\ FlattenSeq(seqs) = acc[n]
  <1> DEFINE Eqn(f) == f = [i \in 1 .. n |-> IF i = 1 THEN seqs[i] ELSE f[i - 1] \o seqs[i]]
             flatten == CHOOSE f : Eqn(f)
  <1>1. FlattenSeq(seqs) = flatten[n]
    <2>1. Len(seqs) = n /\ n # 0
      OBVIOUS
    <2>2. QED
      BY <2>1 DEF FlattenSeq
  <1>2. PICK acc : IsFlat(acc, S, seqs, n)
    <2>1. n \in Nat
      OBVIOUS
    <2>2. QED
      BY <2>1, FlatExists
  <1>3. Eqn(acc)
    BY <1>2 DEF IsFlat
  <1>4. Eqn(flatten)
    <2> HIDE DEF Eqn
    <2>1. QED
      BY <1>3
  <1> HIDE DEF flatten
  <1>5. \A i \in 1 .. n : flatten[i] = IF i = 1 THEN seqs[i] ELSE flatten[i - 1] \o seqs[i]
    BY <1>4
  <1> HIDE DEF Eqn
  <1> DEFINE T == {i \in Nat : i + 1 <= n => flatten[i + 1] = acc[i + 1]}
  <1>6. 0 \in T
    <2>1. 1 \in 1 .. n
      OBVIOUS
    <2>2. flatten[1] = seqs[1] /\ acc[1] = seqs[1]
      BY <1>2, <1>5, <2>1 DEF IsFlat
    <2>3. QED
      BY <2>2
  <1>7. ASSUME NEW i \in Nat, i \in T
        PROVE  i + 1 \in T
    <2> SUFFICES ASSUME (i + 1) + 1 <= n
                 PROVE  flatten[(i + 1) + 1] = acc[(i + 1) + 1]
      OBVIOUS
    <2>1. PICK j \in Nat : j = (i + 1) + 1
      OBVIOUS
    <2>2. j \in 1 .. n /\ j # 1 /\ j - 1 = i + 1
      BY <2>1
    <2>3. flatten[j] = flatten[j - 1] \o seqs[j] /\ acc[j] = acc[j - 1] \o seqs[j]
      BY <1>2, <1>5, <2>2 DEF IsFlat
    <2>4. flatten[j - 1] = acc[j - 1]
      BY <1>7, <2>2
    <2>5. QED
      BY <2>1, <2>3, <2>4
  <1>8. PICK m \in Nat : n = m + 1
    <2>1. n - 1 \in Nat /\ n = (n - 1) + 1
      OBVIOUS
    <2>2. QED
      BY <2>1
  <1> HIDE DEF T
  <1>9. m \in T
    BY <1>6, <1>7, SetInduction
  <1>10. flatten[n] = acc[n]
    BY <1>8, <1>9 DEF T
  <1>11. QED
    BY <1>1, <1>2, <1>10

\* One more sequence is added at the end.
LEMMA FlattenAppend ==
    ASSUME NEW S, NEW n \in Nat, NEW seqs \in [1 .. n -> Seq(S)],
           NEW longer \in [1 .. n + 1 -> Seq(S)], \A i \in 1 .. n : longer[i] = seqs[i]
    PROVE  /\ FlattenSeq(seqs) \in Seq(S)
           /\ FlattenSeq(longer) = FlattenSeq(seqs) \o longer[n + 1]
  <1>1. n + 1 \in Nat \ {0} /\ n + 1 \in 1 .. n + 1
    OBVIOUS
  <1>2. PICK acc1 : IsFlat(acc1, S, longer, n + 1) /\ FlattenSeq(longer) = acc1[n + 1]
    BY <1>1, FlattenIs
  <1>3. CASE n = 0
    <2>1. Len(seqs) = 0 /\ seqs = << >>
      BY <1>3
    <2>2. FlattenSeq(seqs) = << >>
      BY <2>1 DEF FlattenSeq
    <2>3. FlattenSeq(longer) = longer[1] /\ longer[1] \in Seq(S)
      BY <1>1, <1>2, <1>3 DEF IsFlat
    <2>4. QED
      BY <1>3, <2>2, <2>3
  <1>4. CASE n # 0
    <2>1. n \in Nat \ {0}
      BY <1>4
    <2>2. PICK acc : IsFlat(acc, S, seqs, n) /\ FlattenSeq(seqs) = acc[n]
      BY <2>1, FlattenIs
    <2> DEFINE T == {i \in Nat : i + 1 <= n => acc1[i + 1] = acc[i + 1]}
    <2>3. 0 \in T
      <3>1. 1 \in 1 .. n /\ 1 \in 1 .. n + 1
        BY <2>1
      <3>2. QED
        BY <1>2, <2>2, <3>1 DEF IsFlat
    <2>4. ASSUME NEW i \in Nat, i \in T
          PROVE  i + 1 \in T
      <3> SUFFICES ASSUME (i + 1) + 1 <= n
                   PROVE  acc1[(i + 1) + 1] = acc[(i + 1) + 1]
        OBVIOUS
      <3>1. PICK j \in Nat : j = (i + 1) + 1
        OBVIOUS
      <3>2. j \in 1 .. n /\ j \in 1 .. n + 1 /\ j # 1 /\ j - 1 = i + 1
        BY <3>1
      <3>3. acc1[j] = acc1[j - 1] \o longer[j] /\ acc[j] = acc[j - 1] \o seqs[j]
        BY <1>2, <2>2, <3>2 DEF IsFlat
      <3>4. acc1[j - 1] = acc[j - 1]
        BY <2>4, <3>2
      <3>5. QED
        BY <3>1, <3>2, <3>3, <3>4
    <2>5. PICK m \in Nat : n = m + 1
      <3>1. n - 1 \in Nat /\ n = (n - 1) + 1
        BY <2>1
      <3>2. QED
        BY <3>1
    <2> HIDE DEF T
    <2>6. m \in T
      BY <2>3, <2>4, SetInduction
    <2>7. acc1[n] = acc[n]
      BY <2>5, <2>6 DEF T
    <2>8. acc[n] \in Seq(S)
      BY <2>1, <2>2 DEF IsFlat
    <2>9. acc1[n + 1] = acc1[n] \o longer[n + 1]
      <3>1. n + 1 # 1 /\ (n + 1) - 1 = n
        BY <2>1
      <3>2. QED
        BY <1>1, <1>2, <3>1 DEF IsFlat
    <2>10. QED
      BY <1>2, <2>2, <2>7, <2>8, <2>9
  <1>5. QED
    BY <1>3, <1>4

-----------------------------------------------------------------------------
(* The entries of a sample *)

\* The names of the functions at the frames from the handler's to the index.
NamesUpTo(frames, index) ==
    FlattenSeq([k \in 1 .. index - NUMBER_OF_SIGNAL_HANDLER_FRAMES |->
                    NamesOf(frames[k + NUMBER_OF_SIGNAL_HANDLER_FRAMES])])

\* One id for each name, the one the tables have.
Named(entries, names, methods) ==
    /\ entries \in Seq(Nat) /\ names \in Seq(Names) /\ Len(entries) = Len(names)
    /\ \A k \in 1 .. Len(names) : names[k] \in DOMAIN methods /\ entries[k] = methods[names[k]]

\* The sample has the ids of the frames so far, and the locations at hand
\* are those of the next frame.
NextPC == frame_buffer_[output][writer.index + 1].frame
EntriesInv ==
    (writer.at \in {"frame", "names"} /\ ~isError(output)) =>
        /\ writer.index # NUMBER_OF_SIGNAL_HANDLER_FRAMES => writer.index <= numFrames(output)
        /\ Named(writer.entries, NamesSoFar, knownMethodToIds_)
        /\ writer.at = "names" =>
              /\ writer.index < numFrames(output)
              /\ Located(writer.locations, NextPC, Len(Pcinfo[NextPC]), knownMethodToIds_)

LEMMA NamesOfFrame ==
    ASSUME NEW f, Looked(f)
    PROVE  /\ NamesOf(f) \in Seq(Names) /\ Len(NamesOf(f)) = Len(Pcinfo[f.frame])
           /\ \A k \in 1 .. Len(Pcinfo[f.frame]) : NamesOf(f)[k] = NameOf(f.frame, k)
  <1>1. PICK pc \in Addresses : pc = f.frame
    BY DEF Looked
  <1>2. PICK n \in Nat : n = Len(Pcinfo[pc]) /\ DOMAIN Pcinfo[pc] = 1 .. n
    BY PcinfoSeq
  <1>3. handleSyminfo(f.frame, f.isForeign) = SymbolOf(pc)
    BY <1>1 DEF Looked
  <1>4. NamesOf(f) = [k \in 1 .. n |-> NameOf(pc, k)]
    BY <1>1, <1>2, <1>3 DEF NamesOf, NameOf
  <1>5. \A k \in 1 .. n : NameOf(pc, k) \in Names
    BY <1>2, NamesHave
  <1>6. NamesOf(f) \in [1 .. n -> Names]
    BY <1>4, <1>5
  <1>7. NamesOf(f) \in Seq(Names) /\ Len(NamesOf(f)) = n
    BY <1>6
  <1>8. QED
    BY <1>1, <1>2, <1>4, <1>7

LEMMA NextNames ==
    ASSUME NEW frames, NEW index \in Nat, index >= NUMBER_OF_SIGNAL_HANDLER_FRAMES,
           \A k \in Nat : k > NUMBER_OF_SIGNAL_HANDLER_FRAMES /\ k <= index + 1 => Looked(frames[k])
    PROVE  NamesUpTo(frames, index + 1) = NamesUpTo(frames, index) \o NamesOf(frames[index + 1])
  <1>1. PICK h \in Nat : h = NUMBER_OF_SIGNAL_HANDLER_FRAMES
    BY WalkerAssumption
  <1>2. PICK n \in Nat : n = index - h
    BY <1>1
  <1>3. (index + 1) - h = n + 1 /\ (n + 1) + h = index + 1
    BY <1>1, <1>2
  <1> DEFINE N(k) == NamesOf(frames[k + h])
             seqs == [k \in 1 .. n |-> N(k)]
             longer == [k \in 1 .. n + 1 |-> N(k)]
  <1>4. ASSUME NEW k \in 1 .. n + 1
        PROVE  N(k) \in Seq(Names)
    <2>1. k + h \in Nat /\ k + h > h /\ k + h <= index + 1
      BY <1>3
    <2>2. QED
      BY <1>1, <2>1, NamesOfFrame
  <1>5. NamesUpTo(frames, index) = FlattenSeq(seqs) /\ NamesUpTo(frames, index + 1) = FlattenSeq(longer)
    BY <1>1, <1>2, <1>3 DEF NamesUpTo
  <1>6. N(n + 1) = NamesOf(frames[index + 1])
    BY <1>3
  <1> HIDE DEF N
  <1>7. seqs \in [1 .. n -> Seq(Names)] /\ longer \in [1 .. n + 1 -> Seq(Names)]
    BY <1>4
  <1>8. (\A i \in 1 .. n : longer[i] = seqs[i]) /\ longer[n + 1] = N(n + 1)
    OBVIOUS
  <1> HIDE DEF seqs, longer
  <1>9. FlattenSeq(longer) = FlattenSeq(seqs) \o longer[n + 1]
    BY <1>7, <1>8, FlattenAppend
  <1>10. QED
    BY <1>5, <1>6, <1>8, <1>9

\* The ids of the locations are those of the frame's names.
LEMMA AddedNames ==
    ASSUME NEW entries, NEW names, NEW methods, Named(entries, names, methods),
           NEW locations, NEW pc, NEW n, n \in Nat, Located(locations, pc, n, methods),
           NEW added \in Seq(Names), Len(added) = n, \A k \in 1 .. n : added[k] = NameOf(pc, k)
    PROVE  Named(entries \o [k \in DOMAIN locations |-> locations[k].methodId], names \o added, methods)
  <1> DEFINE ids == [k \in DOMAIN locations |-> locations[k].methodId]
  <1>1. locations \in Seq(Location) /\ Len(locations) = n /\ DOMAIN locations = 1 .. n
    BY DEF Located
  <1>2. \A k \in 1 .. n : locations[k].methodId \in Nat
    <2>1. \A k \in 1 .. n : locations[k] \in Location
      BY <1>1
    <2>2. QED
      BY <2>1 DEF Location
  <1>3. ids \in [1 .. n -> Nat]
    BY <1>1, <1>2
  <1>4. \A k \in 1 .. n : ids[k] = methods[added[k]] /\ added[k] \in DOMAIN methods
    BY <1>1 DEF Located
  <1> HIDE DEF ids
  <1>5. ids \in Seq(Nat) /\ Len(ids) = n
    BY <1>3
  <1>6. PICK m \in Nat : m = Len(names)
    BY DEF Named
  <1>7. /\ entries \in Seq(Nat) /\ names \in Seq(Names) /\ Len(entries) = m
        /\ \A k \in 1 .. m : names[k] \in DOMAIN methods /\ entries[k] = methods[names[k]]
    BY <1>6 DEF Named
  <1>8. /\ entries \o ids \in Seq(Nat) /\ Len(entries \o ids) = m + n
        /\ names \o added \in Seq(Names) /\ Len(names \o added) = m + n
    <2>1. entries \o ids \in Seq(Nat) /\ Len(entries \o ids) = m + n
      <3>1. PICK e \in Seq(Nat), i \in Seq(Nat) : e = entries /\ i = ids
        BY <1>5, <1>7
      <3>2. e \o i \in Seq(Nat) /\ Len(e \o i) = Len(e) + Len(i)
        OBVIOUS
      <3>3. QED
        BY <1>5, <1>7, <3>1, <3>2
    <2>2. names \o added \in Seq(Names) /\ Len(names \o added) = m + n
      <3>1. PICK s \in Seq(Names) : s = names
        BY <1>7
      <3>2. s \o added \in Seq(Names) /\ Len(s \o added) = Len(s) + Len(added)
        OBVIOUS
      <3>3. QED
        BY <1>6, <3>1, <3>2
    <2>3. QED
      BY <2>1, <2>2
  <1>9. ASSUME NEW k \in 1 .. m + n
        PROVE  /\ (names \o added)[k] \in DOMAIN methods
               /\ (entries \o ids)[k] = methods[(names \o added)[k]]
    <2>1. CASE k <= m
      <3>1. k \in 1 .. m
        BY <2>1
      <3>2. (names \o added)[k] = names[k] /\ (entries \o ids)[k] = entries[k]
        BY <1>5, <1>6, <1>7, <3>1
      <3>3. QED
        BY <1>7, <3>1, <3>2
    <2>2. CASE ~(k <= m)
      <3>1. PICK i \in 1 .. n : i = k - m
        BY <2>2
      <3>2. (names \o added)[k] = added[i] /\ (entries \o ids)[k] = ids[i]
        BY <1>5, <1>6, <1>7, <2>2, <3>1
      <3>3. QED
        BY <1>4, <3>2
    <2>3. QED
      BY <2>1, <2>2
  <1>10. QED
    BY <1>8, <1>9 DEF Named, ids

LEMMA NamesSoFarAre == NamesSoFar = NamesUpTo(captured[output], writer.index)
  BY DEF NamesSoFar, NamesUpTo

LEMMA InitEntriesInv == Init => EntriesInv
  <1> SUFFICES ASSUME Init PROVE EntriesInv
    OBVIOUS
  <1>1. writer.at = "loop"
    BY DEF Init, WriterInit, Loop
  <1>2. QED
    BY <1>1 DEF EntriesInv

\* The trace at output and what is there of its sample stay as they are.
LEMMA EntriesStay ==
    ASSUME EntriesInv, UNCHANGED <<output, knownMethodToIds_>>,
           slots'[output] = slots[output], captured'[output] = captured[output],
           frame_buffer_'[output] = frame_buffer_[output],
           writer'.at = writer.at, writer'.index = writer.index,
           writer'.entries = writer.entries, writer'.locations = writer.locations
    PROVE  EntriesInv'
  <1>1. NamesSoFar' = NamesSoFar /\ NextPC' = NextPC
    BY NamesSoFarAre DEF NamesSoFar, NextPC
  <1>2. (isError(output)' <=> isError(output)) /\ numFrames(output)' = numFrames(output)
    BY DEF isError, numFrames
  <1>3. QED
    BY <1>1, <1>2 DEF EntriesInv

\* A handler leaves the trace at output alone.
LEMMA TraceStays ==
    ASSUME QueueInv, Ready, NEW t \in Threads, Signalled(t)
    PROVE  /\ UNCHANGED output /\ slots'[output] = slots[output]
           /\ captured'[output] = captured[output]
           /\ frame_buffer_'[output] = frame_buffer_[output]
  <1>1. CASE \E is_error \in BOOLEAN : handle(t, is_error)
    BY <1>1 DEF handle
  <1>2. CASE Lose(t)
    BY <1>2 DEF Lose
  <1>3. CASE acquireWrite(t)
    BY <1>3 DEF acquireWrite
  <1>4. CASE \E walk \in linkable_handle, signum \in Signals : pushStackTrace(t, walk, signum)
    <2>1. PICK walk \in linkable_handle, signum \in Signals : pushStackTrace(t, walk, signum)
      BY <1>4
    <2>2. Writes(t)
      BY <2>1 DEF pushStackTrace, Writes
    <2>3. ~slots[handler[t].slot].committed
      BY <2>2 DEF QueueInv, WriteInv
    <2>4. handler[t].slot # output
      BY <2>3 DEF Ready
    <2>5. QED
      BY <2>1, <2>4 DEF pushStackTrace
  <1>5. QED
    BY <1>1, <1>2, <1>3, <1>4 DEF Signalled, Handler

\* The record of a trace: it begins without entries,
LEMMA BeginKeeps ==
    ASSUME WriterShape, BeginRecord
    PROVE  EntriesInv'
  <1>1. /\ writer'.at = "frame" /\ writer'.entries = << >>
        /\ writer'.index = NUMBER_OF_SIGNAL_HANDLER_FRAMES
    BY DEF BeginRecord, WriterShape
  <1>2. PICK h \in Nat : h = NUMBER_OF_SIGNAL_HANDLER_FRAMES
    BY WalkerAssumption
  <1>3. h - h = 0 /\ 1 .. 0 = {}
    OBVIOUS
  <1>4. NamesSoFar' = FlattenSeq([k \in {} |-> NamesOf(captured'[output'][k + h])])
    BY <1>1, <1>2, <1>3 DEF NamesSoFar
  <1>5. [k \in {} |-> NamesOf(captured'[output'][k + h])] = << >>
    OBVIOUS
  <1>6. PICK none : none = << >>
    OBVIOUS
  <1>7. FlattenSeq(none) = none
    BY <1>6 DEF FlattenSeq
  <1>8. NamesSoFar' = none /\ writer'.entries = none
    BY <1>1, <1>4, <1>5, <1>6, <1>7
  <1>9. Named(none, none, knownMethodToIds_')
    BY <1>3, <1>6 DEF Named
  <1>10. QED
    BY <1>1, <1>8, <1>9 DEF EntriesInv

\* a frame is looked up,
LEMMA LookedUpKeeps ==
    ASSUME QueueInv, WriterInv, EntriesInv, LookupFrame
    PROVE  EntriesInv'
  <1>1. /\ writer.at = "frame" /\ writer.index < numFrames(output)
        /\ UNCHANGED <<output, slots, captured, frame_buffer_>>
    BY DEF LookupFrame, queueVars
  <1>2. /\ writer'.at = "names" /\ writer'.index = writer.index /\ writer'.entries = writer.entries
    BY DEF LookupFrame, QueueInv, ReadInv, WriterShape
  <1>3. NamesSoFar' = NamesSoFar /\ NextPC' = NextPC /\ numFrames(output)' = numFrames(output)
        /\ (isError(output)' <=> isError(output))
    BY <1>1, <1>2 DEF NamesSoFar, NextPC, isError, numFrames
  <1>4. /\ \A m \in DOMAIN knownMethodToIds_ : /\ m \in DOMAIN knownMethodToIds_'
                                               /\ knownMethodToIds_'[m] = knownMethodToIds_[m]
        /\ Located(writer'.locations, NextPC, Len(Pcinfo[NextPC]), knownMethodToIds_')
    BY LookupFrameKeeps DEF NextPC
  <1>5. ASSUME ~isError(output)
        PROVE  Named(writer.entries, NamesSoFar, knownMethodToIds_')
    <2>1. Named(writer.entries, NamesSoFar, knownMethodToIds_)
      BY <1>1, <1>5 DEF EntriesInv
    <2>2. QED
      BY <1>4, <2>1 DEF Named
  <1>6. ~isError(output) /\ writer.index # NUMBER_OF_SIGNAL_HANDLER_FRAMES =>
            writer.index <= numFrames(output)
    BY <1>1 DEF EntriesInv
  <1>7. QED
    BY <1>1, <1>2, <1>3, <1>4, <1>5, <1>6 DEF EntriesInv

\* and its ids are added.
LEMMA AddKeeps ==
    ASSUME QueueInv, WriterInv, EntriesInv, addFrames
    PROVE  EntriesInv'
  <1>1. /\ writer.at = "names" /\ UNCHANGED <<output, slots, captured, knownMethodToIds_>>
        /\ output \in Slots /\ slots[output].committed
    BY DEF addFrames, queueVars, symbolVars, QueueInv, QueueType, ReadInv, Ready
  <1>2. PICK entries, locations : entries = writer.entries /\ locations = writer.locations
    OBVIOUS
  <1>3. /\ writer'.at = "frame" /\ writer'.index = writer.index + 1
        /\ ~isError(output) => writer'.entries = entries \o [k \in DOMAIN locations |-> locations[k].methodId]
    BY <1>2 DEF addFrames, QueueInv, ReadInv, WriterShape
  <1>4. (isError(output)' <=> isError(output)) /\ numFrames(output)' = numFrames(output)
    BY <1>1 DEF isError, numFrames
  <1>5. CASE isError(output)
    BY <1>4, <1>5 DEF EntriesInv
  <1>6. CASE ~isError(output)
    <2>1. PICK index \in Nat : index = writer.index /\ index >= NUMBER_OF_SIGNAL_HANDLER_FRAMES
      BY <1>1 DEF WriterInv, MessagesInv
    <2>2. PICK frames, methods, f : /\ frames = captured[output] /\ methods = knownMethodToIds_
                                    /\ f = frames[index + 1]
      OBVIOUS
    <2>3. PICK names : names = NamesSoFar
      OBVIOUS
    <2>4. PICK n \in Int : n = numFrames(output)
      BY <1>1 DEF QueueInv, QueueType, HolderType, numFrames, isError
    <2>5. index < n /\ Named(entries, names, methods) /\ names = NamesUpTo(frames, index)
      BY <1>1, <1>2, <1>6, <2>1, <2>2, <2>3, <2>4, NamesSoFarAre DEF EntriesInv
    <2>6. ASSUME NEW k \in Nat, k > NUMBER_OF_SIGNAL_HANDLER_FRAMES, k <= index + 1
          PROVE  Looked(frames[k]) /\ frame_buffer_[output][k] = frames[k]
      <3>1. k <= n
        BY <2>5, <2>6
      <3>2. QED
        BY <1>1, <1>6, <2>2, <2>4, <2>6, <3>1, FrameLooked
    <2>7. Looked(f) /\ frame_buffer_[output][index + 1] = f
      <3>1. index + 1 \in Nat /\ index + 1 > NUMBER_OF_SIGNAL_HANDLER_FRAMES /\ index + 1 <= index + 1
        BY <2>1, WalkerAssumption
      <3>2. QED
        BY <2>2, <2>6, <3>1
    <2>8. NamesUpTo(frames, index + 1) = names \o NamesOf(f)
      BY <2>1, <2>2, <2>5, <2>6, NextNames
    <2>9. PICK pc \in Addresses : pc = f.frame /\ pc = NextPC
      BY <2>1, <2>7 DEF Looked, NextPC
    <2>10. PICK l \in Nat : l = Len(Pcinfo[pc])
      BY PcinfoSeq
    <2>11. Located(locations, pc, l, methods)
      BY <1>1, <1>2, <1>6, <2>2, <2>9, <2>10 DEF EntriesInv
    <2>12. PICK added \in Seq(Names) : /\ added = NamesOf(f) /\ Len(added) = l
                                       /\ \A k \in 1 .. l : added[k] = NameOf(pc, k)
      BY <2>7, <2>9, <2>10, NamesOfFrame
    <2>13. PICK new : new = entries \o [k \in DOMAIN locations |-> locations[k].methodId]
      OBVIOUS
    <2>14. Named(new, names \o added, methods)
      BY <2>5, <2>11, <2>12, <2>13, AddedNames
    <2>15. NamesSoFar' = names \o added
      <3>1. NamesSoFar' = NamesUpTo(captured'[output'], writer'.index)
        BY DEF NamesSoFar, NamesUpTo
      <3>2. QED
        BY <1>1, <1>3, <2>1, <2>2, <2>8, <2>12, <3>1
    <2>16. writer'.entries = new /\ index + 1 <= n
      <3>1. writer'.entries = new
        BY <1>3, <1>6, <2>13
      <3>2. index + 1 <= n
        BY <2>5
      <3>3. QED
        BY <3>1, <3>2
    <2>17. QED
      BY <1>1, <1>3, <1>4, <2>1, <2>2, <2>4, <2>14, <2>15, <2>16 DEF EntriesInv
  <1>7. QED
    BY <1>5, <1>6

LEMMA NextEntriesInv == QueueInv /\ WriterInv /\ EntriesInv /\ [Next]_vars => EntriesInv'
  <1> SUFFICES ASSUME QueueInv, WriterInv, EntriesInv, [Next]_vars PROVE EntriesInv'
    OBVIOUS
  <1>1. WriterShape /\ (writer.at \in {"frame", "names"} => Ready)
    BY DEF QueueInv, ReadInv
  <1>2. ASSUME writer'.at \notin {"frame", "names"}
        PROVE  EntriesInv'
    BY <1>2 DEF EntriesInv
  <1>3. ASSUME NEW t \in Threads, Signalled(t)
        PROVE  EntriesInv'
    <2>1. UNCHANGED writer /\ UNCHANGED knownMethodToIds_
      BY <1>3 DEF Signalled, writerVars, symbolVars
    <2>2. CASE Ready
      BY <1>3, <2>1, <2>2, TraceStays, EntriesStay
    <2>3. CASE ~Ready
      BY <1>1, <1>2, <2>1, <2>3
    <2>4. QED
      BY <2>2, <2>3
  <1>4. CASE onSocketConnect \/ onFirstSampleRate \/ onDisconnect \/ ScrapeInPoll
    <2>1. writer.at = "loop" /\ UNCHANGED writer
      BY <1>4 DEF onSocketConnect, onFirstSampleRate, onDisconnect, ScrapeInPoll, writerVars
    <2>2. QED
      BY <1>2, <2>1
  <1>5. CASE StartPops \/ PopMain \/ MainEmpty \/ StackEmpty \/ RecordForPrometheus \/ SendSample
    <2>1. writer'.at \in {"main", "stack", "popped"}
      BY <1>1, <1>5 DEF StartPops, PopMain, MainEmpty, StackEmpty, RecordForPrometheus,
                        SendSample, WriterShape
    <2>2. QED
      BY <1>2, <2>1
  <1>6. CASE NextPop
    <2>1. \/ writer' = [writer EXCEPT !.at = "main", !.polls = @ + 1, !.read = FALSE]
          \/ writer' = Loop
      BY <1>6 DEF NextPop
    <2>2. CASE writer' = Loop
      BY <1>2, <2>2 DEF Loop
    <2>3. CASE writer' = [writer EXCEPT !.at = "main", !.polls = @ + 1, !.read = FALSE]
      <3>1. writer'.at = "main"
        BY <1>1, <2>3 DEF WriterShape
      <3>2. QED
        BY <1>2, <3>1
    <2>4. QED
      BY <2>1, <2>2, <2>3
  <1>7. CASE BeginRecord
    BY <1>1, <1>7, BeginKeeps
  <1>8. CASE LookupFrame
    BY <1>8, LookedUpKeeps
  <1>9. CASE onNew
    <2>1. /\ UNCHANGED <<output, slots, captured, frame_buffer_, knownMethodToIds_>>
          /\ writer' = [writer EXCEPT !.messages = Tail(@), !.entries = Entries(@)]
      BY <1>9 DEF onNew, queueVars, symbolVars
    <2>2. /\ writer'.at = writer.at /\ writer'.index = writer.index
          /\ writer'.entries = writer.entries /\ writer'.locations = writer.locations
      BY <1>1, <2>1 DEF WriterShape, Entries
    <2>3. QED
      BY <2>1, <2>2, EntriesStay
  <1>10. CASE addFrames
    BY <1>10, AddKeeps
  <1>11. CASE UNCHANGED vars
    <2>1. UNCHANGED <<output, slots, captured, frame_buffer_, knownMethodToIds_, writer>>
      BY <1>11 DEF vars, queueVars, symbolVars, writerVars
    <2>2. QED
      BY <2>1, EntriesStay
  <1>12. QED
    BY <1>3, <1>4, <1>5, <1>6, <1>7, <1>8, <1>9, <1>10, <1>11
    DEF Next, Processor, RecordForCollector, recordStackTrace

\* The collector can read the samples of its session: an id in a sample
\* stands for the function the walk found there, told in this session
\* before the sample, or its message was lost without ending the session.
\* It rests on the tables being emptied when a session begins
\* (log_writer.cpp:386), on the names having an envelope of their own
\* (log_writer.cpp:27), and on an address always giving the same names.
THEOREM SamplesReadable == WalkLength <= maxFramesToCapture => (Spec => []SampleReadable)
  <1> SUFFICES ASSUME WalkLength <= maxFramesToCapture
               PROVE  Spec => []SampleReadable
    OBVIOUS
  <1> DEFINE Inv == QueueInv /\ WriterInv /\ EntriesInv
  <1>1. Inv /\ [Next]_vars => Inv'
    BY NextQueueInv, NextWriterInv, NextEntriesInv
  <1>2. Inv => SampleReadable
    <2> SUFFICES ASSUME Inv, writer.at = "frame", isConnected, ~isError(output)
                 PROVE  /\ Len(writer.entries) = Len(NamesSoFar)
                        /\ \A k \in DOMAIN writer.entries :
                              LET id == writer.entries[k] IN
                              IF id \in DOMAIN told
                                THEN told[id].name = NamesSoFar[k] /\ told[id].kind = "method"
                                ELSE id \in lost
      BY DEF SampleReadable
    <2>1. PICK entries, names, methods : /\ entries = writer.entries /\ names = NamesSoFar
                                         /\ methods = knownMethodToIds_
      OBVIOUS
    <2>2. Named(entries, names, methods)
      BY <2>1 DEF EntriesInv
    <2>3. PICK n \in Nat : n = Len(names)
      BY <2>2 DEF Named
    <2>4. Len(entries) = n /\ DOMAIN entries = 1 .. n
      BY <2>2, <2>3 DEF Named
    <2>5. Len(writer.messages) = 0 /\ MethodsCovered(methods, told, lost, writer.messages)
      BY <2>1 DEF WriterInv, MessagesInv, SessionInv, SessionOK
    <2>6. ASSUME NEW m \in DOMAIN methods
          PROVE  IF methods[m] \in DOMAIN told
                   THEN told[methods[m]].name = m /\ told[methods[m]].kind = "method"
                   ELSE methods[m] \in lost
      <3>1. ~Has(writer.messages, methods[m])
        BY <2>5 DEF Has
      <3>2. SentId(told, lost, methods[m])
        BY <2>5, <3>1 DEF MethodsCovered
      <3>3. methods[m] \in DOMAIN told =>
                told[methods[m]].kind = "method" /\ told[methods[m]].name = m
        BY <2>5 DEF MethodsCovered
      <3>4. QED
        BY <3>2, <3>3 DEF SentId
    <2>7. \A k \in 1 .. n : names[k] \in DOMAIN methods /\ entries[k] = methods[names[k]]
      BY <2>2, <2>3 DEF Named
    <2>8. QED
      BY <2>1, <2>3, <2>4, <2>6, <2>7
  <1>3. Init => Inv
    BY InitQueueInv, InitWriterInv, InitEntriesInv
  <1>4. QED
    BY <1>1, <1>2, <1>3, PTL DEF Spec

==============================================================================
