---------------------------- MODULE Pipeline_proofs ----------------------------
(***************************************************************************)
(* Proofs about a sample's way: that the walk of a signal handler stays    *)
(* inside its array of frames, for every stack and every MAX_FRAMES, and   *)
(* that a slot of the queue holds the frames of its own trace, for every   *)
(* number of threads and slots.                                            *)
(***************************************************************************)
EXTENDS Pipeline, WellFoundedInduction, TLAPS

-----------------------------------------------------------------------------
(* Functions defined by recursion on a natural number *)

\* Induction over the numbers, for the members of a set.
LEMMA SetInduction ==
    ASSUME NEW T, 0 \in T, \A n \in Nat : n \in T => n + 1 \in T
    PROVE  \A n \in Nat : n \in T
  <1> SUFFICES ASSUME NEW z \in Nat, z \notin T
               PROVE  FALSE
    OBVIOUS
  <1>1. PICK x \in Nat \ T : \A y \in Nat \ T : ~(<<y, x>> \in OpToRel(<, Nat))
    <2>1. Nat \ T \subseteq Nat /\ Nat \ T # {}
      OBVIOUS
    <2>2. QED
      BY <2>1, NatLessThanWellFounded, WFMin, Zenon
  <1>2. \A y \in Nat \ T : ~(y < x)
    <2>1. ASSUME NEW y \in Nat \ T, y < x
          PROVE  <<y, x>> \in OpToRel(<, Nat)
      BY <2>1 DEF OpToRel
    <2>2. QED
      BY <1>1, <2>1, Zenon
  <1>3. x \in Nat /\ x \notin T
    BY <1>1, Zenon
  <1> HIDE <1>1
  <1>4. x # 0
    BY <1>3
  <1>5. x - 1 \in Nat /\ x - 1 < x /\ (x - 1) + 1 = x
    BY <1>3, <1>4
  <1>6. x - 1 \in T
    BY <1>2, <1>5
  <1>7. QED
    BY <1>3, <1>5, <1>6

\* The first n steps of an iteration from x0.
Approx(D, x0, step, n) ==
    {h \in [0 .. n -> D] : h[0] = x0 /\ \A m \in 0 .. n - 1 : h[m + 1] = step[h[m]]}

\* The lengths there is one of, and the places where all of them agree.
Some(D, x0, step) == {n \in Nat : \E h : h \in Approx(D, x0, step, n)}
Same(D, x0, step) ==
    {i \in Nat : \A n, m \in Nat : \A h \in Approx(D, x0, step, n), k \in Approx(D, x0, step, m) :
                     i <= n /\ i <= m => h[i] = k[i]}

LEMMA SomeOfAll ==
    ASSUME NEW D, NEW x0 \in D, NEW step \in [D -> D]
    PROVE  \A n \in Nat : n \in Some(D, x0, step)
  <1>1. 0 \in Some(D, x0, step)
    <2>1. [i \in 0 .. 0 |-> x0] \in Approx(D, x0, step, 0)
      BY DEF Approx
    <2>2. QED
      BY <2>1 DEF Some
  <1>2. ASSUME NEW n \in Nat, n \in Some(D, x0, step)
        PROVE  n + 1 \in Some(D, x0, step)
    <2>1. PICK h : h \in Approx(D, x0, step, n)
      BY <1>2 DEF Some
    <2>2. /\ h \in [0 .. n -> D]
          /\ h[0] = x0
          /\ \A m \in 0 .. n - 1 : h[m + 1] = step[h[m]]
      BY <2>1 DEF Approx
    <2> DEFINE k == [i \in 0 .. n + 1 |-> IF i <= n THEN h[i] ELSE step[h[n]]]
    <2>3. k \in [0 .. n + 1 -> D]
      BY <2>2
    <2>4. k[0] = x0
      BY <2>2
    <2>5. ASSUME NEW m \in 0 .. (n + 1) - 1
          PROVE  k[m + 1] = step[k[m]]
      <3>1. CASE m = n
        BY <2>2, <3>1
      <3>2. CASE m # n
        BY <2>2, <3>2
      <3>3. QED
        BY <3>1, <3>2
    <2> HIDE DEF k
    <2>6. k \in Approx(D, x0, step, n + 1)
      BY <2>3, <2>4, <2>5 DEF Approx
    <2>7. QED
      BY <2>6 DEF Some
  <1>3. QED
    BY <1>1, <1>2, SetInduction

LEMMA SameEverywhere ==
    ASSUME NEW D, NEW x0 \in D, NEW step \in [D -> D]
    PROVE  \A i \in Nat : i \in Same(D, x0, step)
  <1>1. 0 \in Same(D, x0, step)
    BY DEF Same, Approx
  <1>2. ASSUME NEW i \in Nat, i \in Same(D, x0, step)
        PROVE  i + 1 \in Same(D, x0, step)
    <2> SUFFICES ASSUME NEW n \in Nat, NEW m \in Nat,
                        NEW h \in Approx(D, x0, step, n), NEW k \in Approx(D, x0, step, m),
                        i + 1 <= n, i + 1 <= m
                 PROVE  h[i + 1] = k[i + 1]
      BY DEF Same
    <2>1. i <= n /\ i <= m /\ i \in 0 .. n - 1 /\ i \in 0 .. m - 1
      OBVIOUS
    <2>2. h[i] = k[i]
      BY <1>2, <2>1 DEF Same
    <2>3. h[i + 1] = step[h[i]] /\ k[i + 1] = step[k[i]]
      BY <2>1 DEF Approx
    <2>4. QED
      BY <2>2, <2>3
  <1>3. QED
    BY <1>1, <1>2, SetInduction

\* A step that stays in a set can be iterated for ever.
LEMMA IterationExists ==
    ASSUME NEW D, NEW x0 \in D, NEW step \in [D -> D]
    PROVE  \E g \in [Nat -> D] : g[0] = x0 /\ \A n \in Nat : g[n + 1] = step[g[n]]
  <1> DEFINE A(n) == Approx(D, x0, step, n)
             a(n) == CHOOSE h : h \in A(n)
             g == [n \in Nat |-> a(n)[n]]
  <1>1. ASSUME NEW n \in Nat
        PROVE  a(n) \in A(n)
    <2>1. \E h : h \in A(n)
      BY SomeOfAll DEF Some
    <2> HIDE DEF A
    <2>2. QED
      BY <2>1
  <1>2. ASSUME NEW n \in Nat
        PROVE  a(n + 1)[n] = a(n)[n]
    <2>1. n + 1 \in Nat /\ n <= n /\ n <= n + 1
      OBVIOUS
    <2>2. n \in Same(D, x0, step)
      BY SameEverywhere
    <2>3. a(n) \in A(n) /\ a(n + 1) \in A(n + 1)
      BY <1>1, <2>1
    <2> HIDE DEF a
    <2>4. QED
      BY <2>1, <2>2, <2>3 DEF Same
  <1>3. ASSUME NEW n \in Nat
        PROVE  a(n)[n] \in D /\ a(n + 1)[n + 1] = step[a(n + 1)[n]]
    <2>1. n + 1 \in Nat /\ n \in 0 .. n /\ n \in 0 .. (n + 1) - 1
      OBVIOUS
    <2>2. a(n) \in A(n) /\ a(n + 1) \in A(n + 1)
      BY <1>1, <2>1
    <2> HIDE DEF a
    <2>3. QED
      BY <2>1, <2>2 DEF Approx
  <1>4. a(0)[0] = x0
    <2>1. a(0) \in A(0)
      BY <1>1
    <2> HIDE DEF a
    <2>2. QED
      BY <2>1 DEF Approx
  <1> HIDE DEF a
  <1>5. g \in [Nat -> D]
    BY <1>3
  <1>6. ASSUME NEW n \in Nat
        PROVE  g[n + 1] = step[g[n]]
    <2>1. n + 1 \in Nat
      OBVIOUS
    <2>2. QED
      BY <1>2, <1>3, <2>1
  <1>7. g[0] = x0
    BY <1>4
  <1>8. QED
    BY <1>5, <1>6, <1>7

-----------------------------------------------------------------------------
(* linkable_handle *)

\* The most frames a walk can have: one more than the bound if a descriptor
\* may bring two frames where there is room for one.
WalkLength == IF LateCallbacks THEN MAX_FRAMES + 1 ELSE MAX_FRAMES

\* A frame is foreign exactly if its address is, and only the handler's own
\* frames have the handler's address.
GoodFrame == {f \in CallFrame : f.isForeign <=> f.frame \in Foreign \cup {HandlerPC}}
Placed(frames) ==
    \A k \in 1 .. Len(frames) : k > NUMBER_OF_SIGNAL_HANDLER_FRAMES => frames[k].frame \in PCs

WalkRecord == [frames : Seq(GoodFrame), loop : {"unwind", "descriptors"}, first : BOOLEAN,
               type : {"walking", "SUCCESS", "STEP_FAIL"}]
Walk == {w \in WalkRecord : /\ Len(w.frames) <= WalkLength
                            /\ Placed(w.frames)
                            /\ w.loop = "descriptors" => Len(w.frames) > 0}

\* What grows with every turn of a walk that goes on.
Progress(w) == IF w.loop = "descriptors" THEN 2 * Len(w.frames) - 1 ELSE 2 * Len(w.frames)

\* What appending frames does to a walk.
LEMMA FoundKeeps ==
    ASSUME NEW w \in Walk, NEW fs \in Seq(GoodFrame), Len(w.frames) + Len(fs) <= WalkLength,
           \/ Len(w.frames) < NUMBER_OF_SIGNAL_HANDLER_FRAMES /\ Len(fs) = 1
           \/ \A k \in 1 .. Len(fs) : fs[k].frame \in PCs
    PROVE  /\ Found(w, fs) \in Walk
           /\ Found(w, fs).frames = w.frames \o fs
           /\ Len(Found(w, fs).frames) = Len(w.frames) + Len(fs)
           /\ Found(w, fs).loop = w.loop /\ Found(w, fs).first = w.first
           /\ Found(w, fs).type = w.type
  <1>1. w.frames \o fs \in Seq(GoodFrame) /\ Len(w.frames \o fs) = Len(w.frames) + Len(fs)
    BY DEF Walk, WalkRecord
  <1>2. /\ Found(w, fs) \in WalkRecord
        /\ Found(w, fs).frames = w.frames \o fs
        /\ Found(w, fs).loop = w.loop /\ Found(w, fs).first = w.first
        /\ Found(w, fs).type = w.type
    BY <1>1 DEF Walk, WalkRecord, Found
  <1>3. Len(w.frames) \in Nat /\ Len(fs) \in Nat
    BY DEF Walk, WalkRecord
  <1>4. w.loop = "descriptors" => Len(w.frames) > 0
    BY DEF Walk
  <1>5. Placed(w.frames \o fs)
    <2> SUFFICES ASSUME NEW k \in 1 .. Len(w.frames) + Len(fs), k > NUMBER_OF_SIGNAL_HANDLER_FRAMES
                 PROVE  (w.frames \o fs)[k].frame \in PCs
      BY <1>1 DEF Placed
    <2>1. CASE k <= Len(w.frames)
      <3>1. k \in 1 .. Len(w.frames) /\ (w.frames \o fs)[k] = w.frames[k]
        BY <1>3, <2>1 DEF Walk, WalkRecord
      <3>2. QED
        BY <3>1 DEF Walk, Placed
    <2>2. CASE k > Len(w.frames)
      <3>1. k - Len(w.frames) \in 1 .. Len(fs) /\ (w.frames \o fs)[k] = fs[k - Len(w.frames)]
        BY <1>3, <2>2 DEF Walk, WalkRecord
      <3>2. ~(Len(w.frames) < NUMBER_OF_SIGNAL_HANDLER_FRAMES /\ Len(fs) = 1)
        <4>1. NUMBER_OF_SIGNAL_HANDLER_FRAMES \in Nat
          BY WalkerAssumption
        <4>2. \A a, b, n \in Nat : \A i \in 1 .. a + b : i > a /\ i > n => ~(a < n /\ b = 1)
          OBVIOUS
        <4>3. QED
          BY <1>3, <2>2, <4>1, <4>2
      <3>3. QED
        BY <3>1, <3>2
    <2>3. QED
      BY <1>3, <2>1, <2>2
  <1>6. QED
    <2>1. Len(w.frames \o fs) <= WalkLength
      BY <1>1
    <2>2. w.loop = "descriptors" => Len(w.frames \o fs) > 0
      BY <1>1, <1>3, <1>4
    <2>3. QED
      BY <1>1, <1>2, <1>5, <2>1, <2>2 DEF Walk

LEMMA EndKeeps ==
    ASSUME NEW w \in Walk, NEW type \in {"SUCCESS", "STEP_FAIL"}
    PROVE  End(w, type) \in Walk /\ End(w, type).type # "walking"
  BY DEF Walk, WalkRecord, End

\* Where a turn takes a walk that has room.
LEMMA UnwindKeeps ==
    ASSUME NEW w \in Walk, w.type = "walking", w.loop = "unwind", HasRoom(w), NEW v \in Unwind(w)
    PROVE  v \in Walk /\ (v.type = "walking" => Progress(v) >= Progress(w) + 1)
  <1>1. CASE v \in {End(w, "SUCCESS"), End(w, "STEP_FAIL")}
    BY <1>1, EndKeeps
  <1>2. CASE v \notin {End(w, "SUCCESS"), End(w, "STEP_FAIL")}
    <2>1. PICK pc \in UnwoundPCs(w) :
              v = IF pc \in Foreign \cup {HandlerPC}
                    THEN Found(w, <<Frame(pc, TRUE)>>)
                    ELSE [Found(w, <<Frame(pc, FALSE)>>) EXCEPT !.loop = "descriptors"]
      BY <1>2 DEF Unwind
    <2>2. pc \in PCs \cup {HandlerPC}
      BY <2>1 DEF UnwoundPCs
    <2>3. ASSUME NEW fs, \/ pc \in Foreign \cup {HandlerPC} /\ fs = <<Frame(pc, TRUE)>>
                         \/ pc \notin Foreign \cup {HandlerPC} /\ fs = <<Frame(pc, FALSE)>>
          PROVE  /\ Found(w, fs) \in Walk
                 /\ Len(Found(w, fs).frames) = Len(w.frames) + 1
                 /\ Found(w, fs).loop = "unwind"
      <3>1. fs \in Seq(GoodFrame) /\ Len(fs) = 1 /\ fs[1].frame = pc
        <4>1. CASE pc \in Foreign \cup {HandlerPC}
          <5>1. Frame(pc, TRUE) \in GoodFrame /\ Frame(pc, TRUE).frame = pc
            BY <2>2, <4>1 DEF Frame, GoodFrame, CallFrame
          <5>2. PICK f : f = Frame(pc, TRUE)
            OBVIOUS
          <5>3. fs = <<f>> /\ f \in GoodFrame /\ f.frame = pc
            BY <2>3, <4>1, <5>1, <5>2
          <5>4. QED
            BY <5>3
        <4>2. CASE pc \notin Foreign \cup {HandlerPC}
          <5>1. Frame(pc, FALSE) \in GoodFrame /\ Frame(pc, FALSE).frame = pc
            BY <2>2, <4>2 DEF Frame, GoodFrame, CallFrame
          <5>2. PICK f : f = Frame(pc, FALSE)
            OBVIOUS
          <5>3. fs = <<f>> /\ f \in GoodFrame /\ f.frame = pc
            BY <2>3, <4>2, <5>1, <5>2
          <5>4. QED
            BY <5>3
        <4>3. QED
          BY <4>1, <4>2
      <3>2. Len(w.frames) + Len(fs) <= WalkLength
        BY <3>1, WalkerAssumption DEF HasRoom, WalkLength, Walk, WalkRecord
      <3>3. \/ Len(w.frames) < NUMBER_OF_SIGNAL_HANDLER_FRAMES /\ Len(fs) = 1
            \/ \A k \in 1 .. Len(fs) : fs[k].frame \in PCs
        BY <2>1, <3>1 DEF UnwoundPCs
      <3> HIDE <2>3
      <3>4. /\ Found(w, fs) \in Walk
            /\ Len(Found(w, fs).frames) = Len(w.frames) + Len(fs)
            /\ Found(w, fs).loop = w.loop
        BY <3>1, <3>2, <3>3, FoundKeeps
      <3>5. QED
        BY <3>1, <3>4
    <2>4. Len(w.frames) \in Nat /\ Progress(w) = 2 * Len(w.frames)
      BY DEF Walk, WalkRecord, Progress
    <2>5. CASE pc \in Foreign \cup {HandlerPC} /\ v = Found(w, <<Frame(pc, TRUE)>>)
      <3>1. v \in Walk /\ Len(v.frames) = Len(w.frames) + 1 /\ v.loop = "unwind"
        BY <2>3, <2>5
      <3>2. Progress(v) = 2 * (Len(w.frames) + 1)
        BY <3>1 DEF Progress
      <3>3. QED
        BY <2>4, <3>1, <3>2
    <2>6. CASE /\ pc \notin Foreign \cup {HandlerPC}
               /\ v = [Found(w, <<Frame(pc, FALSE)>>) EXCEPT !.loop = "descriptors"]
      <3>1. PICK u : u = Found(w, <<Frame(pc, FALSE)>>)
        OBVIOUS
      <3>2. u \in Walk /\ Len(u.frames) = Len(w.frames) + 1
        BY <2>3, <2>6, <3>1
      <3>3. v = [u EXCEPT !.loop = "descriptors"]
        BY <2>6, <3>1
      <3>4. v \in WalkRecord /\ v.frames = u.frames /\ v.loop = "descriptors"
        BY <3>2, <3>3 DEF Walk, WalkRecord
      <3>5. Len(u.frames) <= WalkLength /\ Placed(u.frames)
        BY <3>2 DEF Walk
      <3>6. v \in Walk
        BY <2>4, <3>2, <3>4, <3>5 DEF Walk
      <3>7. Progress(v) = 2 * (Len(w.frames) + 1) - 1
        BY <3>2, <3>4 DEF Progress
      <3>8. QED
        BY <2>4, <3>6, <3>7
    <2>7. QED
      BY <2>1, <2>5, <2>6
  <1>3. QED
    BY <1>1, <1>2

LEMMA DescriptorsKeep ==
    ASSUME NEW w \in Walk, w.type = "walking", w.loop = "descriptors", HasRoom(w),
           NEW v \in Descriptors(w)
    PROVE  v \in Walk /\ (v.type = "walking" => Progress(v) >= Progress(w) + 1)
  <1>1. Len(w.frames) \in Nat
    BY DEF Walk, WalkRecord
  <1>2. CASE v = NoDescriptor(w)
    <2>1. CASE w.first
      <3>1. v \in WalkRecord /\ v.frames = w.frames /\ v.loop = "unwind"
        BY <1>2, <2>1 DEF NoDescriptor, Walk, WalkRecord
      <3>2. Len(w.frames) <= WalkLength /\ Placed(w.frames)
        BY DEF Walk
      <3>3. QED
        BY <1>1, <3>1, <3>2 DEF Walk, Progress
    <2>2. CASE ~w.first
      BY <1>2, <2>2, EndKeeps DEF NoDescriptor
    <2>3. QED
      BY <2>1, <2>2
  <1>3. ASSUME NEW fs \in Seq(GoodFrame), Len(fs) >= 1, Len(w.frames) + Len(fs) <= WalkLength,
               \A k \in 1 .. Len(fs) : fs[k].frame \in PCs,
               v = [Found(w, fs) EXCEPT !.first = FALSE]
        PROVE  v \in Walk /\ Progress(v) >= Progress(w) + 1
    <2> DEFINE u == Found(w, fs)
    <2>1. u \in Walk /\ Len(u.frames) = Len(w.frames) + Len(fs) /\ u.loop = w.loop
      BY <1>3, FoundKeeps
    <2>2. v = [u EXCEPT !.first = FALSE] /\ Len(fs) \in Nat
      BY <1>3
    <2> HIDE DEF u
    <2>3. v \in WalkRecord /\ v.frames = u.frames /\ v.loop = u.loop
      BY <2>1, <2>2 DEF Walk, WalkRecord
    <2>4. Len(v.frames) <= WalkLength /\ Placed(v.frames) /\ (v.loop = "descriptors" => Len(v.frames) > 0)
      BY <2>1, <2>3 DEF Walk
    <2>5. v \in Walk
      BY <2>3, <2>4 DEF Walk
    <2>6. Progress(v) = 2 * (Len(w.frames) + Len(fs)) - 1 /\ Progress(w) = 2 * Len(w.frames) - 1
      BY <2>1, <2>3 DEF Progress
    <2>7. QED
      BY <1>1, <1>3, <2>2, <2>5, <2>6
  <1>4. ASSUME NEW pc \in PCs \ Foreign, v = Caller(w, pc)
        PROVE  v \in Walk /\ Progress(v) >= Progress(w) + 1
    <2> DEFINE fs == <<Frame(pc, FALSE)>>
    <2>1. fs \in Seq(GoodFrame) /\ Len(fs) = 1 /\ \A k \in 1 .. Len(fs) : fs[k].frame \in PCs
      <3>1. PICK f : f = Frame(pc, FALSE)
        OBVIOUS
      <3>2. f \in GoodFrame /\ f.frame \in PCs
        BY <3>1, WalkerAssumption DEF Frame, GoodFrame, CallFrame
      <3>3. fs = <<f>>
        BY <3>1
      <3> HIDE DEF fs
      <3>4. QED
        BY <3>2, <3>3
    <2>2. v = [Found(w, fs) EXCEPT !.first = FALSE]
      BY <1>4 DEF Caller
    <2> HIDE DEF fs
    <2>3. Len(fs) >= 1 /\ Len(w.frames) + Len(fs) <= WalkLength
      BY <1>1, <2>1, WalkerAssumption DEF HasRoom, WalkLength
    <2>4. QED
      BY <1>3, <2>1, <2>2, <2>3
  <1>5. ASSUME NEW ret \in ReturnAddresses(w), NEW pc \in PCs \ Foreign,
               v = CalledBack(w, ret, pc)
        PROVE  v \in Walk /\ Progress(v) >= Progress(w) + 1
    <2> DEFINE fs == <<Frame(ret, FALSE), Frame(pc, FALSE)>>
    <2>1. ret \in PCs /\ (LateCallbacks \/ Len(w.frames) + 2 <= MAX_FRAMES)
      BY DEF ReturnAddresses
    <2>2. fs \in Seq(GoodFrame) /\ Len(fs) = 2 /\ \A k \in 1 .. Len(fs) : fs[k].frame \in PCs
      <3>1. PICK f : f = Frame(pc, FALSE)
        OBVIOUS
      <3>2. PICK g : g = Frame(ret, FALSE)
        OBVIOUS
      <3>3. ret \notin Foreign
        BY DEF ReturnAddresses
      <3>4. f \in GoodFrame /\ f.frame \in PCs /\ g \in GoodFrame /\ g.frame \in PCs
        BY <2>1, <3>1, <3>2, <3>3, WalkerAssumption DEF Frame, GoodFrame, CallFrame
      <3>5. fs = <<g, f>>
        BY <3>1, <3>2
      <3> HIDE DEF fs
      <3>6. QED
        BY <3>4, <3>5
    <2>3. Len(w.frames) + 2 <= WalkLength
      BY <1>1, <2>1, WalkerAssumption DEF HasRoom, WalkLength
    <2>4. v = [Found(w, fs) EXCEPT !.first = FALSE]
      BY <1>5 DEF CalledBack
    <2> HIDE DEF fs
    <2>5. Len(fs) >= 1 /\ Len(w.frames) + Len(fs) <= WalkLength
      BY <2>2, <2>3
    <2>6. QED
      BY <1>3, <2>2, <2>4, <2>5
  <1>6. \/ v = NoDescriptor(w)
        \/ \E pc \in PCs \ Foreign : v = Caller(w, pc)
        \/ \E ret \in ReturnAddresses(w), pc \in PCs \ Foreign :
              v = CalledBack(w, ret, pc)
    BY DEF Descriptors
  <1>7. QED
    BY <1>2, <1>4, <1>5, <1>6, Zenon

\* Every turn keeps the walk inside its bound, and gets it further unless
\* it ends it.
LEMMA TurnKeeps ==
    ASSUME NEW w \in Walk, NEW v \in Turn(w)
    PROVE  /\ v \in Walk
           /\ v.type = "walking" => w.type = "walking" /\ HasRoom(w) /\ Progress(v) >= Progress(w) + 1
  <1>1. CASE w.type # "walking"
    BY <1>1 DEF Turn
  <1>2. CASE w.type = "walking" /\ ~HasRoom(w)
    BY <1>2, EndKeeps DEF Turn
  <1>3. CASE w.type = "walking" /\ HasRoom(w) /\ w.loop = "unwind"
    BY <1>3, UnwindKeeps DEF Turn
  <1>4. CASE w.type = "walking" /\ HasRoom(w) /\ w.loop # "unwind"
    BY <1>4, DescriptorsKeep DEF Turn, Walk, WalkRecord
  <1>5. QED
    BY <1>1, <1>2, <1>3, <1>4

\* The recursion that defines Walks has a solution.
LEMMA WalksUnfold ==
    \A n \in Nat : Walks[n] = IF n = 0 THEN {Begin} ELSE UNION {Turn(w) : w \in Walks[n - 1]}
  <1> DEFINE step == [S \in SUBSET Walk |-> UNION {Turn(w) : w \in S}]
             Eqn(f) == f = [n \in Nat |-> IF n = 0 THEN {Begin} ELSE UNION {Turn(w) : w \in f[n - 1]}]
  <1>1. {Begin} \in SUBSET Walk
    <2>1. Begin \in WalkRecord
      BY DEF Begin, WalkRecord
    <2>2. Len(Begin.frames) = 0 /\ Begin.loop = "unwind" /\ 0 <= WalkLength /\ Placed(Begin.frames)
      BY WalkerAssumption DEF Begin, WalkLength, Placed
    <2>3. QED
      BY <2>1, <2>2 DEF Walk
  <1>2. step \in [SUBSET Walk -> SUBSET Walk]
    <2>1. ASSUME NEW S \in SUBSET Walk
          PROVE  UNION {Turn(w) : w \in S} \subseteq Walk
      BY TurnKeeps
    <2>2. QED
      BY <2>1
  <1> HIDE DEF step
  <1>3. PICK g \in [Nat -> SUBSET Walk] : g[0] = {Begin} /\ \A n \in Nat : g[n + 1] = step[g[n]]
    <2> DEFINE D == SUBSET Walk
               x0 == {Begin}
    <2>1. x0 \in D /\ step \in [D -> D]
      BY <1>1, <1>2
    <2> HIDE DEF D, x0
    <2>2. \E g \in [Nat -> D] : g[0] = x0 /\ \A n \in Nat : g[n + 1] = step[g[n]]
      BY <2>1, IterationExists
    <2>3. QED
      BY <2>2 DEF D, x0
  <1>4. Eqn(g)
    <2>1. ASSUME NEW n \in Nat
          PROVE  g[n] = IF n = 0 THEN {Begin} ELSE UNION {Turn(w) : w \in g[n - 1]}
      <3>1. CASE n = 0
        BY <1>3, <3>1
      <3>2. CASE n # 0
        <4>1. n - 1 \in Nat /\ (n - 1) + 1 = n
          BY <3>2
        <4>2. g[n] = step[g[n - 1]] /\ g[n - 1] \in SUBSET Walk
          BY <1>3, <4>1
        <4>3. QED
          BY <3>2, <4>2 DEF step
      <3>3. QED
        BY <3>1, <3>2
    <2>2. QED
      BY <1>3, <2>1
  <1>5. Eqn(Walks)
    <2>1. Walks = CHOOSE f : Eqn(f)
      BY DEF Walks
    <2> HIDE DEF Eqn
    <2>2. QED
      BY <1>4, <2>1
  <1>6. QED
    BY <1>5

\* After n turns a walk is inside its bound, and if it goes on it has got
\* as far as n turns take it.
LEMMA WalksKept ==
    \A n \in Nat : \A w \in Walks[n] : w \in Walk /\ (w.type = "walking" => Progress(w) >= n)
  <1> DEFINE T == {n \in Nat : \A w \in Walks[n] : w \in Walk /\ (w.type = "walking" => Progress(w) >= n)}
  <1>1. 0 \in T
    <2>1. Walks[0] = {Begin}
      BY WalksUnfold
    <2>2. Begin \in WalkRecord
      BY DEF Begin, WalkRecord
    <2>3. Len(Begin.frames) = 0 /\ Begin.loop = "unwind" /\ 0 <= WalkLength /\ Placed(Begin.frames)
      BY WalkerAssumption DEF Begin, WalkLength, Placed
    <2>4. QED
      BY <2>1, <2>2, <2>3 DEF Walk, Progress
  <1>2. ASSUME NEW n \in Nat, n \in T
        PROVE  n + 1 \in T
    <2> SUFFICES ASSUME NEW v \in Walks[n + 1]
                 PROVE  v \in Walk /\ (v.type = "walking" => Progress(v) >= n + 1)
      OBVIOUS
    <2>1. n + 1 \in Nat /\ n + 1 # 0 /\ (n + 1) - 1 = n
      OBVIOUS
    <2>2. Walks[n + 1] = UNION {Turn(w) : w \in Walks[n]}
      BY <2>1, WalksUnfold
    <2>3. PICK w \in Walks[n] : v \in Turn(w)
      BY <2>2
    <2>4. w \in Walk /\ (w.type = "walking" => Progress(w) >= n)
      BY <1>2
    <2>5. v \in Walk /\ (v.type = "walking" => w.type = "walking" /\ Progress(v) >= Progress(w) + 1)
      BY <2>3, <2>4, TurnKeeps
    <2>6. Progress(w) \in Int /\ Progress(v) \in Int
      BY <2>4, <2>5 DEF Progress, Walk, WalkRecord
    <2>7. QED
      BY <2>4, <2>5, <2>6
  <1> HIDE DEF T
  <1>3. \A n \in Nat : n \in T
    BY <1>1, <1>2, SetInduction
  <1>4. QED
    BY <1>3 DEF T

\* What a signal handler gets from linkable_handle, whatever the stack: a
\* walk that ended after at most two turns for each frame, with no more
\* frames than WalkLength (linkable_profiler.c:63 and :101), each marked as
\* foreign if it is, and none but the handler's own with its address.
THEOREM WalkBounded ==
    \A walk \in linkable_handle :
        /\ walk.frames \in Seq(GoodFrame)
        /\ Len(walk.frames) <= WalkLength
        /\ Placed(walk.frames)
        /\ walk.type \in {"SUCCESS", "STEP_FAIL", "GET_CONTEXT_FAIL", "INIT_LOCAL_FAIL"}
  <1> SUFFICES ASSUME NEW walk \in linkable_handle
               PROVE  /\ walk.frames \in Seq(GoodFrame)
                      /\ Len(walk.frames) <= WalkLength
                      /\ Placed(walk.frames)
                      /\ walk.type \in {"SUCCESS", "STEP_FAIL", "GET_CONTEXT_FAIL", "INIT_LOCAL_FAIL"}
    OBVIOUS
  <1>1. CASE \E type \in {"GET_CONTEXT_FAIL", "INIT_LOCAL_FAIL"} :
                 walk = [frames |-> << >>, type |-> type]
    <2>1. PICK type \in {"GET_CONTEXT_FAIL", "INIT_LOCAL_FAIL"} :
              walk = [frames |-> << >>, type |-> type]
      BY <1>1
    <2>2. walk.frames = << >> /\ walk.type = type
      BY <2>1
    <2>3. << >> \in Seq(GoodFrame) /\ Len(<< >>) = 0 /\ 0 <= WalkLength /\ Placed(<< >>)
      BY WalkerAssumption DEF WalkLength, Placed
    <2>4. QED
      BY <2>2, <2>3
  <1>2. CASE \E w \in Walks[2 * MAX_FRAMES + 1] : walk = [frames |-> w.frames, type |-> w.type]
    <2>1. PICK v \in Walks[2 * MAX_FRAMES + 1] : walk = [frames |-> v.frames, type |-> v.type]
      BY <1>2
    <2>2. /\ 2 * MAX_FRAMES + 1 \in Nat /\ 2 * MAX_FRAMES + 1 # 0
          /\ 2 * MAX_FRAMES \in Nat /\ (2 * MAX_FRAMES + 1) - 1 = 2 * MAX_FRAMES
      BY WalkerAssumption
    <2>3. v \in Walk
      BY <2>1, <2>2, WalksKept
    <2>4. PICK w \in Walks[2 * MAX_FRAMES] : v \in Turn(w)
      <3>1. PICK n : n = 2 * MAX_FRAMES + 1
        OBVIOUS
      <3>2. n \in Nat /\ n # 0 /\ n - 1 = 2 * MAX_FRAMES
        BY <2>2, <3>1
      <3>3. Walks[n] = UNION {Turn(w) : w \in Walks[n - 1]}
        BY <3>2, WalksUnfold
      <3>4. v \in Walks[n]
        BY <2>1, <3>1
      <3>5. \E w \in Walks[n - 1] : v \in Turn(w)
        BY <3>3, <3>4
      <3>6. QED
        BY <3>2, <3>5
    <2>5. w \in Walk /\ (w.type = "walking" => Progress(w) >= 2 * MAX_FRAMES)
      BY <2>2, <2>4, WalksKept
    <2>6. v.type = "walking" => w.type = "walking" /\ HasRoom(w)
      BY <2>4, <2>5, TurnKeeps
    <2>7. ~(w.type = "walking" /\ HasRoom(w))
      <3>1. Len(w.frames) \in Nat
        BY <2>5 DEF Walk, WalkRecord
      <3>2. Progress(w) <= 2 * Len(w.frames)
        BY <3>1 DEF Progress
      <3>3. Progress(w) \in Int
        BY <3>1 DEF Progress
      <3>4. QED
        BY <2>5, <3>1, <3>2, <3>3, WalkerAssumption DEF HasRoom
    <2>8. walk.frames = v.frames /\ walk.type = v.type
      BY <2>1, Zenon
    <2>9. /\ v.frames \in Seq(GoodFrame) /\ Len(v.frames) <= WalkLength /\ Placed(v.frames)
          /\ v.type \in {"walking", "SUCCESS", "STEP_FAIL"}
      BY <2>3 DEF Walk, WalkRecord
    <2>10. QED
      BY <2>6, <2>7, <2>8, <2>9
  <1>3. QED
    BY <1>1, <1>2 DEF linkable_handle

-----------------------------------------------------------------------------
(* The stack ring *)

\* The occupied slots run from output up to, not including, input.
Distance(s) == IF s >= output THEN s - output ELSE s + (Size + 1) - output
Occupied(s) == Distance(s) < Distance(input)

HolderType == [committed : BOOLEAN, num_frames : Int, signum : Signals \cup {None},
               threadId : Threads \cup {None}]
QueueType ==
    /\ handler \in [Threads -> [at : {"idle", "push", "write"}, is_error : BOOLEAN,
                                slot : Slots \cup {None}]]
    /\ input \in Slots /\ output \in Slots
    /\ slots \in [Slots -> HolderType]
    /\ frame_buffer_ \in [Slots -> [1 .. maxFramesToCapture -> GoodFrame \cup {Zero}]]
    /\ captured \in [Slots -> Seq(GoodFrame)]
    /\ \A s \in Slots : Placed(captured[s])

\* A handler fills a slot of its own, reserved and not committed.
Writes(t) == handler[t].at = "write"
WriteInv ==
    /\ \A t \in Threads : Writes(t) => /\ handler[t].slot \in Slots
                                       /\ Occupied(handler[t].slot)
                                       /\ ~slots[handler[t].slot].committed
    /\ \A t, u \in Threads : Writes(t) /\ Writes(u) /\ t # u => handler[t].slot # handler[u].slot

\* What is committed is between output and input, a trace as long as its
\* walk, of one of the signals.
Complete(holder, frames) ==
    /\ holder.num_frames = Len(frames) \/ holder.num_frames = -1 * Len(frames)
    /\ holder.signum \in Signals
CommitInv ==
    \A s \in Slots : slots[s].committed => Occupied(s) /\ Complete(slots[s], captured[s])

\* A slot without a trace has a buffer without frames.
CleanInv == \A s \in Slots : ~slots[s].committed => frame_buffer_[s] = ZeroBuffer

\* The fields of the processor thread's record.
WriterShape ==
    writer = [at |-> writer.at, polls |-> writer.polls, read |-> writer.read,
              index |-> writer.index, entries |-> writer.entries,
              locations |-> writer.locations, messages |-> writer.messages]

\* While it records a trace, the trace stays the one at output.
ReadInv == WriterShape /\ (writer.at \in {"frame", "names"} => Ready)

\* The inductive invariant of the queue.
QueueInv == QueueType /\ WriteInv /\ CommitInv /\ CleanInv /\ ReadInv /\ FramesIntact

-----------------------------------------------------------------------------
\* advance is the successor that wraps at Size.
LEMMA AdvanceWraps ==
    ASSUME NEW i \in Slots
    PROVE  /\ advance(i) = (IF i = Size THEN 0 ELSE i + 1)
           /\ advance(i) \in Slots
  <1>1. CASE i = Size
    <2>1. Size + 1 \in Nat \ {0} /\ i + 1 = Size + 1
      BY <1>1, QueueAssumption
    <2>2. (Size + 1) % (Size + 1) = 0
      BY <2>1
    <2>3. QED
      BY <1>1, <2>2, QueueAssumption DEF advance, Slots
  <1>2. CASE i # Size
    <2>1. i + 1 \in 0 .. (Size + 1) - 1 /\ Size + 1 \in Nat \ {0}
      BY <1>2, QueueAssumption DEF Slots
    <2>2. (i + 1) % (Size + 1) = i + 1
      BY <2>1
    <2>3. QED
      BY <1>2, <2>1, <2>2, QueueAssumption DEF advance, Slots
  <1>3. QED
    BY <1>1, <1>2

LEMMA OccupiedEnds ==
    ASSUME input \in Slots, output \in Slots
    PROVE  ~Occupied(input) /\ (Occupied(output) <=> input # output)
  BY QueueAssumption DEF Occupied, Distance, Slots

\* Reserving a slot when there is room occupies exactly one more slot.
LEMMA ReserveOccupies ==
    ASSUME input \in Slots, output \in Slots, NEW s \in Slots,
           advance(input) # output, input' = advance(input), output' = output
    PROVE  Occupied(s)' <=> Occupied(s) \/ s = input
  <1>1. input' = (IF input = Size THEN 0 ELSE input + 1)
    BY AdvanceWraps
  <1>2. output # (IF input = Size THEN 0 ELSE input + 1)
    BY AdvanceWraps
  <1>3. QED
    BY <1>1, <1>2, QueueAssumption DEF Occupied, Distance, Slots

\* Passing a slot frees exactly that slot.
LEMMA PassFrees ==
    ASSUME input \in Slots, output \in Slots, NEW s \in Slots,
           output # input, output' = advance(output), input' = input
    PROVE  Occupied(s)' <=> Occupied(s) /\ s # output
  <1>1. output' = (IF output = Size THEN 0 ELSE output + 1)
    BY AdvanceWraps
  <1>2. QED
    BY <1>1, QueueAssumption DEF Occupied, Distance, Slots

-----------------------------------------------------------------------------
(* The queue of traces *)

ring == <<handler, input, output, slots, frame_buffer_, captured>>

LEMMA ZeroBufferType == ZeroBuffer \in [1 .. maxFramesToCapture -> GoodFrame \cup {Zero}]
  BY DEF ZeroBuffer

LEMMA InitQueueInv == Init => QueueInv
  <1> SUFFICES ASSUME Init PROVE QueueInv
    OBVIOUS
  <1>1. QueueType
    <2>1. 0 \in Slots
      BY QueueAssumption DEF Slots
    <2>2. EmptyHolder \in HolderType /\ << >> \in Seq(GoodFrame)
      BY DEF EmptyHolder, HolderType
    <2>3. Idle \in [at : {"idle", "push", "write"}, is_error : BOOLEAN, slot : Slots \cup {None}]
      BY DEF Idle
    <2>4. QED
      BY <2>1, <2>2, <2>3, ZeroBufferType DEF Init, QueueInit, QueueType
  <1>2. \A s \in Slots : ~slots[s].committed /\ frame_buffer_[s] = ZeroBuffer
    BY DEF Init, QueueInit, EmptyHolder
  <1>3. \A t \in Threads : ~Writes(t)
    BY DEF Init, QueueInit, Idle, Writes
  <1>4. ReadInv
    BY DEF Init, WriterInit, Loop, ReadInv, WriterShape
  <1>5. QED
    BY <1>1, <1>2, <1>3, <1>4 DEF QueueInv, WriteInv, CommitInv, CleanInv, FramesIntact

\* A step that leaves the ring alone keeps what is known of it.
LEMMA RingKept ==
    ASSUME QueueInv, UNCHANGED ring, ReadInv'
    PROVE  QueueInv'
  BY DEF QueueInv, ring, QueueType, WriteInv, Writes, CommitInv, CleanInv, FramesIntact,
         Occupied, Distance, Slots

\* So does a handler that only moves outside the ring.
LEMMA HandlerMoves ==
    ASSUME QueueInv, NEW t \in Threads, NEW at \in {"idle", "push"}, NEW is_error \in BOOLEAN,
           handler' = [handler EXCEPT ![t] = [at |-> at, is_error |-> is_error, slot |-> None]],
           UNCHANGED <<input, output, slots, frame_buffer_, captured, writer>>
    PROVE  QueueInv'
  <1>1. QueueType'
    BY DEF QueueInv, QueueType, Slots
  <1>2. \A u \in Threads : Writes(u)' => Writes(u) /\ handler'[u] = handler[u]
    BY DEF QueueInv, QueueType, Writes
  <1>3. WriteInv'
    BY <1>2 DEF QueueInv, WriteInv, Occupied, Distance, Slots
  <1>4. CommitInv' /\ CleanInv' /\ FramesIntact' /\ ReadInv'
    BY DEF QueueInv, CommitInv, CleanInv, FramesIntact, ReadInv, WriterShape, Ready, Reserved,
           Occupied, Distance, Slots
  <1>5. QED
    BY <1>1, <1>3, <1>4 DEF QueueInv

LEMMA AcquireKeeps ==
    ASSUME QueueInv, NEW t \in Threads, acquireWrite(t), UNCHANGED writer
    PROVE  QueueInv'
  <1>1. /\ advance(input) # output /\ input' = advance(input)
        /\ handler[t].at = "push"
        /\ handler' = [handler EXCEPT ![t].at = "write", ![t].slot = input]
        /\ UNCHANGED <<output, slots, frame_buffer_, captured>>
    BY DEF acquireWrite
  <1>2. input \in Slots /\ output \in Slots
    BY DEF QueueInv, QueueType
  <1>3. advance(input) \in Slots
    BY <1>2, AdvanceWraps
  <1>4. \A s \in Slots : Occupied(s)' <=> Occupied(s) \/ s = input
    BY <1>1, <1>2, ReserveOccupies
  <1>5. ~Occupied(input) /\ ~slots[input].committed
    BY <1>2, OccupiedEnds DEF QueueInv, CommitInv
  <1>6. QueueType'
    BY <1>1, <1>2, <1>3 DEF QueueInv, QueueType, Slots
  <1>7. handler'[t].slot = input /\ \A u \in Threads \ {t} : handler'[u] = handler[u]
    BY <1>1 DEF QueueInv, QueueType
  <1>8. WriteInv'
    <2>1. ASSUME NEW u \in Threads, Writes(u)', NEW s, s = handler'[u].slot
          PROVE  s \in Slots /\ Occupied(s)' /\ ~slots'[s].committed
      <3>1. CASE u = t
        BY <1>1, <1>2, <1>4, <1>5, <1>7, <2>1, <3>1
      <3>2. CASE u # t
        <4>1. s = handler[u].slot /\ Writes(u)
          BY <1>7, <2>1, <3>2 DEF Writes
        <4>2. s \in Slots /\ Occupied(s) /\ ~slots[s].committed
          BY <4>1 DEF QueueInv, WriteInv
        <4>3. QED
          BY <1>1, <1>4, <4>2
      <3>3. QED
        BY <3>1, <3>2
    <2>2. ASSUME NEW u \in Threads, NEW v \in Threads, Writes(u)', Writes(v)', u # v
          PROVE  handler'[u].slot # handler'[v].slot
      <3>1. \A x \in Threads \ {t} : Writes(x)' => Writes(x) /\ handler[x].slot # input
        BY <1>5, <1>7 DEF QueueInv, WriteInv, Writes
      <3>2. QED
        BY <1>7, <2>2, <3>1 DEF QueueInv, WriteInv
    <2>3. ASSUME NEW u \in Threads, Writes(u)'
          PROVE  (handler[u].slot \in Slots /\ Occupied(handler[u].slot)
                  /\ ~slots[handler[u].slot].committed)'
      <3>1. PICK s : s = handler'[u].slot
        OBVIOUS
      <3>2. s \in Slots /\ Occupied(s)' /\ ~slots'[s].committed
        BY <2>1, <2>3, <3>1
      <3>3. QED
        BY <3>1, <3>2 DEF Slots, Occupied, Distance
    <2>4. QED
      BY <2>2, <2>3 DEF WriteInv
  <1>9. CommitInv'
    BY <1>1, <1>4 DEF QueueInv, CommitInv
  <1>10. CleanInv' /\ FramesIntact'
    BY <1>1 DEF QueueInv, CleanInv, FramesIntact, Slots
  <1>11. ReadInv'
    <2>1. Ready => Ready'
      <3>1. input' # output
        BY <1>1
      <3>2. QED
        BY <1>1, <3>1 DEF Ready, Reserved
    <2>2. QED
      BY <2>1 DEF QueueInv, ReadInv, WriterShape
  <1>12. QED
    BY <1>6, <1>8, <1>9, <1>10, <1>11 DEF QueueInv

\* The frames of the walk are in the slot's buffer, all of them.
LEMMA PushKeeps ==
    ASSUME QueueInv, WalkLength <= maxFramesToCapture,
           NEW t \in Threads, NEW walk \in linkable_handle, NEW signum \in Signals,
           pushStackTrace(t, walk, signum), UNCHANGED writer
    PROVE  QueueInv'
  <1>1. PICK s : s = handler[t].slot
    OBVIOUS
  <1>2. PICK n : n = num_frames(walk)
    OBVIOUS
  <1>3. PICK fb : fb = frame_buffer_[s]
    OBVIOUS
  <1>4. PICK holder : holder = [committed |-> TRUE, num_frames |-> n, signum |-> signum, threadId |-> t]
    OBVIOUS
  <1>5. /\ Writes(t)
        /\ frame_buffer_' = [frame_buffer_ EXCEPT ![s] = write(fb, walk)]
        /\ slots' = [slots EXCEPT ![s] = holder]
        /\ captured' = [captured EXCEPT ![s] = walk.frames]
        /\ handler' = [handler EXCEPT ![t] = Idle]
        /\ UNCHANGED <<input, output>>
    BY <1>1, <1>2, <1>3, <1>4 DEF pushStackTrace, Writes
  <1>6. s \in Slots /\ Occupied(s) /\ ~slots[s].committed
    BY <1>1, <1>5 DEF QueueInv, WriteInv
  <1>7. fb = ZeroBuffer
    BY <1>3, <1>6 DEF QueueInv, CleanInv
  <1>8. /\ walk.frames \in Seq(GoodFrame) /\ Len(walk.frames) <= maxFramesToCapture
        /\ Placed(walk.frames)
    <2>1. walk.frames \in Seq(GoodFrame) /\ Len(walk.frames) <= WalkLength /\ Placed(walk.frames)
      BY WalkBounded
    <2>2. Len(walk.frames) \in Nat /\ WalkLength \in Nat /\ maxFramesToCapture \in Nat
      BY <2>1, WalkerAssumption, QueueAssumption DEF WalkLength
    <2>3. QED
      BY <2>1, <2>2
  <1>9. n \in Int /\ n <= Len(walk.frames)
    <2>1. Len(walk.frames) \in Nat
      BY <1>8
    <2>2. QED
      BY <1>2, <2>1 DEF num_frames
  <1>10. PICK new : new = write(fb, walk)
    OBVIOUS
  <1>11. /\ new \in [1 .. maxFramesToCapture -> GoodFrame \cup {Zero}]
         /\ \A k \in 1 .. maxFramesToCapture : new[k] = IF k <= n THEN walk.frames[k] ELSE Zero
    <2>1. new = [k \in 1 .. maxFramesToCapture |-> IF k <= n THEN walk.frames[k] ELSE Zero]
      BY <1>2, <1>7, <1>10 DEF write, ZeroBuffer
    <2>2. ASSUME NEW k \in 1 .. maxFramesToCapture, k <= n
          PROVE  walk.frames[k] \in GoodFrame
      <3>1. k \in 1 .. Len(walk.frames)
        BY <1>8, <1>9, <2>2, QueueAssumption
      <3>2. QED
        BY <1>8, <3>1
    <2>3. QED
      BY <2>1, <2>2
  <1>12. holder \in HolderType /\ holder.committed /\ holder.num_frames = n
    BY <1>4, <1>9 DEF HolderType
  <1>13. Idle \in [at : {"idle", "push", "write"}, is_error : BOOLEAN, slot : Slots \cup {None}]
         /\ Idle.at = "idle"
    BY DEF Idle
  <1>14. /\ frame_buffer_'[s] = new /\ slots'[s] = holder /\ captured'[s] = walk.frames
         /\ \A x \in Slots \ {s} : /\ frame_buffer_'[x] = frame_buffer_[x]
                                   /\ slots'[x] = slots[x]
                                   /\ captured'[x] = captured[x]
         /\ handler'[t] = Idle
         /\ \A u \in Threads \ {t} : handler'[u] = handler[u]
    BY <1>5, <1>6, <1>10 DEF QueueInv, QueueType
  <1>15. QueueType'
    BY <1>5, <1>6, <1>8, <1>10, <1>11, <1>12, <1>13 DEF QueueInv, QueueType, Slots
  <1>16. \A x \in Slots : Occupied(x)' <=> Occupied(x)
    BY <1>5 DEF Occupied, Distance
  <1>17. WriteInv'
    <2>1. ASSUME NEW u \in Threads, Writes(u)'
          PROVE  u # t /\ Writes(u) /\ handler'[u] = handler[u] /\ handler[u].slot # s
      BY <1>1, <1>5, <1>13, <1>14, <2>1 DEF QueueInv, WriteInv, Writes
    <2>2. ASSUME NEW u \in Threads, Writes(u)'
          PROVE  (handler[u].slot \in Slots /\ Occupied(handler[u].slot)
                  /\ ~slots[handler[u].slot].committed)'
      <3>1. PICK x : x = handler[u].slot
        OBVIOUS
      <3>2. x \in Slots /\ Occupied(x) /\ ~slots[x].committed /\ x # s
        BY <2>1, <2>2, <3>1 DEF QueueInv, WriteInv
      <3>3. x = handler'[u].slot /\ Occupied(x)' /\ ~slots'[x].committed
        BY <1>14, <1>16, <2>1, <2>2, <3>1, <3>2
      <3>4. QED
        BY <3>2, <3>3 DEF Slots, Occupied, Distance
    <2>3. QED
      BY <2>1, <2>2 DEF QueueInv, WriteInv
  <1>18. CommitInv'
    <2>1. Complete(holder, walk.frames)
      BY <1>2, <1>4 DEF Complete, num_frames
    <2>2. QED
      BY <1>6, <1>14, <1>16, <2>1 DEF QueueInv, CommitInv, Slots
  <1>19. CleanInv'
    BY <1>12, <1>14 DEF QueueInv, CleanInv, Slots
  <1>20. FramesIntact'
    <2>1. ASSUME NEW x \in Slots, slots'[x].committed
          PROVE  /\ Len(captured'[x]) <= maxFramesToCapture
                 /\ \A k \in 1 .. maxFramesToCapture :
                       frame_buffer_'[x][k] =
                           IF k <= slots'[x].num_frames THEN captured'[x][k] ELSE Zero
      <3>1. CASE x = s
        BY <1>8, <1>11, <1>12, <1>14, <3>1
      <3>2. CASE x # s
        BY <1>14, <2>1, <3>2 DEF QueueInv, FramesIntact
      <3>3. QED
        BY <3>1, <3>2
    <2>2. QED
      BY <2>1 DEF FramesIntact, Slots
  <1>21. ReadInv'
    <2>1. Ready => Ready'
      BY <1>5, <1>6, <1>12, <1>14 DEF QueueInv, QueueType, Ready, Reserved
    <2>2. QED
      BY <2>1 DEF QueueInv, ReadInv, WriterShape
  <1>22. QED
    BY <1>15, <1>17, <1>18, <1>19, <1>20, <1>21 DEF QueueInv

\* pop leaves a buffer without frames, whatever the trace was.
LEMMA FinishKeeps ==
    ASSUME QueueInv, Ready, FinishRead, WriterShape', writer'.at \notin {"frame", "names"}
    PROVE  QueueInv'
  <1>1. PICK s : s = output
    OBVIOUS
  <1>2. PICK n : n = slots[s].num_frames
    OBVIOUS
  <1>3. PICK fb : fb = frame_buffer_[s]
    OBVIOUS
  <1>4. /\ frame_buffer_' = [frame_buffer_ EXCEPT ![s] = Cleaned(fb, n)]
        /\ slots' = [slots EXCEPT ![s] = EmptyHolder]
        /\ output' = advance(output)
        /\ captured' = [captured EXCEPT ![s] = << >>]
        /\ UNCHANGED <<handler, input>>
    BY <1>1, <1>2, <1>3 DEF FinishRead
  <1>5. /\ input \in Slots /\ output \in Slots /\ s \in Slots /\ output # input
        /\ slots[s].committed
    BY <1>1 DEF QueueInv, QueueType, Ready, Reserved
  <1>6. Cleaned(fb, n) = ZeroBuffer
    <2>1. fb \in [1 .. maxFramesToCapture -> GoodFrame \cup {Zero}]
      BY <1>3, <1>5 DEF QueueInv, QueueType
    <2>2. \A k \in 1 .. maxFramesToCapture : ~(k <= n) => fb[k] = Zero
      BY <1>2, <1>3, <1>5 DEF QueueInv, FramesIntact
    <2>3. QED
      BY <2>1, <2>2 DEF Cleaned, ZeroBuffer
  <1>7. /\ EmptyHolder \in HolderType /\ ~EmptyHolder.committed
        /\ << >> \in Seq(GoodFrame) /\ Placed(<< >>)
    BY DEF EmptyHolder, HolderType, Placed
  <1>8. advance(output) \in Slots
    BY <1>5, AdvanceWraps
  <1>9. \A x \in Slots : Occupied(x)' <=> Occupied(x) /\ x # s
    BY <1>1, <1>4, <1>5, PassFrees
  <1>10. /\ frame_buffer_'[s] = ZeroBuffer /\ slots'[s] = EmptyHolder /\ captured'[s] = << >>
         /\ \A x \in Slots \ {s} : /\ frame_buffer_'[x] = frame_buffer_[x]
                                   /\ slots'[x] = slots[x]
                                   /\ captured'[x] = captured[x]
    BY <1>4, <1>5, <1>6 DEF QueueInv, QueueType
  <1>11. QueueType'
    <2>1. \A x \in Slots : Placed(captured'[x])
      BY <1>7, <1>10 DEF QueueInv, QueueType
    <2>2. QED
      BY <1>4, <1>5, <1>6, <1>7, <1>8, <2>1, ZeroBufferType DEF QueueInv, QueueType, Slots
  <1>12. WriteInv'
    <2>1. ASSUME NEW u \in Threads, Writes(u)'
          PROVE  (handler[u].slot \in Slots /\ Occupied(handler[u].slot)
                  /\ ~slots[handler[u].slot].committed)'
      <3>1. PICK x : x = handler[u].slot
        OBVIOUS
      <3>2. x \in Slots /\ Occupied(x) /\ ~slots[x].committed /\ x # s
        BY <1>4, <1>5, <2>1, <3>1 DEF QueueInv, WriteInv, Writes
      <3>3. x = handler'[u].slot /\ Occupied(x)' /\ ~slots'[x].committed
        BY <1>4, <1>9, <1>10, <3>1, <3>2
      <3>4. QED
        BY <3>2, <3>3 DEF Slots, Occupied, Distance
    <2>2. QED
      BY <1>4, <2>1 DEF QueueInv, WriteInv, Writes
  <1>13. CommitInv' /\ CleanInv'
    BY <1>7, <1>9, <1>10 DEF QueueInv, CommitInv, CleanInv, Slots
  <1>14. FramesIntact'
    BY <1>7, <1>10 DEF QueueInv, FramesIntact, Slots
  <1>15. ReadInv'
    BY DEF ReadInv
  <1>16. QED
    BY <1>11, <1>12, <1>13, <1>14, <1>15 DEF QueueInv

\* The processor thread's own steps: a step that leaves the ring alone keeps
\* the invariant if it does not begin to record, or begins it when a trace
\* is ready.
LEMMA WriterMoves ==
    ASSUME QueueInv, UNCHANGED ring, WriterShape',
           writer'.at \in {"frame", "names"} => Ready
    PROVE  QueueInv'
  <1>1. Ready' <=> Ready
    BY DEF ring, Ready, Reserved
  <1>2. ReadInv'
    BY <1>1 DEF ReadInv
  <1>3. QED
    BY <1>2, RingKept

LEMMA ProcessorKeeps ==
    ASSUME QueueInv, Processor
    PROVE  QueueInv'
  <1>1. WriterShape /\ (writer.at \in {"frame", "names"} => Ready)
    BY DEF QueueInv, ReadInv
  <1>2. CASE StartPops
    <2>1. UNCHANGED ring /\ WriterShape' /\ writer'.at = "main"
      BY <1>1, <1>2 DEF StartPops, queueVars, ring, WriterShape
    <2>2. QED
      BY <2>1, WriterMoves
  <1>3. CASE PopMain
    <2>1. UNCHANGED ring /\ WriterShape' /\ writer'.at = "stack"
      BY <1>1, <1>3 DEF PopMain, ring, WriterShape
    <2>2. QED
      BY <2>1, WriterMoves
  <1>4. CASE MainEmpty
    <2>1. UNCHANGED ring /\ WriterShape' /\ writer'.at = "stack"
      BY <1>1, <1>4 DEF MainEmpty, queueVars, ring, WriterShape
    <2>2. QED
      BY <2>1, WriterMoves
  <1>5. CASE StackEmpty
    <2>1. UNCHANGED ring /\ WriterShape' /\ writer'.at = "popped"
      BY <1>1, <1>5 DEF StackEmpty, queueVars, ring, WriterShape
    <2>2. QED
      BY <2>1, WriterMoves
  <1>6. CASE NextPop
    <2>1. UNCHANGED ring
      BY <1>6 DEF NextPop, queueVars, ring
    <2>2. \/ writer' = [writer EXCEPT !.at = "main", !.polls = @ + 1, !.read = FALSE]
          \/ writer' = Loop
      BY <1>6 DEF NextPop
    <2>3. CASE writer' = Loop
      <3>1. WriterShape' /\ writer'.at = "loop"
        BY <2>3 DEF WriterShape, Loop
      <3>2. QED
        BY <2>1, <3>1, WriterMoves
    <2>4. CASE writer' = [writer EXCEPT !.at = "main", !.polls = @ + 1, !.read = FALSE]
      <3>1. WriterShape' /\ writer'.at = "main"
        BY <1>1, <2>4 DEF WriterShape
      <3>2. QED
        BY <2>1, <3>1, WriterMoves
    <2>5. QED
      BY <2>2, <2>3, <2>4
  <1>7. CASE RecordForCollector
    <2>1. CASE BeginRecord
      <3>1. UNCHANGED ring /\ WriterShape' /\ Ready
        BY <1>1, <2>1 DEF BeginRecord, ring, WriterShape
      <3>2. QED
        BY <3>1, WriterMoves
    <2>2. CASE LookupFrame
      <3>1. UNCHANGED ring /\ WriterShape' /\ Ready
        BY <1>1, <2>2 DEF LookupFrame, queueVars, ring, WriterShape
      <3>2. QED
        BY <3>1, WriterMoves
    <2>3. CASE onNew
      <3>1. UNCHANGED ring /\ WriterShape' /\ Ready
        BY <1>1, <2>3 DEF onNew, queueVars, ring, WriterShape
      <3>2. QED
        BY <3>1, WriterMoves
    <2>4. CASE addFrames
      <3>1. UNCHANGED ring /\ Ready
        BY <1>1, <2>4 DEF addFrames, queueVars, ring
      <3>2. WriterShape'
        BY <1>1, <2>4 DEF addFrames, WriterShape
      <3>3. QED
        BY <3>1, <3>2, WriterMoves
    <2>5. CASE SendSample
      <3>1. Ready /\ FinishRead /\ WriterShape' /\ writer'.at = "popped"
        BY <1>1, <2>5 DEF SendSample, WriterShape
      <3>2. QED
        BY <3>1, FinishKeeps
    <2>6. QED
      BY <1>7, <2>1, <2>2, <2>3, <2>4, <2>5 DEF RecordForCollector, recordStackTrace
  <1>8. CASE RecordForPrometheus
    <2>1. Ready /\ FinishRead /\ WriterShape' /\ writer'.at = "popped"
      BY <1>1, <1>8 DEF RecordForPrometheus, WriterShape
    <2>2. QED
      BY <2>1, FinishKeeps
  <1>9. QED
    BY <1>2, <1>3, <1>4, <1>5, <1>6, <1>7, <1>8 DEF Processor

LEMMA SignalledKeeps ==
    ASSUME QueueInv, WalkLength <= maxFramesToCapture, NEW t \in Threads, Signalled(t)
    PROVE  QueueInv'
  <1>1. UNCHANGED writer
    BY DEF Signalled, writerVars
  <1>2. CASE \E is_error \in BOOLEAN : handle(t, is_error)
    <2>1. PICK is_error \in BOOLEAN : handle(t, is_error)
      BY <1>2
    <2>2. /\ handler' = [handler EXCEPT ![t] = [at |-> "push", is_error |-> is_error, slot |-> None]]
          /\ UNCHANGED <<input, output, slots, frame_buffer_, captured>>
      BY <2>1 DEF handle
    <2>3. QED
      BY <1>1, <2>2, HandlerMoves
  <1>3. CASE Lose(t)
    <2>1. /\ handler' = [handler EXCEPT ![t] = [at |-> "idle", is_error |-> FALSE, slot |-> None]]
          /\ UNCHANGED <<input, output, slots, frame_buffer_, captured>>
      BY <1>3 DEF Lose, Idle
    <2>2. QED
      BY <1>1, <2>1, HandlerMoves
  <1>4. CASE acquireWrite(t)
    BY <1>1, <1>4, AcquireKeeps
  <1>5. CASE \E walk \in linkable_handle, signum \in Signals : pushStackTrace(t, walk, signum)
    BY <1>1, <1>5, PushKeeps
  <1>6. QED
    BY <1>2, <1>3, <1>4, <1>5 DEF Signalled, Handler

\* Every step keeps the invariant.
LEMMA NextQueueInv ==
    ASSUME WalkLength <= maxFramesToCapture
    PROVE  QueueInv /\ [Next]_vars => QueueInv'
  <1> SUFFICES ASSUME QueueInv, [Next]_vars PROVE QueueInv'
    OBVIOUS
  <1>1. WriterShape /\ (writer.at \in {"frame", "names"} => Ready)
    BY DEF QueueInv, ReadInv
  <1>2. ASSUME UNCHANGED ring, UNCHANGED writer
        PROVE  QueueInv'
    <2>1. WriterShape' /\ writer'.at = writer.at
      BY <1>1, <1>2 DEF WriterShape
    <2>2. QED
      BY <1>1, <1>2, <2>1, WriterMoves
  <1>3. ASSUME NEW t \in Threads, Signalled(t)
        PROVE  QueueInv'
    BY <1>3, SignalledKeeps
  <1>4. CASE onSocketConnect
    BY <1>2, <1>4 DEF onSocketConnect, queueVars, writerVars, ring
  <1>5. CASE onFirstSampleRate
    BY <1>2, <1>5 DEF onFirstSampleRate, queueVars, writerVars, ring
  <1>6. CASE onDisconnect
    BY <1>2, <1>6 DEF onDisconnect, queueVars, writerVars, ring
  <1>7. CASE ScrapeInPoll
    BY <1>2, <1>7 DEF ScrapeInPoll, Scrape, queueVars, writerVars, ring
  <1>8. CASE Processor
    BY <1>8, ProcessorKeeps
  <1>9. CASE UNCHANGED vars
    BY <1>2, <1>9 DEF vars, queueVars, writerVars, ring
  <1>10. QED
    BY <1>3, <1>4, <1>5, <1>6, <1>7, <1>8, <1>9 DEF Next

\* A listener that pops a trace gets the frames its handler walked and no
\* frame of a trace that was in the slot before, for every number of
\* threads and slots, as long as a buffer has room for the longest walk:
\* what push copies (circular_queue.cpp:155), pop clears (:219).
THEOREM FramesSafe == WalkLength <= maxFramesToCapture => (Spec => []FramesIntact)
  <1> SUFFICES ASSUME WalkLength <= maxFramesToCapture
               PROVE  Spec => []FramesIntact
    OBVIOUS
  <1>1. QueueInv /\ [Next]_vars => QueueInv'
    BY NextQueueInv
  <1>2. QueueInv => FramesIntact
    BY DEF QueueInv
  <1>3. QED
    BY <1>1, <1>2, InitQueueInv, PTL DEF Spec

==============================================================================
