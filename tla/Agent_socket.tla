---------------------------- MODULE Agent_socket ----------------------------
(***************************************************************************)
(* Proofs about the socket that the nested calls of the processor thread   *)
(* share, for every bound: one write and one read at a time, no operation  *)
(* left over when the socket is deleted, no socket left over when the      *)
(* session ends, and the mark of a send in progress taken back.            *)
(*                                                                         *)
(* All of it rests on which frames the stack can hold together with which  *)
(* state of the socket.  The stack is looked at through three operators:   *)
(* the frames on it, where the frames of connect() are, and whether a kind *)
(* of frame is there twice.                                                *)
(***************************************************************************)
EXTENDS Agent_proofs

\* The frames of connect(), which only the loop calls.
Connecting == {"resolve", "connect"}

\* The frames that are about to ask for a header.
ReadStarters == {"attemptRead", "onSocketConnect"}

\* The frames whose presence says something about the socket.
Marked == Connecting \cup ReadStarters \cup
    {"drain", "write", "sendEnd", "disable", "blocked"}

Active(s) == {s[k] : k \in DOMAIN s}

\* The bottom frame is the only one of its kind, and a frame of connect()
\* is right above it.
Shape(s) ==
    /\ WellFormed(s)
    /\ \A k \in DOMAIN s : /\ s[k] \in Bases => k = Len(s)
                           /\ s[k] \in Connecting => k + 1 = Len(s)

AtMostOne(F, s) ==
    \A j, k \in DOMAIN s : s[j] \in F /\ s[k] \in F => j = k

-----------------------------------------------------------------------------
(* Lemmas about the stack *)

\* What a call puts on the stack: its frames and what was there.
LEMMA CallActive ==
    ASSUME NEW s \in Seq(Frames), NEW f \in Seq(Frames)
    PROVE  Active(f \o s) = Active(f) \cup Active(s)
  <1>1. /\ Len(f) \in Nat /\ Len(s) \in Nat
        /\ DOMAIN f = 1 .. Len(f) /\ DOMAIN s = 1 .. Len(s)
        /\ DOMAIN (f \o s) = 1 .. Len(f) + Len(s)
    OBVIOUS
  <1>2. /\ \A k \in 1 .. Len(f) : (f \o s)[k] = f[k]
        /\ \A k \in 1 .. Len(s) : (f \o s)[Len(f) + k] = s[k]
    BY <1>1
  <1>3. ASSUME NEW a \in Active(f \o s) PROVE a \in Active(f) \cup Active(s)
    <2>1. PICK k \in 1 .. Len(f) + Len(s) : a = (f \o s)[k]
      BY <1>1, <1>3 DEF Active
    <2>2. CASE k <= Len(f)
      BY <1>1, <1>2, <2>1, <2>2 DEF Active
    <2>3. CASE k > Len(f)
      <3>1. k - Len(f) \in 1 .. Len(s) /\ k = Len(f) + (k - Len(f))
        BY <1>1, <2>1, <2>3
      <3>2. a = s[k - Len(f)]
        BY <1>2, <2>1, <3>1
      <3>3. QED
        BY <1>1, <3>1, <3>2 DEF Active
    <2>4. QED
      BY <1>1, <2>2, <2>3
  <1>4. ASSUME NEW a \in Active(f) PROVE a \in Active(f \o s)
    BY <1>1, <1>2 DEF Active
  <1>5. ASSUME NEW a \in Active(s) PROVE a \in Active(f \o s)
    <2>1. PICK k \in 1 .. Len(s) : a = s[k]
      BY <1>1 DEF Active
    <2>2. Len(f) + k \in DOMAIN (f \o s) /\ a = (f \o s)[Len(f) + k]
      BY <1>1, <1>2, <2>1
    <2>3. QED
      BY <2>2 DEF Active
  <1>6. QED
    BY <1>3, <1>4, <1>5

\* A call other than connect()'s keeps the shape of the stack.
LEMMA CallShape ==
    ASSUME NEW s, Shape(s), NEW f \in Seq(Frames),
           Active(f) \cap (Bases \cup Connecting) = {}
    PROVE  Shape(f \o s)
  <1>1. /\ s \in Seq(Frames)
        /\ Len(f) \in Nat /\ Len(s) \in Nat
        /\ DOMAIN f = 1 .. Len(f) /\ DOMAIN s = 1 .. Len(s)
        /\ DOMAIN (f \o s) = 1 .. Len(f) + Len(s)
        /\ Len(f \o s) = Len(f) + Len(s)
    BY DEF Shape, WellFormed
  <1>2. /\ \A k \in 1 .. Len(f) : (f \o s)[k] = f[k]
        /\ \A k \in 1 .. Len(s) : (f \o s)[Len(f) + k] = s[k]
    BY <1>1
  <1>3. WellFormed(f \o s)
    BY CallWellFormed DEF Shape
  <1>4. ASSUME NEW k \in DOMAIN (f \o s)
        PROVE  /\ (f \o s)[k] \in Bases => k = Len(f \o s)
               /\ (f \o s)[k] \in Connecting => k + 1 = Len(f \o s)
    <2>1. CASE k <= Len(f)
      BY <1>1, <1>2, <2>1 DEF Active
    <2>2. CASE k > Len(f)
      <3>1. PICK j \in 1 .. Len(s) : k = Len(f) + j
        <4>1. k - Len(f) \in 1 .. Len(s) /\ k = Len(f) + (k - Len(f))
          BY <1>1, <2>2
        <4>2. QED
          BY <4>1
      <3>2. (f \o s)[k] = s[j]
        BY <1>2, <3>1
      <3>3. /\ s[j] \in Bases => j = Len(s)
            /\ s[j] \in Connecting => j + 1 = Len(s)
        BY <1>1 DEF Shape
      <3>4. /\ j = Len(s) => k = Len(f \o s)
            /\ j + 1 = Len(s) => k + 1 = Len(f \o s)
        <4>1. /\ Len(f) \in Nat /\ Len(s) \in Nat /\ j \in Nat
              /\ Len(f \o s) = Len(f) + Len(s) /\ k = Len(f) + j
          BY <1>1, <3>1
        <4>2. \A a, b, c \in Nat : /\ c = b => a + c = a + b
                                 /\ c + 1 = b => (a + c) + 1 = a + b
          OBVIOUS
        <4>3. QED
          BY <4>1, <4>2
      <3>5. QED
        BY <3>2, <3>3, <3>4
    <2>3. QED
      BY <1>1, <2>1, <2>2
  <1>5. QED
    BY <1>3, <1>4 DEF Shape

\* A kind of frame stays unique when the call pushes none of it, or pushes
\* one and there was none.
LEMMA CallAtMostOne ==
    ASSUME NEW F, NEW s \in Seq(Frames), NEW f \in Seq(Frames),
           AtMostOne(F, s), AtMostOne(F, f),
           Active(f) \cap F = {} \/ Active(s) \cap F = {}
    PROVE  AtMostOne(F, f \o s)
  <1>1. /\ Len(f) \in Nat /\ Len(s) \in Nat
        /\ DOMAIN f = 1 .. Len(f) /\ DOMAIN s = 1 .. Len(s)
        /\ DOMAIN (f \o s) = 1 .. Len(f) + Len(s)
    OBVIOUS
  <1>2. /\ \A k \in 1 .. Len(f) : (f \o s)[k] = f[k]
        /\ \A k \in 1 .. Len(s) : (f \o s)[Len(f) + k] = s[k]
    BY <1>1
  <1>3. \A k \in DOMAIN (f \o s) :
            \/ k \in 1 .. Len(f)
            \/ k - Len(f) \in 1 .. Len(s) /\ (f \o s)[k] = s[k - Len(f)]
    <2>1. SUFFICES ASSUME NEW k \in DOMAIN (f \o s), k \notin 1 .. Len(f)
                   PROVE  k - Len(f) \in 1 .. Len(s) /\ (f \o s)[k] = s[k - Len(f)]
      OBVIOUS
    <2>2. k - Len(f) \in 1 .. Len(s) /\ k = Len(f) + (k - Len(f))
      BY <1>1, <2>1
    <2>3. QED
      BY <1>2, <2>2
  <1>4. SUFFICES ASSUME NEW j \in DOMAIN (f \o s), NEW k \in DOMAIN (f \o s),
                        (f \o s)[j] \in F, (f \o s)[k] \in F
                 PROVE  j = k
    BY DEF AtMostOne
  <1>5. CASE j \in 1 .. Len(f)
    <2>1. f[j] \in F /\ f[j] \in Active(f)
      BY <1>1, <1>2, <1>4, <1>5 DEF Active
    <2>2. k \in 1 .. Len(f)
      BY <1>1, <1>3, <1>4, <2>1 DEF Active
    <2>3. QED
      BY <1>1, <1>2, <1>4, <1>5, <2>2 DEF AtMostOne
  <1>6. CASE j \notin 1 .. Len(f)
    <2>1. j - Len(f) \in 1 .. Len(s) /\ s[j - Len(f)] \in F
      BY <1>3, <1>4, <1>6
    <2>2. Active(f) \cap F = {}
      BY <1>1, <2>1 DEF Active
    <2>3. k \notin 1 .. Len(f)
      BY <1>1, <1>2, <1>4, <2>2 DEF Active
    <2>4. k - Len(f) \in 1 .. Len(s) /\ s[k - Len(f)] \in F
      BY <1>3, <1>4, <2>3
    <2>5. j - Len(f) = k - Len(f)
      BY <1>1, <2>1, <2>4 DEF AtMostOne
    <2>6. QED
      BY <1>1, <2>5
  <1>7. QED
    BY <1>5, <1>6

\* What is left when the running frame returns.
LEMMA ReturnShape ==
    ASSUME NEW s, Shape(s), Head(s) \notin Bases
    PROVE  /\ Shape(Tail(s))
           /\ Tail(s) \in Seq(Frames)
           /\ Active(s) = {Head(s)} \cup Active(Tail(s))
           /\ \A F : AtMostOne(F, s) =>
                  /\ AtMostOne(F, Tail(s))
                  /\ Head(s) \in F => Active(Tail(s)) \cap F = {}
  <1>1. /\ s \in Seq(Frames) /\ Len(s) \in Nat /\ Len(s) > 0
        /\ DOMAIN s = 1 .. Len(s) /\ Head(s) = s[1]
    BY DEF Shape, WellFormed
  <1>2. /\ Tail(s) \in Seq(Frames)
        /\ Len(Tail(s)) = Len(s) - 1
        /\ DOMAIN Tail(s) = 1 .. Len(s) - 1
        /\ \A k \in 1 .. Len(s) - 1 : Tail(s)[k] = s[k + 1]
    BY <1>1
  <1>3. WellFormed(Tail(s))
    BY ReturnWellFormed DEF Shape
  <1>4. Shape(Tail(s))
    <2>1. ASSUME NEW k \in DOMAIN Tail(s)
          PROVE  /\ Tail(s)[k] \in Bases => k = Len(Tail(s))
                 /\ Tail(s)[k] \in Connecting => k + 1 = Len(Tail(s))
      <3>1. k + 1 \in DOMAIN s /\ Tail(s)[k] = s[k + 1]
        BY <1>1, <1>2
      <3>2. /\ s[k + 1] \in Bases => k + 1 = Len(s)
            /\ s[k + 1] \in Connecting => (k + 1) + 1 = Len(s)
        BY <3>1 DEF Shape
      <3>3. QED
        BY <1>1, <1>2, <3>1, <3>2
    <2>2. QED
      BY <1>3, <2>1 DEF Shape
  <1>5. Active(s) = {Head(s)} \cup Active(Tail(s))
    <2>1. ASSUME NEW a \in Active(s) PROVE a \in {Head(s)} \cup Active(Tail(s))
      <3>1. PICK k \in 1 .. Len(s) : a = s[k]
        BY <1>1 DEF Active
      <3>2. CASE k = 1
        BY <1>1, <3>1, <3>2
      <3>3. CASE k # 1
        <4>1. k - 1 \in 1 .. Len(s) - 1 /\ (k - 1) + 1 = k
          BY <1>1, <3>3
        <4>2. a = Tail(s)[k - 1]
          BY <1>2, <3>1, <4>1
        <4>3. QED
          BY <1>2, <4>1, <4>2 DEF Active
      <3>4. QED
        BY <3>2, <3>3
    <2>2. Head(s) \in Active(s)
      BY <1>1 DEF Active
    <2>3. ASSUME NEW a \in Active(Tail(s)) PROVE a \in Active(s)
      <3>1. PICK k \in 1 .. Len(s) - 1 : a = Tail(s)[k]
        BY <1>2 DEF Active
      <3>2. k + 1 \in 1 .. Len(s) /\ a = s[k + 1]
        BY <1>1, <1>2, <3>1
      <3>3. QED
        BY <1>1, <3>2 DEF Active
    <2>4. QED
      BY <2>1, <2>2, <2>3
  <1>6. ASSUME NEW F, AtMostOne(F, s)
        PROVE  /\ AtMostOne(F, Tail(s))
               /\ Head(s) \in F => Active(Tail(s)) \cap F = {}
    <2>1. ASSUME NEW j \in DOMAIN Tail(s), NEW k \in DOMAIN Tail(s),
                 Tail(s)[j] \in F, Tail(s)[k] \in F
          PROVE  j = k
      <3>1. /\ j + 1 \in DOMAIN s /\ s[j + 1] \in F
            /\ k + 1 \in DOMAIN s /\ s[k + 1] \in F
        BY <1>1, <1>2, <2>1
      <3>2. j + 1 = k + 1
        BY <1>6, <3>1 DEF AtMostOne
      <3>3. QED
        BY <1>1, <1>2, <3>2
    <2>2. ASSUME Head(s) \in F, NEW a \in Active(Tail(s)) \cap F PROVE FALSE
      <3>1. PICK k \in 1 .. Len(s) - 1 : a = Tail(s)[k]
        BY <1>2 DEF Active
      <3>2. k + 1 \in DOMAIN s /\ s[k + 1] \in F /\ 1 \in DOMAIN s /\ s[1] \in F
        BY <1>1, <1>2, <2>2, <3>1
      <3>3. k + 1 = 1
        BY <1>6, <3>2 DEF AtMostOne
      <3>4. QED
        BY <1>1, <3>3
    <2>3. QED
      BY <2>1, <2>2 DEF AtMostOne
  <1>7. QED
    BY <1>2, <1>4, <1>5, <1>6

\* A base frame runs alone.
LEMMA BaseAlone ==
    ASSUME NEW s, Shape(s), Head(s) \in Bases
    PROVE  Active(s) = {Head(s)} /\ \A F : AtMostOne(F, s)
  <1>1. /\ s \in Seq(Frames) /\ Len(s) \in Nat /\ Len(s) > 0
        /\ DOMAIN s = 1 .. Len(s) /\ Head(s) = s[1]
    BY DEF Shape, WellFormed
  <1>2. Len(s) = 1
    BY <1>1 DEF Shape
  <1>3. DOMAIN s = {1}
    BY <1>1, <1>2
  <1>4. QED
    BY <1>1, <1>3 DEF Active, AtMostOne

\* A frame of connect() runs right above the bottom frame.
LEMMA ConnectingOnBase ==
    ASSUME NEW s, Shape(s), Head(s) \in Connecting
    PROVE  /\ Active(Tail(s)) \subseteq Bases
           /\ Active(Tail(s)) # {}
           /\ \A a \in Connecting : Shape(<<a>> \o Tail(s))
  <1>1. /\ s \in Seq(Frames) /\ Len(s) \in Nat /\ Len(s) > 0
        /\ DOMAIN s = 1 .. Len(s) /\ Head(s) = s[1]
        /\ s[Len(s)] \in Bases
    BY DEF Shape, WellFormed
  <1>2. Len(s) = 2
    BY <1>1 DEF Shape
  <1>3. /\ Tail(s) \in Seq(Frames) /\ Len(Tail(s)) = 1 /\ Tail(s)[1] = s[2]
        /\ DOMAIN Tail(s) = {1}
    <2>1. Len(Tail(s)) = 1 /\ Tail(s)[1] = s[2]
      BY <1>1, <1>2
    <2>2. Tail(s) \in Seq(Frames)
      BY <1>1
    <2>3. DOMAIN Tail(s) = 1 .. Len(Tail(s))
      BY <2>2
    <2>4. DOMAIN Tail(s) = {1}
      <3>1. 1 .. 1 = {1}
        OBVIOUS
      <3>2. QED
        BY <2>1, <2>3, <3>1
    <2>5. QED
      BY <2>1, <2>2, <2>4
  <1>4. Active(Tail(s)) = {s[2]} /\ s[2] \in Bases
    BY <1>1, <1>2, <1>3 DEF Active
  <1>5. ASSUME NEW a \in Connecting PROVE Shape(<<a>> \o Tail(s))
    <2>1. <<a>> \in Seq(Frames)
      BY DEF Connecting, Frames, Waits
    <2>2. WellFormed(<<a>> \o Tail(s))
      <3>1. Head(s) \notin Bases
        BY DEF Connecting, Bases
      <3>2. QED
        BY <2>1, <3>1, ContinueWellFormed DEF Shape
    <2>3. /\ Len(<<a>> \o Tail(s)) = 2 /\ DOMAIN (<<a>> \o Tail(s)) = {1, 2}
          /\ (<<a>> \o Tail(s))[1] = a /\ (<<a>> \o Tail(s))[2] = s[2]
      <3>1. /\ Len(<<a>> \o Tail(s)) = 2
            /\ (<<a>> \o Tail(s))[1] = a /\ (<<a>> \o Tail(s))[2] = Tail(s)[1]
            /\ <<a>> \o Tail(s) \in Seq(Frames)
        BY <1>3, <2>1
      <3>2. DOMAIN (<<a>> \o Tail(s)) = 1 .. 2
        <4>1. \A q \in Seq(Frames) : DOMAIN q = 1 .. Len(q)
          OBVIOUS
        <4>2. QED
          BY <3>1, <4>1, Zenon
      <3>3. 1 .. 2 = {1, 2}
        OBVIOUS
      <3>4. QED
        BY <1>3, <3>1, <3>2, <3>3
    <2>4. a \notin Bases /\ s[2] \notin Connecting
      BY <1>4 DEF Connecting, Bases
    <2>5. QED
      BY <2>2, <2>3, <2>4 DEF Shape
  <1>6. QED
    BY <1>4, <1>5

\* The loop, the only caller of connect(), calls it from the bottom.
LEMMA ConnectShape ==
    ASSUME NEW s, Shape(s), Head(s) \in Bases, NEW a \in Connecting
    PROVE  Shape(<<a>> \o s)
  <1>1. /\ s \in Seq(Frames) /\ Len(s) \in Nat /\ Len(s) > 0
        /\ DOMAIN s = 1 .. Len(s) /\ Head(s) = s[1]
    BY DEF Shape, WellFormed
  <1>2. Len(s) = 1
    BY <1>1 DEF Shape
  <1>3. <<a>> \in Seq(Frames)
    BY DEF Connecting, Frames, Waits
  <1>4. WellFormed(<<a>> \o s)
    BY <1>3, CallWellFormed DEF Shape
  <1>5. /\ Len(<<a>> \o s) = 2
        /\ (<<a>> \o s)[1] = a /\ (<<a>> \o s)[2] = s[1]
        /\ <<a>> \o s \in Seq(Frames)
    <2>1. s \in Seq(Frames) /\ Len(s) = 1
      BY <1>1, <1>2
    <2>2. <<a>> \o s \in Seq(Frames) /\ Len(<<a>> \o s) = 2
      <3>1. <<a>> \o s \in Seq(Frames) /\ Len(<<a>> \o s) = Len(<<a>>) + Len(s)
        <4>1. \A f, g \in Seq(Frames) :
                  f \o g \in Seq(Frames) /\ Len(f \o g) = Len(f) + Len(g)
          OBVIOUS
        <4>2. QED
          BY <1>3, <2>1, <4>1, Zenon
      <3>2. Len(<<a>>) = 1
        OBVIOUS
      <3>3. QED
        BY <2>1, <3>1, <3>2
    <2>3. (<<a>> \o s)[1] = a
      BY <1>3, <2>1
    <2>4. (<<a>> \o s)[2] = s[1]
      BY <1>3, <2>1
    <2>5. QED
      BY <2>2, <2>3, <2>4
  <1>6. DOMAIN (<<a>> \o s) = {1, 2}
    <2>1. \A q \in Seq(Frames) : DOMAIN q = 1 .. Len(q)
      OBVIOUS
    <2>2. 1 .. 2 = {1, 2}
      OBVIOUS
    <2>3. QED
      BY <1>5, <2>1, <2>2, Zenon
  <1>7. a \notin Bases /\ s[1] \notin Connecting
    BY <1>1 DEF Connecting, Bases
  <1>8. QED
    BY <1>4, <1>5, <1>6, <1>7 DEF Shape

\* The stacks that the loop starts or ends with.
LEMMA BaseShape ==
    /\ \A b \in Bases : Shape(<<b>>) /\ Active(<<b>>) = {b}
    /\ Shape(<<"onDisconnect", "exit">>)
    /\ Active(<<"onDisconnect", "exit">>) = {"onDisconnect", "exit"}
  <1>1. ASSUME NEW b \in Bases PROVE Shape(<<b>>) /\ Active(<<b>>) = {b}
    <2>1. b \in Frames /\ b \notin Connecting
      BY DEF Bases, Frames, Connecting
    <2>2. <<b>> \in Seq(Frames) /\ Len(<<b>>) = 1 /\ <<b>>[1] = b /\ DOMAIN <<b>> = {1}
      BY <2>1
    <2>3. QED
      BY <2>1, <2>2 DEF Shape, WellFormed, Active
  <1>2. "onDisconnect" \in Frames /\ "exit" \in Frames
    BY DEF Frames
  <1>3. /\ <<"onDisconnect", "exit">> \in Seq(Frames)
        /\ Len(<<"onDisconnect", "exit">>) = 2
        /\ <<"onDisconnect", "exit">>[1] = "onDisconnect"
        /\ <<"onDisconnect", "exit">>[2] = "exit"
        /\ DOMAIN <<"onDisconnect", "exit">> = {1, 2}
    BY <1>2
  <1>4. QED
    BY <1>1, <1>3 DEF Shape, WellFormed, Active, Bases, Connecting

\* The frames that the actions push.
LEMMA PushedFrames ==
    /\ \A a \in Frames : <<a>> \in Seq(Frames) /\ Active(<<a>>) = {a}
    /\ \A a, b \in Frames : <<a, b>> \in Seq(Frames) /\ Active(<<a, b>>) = {a, b}
  <1>1. \A a : DOMAIN <<a>> = {1} /\ <<a>>[1] = a
    OBVIOUS
  <1>2. \A a, b : DOMAIN <<a, b>> = {1, 2} /\ <<a, b>>[1] = a /\ <<a, b>>[2] = b
    OBVIOUS
  <1>3. \A a : Active(<<a>>) = {a}
    BY <1>1 DEF Active
  <1>4. \A a, b : Active(<<a, b>>) = {a, b}
    BY <1>2 DEF Active
  <1>5. /\ \A a \in Frames : <<a>> \in Seq(Frames)
        /\ \A a, b \in Frames : <<a, b>> \in Seq(Frames)
    OBVIOUS
  <1>6. QED
    BY <1>3, <1>4, <1>5

\* Frames without any of the kind, or a single frame, hold it at most once.
LEMMA FewFrames ==
    /\ \A f, F : Active(f) \cap F = {} => AtMostOne(F, f)
    /\ \A a, F : AtMostOne(F, <<a>>)
  <1>1. \A f, F : Active(f) \cap F = {} => AtMostOne(F, f)
    BY DEF Active, AtMostOne
  <1>2. \A a : DOMAIN <<a>> = {1}
    OBVIOUS
  <1>3. \A a, F : AtMostOne(F, <<a>>)
    BY <1>2 DEF AtMostOne
  <1>4. QED
    BY <1>1, <1>3

-----------------------------------------------------------------------------
(* The inductive invariant *)

\* Which frames go with which socket.  A connected socket is open, and not
\* being closed or connected.  A name is resolved before there is a socket,
\* and nothing is read before it is connected.  A disconnected controller
\* has a socket only while that is drained or connected, or onDisconnect is
\* in its call of disable.
SocketInv ==
    /\ isConnected => sock = "open"
    /\ isConnected => Active(stack) \cap {"sendEnd", "connect", "drain"} = {}
    /\ "resolve" \in Active(stack) => sock = "null"
    /\ "connect" \in Active(stack) => read = "none"
    /\ sock = "null" =>
           /\ read = "none"
           /\ ec = "would_block" => "resolve" \in Active(stack)
    /\ sock # "null" /\ state = "DISCONNECTED" =>
           Active(stack) \cap {"drain", "connect", "onSocketConnect",
                                "disable", "blocked"} # {}

\* A write on a connected socket is marked as a send in progress.
SendInv ==
    /\ AtMostOne({"write"}, stack)
    /\ isConnected /\ "write" \in Active(stack) => isSending

\* On a connected socket a frame about to read is the only one, and there
\* is no read besides it.
ReadInv ==
    isConnected =>
        /\ AtMostOne(ReadStarters, stack)
        /\ Active(stack) \cap ReadStarters # {} => read = "none"

IInv == TypeOK /\ Shape(stack) /\ SocketInv /\ SendInv /\ ReadInv

\* A step that moves none of the marked frames and leaves the socket alone
\* keeps the invariant.
LEMMA Aside ==
    ASSUME IInv, TypeOK', Shape(stack'),
           Active(stack') \cap Marked = Active(stack) \cap Marked,
           \A F \in SUBSET Marked : AtMostOne(F, stack) => AtMostOne(F, stack'),
           UNCHANGED <<sock, isConnected, isSending, read, ec>>,
           state' = state \/ state' # "DISCONNECTED"
    PROVE  IInv'
  <1>1. \A a \in Marked : a \in Active(stack') <=> a \in Active(stack)
    OBVIOUS
  <1>2. SocketInv'
    BY <1>1 DEF IInv, SocketInv, Marked, Connecting, ReadStarters
  <1>3. SendInv'
    BY <1>1 DEF IInv, SendInv, Marked
  <1>4. ReadInv'
    BY <1>1 DEF IInv, ReadInv, Marked
  <1>5. QED
    BY <1>2, <1>3, <1>4 DEF IInv

\* The steps that leave the socket alone: calls of unmarked frames, ...
LEMMA QuietCall ==
    ASSUME IInv, TypeOK', NEW f \in Seq(Frames), stack' = f \o stack,
           Active(f) \cap (Marked \cup Bases) = {},
           UNCHANGED <<sock, isConnected, isSending, read, ec>>,
           state' = state \/ state' # "DISCONNECTED"
    PROVE  IInv'
  <1>1. Shape(stack) /\ stack \in Seq(Frames)
    BY DEF IInv, Shape, WellFormed
  <1>2. Shape(stack')
    BY <1>1, CallShape DEF Marked
  <1>3. Active(stack') = Active(f) \cup Active(stack)
    BY <1>1, CallActive
  <1>4. \A F \in SUBSET Marked : AtMostOne(F, stack) => AtMostOne(F, stack')
    <2>1. SUFFICES ASSUME NEW F \in SUBSET Marked, AtMostOne(F, stack)
                   PROVE  AtMostOne(F, f \o stack)
      OBVIOUS
    <2>2. Active(f) \cap F = {} /\ AtMostOne(F, f)
      BY FewFrames
    <2>3. QED
      BY <1>1, <2>1, <2>2, CallAtMostOne
  <1>5. Active(stack') \cap Marked = Active(stack) \cap Marked
    BY <1>3
  <1>6. QED
    BY <1>2, <1>4, <1>5, Aside

\* ... returns of one, ...
LEMMA QuietReturn ==
    ASSUME IInv, TypeOK', stack' = Return, Running \notin Marked \cup Bases,
           UNCHANGED <<sock, isConnected, isSending, read, ec>>,
           state' = state \/ state' # "DISCONNECTED"
    PROVE  IInv'
  <1>1. /\ Shape(stack')
        /\ Active(stack) = {Running} \cup Active(stack')
        /\ \A F : AtMostOne(F, stack) => AtMostOne(F, stack')
    BY ReturnShape DEF IInv, Running, Return
  <1>2. Active(stack') \cap Marked = Active(stack) \cap Marked
    BY <1>1
  <1>3. QED
    BY <1>1, <1>2, Aside

\* ... and the replacement of one by others.
LEMMA QuietContinue ==
    ASSUME IInv, TypeOK', NEW f \in Seq(Frames), stack' = Continue(f),
           Running \notin Marked \cup Bases,
           Active(f) \cap (Marked \cup Bases) = {},
           UNCHANGED <<sock, isConnected, isSending, read, ec>>,
           state' = state \/ state' # "DISCONNECTED"
    PROVE  IInv'
  <1>1. /\ Shape(Tail(stack)) /\ Tail(stack) \in Seq(Frames)
        /\ Active(stack) = {Running} \cup Active(Tail(stack))
        /\ \A F : AtMostOne(F, stack) => AtMostOne(F, Tail(stack))
    BY ReturnShape DEF IInv, Running
  <1>2. stack' = f \o Tail(stack)
    BY DEF Continue
  <1>3. Shape(stack')
    BY <1>1, <1>2, CallShape DEF Marked
  <1>4. Active(stack') = Active(f) \cup Active(Tail(stack))
    BY <1>1, <1>2, CallActive
  <1>5. \A F \in SUBSET Marked : AtMostOne(F, stack) => AtMostOne(F, stack')
    <2>1. SUFFICES ASSUME NEW F \in SUBSET Marked, AtMostOne(F, stack)
                   PROVE  AtMostOne(F, f \o Tail(stack))
      BY <1>2
    <2>2. Active(f) \cap F = {} /\ AtMostOne(F, f)
      BY FewFrames
    <2>3. QED
      BY <1>1, <2>1, <2>2, CallAtMostOne
  <1>6. Active(stack') \cap Marked = Active(stack) \cap Marked
    BY <1>1, <1>4
  <1>7. QED
    BY <1>3, <1>5, <1>6, Aside

-----------------------------------------------------------------------------
(* The effect on the stack of the steps that do touch the socket *)

\* A return.
LEMMA ReturnEffect ==
    ASSUME IInv, Running \notin Bases, stack' = Return
    PROVE  /\ Shape(stack')
           /\ Active(stack) = {Running} \cup Active(stack')
           /\ AtMostOne({"write"}, stack')
           /\ Running = "write" => "write" \notin Active(stack')
           /\ isConnected => AtMostOne(ReadStarters, stack')
           /\ isConnected /\ Running \in ReadStarters =>
                  Active(stack') \cap ReadStarters = {}
  <1>1. Shape(stack) /\ AtMostOne({"write"}, stack)
    BY DEF IInv, SendInv
  <1>2. isConnected => AtMostOne(ReadStarters, stack)
    BY DEF IInv, ReadInv
  <1>3. QED
    BY <1>1, <1>2, ReturnShape DEF Running, Return

\* A return into other frames.
LEMMA ContinueEffect ==
    ASSUME IInv, Running \notin Bases, NEW f \in Seq(Frames), stack' = Continue(f),
           Active(f) \cap (Bases \cup Connecting) = {}
    PROVE  /\ Shape(stack')
           /\ Active(stack') = Active(f) \cup Active(Tail(stack))
           /\ Active(stack) = {Running} \cup Active(Tail(stack))
           /\ AtMostOne({"write"}, f) /\ "write" \notin Active(Tail(stack)) =>
                  AtMostOne({"write"}, stack')
           /\ "write" \notin Active(f) => AtMostOne({"write"}, stack')
           /\ isConnected /\ Active(f) \cap ReadStarters = {} =>
                  AtMostOne(ReadStarters, stack')
           /\ isConnected /\ Running \in ReadStarters =>
                  Active(Tail(stack)) \cap ReadStarters = {}
  <1>1. Shape(stack) /\ AtMostOne({"write"}, stack)
    BY DEF IInv, SendInv
  <1>2. isConnected => AtMostOne(ReadStarters, stack)
    BY DEF IInv, ReadInv
  <1>3. /\ Shape(Tail(stack)) /\ Tail(stack) \in Seq(Frames)
        /\ Active(stack) = {Running} \cup Active(Tail(stack))
        /\ AtMostOne({"write"}, Tail(stack))
        /\ isConnected => AtMostOne(ReadStarters, Tail(stack))
        /\ isConnected /\ Running \in ReadStarters =>
               Active(Tail(stack)) \cap ReadStarters = {}
    BY <1>1, <1>2, ReturnShape DEF Running
  <1>4. stack' = f \o Tail(stack)
    BY DEF Continue
  <1>5. Shape(stack') /\ Active(stack') = Active(f) \cup Active(Tail(stack))
    <2>1. Shape(f \o Tail(stack))
      BY <1>3, CallShape
    <2>2. Active(f \o Tail(stack)) = Active(f) \cup Active(Tail(stack))
      BY <1>3, CallActive
    <2>3. QED
      BY <1>4, <2>1, <2>2
  <1>6. ASSUME NEW F, AtMostOne(F, Tail(stack)), AtMostOne(F, f),
               Active(f) \cap F = {} \/ Active(Tail(stack)) \cap F = {}
        PROVE  AtMostOne(F, stack')
    BY <1>3, <1>4, <1>6, CallAtMostOne
  <1>7. ASSUME NEW F, Active(f) \cap F = {} PROVE AtMostOne(F, f)
    BY <1>7, FewFrames
  <1>8. QED
    BY <1>3, <1>5, <1>6, <1>7

\* A call.
LEMMA CallEffect ==
    ASSUME IInv, NEW f \in Seq(Frames), stack' = Call(f),
           Active(f) \cap (Bases \cup Connecting) = {}, "write" \notin Active(f)
    PROVE  /\ Shape(stack')
           /\ Active(stack') = Active(f) \cup Active(stack)
           /\ AtMostOne({"write"}, stack')
           /\ isConnected /\ Active(stack) \cap ReadStarters = {}
                  /\ AtMostOne(ReadStarters, f) => AtMostOne(ReadStarters, stack')
  <1>1. Shape(stack) /\ stack \in Seq(Frames) /\ AtMostOne({"write"}, stack)
    BY DEF IInv, SendInv, Shape, WellFormed
  <1>2. isConnected => AtMostOne(ReadStarters, stack)
    BY DEF IInv, ReadInv
  <1>3. stack' = f \o stack
    BY DEF Call
  <1>4. Shape(stack') /\ Active(stack') = Active(f) \cup Active(stack)
    BY <1>1, <1>3, CallShape, CallActive
  <1>5. AtMostOne({"write"}, f)
    BY FewFrames
  <1>6. AtMostOne({"write"}, stack')
    BY <1>1, <1>3, <1>5, CallAtMostOne
  <1>7. ASSUME isConnected, Active(stack) \cap ReadStarters = {},
               AtMostOne(ReadStarters, f)
        PROVE  AtMostOne(ReadStarters, stack')
    BY <1>1, <1>2, <1>3, <1>7, CallAtMostOne
  <1>8. QED
    BY <1>4, <1>6, <1>7

\* close(), with what follows it.
LEMMA CloseEffect ==
    ASSUME IInv, NEW s, Shape(s), AtMostOne({"write"}, s), close(s)
    PROVE  /\ Shape(stack')
           /\ AtMostOne({"write"}, stack')
           /\ ~isConnected'
           /\ sock' = "null" <=> sock = "null"
           /\ sock = "null" => Active(stack') = Active(s)
           /\ sock # "null" => Active(stack') = {"drain"} \cup Active(s)
  <1>1. "drain" \in Frames /\ "drain" \notin Bases \cup Connecting
    BY DEF Frames, Bases, Connecting
  <1>2. <<"drain">> \in Seq(Frames) /\ Active(<<"drain">>) = {"drain"}
    BY <1>1, PushedFrames
  <1>3. s \in Seq(Frames)
    BY DEF Shape, WellFormed
  <1>4. /\ Shape(<<"drain">> \o s)
        /\ Active(<<"drain">> \o s) = {"drain"} \cup Active(s)
    BY <1>1, <1>2, <1>3, CallShape, CallActive
  <1>5. AtMostOne({"write"}, <<"drain">> \o s)
    <2>1. AtMostOne({"write"}, <<"drain">>)
      BY FewFrames
    <2>2. Active(<<"drain">>) \cap {"write"} = {}
      BY <1>2
    <2>3. QED
      BY <1>2, <1>3, <2>1, <2>2, CallAtMostOne
  <1>6. ~isConnected' /\ (sock' = "null" <=> sock = "null")
    BY DEF close, closeSocket, IInv, SocketInv
  <1>7. stack' = IF sock = "null" THEN s ELSE <<"drain">> \o s
    BY DEF close
  <1>8. QED
    BY <1>4, <1>5, <1>6, <1>7

-----------------------------------------------------------------------------
(* Every step keeps the invariant *)

\* The steps of the network.
LEMMA NetworkKeeps ==
    ASSUME IInv, TypeOK', NetworkStep, NetworkOnly
    PROVE  IInv'
  <1>a. state' = state
    BY DEF NetworkOnly, controllerVars
  <1>b. Running \in Active(stack) /\ Shape(stack)
    BY ReturnShape, BaseAlone DEF IInv, Running
  <1> USE DEF IInv
  <1>1. CASE DrainDone
    <2>1. Running = "drain" /\ Running \notin Bases /\ stack' = Return
      BY <1>1 DEF DrainDone, Bases
    <2>2. /\ Shape(stack') /\ AtMostOne({"write"}, stack')
          /\ Active(stack) = {Running} \cup Active(stack')
      BY <2>1, ReturnEffect
    <2>3. ~isConnected'
      BY <1>1, <1>b, <2>1 DEF DrainDone, SocketInv
    <2>4. SocketInv'
      BY <1>1, <2>2, <2>3 DEF DrainDone, SocketInv
    <2>5. QED
      BY <2>2, <2>3, <2>4 DEF SendInv, ReadInv
  <1>2. CASE StartConnect
    <2>1. Running = "resolve" /\ Running \in Connecting
      BY <1>2 DEF StartConnect, Connecting
    <2>2. /\ Active(Tail(stack)) \subseteq Bases
          /\ Shape(<<"connect">> \o Tail(stack))
      BY <1>b, <2>1, ConnectingOnBase DEF Running, Connecting
    <2>3. Tail(stack) \in Seq(Frames)
      BY <1>b DEF Shape, WellFormed
    <2>4. <<"connect">> \in Seq(Frames) /\ Active(<<"connect">>) = {"connect"}
      BY PushedFrames DEF Frames, Waits
    <2>5. /\ stack' = <<"connect">> \o Tail(stack)
          /\ Active(stack') = {"connect"} \cup Active(Tail(stack))
      BY <1>2, <2>3, <2>4, CallActive DEF StartConnect, Continue
    <2>6. "write" \notin Active(stack')
      BY <2>2, <2>5 DEF Bases
    <2>7. ~isConnected' /\ read' = "none"
      BY <1>2, <1>b, <2>1 DEF StartConnect, SocketInv
    <2>8. SocketInv'
      BY <1>2, <2>2, <2>5, <2>7 DEF StartConnect, SocketInv, Bases
    <2>9. AtMostOne({"write"}, stack')
      BY <2>6, FewFrames
    <2>10. QED
      BY <2>2, <2>5, <2>7, <2>8, <2>9 DEF SendInv, ReadInv
  <1>3. CASE ResolveFailed \/ ConnectFailed
    <2>1. Running \in Connecting /\ Running \notin Bases /\ close(Return)
      BY <1>3 DEF ResolveFailed, ConnectFailed, Connecting, Bases
    <2>2. /\ Active(Return) \subseteq Bases
          /\ Shape(Return)
      BY <1>b, <2>1, ConnectingOnBase, ReturnShape DEF Running, Return
    <2>3. AtMostOne({"write"}, Return)
      BY <2>2, FewFrames DEF Bases
    <2>4. /\ Shape(stack') /\ AtMostOne({"write"}, stack') /\ ~isConnected'
          /\ sock' = "null" <=> sock = "null"
          /\ sock = "null" => Active(stack') = Active(Return)
          /\ sock # "null" => Active(stack') = {"drain"} \cup Active(Return)
      BY <2>1, <2>2, <2>3, CloseEffect
    <2>5. ec' = "none" /\ read' = read
      BY <1>3 DEF ResolveFailed, ConnectFailed
    <2>6. SocketInv'
      BY <2>2, <2>4, <2>5 DEF SocketInv, Bases
    <2>7. QED
      BY <2>4, <2>6 DEF SendInv, ReadInv
  <1>4. CASE HandshakeOk
    <2>1. Running = "connect" /\ Running \in Connecting
      BY <1>4 DEF HandshakeOk, Connecting
    <2>2. Active(Tail(stack)) \subseteq Bases
      BY <1>b, <2>1, ConnectingOnBase DEF Running
    <2>3. /\ <<"onSocketConnect">> \in Seq(Frames)
          /\ Active(<<"onSocketConnect">>) = {"onSocketConnect"}
      BY PushedFrames DEF Frames
    <2>4. /\ Shape(stack')
          /\ Active(stack') = {"onSocketConnect"} \cup Active(Tail(stack))
      BY <1>4, <2>1, <2>3, ContinueEffect DEF HandshakeOk, Bases, Connecting
    <2>5. AtMostOne(ReadStarters, stack')
      <3>1. Tail(stack) \in Seq(Frames) /\ Active(Tail(stack)) \cap ReadStarters = {}
        BY <1>b, <2>2 DEF Shape, WellFormed, Bases, ReadStarters
      <3>2. AtMostOne(ReadStarters, Tail(stack))
        BY <3>1, FewFrames
      <3>3. AtMostOne(ReadStarters, <<"onSocketConnect">>)
        BY FewFrames
      <3>4. AtMostOne(ReadStarters, <<"onSocketConnect">> \o Tail(stack))
        BY <2>3, <3>1, <3>2, <3>3, CallAtMostOne
      <3>5. QED
        BY <1>4, <3>4 DEF HandshakeOk, Continue
    <2>6. "write" \notin Active(stack') /\ AtMostOne({"write"}, stack')
      BY <2>2, <2>4, FewFrames DEF Bases
    <2>7. read' = "none"
      BY <1>4, <1>b, <2>1 DEF HandshakeOk, SocketInv
    <2>8. SocketInv'
      BY <1>4, <2>2, <2>4, <2>7 DEF HandshakeOk, SocketInv, Bases
    <2>9. QED
      BY <2>4, <2>5, <2>6, <2>7, <2>8 DEF SendInv, ReadInv
  <1>5. CASE DanglingConnect
    <2>1. /\ Shape(stack') /\ Active(stack') = {"crashed"}
      BY <1>5, BaseShape DEF DanglingConnect, Bases
    <2>2. AtMostOne({"write"}, stack')
      BY <2>1, FewFrames
    <2>3. ~isConnected'
      BY <1>5 DEF DanglingConnect, SocketInv
    <2>4. SocketInv'
      BY <1>5, <2>1, <2>3 DEF DanglingConnect, SocketInv
    <2>5. QED
      BY <2>1, <2>2, <2>3, <2>4 DEF SendInv, ReadInv
  <1>6. CASE SendNotConnected
    <2>1. Running \notin Marked \cup Bases /\ Running \notin Bases /\ stack' = Return
      BY <1>6 DEF SendNotConnected, Messages, Marked, Bases, Connecting, ReadStarters
    <2>2. /\ Shape(stack') /\ AtMostOne({"write"}, stack')
          /\ Active(stack) = {Running} \cup Active(stack')
      BY <2>1, ReturnEffect
    <2>3. SocketInv'
      BY <1>6, <1>a, <2>1, <2>2 DEF SendNotConnected, SocketInv, Marked, Connecting, ReadStarters
    <2>4. QED
      BY <1>6, <2>2, <2>3 DEF SendNotConnected, SendInv, ReadInv
  <1>7. CASE SendBlocked
    BY <1>7, <1>a, QuietReturn DEF SendBlocked, Messages, Marked, Bases, Connecting, ReadStarters
  <1>8. CASE SendStart
    <2>1. Running \notin Marked \cup Bases /\ Running \notin Bases
      BY <1>8 DEF SendStart, Messages, Marked, Bases, Connecting, ReadStarters
    <2>2. <<"write">> \in Seq(Frames) /\ Active(<<"write">>) = {"write"}
      BY PushedFrames DEF Frames, Waits
    <2>3. AtMostOne({"write"}, <<"write">>)
      BY FewFrames
    <2>4. /\ Active(stack') = {"write"} \cup Active(Tail(stack))
          /\ Active(stack) = {Running} \cup Active(Tail(stack))
          /\ Shape(stack')
          /\ "write" \notin Active(Tail(stack)) => AtMostOne({"write"}, stack')
          /\ isConnected => AtMostOne(ReadStarters, stack')
      BY <1>8, <2>1, <2>2, <2>3, ContinueEffect DEF SendStart, Bases, Connecting, ReadStarters
    <2>5. "write" \notin Active(Tail(stack))
      BY <1>8, <2>4 DEF SendStart, SendInv
    <2>6. SocketInv'
      BY <1>8, <1>a, <2>1, <2>4 DEF SendStart, SocketInv, Marked, Connecting, ReadStarters
    <2>7. ReadInv'
      BY <1>8, <2>4 DEF SendStart, ReadInv, ReadStarters
    <2>8. QED
      BY <1>8, <2>4, <2>5, <2>6, <2>7 DEF SendStart, SendInv
  <1>9. CASE SendDone
    <2>1. Running = "write" /\ Running \notin Bases /\ stack' = Return
      BY <1>9 DEF SendDone, Bases
    <2>2. /\ Shape(stack') /\ AtMostOne({"write"}, stack')
          /\ Active(stack) = {Running} \cup Active(stack')
          /\ "write" \notin Active(stack')
          /\ isConnected => AtMostOne(ReadStarters, stack')
      BY <2>1, ReturnEffect
    <2>3. SocketInv'
      BY <1>9, <1>a, <2>1, <2>2 DEF SendDone, SocketInv
    <2>4. ReadInv'
      BY <1>9, <2>1, <2>2 DEF SendDone, ReadInv
    <2>5. QED
      BY <2>2, <2>3, <2>4 DEF SendInv
  <1>10. CASE SendReset
    <2> DEFINE then == Continue(<<"onDisconnect", "sendEnd">>)
    <2>1. Running = "write" /\ Running \notin Bases /\ close(then)
      BY <1>10 DEF SendReset, Bases
    <2>2. /\ Shape(Tail(stack)) /\ Tail(stack) \in Seq(Frames)
          /\ Active(stack) = {Running} \cup Active(Tail(stack))
          /\ AtMostOne({"write"}, Tail(stack))
      BY <1>b, <2>1, ReturnShape DEF Running, SendInv
    <2>3. /\ <<"onDisconnect", "sendEnd">> \in Seq(Frames)
          /\ Active(<<"onDisconnect", "sendEnd">>) = {"onDisconnect", "sendEnd"}
      BY PushedFrames DEF Frames
    <2>4. Active(then) = {"onDisconnect", "sendEnd"} \cup Active(Tail(stack))
      BY <2>2, <2>3, CallActive DEF Continue
    <2>5. Shape(then)
      BY <2>2, <2>3, CallShape DEF Continue, Bases, Connecting
    <2>6. AtMostOne({"write"}, then)
      <3>1. Active(<<"onDisconnect", "sendEnd">>) \cap {"write"} = {}
        BY <2>3
      <3>2. AtMostOne({"write"}, <<"onDisconnect", "sendEnd">>)
        BY <3>1, FewFrames
      <3>3. QED
        BY <2>2, <2>3, <3>1, <3>2, CallAtMostOne DEF Continue
    <2>7. /\ Shape(stack') /\ AtMostOne({"write"}, stack') /\ ~isConnected'
          /\ sock' = "null" <=> sock = "null"
          /\ sock = "null" => Active(stack') = Active(then)
          /\ sock # "null" => Active(stack') = {"drain"} \cup Active(then)
      BY <2>1, <2>5, <2>6, CloseEffect
    <2> HIDE DEF then
    <2>8. ec' = "none" /\ read' = read
      BY <1>10 DEF SendReset
    <2>9. SocketInv'
      BY <1>a, <2>1, <2>2, <2>4, <2>7, <2>8 DEF SocketInv
    <2>10. QED
      BY <2>7, <2>9 DEF SendInv, ReadInv
  <1>11. CASE SendEnd
    <2>1. Running = "sendEnd" /\ Running \notin Bases /\ stack' = Return
      BY <1>11 DEF SendEnd, Bases
    <2>2. /\ Shape(stack') /\ AtMostOne({"write"}, stack')
          /\ Active(stack) = {Running} \cup Active(stack')
      BY <2>1, ReturnEffect
    <2>3. ~isConnected'
      BY <1>11, <1>b, <2>1 DEF SendEnd, SocketInv
    <2>4. SocketInv'
      BY <1>11, <1>a, <2>1, <2>2, <2>3 DEF SendEnd, SocketInv
    <2>5. QED
      BY <2>2, <2>3, <2>4 DEF SendInv, ReadInv
  <1>12. QED
    BY <1>1, <1>2, <1>3, <1>4, <1>5, <1>6, <1>7, <1>8, <1>9, <1>10, <1>11
       DEF NetworkStep

\* The steps of the controller.
LEMMA ControllerKeeps ==
    ASSUME IInv, TypeOK', ControllerStep \/ onReceiveTimer \/ poll
    PROVE  IInv'
  <1>b. Running \in Active(stack) /\ Shape(stack)
    BY ReturnShape, BaseAlone DEF IInv, Running
  <1> USE DEF IInv
  <1>1. CASE onSocketConnect
    <2>1. Running = "onSocketConnect" /\ Running \notin Bases
      BY <1>1 DEF onSocketConnect, Bases
    <2>2. /\ <<"hello", "onSentHello">> \in Seq(Frames)
          /\ Active(<<"hello", "onSentHello">>) = {"hello", "onSentHello"}
      BY PushedFrames DEF Frames, Messages
    <2>3. /\ Shape(stack')
          /\ Active(stack') = {"hello", "onSentHello"} \cup Active(Tail(stack))
          /\ Active(stack) = {Running} \cup Active(Tail(stack))
          /\ AtMostOne({"write"}, stack')
          /\ isConnected => AtMostOne(ReadStarters, stack')
          /\ isConnected => Active(Tail(stack)) \cap ReadStarters = {}
      BY <1>1, <2>1, <2>2, ContinueEffect DEF onSocketConnect, Bases, Connecting, ReadStarters
    <2>4. SocketInv'
      BY <1>1, <2>1, <2>3 DEF onSocketConnect, SocketInv
    <2>5. SendInv'
      BY <1>1, <2>3 DEF onSocketConnect, SendInv
    <2>6. ReadInv'
      BY <1>1, <2>3 DEF onSocketConnect, ReadInv, ReadStarters
    <2>7. QED
      BY <2>3, <2>4, <2>5, <2>6
  <1>2. CASE (onDisconnect \/ disable) /\ close(Return)
    <2>1. /\ Running \in {"onDisconnect", "disable"} /\ Running \notin Bases
          /\ close(Return)
      BY <1>2 DEF onDisconnect, disable, Bases
    <2>2. /\ Shape(Return) /\ AtMostOne({"write"}, Return)
          /\ Active(stack) = {Running} \cup Active(Return)
      BY <1>b, <2>1, ReturnShape DEF Running, Return, SendInv
    <2>3. /\ Shape(stack') /\ AtMostOne({"write"}, stack') /\ ~isConnected'
          /\ sock' = "null" <=> sock = "null"
          /\ sock = "null" => Active(stack') = Active(Return)
          /\ sock # "null" => Active(stack') = {"drain"} \cup Active(Return)
      BY <2>1, <2>2, CloseEffect
    <2>4. ec' = ec /\ read' = read
      BY <1>2 DEF onDisconnect, disable
    <2>5. SocketInv'
      BY <2>1, <2>2, <2>3, <2>4 DEF SocketInv
    <2>6. QED
      BY <2>3, <2>5 DEF SendInv, ReadInv
  <1>2a. CASE (onDisconnect \/ disable) /\ ~close(Return)
    <2>1. PICK a \in {"disable", "blocked"} : stack' = Continue(<<a>>)
      BY <1>2a DEF onDisconnect, disable
    <2>2. /\ Running \in {"onDisconnect", "disable"} /\ Running \notin Bases
          /\ UNCHANGED <<sock, isConnected, isSending, read, ec>>
      BY <1>2a DEF onDisconnect, disable, Bases
    <2>3. /\ <<a>> \in Seq(Frames) /\ Active(<<a>>) = {a}
      BY PushedFrames DEF Frames
    <2>4. /\ Shape(stack')
          /\ Active(stack') = {a} \cup Active(Tail(stack))
          /\ Active(stack) = {Running} \cup Active(Tail(stack))
          /\ AtMostOne({"write"}, stack')
          /\ isConnected => AtMostOne(ReadStarters, stack')
      BY <2>1, <2>2, <2>3, ContinueEffect DEF Bases, Connecting, ReadStarters
    <2>5. SocketInv'
      BY <2>2, <2>4 DEF SocketInv
    <2>6. SendInv'
      BY <2>2, <2>4 DEF SendInv
    <2>7. ReadInv'
      BY <2>2, <2>4 DEF ReadInv, ReadStarters
    <2>8. QED
      BY <2>4, <2>5, <2>6, <2>7
  <1>3. CASE poll
    <2>1. Running = "loop" /\ Running \in Bases
      BY <1>3 DEF poll, Bases
    <2>2. Active(stack) = {"loop"}
      BY <1>b, <2>1, BaseAlone DEF Running
    <2>3. sock = "null" /\ ~isConnected /\ read = "none"
      BY <1>3, <2>2 DEF poll, SocketInv
    <2>4. ASSUME NEW a \in {"resolve", "onSocketConnect"}, stack' = Call(<<a>>)
          PROVE  /\ Shape(stack') /\ Active(stack') = {a, "loop"}
                 /\ AtMostOne({"write"}, stack')
      <3>1. <<a>> \in Seq(Frames) /\ Active(<<a>>) = {a}
        BY PushedFrames DEF Frames, Waits
      <3>2. stack \in Seq(Frames)
        BY <1>b DEF Shape, WellFormed
      <3>3. Active(stack') = {a, "loop"}
        BY <2>2, <2>4, <3>1, <3>2, CallActive DEF Call
      <3>4. Shape(stack')
        <4>1. CASE a = "resolve"
          BY <1>b, <2>1, <2>4, <4>1, ConnectShape DEF Call, Connecting, Running
        <4>2. CASE a = "onSocketConnect"
          BY <1>b, <2>4, <3>1, <4>2, CallShape DEF Call, Connecting, Bases
        <4>3. QED
          BY <4>1, <4>2
      <3>5. AtMostOne({"write"}, stack')
        BY <3>3, FewFrames
      <3>6. QED
        BY <3>3, <3>4, <3>5
    <2>5. CASE prometheusEnabled
      <3>1. /\ Shape(stack') /\ Active(stack') = {"onSocketConnect", "loop"}
            /\ AtMostOne({"write"}, stack')
        BY <1>3, <2>4, <2>5 DEF poll
      <3>2. SocketInv'
        BY <1>3, <2>2, <2>3, <2>5, <3>1 DEF poll, SocketInv
      <3>3. QED
        BY <1>3, <2>3, <2>5, <3>1, <3>2 DEF poll, SendInv, ReadInv
    <2>6. CASE ~prometheusEnabled
      <3>1. /\ Shape(stack') /\ Active(stack') = {"resolve", "loop"}
            /\ AtMostOne({"write"}, stack')
        BY <1>3, <2>4, <2>6 DEF poll, StartResolve
      <3>2. SocketInv'
        BY <1>3, <2>3, <2>6, <3>1 DEF poll, StartResolve, SocketInv
      <3>3. QED
        BY <1>3, <2>3, <2>6, <3>1, <3>2 DEF poll, StartResolve, SendInv, ReadInv
    <2>7. QED
      BY <2>5, <2>6
  <1>4. CASE onSentHello \/ schedule \/ StashSent
    BY <1>4, QuietReturn DEF onSentHello, schedule, Schedule, StashSent,
       controllerVars, Marked, Bases, Connecting, ReadStarters
  <1>5. CASE onReceiveTimer \/ onSendTimer \/ onAgentStatisticsTimer
    <2>1. /\ <<"onDisconnect", "scheduleReceive">> \in Seq(Frames)
          /\ Active(<<"onDisconnect", "scheduleReceive">>) = {"onDisconnect", "scheduleReceive"}
          /\ <<"heartbeat", "scheduleSend">> \in Seq(Frames)
          /\ Active(<<"heartbeat", "scheduleSend">>) = {"heartbeat", "scheduleSend"}
          /\ <<"statistics", "scheduleStatistics">> \in Seq(Frames)
          /\ Active(<<"statistics", "scheduleStatistics">>) = {"statistics", "scheduleStatistics"}
      BY PushedFrames DEF Frames, Messages
    <2>2. CASE onReceiveTimer
      BY <2>1, <2>2, QuietCall DEF onReceiveTimer, Call, controllerVars,
         Marked, Bases, Connecting, ReadStarters
    <2>3. CASE onSendTimer
      BY <2>1, <2>3, QuietCall DEF onSendTimer, Call, controllerVars,
         Marked, Bases, Connecting, ReadStarters
    <2>4. CASE onAgentStatisticsTimer
      BY <2>1, <2>4, QuietCall DEF onAgentStatisticsTimer, Call, controllerVars,
         Marked, Bases, Connecting, ReadStarters
    <2>5. QED
      BY <1>5, <2>2, <2>3, <2>4
  <1>6. CASE SendNextStashed
    <2>1. <<"stashed">> \in Seq(Frames) /\ Active(<<"stashed">>) = {"stashed"}
      BY PushedFrames DEF Frames, Messages
    <2>2. QED
      BY <1>6, <2>1, QuietCall DEF SendNextStashed, Call, Marked, Bases,
         Connecting, ReadStarters
  <1>7. QED
    BY <1>1, <1>2, <1>2a, <1>3, <1>4, <1>5, <1>6 DEF ControllerStep

\* The steps of the protocol handler.
LEMMA ReadKeeps ==
    ASSUME IInv, TypeOK', attemptRead \/ ReadStep
    PROVE  IInv'
  <1>b. Running \in Active(stack) /\ Shape(stack)
    BY ReturnShape, BaseAlone DEF IInv, Running
  <1> USE DEF IInv
  <1>1. CASE attemptRead
    <2>1. Running = "attemptRead" /\ Running \notin Bases /\ stack' = Return
      BY <1>1 DEF attemptRead, Bases
    <2>2. /\ Shape(stack') /\ AtMostOne({"write"}, stack')
          /\ Active(stack) = {Running} \cup Active(stack')
          /\ isConnected => AtMostOne(ReadStarters, stack')
          /\ isConnected => Active(stack') \cap ReadStarters = {}
      BY <2>1, ReturnEffect DEF ReadStarters
    <2>3. SocketInv'
      BY <1>1, <2>1, <2>2 DEF attemptRead, controllerVars, SocketInv
    <2>4. SendInv'
      BY <1>1, <2>1, <2>2 DEF attemptRead, SendInv
    <2>5. ReadInv'
      BY <1>1, <2>2 DEF attemptRead, ReadInv
    <2>6. QED
      BY <2>2, <2>3, <2>4, <2>5
  <1>2. CASE onReadHeader \/ SkipBody
    <2>1. /\ read # "none" /\ stack' = stack
          /\ UNCHANGED <<ec, sock, isConnected, isSending, state>>
          /\ read' # "none" => isConnected
      BY <1>2 DEF onReadHeader, SkipBody, ReadReady, NextHeader, controllerVars
    <2>2. SocketInv'
      BY <2>1 DEF SocketInv
    <2>3. QED
      BY <2>1, <2>2 DEF SendInv, ReadInv
  <1>3. CASE onReadBody
    <2>1. /\ read # "none" /\ read' = "none"
          /\ UNCHANGED <<ec, sock, isConnected, isSending>>
          /\ state' = state \/ state' # "DISCONNECTED"
      BY <1>3 DEF onReadBody, ReadReady, onTerminate, onHeartbeat, onSampleRate,
         SampleRateWaits, controllerVars
    <2>2. /\ <<"attemptRead">> \in Seq(Frames)
          /\ Active(<<"attemptRead">>) = {"attemptRead"}
          /\ <<"sendStashed", "scheduleAll">> \in Seq(Frames)
          /\ Active(<<"sendStashed", "scheduleAll">>) = {"sendStashed", "scheduleAll"}
          /\ <<"blocked">> \in Seq(Frames)
          /\ Active(<<"blocked">>) = {"blocked"}
      BY PushedFrames DEF Frames
    <2>3. PICK f \in {<<"attemptRead">>,
                     <<"sendStashed", "scheduleAll">> \o <<"attemptRead">>,
                     <<"blocked">> \o <<"attemptRead">>} :
              stack' = Call(f)
      BY <1>3 DEF onReadBody, onTerminate, onHeartbeat, onSampleRate, SampleRateWaits
    <2>4. /\ f \in Seq(Frames)
          /\ Active(f) \subseteq {"attemptRead", "sendStashed", "scheduleAll", "blocked"}
          /\ AtMostOne(ReadStarters, f)
      <3>1. AtMostOne(ReadStarters, <<"attemptRead">>)
        BY FewFrames
      <3>2. /\ Active(<<"sendStashed", "scheduleAll">>) \cap ReadStarters = {}
            /\ AtMostOne(ReadStarters, <<"sendStashed", "scheduleAll">>)
            /\ Active(<<"blocked">>) \cap ReadStarters = {}
            /\ AtMostOne(ReadStarters, <<"blocked">>)
        BY <2>2, FewFrames DEF ReadStarters
      <3>3. /\ AtMostOne(ReadStarters, <<"sendStashed", "scheduleAll">> \o <<"attemptRead">>)
            /\ AtMostOne(ReadStarters, <<"blocked">> \o <<"attemptRead">>)
        BY <2>2, <3>1, <3>2, CallAtMostOne
      <3>4. /\ <<"sendStashed", "scheduleAll">> \o <<"attemptRead">> \in Seq(Frames)
            /\ Active(<<"sendStashed", "scheduleAll">> \o <<"attemptRead">>) =
                   {"sendStashed", "scheduleAll"} \cup {"attemptRead"}
            /\ <<"blocked">> \o <<"attemptRead">> \in Seq(Frames)
            /\ Active(<<"blocked">> \o <<"attemptRead">>) = {"blocked"} \cup {"attemptRead"}
        <4>1. \A g, h \in Seq(Frames) : g \o h \in Seq(Frames)
          OBVIOUS
        <4>2. \A g, h \in Seq(Frames) : Active(g \o h) = Active(g) \cup Active(h)
          BY CallActive
        <4>3. QED
          BY <2>2, <4>1, <4>2, Zenon
      <3>5. CASE f = <<"attemptRead">>
        BY <2>2, <3>1, <3>5
      <3>6. CASE f = <<"sendStashed", "scheduleAll">> \o <<"attemptRead">>
        BY <3>3, <3>4, <3>6
      <3>7. CASE f = <<"blocked">> \o <<"attemptRead">>
        BY <3>3, <3>4, <3>7
      <3>8. QED
        BY <3>5, <3>6, <3>7
    <2>5. Active(f) \cap (Bases \cup Connecting) = {} /\ "write" \notin Active(f)
      BY <2>4 DEF Bases, Connecting
    <2>6. /\ Shape(stack')
          /\ Active(stack') = Active(f) \cup Active(stack)
          /\ AtMostOne({"write"}, stack')
          /\ isConnected /\ Active(stack) \cap ReadStarters = {} =>
                 AtMostOne(ReadStarters, stack')
      BY <2>3, <2>4, <2>5, CallEffect
    <2>7. SocketInv'
      BY <2>1, <2>4, <2>6 DEF SocketInv
    <2>8. SendInv'
      BY <2>1, <2>5, <2>6 DEF SendInv
    <2>9. ReadInv'
      BY <2>1, <2>6 DEF ReadInv
    <2>10. QED
      BY <2>6, <2>7, <2>8, <2>9
  <1>4. QED
    BY <1>1, <1>2, <1>3 DEF ReadStep

\* The steps of the loop.
LEMMA LoopKeeps ==
    ASSUME IInv, TypeOK', LoopStep
    PROVE  IInv'
  <1>b. Running \in Active(stack) /\ Shape(stack)
    BY ReturnShape, BaseAlone DEF IInv, Running
  <1> USE DEF IInv
  <1>1. CASE StartPops
    <2> DEFINE f == [k \in 1 .. MaxPops |-> "pop"]
    <2>1. f \in Seq(Frames)
      BY LoopAssumption DEF Frames
    <2>2. Active(f) \subseteq {"pop"}
      BY DEF Active
    <2>3. stack' = f \o stack
      BY <1>1 DEF StartPops, Call
    <2> HIDE DEF f
    <2>4. QED
      BY <1>1, <2>1, <2>2, <2>3, QuietCall DEF StartPops, controllerVars, Marked,
         Bases, Connecting, ReadStarters
  <1>2. CASE PopItem
    <2>1. <<"item">> \in Seq(Frames) /\ Active(<<"item">>) = {"item"}
      BY PushedFrames DEF Frames, Messages
    <2>2. QED
      BY <1>2, <2>1, QuietContinue DEF PopItem, controllerVars, Marked, Bases,
         Connecting, ReadStarters
  <1>3. CASE PopNotification \/ PopNothing
    BY <1>3, QuietReturn DEF PopNotification, PopNothing, stashNotification,
       controllerVars, Marked, Bases, Connecting, ReadStarters
  <1>4. CASE LeaveLoop \/ Exit
    <2>1. Running \in {"loop", "exit"} /\ Running \in Bases
      BY <1>4 DEF LeaveLoop, Exit, Bases
    <2>2. Active(stack) = {Running}
      BY <1>b, <2>1, BaseAlone DEF Running
    <2>3. /\ Shape(stack')
          /\ Active(stack') \subseteq {"onDisconnect", "exit", "ended"}
      BY <1>4, BaseShape DEF LeaveLoop, Exit, Bases
    <2>4. /\ AtMostOne({"write"}, stack') /\ AtMostOne(ReadStarters, stack')
          /\ Active(stack') \cap ReadStarters = {}
      BY <2>3, FewFrames DEF ReadStarters
    <2>5. UNCHANGED <<sock, isConnected, isSending, read, ec, state>>
      BY <1>4 DEF LeaveLoop, Exit, controllerVars
    <2>6. SocketInv'
      BY <2>1, <2>2, <2>3, <2>5 DEF SocketInv
    <2>7. QED
      BY <2>3, <2>4, <2>5, <2>6 DEF SendInv, ReadInv
  <1>5. QED
    BY <1>1, <1>2, <1>3, <1>4 DEF LoopStep

\* The completions that leave the stack alone, and the fork.
LEMMA NextKeeps == IInv /\ [Next]_vars => IInv'
  <1> SUFFICES ASSUME IInv, [Next]_vars PROVE IInv'
    OBVIOUS
  <1>a. TypeOK'
    BY NextType DEF IInv
  <1>1. CASE NetworkStep /\ NetworkOnly
    BY <1>1, <1>a, NetworkKeeps
  <1>2. CASE (Completion \/ ResolveHandler) /\ NetworkOnly
    <2>1. stack' = stack /\ state' = state
      BY <1>2 DEF Completion, NetworkOnly, controllerVars, onTimerRun,
         ConnectHandler, WriteHandler, ResolveHandler
    <2>2. /\ read' = read /\ isSending' = isSending
          /\ ec' = "would_block" => ec = "would_block"
          /\ sock' = "null" <=> sock = "null"
          /\ isConnected' => isConnected /\ sock' = sock
      <3>1. CASE \E t \in Timers : onTimerRun(t)
        <4>1. UNCHANGED <<read, isSending, ec>> /\ (closeSocket \/ UNCHANGED <<sock, isConnected>>)
          BY <3>1 DEF onTimerRun
        <4>2. CASE closeSocket
          BY <4>1, <4>2 DEF closeSocket, IInv, SocketInv
        <4>3. QED
          BY <4>1, <4>2
      <3>2. CASE ConnectHandler
        BY <3>2 DEF ConnectHandler
      <3>3. CASE WriteHandler
        BY <3>3 DEF WriteHandler
      <3>4. CASE ResolveHandler
        BY <3>4 DEF ResolveHandler
      <3>5. QED
        BY <1>2, <3>1, <3>2, <3>3, <3>4 DEF Completion
    <2>3. SocketInv'
      BY <2>1, <2>2 DEF IInv, SocketInv
    <2>4. QED
      BY <1>a, <2>1, <2>2, <2>3 DEF IInv, SendInv, ReadInv
  <1>3. CASE \E t \in Timers : Expire(t) /\ NetworkOnly
    <2>1. UNCHANGED <<stack, ec, sock, isConnected, isSending, read, state>>
      BY <1>3 DEF Expire, NetworkOnly, controllerVars
    <2>2. QED
      BY <1>a, <2>1 DEF IInv, SocketInv, SendInv, ReadInv
  <1>4. CASE ControllerStep \/ onReceiveTimer \/ poll
    BY <1>4, <1>a, ControllerKeeps
  <1>5. CASE attemptRead \/ ReadStep
    BY <1>5, <1>a, ReadKeeps
  <1>6. CASE LoopStep
    BY <1>6, <1>a, LoopKeeps
  <1>7. CASE onMetricsExit \/ onProcessorExit \/ UNCHANGED vars
    <2>1. UNCHANGED <<stack, ec, sock, isConnected, isSending, read, state>>
      BY <1>7 DEF onMetricsExit, onProcessorExit, vars, networkVars, controllerVars
    <2>2. QED
      BY <1>a, <2>1 DEF IInv, SocketInv, SendInv, ReadInv
  <1>8. CASE on_fork
    <2>1. close(<<"loop">>) /\ ec' = "none" /\ read' = read
      BY <1>8 DEF on_fork
    <2>2. /\ Shape(<<"loop">>) /\ Active(<<"loop">>) = {"loop"}
          /\ AtMostOne({"write"}, <<"loop">>)
      BY BaseShape, FewFrames DEF Bases
    <2>3. /\ Shape(stack') /\ AtMostOne({"write"}, stack') /\ ~isConnected'
          /\ sock' = "null" <=> sock = "null"
          /\ sock = "null" => Active(stack') = {"loop"}
          /\ sock # "null" => Active(stack') = {"drain"} \cup {"loop"}
      BY <2>1, <2>2, CloseEffect
    <2>4. SocketInv'
      BY <2>1, <2>3 DEF IInv, SocketInv
    <2>5. QED
      BY <1>a, <2>3, <2>4 DEF IInv, SendInv, ReadInv
  <1>9. QED
    BY <1>1, <1>2, <1>3, <1>4, <1>5, <1>6, <1>7, <1>8 DEF Next

LEMMA InitKeeps == Init => IInv
  <1> SUFFICES ASSUME Init PROVE IInv
    OBVIOUS
  <1>1. Shape(stack) /\ Active(stack) = {"loop"} /\ AtMostOne({"write"}, stack)
    BY BaseShape, FewFrames DEF Init, NetworkInit, Bases
  <1>2. SocketInv /\ SendInv /\ ReadInv
    BY <1>1 DEF Init, NetworkInit, SocketInv, SendInv, ReadInv
  <1>3. QED
    BY <1>1, <1>2, InitType DEF IInv

LEMMA Inductive == Spec => []IInv
  BY InitKeeps, NextKeeps, PTL DEF Spec

-----------------------------------------------------------------------------
(* The theorems *)

\* The processor thread never writes two messages at the same time, however
\* deep its sends nest (sendWithSize's isSending_).
THEOREM WriteSafe == Spec => []SingleWrite
  <1>1. IInv => SingleWrite
    BY DEF IInv, SendInv, AtMostOne, SingleWrite
  <1>2. QED
    BY <1>1, Inductive, PTL

\* It never asks for a header while a read is outstanding: the handlers of
\* the protocol share one buffer.
THEOREM ReadSafe == Spec => []SingleRead
  <1>1. IInv => SingleRead
    <2> SUFFICES ASSUME IInv, Running \in ReadStarters, isConnected
                 PROVE  read = "none"
      BY DEF SingleRead, ReadStarters
    <2>1. Running \in Active(stack)
      BY ReturnShape, BaseAlone DEF IInv, Running
    <2>2. QED
      BY <2>1 DEF IInv, ReadInv
  <1>2. QED
    BY <1>1, Inductive, PTL

\* The socket is deleted only when none of its operations is outstanding.
THEOREM DeleteSafe == Spec => []NothingOutstanding
  <1>1. IInv => NothingOutstanding
    BY DEF IInv, SocketInv, NothingOutstanding, InProgress, Active
  <1>2. QED
    BY <1>1, Inductive, PTL

\* A connection attempt starts without a socket: the one of the last session
\* has been deleted.
THEOREM SocketSafe == Spec => []NoSocketLeak
  <1>1. IInv => NoSocketLeak
    <2> SUFFICES ASSUME IInv PROVE NoSocketLeak
      OBVIOUS
    <2>1. Running \in Active(stack)
      BY ReturnShape, BaseAlone DEF IInv, Running
    <2>2. CASE Running = "loop" /\ state = "DISCONNECTED"
      <3>1. Active(stack) = {"loop"}
        BY <2>2, BaseAlone DEF IInv, Running, Bases
      <3>2. QED
        BY <2>2, <3>1 DEF IInv, SocketInv, NoSocketLeak
    <2>3. CASE Running = "resolve"
      BY <2>1, <2>3 DEF IInv, SocketInv, NoSocketLeak
    <2>4. QED
      BY <2>2, <2>3 DEF NoSocketLeak
  <1>2. QED
    BY <1>1, Inductive, PTL

-----------------------------------------------------------------------------
\* While no fork takes the thread away, a send marked as in progress has a
\* frame on the stack that will take the mark back.
FlagInv == isSending => Active(stack) \cap {"write", "sendEnd"} # {}

\* A step that neither marks a send nor takes one of those frames away
\* keeps this.
LEMMA KeepsFlag ==
    ASSUME FlagInv, isSending' => isSending,
           \A a \in {"write", "sendEnd"} : a \in Active(stack) => a \in Active(stack')
    PROVE  FlagInv'
  BY DEF FlagInv

\* A frame other than the running one stays on the stack.
LEMMA FramesStay ==
    ASSUME IInv
    PROVE  /\ Running \notin Bases =>
                  /\ Active(stack) = {Running} \cup Active(Return)
                  /\ Return \in Seq(Frames)
                  /\ \A f \in Seq(Frames) :
                         Active(Continue(f)) = Active(f) \cup Active(Return)
           /\ \A f \in Seq(Frames) : Active(Call(f)) = Active(f) \cup Active(stack)
           /\ Running \in Bases => Active(stack) = {Running}
  <1>1. Shape(stack) /\ stack \in Seq(Frames)
    BY DEF IInv, Shape, WellFormed
  <1>2. Running \notin Bases => /\ Active(stack) = {Running} \cup Active(Return)
                                /\ Return \in Seq(Frames)
    BY <1>1, ReturnShape DEF Running, Return
  <1>3. Return \in Seq(Frames) => \A f \in Seq(Frames) :
            Active(Continue(f)) = Active(f) \cup Active(Return)
    BY CallActive DEF Continue, Return
  <1>4. \A f \in Seq(Frames) : Active(Call(f)) = Active(f) \cup Active(stack)
    BY <1>1, CallActive DEF Call
  <1>5. Running \in Bases => Active(stack) = {Running}
    BY <1>1, BaseAlone DEF Running
  <1>6. QED
    BY <1>2, <1>3, <1>4, <1>5

\* So a step that returns from, goes on from or closes the socket in a frame
\* of another kind, or calls, keeps the frames of the sends.
LEMMA SendsStay ==
    ASSUME IInv, FlagInv, isSending' = isSending,
           \/ stack' = stack
           \/ \E f \in Seq(Frames) : stack' = Call(f)
           \/ /\ Running \notin Bases \cup {"write", "sendEnd"}
              /\ \/ stack' = Return
                 \/ \E f \in Seq(Frames) : stack' = Continue(f)
                 \/ close(Return)
    PROVE  FlagInv'
  <1>1. CASE stack' = stack
    BY <1>1, KeepsFlag
  <1>2. CASE \E f \in Seq(Frames) : stack' = Call(f)
    BY <1>2, FramesStay, KeepsFlag
  <1>3. CASE Running \notin Bases \cup {"write", "sendEnd"} /\ stack' = Return
    BY <1>3, FramesStay, KeepsFlag
  <1>4. CASE /\ Running \notin Bases \cup {"write", "sendEnd"}
             /\ \E f \in Seq(Frames) : stack' = Continue(f)
    BY <1>4, FramesStay, KeepsFlag
  <1>5. CASE Running \notin Bases \cup {"write", "sendEnd"} /\ close(Return)
    <2>1. stack' = Return \/ stack' = Continue(<<"drain">>)
      BY <1>5 DEF close, Return, Continue
    <2>2. <<"drain">> \in Seq(Frames)
      BY PushedFrames DEF Frames
    <2>3. QED
      BY <1>3, <1>4, <1>5, <2>1, <2>2
  <1>6. QED
    BY <1>1, <1>2, <1>3, <1>4, <1>5

\* Every step but a fork keeps the mark and its frame together.
LEMMA NextFlag == ~MayFork /\ IInv /\ FlagInv /\ [Next]_vars => FlagInv'
  <1> SUFFICES ASSUME ~MayFork, IInv, FlagInv, [Next]_vars PROVE FlagInv'
    OBVIOUS
  <1>p. /\ \A a \in Frames : <<a>> \in Seq(Frames)
        /\ \A a, b \in Frames : <<a, b>> \in Seq(Frames)
        /\ \A f, g \in Seq(Frames) : f \o g \in Seq(Frames)
    BY PushedFrames
  <1>1. CASE NetworkStep /\ NetworkOnly
    <2>1. CASE SendNotConnected \/ SendDone \/ SendEnd
      BY <2>1 DEF SendNotConnected, SendDone, SendEnd, FlagInv
    <2>2. CASE SendStart
      <3>1. Running \notin Bases /\ <<"write">> \in Seq(Frames)
        BY <2>2, <1>p DEF SendStart, Messages, Bases, Frames, Waits
      <3>2. Active(<<"write">>) = {"write"}
        BY PushedFrames DEF Frames, Waits
      <3>3. "write" \in Active(stack')
        BY <2>2, <3>1, <3>2, FramesStay DEF SendStart
      <3>4. QED
        BY <3>3 DEF FlagInv
    <2>3. CASE SendReset
      <3>1. Running \notin Bases
        BY <2>3 DEF SendReset, Bases
      <3>2. /\ <<"onDisconnect", "sendEnd">> \in Seq(Frames)
            /\ Active(<<"onDisconnect", "sendEnd">>) = {"onDisconnect", "sendEnd"}
            /\ <<"drain">> \in Seq(Frames)
        BY PushedFrames DEF Frames
      <3>3. PICK then : /\ then = Continue(<<"onDisconnect", "sendEnd">>)
                        /\ stack' = IF sock = "null" THEN then ELSE <<"drain">> \o then
        BY <2>3 DEF SendReset, close
      <3>4. "sendEnd" \in Active(then) /\ then \in Seq(Frames)
        BY <1>p, <3>1, <3>2, <3>3, FramesStay DEF Continue, Return
      <3>5. "sendEnd" \in Active(stack')
        <4>1. Active(<<"drain">> \o then) = Active(<<"drain">>) \cup Active(then)
          BY <3>2, <3>4, CallActive
        <4>2. QED
          BY <3>3, <3>4, <4>1
      <3>6. QED
        BY <3>5 DEF FlagInv
    <2>4. CASE DrainDone \/ SendBlocked
      BY <2>4, SendsStay DEF DrainDone, SendBlocked, Messages, Bases
    <2>5. CASE StartConnect
      BY <2>5, <1>p, SendsStay DEF StartConnect, Bases, Frames, Waits
    <2>6. CASE HandshakeOk
      BY <2>6, <1>p, SendsStay DEF HandshakeOk, Bases, Frames
    <2>7. CASE ResolveFailed \/ ConnectFailed
      BY <2>7, SendsStay DEF ResolveFailed, ConnectFailed, Bases
    <2>8. CASE DanglingConnect
      <3>1. Running \in Connecting /\ Running \notin Bases
        BY <2>8 DEF DanglingConnect, Connecting, Bases
      <3>2. Active(stack) \subseteq {Running} \cup Bases
        BY <3>1, FramesStay, ConnectingOnBase DEF IInv, Running, Return
      <3>3. ~isSending
        BY <3>1, <3>2 DEF FlagInv, Connecting, Bases
      <3>4. QED
        BY <2>8, <3>3 DEF DanglingConnect, FlagInv
    <2>9. QED
      BY <1>1, <2>1, <2>2, <2>3, <2>4, <2>5, <2>6, <2>7, <2>8 DEF NetworkStep
  <1>2. CASE (Completion \/ ResolveHandler) /\ NetworkOnly
    BY <1>2, SendsStay DEF Completion, onTimerRun, ConnectHandler, WriteHandler,
       ResolveHandler
  <1>3. CASE \E t \in Timers : Expire(t) /\ NetworkOnly
    BY <1>3, SendsStay DEF Expire
  <1>4. CASE ControllerStep \/ onReceiveTimer \/ poll
    <2>1. CASE onSocketConnect
      BY <2>1, <1>p, SendsStay DEF onSocketConnect, Bases, Frames, Messages
    <2>2. CASE onDisconnect \/ disable
      BY <2>2, <1>p, SendsStay DEF onDisconnect, disable, Bases, Frames
    <2>3. CASE poll
      BY <2>3, <1>p, SendsStay DEF poll, StartResolve, Frames, Waits
    <2>4. CASE onSentHello \/ schedule \/ StashSent
      BY <2>4, SendsStay DEF onSentHello, schedule, Schedule, StashSent, Bases
    <2>5. CASE onReceiveTimer \/ onSendTimer \/ onAgentStatisticsTimer \/ SendNextStashed
      BY <2>5, <1>p, SendsStay DEF onReceiveTimer, onSendTimer,
         onAgentStatisticsTimer, SendNextStashed, Frames, Messages
    <2>6. QED
      BY <1>4, <2>1, <2>2, <2>3, <2>4, <2>5 DEF ControllerStep
  <1>5. CASE attemptRead \/ ReadStep
    <2>1. CASE attemptRead
      BY <2>1, SendsStay DEF attemptRead, Bases
    <2>2. CASE onReadHeader \/ SkipBody
      BY <2>2, SendsStay DEF onReadHeader, SkipBody
    <2>3. CASE onReadBody
      <3>1. /\ <<"attemptRead">> \in Seq(Frames)
            /\ <<"sendStashed", "scheduleAll">> \o <<"attemptRead">> \in Seq(Frames)
            /\ <<"blocked">> \o <<"attemptRead">> \in Seq(Frames)
        BY <1>p DEF Frames
      <3>2. QED
        BY <2>3, <3>1, SendsStay DEF onReadBody, onTerminate, onHeartbeat, onSampleRate,
           SampleRateWaits
    <2>4. QED
      BY <1>5, <2>1, <2>2, <2>3 DEF ReadStep
  <1>6. CASE LoopStep
    <2>1. CASE StartPops
      <3>1. [k \in 1 .. MaxPops |-> "pop"] \in Seq(Frames)
        BY LoopAssumption DEF Frames
      <3>2. QED
        BY <2>1, <3>1, SendsStay DEF StartPops
    <2>2. CASE PopItem
      BY <2>2, <1>p, SendsStay DEF PopItem, Bases, Frames, Messages
    <2>3. CASE PopNotification \/ PopNothing
      BY <2>3, SendsStay DEF PopNotification, PopNothing, Bases
    <2>4. CASE LeaveLoop \/ Exit
      <3>1. Running \in {"loop", "exit"} /\ Active(stack) = {Running}
        BY <2>4, FramesStay DEF LeaveLoop, Exit, Bases
      <3>2. QED
        BY <2>4, <3>1 DEF LeaveLoop, Exit, FlagInv
    <2>5. QED
      BY <1>6, <2>1, <2>2, <2>3, <2>4 DEF LoopStep
  <1>7. CASE onMetricsExit \/ onProcessorExit \/ UNCHANGED vars
    BY <1>7, SendsStay DEF onMetricsExit, onProcessorExit, vars, networkVars
  <1>8. CASE on_fork
    BY <1>8 DEF on_fork
  <1>9. QED
    BY <1>1, <1>2, <1>3, <1>4, <1>5, <1>6, <1>7, <1>8 DEF Next

\* Where the program does not fork, a thread that is back in its loop has
\* no send marked as in progress: no later message is dropped for one.
THEOREM FlagSafe == ~MayFork => (Spec => []FlagReleased)
  <1> SUFFICES ASSUME ~MayFork PROVE Spec => []FlagReleased
    OBVIOUS
  <1>1. Init => FlagInv
    BY DEF Init, NetworkInit, FlagInv
  <1>2. IInv /\ FlagInv /\ [Next]_vars => FlagInv'
    BY NextFlag
  <1>3. IInv /\ FlagInv => FlagReleased
    <2> SUFFICES ASSUME IInv, FlagInv, Running = "loop" PROVE ~isSending
      BY DEF FlagReleased
    <2>1. Active(stack) = {"loop"}
      BY FramesStay DEF Bases
    <2>2. QED
      BY <2>1 DEF FlagInv
  <1>4. QED
    BY <1>1, <1>2, <1>3, Inductive, PTL DEF Spec

=============================================================================
