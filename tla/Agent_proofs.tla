---------------------------- MODULE Agent_proofs ----------------------------
(***************************************************************************)
(* Proofs about the processor thread, for every bound: the stack of nested *)
(* calls is well formed, and a session always has a deadline.              *)
(***************************************************************************)
EXTENDS Agent, TLAPS

\* A call keeps the stack well formed.
LEMMA CallWellFormed ==
    ASSUME NEW s, WellFormed(s), NEW f \in Seq(Frames)
    PROVE  WellFormed(f \o s)
  <1>1. s \in Seq(Frames) /\ Len(s) \in Nat /\ Len(s) > 0 /\ Len(f) \in Nat
    BY DEF WellFormed
  <1>2. f \o s \in Seq(Frames) /\ Len(f \o s) = Len(f) + Len(s)
    BY <1>1
  <1>3. (f \o s)[Len(f) + Len(s)] = s[Len(s)]
    BY <1>1, <1>2
  <1>4. QED
    BY <1>1, <1>2, <1>3 DEF WellFormed

\* A frame that is not at the bottom can return.
LEMMA ReturnWellFormed ==
    ASSUME NEW s, WellFormed(s), Head(s) \notin Bases
    PROVE  WellFormed(Tail(s))
  <1>1. s \in Seq(Frames) /\ Len(s) \in Nat /\ Len(s) > 0
    BY DEF WellFormed
  <1>2. Head(s) = s[1]
    BY <1>1
  <1>3. Len(s) # 1
    BY <1>2 DEF WellFormed
  <1>4. /\ Tail(s) \in Seq(Frames)
        /\ Len(Tail(s)) = Len(s) - 1
    BY <1>1
  <1>5. \A k \in 1 .. Len(s) - 1 : Tail(s)[k] = s[k + 1]
    BY <1>1
  <1>6. Len(s) > 1
    <2>1. \A n \in Nat : n > 0 /\ n # 1 => n > 1
      OBVIOUS
    <2>2. QED
      BY <1>1, <1>3, <2>1
  <1>7. Tail(s)[Len(Tail(s))] = s[Len(s)]
    BY <1>1, <1>4, <1>5, <1>6
  <1>8. Len(Tail(s)) > 0
    BY <1>1, <1>4, <1>6
  <1>9. s[Len(s)] \in Bases
    BY DEF WellFormed
  <1>10. QED
    BY <1>4, <1>7, <1>8, <1>9 DEF WellFormed

\* A call runs the first of the frames it pushes.
LEMMA CallRuns ==
    ASSUME NEW s \in Seq(Frames), NEW f \in Frames, NEW g \in Frames
    PROVE  Head(<<f, g>> \o s) = f
  OBVIOUS

\* So does replacing the running frame.
LEMMA ContinueWellFormed ==
    ASSUME NEW s, WellFormed(s), Head(s) \notin Bases, NEW f \in Seq(Frames)
    PROVE  WellFormed(f \o Tail(s))
  BY ReturnWellFormed, CallWellFormed

\* close() leaves a well formed stack if what follows it is one.
LEMMA CloseWellFormed ==
    ASSUME NEW s, WellFormed(s), close(s)
    PROVE  WellFormed(stack')
  <1>1. <<"drain">> \in Seq(Frames)
    BY DEF Frames
  <1>2. WellFormed(<<"drain">> \o s)
    BY <1>1, CallWellFormed
  <1>3. QED
    BY <1>2 DEF close

\* Every step of the network keeps the stack well formed.
LEMMA NetworkStack ==
    ASSUME WellFormed(stack), NetworkStep
    PROVE  WellFormed(stack')
  <1> USE DEF Running, Return, Continue, Bases
  <1>1. CASE DrainDone
    BY <1>1, ReturnWellFormed DEF DrainDone
  <1>2. CASE StartConnect
    <2>1. <<"connect">> \in Seq(Frames)
      BY DEF Frames, Waits
    <2>2. QED
      BY <1>2, <2>1, ContinueWellFormed DEF StartConnect
  <1>3. CASE ResolveFailed
    BY <1>3, ReturnWellFormed, CloseWellFormed DEF ResolveFailed
  <1>4. CASE HandshakeOk
    <2>1. <<"onSocketConnect">> \in Seq(Frames)
      BY DEF Frames
    <2>2. QED
      BY <1>4, <2>1, ContinueWellFormed DEF HandshakeOk
  <1>5. CASE ConnectFailed
    BY <1>5, ReturnWellFormed, CloseWellFormed DEF ConnectFailed
  <1>6. CASE DanglingConnect
    BY <1>6 DEF DanglingConnect, WellFormed, Frames
  <1>7. CASE SendNotConnected
    BY <1>7, ReturnWellFormed DEF SendNotConnected, Messages
  <1>8. CASE SendBlocked
    BY <1>8, ReturnWellFormed DEF SendBlocked, Messages
  <1>9. CASE SendStart
    <2>1. <<"write">> \in Seq(Frames)
      BY DEF Frames, Waits
    <2>2. QED
      BY <1>9, <2>1, ContinueWellFormed DEF SendStart, Messages
  <1>10. CASE SendDone
    BY <1>10, ReturnWellFormed DEF SendDone
  <1>11. CASE SendReset
    <2>1. <<"onDisconnect", "sendEnd">> \in Seq(Frames)
      BY DEF Frames
    <2>2. QED
      BY <1>11, <2>1, ContinueWellFormed, CloseWellFormed DEF SendReset
  <1>12. CASE SendEnd
    BY <1>12, ReturnWellFormed DEF SendEnd
  <1>13. QED
    BY <1>1, <1>2, <1>3, <1>4, <1>5, <1>6, <1>7, <1>8, <1>9, <1>10, <1>11,
       <1>12 DEF NetworkStep

\* Every step of the controller keeps the stack well formed.
LEMMA ControllerStack ==
    ASSUME WellFormed(stack), ControllerStep \/ onReceiveTimer \/ poll
    PROVE  WellFormed(stack')
  <1> USE DEF Running, Return, Continue, Call, Bases
  <1>1. CASE onSocketConnect
    <2>1. <<"hello", "onSentHello">> \in Seq(Frames)
      BY DEF Frames, Messages
    <2>2. QED
      BY <1>1, <2>1, ContinueWellFormed DEF onSocketConnect
  <1>2. CASE onSentHello
    BY <1>2, ReturnWellFormed DEF onSentHello
  <1>3. CASE onDisconnect \/ disable
    <2>1. <<"disable">> \in Seq(Frames) /\ <<"blocked">> \in Seq(Frames)
      BY DEF Frames
    <2>2. CASE close(Return)
      BY <1>3, <2>2, ReturnWellFormed, CloseWellFormed DEF onDisconnect, disable
    <2>3. CASE stack' \in {Continue(<<"disable">>), Continue(<<"blocked">>)}
      BY <1>3, <2>1, <2>3, ContinueWellFormed DEF onDisconnect, disable
    <2>4. QED
      BY <1>3, <2>2, <2>3 DEF onDisconnect, disable
  <1>4. CASE onSendTimer
    <2>1. <<"heartbeat", "scheduleSend">> \in Seq(Frames)
      BY DEF Frames, Messages
    <2>2. QED
      BY <1>4, <2>1, CallWellFormed DEF onSendTimer
  <1>5. CASE onAgentStatisticsTimer
    <2>1. <<"statistics", "scheduleStatistics">> \in Seq(Frames)
      BY DEF Frames, Messages
    <2>2. QED
      BY <1>5, <2>1, CallWellFormed DEF onAgentStatisticsTimer
  <1>6. CASE schedule
    BY <1>6, ReturnWellFormed DEF schedule, Schedule
  <1>7. CASE SendNextStashed
    <2>1. <<"stashed">> \in Seq(Frames)
      BY DEF Frames, Messages
    <2>2. QED
      BY <1>7, <2>1, CallWellFormed DEF SendNextStashed
  <1>8. CASE StashSent
    BY <1>8, ReturnWellFormed DEF StashSent
  <1>9. CASE onReceiveTimer
    <2>1. <<"onDisconnect", "scheduleReceive">> \in Seq(Frames)
      BY DEF Frames
    <2>2. QED
      BY <1>9, <2>1, CallWellFormed DEF onReceiveTimer
  <1>10. CASE poll
    <2>1. <<"onSocketConnect">> \in Seq(Frames) /\ <<"resolve">> \in Seq(Frames)
      BY DEF Frames, Waits
    <2>2. QED
      BY <1>10, <2>1, CallWellFormed DEF poll, StartResolve
  <1>11. QED
    BY <1>1, <1>2, <1>3, <1>4, <1>5, <1>6, <1>7, <1>8, <1>9, <1>10
       DEF ControllerStep

\* Every step of the protocol handler keeps the stack well formed.
LEMMA ReadStack ==
    ASSUME WellFormed(stack), attemptRead \/ ReadStep
    PROVE  WellFormed(stack')
  <1> USE DEF Running, Return, Call, Bases
  <1>1. CASE attemptRead
    BY <1>1, ReturnWellFormed DEF attemptRead
  <1>2. CASE onReadHeader \/ SkipBody
    BY <1>2 DEF onReadHeader, SkipBody
  <1>3. CASE onReadBody
    <2>1. /\ <<"attemptRead">> \in Seq(Frames)
          /\ <<"sendStashed", "scheduleAll">> \o <<"attemptRead">> \in Seq(Frames)
          /\ <<"blocked">> \o <<"attemptRead">> \in Seq(Frames)
      BY DEF Frames
    <2>2. QED
      BY <1>3, <2>1, CallWellFormed
         DEF onReadBody, onTerminate, onHeartbeat, onSampleRate, SampleRateWaits
  <1>4. QED
    BY <1>1, <1>2, <1>3 DEF ReadStep

\* Every step of the loop keeps the stack well formed.
LEMMA LoopStack ==
    ASSUME WellFormed(stack), LoopStep
    PROVE  WellFormed(stack')
  <1> USE DEF Running, Return, Continue, Call, Bases
  <1>1. CASE StartPops
    <2>1. [k \in 1 .. MaxPops |-> "pop"] \in Seq(Frames)
      BY LoopAssumption DEF Frames
    <2>2. QED
      BY <1>1, <2>1, CallWellFormed DEF StartPops
  <1>2. CASE PopItem
    <2>1. <<"item">> \in Seq(Frames)
      BY DEF Frames, Messages
    <2>2. QED
      BY <1>2, <2>1, ContinueWellFormed DEF PopItem
  <1>3. CASE PopNotification
    BY <1>3, ReturnWellFormed DEF PopNotification
  <1>4. CASE PopNothing
    BY <1>4, ReturnWellFormed DEF PopNothing
  <1>5. CASE LeaveLoop
    <2>1. <<"onDisconnect", "exit">> \in Seq(Frames)
      BY DEF Frames
    <2>2. QED
      BY <1>5, <2>1 DEF LeaveLoop, WellFormed
  <1>6. CASE Exit
    BY <1>6 DEF Exit, WellFormed, Frames
  <1>7. QED
    BY <1>1, <1>2, <1>3, <1>4, <1>5, <1>6 DEF LoopStep

\* Every step keeps the stack well formed.
LEMMA NextStack == WellFormed(stack) /\ [Next]_vars => WellFormed(stack')
  <1> SUFFICES ASSUME WellFormed(stack), [Next]_vars PROVE WellFormed(stack')
    OBVIOUS
  <1>1. CASE NetworkStep
    BY <1>1, NetworkStack
  <1>2. CASE Completion \/ ResolveHandler
    BY <1>2 DEF Completion, ResolveHandler, onTimerRun, ConnectHandler, WriteHandler
  <1>3. CASE \E t \in Timers : Expire(t)
    BY <1>3 DEF Expire
  <1>4. CASE ControllerStep \/ onReceiveTimer \/ poll
    BY <1>4, ControllerStack
  <1>5. CASE attemptRead \/ ReadStep
    BY <1>5, ReadStack
  <1>6. CASE LoopStep
    BY <1>6, LoopStack
  <1>7. CASE onMetricsExit \/ onProcessorExit
    BY <1>7 DEF onMetricsExit, onProcessorExit, networkVars
  <1>8. CASE on_fork
    <2>1. WellFormed(<<"loop">>)
      BY DEF WellFormed, Frames, Bases
    <2>2. QED
      BY <1>8, <2>1, CloseWellFormed DEF on_fork
  <1>9. CASE UNCHANGED vars
    BY <1>9 DEF vars, networkVars
  <1>10. QED
    BY <1>1, <1>2, <1>3, <1>4, <1>5, <1>6, <1>7, <1>8, <1>9 DEF Next

\* backoff() stays within its maximum.
LEMMA BackoffBounded ==
    ASSUME backoff \in 0 .. MaxBackoff
    PROVE  NextBackoff \in 0 .. MaxBackoff
  BY ControllerAssumption DEF NextBackoff

\* Every step keeps every variable in its type.
LEMMA NextType == TypeOK /\ [Next]_vars => TypeOK'
  <1> SUFFICES ASSUME TypeOK, [Next]_vars PROVE TypeOK'
    OBVIOUS
  <1>a. WellFormed(stack')
    BY NextStack DEF TypeOK, NetworkType
  <1> USE DEF TypeOK, NetworkType, ControllerType
  <1>1. CASE NetworkStep /\ NetworkOnly
    <2>1. CASE DrainDone
      BY <1>1, <2>1, <1>a DEF DrainDone, NetworkOnly, controllerVars, loopVars, metricsVars
    <2>2. CASE StartConnect
      BY <1>1, <2>2, <1>a DEF StartConnect, Timers, NetworkOnly, controllerVars, loopVars, metricsVars
    <2>3. CASE ResolveFailed
      BY <1>1, <2>3, <1>a DEF ResolveFailed, close, closeSocket, NetworkOnly, controllerVars, loopVars, metricsVars
    <2>4. CASE HandshakeOk
      BY <1>1, <2>4, <1>a DEF HandshakeOk, NetworkOnly, controllerVars, loopVars, metricsVars
    <2>5. CASE ConnectFailed
      BY <1>1, <2>5, <1>a DEF ConnectFailed, close, closeSocket, NetworkOnly, controllerVars, loopVars, metricsVars
    <2>6. CASE DanglingConnect
      BY <1>1, <2>6, <1>a DEF DanglingConnect, NetworkOnly, controllerVars, loopVars, metricsVars
    <2>7. CASE SendNotConnected
      BY <1>1, <2>7, <1>a DEF SendNotConnected, NetworkOnly, controllerVars, loopVars, metricsVars
    <2>8. CASE SendBlocked
      BY <1>1, <2>8, <1>a DEF SendBlocked, NetworkOnly, controllerVars, loopVars, metricsVars
    <2>9. CASE SendStart
      BY <1>1, <2>9, <1>a DEF SendStart, Timers, NetworkOnly, controllerVars, loopVars, metricsVars
    <2>10. CASE SendDone
      BY <1>1, <2>10, <1>a DEF SendDone, NetworkOnly, controllerVars, loopVars, metricsVars
    <2>11. CASE SendReset
      BY <1>1, <2>11, <1>a DEF SendReset, close, closeSocket, NetworkOnly, controllerVars, loopVars, metricsVars
    <2>12. CASE SendEnd
      BY <1>1, <2>12, <1>a DEF SendEnd, NetworkOnly, controllerVars, loopVars, metricsVars
    <2>13. QED
      BY <1>1, <2>1, <2>2, <2>3, <2>4, <2>5, <2>6, <2>7, <2>8, <2>9, <2>10, <2>11, <2>12 DEF NetworkStep
  <1>2. CASE (Completion \/ ResolveHandler) /\ NetworkOnly
    <2>1. CASE \E t \in Timers : onTimerRun(t)
      <3>1. NetworkType'
        BY <2>1, <1>a DEF onTimerRun, closeSocket
      <3>2. QED
        BY <1>2, <3>1 DEF NetworkOnly, controllerVars, loopVars, metricsVars
    <2>2. CASE ConnectHandler
      BY <1>2, <2>2, <1>a DEF ConnectHandler, NetworkOnly, controllerVars, loopVars, metricsVars
    <2>3. CASE WriteHandler
      BY <1>2, <2>3, <1>a DEF WriteHandler, NetworkOnly, controllerVars, loopVars, metricsVars
    <2>4. CASE ResolveHandler
      BY <1>2, <2>4, <1>a DEF ResolveHandler, NetworkOnly, controllerVars, loopVars, metricsVars
    <2>5. QED
      BY <1>2, <2>1, <2>2, <2>3, <2>4 DEF Completion
  <1>3. CASE \E t \in Timers : Expire(t) /\ NetworkOnly
    BY <1>3, <1>a DEF Expire, NetworkOnly, controllerVars, loopVars, metricsVars
  <1>4. CASE (ControllerStep \/ onReceiveTimer) /\ UNCHANGED loopVars
    <2>1. CASE onSocketConnect
      BY <1>4, <2>1, <1>a, ControllerAssumption DEF onSocketConnect, States, controllerVars, loopVars, metricsVars
    <2>2. CASE onSentHello
      BY <1>4, <2>2, <1>a, ControllerAssumption DEF onSentHello, States, Timers, controllerVars, loopVars, metricsVars
    <2>3. CASE onDisconnect \/ disable
      <3>1. NetworkType'
        BY <2>3, <1>a DEF onDisconnect, disable, close, closeSocket
      <3>2. ControllerType'
        BY <2>3 DEF onDisconnect, disable, States, controllerVars
      <3>3. QED
        BY <1>4, <3>1, <3>2 DEF loopVars, metricsVars
    <2>4. CASE onSendTimer
      BY <1>4, <2>4, <1>a, ControllerAssumption DEF onSendTimer, controllerVars, loopVars, metricsVars
    <2>5. CASE onAgentStatisticsTimer
      BY <1>4, <2>5, <1>a, ControllerAssumption DEF onAgentStatisticsTimer, controllerVars, loopVars, metricsVars
    <2>6. CASE onReceiveTimer
      BY <1>4, <2>6, <1>a, ControllerAssumption DEF onReceiveTimer, controllerVars, loopVars, metricsVars
    <2>7. CASE schedule
      <3>1. armed' \subseteq Timers
        BY <2>7, ControllerAssumption DEF schedule, Schedule, Timers
      <3>2. QED
        BY <1>4, <2>7, <3>1, <1>a DEF schedule, Schedule, controllerVars, loopVars, metricsVars
    <2>8. CASE SendNextStashed
      BY <1>4, <2>8, <1>a, ControllerAssumption DEF SendNextStashed, controllerVars, loopVars, metricsVars
    <2>9. CASE StashSent
      BY <1>4, <2>9, <1>a, ControllerAssumption DEF StashSent, controllerVars, loopVars, metricsVars
    <2>10. QED
      BY <1>4, <2>1, <2>2, <2>3, <2>4, <2>5, <2>6, <2>7, <2>8, <2>9 DEF ControllerStep
  <1>5. CASE poll /\ UNCHANGED loopVars
    BY <1>5, <1>a, BackoffBounded DEF poll, loopVars, metricsVars, StartResolve, Timers
  <1>6. CASE (attemptRead \/ ReadStep) /\ UNCHANGED loopVars
    <2>1. CASE attemptRead
      BY <1>6, <2>1, <1>a DEF attemptRead, controllerVars, loopVars, metricsVars
    <2>2. CASE onReadHeader
      BY <1>6, <2>2, <1>a DEF onReadHeader, NextHeader, controllerVars, loopVars, metricsVars
    <2>3. CASE SkipBody
      BY <1>6, <2>3, <1>a DEF SkipBody, NextHeader, controllerVars, loopVars, metricsVars
    <2>4. CASE onReadBody
      <3>1. CASE onTerminate(<<"attemptRead">>)
        BY <1>6, <2>4, <3>1, <1>a DEF onReadBody, onTerminate, loopVars, metricsVars
      <3>2. CASE onHeartbeat(<<"attemptRead">>)
        BY <1>6, <2>4, <3>2, <1>a
           DEF onReadBody, onHeartbeat, Timers, controllerVars, loopVars, metricsVars
      <3>3. CASE onSampleRate(<<"attemptRead">>)
        BY <1>6, <2>4, <3>3, <1>a DEF onReadBody, onSampleRate, States, loopVars, metricsVars
      <3>4. CASE SampleRateWaits(<<"attemptRead">>)
        BY <1>6, <2>4, <3>4, <1>a
           DEF onReadBody, SampleRateWaits, controllerVars, loopVars, metricsVars
      <3>5. QED
        BY <2>4, <3>1, <3>2, <3>3, <3>4 DEF onReadBody
    <2>5. QED
      BY <1>6, <2>1, <2>2, <2>3, <2>4 DEF ReadStep
  <1>7. CASE LoopStep
    <2>1. CASE StartPops
      BY <1>7, <2>1, <1>a, ControllerAssumption DEF StartPops, controllerVars, loopVars, metricsVars
    <2>2. CASE PopItem
      BY <1>7, <2>2, <1>a, ControllerAssumption DEF PopItem, controllerVars, loopVars, metricsVars
    <2>3. CASE PopNotification
      BY <1>7, <2>3, <1>a, ControllerAssumption DEF PopNotification, stashNotification, controllerVars, loopVars, metricsVars
    <2>4. CASE PopNothing
      BY <1>7, <2>4, <1>a, ControllerAssumption DEF PopNothing, controllerVars, loopVars, metricsVars
    <2>5. CASE LeaveLoop
      BY <1>7, <2>5, <1>a, ControllerAssumption DEF LeaveLoop, controllerVars, loopVars, metricsVars
    <2>6. CASE Exit
      BY <1>7, <2>6, <1>a, ControllerAssumption DEF Exit, controllerVars, loopVars, metricsVars
    <2>7. QED
      BY <1>7, <2>1, <2>2, <2>3, <2>4, <2>5, <2>6 DEF LoopStep
  <1>8. CASE onMetricsExit \/ onProcessorExit
    BY <1>8, <1>a DEF onMetricsExit, onProcessorExit, networkVars, controllerVars,
       metricsVars
  <1>9. CASE on_fork
    <2>1. NetworkType'
      BY <1>9, <1>a DEF on_fork, close, closeSocket
    <2>2. ControllerType'
      BY <1>9, ControllerAssumption DEF on_fork, States
    <2>3. QED
      BY <1>9, <2>1, <2>2 DEF on_fork
  <1>10. CASE UNCHANGED vars
    BY <1>10 DEF vars, networkVars, controllerVars, metricsVars
  <1>11. QED
    BY <1>1, <1>2, <1>3, <1>4, <1>5, <1>6, <1>7, <1>8, <1>9, <1>10 DEF Next

\* The initial state has the types.
LEMMA InitType == Init => TypeOK
  <1> SUFFICES ASSUME Init PROVE TypeOK
    OBVIOUS
  <1>1. WellFormed(<<"loop">>)
    BY DEF WellFormed, Frames, Bases
  <1>2. NetworkType
    BY <1>1 DEF Init, NetworkInit, NetworkType
  <1>3. ControllerType
    BY ControllerAssumption DEF Init, ControllerInit, ControllerType, States
  <1>4. QED
    BY <1>2, <1>3 DEF Init, TypeOK

\* The agent's variables keep their types; in particular the stack of
\* nested calls never runs empty and the backoff never exceeds its maximum.
THEOREM TypeCorrect == Spec => []TypeOK
  BY InitType, NextType, PTL DEF Spec

-----------------------------------------------------------------------------
\* A step that does not run onDisconnect's frame, takes no receive timer
\* away and opens no session keeps the deadline.
LEMMA KeepsDeadline ==
    ASSUME SessionHasDeadline, Running # "onDisconnect",
           state' = state \/ state = "SENT_HELLO",
           "receive" \in armed => "receive" \in armed' \cup fired',
           "receive" \in fired => "receive" \in fired'
    PROVE  SessionHasDeadline'
  BY DEF SessionHasDeadline

\* A session always has a deadline, however the calls of the processor
\* thread nest and whatever the network does, across forks too.
THEOREM DeadlineKept == Spec => []SessionHasDeadline
  <1>1. Init => SessionHasDeadline
    BY DEF Init, ControllerInit, SessionHasDeadline
  <1>2. TypeOK /\ SessionHasDeadline /\ [Next]_vars => SessionHasDeadline'
    <2> SUFFICES ASSUME TypeOK, SessionHasDeadline, [Next]_vars
                 PROVE  SessionHasDeadline'
      OBVIOUS
    <2>1. CASE NetworkStep /\ NetworkOnly
      BY <2>1, KeepsDeadline DEF NetworkStep, NetworkOnly, controllerVars,
         DrainDone, StartConnect, ResolveFailed, HandshakeOk, ConnectFailed,
         DanglingConnect, SendNotConnected, SendBlocked, SendStart, SendDone,
         SendReset, SendEnd, Messages
    <2>2. CASE (Completion \/ ResolveHandler) /\ NetworkOnly
      BY <2>2, KeepsDeadline DEF Completion, NetworkOnly, controllerVars,
         ResolveHandler, onTimerRun, ConnectHandler, WriteHandler,
         RunsHandlers, Waits
    <2>3. CASE \E t \in Timers : Expire(t) /\ NetworkOnly
      BY <2>3 DEF Expire, NetworkOnly, controllerVars, SessionHasDeadline, Running
    <2>4. CASE onReceiveTimer
      <3>1. Head(<<"onDisconnect", "scheduleReceive">> \o stack) = "onDisconnect"
        BY CallRuns DEF TypeOK, NetworkType, WellFormed, Frames
      <3>2. QED
        BY <2>4, <3>1 DEF onReceiveTimer, SessionHasDeadline, Running, Call
    <2>5. CASE onDisconnect
      BY <2>5 DEF onDisconnect, SessionHasDeadline
    <2>5a. CASE disable
      BY <2>5a, KeepsDeadline DEF disable, controllerVars
    <2>6. CASE onSentHello
      BY <2>6 DEF onSentHello, SessionHasDeadline
    <2>7. CASE onSocketConnect
      BY <2>7 DEF onSocketConnect, SessionHasDeadline
    <2>8. CASE onSendTimer \/ onAgentStatisticsTimer
      BY <2>8, KeepsDeadline DEF onSendTimer, onAgentStatisticsTimer,
         controllerVars, RunsHandlers, Waits
    <2>9. CASE schedule \/ SendNextStashed \/ StashSent
      BY <2>9, KeepsDeadline DEF schedule, Schedule, SendNextStashed,
         StashSent, controllerVars
    <2>10. CASE poll
      BY <2>10 DEF poll, SessionHasDeadline
    <2>11. CASE attemptRead \/ ReadStep
      BY <2>11, KeepsDeadline DEF attemptRead, ReadStep, onReadHeader, SkipBody,
         onReadBody, ReadReady, RunsHandlers, Waits, onTerminate, onHeartbeat,
         onSampleRate, SampleRateWaits, controllerVars
    <2>12. CASE LoopStep
      BY <2>12, KeepsDeadline DEF LoopStep, StartPops, PopItem, PopNotification,
         PopNothing, LeaveLoop, Exit, stashNotification, controllerVars
    <2>13. CASE onMetricsExit \/ onProcessorExit
      BY <2>13 DEF onMetricsExit, onProcessorExit, networkVars, controllerVars,
         SessionHasDeadline, Running
    <2>14. CASE on_fork
      BY <2>14 DEF on_fork, SessionHasDeadline
    <2>15. CASE UNCHANGED vars
      BY <2>15 DEF vars, networkVars, controllerVars, SessionHasDeadline, Running
    <2>16. QED
      BY <2>1, <2>2, <2>3, <2>4, <2>5, <2>6, <2>7, <2>8, <2>9, <2>10, <2>11,
         <2>12, <2>13, <2>14, <2>15, <2>5a DEF Next, ControllerStep
  <1>3. QED
    BY <1>1, <1>2, TypeCorrect, PTL DEF Spec

=============================================================================
