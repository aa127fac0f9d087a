------------------------- MODULE CollectorController -------------------------
(***************************************************************************)
(* lib/collector_controller.cpp: the life of a session with the collector  *)
(* (hello, first sample rate, heartbeats, timeout, reconnect with          *)
(* backoff) and the notifications kept for the next session.               *)
(*                                                                         *)
(* What onSampleRate, onStart and onDisconnect pass on to SignalHandler,   *)
(* ProcScanner and Metrics (rates, on and off) is those components' state. *)
(* But Metrics' enable and disable wait: for readersMutex and for the      *)
(* OCaml runtime lock.  Module Metrics has the locks; here is when a call  *)
(* need not return.  The thread then stays in a "blocked" frame.           *)
(***************************************************************************)
EXTENDS Network

CONSTANTS
    MinBackoff,   \* MIN_BACKOFF_TIME_IN_MS
    MaxBackoff,   \* MAX_BACKOFF_TIME_IN_MS
    MaxStash,     \* bound: how many notifications may be kept at a time
    Periodic      \* the periodic messages: heartbeats, agent statistics

ASSUME ControllerAssumption ==
    /\ MinBackoff \in Nat \ {0, 1}
    /\ MaxBackoff \in Nat /\ MinBackoff <= MaxBackoff
    /\ MaxStash \in Nat
    /\ Periodic \subseteq {"send", "statistics"}

VARIABLES
    state,          \* state_
    on,             \* on_
    backoff,        \* backoffTimeInMs_
    notifications,  \* how many notifications are stashed
    unsent,         \* how many of them sendStashedNotifications has yet to send
    exiting,        \* onMetricsExit has begun: metrics_thread_running() is false,
                    \* and the main thread keeps the runtime lock to the end
    inherited       \* the process was forked while readersMutex was held

controllerVars == <<state, on, backoff, notifications, unsent>>
metricsVars == <<exiting, inherited>>

States == {"SOCKET_CONNECTED", "SENT_HELLO", "CONNECTED", "DISCONNECTED",
           "PROMETHEUS_MODE"}

ControllerType ==
    /\ state \in States
    /\ on \in BOOLEAN
    /\ backoff \in 0 .. MaxBackoff
    /\ notifications \in 0 .. MaxStash
    /\ unsent \in 0 .. MaxStash

ControllerInit ==
    /\ state = IF prometheusEnabled THEN "PROMETHEUS_MODE" ELSE "DISCONNECTED"
    /\ on = TRUE
    /\ backoff = 0
    /\ notifications = 0
    /\ unsent = 0

isActive == state \in {"CONNECTED", "PROMETHEUS_MODE"}

-----------------------------------------------------------------------------
(* Reconnecting *)

\* Mutant: the maximum is applied before the factor.
NextBackoffUncapped ==
    IF backoff = 0 THEN MinBackoff
    ELSE ((IF backoff > MaxBackoff THEN MaxBackoff ELSE backoff) * 3) \div 2

\* backoff(): no wait before the first attempt, then BACKOFF_FACTOR times
\* the last one, up to the maximum.  The random part of the sleep only
\* takes time.
NextBackoff ==
    IF backoff = 0 THEN MinBackoff
    ELSE LET longer == (backoff * 3) \div 2
         IN  IF longer > MaxBackoff THEN MaxBackoff ELSE longer

\* Mutant: no more attempts once the backoff has reached its maximum.
PollGivesUp ==
    /\ Running = "loop"
    /\ on
    /\ state = "DISCONNECTED"
    /\ backoff < MaxBackoff
    /\ backoff' = NextBackoff
    /\ StartResolve
    /\ UNCHANGED <<state, on, notifications, unsent>>

\* poll() and attemptConnect().
poll ==
    /\ Running = "loop"
    /\ on
    /\ state = "DISCONNECTED"
    /\ backoff' = NextBackoff
    /\ IF prometheusEnabled
       THEN /\ stack' = Call(<<"onSocketConnect">>)
            /\ UNCHANGED <<armed, fired, ec, sock, isConnected, isSending, read>>
       ELSE StartResolve
    /\ UNCHANGED <<state, on, notifications, unsent>>

\* The socket is connected: start reading (Profiler::onSocketConnected),
\* then send the hello.
onSocketConnect ==
    /\ Running = "onSocketConnect"
    /\ state' = "SOCKET_CONNECTED"
    /\ backoff' = 0
    /\ read' = IF isConnected THEN "header" ELSE read
    /\ stack' = Continue(<<"hello", "onSentHello">>)
    /\ UNCHANGED <<armed, fired, ec, sock, isConnected, isSending>>
    /\ UNCHANGED <<on, notifications, unsent>>

\* Mutant: the receive timer is not started with the session.
SentHelloUntimed ==
    /\ Running = "onSentHello"
    /\ state' = "SENT_HELLO"
    /\ stack' = Return
    /\ UNCHANGED <<armed, fired, ec, sock, isConnected, isSending, read>>
    /\ UNCHANGED <<on, backoff, notifications, unsent>>

\* Whatever became of the hello, the session now waits for its answer.
onSentHello ==
    /\ Running = "onSentHello"
    /\ state' = "SENT_HELLO"
    /\ armed' = armed \cup {"receive"}
    /\ stack' = Return
    /\ UNCHANGED <<fired, ec, sock, isConnected, isSending, read>>
    /\ UNCHANGED <<on, backoff, notifications, unsent>>

\* Mutant: the session ends without closing its socket.
DisconnectKeepsSocket ==
    /\ Running = "onDisconnect"
    /\ state' = "DISCONNECTED"
    /\ armed' = armed \ {"send", "receive", "statistics"}
    /\ stack' = Return
    /\ UNCHANGED <<fired, ec, sock, isConnected, isSending, read>>
    /\ UNCHANGED <<on, backoff, notifications, unsent>>

\* The session ends: its timers are cancelled, the metrics turned off if
\* they are on and their thread is running, and the socket is closed.  (In a
\* child that inherited the held mutex they are never on.)
onDisconnect ==
    /\ Running = "onDisconnect"
    /\ state' = "DISCONNECTED"
    /\ armed' = armed \ {"send", "receive", "statistics"}
    /\ \/ close(Return)
       \/ /\ ~exiting /\ ~inherited
          /\ stack' = Continue(<<"disable">>)
          /\ UNCHANGED <<sock, isConnected>>
    /\ UNCHANGED <<fired, ec, isSending, read>>
    /\ UNCHANGED <<on, backoff, notifications, unsent>>

\* The call of metrics_.disable(), then the rest of onDisconnect.  An exit
\* that began after the thread was seen running may leave it waiting.
disable ==
    /\ Running = "disable"
    /\ \/ close(Return)
       \/ /\ exiting
          /\ stack' = Continue(<<"blocked">>)
          /\ UNCHANGED <<sock, isConnected>>
    /\ UNCHANGED <<armed, fired, ec, isSending, read, controllerVars>>

-----------------------------------------------------------------------------
(* Timer handlers: the work, then the timer again *)

\* Mutant: the receive timer only restarts itself.
ReceiveTimerIgnored ==
    /\ RunsHandlers
    /\ "receive" \in fired
    /\ fired' = fired \ {"receive"}
    /\ stack' = Call(<<"scheduleReceive">>)
    /\ UNCHANGED <<armed, ec, sock, isConnected, isSending, read, controllerVars>>

\* Nothing was heard from the collector for TIMEOUT_IN_MS.
onReceiveTimer ==
    /\ RunsHandlers
    /\ "receive" \in fired
    /\ fired' = fired \ {"receive"}
    /\ stack' = Call(<<"onDisconnect", "scheduleReceive">>)
    /\ UNCHANGED <<armed, ec, sock, isConnected, isSending, read, controllerVars>>

onSendTimer ==
    /\ RunsHandlers
    /\ "send" \in fired
    /\ fired' = fired \ {"send"}
    /\ stack' = Call(<<"heartbeat", "scheduleSend">>)
    /\ UNCHANGED <<armed, ec, sock, isConnected, isSending, read, controllerVars>>

onAgentStatisticsTimer ==
    /\ RunsHandlers
    /\ "statistics" \in fired
    /\ fired' = fired \ {"statistics"}
    /\ stack' = Call(<<"statistics", "scheduleStatistics">>)
    /\ UNCHANGED <<armed, ec, sock, isConnected, isSending, read, controllerVars>>

\* scheduleSendTimer, scheduleReceiveTimer, scheduleAgentStatisticsTimer.
Schedule(frame, timers) ==
    /\ Running = frame
    /\ armed' = armed \cup timers
    /\ stack' = Return
    /\ UNCHANGED <<fired, ec, sock, isConnected, isSending, read, controllerVars>>

schedule ==
    \/ Schedule("scheduleSend", {"send"})
    \/ Schedule("scheduleReceive", {"receive"})
    \/ Schedule("scheduleStatistics", {"statistics"})
    \/ Schedule("scheduleAll", {"receive"} \cup Periodic)

-----------------------------------------------------------------------------
(* Messages of the collector, after which the frames in `then` run *)

onTerminate(then) ==
    /\ on' = FALSE
    /\ stack' = Call(then)
    /\ UNCHANGED <<armed, state, backoff, notifications, unsent>>

onHeartbeat(then) ==
    /\ armed' = armed \cup {"receive"}
    /\ stack' = Call(then)
    /\ UNCHANGED controllerVars

\* onSampleRate: metrics_.enable() or disable() is called unconditionally,
\* and may wait for ever once the process exits, and does in a child that
\* inherited the held mutex.
SampleRateWaits(then) ==
    /\ exiting \/ inherited
    /\ stack' = Call(<<"blocked">> \o then)
    /\ UNCHANGED <<armed, controllerVars>>

\* onSampleRate and, when it answers the hello, onFirstSampleRate.
onSampleRate(then) ==
    /\ ~inherited
    /\ IF state = "SENT_HELLO"
       THEN /\ state' = "CONNECTED"
            /\ unsent' = notifications
            /\ stack' = Call(<<"sendStashed", "scheduleAll">> \o then)
       ELSE /\ stack' = Call(then)
            /\ UNCHANGED <<state, unsent>>
    /\ UNCHANGED <<armed, on, backoff, notifications>>

\* sendStashedNotifications: send them in turn, then forget them all.
SendNextStashed ==
    /\ Running = "sendStashed"
    /\ unsent > 0
    /\ unsent' = unsent - 1
    /\ stack' = Call(<<"stashed">>)
    /\ UNCHANGED <<armed, fired, ec, sock, isConnected, isSending, read>>
    /\ UNCHANGED <<state, on, backoff, notifications>>

StashSent ==
    /\ Running = "sendStashed"
    /\ unsent = 0
    /\ notifications' = 0
    /\ stack' = Return
    /\ UNCHANGED <<armed, fired, ec, sock, isConnected, isSending, read>>
    /\ UNCHANGED <<state, on, backoff, unsent>>

\* stashNotification, from LogWriter::recordNotification when not connected.
stashNotification ==
    /\ notifications < MaxStash
    /\ notifications' = notifications + 1
    /\ UNCHANGED <<state, on, backoff, unsent>>

==============================================================================
