-------------------------------- MODULE Agent --------------------------------
(***************************************************************************)
(* The processor thread of lib/processor.cpp: the loop that polls the      *)
(* controller, the network and the queue, with the network, the controller *)
(* and the protocol handler inside it, and Profiler::on_fork, which starts *)
(* the same loop again in a forked child.                                  *)
(***************************************************************************)
EXTENDS ProtocolHandler

CONSTANTS
    MaxPops,   \* MAX_POLLS: items read per turn of the loop
    MayFork    \* TRUE: the program may fork, and the child is followed

ASSUME LoopAssumption == MaxPops \in Nat \ {0} /\ MayFork \in BOOLEAN

VARIABLES
    processorRunning,  \* cleared by onProcessorExit at exit
    forked             \* this process is the child of a fork

vars == <<networkVars, controllerVars, metricsVars, processorRunning, forked>>
loopVars == <<metricsVars, processorRunning, forked>>

TypeOK ==
    /\ NetworkType
    /\ ControllerType
    /\ exiting \in BOOLEAN
    /\ inherited \in BOOLEAN
    /\ processorRunning \in BOOLEAN
    /\ forked \in BOOLEAN

Init ==
    /\ NetworkInit
    /\ ControllerInit
    /\ exiting = FALSE
    /\ inherited = FALSE
    /\ processorRunning = TRUE
    /\ forked = FALSE

-----------------------------------------------------------------------------
(* The loop *)

\* MAX_POLLS calls of pop() while the session is active, even if the turn's
\* handlers have just ended the loop ...
StartPops ==
    /\ Running = "loop"
    /\ isActive
    /\ stack' = Call([k \in 1 .. MaxPops |-> "pop"])
    /\ UNCHANGED <<armed, fired, ec, sock, isConnected, isSending, read>>
    /\ UNCHANGED <<controllerVars, loopVars>>

\* ... but that is not looked at again between two of them: an item is
\* sent, except that a notification is stashed when there is no session.
\* An item that takes several messages is like several items.
\* (The listener of the Prometheus exporter does neither.)
PopItem ==
    /\ Running = "pop"
    /\ ~prometheusEnabled
    /\ stack' = Continue(<<"item">>)
    /\ UNCHANGED <<armed, fired, ec, sock, isConnected, isSending, read>>
    /\ UNCHANGED <<controllerVars, loopVars>>

PopNotification ==
    /\ Running = "pop"
    /\ ~prometheusEnabled
    /\ state # "CONNECTED"
    /\ stashNotification
    /\ stack' = Return
    /\ UNCHANGED <<armed, fired, ec, sock, isConnected, isSending, read>>
    /\ UNCHANGED loopVars

\* The queue is empty.
PopNothing ==
    /\ Running = "pop"
    /\ stack' = Return
    /\ UNCHANGED <<armed, fired, ec, sock, isConnected, isSending, read>>
    /\ UNCHANGED <<controllerVars, loopVars>>

\* Mutant: the loop ends after onTerminate only.
LeaveTerminated ==
    /\ Running = "loop"
    /\ ~on
    /\ stack' = <<"onDisconnect", "exit">>
    /\ UNCHANGED <<armed, fired, ec, sock, isConnected, isSending, read>>
    /\ UNCHANGED <<controllerVars, loopVars>>

\* The loop ends after onTerminate or at exit: onEnd.
LeaveLoop ==
    /\ Running = "loop"
    /\ ~on \/ ~processorRunning
    /\ stack' = <<"onDisconnect", "exit">>
    /\ UNCHANGED <<armed, fired, ec, sock, isConnected, isSending, read>>
    /\ UNCHANGED <<controllerVars, loopVars>>

Exit ==
    /\ Running = "exit"
    /\ stack' = <<"ended">>
    /\ UNCHANGED <<armed, fired, ec, sock, isConnected, isSending, read>>
    /\ UNCHANGED <<controllerVars, loopVars>>

\* onMetricsExit: the main thread exits.  (atexit handlers run in the reverse
\* of the order of Profiler::start.)
onMetricsExit ==
    /\ ~exiting
    /\ exiting' = TRUE
    /\ UNCHANGED <<networkVars, controllerVars, inherited, processorRunning, forked>>

\* onProcessorExit: it has joined the metrics thread, asks the loop to end
\* and joins the processor thread.
onProcessorExit ==
    /\ exiting
    /\ processorRunning
    /\ processorRunning' = FALSE
    /\ UNCHANGED <<networkVars, controllerVars, metricsVars, forked>>

\* Mutant: the child deletes the socket without draining the io_service.
ForkUndrained ==
    /\ MayFork
    /\ ~forked
    /\ Running \notin {"ended", "crashed"}
    /\ forked' = TRUE
    /\ processorRunning' = TRUE
    /\ exiting' = FALSE
    /\ inherited' \in BOOLEAN
    /\ state' = "DISCONNECTED"
    /\ backoff' = 0
    /\ notifications' = 0
    /\ unsent' = 0
    /\ ec' = "none"
    /\ sock' = "null"
    /\ isConnected' = FALSE
    /\ stack' = <<"loop">>
    /\ UNCHANGED <<on, armed, fired, isSending, read>>

\* Mutant: the child resets the controller and keeps the socket.
ForkKeepsSocket ==
    /\ MayFork
    /\ ~forked
    /\ Running \notin {"ended", "crashed"}
    /\ forked' = TRUE
    /\ processorRunning' = TRUE
    /\ exiting' = FALSE
    /\ inherited' \in BOOLEAN
    /\ state' = "DISCONNECTED"
    /\ backoff' = 0
    /\ notifications' = 0
    /\ unsent' = 0
    /\ ec' = "none"
    /\ stack' = <<"loop">>
    /\ UNCHANGED <<on, armed, fired, sock, isConnected, isSending, read>>

\* Profiler::on_fork in the child: the processor thread is gone, whatever
\* it was doing; the controller is reset, the network closed (which drains
\* the io_service), and a new processor thread is started.  The readers'
\* mutex of Metrics stays as it was at the fork, held or not.
on_fork ==
    /\ MayFork
    /\ ~forked
    /\ Running \notin {"ended", "crashed"}
    /\ forked' = TRUE
    /\ processorRunning' = TRUE
    /\ exiting' = FALSE
    /\ inherited' \in BOOLEAN
    /\ state' = "DISCONNECTED"
    /\ backoff' = 0
    /\ notifications' = 0
    /\ unsent' = 0
    /\ ec' = "none"
    /\ close(<<"loop">>)
    /\ UNCHANGED <<on, armed, fired, isSending, read>>

-----------------------------------------------------------------------------
\* Completions of the operation a wait is about, and of its timeout.
Completion ==
    \/ \E t \in Timers : onTimerRun(t)
    \/ ConnectHandler
    \/ WriteHandler

NetworkStep ==
    \/ DrainDone
    \/ StartConnect
    \/ ResolveFailed
    \/ HandshakeOk
    \/ ConnectFailed
    \/ DanglingConnect
    \/ SendNotConnected
    \/ SendBlocked
    \/ SendStart
    \/ SendDone
    \/ SendReset
    \/ SendEnd

ControllerStep ==
    \/ onSocketConnect
    \/ onSentHello
    \/ onDisconnect
    \/ disable
    \/ onSendTimer
    \/ onAgentStatisticsTimer
    \/ schedule
    \/ SendNextStashed
    \/ StashSent

ReadStep ==
    \/ onReadHeader
    \/ SkipBody
    \/ onReadBody

LoopStep ==
    \/ StartPops
    \/ PopItem
    \/ PopNotification
    \/ PopNothing
    \/ LeaveLoop
    \/ Exit

NetworkOnly == UNCHANGED <<controllerVars, loopVars>>

Next ==
    \/ NetworkStep /\ NetworkOnly
    \/ Completion /\ NetworkOnly
    \/ ResolveHandler /\ NetworkOnly
    \/ \E t \in Timers : Expire(t) /\ NetworkOnly
    \/ ControllerStep /\ UNCHANGED loopVars
    \/ onReceiveTimer /\ UNCHANGED loopVars
    \/ poll /\ processorRunning /\ UNCHANGED loopVars
    \/ attemptRead /\ UNCHANGED loopVars
    \/ ReadStep /\ UNCHANGED loopVars
    \/ LoopStep
    \/ onMetricsExit
    \/ onProcessorExit
    \/ on_fork

Spec == Init /\ [][Next]_vars

-----------------------------------------------------------------------------
(* Fairness *)

\* The thread does not stop while it has something to do by itself: a frame
\* to go on with, an expired timer, an operation aborted by a close.
ThreadStep ==
    \/ NetworkStep /\ NetworkOnly
    \/ ControllerStep /\ UNCHANGED loopVars
    \/ attemptRead /\ UNCHANGED loopVars
    \/ LoopStep
    \/ ~isConnected /\ ReadStep /\ UNCHANGED loopVars

\* An operation whose socket is closed, and an expired timeout, complete.
AbortedCompletion ==
    /\ \/ \E t \in Timers : onTimerRun(t)
       \/ sock # "open" /\ (ConnectHandler \/ WriteHandler)
    /\ NetworkOnly

\* A timer that nobody restarts expires: the timeout of a wait, and the
\* receive timer while no read can bring a heartbeat.
QuietExpire ==
    /\ ~isConnected \/ read = "none"
    /\ Expire("receive")
    /\ NetworkOnly

\* Each turn of the loop polls the controller and then a bounded number of
\* handlers, which the io_service queues in order: neither is passed over
\* for ever.
Turn == (poll /\ processorRunning /\ UNCHANGED loopVars) \/ LeaveLoop

ThreadFairness ==
    /\ WF_vars(ThreadStep)
    /\ SF_vars(Turn)
    /\ SF_vars(onReceiveTimer /\ UNCHANGED loopVars)
    /\ WF_vars(QuietExpire)
    /\ WF_vars((\E t \in Waits : Expire(t)) /\ NetworkOnly)

\* The resolver may never answer.
FairSpecNoResolver == Spec /\ ThreadFairness /\ SF_vars(AbortedCompletion)

\* The resolver answers in the end.
FairSpec ==
    /\ Spec
    /\ ThreadFairness
    /\ SF_vars(AbortedCompletion \/ (ResolveHandler /\ NetworkOnly))

-----------------------------------------------------------------------------
(* Properties *)

\* A session never waits without a deadline: from the hello on, the receive
\* timer is running, or its handler is queued, or it has just fired and the
\* disconnect comes next (onSentHello, onFirstSampleRate, onHeartbeat,
\* onReceiveTimer, and every disconnect nested inside them).
SessionHasDeadline ==
    state \in {"SENT_HELLO", "CONNECTED"} =>
        \/ "receive" \in armed \cup fired
        \/ Running = "onDisconnect"

\* Two messages are never written to the socket at the same time, however
\* sends nest through the handlers a send runs while it waits
\* (sendWithSize's isSending_, network.h:75).
SingleWrite ==
    \A j, k \in DOMAIN stack : stack[j] = "write" /\ stack[k] = "write" => j = k

\* When the thread is back in its loop no send is marked as in progress, so
\* the next message is not dropped (sendWithSize's isSending_).  Not so in
\* the child of a fork: Network::on_fork leaves the mark of a send that
\* nobody will end.
FlagReleased == Running = "loop" => ~isSending

\* A read is only started when none is outstanding: the two handlers share
\* one buffer (attemptRead, onReadHeader, onReadBody, onSocketConnect).
SingleRead ==
    Running \in {"attemptRead", "onSocketConnect"} /\ isConnected => read = "none"

\* A new connection starts only after the old socket has been deleted
\* (poll, connect, onDisconnect).
NoSocketLeak ==
    (Running = "loop" /\ state = "DISCONNECTED") \/ Running = "resolve" => sock = "null"

\* When the socket is deleted none of its operations is outstanding
\* (network.cpp:323, "we drain the outstanding async operations until they
\* are all cancelled otherwise when we delete we may get a use-after-free").
NothingOutstanding ==
    sock = "null" =>
        /\ read = "none"
        /\ ec = "would_block" => InProgress("resolve")

\* connect() never goes on with a socket that a handler has deleted.
NoDanglingConnect == Running # "crashed"

\* The processor thread waits for ever in a call of Metrics: for the runtime
\* lock of the exiting main thread, which is waiting for it (Metrics'
\* ExitNotStuck is violated), or for a mutex copied locked by a fork.
Blocked == Running = "blocked"

\* A dead session does not stay: one whose connection was lost without an
\* error (a write that timed out, a socket closed by a late timeout), or
\* whose chain of reads has ended on an error, ends or starts to read again
\* (onReceiveTimer is the only thing that sees it), unless the thread is
\* blocked in Metrics.
Dead == state \in {"SENT_HELLO", "CONNECTED"} /\ (~isConnected \/ read = "none")
DeadSessionEnds == Dead ~> ~Dead \/ Blocked

\* A disconnected agent tries again, unless it is told to stop, or an exit
\* ends the loop or leaves the thread blocked in Metrics.
Reconnects ==
    state = "DISCONNECTED" /\ Running = "loop" ~>
        InProgress("resolve") \/ Running = "ended" \/ Blocked

\* Once onProcessorExit has asked it to, the loop ends: the main thread's
\* pthread_join returns.  The exceptions are a thread blocked in Metrics by
\* the exit itself (onSampleRate, or a disconnect that saw the metrics
\* thread running just before), and a fork whose child starts a new loop.
ExitCompletes == ~processorRunning ~> Running = "ended" \/ Blocked \/ processorRunning

\* A connection attempt has a timeout: name resolution does not go on for
\* ever (network.cpp:155, "in order to connect with a timeout").
ResolveTimesOut == InProgress("resolve") ~> ~InProgress("resolve")

==============================================================================
