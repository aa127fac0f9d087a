------------------------------- MODULE Pipeline -------------------------------
(***************************************************************************)
(* A sample's way through the agent: signal handlers walk stacks and push  *)
(* traces, the processor thread pops them and hands them to the queue      *)
(* listener Profiler::configure chose, the LogWriter or the exporter for   *)
(* Prometheus.  The session with the collector comes and goes as Agent     *)
(* shows it to; here it is only up or down.                                *)
(***************************************************************************)
EXTENDS LogWriter, PrometheusExporter

CONSTANTS MAX_POLLS,    \* pops per turn of the loop
          MaxSessions,  \* bound on the sessions
          MaxSamples    \* bound on the samples between two scrapes

ASSUME PipelineAssumption ==
    MAX_POLLS \in Nat \ {0} /\ MaxSessions \in Nat /\ MaxSamples \in Nat

\* backtrace_pcinfo calls back in some order, for the addresses of the
\* program and for that of a cleared frame.
ASSUME PcinfoAssumption ==
    \A pc \in PCs \cup {0} : Pcinfo[pc] \in Seq(Range(Pcinfo[pc]))

VARIABLES sessions      \* sessions so far, for the bound

vars == <<queueVars, symbolVars, writerVars, sessionVars, prometheusVars, sessions>>

\* Profiler::configure: the listener follows the mode, here state_.
Init ==
    /\ QueueInit /\ SymbolInit /\ WriterInit /\ PrometheusInit
    /\ state_ \in {"DISCONNECTED", "PROMETHEUS_MODE"}
    /\ sessions = 0

inPrometheusMode == state_ = "PROMETHEUS_MODE"
isActive == isConnected \/ inPrometheusMode

-----------------------------------------------------------------------------
(* The session, between two turns of the loop *)

\* Mutant: the symbols of the last session are kept.
socketConnectHandlerKeeping == UNCHANGED symbolVars

\* Profiler::onSocketConnected, as far as the writer goes.
socketConnectHandler_ == onSocketConnected

\* attemptConnect succeeds: the tables are cleared, hello sent.
onSocketConnect ==
    /\ writer.at = "loop"
    /\ state_ = "DISCONNECTED"
    /\ sessions < MaxSessions
    /\ sessions' = sessions + 1
    /\ socketConnectHandler_
    /\ state_' = "SENT_HELLO"
    /\ UNCHANGED <<queueVars, writerVars, told, lost, prometheusVars>>

\* onFirstSampleRate
onFirstSampleRate ==
    /\ writer.at = "loop"
    /\ state_ = "SENT_HELLO"
    /\ state_' = "CONNECTED"
    /\ UNCHANGED <<queueVars, symbolVars, writerVars, told, lost, prometheusVars, sessions>>

\* onDisconnect in the loop's poll; inside a send it is the send's outcome.
onDisconnect ==
    /\ writer.at = "loop"
    /\ state_ \in {"SENT_HELLO", "CONNECTED"}
    /\ EndSession
    /\ UNCHANGED <<queueVars, symbolVars, writerVars, prometheusVars, sessions>>

-----------------------------------------------------------------------------
(* Processor::run and CircularQueue::pop *)

\* The loop's turn: isActive is asked once, before up to MAX_POLLS pops.
StartPops ==
    /\ writer.at = "loop"
    /\ isActive
    /\ mainQueue > 0 \/ Reserved
    /\ writer' = [writer EXCEPT !.at = "main"]
    /\ UNCHANGED <<queueVars, symbolVars, threadIdToInformation, sessionVars,
                   prometheusVars, sessions>>

\* pop, first the main ring.
PopMain ==
    /\ writer.at = "main"
    /\ mainQueue > 0
    /\ mainQueue' = mainQueue - 1
    /\ IF inPrometheusMode THEN UNCHANGED sessionVars
       ELSE recordNotification
    /\ writer' = [writer EXCEPT !.at = "stack", !.read = TRUE]
    /\ UNCHANGED <<handler, input, output, slots, frame_buffer_, captured,
                   symbolVars, threadIdToInformation, prometheusVars, sessions>>

MainEmpty ==
    /\ writer.at = "main"
    /\ mainQueue = 0
    /\ writer' = [writer EXCEPT !.at = "stack"]
    /\ UNCHANGED <<queueVars, symbolVars, threadIdToInformation, sessionVars,
                   prometheusVars, sessions>>

\* then the stack ring: LogWriter::recordStackTrace, step by step,
RecordForCollector ==
    /\ ~inPrometheusMode
    /\ recordStackTrace
    /\ UNCHANGED <<prometheusVars, sessions>>

\* or the exporter's, in one step as it waits for nothing.
RecordForPrometheus ==
    /\ inPrometheusMode
    /\ writer.at = "stack" /\ Ready
    /\ recordTrace(output)
    /\ FinishRead
    /\ writer' = [writer EXCEPT !.at = "popped", !.read = TRUE]
    /\ UNCHANGED <<mainQueue, threadIdToInformation, sessionVars, scraped, sessions>>

StackEmpty ==
    /\ writer.at = "stack"
    /\ ~Reserved
    /\ writer' = [writer EXCEPT !.at = "popped"]
    /\ UNCHANGED <<queueVars, symbolVars, threadIdToInformation, sessionVars,
                   prometheusVars, sessions>>

\* Another pop, if this one found something and there were not too many.
NextPop ==
    /\ writer.at = "popped"
    /\ writer' = IF writer.read /\ writer.polls + 1 < MAX_POLLS
                   THEN [writer EXCEPT !.at = "main", !.polls = @ + 1, !.read = FALSE]
                   ELSE Loop
    /\ UNCHANGED <<queueVars, symbolVars, threadIdToInformation, sessionVars,
                   prometheusVars, sessions>>

\* A scrape, in the loop's poll.
ScrapeInPoll ==
    /\ inPrometheusMode
    /\ writer.at = "loop"
    /\ Scrape
    /\ UNCHANGED <<writerVars, sessionVars, sessions>>

\* Samples in the ring and in the exporter's tree, for the bound.
Samples == Cardinality({s \in Slots : slots[s].committed})
           + Cardinality({t \in Threads : handler[t].at # "idle"})
           + FoldFunctionOnSet(LAMBDA c, n : n + c[SIGPROF] + c[SIGALRM], 0,
                               recorded, DOMAIN recorded)

\* A signal interrupts a thread, and its handler runs.
Signalled(t) ==
    /\ \/ /\ inPrometheusMode => Samples < MaxSamples
          /\ \E is_error \in BOOLEAN : handle(t, is_error)
       \/ Handler(t)
    /\ UNCHANGED <<symbolVars, writerVars, sessionVars, prometheusVars, sessions>>

-----------------------------------------------------------------------------
Processor ==
    \/ StartPops \/ PopMain \/ MainEmpty \/ RecordForCollector \/ RecordForPrometheus
    \/ StackEmpty \/ NextPop

Next ==
    \/ \E t \in Threads : Signalled(t)
    \/ onSocketConnect \/ onFirstSampleRate \/ onDisconnect
    \/ ScrapeInPoll
    \/ Processor

Spec == Init /\ [][Next]_vars

==============================================================================
