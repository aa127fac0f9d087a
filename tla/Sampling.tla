------------------------------- MODULE Sampling -------------------------------
(***************************************************************************)
(* Who is sampled, and how often: the processor thread passes the          *)
(* collector's rates to SignalHandler and ProcScanner                      *)
(* (CollectorController::startProfiling), the metrics thread scans, the    *)
(* application starts and ends threads, and the process may fork.          *)
(***************************************************************************)
EXTENDS SignalHandler, ProcScanner

CONSTANTS
    MayFork,       \* TRUE: the program may fork, and the child is followed
    TidReuse       \* TRUE: an id the scanner remembers may be given again

ASSUME SamplingAssumption == MayFork \in BOOLEAN /\ TidReuse \in BOOLEAN

VARIABLES
    processOn,     \* history: this process was last asked to profile itself
    elapsedOn,     \* history: ... to profile its threads
    forked         \* this process is the child of a fork

asked == <<processOn, elapsedOn>>
vars == <<signalVars, kernelVars, scannerVars, asked, forked>>

\* The type of every variable.
TypeOK ==
    /\ SignalType
    /\ ScannerType
    /\ processOn \in BOOLEAN
    /\ elapsedOn \in BOOLEAN
    /\ forked \in BOOLEAN

Init ==
    /\ SignalInit
    /\ ScannerInit
    /\ processOn = FALSE
    /\ elapsedOn = FALSE
    /\ forked = FALSE

-----------------------------------------------------------------------------
(* The application *)

Given(t) == t \in Live \/ (~TidReuse /\ t \in lastScan \cup current \cup entries)

ThreadStarts(t) ==
    /\ ~Given(t)
    /\ threads' = threads \cup {t}
    /\ UNCHANGED <<agent, scannerVars, signalVars, asked, forked>>

\* A timer of a thread that ends stays, and signals nobody.
ThreadEnds(t) ==
    /\ t \in threads
    /\ threads # {t}
    /\ threads' = threads \ {t}
    /\ timer' = [i \in TimerIds |->
                    IF timer[i] # NoTimer /\ timer[i].tid = t
                    THEN [timer[i] EXCEPT !.tid = NoTid] ELSE timer[i]]
    /\ UNCHANGED <<agent, id, started, atomicInterval, localInterval, lastScan, current, entries, mpc>>
    /\ UNCHANGED <<signalVars, asked, forked>>

-----------------------------------------------------------------------------
(* The agent *)

\* Profiler::start, one pthread_create after the other.
StartAgentThread(r, t) ==
    /\ agent[r] = NoTid
    /\ id[r] = NoTid
    /\ ~Given(t)
    /\ r = "metrics" => agent["processor"] # NoTid
    /\ agent' = [agent EXCEPT ![r] = t]
    /\ UNCHANGED <<threads, scannerVars, signalVars, asked, forked>>

\* startProfiling, for any rates; 0 is DONT_CHANGE_SAMPLE_RATE.
startProfiling(processRate, elapsedRate, processOn_, elapsedOn_) ==
    /\ started["processor"]
    /\ agent["processor"] # NoTid
    /\ IF processOn_
       THEN IF processRate = 0 THEN UNCHANGED signalVars
            ELSE updateProcessInterval(processRate)
       ELSE IF isProcessProfiling THEN stopProcessProfiling ELSE UNCHANGED signalVars
    /\ IF elapsedOn_
       THEN IF elapsedRate = 0 THEN UNCHANGED atomicInterval
            ELSE update_scanning_threads_interval(elapsedRate)
       ELSE IF is_scanning_threads THEN stop_scanning_threads ELSE UNCHANGED atomicInterval
    /\ processOn' = (processOn_ /\ (processRate # 0 \/ processOn))
    /\ elapsedOn' = elapsedOn_
    /\ UNCHANGED <<kernelVars, id, started, localInterval, lastScan, current, entries, timer, mpc, forked>>

\* Processor::run ends: onEnd stops the process timer.
onEnd ==
    /\ started["processor"]
    /\ agent["processor"] # NoTid
    /\ agent' = [agent EXCEPT !["processor"] = NoTid]
    /\ stopProcessProfiling
    /\ processOn' = FALSE
    /\ UNCHANGED <<threads, scannerVars, elapsedOn, forked>>

\* Profiler::on_fork in the child, whose only thread is t: the kernel has
\* given it neither the interval timer nor the threads' timers of its
\* parent; the scanner is reset, the SignalHandler is not.
on_fork(t) ==
    /\ MayFork
    /\ ~forked
    /\ forked' = TRUE
    /\ threads' = {t}
    /\ agent' = [r \in Roles |-> NoTid]
    /\ itimer' = NOT_PROFILING
    /\ mpc' = "sleep"
    /\ entries' = {}
    /\ current' = {}
    /\ processOn' = FALSE
    /\ elapsedOn' = FALSE
    /\ reset_scan_threads
    /\ UNCHANGED <<currentProcessInterval, isProcessProfiling>>

-----------------------------------------------------------------------------
Kept == UNCHANGED <<signalVars, asked, forked>>

ThreadStep == \E t \in Tids : ThreadStarts(t) \/ ThreadEnds(t)

ScanStep == (scan_threads \/ EndScan \/ \E t \in Tids : VisitEntry(t)) /\ Kept

ProcessorStep ==
    \/ \E p \in ProcessRates \cup {0}, e \in ElapsedRates \cup {0}, po, eo \in BOOLEAN :
           startProfiling(p, e, po, eo)
    \/ onEnd

StartStep ==
    \/ \E r \in Roles, t \in Tids : StartAgentThread(r, t)
    \/ \E r \in Roles : (StoreId(r) \/ StoreStarted(r)) /\ Kept

Next ==
    \/ ThreadStep
    \/ StartStep
    \/ ProcessorStep
    \/ ScanStep
    \/ \E t \in Tids : on_fork(t)

Spec == Init /\ [][Next]_vars

\* Both of the agent's threads start, and the metrics thread keeps scanning.
FairSpec == Spec /\ WF_vars(StartStep) /\ WF_vars(ScanStep)

-----------------------------------------------------------------------------
(* Properties *)

\* The timers that signal thread t, and whether one is running at the
\* interval ns.
TimersOf(t) == {i \in TimerIds : timer[i] # NoTimer /\ timer[i].tid = t}
SampledAt(t, ns) == \E i \in TimersOf(t) : timer[i].interval = ns

\* The kernel has never refused a timer: one is still to be had.
TimersLeft == \E i \in TimerIds : timer[i] = NoTimer

\* Between scans every living thread the last scan saw is sampled at the
\* interval the scanner has taken up, if the kernel can run a timer at it:
\* old timers were changed, new threads were given one, and an interval
\* that could not be set before is set now (scan_threads,
\* on_interval_change, set_timer_interval).
SeenThreadsSampled ==
    mpc = "sleep" /\ Settable(localInterval) /\ TimersLeft =>
        \A t \in lastScan \cap threads : SampledAt(t, localInterval)

\* No thread has two timers: it would be sampled twice as often as asked
\* (scan_threads' last_scan_threads_ against timers_).
SampledOnce == \A t \in threads : Cardinality(TimersOf(t)) <= 1

\* The agent's own threads are never given a timer, whichever of the two
\* starts first, and again in a forked child (scan_threads' started flags).
AgentNotSampled == \A r \in Roles : agent[r] # NoTid => TimersOf(agent[r]) = {}

\* Once the scanner has taken up that it is to stop, no thread is sampled
\* any more (stop_scanning_threads; proc_scanner.cpp:103, "stop scanning,
\* disabled and delete existing timers").
StopEndsSampling ==
    ~elapsedOn /\ mpc = "sleep" /\ localInterval = atomicInterval =>
        \A t \in threads : \A i \in TimersOf(t) : timer[i].interval = 0

\* A process that is asked to profile itself has its interval timer running,
\* the child of a fork too (updateProcessInterval; profiler.cpp:255, "Reset
\* state then start").
ProfilingHasTimer == processOn => itimer # NOT_PROFILING

\* A thread that stays alive while scanning goes on at a settable interval
\* gets its timer (the duty cycle of Metrics::run calls scan_threads for
\* ever).
NewThreadsSampled ==
    \A t \in Tids :
        <>[](t \in threads /\ Settable(atomicInterval) /\ TimersLeft
             /\ \A r \in Roles : agent[r] # NoTid)
        => <>(TimersOf(t) # {})

==============================================================================
