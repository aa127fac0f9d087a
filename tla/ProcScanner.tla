----------------------------- MODULE ProcScanner -----------------------------
(***************************************************************************)
(* lib/proc_scanner.cpp: the metrics thread lists /proc/self/task and      *)
(* gives every application thread a SIGALRM timer of its own; the          *)
(* processor thread tells it the interval through one atomic word.         *)
(*                                                                         *)
(* Words wrap at Word (2^64 in the code, so NOT_SCANNING is ULONG_MAX).    *)
(* The kernel is modelled as far as the scanner sees it: the threads of    *)
(* the process, and its timers, each bound to one thread for its life.     *)
(***************************************************************************)
EXTENDS Integers, FiniteSets

CONSTANTS
    Tids,          \* thread ids
    NoTid,         \* no thread: the id 0, and the target of a timer whose
                   \* thread has ended
    TimerIds,      \* how many timers the kernel grants the process
    NoTimer,       \* a timer id that is not in use
    Word,          \* 2^64
    MS_TO_NS,      \* nanoseconds in a millisecond
    Second,        \* nanoseconds in a second: tv_nsec must be less
    ElapsedRates   \* the intervals the collector may ask for, in ms

ASSUME ScannerAssumption ==
    /\ NoTid \notin Tids
    /\ Word \in Nat /\ MS_TO_NS \in Nat /\ Second \in Nat
    /\ 1 < MS_TO_NS /\ MS_TO_NS < Second /\ 2 * Second <= Word
    /\ ElapsedRates \subseteq Nat \ {0}
    /\ NoTimer \notin [tid : Tids \cup {NoTid}, interval : 0 .. Word - 1]

NOT_SCANNING == Word - 1

Roles == {"metrics", "processor"}

VARIABLES
    threads,       \* kernel: the application's threads
    agent,         \* kernel: the thread of each of the agent's roles
    id,            \* metrics_thread_id_, processor_thread_id_
    started,       \* metrics_thread_started_, processor_thread_started_
    atomicInterval,   \* atomic_interval_in_ns_
    localInterval,    \* local_interval_in_ns_
    lastScan,      \* last_scan_threads_
    current,       \* currentThreads, a local of scan_threads
    entries,       \* entries of /proc/self/task that readdir has yet to return
    timer,         \* timers_ and the kernel's timers: thread and interval (0: disarmed)
    mpc            \* where the metrics thread is: "sleep" or "readdir"

scannerVars == <<id, started, atomicInterval, localInterval, lastScan, current, entries, timer, mpc>>
kernelVars == <<threads, agent>>

ScannerType ==
    /\ threads \subseteq Tids
    /\ agent \in [Roles -> Tids \cup {NoTid}]
    /\ id \in [Roles -> Tids \cup {NoTid}]
    /\ started \in [Roles -> BOOLEAN]
    /\ atomicInterval \in 0 .. Word - 1
    /\ localInterval \in 0 .. Word - 1
    /\ lastScan \subseteq Tids
    /\ current \subseteq Tids
    /\ entries \subseteq Tids
    /\ timer \in [TimerIds -> [tid : Tids \cup {NoTid}, interval : 0 .. Word - 1] \cup {NoTimer}]
    /\ mpc \in {"sleep", "readdir"}

ScannerInit ==
    /\ threads \in {{t} : t \in Tids}
    /\ agent = [r \in Roles |-> NoTid]
    /\ id = [r \in Roles |-> NoTid]
    /\ started = [r \in Roles |-> FALSE]
    /\ atomicInterval = NOT_SCANNING
    /\ localInterval = NOT_SCANNING
    /\ lastScan = {}
    /\ current = {}
    /\ entries = {}
    /\ timer = [i \in TimerIds |-> NoTimer]
    /\ mpc = "sleep"

\* The threads of the process.
Live == threads \cup ({agent[r] : r \in Roles} \ {NoTid})

-----------------------------------------------------------------------------
(* The processor thread *)

\* atomic_interval_in_ns_.load() != NOT_SCANNING
is_scanning_threads == atomicInterval # NOT_SCANNING

\* Mutant: an unbounded multiplication.
ToNanosWide(ms) == ms * MS_TO_NS

\* The multiplication is done in 64 bits.
ToNanos(ms) == (ms * MS_TO_NS) % Word

update_scanning_threads_interval(ms) == atomicInterval' = ToNanos(ms)

stop_scanning_threads == update_scanning_threads_interval(NOT_SCANNING)

\* on_processor_thread_start and on_metrics_thread_start store the id, then
\* the flag that publishes it.
StoreId(r) ==
    /\ agent[r] # NoTid
    /\ id[r] = NoTid
    /\ id' = [id EXCEPT ![r] = agent[r]]
    /\ UNCHANGED <<kernelVars, started, atomicInterval, localInterval, lastScan, current, entries, timer, mpc>>

\* Mutant: the flag is stored whether or not the id has been.
StoreStartedEarly(r) ==
    /\ agent[r] # NoTid
    /\ ~started[r]
    /\ started' = [started EXCEPT ![r] = TRUE]
    /\ UNCHANGED <<kernelVars, id, atomicInterval, localInterval, lastScan, current, entries, timer, mpc>>

StoreStarted(r) ==
    /\ agent[r] # NoTid
    /\ id[r] # NoTid
    /\ ~started[r]
    /\ started' = [started EXCEPT ![r] = TRUE]
    /\ UNCHANGED <<kernelVars, id, atomicInterval, localInterval, lastScan, current, entries, timer, mpc>>

-----------------------------------------------------------------------------
(* The metrics thread *)

\* timer_settime with tv_sec 0 refuses what is not less than a second; the
\* interval is a long there, so the upper half of the words is negative.
Settable(ns) == ns < Second

\* set_timer_interval on a timer: refused, the timer keeps its interval.
SetInterval(tm, ns) == IF Settable(ns) THEN [tm EXCEPT !.interval = ns] ELSE tm

\* start_timer, on the timers as they are.  timer_create fails for a thread
\* that has ended and when the kernel grants no more timers: the error is
\* logged and the thread goes without.
start_timer(tid, ns, timers) ==
    LET free == {i \in TimerIds : timers[i] = NoTimer}
    IN  IF tid \notin Live \/ free = {} THEN timers
        ELSE [timers EXCEPT ![CHOOSE i \in free : TRUE] =
                 SetInterval([tid |-> tid, interval |-> 0], ns)]

\* start_profiling_thread for every thread of last_scan_threads_, in whatever
\* order the set lists them: each one that is alive gets a timer of its own,
\* while there are any.
StartLastScan(ns) ==
    LET free == {i \in TimerIds : timer[i] = NoTimer}
        wanted == lastScan \cap Live
    IN  \E who \in [free -> wanted \cup {NoTid}] :
            /\ \A i, j \in free : who[i] = who[j] /\ who[i] # NoTid => i = j
            /\ NoTid \in {who[i] : i \in free} => wanted \subseteq {who[i] : i \in free}
            /\ timer' = [i \in TimerIds |->
                   IF timer[i] = NoTimer /\ who[i] # NoTid
                   THEN SetInterval([tid |-> who[i], interval |-> 0], ns) ELSE timer[i]]

\* Mutant: an interval that changes is used for new threads only.
IntervalForNewThreads(ns) == timer' = timer

\* on_interval_change: stop, start, or change the timers there are.
on_interval_change(ns) ==
    IF ns = NOT_SCANNING THEN timer' = [i \in TimerIds |-> NoTimer]
    ELSE IF localInterval = NOT_SCANNING THEN StartLastScan(ns)
         ELSE timer' = [i \in TimerIds |->
                  IF timer[i] = NoTimer THEN NoTimer ELSE SetInterval(timer[i], ns)]

\* Mutant: the tasks are listed only when the interval has changed.
ScanOnChange ==
    /\ mpc = "sleep"
    /\ agent["metrics"] # NoTid
    /\ \A r \in Roles : started[r]
    /\ localInterval' = atomicInterval
    /\ IF atomicInterval = localInterval THEN timer' = timer
       ELSE on_interval_change(atomicInterval)
    /\ IF localInterval' = NOT_SCANNING \/ localInterval' = localInterval
       THEN UNCHANGED <<mpc, entries, current>>
       ELSE mpc' = "readdir" /\ entries' = Live /\ current' = {}
    /\ UNCHANGED <<kernelVars, id, started, atomicInterval, lastScan>>

\* scan_threads up to opendir: nothing before both threads are known; take
\* up the interval; then go through the tasks, unless not scanning.
scan_threads ==
    /\ mpc = "sleep"
    /\ agent["metrics"] # NoTid
    /\ \A r \in Roles : started[r]
    /\ localInterval' = atomicInterval
    /\ IF atomicInterval = localInterval THEN timer' = timer
       ELSE on_interval_change(atomicInterval)
    /\ IF localInterval' = NOT_SCANNING
       THEN UNCHANGED <<mpc, entries, current>>
       ELSE mpc' = "readdir" /\ entries' = Live /\ current' = {}
    /\ UNCHANGED <<kernelVars, id, started, atomicInterval, lastScan>>

\* Mutant: a thread is given a timer whether or not the last scan saw it.
RepeatEntry(t) ==
    /\ mpc = "readdir"
    /\ t \in entries
    /\ entries' = entries \ {t}
    /\ IF t \in {id[r] : r \in Roles}
       THEN UNCHANGED <<current, timer>>
       ELSE /\ current' = current \cup {t}
            /\ timer' = start_timer(t, localInterval, timer)
    /\ UNCHANGED <<kernelVars, id, started, atomicInterval, localInterval, lastScan, mpc>>

\* readdir returns one of the entries, whose thread may have ended by now.
\* A thread that starts meanwhile waits for the next scan.
VisitEntry(t) ==
    /\ mpc = "readdir"
    /\ t \in entries
    /\ entries' = entries \ {t}
    /\ IF t \in {id[r] : r \in Roles}
       THEN UNCHANGED <<current, timer>>
       ELSE /\ current' = current \cup {t}
            /\ timer' = IF t \in lastScan THEN timer ELSE start_timer(t, localInterval, timer)
    /\ UNCHANGED <<kernelVars, id, started, atomicInterval, localInterval, lastScan, mpc>>

EndScan ==
    /\ mpc = "readdir"
    /\ entries = {}
    /\ lastScan' = current
    /\ current' = {}
    /\ mpc' = "sleep"
    /\ UNCHANGED <<kernelVars, id, started, atomicInterval, localInterval, entries, timer>>

-----------------------------------------------------------------------------
(* reset_scan_threads, in the child of a fork: it has the forking thread   *)
(* only, and none of its parent's timers.                                  *)
reset_scan_threads ==
    /\ id' = [r \in Roles |-> NoTid]
    /\ started' = [r \in Roles |-> FALSE]
    /\ atomicInterval' = NOT_SCANNING
    /\ localInterval' = NOT_SCANNING
    /\ lastScan' = {}
    /\ timer' = [i \in TimerIds |-> NoTimer]

==============================================================================
