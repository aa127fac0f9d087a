--------------------------- MODULE Sampling_proofs ---------------------------
(***************************************************************************)
(* Proofs about who is sampled, for every number of threads and timers and *)
(* every rate: no thread has two timers, the agent's own threads have      *)
(* none, and the threads a scan has seen are sampled at the interval the   *)
(* scanner has taken up.                                                   *)
(***************************************************************************)
EXTENDS Sampling, FiniteSetTheorems, TLAPS

Intervals == 0 .. Word - 1
TimerRecords == [tid : Tids \cup {NoTid}, interval : Intervals]

-----------------------------------------------------------------------------
(* Lemmas about the timers *)

\* What the constants give.
LEMMA Constants ==
    /\ Word \in Nat /\ Word > 0 /\ 0 \in Intervals
    /\ NOT_SCANNING \in Intervals /\ ~Settable(NOT_SCANNING)
    /\ NoTimer \notin TimerRecords
    /\ NoTid \notin Tids
  BY ScannerAssumption DEF NOT_SCANNING, Settable, TimerRecords, Intervals

\* A product of milliseconds stays a word.
LEMMA ToNanosType == \A ms \in Nat : ToNanos(ms) \in Intervals
  <1>1. \A a \in Nat : \A b \in Nat : b > 0 => a % b \in 0 .. b - 1
    OBVIOUS
  <1>2. \A ms \in Nat : ms * MS_TO_NS \in Nat
    BY ScannerAssumption
  <1>3. QED
    BY <1>1, <1>2, Constants DEF ToNanos, Intervals

\* set_timer_interval keeps the timer's thread, and sets an interval that
\* can be set.
LEMMA SetIntervalEffect ==
    ASSUME NEW tm \in TimerRecords, NEW ns \in Intervals
    PROVE  /\ SetInterval(tm, ns) \in TimerRecords
           /\ SetInterval(tm, ns) # NoTimer
           /\ SetInterval(tm, ns).tid = tm.tid
           /\ Settable(ns) => SetInterval(tm, ns).interval = ns
  <1>1. [tm EXCEPT !.interval = ns] \in TimerRecords
    BY DEF TimerRecords
  <1>2. [tm EXCEPT !.interval = ns].tid = tm.tid
    BY DEF TimerRecords
  <1>3. [tm EXCEPT !.interval = ns].interval = ns
    BY DEF TimerRecords
  <1>4. QED
    BY <1>1, <1>2, <1>3, Constants DEF SetInterval

\* A timer just created for thread t.
NewTimer(t, ns) == SetInterval([tid |-> t, interval |-> 0], ns)

LEMMA NewTimerEffect ==
    ASSUME NEW t \in Tids, NEW ns \in Intervals
    PROVE  /\ NewTimer(t, ns) \in TimerRecords
           /\ NewTimer(t, ns) # NoTimer
           /\ NewTimer(t, ns).tid = t
           /\ Settable(ns) => NewTimer(t, ns).interval = ns
  <1>1. [tid |-> t, interval |-> 0] \in TimerRecords
    BY Constants DEF TimerRecords
  <1>2. [tid |-> t, interval |-> 0].tid = t
    OBVIOUS
  <1>3. QED
    BY <1>1, <1>2, SetIntervalEffect DEF NewTimer

\* start_timer uses a timer that was free, unless the thread has ended or
\* there is none.
LEMMA StartTimerEffect ==
    ASSUME NEW t \in Tids, NEW ns \in Intervals
    PROVE  \/ /\ start_timer(t, ns, timer) = timer
              /\ t \in Live => ~TimersLeft
           \/ \E i \in TimerIds :
                 /\ timer[i] = NoTimer
                 /\ t \in Live
                 /\ start_timer(t, ns, timer) = [timer EXCEPT ![i] = NewTimer(t, ns)]
  BY DEF start_timer, NewTimer, TimersLeft

-----------------------------------------------------------------------------
(* Types *)

LEMMA SignalTypes == TypeOK /\ [Next]_vars => SignalType'
  <1> SUFFICES ASSUME TypeOK, [Next]_vars PROVE SignalType'
    OBVIOUS
  <1> USE DEF TypeOK, SignalType
  <1>1. CASE \E p \in ProcessRates \cup {0}, e \in ElapsedRates \cup {0}, po, eo \in BOOLEAN :
                 startProfiling(p, e, po, eo)
    BY <1>1 DEF startProfiling, updateProcessInterval, stopProcessProfiling,
       signalVars, NOT_PROFILING
  <1>2. CASE onEnd
    BY <1>2 DEF onEnd, stopProcessProfiling, updateProcessInterval, NOT_PROFILING
  <1>3. CASE \E t \in Tids : on_fork(t)
    BY <1>3 DEF on_fork, NOT_PROFILING
  <1>4. CASE ThreadStep \/ StartStep \/ ScanStep \/ UNCHANGED vars
    <2>1. UNCHANGED signalVars
      BY <1>4 DEF ThreadStep, ThreadStarts, ThreadEnds, StartStep,
         StartAgentThread, Kept, ScanStep, vars
    <2>2. QED
      BY <2>1 DEF signalVars
  <1>5. QED
    BY <1>1, <1>2, <1>3, <1>4 DEF Next, ProcessorStep

LEMMA AskedTypes == TypeOK /\ [Next]_vars =>
                        processOn' \in BOOLEAN /\ elapsedOn' \in BOOLEAN /\ forked' \in BOOLEAN
  <1> SUFFICES ASSUME TypeOK, [Next]_vars
               PROVE  processOn' \in BOOLEAN /\ elapsedOn' \in BOOLEAN /\ forked' \in BOOLEAN
    OBVIOUS
  <1> USE DEF TypeOK
  <1>1. CASE \E p \in ProcessRates \cup {0}, e \in ElapsedRates \cup {0}, po, eo \in BOOLEAN :
                 startProfiling(p, e, po, eo)
    BY <1>1 DEF startProfiling
  <1>2. CASE onEnd
    BY <1>2 DEF onEnd
  <1>3. CASE \E t \in Tids : on_fork(t)
    BY <1>3 DEF on_fork
  <1>4. CASE ThreadStep \/ StartStep \/ ScanStep \/ UNCHANGED vars
    BY <1>4 DEF ThreadStep, ThreadStarts, ThreadEnds, StartStep,
       StartAgentThread, Kept, ScanStep, asked, vars
  <1>5. QED
    BY <1>1, <1>2, <1>3, <1>4 DEF Next, ProcessorStep

\* The timers keep their type.
LEMMA TimerType == TypeOK /\ [Next]_vars =>
                       timer' \in [TimerIds -> TimerRecords \cup {NoTimer}]
  <1> SUFFICES ASSUME TypeOK, [Next]_vars
               PROVE  timer' \in [TimerIds -> TimerRecords \cup {NoTimer}]
    OBVIOUS
  <1>t. timer \in [TimerIds -> TimerRecords \cup {NoTimer}]
    BY DEF TypeOK, ScannerType, TimerRecords, Intervals
  <1>n. atomicInterval \in Intervals /\ localInterval \in Intervals
    BY DEF TypeOK, ScannerType, Intervals
  <1>1. CASE \E t \in Tids : ThreadEnds(t)
    <2>1. PICK t \in Tids : ThreadEnds(t)
      BY <1>1
    <2>2. \A tm \in TimerRecords : [tm EXCEPT !.tid = NoTid] \in TimerRecords
      BY DEF TimerRecords
    <2>3. \A i \in TimerIds : timer[i] # NoTimer => timer[i] \in TimerRecords
      BY <1>t
    <2>4. QED
      BY <2>1, <2>2, <2>3 DEF ThreadEnds
  <1>2. CASE scan_threads
    <2>1. CASE atomicInterval = localInterval
      BY <1>t, <1>2, <2>1 DEF scan_threads
    <2>2. CASE on_interval_change(atomicInterval)
      <3>1. CASE atomicInterval = NOT_SCANNING
        BY <2>2, <3>1 DEF on_interval_change
      <3>2. CASE atomicInterval # NOT_SCANNING /\ localInterval = NOT_SCANNING
        <4>1. StartLastScan(atomicInterval)
          BY <2>2, <3>2 DEF on_interval_change
        <4>2. PICK who \in [{i \in TimerIds : timer[i] = NoTimer} -> (lastScan \cap Live) \cup {NoTid}] :
                  timer' = [i \in TimerIds |->
                     IF timer[i] = NoTimer /\ who[i] # NoTid
                     THEN NewTimer(who[i], atomicInterval) ELSE timer[i]]
          BY <4>1 DEF StartLastScan, NewTimer
        <4>3. \A i \in TimerIds : timer[i] = NoTimer /\ who[i] # NoTid => who[i] \in Tids
          BY DEF TypeOK, ScannerType
        <4>4. \A i \in TimerIds : timer[i] = NoTimer /\ who[i] # NoTid =>
                  NewTimer(who[i], atomicInterval) \in TimerRecords
          BY <1>n, <4>3, NewTimerEffect
        <4>5. QED
          BY <1>t, <4>2, <4>4
      <3>3. CASE atomicInterval # NOT_SCANNING /\ localInterval # NOT_SCANNING
        <4>1. timer' = [i \in TimerIds |->
                  IF timer[i] = NoTimer THEN NoTimer ELSE SetInterval(timer[i], atomicInterval)]
          BY <2>2, <3>3 DEF on_interval_change
        <4>2. \A i \in TimerIds : timer[i] # NoTimer =>
                  SetInterval(timer[i], atomicInterval) \in TimerRecords
          BY <1>n, <1>t, SetIntervalEffect
        <4>3. QED
          BY <4>1, <4>2
      <3>4. QED
        BY <3>1, <3>2, <3>3
    <2>3. QED
      BY <1>2, <2>1, <2>2 DEF scan_threads
  <1>3. CASE \E t \in Tids : VisitEntry(t)
    <2>1. PICK t \in Tids : VisitEntry(t)
      BY <1>3
    <2>2. timer' = timer \/ timer' = start_timer(t, localInterval, timer)
      BY <2>1 DEF VisitEntry
    <2>3. CASE timer' = start_timer(t, localInterval, timer)
      <3>1. NewTimer(t, localInterval) \in TimerRecords
        BY <1>n, NewTimerEffect
      <3>2. \/ start_timer(t, localInterval, timer) = timer
            \/ \E i \in TimerIds :
                  start_timer(t, localInterval, timer) =
                      [timer EXCEPT ![i] = NewTimer(t, localInterval)]
        BY <1>n, StartTimerEffect
      <3>3. QED
        BY <1>t, <2>3, <3>1, <3>2
    <2>4. QED
      BY <1>t, <2>2, <2>3
  <1>4. CASE \E t \in Tids : on_fork(t)
    BY <1>4 DEF on_fork, reset_scan_threads
  <1>5. CASE \/ \E t \in Tids : ThreadStarts(t)
             \/ StartStep \/ ProcessorStep \/ EndScan \/ UNCHANGED vars
    <2>1. timer' = timer
      BY <1>5 DEF ThreadStarts, StartStep, StartAgentThread, StoreId,
         StoreStarted, ProcessorStep, startProfiling, onEnd, EndScan, scannerVars, vars
    <2>2. QED
      BY <1>t, <2>1
  <1>6. QED
    BY <1>1, <1>2, <1>3, <1>4, <1>5 DEF Next, ThreadStep, ScanStep

\* So do the other variables of the scanner and the kernel's threads.
LEMMA ThreadsType == TypeOK => Live \subseteq Tids
  BY DEF TypeOK, ScannerType, Live

LEMMA ScannerTypes == TypeOK /\ [Next]_vars => ScannerType'
  <1> SUFFICES ASSUME TypeOK, [Next]_vars PROVE ScannerType'
    OBVIOUS
  <1>t. timer' \in [TimerIds -> [tid : Tids \cup {NoTid}, interval : 0 .. Word - 1] \cup {NoTimer}]
    BY TimerType DEF TimerRecords, Intervals
  <1>c. NOT_SCANNING \in 0 .. Word - 1 /\ NOT_SCANNING \in Nat
    BY Constants DEF Intervals
  <1> USE DEF TypeOK, ScannerType
  <1>1. CASE \E t \in Tids : ThreadStarts(t)
    BY <1>1, <1>t DEF ThreadStarts, scannerVars
  <1>2. CASE \E t \in Tids : ThreadEnds(t)
    BY <1>2, <1>t DEF ThreadEnds
  <1>3. CASE \E r \in Roles, t \in Tids : StartAgentThread(r, t)
    BY <1>3, <1>t DEF StartAgentThread, scannerVars
  <1>4. CASE \E r \in Roles : StoreId(r)
    BY <1>4, <1>t DEF StoreId, kernelVars
  <1>5. CASE \E r \in Roles : StoreStarted(r)
    BY <1>5, <1>t DEF StoreStarted, kernelVars
  <1>6. CASE \E p \in ProcessRates \cup {0}, e \in ElapsedRates \cup {0}, po, eo \in BOOLEAN :
                 startProfiling(p, e, po, eo)
    <2>1. PICK p \in ProcessRates \cup {0}, e \in ElapsedRates \cup {0}, po \in BOOLEAN, eo \in BOOLEAN :
              startProfiling(p, e, po, eo)
      BY <1>6
    <2>2. ToNanos(e) \in 0 .. Word - 1 /\ ToNanos(NOT_SCANNING) \in 0 .. Word - 1
      <3>1. e \in Nat
        BY ScannerAssumption
      <3>2. QED
        BY <3>1, <1>c, ToNanosType DEF Intervals
    <2>3. atomicInterval' \in 0 .. Word - 1
      BY <2>1, <2>2 DEF startProfiling, update_scanning_threads_interval, stop_scanning_threads
    <2>4. QED
      BY <2>1, <2>3, <1>t DEF startProfiling, kernelVars
  <1>7. CASE onEnd
    BY <1>7, <1>t DEF onEnd, scannerVars
  <1>8. CASE scan_threads
    BY <1>8, <1>t, ThreadsType DEF scan_threads, kernelVars
  <1>9. CASE \E t \in Tids : VisitEntry(t)
    BY <1>9, <1>t DEF VisitEntry, kernelVars
  <1>10. CASE EndScan
    BY <1>10, <1>t DEF EndScan, kernelVars
  <1>11. CASE \E t \in Tids : on_fork(t)
    BY <1>11, <1>t, <1>c DEF on_fork, reset_scan_threads
  <1>12. CASE UNCHANGED vars
    BY <1>12 DEF vars, scannerVars, kernelVars
  <1>13. QED
    BY <1>1, <1>2, <1>3, <1>4, <1>5, <1>6, <1>7, <1>8, <1>9, <1>10, <1>11, <1>12
       DEF Next, ThreadStep, StartStep, ProcessorStep, ScanStep

LEMMA InitType == Init => TypeOK
  <1> SUFFICES ASSUME Init PROVE TypeOK
    OBVIOUS
  <1>1. NOT_SCANNING \in 0 .. Word - 1
    BY Constants DEF Intervals
  <1>2. ScannerType
    BY <1>1 DEF Init, ScannerInit, ScannerType
  <1>3. QED
    BY <1>2 DEF Init, SignalInit, SignalType, TypeOK, NOT_PROFILING

LEMMA NextType == TypeOK /\ [Next]_vars => TypeOK'
  BY SignalTypes, ScannerTypes, AskedTypes DEF TypeOK

\* Every variable keeps its type: in particular the interval is always a
\* word, whatever the multiplication overflows to.
THEOREM TypeCorrect == Spec => []TypeOK
  BY InitType, NextType, PTL DEF Spec

-----------------------------------------------------------------------------
(* The inductive invariant *)

\* Timer i exists and its thread has not ended.
Held(i) == timer[i] # NoTimer /\ timer[i].tid # NoTid

\* The ids of the agent's threads that have stored theirs.
Ids == {id[r] : r \in Roles} \ {NoTid}

\* A started flag publishes the id of the thread that runs.  Nothing is
\* scanned before both ids are known, and what is scanned is not one of them.
AgentInv ==
    /\ \A r \in Roles : started[r] => id[r] # NoTid
    /\ \A r \in Roles : id[r] # NoTid /\ agent[r] # NoTid => agent[r] = id[r]
    /\ (\E r \in Roles : id[r] = NoTid) =>
           /\ lastScan = {}
           /\ mpc = "sleep"
           /\ \A i \in TimerIds : timer[i] = NoTimer
    /\ (lastScan \cup current) \cap Ids = {}

\* There are threads to visit only during a scan, each is visited once, and
\* there are timers only while scanning is on.
ScanInv ==
    /\ mpc = "sleep" => entries = {} /\ current = {}
    /\ entries \cap current = {}
    /\ localInterval = NOT_SCANNING =>
           mpc = "sleep" /\ \A i \in TimerIds : timer[i] = NoTimer

\* A thread with a timer is one of the application, it has only that one,
\* and the last scan or this one has seen it: while a scan goes on it has
\* been visited, or it will be and the last scan knew it.
TimerInv ==
    /\ \A i \in TimerIds : Held(i) =>
           /\ timer[i].tid \in threads \ Ids
           /\ mpc = "sleep" => timer[i].tid \in lastScan
           /\ mpc = "readdir" => timer[i].tid \in (lastScan \cap entries) \cup current
    /\ \A i, j \in TimerIds : Held(i) /\ Held(j) /\ timer[i].tid = timer[j].tid => i = j

\* An interval that can be set is the interval of every timer.
IntervalInv ==
    Settable(localInterval) =>
        \A i \in TimerIds : timer[i] # NoTimer => timer[i].interval = localInterval

IInv == TypeOK /\ AgentInv /\ ScanInv /\ TimerInv /\ IntervalInv

\* Where ids are not reused: a living thread that a scan has seen has a
\* timer, as long as there are timers left.
SeenInv ==
    localInterval # NOT_SCANNING /\ TimersLeft =>
        \A t \in (lastScan \cup current) \cap threads : TimersOf(t) # {}

-----------------------------------------------------------------------------
(* Taking up the interval *)

\* The timers when scan_threads has taken up the interval, in whichever way
\* that was done.
LEMMA TakeUpEffect ==
    ASSUME IInv, scan_threads
    PROVE  /\ \A i \in TimerIds : timer'[i] # NoTimer /\ timer'[i].tid # NoTid =>
                  timer'[i].tid \in (lastScan \cap threads) \ Ids
           /\ \A i, j \in TimerIds :
                  /\ timer'[i] # NoTimer /\ timer'[i].tid # NoTid
                  /\ timer'[j] # NoTimer /\ timer'[j].tid = timer'[i].tid
                  => i = j
           /\ Settable(atomicInterval) => \A i \in TimerIds :
                  timer'[i] # NoTimer => timer'[i].interval = atomicInterval
           /\ atomicInterval = NOT_SCANNING => \A i \in TimerIds : timer'[i] = NoTimer
           /\ SeenInv /\ atomicInterval # NOT_SCANNING
                  /\ (\E i \in TimerIds : timer'[i] = NoTimer) =>
                  \A t \in lastScan \cap threads :
                      \E i \in TimerIds : timer'[i] # NoTimer /\ timer'[i].tid = t
  <1>a. /\ timer \in [TimerIds -> TimerRecords \cup {NoTimer}]
        /\ atomicInterval \in Intervals /\ localInterval \in Intervals
        /\ lastScan \subseteq Tids /\ threads \subseteq Tids
    BY DEF IInv, TypeOK, ScannerType, TimerRecords, Intervals
  <1>b. mpc = "sleep" /\ \A r \in Roles : id[r] # NoTid
    BY DEF IInv, AgentInv, scan_threads
  <1>c. lastScan \cap Ids = {}
    BY DEF IInv, AgentInv
  <1>d. lastScan \cap Live \subseteq threads
    BY <1>b, <1>c DEF IInv, AgentInv, Live, Ids
  <1>e. \A i \in TimerIds : timer[i] # NoTimer /\ timer[i].tid # NoTid =>
            timer[i].tid \in (lastScan \cap threads) \ Ids
    BY <1>b DEF IInv, TimerInv, Held
  <1>f. \A i, j \in TimerIds :
            /\ timer[i] # NoTimer /\ timer[i].tid # NoTid
            /\ timer[j] # NoTimer /\ timer[j].tid = timer[i].tid
            => i = j
    BY DEF IInv, TimerInv, Held
  <1>g. SeenInv /\ localInterval # NOT_SCANNING
            /\ (\E i \in TimerIds : timer[i] = NoTimer) =>
            \A t \in lastScan \cap threads :
                \E i \in TimerIds : timer[i] # NoTimer /\ timer[i].tid = t
    BY DEF SeenInv, TimersOf, TimersLeft
  <1>1. CASE atomicInterval = localInterval
    <2>1. timer' = timer
      BY <1>1 DEF scan_threads
    <2>2. /\ Settable(atomicInterval) => \A i \in TimerIds :
                 timer[i] # NoTimer => timer[i].interval = atomicInterval
          /\ atomicInterval = NOT_SCANNING => \A i \in TimerIds : timer[i] = NoTimer
      BY <1>1 DEF IInv, IntervalInv, ScanInv
    <2>3. QED
      BY <1>1, <1>e, <1>f, <1>g, <2>1, <2>2
  <1>2. CASE atomicInterval # localInterval /\ atomicInterval = NOT_SCANNING
    <2>1. \A i \in TimerIds : timer'[i] = NoTimer
      BY <1>2 DEF scan_threads, on_interval_change
    <2>2. QED
      BY <1>2, <2>1, Constants
  <1>3. CASE /\ atomicInterval # localInterval /\ atomicInterval # NOT_SCANNING
             /\ localInterval = NOT_SCANNING
    <2> DEFINE free == {i \in TimerIds : timer[i] = NoTimer}
               wanted == lastScan \cap Live
    <2>1. StartLastScan(atomicInterval)
      BY <1>3 DEF scan_threads, on_interval_change
    <2>2. PICK who \in [free -> wanted \cup {NoTid}] :
              /\ \A i, j \in free : who[i] = who[j] /\ who[i] # NoTid => i = j
              /\ NoTid \in {who[i] : i \in free} => wanted \subseteq {who[i] : i \in free}
              /\ timer' = [i \in TimerIds |->
                     IF timer[i] = NoTimer /\ who[i] # NoTid
                     THEN NewTimer(who[i], atomicInterval) ELSE timer[i]]
      BY <2>1 DEF StartLastScan, NewTimer
    <2>3. \A i \in TimerIds : timer[i] = NoTimer
      BY <1>3 DEF IInv, ScanInv
    <2>4. free = TimerIds
      BY <2>3
    <2>5. \A i \in TimerIds : who[i] \in wanted \cup {NoTid}
      BY <2>4
    <2>6. \A i \in TimerIds : who[i] = NoTid => timer'[i] = NoTimer
      BY <2>2, <2>3
    <2>7. \A i \in TimerIds : who[i] # NoTid =>
              /\ timer'[i] # NoTimer /\ timer'[i].tid = who[i]
              /\ Settable(atomicInterval) => timer'[i].interval = atomicInterval
      <3>1. \A i \in TimerIds : who[i] # NoTid =>
                who[i] \in Tids /\ timer'[i] = NewTimer(who[i], atomicInterval)
        BY <1>a, <2>2, <2>3, <2>5
      <3>2. QED
        BY <1>a, <3>1, NewTimerEffect
    <2>8. wanted \subseteq (lastScan \cap threads) \ Ids /\ lastScan \cap threads \subseteq wanted
      BY <1>c, <1>d DEF Live
    <2>9. ASSUME \E i \in TimerIds : timer'[i] = NoTimer, NEW t \in wanted
          PROVE  \E i \in TimerIds : timer'[i] # NoTimer /\ timer'[i].tid = t
      <3>1. NoTid \in {who[i] : i \in free}
        BY <2>4, <2>7, <2>9
      <3>2. PICK i \in TimerIds : who[i] = t
        BY <2>2, <2>4, <2>9, <3>1
      <3>3. t # NoTid
        BY <1>a, <2>9, Constants
      <3>4. QED
        BY <2>7, <3>2, <3>3
    <2>10. \A i, j \in TimerIds : who[i] = who[j] /\ who[i] # NoTid => i = j
      BY <2>2, <2>4
    <2> HIDE DEF free, wanted
    <2>11. \A i \in TimerIds : timer'[i] # NoTimer /\ timer'[i].tid # NoTid =>
               timer'[i].tid \in (lastScan \cap threads) \ Ids
      BY <2>5, <2>6, <2>7, <2>8
    <2>12. \A i, j \in TimerIds :
               /\ timer'[i] # NoTimer /\ timer'[i].tid # NoTid
               /\ timer'[j] # NoTimer /\ timer'[j].tid = timer'[i].tid
               => i = j
      BY <2>6, <2>7, <2>10
    <2>13. Settable(atomicInterval) => \A i \in TimerIds :
               timer'[i] # NoTimer => timer'[i].interval = atomicInterval
      BY <2>6, <2>7
    <2>14. QED
      BY <1>3, <2>8, <2>9, <2>11, <2>12, <2>13
  <1>4. CASE /\ atomicInterval # localInterval /\ atomicInterval # NOT_SCANNING
             /\ localInterval # NOT_SCANNING
    <2>1. timer' = [i \in TimerIds |->
              IF timer[i] = NoTimer THEN NoTimer ELSE SetInterval(timer[i], atomicInterval)]
      BY <1>4 DEF scan_threads, on_interval_change
    <2>2. \A i \in TimerIds :
              /\ timer'[i] = NoTimer <=> timer[i] = NoTimer
              /\ timer[i] # NoTimer =>
                     /\ timer'[i].tid = timer[i].tid
                     /\ Settable(atomicInterval) => timer'[i].interval = atomicInterval
      <3>1. \A i \in TimerIds : timer[i] # NoTimer => timer[i] \in TimerRecords
        BY <1>a
      <3>2. QED
        BY <1>a, <2>1, <3>1, SetIntervalEffect
    <2>3. QED
      BY <1>4, <1>e, <1>f, <1>g, <2>2
  <1>5. QED
    BY <1>1, <1>2, <1>3, <1>4

-----------------------------------------------------------------------------
(* Every step keeps the invariant *)

\* The invariant without its types.
Parts == AgentInv /\ ScanInv /\ TimerInv /\ IntervalInv

\* scan_threads, up to the listing of the tasks.
LEMMA ScanKeeps ==
    ASSUME IInv, scan_threads
    PROVE  Parts' /\ (SeenInv => SeenInv')
  <1>a. mpc = "sleep" /\ current = {} /\ entries = {}
    BY DEF IInv, ScanInv, scan_threads
  <1>b. /\ localInterval' = atomicInterval
        /\ UNCHANGED <<threads, agent, id, started, lastScan>>
        /\ atomicInterval = NOT_SCANNING => UNCHANGED <<mpc, entries, current>>
        /\ atomicInterval # NOT_SCANNING =>
               mpc' = "readdir" /\ entries' = Live /\ current' = {}
    BY DEF scan_threads, kernelVars
  <1>c. \A r \in Roles : id[r] # NoTid
    BY DEF IInv, AgentInv, scan_threads
  <1>1. AgentInv'
    BY <1>a, <1>b, <1>c DEF IInv, AgentInv, Ids
  <1>2. ScanInv'
    BY <1>a, <1>b, TakeUpEffect DEF ScanInv
  <1>3. TimerInv'
    <2>1. \A i \in TimerIds : timer'[i] # NoTimer /\ timer'[i].tid # NoTid =>
              timer'[i].tid \in (lastScan \cap threads) \ Ids
      BY TakeUpEffect
    <2>2. \A i, j \in TimerIds :
              /\ timer'[i] # NoTimer /\ timer'[i].tid # NoTid
              /\ timer'[j] # NoTimer /\ timer'[j].tid = timer'[i].tid
              => i = j
      BY TakeUpEffect
    <2>3. atomicInterval = NOT_SCANNING => \A i \in TimerIds : timer'[i] = NoTimer
      BY TakeUpEffect
    <2>4. Ids' = Ids
      BY <1>b DEF Ids
    <2>5. threads \subseteq Live
      BY DEF Live
    <2>6. QED
      BY <1>a, <1>b, <2>1, <2>2, <2>3, <2>4, <2>5 DEF TimerInv, Held
  <1>4. IntervalInv'
    BY <1>b, TakeUpEffect DEF IntervalInv, Settable
  <1>5. ASSUME SeenInv PROVE SeenInv'
    <2>1. atomicInterval # NOT_SCANNING
             /\ (\E i \in TimerIds : timer'[i] = NoTimer) =>
             \A t \in lastScan \cap threads :
                 \E i \in TimerIds : timer'[i] # NoTimer /\ timer'[i].tid = t
      BY <1>5, TakeUpEffect
    <2>2. QED
      BY <1>a, <1>b, <2>1 DEF SeenInv, TimersLeft, TimersOf
  <1>6. QED
    BY <1>1, <1>2, <1>3, <1>4, <1>5 DEF Parts

\* One task of the listing.
LEMMA VisitKeeps ==
    ASSUME IInv, NEW t \in Tids, VisitEntry(t)
    PROVE  Parts' /\ (SeenInv => SeenInv')
  <1>a. /\ timer \in [TimerIds -> TimerRecords \cup {NoTimer}]
        /\ localInterval \in Intervals
    BY DEF IInv, TypeOK, ScannerType, TimerRecords, Intervals
  <1>b. /\ mpc = "readdir" /\ t \in entries /\ t \notin current
        /\ entries' = entries \ {t}
        /\ UNCHANGED <<threads, agent, id, started, lastScan, localInterval, mpc>>
    BY DEF VisitEntry, kernelVars, IInv, ScanInv
  <1>c. localInterval # NOT_SCANNING /\ \A r \in Roles : id[r] # NoTid
    BY <1>b DEF IInv, ScanInv, AgentInv
  <1>d. Ids' = Ids /\ Ids = {id[r] : r \in Roles}
    BY <1>b, <1>c DEF Ids
  <1>1. CASE t \in Ids
    <2>1. UNCHANGED <<current, timer>>
      BY <1>1, <1>d DEF VisitEntry
    <2>2. AgentInv' /\ ScanInv' /\ IntervalInv'
      BY <1>b, <1>c, <1>d, <2>1 DEF IInv, AgentInv, ScanInv, IntervalInv, Settable
    <2>3. TimerInv'
      BY <1>1, <1>b, <1>d, <2>1 DEF IInv, TimerInv, Held
    <2>4. SeenInv => SeenInv'
      BY <1>b, <2>1 DEF SeenInv, TimersLeft, TimersOf
    <2>5. QED
      BY <2>2, <2>3, <2>4 DEF Parts
  <1>2. CASE t \notin Ids /\ timer' = timer
    <2>1. current' = current \cup {t}
      BY <1>2, <1>d DEF VisitEntry
    <2>2. t \in lastScan \/ (t \in Live => ~TimersLeft)
      <3>1. CASE t \notin lastScan
        <4>1. timer = start_timer(t, localInterval, timer)
          BY <1>2, <1>d, <3>1 DEF VisitEntry
        <4>2. CASE \E i \in TimerIds :
                       /\ timer[i] = NoTimer
                       /\ timer = [timer EXCEPT ![i] = NewTimer(t, localInterval)]
          <5>1. NewTimer(t, localInterval) # NoTimer
            BY <1>a, NewTimerEffect
          <5>2. QED
            BY <1>a, <4>2, <5>1
        <4>3. QED
          BY <1>a, <4>1, <4>2, StartTimerEffect
      <3>2. QED
        BY <3>1
    <2>3. AgentInv' /\ ScanInv' /\ IntervalInv'
      BY <1>b, <1>c, <1>d, <1>2, <2>1 DEF IInv, AgentInv, ScanInv, IntervalInv, Settable
    <2>4. TimerInv'
      BY <1>b, <1>d, <1>2, <2>1 DEF IInv, TimerInv, Held
    <2>5. SeenInv => SeenInv'
      BY <1>b, <1>2, <2>1, <2>2 DEF SeenInv, TimersLeft, TimersOf, Live
    <2>6. QED
      BY <2>3, <2>4, <2>5 DEF Parts
  <1>3. CASE t \notin Ids /\ timer' # timer
    <2>1. /\ current' = current \cup {t} /\ t \notin lastScan
          /\ timer' = start_timer(t, localInterval, timer)
      BY <1>3, <1>d DEF VisitEntry
    <2>2. PICK n \in TimerIds :
              /\ timer[n] = NoTimer
              /\ t \in Live
              /\ timer' = [timer EXCEPT ![n] = NewTimer(t, localInterval)]
      BY <1>a, <1>3, <2>1, StartTimerEffect
    <2>3. /\ timer'[n] # NoTimer /\ timer'[n].tid = t
          /\ Settable(localInterval) => timer'[n].interval = localInterval
      BY <1>a, <2>2, NewTimerEffect
    <2>4. \A i \in TimerIds \ {n} : timer'[i] = timer[i]
      BY <1>a, <2>2
    <2>5. t \in threads
      BY <1>c, <1>d, <1>3, <2>2 DEF Live, IInv, AgentInv
    <2>6. \A i \in TimerIds \ {n} : Held(i) => timer[i].tid # t
      BY <1>b, <2>1 DEF IInv, TimerInv
    <2>7. AgentInv' /\ ScanInv'
      BY <1>b, <1>c, <1>d, <1>3, <2>1 DEF IInv, AgentInv, ScanInv
    <2>8. IntervalInv'
      BY <1>b, <2>3, <2>4 DEF IInv, IntervalInv, Settable
    <2>9. TimerInv'
      <3>1. ASSUME NEW i \in TimerIds, timer'[i] # NoTimer, timer'[i].tid # NoTid
            PROVE  /\ timer'[i].tid \in threads \ Ids
                   /\ timer'[i].tid \in (lastScan \cap entries') \cup current'
        <4>1. CASE i = n
          BY <1>3, <2>1, <2>3, <2>5, <4>1
        <4>2. CASE i # n
          <5>1. timer'[i] = timer[i] /\ Held(i)
            BY <2>4, <3>1, <4>2 DEF Held
          <5>2. timer[i].tid \in threads \ Ids /\ timer[i].tid \in (lastScan \cap entries) \cup current
            BY <1>b, <5>1 DEF IInv, TimerInv
          <5>3. QED
            BY <1>b, <2>1, <5>1, <5>2
        <4>3. QED
          BY <4>1, <4>2
      <3>2. ASSUME NEW i \in TimerIds, NEW j \in TimerIds,
                   timer'[i] # NoTimer, timer'[i].tid # NoTid,
                   timer'[j] # NoTimer, timer'[j].tid = timer'[i].tid
            PROVE  i = j
        BY <2>3, <2>4, <2>6, <3>2 DEF IInv, TimerInv, Held
      <3>3. QED
        BY <1>b, <1>d, <3>1, <3>2 DEF TimerInv, Held
    <2>10. ASSUME SeenInv PROVE SeenInv'
      <3>1. TimersLeft
        BY <2>2 DEF TimersLeft
      <3>2. \A u \in (lastScan \cup current) \cap threads :
                \E i \in TimerIds : timer[i] # NoTimer /\ timer[i].tid = u
        BY <1>c, <2>10, <3>1 DEF SeenInv, TimersOf
      <3>3. \A u \in (lastScan \cup current') \cap threads :
                \E i \in TimerIds : timer'[i] # NoTimer /\ timer'[i].tid = u
        BY <2>1, <2>2, <2>3, <2>4, <3>2
      <3>4. QED
        BY <1>b, <3>3 DEF SeenInv, TimersOf
    <2>11. QED
      BY <2>7, <2>8, <2>9, <2>10 DEF Parts
  <1>4. QED
    BY <1>1, <1>2, <1>3

\* The end of a scan.
LEMMA EndScanKeeps ==
    ASSUME IInv, EndScan
    PROVE  Parts' /\ (SeenInv => SeenInv')
  <1>a. /\ mpc = "readdir" /\ entries = {} /\ lastScan' = current
        /\ current' = {} /\ mpc' = "sleep"
        /\ UNCHANGED <<threads, agent, id, started, localInterval, entries, timer>>
    BY DEF EndScan, kernelVars
  <1>b. \A r \in Roles : id[r] # NoTid
    BY <1>a DEF IInv, AgentInv
  <1>1. AgentInv' /\ ScanInv' /\ IntervalInv'
    BY <1>a, <1>b DEF IInv, AgentInv, ScanInv, IntervalInv, Settable, Ids
  <1>2. TimerInv'
    BY <1>a DEF IInv, TimerInv, Held, Ids
  <1>3. SeenInv => SeenInv'
    BY <1>a DEF SeenInv, TimersLeft, TimersOf
  <1>4. QED
    BY <1>1, <1>2, <1>3 DEF Parts

\* The application's threads come and go.
LEMMA ThreadKeeps ==
    ASSUME IInv, ThreadStep
    PROVE  Parts' /\ (~TidReuse /\ SeenInv => SeenInv')
  <1>1. CASE \E t \in Tids : ThreadStarts(t)
    <2>1. PICK t \in Tids : ThreadStarts(t)
      BY <1>1
    <2>2. /\ ~Given(t) /\ threads' = threads \cup {t}
          /\ UNCHANGED <<agent, id, started, localInterval, lastScan, current, entries, timer, mpc>>
      BY <2>1 DEF ThreadStarts, scannerVars
    <2>3. AgentInv' /\ ScanInv' /\ IntervalInv'
      BY <2>2 DEF IInv, AgentInv, ScanInv, IntervalInv, Settable, Ids
    <2>4. TimerInv'
      BY <2>2 DEF IInv, TimerInv, Held, Ids
    <2>5. ~TidReuse /\ SeenInv => SeenInv'
      BY <2>2 DEF SeenInv, TimersLeft, TimersOf, Given
    <2>6. QED
      BY <2>3, <2>4, <2>5 DEF Parts
  <1>2. CASE \E t \in Tids : ThreadEnds(t)
    <2>1. PICK t \in Tids : ThreadEnds(t)
      BY <1>2
    <2>2. /\ threads' = threads \ {t}
          /\ UNCHANGED <<agent, id, started, localInterval, lastScan, current, entries, mpc>>
      BY <2>1 DEF ThreadEnds
    <2>3. timer \in [TimerIds -> TimerRecords \cup {NoTimer}]
      BY DEF IInv, TypeOK, ScannerType, TimerRecords, Intervals
    <2>4. \A tm \in TimerRecords :
              /\ [tm EXCEPT !.tid = NoTid] \in TimerRecords
              /\ [tm EXCEPT !.tid = NoTid].tid = NoTid
              /\ [tm EXCEPT !.tid = NoTid].interval = tm.interval
      BY DEF TimerRecords
    <2>5. \A i \in TimerIds :
              /\ timer'[i] = NoTimer <=> timer[i] = NoTimer
              /\ timer[i] # NoTimer =>
                     /\ timer'[i].interval = timer[i].interval
                     /\ timer[i].tid = t => timer'[i].tid = NoTid
                     /\ timer[i].tid # t => timer'[i].tid = timer[i].tid
      <3>1. \A i \in TimerIds : timer[i] # NoTimer => timer[i] \in TimerRecords
        BY <2>3
      <3>2. timer' = [i \in TimerIds |->
                IF timer[i] # NoTimer /\ timer[i].tid = t
                THEN [timer[i] EXCEPT !.tid = NoTid] ELSE timer[i]]
        BY <2>1 DEF ThreadEnds
      <3>3. QED
        BY <2>4, <3>1, <3>2, Constants
    <2>6. AgentInv' /\ ScanInv'
      BY <2>2, <2>5 DEF IInv, AgentInv, ScanInv, Ids
    <2>7. IntervalInv'
      BY <2>2, <2>5 DEF IInv, IntervalInv, Settable
    <2>8. TimerInv'
      <3>1. \A i \in TimerIds : timer'[i] # NoTimer /\ timer'[i].tid # NoTid =>
                Held(i) /\ timer'[i].tid = timer[i].tid /\ timer[i].tid # t
        BY <2>5 DEF Held
      <3>2. QED
        BY <2>2, <3>1 DEF IInv, TimerInv, Held, Ids
    <2>9. SeenInv => SeenInv'
      BY <2>2, <2>5 DEF SeenInv, TimersLeft, TimersOf
    <2>10. QED
      BY <2>6, <2>7, <2>8, <2>9 DEF Parts
  <1>3. QED
    BY <1>1, <1>2 DEF ThreadStep

\* The agent's threads start, and say so.
LEMMA StartKeeps ==
    ASSUME IInv, StartStep
    PROVE  Parts' /\ (SeenInv => SeenInv')
  <1>r. \A r \in Roles : agent[r] \in Tids \cup {NoTid}
    BY DEF IInv, TypeOK, ScannerType
  <1>f. agent \in [Roles -> Tids \cup {NoTid}] /\ id \in [Roles -> Tids \cup {NoTid}]
    BY DEF IInv, TypeOK, ScannerType
  <1>s. started \in [Roles -> BOOLEAN]
    BY DEF IInv, TypeOK, ScannerType
  <1>1. CASE \E r \in Roles, t \in Tids : StartAgentThread(r, t)
    <2>1. PICK r \in Roles, t \in Tids : StartAgentThread(r, t)
      BY <1>1
    <2>2. /\ id[r] = NoTid /\ agent' = [agent EXCEPT ![r] = t]
          /\ UNCHANGED <<threads, id, started, localInterval, lastScan, current, entries, timer, mpc>>
      BY <2>1 DEF StartAgentThread, scannerVars
    <2>3. AgentInv'
      BY <1>f, <2>2 DEF IInv, AgentInv, Ids
    <2>4. ScanInv' /\ IntervalInv'
      BY <2>2 DEF IInv, ScanInv, IntervalInv, Settable
    <2>5. TimerInv'
      BY <2>2 DEF IInv, TimerInv, Held, Ids
    <2>6. SeenInv => SeenInv'
      BY <2>2 DEF SeenInv, TimersLeft, TimersOf
    <2>7. QED
      BY <2>3, <2>4, <2>5, <2>6 DEF Parts
  <1>2. CASE \E r \in Roles : StoreId(r)
    <2>1. PICK r \in Roles : StoreId(r)
      BY <1>2
    <2>2. /\ id[r] = NoTid /\ agent[r] # NoTid /\ id' = [id EXCEPT ![r] = agent[r]]
          /\ UNCHANGED <<threads, agent, started, localInterval, lastScan, current, entries, timer, mpc>>
      BY <2>1 DEF StoreId, kernelVars
    <2>3. lastScan = {} /\ mpc = "sleep" /\ \A i \in TimerIds : timer[i] = NoTimer
      BY <2>2 DEF IInv, AgentInv
    <2>4. current = {} /\ entries = {}
      BY <2>3 DEF IInv, ScanInv
    <2>5. AgentInv'
      BY <1>f, <2>2, <2>3, <2>4 DEF IInv, AgentInv, Ids
    <2>6. ScanInv' /\ IntervalInv'
      BY <2>2 DEF IInv, ScanInv, IntervalInv, Settable
    <2>7. TimerInv'
      BY <2>2, <2>3 DEF TimerInv, Held
    <2>8. SeenInv'
      BY <2>2, <2>3, <2>4 DEF SeenInv
    <2>9. QED
      BY <2>5, <2>6, <2>7, <2>8 DEF Parts
  <1>3. CASE \E r \in Roles : StoreStarted(r)
    <2>1. PICK r \in Roles : StoreStarted(r)
      BY <1>3
    <2>2. /\ id[r] # NoTid /\ started' = [started EXCEPT ![r] = TRUE]
          /\ UNCHANGED <<threads, agent, id, localInterval, lastScan, current, entries, timer, mpc>>
      BY <2>1 DEF StoreStarted, kernelVars
    <2>3. AgentInv'
      BY <1>s, <2>2 DEF IInv, AgentInv, Ids
    <2>4. ScanInv' /\ IntervalInv'
      BY <2>2 DEF IInv, ScanInv, IntervalInv, Settable
    <2>5. TimerInv'
      BY <2>2 DEF IInv, TimerInv, Held, Ids
    <2>6. SeenInv => SeenInv'
      BY <2>2 DEF SeenInv, TimersLeft, TimersOf
    <2>7. QED
      BY <2>3, <2>4, <2>5, <2>6 DEF Parts
  <1>4. QED
    BY <1>1, <1>2, <1>3 DEF StartStep

\* The processor thread, the fork and a stutter.
LEMMA OthersKeep ==
    ASSUME IInv, ProcessorStep \/ (\E t \in Tids : on_fork(t)) \/ UNCHANGED vars
    PROVE  Parts' /\ (SeenInv => SeenInv')
  <1>f. agent \in [Roles -> Tids \cup {NoTid}]
    BY DEF IInv, TypeOK, ScannerType
  <1>1. CASE ProcessorStep \/ UNCHANGED vars
    <2>1. /\ UNCHANGED <<threads, id, started, localInterval, lastScan, current, entries, timer, mpc>>
          /\ agent' = agent \/ agent' = [agent EXCEPT !["processor"] = NoTid]
      BY <1>1 DEF ProcessorStep, startProfiling, onEnd, kernelVars, scannerVars, vars
    <2>2. AgentInv'
      BY <1>f, <2>1 DEF IInv, AgentInv, Ids, Roles
    <2>3. ScanInv' /\ IntervalInv'
      BY <2>1 DEF IInv, ScanInv, IntervalInv, Settable
    <2>4. TimerInv'
      BY <2>1 DEF IInv, TimerInv, Held, Ids
    <2>5. SeenInv => SeenInv'
      BY <2>1 DEF SeenInv, TimersLeft, TimersOf
    <2>6. QED
      BY <2>2, <2>3, <2>4, <2>5 DEF Parts
  <1>2. CASE \E t \in Tids : on_fork(t)
    <2>1. /\ id' = [r \in Roles |-> NoTid] /\ started' = [r \in Roles |-> FALSE]
          /\ lastScan' = {} /\ current' = {} /\ entries' = {} /\ mpc' = "sleep"
          /\ localInterval' = NOT_SCANNING
          /\ timer' = [i \in TimerIds |-> NoTimer]
      BY <1>2 DEF on_fork, reset_scan_threads
    <2>2. \A i \in TimerIds : timer'[i] = NoTimer
      BY <2>1
    <2>3. AgentInv'
      BY <2>1, <2>2 DEF AgentInv
    <2>4. ScanInv' /\ IntervalInv' /\ TimerInv'
      BY <2>1, <2>2 DEF ScanInv, IntervalInv, TimerInv, Held
    <2>5. SeenInv'
      BY <2>1 DEF SeenInv
    <2>6. QED
      BY <2>3, <2>4, <2>5 DEF Parts
  <1>3. QED
    BY <1>1, <1>2

LEMMA InitKeeps == Init => IInv /\ SeenInv
  <1> SUFFICES ASSUME Init PROVE IInv /\ SeenInv
    OBVIOUS
  <1>1. TypeOK
    BY InitType
  <1>2. \A i \in TimerIds : timer[i] = NoTimer
    BY DEF Init, ScannerInit
  <1>3. AgentInv /\ ScanInv /\ TimerInv /\ IntervalInv
    BY <1>2 DEF Init, ScannerInit, AgentInv, ScanInv, TimerInv, IntervalInv, Held
  <1>4. SeenInv
    BY DEF Init, ScannerInit, SeenInv
  <1>5. QED
    BY <1>1, <1>3, <1>4 DEF IInv

LEMMA NextKeeps == IInv /\ [Next]_vars => IInv'
  <1> SUFFICES ASSUME IInv, [Next]_vars PROVE IInv'
    OBVIOUS
  <1>1. TypeOK'
    BY NextType DEF IInv
  <1>2. Parts'
    BY ScanKeeps, VisitKeeps, EndScanKeeps, ThreadKeeps, StartKeeps, OthersKeep
       DEF Next, ScanStep
  <1>3. QED
    BY <1>1, <1>2 DEF IInv, Parts

LEMMA NextSeen == ~TidReuse /\ IInv /\ SeenInv /\ [Next]_vars => SeenInv'
  BY ScanKeeps, VisitKeeps, EndScanKeeps, ThreadKeeps, StartKeeps, OthersKeep
     DEF Next, ScanStep

LEMMA Inductive == Spec => []IInv
  BY InitKeeps, NextKeeps, PTL DEF Spec

-----------------------------------------------------------------------------
(* The theorems *)

\* No thread is ever sampled by two timers, however threads come and go
\* between and during scans, ids reused or not.
THEOREM OnceSafe == Spec => []SampledOnce
  <1>1. IInv => SampledOnce
    <2> SUFFICES ASSUME IInv, NEW t \in threads PROVE Cardinality(TimersOf(t)) <= 1
      BY DEF SampledOnce
    <2>1. t # NoTid
      BY Constants DEF IInv, TypeOK, ScannerType
    <2>2. \A i, j \in TimersOf(t) : i = j
      BY <2>1 DEF IInv, TimerInv, TimersOf, Held
    <2>3. CASE TimersOf(t) = {}
      BY <2>3, FS_EmptySet
    <2>4. CASE TimersOf(t) # {}
      <3>1. PICK i : TimersOf(t) = {i}
        BY <2>2, <2>4
      <3>2. Cardinality({i}) = 1
        BY FS_Singleton
      <3>3. QED
        BY <3>1, <3>2
    <2>5. QED
      BY <2>3, <2>4
  <1>2. QED
    BY <1>1, Inductive, PTL

\* The agent's own threads never have a timer, whichever of them starts
\* first, in a forked child too, ids reused or not.
THEOREM AgentSafe == Spec => []AgentNotSampled
  <1>1. IInv => AgentNotSampled
    <2> SUFFICES ASSUME IInv, NEW r \in Roles, agent[r] # NoTid,
                        NEW i \in TimersOf(agent[r])
                 PROVE  FALSE
      BY DEF AgentNotSampled
    <2>1. i \in TimerIds /\ Held(i) /\ timer[i].tid = agent[r]
      BY DEF TimersOf, Held
    <2>2. id[r] # NoTid
      BY <2>1 DEF IInv, AgentInv, Held
    <2>3. agent[r] \in Ids
      BY <2>2 DEF IInv, AgentInv, Ids
    <2>4. QED
      BY <2>1, <2>3 DEF IInv, TimerInv
  <1>2. QED
    BY <1>1, Inductive, PTL

\* Where the kernel does not reuse thread ids, every living thread that the
\* last scan has seen is sampled at the interval the scanner has taken up.
THEOREM SeenSafe == ~TidReuse => (Spec => []SeenThreadsSampled)
  <1> SUFFICES ASSUME ~TidReuse PROVE Spec => []SeenThreadsSampled
    OBVIOUS
  <1>1. IInv /\ SeenInv /\ [Next]_vars => SeenInv'
    BY NextSeen
  <1>2. IInv /\ SeenInv => SeenThreadsSampled
    <2> SUFFICES ASSUME IInv, SeenInv, Settable(localInterval), TimersLeft,
                        NEW t \in lastScan \cap threads
                 PROVE  SampledAt(t, localInterval)
      BY DEF SeenThreadsSampled
    <2>1. localInterval # NOT_SCANNING
      BY Constants
    <2>2. PICK i \in TimersOf(t) : TRUE
      BY <2>1 DEF SeenInv
    <2>3. timer[i].interval = localInterval
      BY DEF IInv, IntervalInv, TimersOf
    <2>4. QED
      BY <2>3 DEF SampledAt
  <1>3. QED
    BY <1>1, <1>2, InitKeeps, Inductive, PTL DEF Spec

==============================================================================
