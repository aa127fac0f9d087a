---------------------------- MODULE Metrics_proofs ----------------------------
(***************************************************************************)
(* Proofs about the metrics thread and the processor thread that enables   *)
(* and disables it, for every set of metrics and every size of the queue.  *)
(***************************************************************************)
EXTENDS Metrics, FiniteSetTheorems, TLAPS

\* The names are finite in number, and there is the duration's.
LEMMA NamesFinite == IsFiniteSet(Names) /\ Cardinality(Names) \in Nat \ {0}
  <1>1. IsFiniteSet(Names)
    BY MetricsAssumption, FS_AddElement DEF Names
  <1>2. Names # {}
    BY DEF Names
  <1>3. QED
    BY <1>1, <1>2, FS_CardinalityType, FS_EmptySet

\* A name that has no id is given one that is no larger than the number of
\* names (findOrCreateMetricId).
LEMMA FreshId ==
    ASSUME NEW n \in Names, ids[n] = NoId
    PROVE  Cardinality({m \in Names : ids[m] # NoId}) + 1 \in 1 .. Cardinality(Names)
  <1> DEFINE S == {m \in Names : ids[m] # NoId}
  <1>1. IsFiniteSet(Names \ {n}) /\ Cardinality(Names \ {n}) = Cardinality(Names) - 1
    BY NamesFinite, FS_RemoveElement
  <1>2. S \subseteq Names \ {n}
    OBVIOUS
  <1>3. IsFiniteSet(S) /\ Cardinality(S) <= Cardinality(Names \ {n})
    BY <1>1, <1>2, FS_Subset
  <1>4. Cardinality(S) \in Nat
    BY <1>3, FS_CardinalityType
  <1>5. QED
    BY <1>1, <1>3, <1>4, NamesFinite

\* The conjuncts of TypeOK: the flags, the ids, the control, the sets of
\* metrics and the queue.
FlagsType ==
    {enabled, mustSend, needsConst, cpuEmitted, ringEmitted, ringOn, more,
     polling, running, active, metricsOn, wantRing, inherited} \subseteq BOOLEAN
IdsType == ids \in [Names -> 0 .. Cardinality(Names)]
ControlType ==
    /\ mutex \in {"none", "metrics", "processor"}
    /\ mpc \in UnderLock \cup {"must", "insert", "push", "store", "lock", "window", "ended"}
    /\ ppc \in {"idle", "enable", "enabling", "disable", "disabling", "ended"}
SetsType ==
    /\ todo \subseteq Names /\ again \subseteq Names
    /\ batch \subseteq Names /\ published \subseteq Names
    /\ failed \subseteq Constants /\ retry \subseteq Constants
QueueType == queued \in 0 .. QueueSize

\* They say what TypeOK says, in this state and in the next.
LEMMA TypeParts ==
    /\ TypeOK <=> FlagsType /\ IdsType /\ ControlType /\ SetsType /\ QueueType
    /\ TypeOK' <=> FlagsType' /\ IdsType' /\ ControlType' /\ SetsType' /\ QueueType'
  BY Zenon DEF TypeOK, FlagsType, IdsType, ControlType, SetsType, QueueType

\* Every step keeps the flags Boolean.
LEMMA NextFlags == FlagsType /\ [Next]_vars => FlagsType'
  BY DEF FlagsType, Next, MetricsStep, vars, flags, readers, recording, processor, process,
     CheckRunning, InsertDuration, PushDuration, StoreMust, LockEnabled,
     LockDisabled, RecordEntry, Attempt, PushSamples, ReadRing, CheckComplete,
     PollAgain, Overrun, sendDuration, onSampleRate, onDisconnect, Pop,
     LockReaders, enable, disable, Disposed, OtherPush, Exception, Thrown,
     onMetricsExit, onProcessorExit, on_fork

\* Every step leaves the mutex and both threads somewhere in the code.
LEMMA NextControl == ControlType /\ [Next]_vars => ControlType'
  BY DEF ControlType, UnderLock, Recording, Next, MetricsStep, vars, flags, readers, recording, processor, process,
     CheckRunning, InsertDuration, PushDuration, StoreMust, LockEnabled,
     LockDisabled, RecordEntry, Attempt, PushSamples, ReadRing, CheckComplete,
     PollAgain, Overrun, sendDuration, onSampleRate, onDisconnect, Pop,
     LockReaders, enable, disable, Disposed, OtherPush, Exception, Thrown,
     onMetricsExit, onProcessorExit, on_fork

\* The queue never holds more than it has room for.
LEMMA NextQueue == QueueType /\ [Next]_vars => QueueType'
  BY MetricsAssumption DEF QueueType, Room, Next, MetricsStep, vars, flags, readers, recording, processor, process,
     CheckRunning, InsertDuration, PushDuration, StoreMust, LockEnabled,
     LockDisabled, RecordEntry, Attempt, PushSamples, ReadRing, CheckComplete,
     PollAgain, Overrun, sendDuration, onSampleRate, onDisconnect, Pop,
     LockReaders, enable, disable, Disposed, OtherPush, Exception, Thrown,
     onMetricsExit, onProcessorExit, on_fork

\* What a step may do to metricNameToId.
LEMMA NextIds == IdsType /\ [Next]_vars => IdsType'
  <1> SUFFICES ASSUME IdsType, [Next]_vars PROVE IdsType'
    OBVIOUS
  <1>1. CASE InsertDuration
    <2>1. DURATION_ID \in 0 .. Cardinality(Names)
      BY NamesFinite DEF DURATION_ID
    <2>2. QED
      BY <1>1, <2>1 DEF InsertDuration, IdsType
  <1>2. ASSUME NEW n \in Entries, RecordEntry(n) PROVE IdsType'
    <2>1. n \in Names
      BY DEF Names
    <2>2. ids[n] = NoId =>
            Cardinality({m \in Names : ids[m] # NoId}) + 1 \in 0 .. Cardinality(Names)
      BY <2>1, FreshId, NamesFinite
    <2>3. QED
      BY <1>2, <2>2 DEF RecordEntry, Attempt, findOrCreateMetricId, IdsType
  <1>3. CASE disable \/ on_fork
    BY <1>3, NamesFinite DEF disable, Disposed, on_fork, IdsType, NoId
  <1>4. CASE UNCHANGED ids
    BY <1>4 DEF IdsType
  <1>5. QED
    BY <1>1, <1>2, <1>3, <1>4 DEF Next, MetricsStep, vars, flags, readers, recording, processor, process,
       CheckRunning, InsertDuration, PushDuration, StoreMust, LockEnabled,
       LockDisabled, RecordEntry, Attempt, PushSamples, ReadRing, CheckComplete,
       PollAgain, Overrun, sendDuration, onSampleRate, onDisconnect, Pop,
       LockReaders, enable, disable, Disposed, OtherPush, Exception, Thrown,
       onMetricsExit, onProcessorExit, on_fork

\* A call of recordEntries is given metrics of the readers, and keeps only
\* constants of them.
LEMMA NextSets == SetsType /\ [Next]_vars => SetsType'
  <1> SUFFICES ASSUME SetsType, [Next]_vars PROVE SetsType'
    OBVIOUS
  <1>1. CASE LockEnabled
    BY <1>1 DEF LockEnabled, Begin, CpuEntries, recording, SetsType, Names, Entries, Constants
  <1>2. ASSUME NEW n \in Entries, RecordEntry(n) PROVE SetsType'
    BY <1>2 DEF RecordEntry, Attempt, SetsType, Names
  <1>3. CASE ReadRing
    BY <1>3 DEF ReadRing, Begin, EventBatches, recording, SetsType, Names, Entries, Constants
  <1>4. QED
    BY <1>1, <1>2, <1>3 DEF SetsType, Names, Next, MetricsStep, vars, flags, readers, recording, processor, process,
       CheckRunning, InsertDuration, PushDuration, StoreMust, LockEnabled,
       LockDisabled, RecordEntry, Attempt, PushSamples, ReadRing, CheckComplete,
       PollAgain, Overrun, sendDuration, onSampleRate, onDisconnect, Pop,
       LockReaders, enable, disable, Disposed, OtherPush, Exception, Thrown,
       onMetricsExit, onProcessorExit, on_fork

-----------------------------------------------------------------------------
(* The inductive invariant *)

\* Who is in a block under readersMutex holds it.
LockInv ==
    /\ mpc \in UnderLock => enabled /\ mutex = "metrics"
    /\ ppc \in {"enabling", "disabling"} => mutex = "processor"

\* A reader's metric has an id only if its information was published; there
\* are samples only while they are collected.
NamesInv ==
    /\ \A n \in Entries : ids[n] # NoId => n \in published
    /\ batch # {} => mpc \in Recording
    /\ batch \subseteq published

\* The metrics that recordEntries has yet to publish, or to keep for its
\* next call.
Pending == IF mpc \in Recording THEN todo \cup again \cup failed ELSE retry

\* A constant a reader has handed out is published, or it will be tried
\* again, as long as there are readers and a thread that uses them.
ConstantsInv ==
    enabled /\ mpc # "ended" =>
        /\ cpuEmitted \/ mpc = "cpu" => CpuConstants \subseteq published \cup Pending
        /\ ringEmitted \/ mpc = "ringConstants" => RingConstants \subseteq published \cup Pending

\* The mutex keeps the readers for the thread that uses them, and the
\* processor thread changes them only with it: also across a fork, which ends
\* both blocks.
LEMMA NextLockInv == ControlType /\ LockInv /\ [Next]_vars => LockInv'
  <1> SUFFICES ASSUME ControlType, LockInv, [Next]_vars PROVE LockInv'
    OBVIOUS
  <1> USE DEF LockInv, UnderLock, Recording
  <1>1. CASE LockEnabled
    BY <1>1 DEF LockEnabled, flags, processor
  <1>2. CASE LockReaders
    BY <1>2 DEF LockReaders, flags
  <1>3. CASE enable \/ disable
    BY <1>3 DEF enable, disable, Disposed
  <1>4. CASE CheckComplete \/ Exception
    BY <1>4 DEF CheckComplete, Exception, Thrown, processor
  <1>5. CASE on_fork
    BY <1>5 DEF on_fork
  <1>6. QED
    BY <1>1, <1>2, <1>3, <1>4, <1>5 DEF ControlType, Next, MetricsStep, vars, flags, readers, recording,
       processor, process, CheckRunning, InsertDuration, PushDuration, StoreMust,
       LockEnabled, LockDisabled, RecordEntry, Attempt, PushSamples, ReadRing,
       CheckComplete, PollAgain, Overrun, sendDuration, onSampleRate,
       onDisconnect, Pop, LockReaders, enable, disable, Disposed, OtherPush,
       Exception, Thrown, onMetricsExit, onProcessorExit, on_fork

\* The mutex is let go of where a block ends, by an exception too; a fork
\* keeps it, and is remembered if the mutex was held.
LEMMA NextMutexOwned ==
    ControlType /\ LockInv /\ MutexOwned /\ [Next]_vars => MutexOwned'
  <1> SUFFICES ASSUME ControlType, LockInv, MutexOwned, [Next]_vars
               PROVE  MutexOwned'
    OBVIOUS
  <1> USE DEF MutexOwned, UnderLock, Recording
  <1>1. CASE LockEnabled
    BY <1>1 DEF LockEnabled, processor
  <1>2. CASE LockReaders
    BY <1>2 DEF LockReaders
  <1>3. CASE enable \/ disable \/ CheckComplete
    BY <1>3 DEF enable, disable, CheckComplete
  <1>4. CASE Exception \/ on_fork
    BY <1>4 DEF Exception, Thrown, on_fork, process, processor
  <1>5. QED
    BY <1>1, <1>2, <1>3, <1>4 DEF LockInv, ControlType, Next, MetricsStep, vars, flags, readers, recording,
       processor, process, CheckRunning, InsertDuration, PushDuration, StoreMust,
       LockEnabled, LockDisabled, RecordEntry, Attempt, PushSamples, ReadRing,
       CheckComplete, PollAgain, Overrun, sendDuration, onSampleRate,
       onDisconnect, Pop, LockReaders, enable, disable, Disposed, OtherPush,
       Exception, Thrown, onMetricsExit, onProcessorExit, on_fork

\* findOrCreateMetricId gives an id to a metric only with its information
\* pushed; disable forgets both, and only where there are no samples.
LEMMA NextNamesInv == IdsType /\ LockInv /\ NamesInv /\ [Next]_vars => NamesInv'
  <1> SUFFICES ASSUME IdsType, LockInv, NamesInv, [Next]_vars PROVE NamesInv'
    OBVIOUS
  <1>1. CASE InsertDuration
    BY <1>1, MetricsAssumption DEF InsertDuration, recording, NamesInv, IdsType, Names, Recording
  <1>2. ASSUME NEW n \in Entries, RecordEntry(n) PROVE NamesInv'
    BY <1>2 DEF RecordEntry, Attempt, findOrCreateMetricId, NamesInv, IdsType, Names
  <1>3. CASE PushSamples
    BY <1>3 DEF PushSamples, NamesInv
  <1>4. CASE disable
    <2>1. mutex = "processor"
      BY <1>4 DEF disable, LockInv
    <2>2. mpc \notin Recording
      BY <2>1 DEF LockInv, UnderLock
    <2>3. QED
      BY <1>4, <2>2 DEF disable, Disposed, recording, NamesInv, Names
  <1>5. CASE Exception \/ on_fork
    BY <1>5 DEF Exception, Thrown, on_fork, NamesInv, Names
  <1>6. QED
    BY <1>1, <1>2, <1>3, <1>4, <1>5 DEF NamesInv, Recording, Begin, Next, MetricsStep, vars, flags, readers, recording,
       processor, process, CheckRunning, InsertDuration, PushDuration, StoreMust,
       LockEnabled, LockDisabled, RecordEntry, Attempt, PushSamples, ReadRing,
       CheckComplete, PollAgain, Overrun, sendDuration, onSampleRate,
       onDisconnect, Pop, LockReaders, enable, disable, Disposed, OtherPush,
       Exception, Thrown, onMetricsExit, onProcessorExit, on_fork

\* A constant stays in sight from the moment a reader hands it out until its
\* information is pushed.
LEMMA NextConstantsInv ==
    LockInv /\ NamesInv /\ ConstantsInv /\ [Next]_vars => ConstantsInv'
  <1> SUFFICES ASSUME LockInv, NamesInv, ConstantsInv, [Next]_vars PROVE ConstantsInv'
    OBVIOUS
  <1> USE DEF ConstantsInv, Pending, Recording
  <1>1. CASE LockEnabled
    BY <1>1 DEF LockEnabled, CpuEntries, Begin, flags, recording
  <1>2. ASSUME NEW n \in Entries, RecordEntry(n) PROVE ConstantsInv'
    <2>1. \A m \in Constants : m \in published \cup Pending => m \in published' \cup Pending'
      BY <1>2 DEF RecordEntry, Attempt, NamesInv
    <2>2. UNCHANGED <<enabled, mpc, cpuEmitted, ringEmitted>>
      BY <1>2 DEF RecordEntry, Attempt, flags, readers
    <2>3. QED
      BY <2>1, <2>2 DEF Constants
  <1>3. CASE PushSamples
    BY <1>3 DEF PushSamples, flags
  <1>4. CASE ReadRing
    BY <1>4 DEF ReadRing, Begin, flags, readers, recording
  <1>5. CASE enable
    <2>1. mpc \notin UnderLock
      BY <1>5 DEF enable, LockInv
    <2>2. QED
      BY <1>5, <2>1 DEF enable, recording, UnderLock
  <1>6. CASE disable \/ Exception \/ on_fork
    BY <1>6 DEF disable, Disposed, Exception, Thrown, on_fork
  <1> DEFINE Aside ==
                 /\ UNCHANGED <<enabled, cpuEmitted, ringEmitted, todo, again, failed, retry>>
                 /\ published \subseteq published'
                 /\ mpc' = mpc \/ (mpc \notin Recording \cup {"ended"} /\ mpc' \notin Recording)
  <1>7. CASE Aside
    BY <1>7
  <1>8. QED
    BY <1>1, <1>2, <1>3, <1>4, <1>5, <1>6, <1>7 DEF Next, MetricsStep, vars, flags, readers, recording,
       processor, process, CheckRunning, InsertDuration, PushDuration, StoreMust,
       LockEnabled, LockDisabled, RecordEntry, Attempt, PushSamples, ReadRing,
       CheckComplete, PollAgain, Overrun, sendDuration, onSampleRate,
       onDisconnect, Pop, LockReaders, enable, disable, Disposed, OtherPush,
       Exception, Thrown, onMetricsExit, onProcessorExit, on_fork

-----------------------------------------------------------------------------
(* The theorems *)

IInv == TypeOK /\ LockInv /\ NamesInv /\ ConstantsInv

\* The initial state satisfies the inductive invariant.
LEMMA InitIInv == Init => IInv
  <1> SUFFICES ASSUME Init PROVE IInv
    OBVIOUS
  <1>1. FlagsType
    BY DEF Init, FlagsType
  <1>2. IdsType
    BY NamesFinite DEF Init, IdsType, NoId
  <1>3. ControlType /\ SetsType /\ QueueType
    BY MetricsAssumption DEF Init, ControlType, SetsType, QueueType
  <1>4. LockInv /\ NamesInv /\ ConstantsInv
    BY DEF Init, LockInv, NamesInv, ConstantsInv, UnderLock, Recording, Names
  <1>5. QED
    BY <1>1, <1>2, <1>3, <1>4, TypeParts DEF IInv

\* Every step keeps it.
LEMMA NextIInv == IInv /\ [Next]_vars => IInv'
  <1> SUFFICES ASSUME IInv, [Next]_vars PROVE IInv'
    OBVIOUS
  <1>1. FlagsType /\ IdsType /\ ControlType /\ SetsType /\ QueueType
    BY TypeParts DEF IInv
  <1>2. TypeOK'
    BY <1>1, NextFlags, NextIds, NextControl, NextSets, NextQueue, TypeParts
  <1>3. LockInv' /\ NamesInv' /\ ConstantsInv'
    BY <1>1, NextLockInv, NextNamesInv, NextConstantsInv DEF IInv
  <1>4. QED
    BY <1>2, <1>3 DEF IInv

\* Every variable keeps its type; in particular a metric's id is never
\* larger than the number of metrics, whatever was thrown away and given out
\* again in between (metricNameToId of metrics.cpp).
THEOREM TypeCorrect == Spec => []TypeOK
  <1>1. IInv => TypeOK
    BY DEF IInv
  <1>2. QED
    BY <1>1, InitIInv, NextIInv, PTL DEF Spec

\* The readers exist, and the metrics thread has the mutex, whenever it uses
\* them: no enable, disable, exception or fork can come in between (run,
\* enable and disable of metrics.cpp).
THEOREM ReadersSafe == Spec => []ReadersGuarded
  <1>1. IInv => ReadersGuarded
    BY DEF IInv, LockInv, ReadersGuarded
  <1>2. QED
    BY <1>1, InitIInv, NextIInv, PTL DEF Spec

\* As long as no fork has copied the mutex while it was held, it is always
\* held by a thread that is in a block which releases it (run, enable and
\* disable of metrics.cpp).
THEOREM MutexSafe == Spec => []MutexOwned
  <1>1. Init => MutexOwned
    BY DEF Init, MutexOwned
  <1>2. IInv /\ MutexOwned /\ [Next]_vars => MutexOwned'
    BY TypeParts, NextMutexOwned DEF IInv
  <1>3. QED
    BY <1>1, <1>2, InitIInv, NextIInv, PTL DEF Spec

\* No sample is recorded under a name whose information was not published
\* since the ids were last thrown away (attemptRecordEntries of metrics.cpp).
THEOREM NamesSafe == Spec => []RecordedArePublished
  <1>1. IInv => RecordedArePublished
    BY DEF IInv, NamesInv, RecordedArePublished
  <1>2. QED
    BY <1>1, InitIInv, NextIInv, PTL DEF Spec

\* ConstantMetricsComplete is pushed only after the information of every
\* constant metric, however often publishing failed before (run and
\* recordEntries of metrics.cpp).
THEOREM CompleteSafe == Spec => CompleteAfterNames
  <1> DEFINE A == needsConst /\ ~needsConst' /\ enabled' => Constants \subseteq published
  <1>1. IInv /\ [Next]_vars => [A]_vars
    <2> SUFFICES ASSUME IInv, Next, needsConst, ~needsConst', enabled'
                 PROVE  Constants \subseteq published
      OBVIOUS
    <2>1. CheckComplete /\ CompleteDue
      BY DEF CompleteDue, Next, MetricsStep, vars, flags, readers, recording,
         processor, process, CheckRunning, InsertDuration, PushDuration, StoreMust,
         LockEnabled, LockDisabled, RecordEntry, Attempt, PushSamples, ReadRing,
         CheckComplete, PollAgain, Overrun, sendDuration, onSampleRate,
         onDisconnect, Pop, LockReaders, enable, disable, Disposed, OtherPush,
         Exception, Thrown, onMetricsExit, onProcessorExit, on_fork
    <2>2. enabled /\ mpc = "check"
      BY <2>1 DEF CheckComplete, IInv, LockInv, UnderLock
    <2>3. QED
      BY <2>1, <2>2 DEF CompleteDue, IInv, ConstantsInv, Pending, Constants, Recording
  <1>2. QED
    BY <1>1, InitIInv, NextIInv, PTL DEF Spec, CompleteAfterNames
==============================================================================
