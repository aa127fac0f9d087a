------------------------------- MODULE Metrics -------------------------------
(***************************************************************************)
(* lib/metrics.cpp with the constant metrics of cpudata_reader.cpp and     *)
(* event_ring_reader.cpp: the duty cycle of the metrics thread, the        *)
(* processor thread that enables and disables it, the queue between them   *)
(* and the exit of the program.                                            *)
(*                                                                         *)
(* The processor thread calls enable and disable (onSampleRate,            *)
(* onDisconnect); it pops the queue only while a session is active and it  *)
(* is not inside one of them.  The queue is a count of entries: the        *)
(* properties need to know what was pushed before what, not what is in it. *)
(***************************************************************************)
EXTENDS Integers, FiniteSets

CONSTANTS
    CpuConstants, CpuVariables,   \* the metrics of CPUDataReader
    RingConstants, RingEvents,    \* the metrics of EventRingReader
    Duration,                     \* DURATION_NAME
    QueueSize                     \* the capacity of the main queue

Constants == CpuConstants \cup RingConstants
Entries == Constants \cup CpuVariables \cup RingEvents
Names == Entries \cup {Duration}
DURATION_ID == 1
NoId == 0

ASSUME MetricsAssumption ==
    /\ QueueSize \in Nat \ {0}
    /\ IsFiniteSet(Entries)
    /\ Duration \notin Entries

VARIABLES
    enabled,      \* enabled_: the readers exist
    mustSend,     \* mustSendDurationMetric
    needsConst,   \* needsToSendConstantMetrics
    ids,          \* metricNameToId, NoId where there is no entry
    cpuEmitted,   \* readNCores, and hasEmittedConstantMetrics_ of the readers
    ringEmitted,
    ringOn,       \* EventRingReader::enabled_
    mutex,        \* who holds readersMutex
    mpc,          \* where the metrics thread is
    todo,         \* the entries a call of recordEntries has yet to look at
    again,        \* ... and the retryEntries_ it has
    batch,        \* samples, failedConstantEntries
    failed,
    retry,        \* retryEntries_
    more,         \* hasRemainingEvents
    polling,      \* in the loop that reads remaining events
    queued,       \* entries in the queue
    running,      \* cleared by onMetricsExit
    ppc,          \* where the processor thread is
    active,       \* CollectorController::isActive
    metricsOn,    \* metricsOn_
    wantRing,     \* the event ring is not among the disabledPrefixes
    inherited,    \* history: a fork has copied readersMutex while it was held
    published     \* history: names whose MetricInformation was pushed since
                  \* metricNameToId was last cleared

flags == <<enabled, mustSend, needsConst>>
readers == <<cpuEmitted, ringEmitted, ringOn>>
recording == <<todo, again, batch, failed, retry>>
processor == <<ppc, active, metricsOn, wantRing>>
process == <<running, inherited>>
vars == <<flags, ids, readers, mutex, mpc, recording, more, polling, queued,
          process, processor, published>>

Recording == {"cpu", "ringConstants", "ringEvents"}
UnderLock == Recording \cup {"ring", "check"}

\* The type of every variable; an id is never reused for want of room.
TypeOK ==
    /\ {enabled, mustSend, needsConst, cpuEmitted, ringEmitted, ringOn, more,
        polling, running, active, metricsOn, wantRing, inherited} \subseteq BOOLEAN
    /\ ids \in [Names -> 0 .. Cardinality(Names)]
    /\ mutex \in {"none", "metrics", "processor"}
    /\ mpc \in UnderLock \cup {"must", "insert", "push", "store", "lock", "window", "ended"}
    /\ {todo, again, batch, published} \subseteq SUBSET Names
    /\ {failed, retry} \subseteq SUBSET Constants
    /\ queued \in 0 .. QueueSize
    /\ ppc \in {"idle", "enable", "enabling", "disable", "disabling", "ended"}

Init ==
    /\ enabled = FALSE /\ mustSend = FALSE /\ needsConst = FALSE
    /\ ids = [n \in Names |-> NoId]
    /\ cpuEmitted = FALSE /\ ringEmitted = FALSE /\ ringOn = FALSE
    /\ mutex = "none"
    /\ mpc = "must"
    /\ todo = {} /\ again = {} /\ batch = {} /\ failed = {} /\ retry = {}
    /\ more = FALSE /\ polling = FALSE
    /\ queued = 0
    /\ running = TRUE
    /\ ppc = "idle" /\ active = FALSE /\ metricsOn = FALSE /\ wantRing = FALSE
    /\ inherited = FALSE
    /\ published = {}

\* Mutant: one entry too many.
RoomForOneMore == queued <= QueueSize

\* acquireWrite succeeds.
Room == queued < QueueSize

-----------------------------------------------------------------------------
(* The metrics thread: sendDurationMetricId *)

\* The top of the loop in run().
CheckRunning ==
    /\ mpc = "must"
    /\ mpc' = IF ~running THEN "ended" ELSE IF mustSend THEN "insert" ELSE "lock"
    /\ UNCHANGED <<flags, ids, readers, mutex, recording, more, polling, queued, process, processor, published>>

InsertDuration ==
    /\ mpc = "insert"
    /\ ids' = IF ids[Duration] = NoId THEN [ids EXCEPT ![Duration] = DURATION_ID] ELSE ids
    /\ mpc' = "push"
    /\ UNCHANGED <<flags, readers, mutex, recording, more, polling, queued, process, processor, published>>

\* Repeated, without the mutex, until there is room.
PushDuration ==
    /\ mpc = "push"
    /\ Room
    /\ queued' = queued + 1
    /\ published' = published \cup {Duration}
    /\ mpc' = "store"
    /\ UNCHANGED <<flags, ids, readers, mutex, recording, more, polling, process, processor>>

StoreMust ==
    /\ mpc = "store"
    /\ mustSend' = FALSE
    /\ mpc' = "lock"
    /\ UNCHANGED <<enabled, needsConst, ids, readers, mutex, recording, more, polling, queued, process, processor, published>>

-----------------------------------------------------------------------------
(* The metrics thread: reading under readersMutex *)

\* The first entries of a read: cpu.ncores once per reader, then variables.
CpuEntries == CpuVariables \cup IF cpuEmitted THEN {} ELSE CpuConstants

\* recordEntries begins with some entries.
Begin(entries) == todo' = entries /\ again' = retry /\ UNCHANGED <<batch, failed, retry>>

LockEnabled ==
    /\ mpc = "lock"
    /\ mutex = "none"
    /\ enabled
    /\ mutex' = "metrics"
    /\ IF polling \/ CpuEntries = {}
       THEN mpc' = "ring" /\ cpuEmitted' = (cpuEmitted \/ ~polling) /\ UNCHANGED recording
       ELSE mpc' = "cpu" /\ Begin(CpuEntries) /\ UNCHANGED cpuEmitted
    /\ more' = FALSE
    /\ UNCHANGED <<flags, ids, ringEmitted, ringOn, polling, queued, process, processor, published>>

LockDisabled ==
    /\ mpc = "lock"
    /\ mutex = "none"
    /\ ~enabled
    /\ more' = FALSE
    /\ mpc' = "window"
    /\ UNCHANGED <<flags, ids, readers, mutex, recording, polling, queued, process, processor, published>>

\* Mutant: a name stays in the map though its information was not published.
KeepsFailedId(n) ==
    IF ids[n] # NoId THEN ids
    ELSE [ids EXCEPT ![n] = Cardinality({m \in Names : ids[m] # NoId}) + 1]

\* findOrCreateMetricId's map once it returns: a new name is kept only if
\* its information was published.
findOrCreateMetricId(n) ==
    IF ids[n] # NoId \/ ~Room THEN ids
    ELSE [ids EXCEPT ![n] = Cardinality({m \in Names : ids[m] # NoId}) + 1]

\* attemptRecordEntries for one entry: the new ones first, then the retries.
\* What to keep of an entry that cannot be published is in `kept`.
Attempt(n, kept) ==
    /\ mpc \in Recording
    /\ n \in todo \/ (todo = {} /\ n \in again)
    /\ ids' = findOrCreateMetricId(n)
    /\ IF ids[n] # NoId \/ Room
       THEN /\ batch' = batch \cup {n}
            /\ queued' = IF ids[n] = NoId THEN queued + 1 ELSE queued
            /\ published' = IF ids[n] = NoId THEN published \cup {n} ELSE published
            /\ UNCHANGED failed
       ELSE /\ failed' = failed \cup kept
            /\ UNCHANGED <<batch, queued, published>>
    /\ todo' = todo \ {n}
    /\ again' = IF n \in todo THEN again ELSE again \ {n}
    /\ UNCHANGED <<flags, readers, mutex, mpc, retry, more, polling, process, processor>>

\* Mutant: publishing waits for room, as sendDurationMetricId does.
AttemptWaits(n) == (ids[n] # NoId \/ Room) /\ Attempt(n, {})

\* Mutant: a constant that could not be published is not kept either.
AttemptDrops(n) == Attempt(n, {})

\* Only a constant is kept.
RecordEntry(n) == Attempt(n, {n} \cap Constants)

\* recordEntries ends: the samples are pushed, or lost if there is no room,
\* and the failed constants are kept for the next call.
PushSamples ==
    /\ mpc \in Recording
    /\ todo = {} /\ again = {}
    /\ queued' = IF Room THEN queued + 1 ELSE queued
    /\ retry' = failed
    /\ failed' = {} /\ batch' = {}
    /\ cpuEmitted' = (cpuEmitted \/ mpc = "cpu")
    /\ ringEmitted' = (ringEmitted \/ mpc = "ringConstants")
    /\ mpc' = "ring"
    /\ UNCHANGED <<flags, ids, ringOn, mutex, todo, again, more, polling, process, processor, published>>

\* What PollState hands to one call of recordEntries: the metrics among the
\* events of one time stamp.
EventBatches == SUBSET RingEvents \ {{}}

\* EventRingReader::read: its constants once, then the events, batch by
\* batch.  Some events are no metric.
ReadRing ==
    /\ mpc = "ring"
    /\ IF ringOn /\ ~ringEmitted
       THEN mpc' = "ringConstants" /\ more' = TRUE /\ Begin(RingConstants)
       ELSE \/ /\ mpc' = "check"
               /\ more' \in {more, more \/ ringOn}
               /\ UNCHANGED recording
            \/ \E events \in EventBatches :
                   /\ ringOn
                   /\ mpc' = "ringEvents" /\ more' = TRUE /\ Begin(events)
    /\ UNCHANGED <<flags, ids, readers, mutex, polling, queued, process, processor, published>>

\* pushConstantMetricsComplete is due.
CompleteDue == needsConst /\ cpuEmitted /\ ringEmitted /\ retry = {}

\* The end of the block under the mutex.
CheckComplete ==
    /\ mpc = "check"
    /\ IF CompleteDue /\ ~polling /\ Room
       THEN queued' = queued + 1 /\ needsConst' = FALSE
       ELSE UNCHANGED <<queued, needsConst>>
    /\ mutex' = "none"
    /\ mpc' = "window"
    /\ UNCHANGED <<enabled, mustSend, ids, readers, recording, more, polling, process, processor, published>>

-----------------------------------------------------------------------------
(* The metrics thread: the rest of the cycle *)

\* Poll again while events remain.
PollAgain ==
    /\ mpc = "window"
    /\ more
    /\ polling' = TRUE
    /\ mpc' = "lock"
    /\ UNCHANGED <<flags, ids, readers, mutex, recording, more, queued, process, processor, published>>

\* The work has taken longer than the sample rate: start over at once.
Overrun ==
    /\ mpc = "window"
    /\ ~polling
    /\ mpc' = "must"
    /\ UNCHANGED <<flags, ids, readers, mutex, recording, more, polling, queued, process, processor, published>>

\* sendDuration, enabled or not, and the sleep.
sendDuration ==
    /\ mpc = "window"
    /\ ~more
    /\ queued' = IF Room THEN queued + 1 ELSE queued
    /\ polling' = FALSE
    /\ mpc' = "must"
    /\ UNCHANGED <<flags, ids, readers, mutex, recording, more, process, processor, published>>

\* A std::exception, in a reader or outside the mutex (the map, the scan of
\* the threads, the samples' vector): what of the cycle was local is gone, a
\* notification is pushed, and run() and its thread end.
Thrown ==
    /\ mpc \in Recording \cup {"ring", "insert", "lock", "window"}
    /\ mpc' = "ended"
    /\ queued' = IF Room THEN queued + 1 ELSE queued
    /\ todo' = {} /\ again' = {} /\ batch' = {} /\ failed' = {} /\ retry' = {}
    /\ more' = FALSE /\ polling' = FALSE
    /\ UNCHANGED <<flags, ids, readers, process, processor, published>>

\* Mutant: the mutex is locked and unlocked by hand.
ExceptionUnguarded == Thrown /\ UNCHANGED mutex

\* The lock_guard releases the mutex on the way out of its block.
Exception == Thrown /\ mutex' = IF mpc \in UnderLock THEN "none" ELSE mutex

-----------------------------------------------------------------------------
(* The processor thread *)

\* onSampleRate: switchMetricsOn, and whether the event ring is wanted.
onSampleRate(switchOn, ring) ==
    /\ ppc = "idle"
    /\ ppc' = IF switchOn THEN "enable" ELSE "disable"
    /\ wantRing' = ring
    /\ metricsOn' = switchOn
    /\ active' = TRUE
    /\ UNCHANGED <<flags, ids, readers, mutex, mpc, recording, more, polling, queued, process, published>>

\* onDisconnect disables only while the metrics thread is running.
onDisconnect ==
    /\ ppc = "idle"
    /\ active
    /\ ppc' = IF metricsOn /\ running THEN "disable" ELSE "idle"
    /\ metricsOn' = FALSE
    /\ active' = FALSE
    /\ UNCHANGED <<flags, ids, readers, mutex, mpc, recording, more, polling, queued, process, wantRing, published>>

Pop ==
    /\ ppc = "idle"
    /\ active
    /\ queued > 0
    /\ queued' = queued - 1
    /\ UNCHANGED <<flags, ids, readers, mutex, mpc, recording, more, polling, process, processor, published>>

LockReaders ==
    /\ ppc \in {"enable", "disable"}
    /\ mutex = "none"
    /\ mutex' = "processor"
    /\ ppc' = IF ppc = "enable" THEN "enabling" ELSE "disabling"
    /\ UNCHANGED <<flags, ids, readers, mpc, recording, more, polling, queued, process, active, metricsOn, wantRing, published>>

\* The OCaml runtime lock can be had, until the main thread exits with it.
RuntimeLockFree == running

\* enable().  Turning the event ring on or off takes the runtime lock, and
\* turning it on may fail.
enable ==
    /\ ppc = "enabling"
    /\ ringOn # wantRing => RuntimeLockFree
    /\ ringOn' \in {wantRing, wantRing /\ ringOn}
    /\ IF enabled THEN UNCHANGED <<mustSend, needsConst, cpuEmitted, ringEmitted>>
       ELSE /\ mustSend' = TRUE /\ needsConst' = TRUE
            /\ cpuEmitted' = FALSE /\ ringEmitted' = FALSE
    /\ enabled' = TRUE
    /\ mutex' = "none"
    /\ ppc' = "idle"
    /\ UNCHANGED <<ids, mpc, recording, more, polling, queued, process, active, metricsOn, wantRing, published>>

\* disable(): what it does with the mutex held.
Disposed ==
    /\ ringOn => RuntimeLockFree
    /\ IF enabled
       THEN /\ ids' = [n \in Names |-> NoId]
            /\ ringOn' = FALSE
            /\ published' = {}
       ELSE UNCHANGED <<ids, ringOn, published>>
    /\ mustSend' = FALSE
    /\ enabled' = FALSE
    /\ ppc' = "idle"
    /\ UNCHANGED <<needsConst, cpuEmitted, ringEmitted, mpc, recording, more, polling, queued, process, active, metricsOn, wantRing>>

\* Mutant: disable does not wait for the mutex.
DisableUnlocked == ppc \in {"disable", "disabling"} /\ Disposed /\ UNCHANGED mutex

disable == ppc = "disabling" /\ Disposed /\ mutex' = "none"

-----------------------------------------------------------------------------
(* The other threads of the program *)

\* The application's threads push to the same queue.
OtherPush ==
    /\ Room
    /\ queued' = queued + 1
    /\ UNCHANGED <<flags, ids, readers, mutex, mpc, recording, more, polling, process, processor, published>>

\* The main thread exits: it stops the metrics thread and waits for it ...
onMetricsExit ==
    /\ running
    /\ running' = FALSE
    /\ UNCHANGED <<flags, ids, readers, mutex, mpc, recording, more, polling, queued, inherited, processor, published>>

\* ... and then for the processor thread, whose last onDisconnect disables
\* nothing.
onProcessorExit ==
    /\ ~running
    /\ mpc = "ended"
    /\ ppc = "idle"
    /\ ppc' = "ended"
    /\ metricsOn' = FALSE
    /\ active' = FALSE
    /\ UNCHANGED <<flags, ids, readers, mutex, mpc, recording, more, polling, queued, process, wantRing, published>>

\* on_fork of the controller and of Metrics in a child, and startThread: the
\* threads begin again, the readers are abandoned; readersMutex and the queue
\* stay as they were: a mutex held by a thread of the parent stays locked.
on_fork ==
    /\ running
    /\ mustSend' = FALSE /\ enabled' = FALSE /\ needsConst' = FALSE
    /\ ids' = [n \in Names |-> NoId] /\ published' = {}
    /\ ringOn' = FALSE
    /\ mpc' = "must"
    /\ todo' = {} /\ again' = {} /\ batch' = {} /\ failed' = {} /\ retry' = {}
    /\ more' = FALSE /\ polling' = FALSE
    /\ ppc' = "idle" /\ active' = FALSE /\ metricsOn' = FALSE
    /\ inherited' = (inherited \/ mutex # "none")
    /\ UNCHANGED <<cpuEmitted, ringEmitted, mutex, queued, running, wantRing>>

-----------------------------------------------------------------------------
MetricsStep ==
    \/ CheckRunning
    \/ InsertDuration
    \/ PushDuration
    \/ StoreMust
    \/ LockEnabled
    \/ LockDisabled
    \/ \E n \in Entries : RecordEntry(n)
    \/ PushSamples
    \/ ReadRing
    \/ CheckComplete
    \/ PollAgain
    \/ Overrun
    \/ sendDuration

Next ==
    \/ MetricsStep
    \/ \E switchOn, ring \in BOOLEAN : onSampleRate(switchOn, ring)
    \/ onDisconnect
    \/ Pop
    \/ LockReaders
    \/ enable
    \/ disable
    \/ OtherPush
    \/ Exception
    \/ onMetricsExit
    \/ onProcessorExit
    \/ on_fork

Spec == Init /\ [][Next]_vars

\* Both threads keep running.  The mutex is not fair, but the metrics thread
\* sleeps between two cycles, so the processor thread gets it in the end.
\* One read of the event ring takes at most MAX_EVENTS events.
FairSpec ==
    /\ Spec
    /\ WF_vars(MetricsStep)
    /\ SF_vars(ReadRing /\ mpc' = "check")
    /\ SF_vars(LockReaders)
    /\ WF_vars(enable \/ disable)

-----------------------------------------------------------------------------
(* Properties *)

\* The readers exist whenever the metrics thread uses them: disable cannot
\* delete them in the middle of a read (run, enable, disable).
ReadersGuarded == mpc \in UnderLock => enabled /\ mutex = "metrics"

\* Whoever holds the readers' mutex is in a block that releases it, also
\* after an exception in a reader (run, enable, disable).  A child of a fork
\* that came while the mutex was held is left out: there nobody holds it and
\* it stays locked, as on_fork does not make it anew (metrics.cpp:353).
MutexOwned ==
    ~inherited =>
        /\ mutex = "metrics" => mpc \in UnderLock
        /\ mutex = "processor" => ppc \in {"enabling", "disabling"}

\* A sample is only recorded under a name whose information has been
\* published since the ids were last thrown away, whatever the state of the
\* queue was when the name was new (attemptRecordEntries,
\* findOrCreateMetricId, disable).
RecordedArePublished == batch \subseteq published

\* ConstantMetricsComplete is pushed only after the information of every
\* constant metric (run, recordEntries' retryEntries_).  A fork takes the
\* request back.
CompleteAfterNames ==
    [][needsConst /\ ~needsConst' /\ enabled' => Constants \subseteq published]_vars

\* The processor thread is not kept waiting for the readers' mutex by a
\* metrics thread that waits for room in the queue only the processor thread
\* can make (metrics.cpp:330, "the retrying of the queue can deadlock with
\* the processor thread").  The exceptions are the exit, and a child that
\* has copied the mutex locked, where it waits for ever.
ProcessorNotBlocked == ppc # "idle" ~> ppc = "idle" \/ ~running \/ inherited

\* A sample goes out under an id that names its metric and no other
\* (findOrCreateMetricId, sendDurationMetricId; metrics.cpp:165, "if the
\* metricId we get back is 0 then we failed to publish the MetricInformation
\* ... any samples we send would be unnamed").
SamplesNamed ==
    [][(mpc \in Recording /\ mpc' \notin Recording) =>
           \A n \in batch, m \in published : ids[m] = ids[n] => m = n]_vars

\* The exit of the program is not stuck with the metrics thread waiting for
\* the mutex, the processor thread holding it and waiting for the runtime
\* lock, and the main thread holding that and waiting for the metrics thread
\* (collector_controller.cpp:241, "to avoid deadlock in the case that we're
\* terminating").
ExitNotStuck ==
    ~( /\ mpc = "lock"
       /\ mutex = "processor"
       /\ ppc = "disabling"
       /\ ~active       \* called by onDisconnect
       /\ ringOn
       /\ ~running )

==============================================================================
