SPECIFICATION FairSpec
CONSTANTS
    CpuConstants = {ncores}
    CpuVariables = {}
    RingConstants = {version}
    RingEvents = {minor}
    Duration = duration
    QueueSize = 1
CHECK_DEADLOCK FALSE
INVARIANTS
    TypeOK
    ReadersGuarded
    MutexOwned
    RecordedArePublished
PROPERTIES
    CompleteAfterNames
    ProcessorNotBlocked
