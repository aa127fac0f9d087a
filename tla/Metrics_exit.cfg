SPECIFICATION Spec
CONSTANTS
    CpuConstants = {ncores}
    CpuVariables = {}
    RingConstants = {version}
    RingEvents = {minor}
    Duration = duration
    QueueSize = 2
CHECK_DEADLOCK FALSE
INVARIANT ExitNotStuck
