SPECIFICATION Spec
CONSTANTS
    CpuConstants = {}
    CpuVariables = {rss}
    RingConstants = {version}
    RingEvents = {minor}
    Duration = duration
    QueueSize = 2
CHECK_DEADLOCK FALSE
PROPERTY SamplesNamed
