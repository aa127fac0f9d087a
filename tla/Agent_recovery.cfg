SPECIFICATION FairSpec
CONSTANTS
    prometheusEnabled = FALSE
    ConnectRace = FALSE
    MinBackoff = 2
    MaxBackoff = 2
    MaxStash = 1
    Periodic = {}
    MaxPops = 1
    MayFork = TRUE
CHECK_DEADLOCK FALSE
INVARIANTS
    SingleRead
    NoSocketLeak
    NothingOutstanding
PROPERTIES
    DeadSessionEnds
    Reconnects
    ExitCompletes
