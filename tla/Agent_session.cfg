SPECIFICATION Spec
CONSTANTS
    prometheusEnabled = FALSE
    ConnectRace = TRUE
    MinBackoff = 2
    MaxBackoff = 4
    MaxStash = 1
    Periodic = {"send", "statistics"}
    MaxPops = 2
    MayFork = FALSE
CHECK_DEADLOCK FALSE
INVARIANTS
    TypeOK
    SessionHasDeadline
    SingleWrite
    FlagReleased
    SingleRead
    NoSocketLeak
    NothingOutstanding
