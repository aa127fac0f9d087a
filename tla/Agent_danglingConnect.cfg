SPECIFICATION Spec
CONSTANTS
    prometheusEnabled = FALSE
    ConnectRace = TRUE
    MinBackoff = 2
    MaxBackoff = 2
    MaxStash = 0
    Periodic = {"send"}
    MaxPops = 1
    MayFork = FALSE
CHECK_DEADLOCK FALSE
INVARIANT NoDanglingConnect
