SPECIFICATION Spec
CONSTANTS
    Tids = {t1, t2, t3, t4}
    NoTid = NoTid
    TimerIds = {1, 2, 3}
    NoTimer = NoTimer
    Word = 64
    MS_TO_NS = 4
    Second = 30
    ElapsedRates = {1, 2, 8}
    ProcessRates = {}
    MayFork = FALSE
    TidReuse = FALSE
SYMMETRY Symmetry
INVARIANT StopEndsSampling
