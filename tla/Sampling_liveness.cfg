SPECIFICATION FairSpec
CONSTANTS
    Tids = {t1, t2, t3, t4}
    NoTid = NoTid
    TimerIds = {1, 2}
    NoTimer = NoTimer
    Word = 64
    MS_TO_NS = 4
    Second = 30
    ElapsedRates = {1}
    ProcessRates = {}
    MayFork = FALSE
    TidReuse = FALSE
PROPERTY NewThreadsSampled
