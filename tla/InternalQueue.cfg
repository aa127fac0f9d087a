SPECIFICATION FairSpec
CONSTANTS
    Size = 2
    Producers = {p1, p2}
    Items = {a, b}
    None = None
    Timely = TRUE
INVARIANTS
    TypeOK
    SlotOwnership
    NoOrphanSlot
    FreeSlotsReset
PROPERTIES
    ImplementsFifo
    Drains
