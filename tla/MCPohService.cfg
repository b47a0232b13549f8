CONSTANTS
    hashes_per_tick = 3
    ticks_per_slot = 2
    hashes_per_batch = 2
    MaxRecords = 4
    MaxTicks = 5
SPECIFICATION FairSpec
CHECK_DEADLOCK FALSE
INVARIANTS
    TypeOK
    HeightAhead
    TicksArePaidFor
    EntriesVerify
    NothingLost
PROPERTIES
    EventuallyMixed
