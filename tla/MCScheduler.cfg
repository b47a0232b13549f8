\* Three transactions over two keys: enough for one to be passed over by a later
\* one, and for three groups in a chain of conflicts.
CONSTANTS
    Pubkey = {k1, k2}
    MaxBatch = 3
    Batch <- MCBatch
SPECIFICATION FairSpec
INVARIANTS
    TypeOK
    EachOnce
    GroupsConflictFree
    DelayedOnlyByConflict
    ReturnsScheduleOf
PROPERTY
    Terminates
