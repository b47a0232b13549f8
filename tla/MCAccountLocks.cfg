\* Two keys make every overlap of a read set and a write set possible; three
\* callers let a key have two readers while a third caller asks for it.
CONSTANTS
    Pubkey = {k1, k2}
    Caller = {c1, c2, c3}
    Group <- MCGroup
SPECIFICATION Spec
INVARIANTS
    TypeOK
    Exclusion
    TableMatchesGuards
    RefusedOnlyByALiveGuard
