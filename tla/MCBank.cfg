SYMMETRY MCWorkerSymmetry
CONSTANTS
    Worker = {w1, w2}
    Forker = {f1}
    AccountState <- MCAccountState
    initial_state <- MCStoreTwo
    default_hash = h0
    NoHash = NoHash
    MAX_BLOCKHASH_QUEUE_DEPTH = 2
    MaxBanks = 4
SPECIFICATION Spec
INVARIANTS
    TypeOK
    ChildExtendsFrozenParent
    ValidAsLongAsPromised
    OnlyEarlyGroupsCommit
    HashIdentifiesState
PROPERTIES
    FrozenIsFinal
