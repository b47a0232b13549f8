CONSTANTS
    Worker = {w1}
    Forker = {f1}
    AccountState <- MCAccountState
    initial_state <- MCStoreTwo
    default_hash = h0
    NoHash = NoHash
    MAX_BLOCKHASH_QUEUE_DEPTH = 2
    MaxBanks = 2
SPECIFICATION Spec
PROPERTIES NoFreezeDuringExecution
