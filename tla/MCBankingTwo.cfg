CONSTANTS
    Worker = {w1, w2}
    A = A  B = B  C = C  D = D  SYS = SYS  BPF = BPF  h0 = h0  h1 = h1
    Pubkey <- MCPubkey
    Tx <- MCTxTwo
    InitAccounts <- MCAccounts
    blockhash_queue = {h0}
    SYSTEM_PROGRAM_ID = SYS
    TOKEN_PROGRAM_ID = TOKEN
    BPF_LOADER_UPGRADEABLE_PROGRAM_ID = LOADER
    BuiltinPrograms = {SYS}
    BATCH_SIZE_LIMIT = 2
    MaxSubmissions = 3
    SIGNATURE_COST = 1
    WRITE_LOCK_UNITS = 1
    INSTRUCTION_DATA_BYTES_COST = 1
    BUILTIN_PROGRAM_COST = 1
    BPF_PROGRAM_COST = 4
    block_cost_limit = 13
    account_cost_limit = 8
    U64_MAX = 31
SPECIFICATION Spec
INVARIANTS
    PendingExactlyOnce
    CommittedWasRecorded
    GuardsOnlyInGroup
PROPERTIES
    Serializable
SYMMETRY MCWorkerSymmetry
