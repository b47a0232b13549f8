CONSTANTS
    F = F  A = A  B = B  O = O  P = P  M = M  M2 = M2  T1 = T1  T2 = T2  T3 = T3
    RENT = RENT  CLOCK = CLOCK  BUF = BUF  BUF2 = BUF2  PDATA = PDATA  PROG = PROG
    SYS = SYS  TOKEN = TOKEN  LOADER = LOADER
    SYSTEM_PROGRAM_ID = SYS
    TOKEN_PROGRAM_ID = TOKEN
    BPF_LOADER_UPGRADEABLE_PROGRAM_ID = LOADER
    Workload <- MCWorkloadCpi
    InitAccounts <- MCInitAccounts
    U64_MAX = 255
SPECIFICATION Spec
INVARIANTS WellFormedDecodes
