----------------------------- MODULE BankProofs -----------------------------
(***************************************************************************)
(* The life of banks, for every set of threads, of account states and      *)
(* every depth of the blockhash queue.                                     *)
(***************************************************************************)
EXTENDS Bank, FiniteSetTheorems, SequenceTheorems, WellFoundedInduction, TLAPS

BlockhashInfo == [hash: Hash, created_at_slot: Nat]

BankType == [slot: Nat, parent: Nat, parent_hash: Hash, blockhash_queue: Seq(BlockhashInfo),
             is_frozen: BOOLEAN, freeze_lock_count: Nat, finalized_hash: Hash \cup {NoHash}]

WorkerType == [pc: {"idle", "preflight", "run", "drop"}, bank: Nat]

ForkerType == [pc: {"idle", "wait", "swap", "finalize", "queue", "child"}, bank: Nat,
               queue: Seq(BlockhashInfo)]

\* Workers whose group holds the freeze lock of bank b.
On(b) == {w \in Worker : worker[w].bank = b}

\* A thread that is in process_batch or in new_from_parent works on a bank there is.
ThreadsOnBanks ==
    /\ worker \in [Worker -> WorkerType]
    /\ forker \in [Forker -> ForkerType]
    /\ \A w \in Worker : IF worker[w].pc = "idle" THEN worker[w].bank = 0
                         ELSE worker[w].bank \in DOMAIN banks
    /\ \A f \in Forker : forker[f].pc # "idle" => forker[f].bank \in DOMAIN banks

BanksTyped ==
    /\ banks \in Seq(BankType)
    /\ \A b \in DOMAIN banks : banks[b].parent \in 0..(b - 1)

\* freeze_lock_count is the number of groups that hold the bank.
CountsHolders == \A b \in DOMAIN banks : banks[b].freeze_lock_count = Cardinality(On(b))

HistoryTyped ==
    /\ accounts \in AccountState
    /\ early \in Seq(SUBSET Worker) /\ Len(early) = Len(banks)
    /\ sealed \in Seq(AccountState \cup {{}}) /\ Len(sealed) = Len(banks)

Types == BanksTyped /\ ThreadsOnBanks /\ CountsHolders /\ HistoryTyped

\* What the run checks follows.
LEMMA TypesSuffice == Types => TypeOK
  <1> SUFFICES ASSUME Types PROVE TypeOK
    OBVIOUS
  <1>1. ASSUME NEW b \in DOMAIN banks
        PROVE  /\ banks[b].slot \in Nat
               /\ banks[b].parent \in 0..(b - 1)
               /\ banks[b].parent_hash \in Hash
               /\ banks[b].finalized_hash \in Hash \cup {NoHash}
               /\ banks[b].is_frozen \in BOOLEAN
               /\ banks[b].freeze_lock_count = Cardinality({w \in Worker : worker[w].bank = b})
    <2>1. banks[b] \in BankType
      BY DEF Types, BanksTyped
    <2> QED
      BY <2>1 DEF Types, BanksTyped, CountsHolders, On, BankType
  <1> QED
    BY <1>1 DEF TypeOK, Types, HistoryTyped

-----------------------------------------------------------------------------
\* A non-empty set of naturals has a smallest element.
LEMMA SmallestElement ==
    ASSUME NEW S \in SUBSET Nat, S # {}
    PROVE  \E x \in S : \A y \in S : x <= y
  <1> DEFINE R == OpToRel(<, Nat)
  <1>1. IsWellFoundedOn(R, Nat)
    BY NatLessThanWellFounded
  <1>2. R = {p \in Nat \X Nat : p[1] < p[2]}
    BY DEF OpToRel
  <1> HIDE DEF R
  <1>3. PICK x \in S : \A y \in S : ~(<<y, x>> \in R)
    BY <1>1, WFMin
  <1>4. \A y \in S : ~(y < x)
    BY <1>2, <1>3
  <1> QED
    BY <1>4

\* Induction over the positive naturals, for a set: what holds for n if it holds for
\* all smaller numbers holds for all.
LEMMA StrongInduction ==
    ASSUME NEW N \in Nat, NEW S \in SUBSET (1..N),
           \A n \in 1..N : (\A m \in 1..N : m < n => m \in S) => n \in S
    PROVE  S = 1..N
  <1> DEFINE T == (1..N) \ S
  <1> SUFFICES ASSUME T # {} PROVE FALSE
    OBVIOUS
  <1>1. T \in SUBSET Nat
    OBVIOUS
  <1> HIDE DEF T
  <1>2. PICK n \in T : \A m \in T : n <= m
    BY <1>1, SmallestElement
  <1>3. n \in 1..N /\ n \notin S
    BY DEF T
  <1>4. ASSUME NEW m \in 1..N, m < n PROVE m \in S
    <2>1. m \notin T
      BY <1>2, <1>3, <1>4
    <2> QED
      BY <2>1 DEF T
  <1> QED
    BY <1>3, <1>4

\* Replacing one bank of the sequence.
LEMMA BankUpdate ==
    ASSUME NEW s \in Seq(BankType), NEW b \in DOMAIN s, NEW new \in BankType
    PROVE  /\ [s EXCEPT ![b] = new] \in Seq(BankType)
           /\ DOMAIN [s EXCEPT ![b] = new] = DOMAIN s
           /\ Len([s EXCEPT ![b] = new]) = Len(s)
           /\ [s EXCEPT ![b] = new][b] = new
           /\ \A c \in DOMAIN s : c # b => [s EXCEPT ![b] = new][c] = s[c]
  OBVIOUS

\* The holders of a bank can be counted.
LEMMA HoldersFinite ==
    ASSUME NEW S \in SUBSET Worker
    PROVE  IsFiniteSet(S) /\ Cardinality(S) \in Nat
  BY WorkersFinite, FS_Subset, FS_CardinalityType

\* The first bank has the type of a bank.
LEMMA GenesisTyped == GenesisBank \in BankType
  <1>1. <<[hash |-> default_hash, created_at_slot |-> 0]>> \in Seq(BlockhashInfo)
    BY DEF BlockhashInfo, Hash
  <1>2. default_hash \in Hash
    BY DEF Hash
  <1> QED
    BY <1>1, <1>2 DEF GenesisBank, BankType

\* Types is inductive: it holds at the start, and the lemmas below take one operation each.
LEMMA InitTypes == Init => Types
  <1> SUFFICES ASSUME Init PROVE Types
    OBVIOUS
  <1>1. BanksTyped
    <2>1. banks = <<GenesisBank>> /\ GenesisBank.parent = 0
      BY DEF Init, GenesisBank
    <2> QED
      BY <2>1, GenesisTyped DEF BanksTyped
  <1>2. ThreadsOnBanks
    BY DEF Init, ThreadsOnBanks, Idle, WorkerType, ForkerType
  <1>3. CountsHolders
    <2>1. \A b \in DOMAIN banks : b = 1 /\ banks[b].freeze_lock_count = 0
      BY DEF Init, GenesisBank
    <2>2. On(1) = {}
      BY DEF On, Init, Idle
    <2> QED
      BY <2>1, <2>2, FS_EmptySet DEF CountsHolders
  <1>4. HistoryTyped
    BY BankConstants DEF Init, HistoryTyped
  <1> QED
    BY <1>1, <1>2, <1>3, <1>4 DEF Types

-----------------------------------------------------------------------------
\* What a step needs to know of the types of a worker's and a forker's bank.
LEMMA WorkerBank ==
    ASSUME Types, NEW w \in Worker, worker[w].pc # "idle"
    PROVE  worker[w].bank \in DOMAIN banks /\ banks[worker[w].bank] \in BankType
  BY DEF Types, ThreadsOnBanks, BanksTyped

\* A thread that is in new_from_parent works on a bank there is.
LEMMA ForkerBank ==
    ASSUME Types, NEW f \in Forker, forker[f].pc # "idle"
    PROVE  forker[f].bank \in DOMAIN banks /\ banks[forker[f].bank] \in BankType
  BY DEF Types, ThreadsOnBanks, BanksTyped

\* Steps of one worker that leave the banks alone and do not move it to another bank.
LEMMA WorkerStays ==
    ASSUME Types, NEW w \in Worker, NEW pc \in {"run", "drop"}, worker[w].pc # "idle",
           worker' = [worker EXCEPT ![w].pc = pc],
           accounts' \in AccountState, UNCHANGED <<banks, forker, early, sealed>>
    PROVE  Types'
  <1>1. worker \in [Worker -> WorkerType]
    BY DEF Types, ThreadsOnBanks
  <1>2. /\ worker' \in [Worker -> WorkerType]
        /\ worker'[w].pc = pc
        /\ \A v \in Worker : /\ worker'[v].bank = worker[v].bank
                             /\ v # w => worker'[v] = worker[v]
    BY <1>1 DEF WorkerType
  <1>3. ThreadsOnBanks'
    BY <1>2, WorkerBank DEF Types, ThreadsOnBanks
  <1>4. \A b : On(b)' = On(b)
    BY <1>2 DEF On
  <1>5. CountsHolders'
    BY <1>4 DEF Types, CountsHolders
  <1> QED
    BY <1>3, <1>5 DEF Types, BanksTyped, HistoryTyped

LEMMA acquire_freeze_lockTypes ==
    ASSUME Types, NEW w \in Worker, NEW b \in DOMAIN banks, acquire_freeze_lock(w, b)
    PROVE  Types'
  <1> DEFINE new == [banks[b] EXCEPT !.freeze_lock_count = banks[b].freeze_lock_count + 1]
  <1>1. banks \in Seq(BankType) /\ banks[b] \in BankType
    BY DEF Types, BanksTyped
  <1>a. banks[b].freeze_lock_count + 1 \in Nat
    BY <1>1 DEF BankType
  <1>2. new \in BankType /\ new.parent = banks[b].parent
        /\ new.freeze_lock_count = banks[b].freeze_lock_count + 1
    BY <1>1, <1>a DEF BankType
  <1>3. banks' = [banks EXCEPT ![b] = new]
    BY DEF acquire_freeze_lock
  <1> HIDE DEF new
  <1>4. /\ banks' \in Seq(BankType) /\ DOMAIN banks' = DOMAIN banks /\ Len(banks') = Len(banks)
        /\ banks'[b] = new
        /\ \A c \in DOMAIN banks : c # b => banks'[c] = banks[c]
    BY <1>1, <1>2, <1>3, BankUpdate
  <1>5. worker \in [Worker -> WorkerType] /\ worker[w].pc = "idle" /\ worker[w].bank = 0
    BY DEF Types, ThreadsOnBanks, acquire_freeze_lock
  <1>6. b \in Nat \ {0}
    BY <1>1
  <1>7. worker' = [worker EXCEPT ![w] = [pc |-> "preflight", bank |-> b]]
    BY DEF acquire_freeze_lock
  <1>8. BanksTyped'
    BY <1>2, <1>4 DEF Types, BanksTyped
  <1>9. ThreadsOnBanks'
    BY <1>4, <1>5, <1>6, <1>7 DEF Types, ThreadsOnBanks, WorkerType, acquire_freeze_lock
  <1>10. CountsHolders'
    <2>1. On(b)' = On(b) \cup {w} /\ w \notin On(b)
      BY <1>5, <1>6, <1>7 DEF On
    <2>2. \A c \in DOMAIN banks : c # b => On(c)' = On(c)
      BY <1>1, <1>5, <1>6, <1>7 DEF On
    <2>3. IsFiniteSet(On(b)) /\ Cardinality(On(b)) \in Nat
      BY HoldersFinite DEF On
    <2>4. Cardinality(On(b)') = Cardinality(On(b)) + 1
      BY <2>1, <2>3, FS_AddElement
    <2> QED
      BY <1>2, <1>4, <2>2, <2>4 DEF Types, CountsHolders
  <1>11. HistoryTyped'
    BY <1>4 DEF Types, HistoryTyped, acquire_freeze_lock
  <1> QED
    BY <1>8, <1>9, <1>10, <1>11 DEF Types

LEMMA DropFreezeLockTypes ==
    ASSUME Types, NEW w \in Worker, DropFreezeLock(w)
    PROVE  Types'
  <1>0. PICK b \in DOMAIN banks : b = worker[w].bank
    BY WorkerBank DEF DropFreezeLock
  <1> DEFINE new == [banks[b] EXCEPT !.freeze_lock_count = banks[b].freeze_lock_count - 1]
  <1>1. banks \in Seq(BankType) /\ b \in DOMAIN banks /\ banks[b] \in BankType
    BY DEF Types, BanksTyped
  <1>a. IsFiniteSet(On(b)) /\ Cardinality(On(b)) \in Nat /\ w \in On(b)
    BY <1>0, HoldersFinite DEF On
  <1>b. /\ Cardinality(On(b) \ {w}) = banks[b].freeze_lock_count - 1
        /\ banks[b].freeze_lock_count - 1 \in Nat
    <2>1. /\ IsFiniteSet(On(b) \ {w})
          /\ Cardinality(On(b) \ {w}) = Cardinality(On(b)) - 1
      BY <1>a, FS_RemoveElement
    <2>2. Cardinality(On(b) \ {w}) \in Nat
      BY <2>1, FS_CardinalityType
    <2>3. banks[b].freeze_lock_count = Cardinality(On(b))
      BY <1>1 DEF Types, CountsHolders
    <2> QED
      BY <2>1, <2>2, <2>3
  <1>2. new \in BankType /\ new.parent = banks[b].parent
        /\ new.freeze_lock_count = banks[b].freeze_lock_count - 1
    BY <1>1, <1>b DEF BankType
  <1>3. banks' = [banks EXCEPT ![b] = new]
    BY <1>0 DEF DropFreezeLock
  <1> HIDE DEF new
  <1>4. /\ banks' \in Seq(BankType) /\ DOMAIN banks' = DOMAIN banks /\ Len(banks') = Len(banks)
        /\ banks'[b] = new
        /\ \A c \in DOMAIN banks : c # b => banks'[c] = banks[c]
    BY <1>1, <1>2, <1>3, BankUpdate
  <1>5. worker \in [Worker -> WorkerType]
    BY DEF Types, ThreadsOnBanks
  <1>6. b \in Nat \ {0}
    BY <1>1
  <1>7. worker' = [worker EXCEPT ![w] = Idle]
    BY DEF DropFreezeLock
  <1>8. BanksTyped'
    BY <1>2, <1>4 DEF Types, BanksTyped
  <1>9. ThreadsOnBanks'
    BY <1>4, <1>5, <1>7 DEF Types, ThreadsOnBanks, WorkerType, DropFreezeLock, Idle
  <1>10. CountsHolders'
    <2>1. On(b)' = On(b) \ {w}
      BY <1>0, <1>5, <1>6, <1>7 DEF On, Idle
    <2>2. \A c \in DOMAIN banks : c # b => On(c)' = On(c)
      <3>1. \A c \in DOMAIN banks : c # 0
        BY <1>1
      <3> QED
        BY <3>1, <1>0, <1>5, <1>6, <1>7 DEF On, Idle
    <2>3. ASSUME NEW c \in DOMAIN banks PROVE banks'[c].freeze_lock_count = Cardinality(On(c)')
      <3>1. CASE c = b
        BY <3>1, <1>2, <1>4, <1>b, <2>1
      <3>2. CASE c # b
        BY <3>2, <1>4, <2>2 DEF Types, CountsHolders
      <3> QED
        BY <3>1, <3>2
    <2> QED
      BY <1>4, <2>3 DEF CountsHolders
  <1>11. HistoryTyped'
    BY <1>4 DEF Types, HistoryTyped, DropFreezeLock
  <1> QED
    BY <1>8, <1>9, <1>10, <1>11 DEF Types

\* A step of one forker, with the banks as they were or more of them.
LEMMA ForkerMoves ==
    ASSUME Types, NEW f \in Forker, NEW new \in ForkerType,
           forker' = [forker EXCEPT ![f] = new], UNCHANGED worker,
           DOMAIN banks \subseteq DOMAIN banks',
           new.pc # "idle" => new.bank \in DOMAIN banks
    PROVE  ThreadsOnBanks'
  <1>1. forker \in [Forker -> ForkerType]
    BY DEF Types, ThreadsOnBanks
  <1>2. /\ forker' \in [Forker -> ForkerType]
        /\ forker'[f] = new
        /\ \A g \in Forker : g # f => forker'[g] = forker[g]
    BY <1>1
  <1> QED
    BY <1>2 DEF Types, ThreadsOnBanks

\* freeze sets a field of a bank that neither its line nor its count depends on.
LEMMA FrozenBank ==
    ASSUME Types, NEW b \in DOMAIN banks, NEW new \in BankType,
           new.parent = banks[b].parent, new.freeze_lock_count = banks[b].freeze_lock_count,
           banks' = [banks EXCEPT ![b] = new], UNCHANGED worker
    PROVE  /\ BanksTyped' /\ CountsHolders'
           /\ DOMAIN banks' = DOMAIN banks /\ Len(banks') = Len(banks)
           /\ banks'[b] = new
           /\ \A c \in DOMAIN banks : c # b => banks'[c] = banks[c]
  <1>1. banks \in Seq(BankType)
    BY DEF Types, BanksTyped
  <1>2. /\ banks' \in Seq(BankType) /\ DOMAIN banks' = DOMAIN banks /\ Len(banks') = Len(banks)
        /\ banks'[b] = new
        /\ \A c \in DOMAIN banks : c # b => banks'[c] = banks[c]
    BY <1>1, BankUpdate
  <1>3. \A c : On(c)' = On(c)
    BY DEF On
  <1> QED
    BY <1>2, <1>3 DEF Types, BanksTyped, CountsHolders

\* A forker's record with another pc.
LEMMA ForkerPc ==
    ASSUME Types, NEW f \in Forker, NEW pc \in {"wait", "swap", "finalize", "queue", "child"}
    PROVE  /\ [forker[f] EXCEPT !.pc = pc] \in ForkerType
           /\ [forker[f] EXCEPT !.pc = pc].pc = pc
           /\ [forker[f] EXCEPT !.pc = pc].bank = forker[f].bank
           /\ [forker[f] EXCEPT !.pc = pc].queue = forker[f].queue
           /\ [forker EXCEPT ![f].pc = pc] = [forker EXCEPT ![f] = [forker[f] EXCEPT !.pc = pc]]
  <1>1. forker[f] \in ForkerType
    BY DEF Types, ThreadsOnBanks
  <1> QED
    BY <1>1 DEF ForkerType

LEMMA FreezeWaitTypes ==
    ASSUME Types, NEW f \in Forker, FreezeWait(f)
    PROVE  Types'
  <1>1. forker[f].bank \in DOMAIN banks
    BY ForkerBank DEF FreezeWait
  <1>2. ThreadsOnBanks'
    BY <1>1, ForkerPc, ForkerMoves DEF FreezeWait
  <1> QED
    BY <1>2 DEF Types, FreezeWait, BanksTyped, CountsHolders, HistoryTyped, On

LEMMA new_from_parentTypes ==
    ASSUME Types, NEW f \in Forker, NEW b \in DOMAIN banks, new_from_parent(f, b)
    PROVE  Types'
  <1> DEFINE new == [pc |-> "wait", bank |-> b, queue |-> <<>>]
  <1>1. new \in ForkerType /\ new.bank = b
    BY DEF ForkerType, Types, BanksTyped
  <1>2. ThreadsOnBanks'
    BY <1>1, ForkerMoves DEF new_from_parent
  <1> QED
    BY <1>2 DEF Types, new_from_parent, BanksTyped, CountsHolders, HistoryTyped, On

\* A function of banks with another value for one of them.
LEMMA SeqUpdate ==
    ASSUME NEW S, NEW s \in Seq(S), NEW b \in DOMAIN s, NEW new \in S
    PROVE  /\ [s EXCEPT ![b] = new] \in Seq(S)
           /\ Len([s EXCEPT ![b] = new]) = Len(s)
           /\ [s EXCEPT ![b] = new][b] = new
           /\ \A c \in DOMAIN s : c # b => [s EXCEPT ![b] = new][c] = s[c]
  OBVIOUS

\* The first freeze of a bank notes who holds it.
LEMMA FreezeSwapNotes ==
    ASSUME Types, NEW f \in Forker, FreezeSwap(f), NEW b, b = forker[f].bank
    PROVE  /\ early' \in Seq(SUBSET Worker) /\ Len(early') = Len(early)
           /\ \A c \in DOMAIN banks : c # b => early'[c] = early[c]
           /\ banks[b].is_frozen => early'[b] = early[b]
           /\ ~banks[b].is_frozen => early'[b] = On(b)
  <1>1. b \in DOMAIN banks /\ banks \in Seq(BankType)
    BY ForkerBank DEF FreezeSwap, Types, BanksTyped
  <1>2. early' = IF banks[b].is_frozen THEN early ELSE [early EXCEPT ![b] = On(b)]
    BY DEF FreezeSwap, On
  <1>3. early \in Seq(SUBSET Worker) /\ DOMAIN early = DOMAIN banks /\ On(b) \in SUBSET Worker
    BY <1>1 DEF Types, HistoryTyped, On
  <1>4. CASE banks[b].is_frozen
    BY <1>2, <1>3, <1>4
  <1>5. CASE ~banks[b].is_frozen
    <2>1. early' = [early EXCEPT ![b] = On(b)]
      BY <1>2, <1>5
    <2> QED
      BY <1>1, <1>3, <1>5, <2>1, SeqUpdate
  <1> QED
    BY <1>4, <1>5

\* What FreezeSwap does, bank by bank.
LEMMA FreezeSwapSteps ==
    ASSUME Types, NEW f \in Forker, FreezeSwap(f), NEW b, b = forker[f].bank
    PROVE  /\ b \in DOMAIN banks
           /\ Types'
           /\ DOMAIN banks' = DOMAIN banks
           /\ banks'[b] = [banks[b] EXCEPT !.is_frozen = TRUE]
           /\ \A c \in DOMAIN banks : c # b => banks'[c] = banks[c]
  <1> DEFINE new == [banks[b] EXCEPT !.is_frozen = TRUE]
             pc == IF banks[b].is_frozen THEN "queue" ELSE "finalize"
  <1>1. b \in DOMAIN banks /\ banks[b] \in BankType /\ banks \in Seq(BankType)
    BY ForkerBank DEF FreezeSwap, Types, BanksTyped
  <1>2. /\ new \in BankType
        /\ new.parent = banks[b].parent
        /\ new.freeze_lock_count = banks[b].freeze_lock_count
    BY <1>1 DEF BankType
  <1>3. banks' = [banks EXCEPT ![b] = new] /\ UNCHANGED <<accounts, worker, sealed>>
    BY DEF FreezeSwap
  <1>4. forker' = [forker EXCEPT ![f].pc = pc]
    BY DEF FreezeSwap
  <1> HIDE DEF new, pc
  <1>5. /\ BanksTyped' /\ CountsHolders'
        /\ DOMAIN banks' = DOMAIN banks /\ Len(banks') = Len(banks)
        /\ banks'[b] = new
        /\ \A c \in DOMAIN banks : c # b => banks'[c] = banks[c]
    BY <1>1, <1>2, <1>3, FrozenBank
  <1>6. pc \in {"queue", "finalize"}
    BY DEF pc
  <1>7. ThreadsOnBanks'
    BY <1>1, <1>3, <1>4, <1>5, <1>6, ForkerPc, ForkerMoves
  <1>8. early' \in Seq(SUBSET Worker) /\ Len(early') = Len(early)
    BY FreezeSwapNotes
  <1>9. HistoryTyped'
    BY <1>3, <1>5, <1>8 DEF Types, HistoryTyped
  <1> QED
    BY <1>1, <1>5, <1>7, <1>9 DEF Types, new

\* What FreezeFinalize does to the bank, the first time and after that.
LEMMA FreezeFinalizeSteps ==
    ASSUME Types, NEW f \in Forker, FreezeFinalize(f), NEW b, b = forker[f].bank
    PROVE  /\ b \in DOMAIN banks
           /\ Types'
           /\ DOMAIN banks' = DOMAIN banks
           /\ \A c \in DOMAIN banks : c # b => banks'[c] = banks[c]
           /\ \A c \in DOMAIN banks : c # b => sealed'[c] = sealed[c]
           /\ banks[b].finalized_hash # NoHash =>
                 banks'[b] = banks[b] /\ sealed'[b] = sealed[b]
           /\ banks[b].finalized_hash = NoHash =>
                 /\ sealed'[b] = accounts
                 /\ \E order \in all_accounts(accounts) :
                       banks'[b] = [banks[b] EXCEPT !.finalized_hash = hash_accounts(order)]
  <1>1. b \in DOMAIN banks /\ banks[b] \in BankType /\ banks \in Seq(BankType)
    BY ForkerBank DEF FreezeFinalize, Types, BanksTyped
  <1>2. forker' = [forker EXCEPT ![f].pc = "queue"] /\ UNCHANGED <<accounts, worker, early>>
    BY DEF FreezeFinalize
  <1>3. CASE banks[b].finalized_hash # NoHash
    <2>1. UNCHANGED <<banks, sealed>>
      BY <1>3 DEF FreezeFinalize
    <2>2. ThreadsOnBanks'
      BY <1>1, <1>2, <2>1, ForkerPc, ForkerMoves
    <2>3. Types'
      BY <1>2, <2>1, <2>2 DEF Types, BanksTyped, CountsHolders, HistoryTyped, On
    <2> QED
      BY <1>1, <1>3, <2>1, <2>3
  <1>4. CASE banks[b].finalized_hash = NoHash
    <2>1. PICK order \in all_accounts(accounts) :
             banks' = [banks EXCEPT ![b].finalized_hash = hash_accounts(order)]
      BY <1>4 DEF FreezeFinalize
    <2> DEFINE new == [banks[b] EXCEPT !.finalized_hash = hash_accounts(order)]
    <2>2. hash_accounts(order) \in Hash
      BY DEF Types, HistoryTyped, Hash
    <2>3. /\ new \in BankType
          /\ new.parent = banks[b].parent
          /\ new.freeze_lock_count = banks[b].freeze_lock_count
      BY <1>1, <2>2 DEF BankType
    <2>4. banks' = [banks EXCEPT ![b] = new]
      BY <2>1
    <2>5. sealed' = [sealed EXCEPT ![b] = accounts]
      BY <1>4 DEF FreezeFinalize
    <2> HIDE DEF new
    <2>6. /\ BanksTyped' /\ CountsHolders'
          /\ DOMAIN banks' = DOMAIN banks /\ Len(banks') = Len(banks)
          /\ banks'[b] = new
          /\ \A c \in DOMAIN banks : c # b => banks'[c] = banks[c]
      BY <1>1, <1>2, <2>3, <2>4, FrozenBank
    <2>7. ThreadsOnBanks'
      BY <1>1, <1>2, <2>6, ForkerPc, ForkerMoves
    <2>8. /\ sealed \in Seq(AccountState \cup {{}}) /\ DOMAIN sealed = DOMAIN banks
          /\ accounts \in AccountState \cup {{}}
      BY <1>1 DEF Types, HistoryTyped
    <2>9. /\ sealed' \in Seq(AccountState \cup {{}}) /\ Len(sealed') = Len(sealed)
          /\ sealed'[b] = accounts
          /\ \A c \in DOMAIN banks : c # b => sealed'[c] = sealed[c]
      BY <1>1, <2>5, <2>8, SeqUpdate
    <2>10. HistoryTyped'
      BY <1>2, <2>6, <2>9 DEF Types, HistoryTyped
    <2> QED
      BY <1>1, <1>4, <2>6, <2>7, <2>9, <2>10 DEF Types, new
  <1> QED
    BY <1>3, <1>4

\* The hash of a bank is one a client may have got.
LEMMA HashTyped ==
    ASSUME NEW bank \in BankType
    PROVE  hash(bank) \in Hash
  BY DEF hash, BankType

\* Entering a hash, with the eviction of the oldest, gives a queue again.
LEMMA PushedTyped ==
    ASSUME NEW queue \in Seq(BlockhashInfo), NEW info \in BlockhashInfo
    PROVE  Pushed(queue, info) \in Seq(BlockhashInfo)
  <1> DEFINE longer == Append(queue, info)
  <1>1. longer \in Seq(BlockhashInfo) /\ Len(longer) = Len(queue) + 1 /\ Len(queue) \in Nat
    OBVIOUS
  <1> HIDE DEF longer
  <1>2. Tail(longer) \in Seq(BlockhashInfo)
    <2>1. longer # <<>>
      BY <1>1
    <2> QED
      BY <1>1, <2>1
  <1> QED
    BY <1>1, <1>2 DEF Pushed, longer

\* What a child's queue adds to its parent's.
Entry(parent) == [hash |-> hash(parent), created_at_slot |-> parent.slot]

\* The forking thread after it has extended its queue.
LEMMA ForkerExtended ==
    ASSUME NEW r \in ForkerType, NEW q
    PROVE  [r EXCEPT !.pc = "child", !.queue = q] = [pc |-> "child", bank |-> r.bank, queue |-> q]
  <1> DEFINE x == [r EXCEPT !.pc = "child"]
             y == [x EXCEPT !.queue = q]
  <1>1. x = [pc |-> "child", bank |-> r.bank, queue |-> r.queue]
    BY DEF ForkerType
  <1>2. [r EXCEPT !.pc = "child", !.queue = q] = y
    BY DEF ForkerType
  <1> HIDE DEF x
  <1>3. y = [pc |-> "child", bank |-> r.bank, queue |-> q]
    BY <1>1
  <1> QED
    BY <1>2, <1>3

\* The step that extends the queue: what it changes, and Types after it.
LEMMA ExtendQueueSteps ==
    ASSUME Types, NEW f \in Forker, ExtendQueue(f), NEW b, b = forker[f].bank
    PROVE  /\ b \in DOMAIN banks
           /\ Types'
           /\ forker'[f] = [pc |-> "child", bank |-> b,
                            queue |-> Pushed(banks[b].blockhash_queue, Entry(banks[b]))]
           /\ \A g \in Forker : g # f => forker'[g] = forker[g]
  <1> DEFINE longer == Pushed(banks[b].blockhash_queue, Entry(banks[b]))
             new == [pc |-> "child", bank |-> b, queue |-> longer]
  <1>1. b \in DOMAIN banks /\ banks[b] \in BankType
    BY ForkerBank DEF ExtendQueue
  <1>2. forker \in [Forker -> ForkerType] /\ forker[f] \in ForkerType
    BY DEF Types, ThreadsOnBanks
  <1>3. longer \in Seq(BlockhashInfo)
    <2>1. Entry(banks[b]) \in BlockhashInfo
      BY <1>1, HashTyped DEF BlockhashInfo, Entry, BankType
    <2>2. banks[b].blockhash_queue \in Seq(BlockhashInfo)
      BY <1>1 DEF BankType
    <2> QED
      BY <2>1, <2>2, PushedTyped
  <1>4. forker' = [forker EXCEPT ![f].pc = "child", ![f].queue = longer]
    BY DEF ExtendQueue, Entry
  <1> HIDE DEF longer
  <1>5. new \in ForkerType /\ forker' = [forker EXCEPT ![f] = new]
    <2>1. [forker[f] EXCEPT !.pc = "child", !.queue = longer] = new
      BY <1>2, ForkerExtended
    <2>2. forker' = [forker EXCEPT ![f] = [forker[f] EXCEPT !.pc = "child", !.queue = longer]]
      BY <1>2, <1>4 DEF ForkerType
    <2>3. new \in ForkerType
      BY <1>2, <1>3 DEF ForkerType
    <2> QED
      BY <2>1, <2>2, <2>3
  <1>6. ThreadsOnBanks'
    BY <1>1, <1>5, ForkerMoves DEF ExtendQueue
  <1>7. Types'
    BY <1>6 DEF Types, ExtendQueue, BanksTyped, CountsHolders, HistoryTyped, On
  <1> QED
    BY <1>1, <1>2, <1>5, <1>7 DEF longer

\* The child that MakeChild makes of bank b with a blockhash queue.
Child(b, queue) == [GenesisBank EXCEPT !.slot = banks[b].slot + 1, !.parent = b,
                        !.parent_hash = hash(banks[b]), !.blockhash_queue = queue]

\* The fields of a new child.
LEMMA ChildFields ==
    ASSUME Types, NEW b \in DOMAIN banks, NEW queue \in Seq(BlockhashInfo)
    PROVE  /\ Child(b, queue) \in BankType
           /\ Child(b, queue).parent = b
           /\ Child(b, queue).slot = banks[b].slot + 1
           /\ Child(b, queue).parent_hash = hash(banks[b])
           /\ Child(b, queue).blockhash_queue = queue
           /\ Child(b, queue).finalized_hash = NoHash
           /\ Child(b, queue).is_frozen = FALSE
           /\ Child(b, queue).freeze_lock_count = 0
  <1>1. banks[b] \in BankType /\ b \in Nat
    BY DEF Types, BanksTyped
  <1>2. hash(banks[b]) \in Hash /\ banks[b].slot + 1 \in Nat
    BY <1>1, HashTyped DEF BankType
  <1> QED
    BY <1>1, <1>2, GenesisTyped DEF Child, GenesisBank, BankType

\* The step that adds a child: the other banks stay, and Types holds after it.
LEMMA MakeChildSteps ==
    ASSUME Types, NEW f \in Forker, MakeChild(f), NEW b, b = forker[f].bank,
           NEW c, c = Len(banks) + 1
    PROVE  /\ b \in DOMAIN banks /\ b < c
           /\ Types'
           /\ Len(banks') = c /\ DOMAIN banks' = DOMAIN banks \cup {c} /\ c \notin DOMAIN banks
           /\ \A d \in DOMAIN banks : /\ banks'[d] = banks[d]
                                      /\ early'[d] = early[d] /\ sealed'[d] = sealed[d]
           /\ forker[f].queue \in Seq(BlockhashInfo)
           /\ banks'[c] = Child(b, forker[f].queue)
           /\ \A w \in Worker : worker[w].bank # c
  <1>1. b \in DOMAIN banks /\ banks[b] \in BankType /\ banks \in Seq(BankType)
    BY ForkerBank DEF MakeChild, Types, BanksTyped
  <1>2. forker[f] \in ForkerType
    BY DEF Types, ThreadsOnBanks
  <1> DEFINE child == Child(b, forker[f].queue)
  <1>3. /\ child \in BankType /\ child.parent = b /\ child.freeze_lock_count = 0
        /\ forker[f].queue \in Seq(BlockhashInfo)
    <2>1. forker[f].queue \in Seq(BlockhashInfo)
      BY <1>2 DEF ForkerType
    <2> QED
      BY <1>1, <2>1, ChildFields
  <1>4. banks' = Append(banks, child)
    BY DEF MakeChild, Child
  <1> HIDE DEF child
  <1>5. /\ c \in Nat /\ Len(banks') = c /\ DOMAIN banks' = DOMAIN banks \cup {c}
        /\ c \notin DOMAIN banks /\ b < c
        /\ banks' \in Seq(BankType) /\ banks'[c] = child
        /\ \A d \in DOMAIN banks : banks'[d] = banks[d]
    BY <1>1, <1>3, <1>4
  <1>6. \A w \in Worker : worker[w].bank # c
    BY <1>1, <1>5 DEF Types, ThreadsOnBanks
  <1>7. BanksTyped'
    BY <1>1, <1>3, <1>5 DEF Types, BanksTyped
  <1>8. UNCHANGED <<accounts, worker>>
    BY DEF MakeChild
  <1>9. CountsHolders'
    <2>1. On(c)' = {} /\ \A d : On(d)' = On(d)
      BY <1>6, <1>8 DEF On
    <2> QED
      BY <1>3, <1>5, <2>1, FS_EmptySet DEF Types, CountsHolders
  <1>10. ThreadsOnBanks'
    <2> DEFINE new == [pc |-> "idle", bank |-> 0, queue |-> <<>>]
    <2>1. new \in ForkerType /\ new.pc = "idle"
      BY DEF ForkerType
    <2>2. forker' = [forker EXCEPT ![f] = new]
      BY DEF MakeChild
    <2> QED
      BY <1>5, <1>8, <2>1, <2>2, ForkerMoves
  <1>11. /\ early' = Append(early, {}) /\ sealed' = Append(sealed, {})
         /\ early \in Seq(SUBSET Worker) /\ sealed \in Seq(AccountState \cup {{}})
         /\ Len(early) = Len(banks) /\ Len(sealed) = Len(banks)
    BY DEF MakeChild, Types, HistoryTyped
  <1>12. \A d \in DOMAIN banks : early'[d] = early[d] /\ sealed'[d] = sealed[d]
    BY <1>1, <1>11
  <1>13. HistoryTyped'
    BY <1>1, <1>5, <1>8, <1>11 DEF Types, HistoryTyped
  <1> QED
    BY <1>1, <1>3, <1>5, <1>6, <1>7, <1>9, <1>10, <1>12, <1>13 DEF Types, child

LEMMA NextTypes == Types /\ [Next]_vars => Types'
  <1> SUFFICES ASSUME Types, [Next]_vars PROVE Types'
    OBVIOUS
  <1>1. ASSUME NEW w \in Worker, NEW b \in DOMAIN banks, acquire_freeze_lock(w, b) PROVE Types'
    BY <1>1, acquire_freeze_lockTypes
  <1>2. ASSUME NEW w \in Worker, NEW recent \in Hash, check_preflight_rules(w, recent) PROVE Types'
    <2>1. PICK pc \in {"run", "drop"} : worker' = [worker EXCEPT ![w].pc = pc]
      BY <1>2 DEF check_preflight_rules
    <2> QED
      BY <1>2, <2>1, WorkerStays DEF check_preflight_rules, Types, HistoryTyped
  <1>3. ASSUME NEW w \in Worker, NEW new \in AccountState, Commit(w, new) PROVE Types'
    BY <1>3, WorkerStays DEF Commit
  <1>4. ASSUME NEW w \in Worker, DropFreezeLock(w) PROVE Types'
    BY <1>4, DropFreezeLockTypes
  <1>5. ASSUME NEW f \in Forker, NEW b \in DOMAIN banks, new_from_parent(f, b) PROVE Types'
    BY <1>5, new_from_parentTypes
  <1>6. ASSUME NEW f \in Forker, FreezeWait(f) PROVE Types'
    BY <1>6, FreezeWaitTypes
  <1>7. ASSUME NEW f \in Forker, FreezeSwap(f) PROVE Types'
    BY <1>7, FreezeSwapSteps
  <1>8. ASSUME NEW f \in Forker, FreezeFinalize(f) PROVE Types'
    BY <1>8, FreezeFinalizeSteps
  <1>9. ASSUME NEW f \in Forker, ExtendQueue(f) PROVE Types'
    BY <1>9, ExtendQueueSteps
  <1>10. ASSUME NEW f \in Forker, MakeChild(f) PROVE Types'
    BY <1>10, MakeChildSteps
  <1>11. CASE UNCHANGED vars
    BY <1>11 DEF vars, Types, BanksTyped, ThreadsOnBanks, CountsHolders, HistoryTyped, On
  <1> QED
    BY <1>1, <1>2, <1>3, <1>4, <1>5, <1>6, <1>7, <1>8, <1>9, <1>10, <1>11 DEF Next

\* Types holds in every reachable state, whatever workers and forking threads do.
THEOREM TypesHold == Spec => []Types
  BY InitTypes, NextTypes, PTL DEF Spec

\* Types, and freeze_lock_count is the number of groups that hold the bank: whatever
\* a group's fate, its guard gives the lock back once.
THEOREM TypeCorrect == Spec => []TypeOK
  BY TypesHold, TypesSuffice, PTL

-----------------------------------------------------------------------------
\* Two banks that differ in the freeze lock only.
SameButCount(new, old) ==
    /\ new.slot = old.slot /\ new.parent = old.parent
    /\ new.parent_hash = old.parent_hash /\ new.blockhash_queue = old.blockhash_queue
    /\ new.is_frozen = old.is_frozen /\ new.finalized_hash = old.finalized_hash

\* The steps of the workers change nothing else of a bank.
LEMMA WorkerStepBanks ==
    ASSUME Types, NEW w \in Worker,
           \/ \E b \in DOMAIN banks : acquire_freeze_lock(w, b)
           \/ \E recent \in Hash : check_preflight_rules(w, recent)
           \/ \E new \in AccountState : Commit(w, new)
           \/ DropFreezeLock(w)
    PROVE  /\ DOMAIN banks' = DOMAIN banks
           /\ \A b \in DOMAIN banks : SameButCount(banks'[b], banks[b])
           /\ UNCHANGED <<forker, early, sealed>>
  <1>1. /\ banks \in Seq(BankType)
        /\ \A b \in DOMAIN banks : banks[b] \in BankType
    BY DEF Types, BanksTyped
  <1>2. ASSUME NEW b \in DOMAIN banks, acquire_freeze_lock(w, b)
        PROVE  /\ DOMAIN banks' = DOMAIN banks
               /\ \A c \in DOMAIN banks : SameButCount(banks'[c], banks[c])
               /\ UNCHANGED <<forker, early, sealed>>
    BY <1>1, <1>2 DEF acquire_freeze_lock, BankType, SameButCount
  <1>3. ASSUME DropFreezeLock(w)
        PROVE  /\ DOMAIN banks' = DOMAIN banks
               /\ \A c \in DOMAIN banks : SameButCount(banks'[c], banks[c])
               /\ UNCHANGED <<forker, early, sealed>>
    BY <1>1, <1>3 DEF DropFreezeLock, BankType, SameButCount
  <1> QED
    BY <1>2, <1>3 DEF check_preflight_rules, Commit, SameButCount

\* A finalized hash is never replaced and a frozen bank never thaws, whatever the
\* number of threads that freeze it and of groups that still hold it.
THEOREM FrozenStaysFinal == Spec => FrozenIsFinal
  <1> DEFINE Step == \A b \in DOMAIN banks :
                        /\ banks[b].is_frozen => banks'[b].is_frozen
                        /\ banks[b].finalized_hash # NoHash =>
                              banks'[b].finalized_hash = banks[b].finalized_hash
  <1>1. Types /\ [Next]_vars => [Step]_vars
    <2> SUFFICES ASSUME Types, Next PROVE Step
      OBVIOUS
    <2>0. \A b \in DOMAIN banks : banks[b] \in BankType
      BY DEF Types, BanksTyped
    <2>1. ASSUME NEW w \in Worker,
                 \/ \E b \in DOMAIN banks : acquire_freeze_lock(w, b)
                 \/ \E recent \in Hash : check_preflight_rules(w, recent)
                 \/ \E new \in AccountState : Commit(w, new)
                 \/ DropFreezeLock(w)
          PROVE  Step
      BY <2>1, WorkerStepBanks DEF SameButCount
    <2>2. ASSUME NEW f \in Forker, NEW b \in DOMAIN banks, new_from_parent(f, b) PROVE Step
      BY <2>2 DEF new_from_parent
    <2>3. ASSUME NEW f \in Forker, FreezeWait(f) PROVE Step
      BY <2>3 DEF FreezeWait
    <2>4. ASSUME NEW f \in Forker, FreezeSwap(f) PROVE Step
      <3>1. PICK b : b = forker[f].bank
        OBVIOUS
      <3>2. /\ b \in DOMAIN banks
            /\ banks'[b] = [banks[b] EXCEPT !.is_frozen = TRUE]
            /\ \A c \in DOMAIN banks : c # b => banks'[c] = banks[c]
        BY <2>4, <3>1, FreezeSwapSteps
      <3> QED
        BY <2>0, <3>2 DEF BankType
    <2>5. ASSUME NEW f \in Forker, FreezeFinalize(f) PROVE Step
      <3>1. PICK b : b = forker[f].bank
        OBVIOUS
      <3>2. /\ b \in DOMAIN banks
            /\ \A c \in DOMAIN banks : c # b => banks'[c] = banks[c]
            /\ banks[b].finalized_hash # NoHash => banks'[b] = banks[b]
            /\ banks[b].finalized_hash = NoHash =>
                 \E order \in all_accounts(accounts) :
                    banks'[b] = [banks[b] EXCEPT !.finalized_hash = hash_accounts(order)]
        BY <2>5, <3>1, FreezeFinalizeSteps
      <3> QED
        BY <2>0, <3>2 DEF BankType
    <2>6. ASSUME NEW f \in Forker, ExtendQueue(f) PROVE Step
      BY <2>6 DEF ExtendQueue
    <2>7. ASSUME NEW f \in Forker, MakeChild(f) PROVE Step
      BY <2>7, MakeChildSteps
    <2> QED
      BY <2>1, <2>2, <2>3, <2>4, <2>5, <2>6, <2>7 DEF Next
  <1> QED
    BY <1>1, TypesHold, PTL DEF Spec, FrozenIsFinal

\* The first freeze of a bank counts in whoever holds it.
LEMMA FreezeSwapEarly ==
    ASSUME Types, OnlyEarlyGroupsCommit, NEW f \in Forker, FreezeSwap(f)
    PROVE  OnlyEarlyGroupsCommit'
  <1>1. PICK b : b = forker[f].bank
    OBVIOUS
  <1>2. /\ b \in DOMAIN banks
        /\ \A c \in DOMAIN banks : c # b => banks'[c] = banks[c]
    BY <1>1, FreezeSwapSteps
  <1>3. /\ \A c \in DOMAIN banks : c # b => early'[c] = early[c]
        /\ banks[b].is_frozen => early'[b] = early[b]
        /\ ~banks[b].is_frozen => early'[b] = On(b)
    BY <1>1, FreezeSwapNotes
  <1>5. worker' = worker
    BY DEF FreezeSwap
  <1> SUFFICES ASSUME NEW v \in Worker, worker[v].pc = "run",
                      banks'[worker[v].bank].is_frozen
               PROVE  v \in early'[worker[v].bank]
    BY <1>5 DEF OnlyEarlyGroupsCommit
  <1>6. worker[v].bank \in DOMAIN banks
    BY WorkerBank
  <1>7. CASE worker[v].bank = b
    BY <1>3, <1>7 DEF OnlyEarlyGroupsCommit, On
  <1>8. CASE worker[v].bank # b
    BY <1>2, <1>3, <1>6, <1>8 DEF OnlyEarlyGroupsCommit
  <1> QED
    BY <1>7, <1>8

\* OnlyEarlyGroupsCommit is inductive under the types: a group gets to "run" only on
\* a bank that is not frozen, and the bank's first freeze counts it in.
LEMMA NextEarly == Types /\ OnlyEarlyGroupsCommit /\ [Next]_vars => OnlyEarlyGroupsCommit'
  <1> SUFFICES ASSUME Types, OnlyEarlyGroupsCommit, [Next]_vars,
                      NEW v \in Worker, worker'[v].pc = "run",
                      banks'[worker'[v].bank].is_frozen
               PROVE  v \in early'[worker'[v].bank]
    BY DEF OnlyEarlyGroupsCommit
  <1>0. /\ worker \in [Worker -> WorkerType] /\ worker[v] \in WorkerType
        /\ \A b \in DOMAIN banks : banks[b] \in BankType
    BY DEF Types, BanksTyped, ThreadsOnBanks
  \* It is enough that v was running before, and neither its bank's flag nor early moved.
  <1>a. ASSUME worker'[v] = worker[v], early' = early,
               banks'[worker[v].bank].is_frozen = banks[worker[v].bank].is_frozen
        PROVE  v \in early'[worker'[v].bank]
    BY <1>a DEF OnlyEarlyGroupsCommit
  <1>1. ASSUME NEW w \in Worker, NEW b \in DOMAIN banks, acquire_freeze_lock(w, b)
        PROVE  v \in early'[worker'[v].bank]
    <2>1. v # w /\ worker'[v] = worker[v] /\ early' = early
      BY <1>0, <1>1 DEF acquire_freeze_lock
    <2>2. worker[v].bank \in DOMAIN banks
      BY <2>1, WorkerBank
    <2> QED
      BY <1>1, <1>a, <2>1, <2>2, WorkerStepBanks DEF SameButCount
  <1>2. ASSUME NEW w \in Worker, NEW recent \in Hash, check_preflight_rules(w, recent)
        PROVE  v \in early'[worker'[v].bank]
    <2>1. CASE v = w
      <3>1. worker'[w].bank = worker[w].bank /\ banks' = banks
        BY <1>0, <1>2, <2>1 DEF check_preflight_rules, WorkerType
      <3>2. ~banks[worker[w].bank].is_frozen
        BY <1>0, <1>2, <2>1 DEF check_preflight_rules, WorkerType
      <3> QED
        BY <2>1, <3>1, <3>2
    <2>2. CASE v # w
      BY <1>0, <1>2, <1>a, <2>2 DEF check_preflight_rules
    <2> QED
      BY <2>1, <2>2
  <1>3. ASSUME NEW w \in Worker, NEW new \in AccountState, Commit(w, new)
        PROVE  v \in early'[worker'[v].bank]
    <2>1. v # w /\ worker'[v] = worker[v]
      BY <1>0, <1>3 DEF Commit, WorkerType
    <2> QED
      BY <1>3, <1>a, <2>1 DEF Commit
  <1>4. ASSUME NEW w \in Worker, DropFreezeLock(w)
        PROVE  v \in early'[worker'[v].bank]
    <2>1. v # w /\ worker'[v] = worker[v] /\ early' = early
      BY <1>0, <1>4 DEF DropFreezeLock, Idle
    <2>2. worker[v].bank \in DOMAIN banks
      BY <2>1, WorkerBank
    <2> QED
      BY <1>4, <1>a, <2>1, <2>2, WorkerStepBanks DEF SameButCount
  <1>5. ASSUME NEW f \in Forker, NEW b \in DOMAIN banks, new_from_parent(f, b)
        PROVE  v \in early'[worker'[v].bank]
    BY <1>5, <1>a DEF new_from_parent
  <1>6. ASSUME NEW f \in Forker, FreezeWait(f)
        PROVE  v \in early'[worker'[v].bank]
    BY <1>6, <1>a DEF FreezeWait
  <1>7. ASSUME NEW f \in Forker, FreezeSwap(f)
        PROVE  v \in early'[worker'[v].bank]
    BY <1>7, FreezeSwapEarly DEF OnlyEarlyGroupsCommit
  <1>8. ASSUME NEW f \in Forker, FreezeFinalize(f)
        PROVE  v \in early'[worker'[v].bank]
    <2>1. PICK b : b = forker[f].bank
      OBVIOUS
    <2>2. /\ b \in DOMAIN banks
          /\ \A c \in DOMAIN banks : c # b => banks'[c] = banks[c]
          /\ banks[b].finalized_hash # NoHash => banks'[b] = banks[b]
          /\ banks[b].finalized_hash = NoHash =>
               \E order \in all_accounts(accounts) :
                  banks'[b] = [banks[b] EXCEPT !.finalized_hash = hash_accounts(order)]
      BY <1>8, <2>1, FreezeFinalizeSteps
    <2>3. banks'[b].is_frozen = banks[b].is_frozen
      <3>1. ASSUME NEW r \in BankType, NEW h
            PROVE  [r EXCEPT !.finalized_hash = h].is_frozen = r.is_frozen
        BY DEF BankType
      <3>2. banks[b] \in BankType
        BY <1>0, <2>2
      <3>3. CASE banks[b].finalized_hash # NoHash
        BY <2>2, <3>3
      <3>4. CASE banks[b].finalized_hash = NoHash
        <4>1. PICK h : banks'[b] = [banks[b] EXCEPT !.finalized_hash = h]
          BY <2>2, <3>4
        <4> QED
          BY <3>1, <3>2, <4>1, Zenon
      <3> QED
        BY <3>3, <3>4
    <2>4. worker' = worker /\ early' = early
      BY <1>8 DEF FreezeFinalize
    <2>5. worker[v].bank \in DOMAIN banks
      BY <2>4, WorkerBank
    <2>6. banks'[worker[v].bank].is_frozen = banks[worker[v].bank].is_frozen
      BY <2>2, <2>3, <2>5, Zenon
    <2> QED
      BY <1>a, <2>4, <2>6, Zenon
  <1>9. ASSUME NEW f \in Forker, ExtendQueue(f)
        PROVE  v \in early'[worker'[v].bank]
    BY <1>9, <1>a DEF ExtendQueue
  <1>10. ASSUME NEW f \in Forker, MakeChild(f)
         PROVE  v \in early'[worker'[v].bank]
    <2>1. worker' = worker
      BY <1>10 DEF MakeChild
    <2>2. worker[v].bank \in DOMAIN banks
      BY <2>1, WorkerBank
    <2>3. \A d \in DOMAIN banks : banks'[d] = banks[d] /\ early'[d] = early[d]
      BY <1>10, MakeChildSteps
    <2> QED
      BY <2>1, <2>2, <2>3 DEF OnlyEarlyGroupsCommit
  <1>11. CASE UNCHANGED vars
    BY <1>11, <1>a DEF vars
  <1> QED
    BY <1>1, <1>2, <1>3, <1>4, <1>5, <1>6, <1>7, <1>8, <1>9, <1>10, <1>11 DEF Next

\* The groups that can still commit through a frozen bank held it when it was frozen.
THEOREM LateGroupsRefused == Spec => []OnlyEarlyGroupsCommit
  <1>1. Init => OnlyEarlyGroupsCommit
    BY DEF Init, OnlyEarlyGroupsCommit, Idle
  <1> QED
    BY <1>1, NextEarly, TypesHold, PTL DEF Spec

-----------------------------------------------------------------------------
\* The line of banks, when one thread makes them, as the main loop does.

OneForker == \A f, g \in Forker : f = g

\* What a bank that is past finalize keeps.
Final(bank) == bank.is_frozen = TRUE /\ bank.finalized_hash # NoHash

\* How far new_from_parent is tells what its parent is.
ForkerProgress ==
    \A f \in Forker :
        /\ forker[f].pc = "finalize" => banks[forker[f].bank].is_frozen = TRUE
        /\ forker[f].pc \in {"queue", "child"} => Final(banks[forker[f].bank])
        /\ forker[f].pc = "child" =>
              forker[f].queue = Pushed(banks[forker[f].bank].blockhash_queue,
                                       Entry(banks[forker[f].bank]))

\* A frozen bank without a hash is the one that is being finalized.
HashUnderway ==
    \A b \in DOMAIN banks :
        banks[b].is_frozen = TRUE /\ banks[b].finalized_hash = NoHash =>
            \E f \in Forker : forker[f].pc = "finalize" /\ forker[f].bank = b

\* Every bank but the first is the child of a final one.
ChildOf(bank, parent) ==
    /\ Final(parent)
    /\ bank.slot = parent.slot + 1
    /\ bank.parent_hash = parent.finalized_hash
    /\ bank.blockhash_queue = Pushed(parent.blockhash_queue, Entry(parent))
LineOfBanks ==
    /\ 1 \in DOMAIN banks
    /\ banks[1].parent = 0 /\ banks[1].slot = 0
    /\ banks[1].blockhash_queue = <<[hash |-> default_hash, created_at_slot |-> 0]>>
    /\ \A b \in DOMAIN banks : b # 1 => /\ banks[b].parent \in DOMAIN banks
                                        /\ ChildOf(banks[b], banks[banks[b].parent])

LineInv == ForkerProgress /\ HashUnderway /\ LineOfBanks

\* What these say of a bank does not depend on its freeze lock.
LEMMA CountDoesNotMatter ==
    ASSUME NEW bank, NEW old, NEW parent, NEW oldParent,
           SameButCount(bank, old), SameButCount(parent, oldParent)
    PROVE  /\ Final(bank) <=> Final(old)
           /\ Entry(bank) = Entry(old)
           /\ ChildOf(bank, parent) <=> ChildOf(old, oldParent)
  <1>1. /\ Final(bank) <=> Final(old)
        /\ Final(parent) <=> Final(oldParent)
    BY DEF SameButCount, Final
  <1>2. Entry(bank) = Entry(old) /\ Entry(parent) = Entry(oldParent)
    BY DEF SameButCount, Entry, hash
  <1> QED
    BY <1>1, <1>2 DEF SameButCount, ChildOf

\* Steps after which every bank is what it was, but for the freeze lock.
LEMMA LineStays ==
    ASSUME Types, LineInv, DOMAIN banks' = DOMAIN banks,
           \A b \in DOMAIN banks : SameButCount(banks'[b], banks[b])
    PROVE  LineOfBanks'
  <1>1. \A b \in DOMAIN banks : /\ banks'[b].parent = banks[b].parent
                                /\ banks'[b].slot = banks[b].slot
                                /\ banks'[b].blockhash_queue = banks[b].blockhash_queue
    BY DEF SameButCount
  <1>2. ASSUME NEW b \in DOMAIN banks', b # 1
        PROVE  /\ banks'[b].parent \in DOMAIN banks'
               /\ ChildOf(banks'[b], banks'[banks'[b].parent])
    <2>1. banks[b].parent \in DOMAIN banks /\ ChildOf(banks[b], banks[banks[b].parent])
      BY <1>2 DEF LineInv, LineOfBanks
    <2>2. ChildOf(banks'[b], banks'[banks[b].parent])
      BY <1>2, <2>1, CountDoesNotMatter
    <2> QED
      BY <1>1, <2>1, <2>2
  <1> QED
    BY <1>1, <1>2 DEF LineInv, LineOfBanks

\* A group takes, uses and gives back its hold on a bank: the line of banks stays.
LEMMA WorkerStepLine ==
    ASSUME Types, LineInv, NEW w \in Worker,
           \/ \E b \in DOMAIN banks : acquire_freeze_lock(w, b)
           \/ \E recent \in Hash : check_preflight_rules(w, recent)
           \/ \E new \in AccountState : Commit(w, new)
           \/ DropFreezeLock(w)
    PROVE  LineInv'
  <1>1. /\ DOMAIN banks' = DOMAIN banks
        /\ \A b \in DOMAIN banks : SameButCount(banks'[b], banks[b])
        /\ forker' = forker
    BY WorkerStepBanks
  <1>2. LineOfBanks'
    BY <1>1, LineStays
  <1>3. HashUnderway'
    BY <1>1 DEF LineInv, HashUnderway, SameButCount
  <1>4. ForkerProgress'
    <2> SUFFICES ASSUME NEW f \in Forker
                 PROVE  /\ forker[f].pc = "finalize" => banks'[forker[f].bank].is_frozen = TRUE
                        /\ forker[f].pc \in {"queue", "child"} => Final(banks'[forker[f].bank])
                        /\ forker[f].pc = "child" =>
                              forker[f].queue = Pushed(banks'[forker[f].bank].blockhash_queue,
                                                       Entry(banks'[forker[f].bank]))
      BY <1>1 DEF ForkerProgress
    <2>1. CASE forker[f].pc \in {"finalize", "queue", "child"}
      <3>1. forker[f].bank \in DOMAIN banks
        BY <2>1, ForkerBank
      <3>2. SameButCount(banks'[forker[f].bank], banks[forker[f].bank])
        BY <1>1, <3>1
      <3>3. /\ Final(banks'[forker[f].bank]) <=> Final(banks[forker[f].bank])
            /\ Entry(banks'[forker[f].bank]) = Entry(banks[forker[f].bank])
        BY <3>2, CountDoesNotMatter
      <3> QED
        BY <3>2, <3>3 DEF LineInv, ForkerProgress, SameButCount
    <2>2. CASE forker[f].pc \notin {"finalize", "queue", "child"}
      BY <2>2
    <2> QED
      BY <2>1, <2>2
  <1> QED
    BY <1>2, <1>3, <1>4 DEF LineInv

\* While the one forker is not at "finalize", no frozen bank lacks its hash.
LEMMA NothingUnderway ==
    ASSUME OneForker, HashUnderway, NEW f \in Forker, forker[f].pc # "finalize",
           NEW b \in DOMAIN banks, banks[b].is_frozen = TRUE
    PROVE  banks[b].finalized_hash # NoHash
  BY DEF OneForker, HashUnderway

\* A bank that is not final has no children, so its flag and its hash can be set.
LEMMA LineUpdate ==
    ASSUME Types, LineInv, NEW b \in DOMAIN banks, ~Final(banks[b]),
           DOMAIN banks' = DOMAIN banks,
           \A c \in DOMAIN banks : c # b => banks'[c] = banks[c],
           banks'[b].slot = banks[b].slot, banks'[b].parent = banks[b].parent,
           banks'[b].parent_hash = banks[b].parent_hash,
           banks'[b].blockhash_queue = banks[b].blockhash_queue
    PROVE  LineOfBanks'
  <1>1. \A c \in DOMAIN banks : /\ banks'[c].slot = banks[c].slot
                                /\ banks'[c].parent = banks[c].parent
                                /\ banks'[c].parent_hash = banks[c].parent_hash
                                /\ banks'[c].blockhash_queue = banks[c].blockhash_queue
    OBVIOUS
  <1>2. ASSUME NEW c \in DOMAIN banks, c # 1
        PROVE  /\ banks'[c].parent \in DOMAIN banks'
               /\ ChildOf(banks'[c], banks'[banks'[c].parent])
    <2>1. banks[c].parent \in DOMAIN banks /\ ChildOf(banks[c], banks[banks[c].parent])
      BY <1>2 DEF LineInv, LineOfBanks
    <2>2. banks[c].parent # b
      BY <2>1 DEF ChildOf
    <2>3. banks'[banks[c].parent] = banks[banks[c].parent]
      BY <2>1, <2>2
    <2> QED
      BY <1>1, <2>1, <2>3 DEF ChildOf
  <1> QED
    BY <1>1, <1>2 DEF LineInv, LineOfBanks

\* Setting the frozen flag keeps the line: the thread that sets it owes the hash.
LEMMA FreezeSwapLine ==
    ASSUME OneForker, Types, LineInv, NEW f \in Forker, FreezeSwap(f)
    PROVE  LineInv'
  <1>1. PICK b : b = forker[f].bank
    OBVIOUS
  <1>2. /\ b \in DOMAIN banks /\ DOMAIN banks' = DOMAIN banks
        /\ banks'[b] = [banks[b] EXCEPT !.is_frozen = TRUE]
        /\ \A c \in DOMAIN banks : c # b => banks'[c] = banks[c]
    BY <1>1, FreezeSwapSteps
  <1>3. banks[b] \in BankType /\ forker \in [Forker -> ForkerType] /\ forker[f].pc = "swap"
    BY <1>2 DEF Types, BanksTyped, ThreadsOnBanks, FreezeSwap
  <1>4. /\ banks'[b].slot = banks[b].slot /\ banks'[b].parent = banks[b].parent
        /\ banks'[b].parent_hash = banks[b].parent_hash
        /\ banks'[b].blockhash_queue = banks[b].blockhash_queue
        /\ banks'[b].finalized_hash = banks[b].finalized_hash
        /\ banks'[b].is_frozen = TRUE
    BY <1>2, <1>3 DEF BankType
  <1>5. \A c \in DOMAIN banks : banks[c].is_frozen = TRUE => banks[c].finalized_hash # NoHash
    BY <1>3, NothingUnderway DEF LineInv
  <1>6. \A g \in Forker : g = f
    BY DEF OneForker
  <1>7. CASE banks[b].is_frozen = TRUE
    <2>1. /\ forker' = [forker EXCEPT ![f].pc = "queue"]
          /\ forker'[f].pc = "queue" /\ forker'[f].bank = b
      BY <1>1, <1>3, <1>7 DEF FreezeSwap, ForkerType
    <2>2. banks[b].finalized_hash # NoHash
      BY <1>2, <1>5, <1>7
    <2>3. \A c \in DOMAIN banks : SameButCount(banks'[c], banks[c])
      BY <1>2, <1>4, <1>7 DEF SameButCount
    <2>4. LineOfBanks'
      BY <1>2, <2>3, LineStays
    <2>5. HashUnderway'
      <3>1. \A c \in DOMAIN banks : banks'[c].is_frozen = TRUE => banks'[c].finalized_hash # NoHash
        BY <1>5, <2>3 DEF SameButCount
      <3> QED
        BY <1>2, <3>1 DEF HashUnderway
    <2>6. ForkerProgress'
      BY <1>4, <1>6, <2>1, <2>2 DEF ForkerProgress, Final
    <2> QED
      BY <2>4, <2>5, <2>6 DEF LineInv
  <1>8. CASE banks[b].is_frozen # TRUE
    <2>0. ~banks[b].is_frozen
      BY <1>3, <1>8 DEF BankType
    <2>1. /\ forker' = [forker EXCEPT ![f].pc = "finalize"]
          /\ forker'[f].pc = "finalize" /\ forker'[f].bank = b
      BY <1>1, <1>3, <2>0 DEF FreezeSwap, ForkerType
    <2>2. LineOfBanks'
      BY <1>2, <1>4, <1>8, LineUpdate DEF Final
    <2>3. HashUnderway'
      <3>1. ASSUME NEW c \in DOMAIN banks', banks'[c].is_frozen = TRUE,
                   banks'[c].finalized_hash = NoHash
            PROVE  c = b
        BY <1>2, <1>5, <3>1
      <3> QED
        BY <2>1, <3>1 DEF HashUnderway
    <2>4. ForkerProgress'
      BY <1>4, <1>6, <2>1 DEF ForkerProgress, Final
    <2> QED
      BY <2>2, <2>3, <2>4 DEF LineInv
  <1> QED
    BY <1>7, <1>8

\* Storing the hash makes the bank final. A hash that is there is not computed again.
LEMMA FreezeFinalizeLine ==
    ASSUME OneForker, Types, LineInv, NEW f \in Forker, FreezeFinalize(f)
    PROVE  LineInv'
  <1>1. PICK b : b = forker[f].bank
    OBVIOUS
  <1>2. /\ b \in DOMAIN banks /\ DOMAIN banks' = DOMAIN banks
        /\ \A c \in DOMAIN banks : c # b => banks'[c] = banks[c]
        /\ banks[b].finalized_hash # NoHash => banks'[b] = banks[b]
        /\ banks[b].finalized_hash = NoHash =>
             \E order \in all_accounts(accounts) :
                banks'[b] = [banks[b] EXCEPT !.finalized_hash = hash_accounts(order)]
    BY <1>1, FreezeFinalizeSteps
  <1>3. /\ banks[b] \in BankType /\ forker \in [Forker -> ForkerType]
        /\ forker[f].pc = "finalize" /\ banks[b].is_frozen = TRUE
    BY <1>1, <1>2 DEF Types, BanksTyped, ThreadsOnBanks, FreezeFinalize, LineInv, ForkerProgress
  <1>4. \A g \in Forker : g = f
    BY DEF OneForker
  <1>5. forker'[f].pc = "queue" /\ forker'[f].bank = b
    BY <1>1, <1>3 DEF FreezeFinalize, ForkerType
  <1>6. /\ banks'[b].slot = banks[b].slot /\ banks'[b].parent = banks[b].parent
        /\ banks'[b].parent_hash = banks[b].parent_hash
        /\ banks'[b].blockhash_queue = banks[b].blockhash_queue
        /\ banks'[b].is_frozen = TRUE
        /\ banks'[b].finalized_hash # NoHash
    <2>1. CASE banks[b].finalized_hash # NoHash
      BY <1>2, <1>3, <2>1
    <2>2. CASE banks[b].finalized_hash = NoHash
      <3>1. PICK order \in all_accounts(accounts) :
               banks'[b] = [banks[b] EXCEPT !.finalized_hash = hash_accounts(order)]
        BY <1>2, <2>2
      <3>2. hash_accounts(order) # NoHash
        <4>1. hash_accounts(order) \in Hash
          BY DEF Types, HistoryTyped, Hash
        <4> QED
          BY <4>1, NoHashAssumption
      <3> QED
        BY <1>3, <3>1, <3>2 DEF BankType
    <2> QED
      BY <2>1, <2>2
  <1>7. LineOfBanks'
    <2>1. CASE banks[b].finalized_hash # NoHash
      BY <1>2, <2>1, LineStays DEF SameButCount
    <2>2. CASE banks[b].finalized_hash = NoHash
      BY <1>2, <1>6, <2>2, LineUpdate DEF Final
    <2> QED
      BY <2>1, <2>2
  <1>8. HashUnderway'
    <2> SUFFICES ASSUME NEW c \in DOMAIN banks', banks'[c].is_frozen = TRUE,
                        banks'[c].finalized_hash = NoHash
                 PROVE  FALSE
      BY DEF HashUnderway
    <2>1. c # b /\ c \in DOMAIN banks /\ banks'[c] = banks[c]
      BY <1>2, <1>6
    <2>2. forker[f].bank = c
      BY <1>4, <2>1 DEF LineInv, HashUnderway
    <2> QED
      BY <1>1, <2>1, <2>2
  <1>9. ForkerProgress'
    BY <1>4, <1>5, <1>6 DEF ForkerProgress, Final
  <1> QED
    BY <1>7, <1>8, <1>9 DEF LineInv

\* A child is made of a final bank, so it extends the line.
LEMMA MakeChildLine ==
    ASSUME OneForker, Types, LineInv, NEW f \in Forker, MakeChild(f)
    PROVE  LineInv'
  <1>1. PICK b : b = forker[f].bank
    OBVIOUS
  <1>2. PICK c : c = Len(banks) + 1
    OBVIOUS
  <1>3. /\ b \in DOMAIN banks /\ DOMAIN banks' = DOMAIN banks \cup {c}
        /\ \A d \in DOMAIN banks : banks'[d] = banks[d]
    BY <1>1, <1>2, MakeChildSteps
  <1>4. c \notin DOMAIN banks /\ c # 1
    BY <1>1, <1>2, MakeChildSteps DEF LineInv, LineOfBanks
  <1>5. PICK queue \in Seq(BlockhashInfo) :
           queue = forker[f].queue /\ banks'[c] = Child(b, queue)
    <2>1. forker[f].queue \in Seq(BlockhashInfo) /\ banks \in Seq(BankType)
      BY DEF Types, BanksTyped, ThreadsOnBanks, ForkerType
    <2>2. banks' = Append(banks, Child(b, forker[f].queue))
      BY <1>1 DEF MakeChild, Child
    <2> QED
      BY <1>2, <2>1, <2>2
  <1>6. /\ banks'[c].parent = b /\ banks'[c].slot = banks[b].slot + 1
        /\ banks'[c].parent_hash = hash(banks[b])
        /\ banks'[c].blockhash_queue = forker[f].queue
        /\ banks'[c].is_frozen = FALSE
    <2>1. b \in DOMAIN banks
      BY <1>3
    <2>2. /\ Child(b, queue).parent = b
          /\ Child(b, queue).slot = banks[b].slot + 1
          /\ Child(b, queue).parent_hash = hash(banks[b])
          /\ Child(b, queue).blockhash_queue = queue
          /\ Child(b, queue).is_frozen = FALSE
      BY <2>1, ChildFields
    <2> QED
      BY <1>5, <2>2
  <1>7. \A g \in Forker : g = f
    BY DEF OneForker
  <1>8. forker[f].pc = "child" /\ forker'[f].pc = "idle"
    BY DEF MakeChild, Types, ThreadsOnBanks
  <1>9. Final(banks[b]) /\ forker[f].queue = Pushed(banks[b].blockhash_queue, Entry(banks[b]))
    BY <1>1, <1>8 DEF LineInv, ForkerProgress
  <1>10. ChildOf(banks'[c], banks[b])
    BY <1>6, <1>9 DEF ChildOf, Final, hash
  <1>11. LineOfBanks'
    <2>1. ASSUME NEW d \in DOMAIN banks', d # 1
          PROVE  /\ banks'[d].parent \in DOMAIN banks'
                 /\ ChildOf(banks'[d], banks'[banks'[d].parent])
      <3>1. CASE d = c
        BY <3>1, <1>3, <1>6, <1>10
      <3>2. CASE d # c
        BY <3>2, <2>1, <1>3 DEF LineInv, LineOfBanks
      <3> QED
        BY <3>1, <3>2
    <2> QED
      BY <1>3, <2>1 DEF LineInv, LineOfBanks
  <1>12. HashUnderway'
    <2>1. \A d \in DOMAIN banks : banks[d].is_frozen = TRUE => banks[d].finalized_hash # NoHash
      BY <1>8, NothingUnderway DEF LineInv
    <2>2. banks'[c].is_frozen # TRUE
      BY <1>6
    <2> QED
      BY <1>3, <2>1, <2>2 DEF HashUnderway
  <1>13. ForkerProgress'
    BY <1>7, <1>8 DEF ForkerProgress
  <1> QED
    BY <1>11, <1>12, <1>13 DEF LineInv

\* Every step keeps the line.
LEMMA NextLine ==
    ASSUME OneForker
    PROVE  Types /\ LineInv /\ [Next]_vars => LineInv'
  <1> SUFFICES ASSUME Types, LineInv, [Next]_vars PROVE LineInv'
    OBVIOUS
  <1>0. forker \in [Forker -> ForkerType] /\ \A f, g \in Forker : f = g
    BY DEF Types, ThreadsOnBanks, OneForker
  <1>1. ASSUME NEW w \in Worker,
               \/ \E b \in DOMAIN banks : acquire_freeze_lock(w, b)
               \/ \E recent \in Hash : check_preflight_rules(w, recent)
               \/ \E new \in AccountState : Commit(w, new)
               \/ DropFreezeLock(w)
        PROVE  LineInv'
    BY <1>1, WorkerStepLine
  <1>2. ASSUME NEW f \in Forker, NEW b \in DOMAIN banks, new_from_parent(f, b) PROVE LineInv'
    <2>1. banks' = banks /\ forker[f].pc = "idle" /\ forker'[f].pc = "wait"
      BY <1>0, <1>2 DEF new_from_parent
    <2>2. ForkerProgress'
      BY <1>0, <2>1 DEF ForkerProgress
    <2>3. HashUnderway'
      BY <2>1, NothingUnderway DEF LineInv, HashUnderway
    <2> QED
      BY <2>1, <2>2, <2>3 DEF LineInv, LineOfBanks
  <1>3. ASSUME NEW f \in Forker, FreezeWait(f) PROVE LineInv'
    <2>1. banks' = banks /\ forker[f].pc = "wait" /\ forker'[f].pc = "swap"
      BY <1>0, <1>3 DEF FreezeWait, ForkerType
    <2>2. ForkerProgress'
      BY <1>0, <2>1 DEF ForkerProgress
    <2>3. HashUnderway'
      BY <2>1, NothingUnderway DEF LineInv, HashUnderway
    <2> QED
      BY <2>1, <2>2, <2>3 DEF LineInv, LineOfBanks
  <1>4. ASSUME NEW f \in Forker, FreezeSwap(f) PROVE LineInv'
    BY <1>4, FreezeSwapLine
  <1>5. ASSUME NEW f \in Forker, FreezeFinalize(f) PROVE LineInv'
    BY <1>5, FreezeFinalizeLine
  <1>6. ASSUME NEW f \in Forker, ExtendQueue(f) PROVE LineInv'
    <2>1. PICK b : b = forker[f].bank
      OBVIOUS
    <2>2. forker'[f] = [pc |-> "child", bank |-> b,
                        queue |-> Pushed(banks[b].blockhash_queue, Entry(banks[b]))]
      BY <1>6, <2>1, ExtendQueueSteps
    <2>3. banks' = banks /\ forker[f].pc = "queue"
      BY <1>6 DEF ExtendQueue
    <2>4. ForkerProgress'
      BY <1>0, <2>1, <2>2, <2>3 DEF LineInv, ForkerProgress
    <2>5. HashUnderway'
      BY <2>3, NothingUnderway DEF LineInv, HashUnderway
    <2> QED
      BY <2>3, <2>4, <2>5 DEF LineInv, LineOfBanks
  <1>7. ASSUME NEW f \in Forker, MakeChild(f) PROVE LineInv'
    BY <1>7, MakeChildLine
  <1>8. CASE UNCHANGED vars
    BY <1>8 DEF vars, LineInv, ForkerProgress, HashUnderway, LineOfBanks
  <1> QED
    BY <1>1, <1>2, <1>3, <1>4, <1>5, <1>6, <1>7, <1>8 DEF Next

\* The line at the start is the genesis bank.
LEMMA InitLine == Init => LineInv
  <1> SUFFICES ASSUME Init PROVE LineInv
    OBVIOUS
  <1>1. banks = <<GenesisBank>> /\ DOMAIN banks = {1} /\ banks[1] = GenesisBank
    BY DEF Init
  <1>2. /\ GenesisBank.parent = 0 /\ GenesisBank.slot = 0 /\ GenesisBank.is_frozen = FALSE
        /\ GenesisBank.blockhash_queue = <<[hash |-> default_hash, created_at_slot |-> 0]>>
    BY DEF GenesisBank
  <1>3. \A f \in Forker : forker[f].pc = "idle"
    BY DEF Init
  <1> QED
    BY <1>1, <1>2, <1>3 DEF LineInv, LineOfBanks, HashUnderway, ForkerProgress

\* Every bank but the first is the child of a final one, in every state that one forking
\* thread can bring about.
THEOREM LineHolds ==
    ASSUME OneForker
    PROVE  Spec => []LineInv
  <1>1. Types /\ LineInv /\ [Next]_vars => LineInv'
    BY NextLine
  <1> QED
    BY <1>1, InitLine, TypesHold, PTL DEF Spec

-----------------------------------------------------------------------------
\* AncestorHashes is defined by recursion along the line of parents.  That there is
\* such a function is shown by induction on the banks, in the order they were made.

Oldest == <<[hash |-> default_hash, created_at_slot |-> 0]>>

\* The value for bank b, given the values for the banks before it.
AncestorsOf(f, b) ==
    IF banks[b].parent = 0 THEN Oldest
    ELSE Append(f[banks[b].parent], [hash |-> banks[banks[b].parent].finalized_hash,
                                     created_at_slot |-> banks[banks[b].parent].slot])

\* The recursion of AncestorHashes is well founded, as parents come before children.
LEMMA AncestorsExist ==
    ASSUME Types, NEW n \in DOMAIN banks
    PROVE  \E f : f = [b \in 1..n |-> AncestorsOf(f, b)]
  <1> DEFINE E(k) == \E f : f = [b \in 1..k |-> AncestorsOf(f, b)]
             S == {k \in 1..n : E(k)}
  <1>1. n \in Nat \ {0} /\ \A b \in 1..n : banks[b].parent \in 0..(b - 1)
    BY DEF Types, BanksTyped
  <1>2. ASSUME NEW k \in 1..n, \A m \in 1..n : m < k => m \in S
        PROVE  k \in S
    <2>1. PICK f : f = [b \in 1..(k - 1) |-> AncestorsOf(f, b)]
      <3>1. CASE k = 1
        <4> DEFINE e == [b \in 1..0 |-> 0]
        <4>1. e = [b \in 1..0 |-> AncestorsOf(e, b)]
          OBVIOUS
        <4> QED
          BY <3>1, <4>1
      <3>2. CASE k # 1
        <4>1. k - 1 \in 1..n /\ k - 1 < k
          BY <1>1, <3>2
        <4> QED
          BY <1>2, <4>1
      <3> QED
        BY <3>1, <3>2
    <2> DEFINE g == [b \in 1..k |-> IF b = k THEN AncestorsOf(f, k) ELSE f[b]]
    <2>2. ASSUME NEW b \in 1..k
          PROVE  AncestorsOf(g, b) = AncestorsOf(f, b)
      <3>1. banks[b].parent # 0 => g[banks[b].parent] = f[banks[b].parent]
        BY <1>1
      <3> QED
        BY <3>1 DEF AncestorsOf
    <2>3. ASSUME NEW b \in 1..k
          PROVE  g[b] = AncestorsOf(g, b)
      <3>1. CASE b = k
        BY <2>2, <3>1
      <3>2. CASE b # k
        <4>1. b \in 1..(k - 1)
          BY <1>1, <3>2
        <4>2. f[b] = AncestorsOf(f, b)
          BY <2>1, <4>1
        <4> QED
          BY <2>2, <3>2, <4>2
      <3> QED
        BY <3>1, <3>2
    <2>4. g = [b \in 1..k |-> g[b]]
      OBVIOUS
    <2>5. g = [b \in 1..k |-> AncestorsOf(g, b)]
      <3> HIDE DEF g
      <3> QED
        BY <2>3, <2>4
    <2> QED
      BY <2>5
  <1> HIDE DEF E
  <1>3. S = 1..n
    <2>1. S \in SUBSET (1..n)
      OBVIOUS
    <2> HIDE DEF S
    <2> QED
      BY <1>1, <1>2, <2>1, StrongInduction
  <1>4. E(n)
    BY <1>1, <1>3
  <1> QED
    BY <1>4 DEF E

\* So AncestorHashes satisfies its defining equation.
LEMMA AncestorHashesDef ==
    ASSUME Types, NEW b \in DOMAIN banks
    PROVE  AncestorHashes[b] = AncestorsOf(AncestorHashes, b)
  <1> DEFINE Is(f) == f = [c \in DOMAIN banks |-> AncestorsOf(f, c)]
  <1>1. AncestorHashes = CHOOSE f : Is(f)
    BY DEF AncestorHashes, AncestorsOf, Oldest
  <1>2. \E f : Is(f)
    <2>1. DOMAIN banks = 1..Len(banks) /\ Len(banks) \in DOMAIN banks
      BY DEF Types, BanksTyped
    <2> QED
      BY <2>1, AncestorsExist
  <1> HIDE DEF Is
  <1>3. Is(AncestorHashes)
    BY <1>1, <1>2
  <1>4. AncestorHashes = [c \in DOMAIN banks |-> AncestorsOf(AncestorHashes, c)]
    BY <1>3 DEF Is
  <1> QED
    BY <1>4

-----------------------------------------------------------------------------
\* The blockhash queue is a window on the end of the line of hashes.

D == MAX_BLOCKHASH_QUEUE_DEPTH

Smaller(m, n) == IF m < n THEN m ELSE n

\* q is the last part of s, as much of it as there is room for.
Window(q, s) ==
    /\ Len(q) = Smaller(D, Len(s))
    /\ \A i \in 1..Len(q) : q[i] = s[Len(s) - Len(q) + i]

\* LastN is the window of the last D elements.
LEMMA LastNWindow ==
    ASSUME NEW S, NEW s \in Seq(S)
    PROVE  LastN(D, s) \in Seq(S) /\ Window(LastN(D, s), s)
  <1>1. D \in Nat \ {0} /\ Len(s) \in Nat
    BY BankConstants DEF D
  <1>2. PICK k \in 0..Len(s) : k = Smaller(D, Len(s))
    BY <1>1 DEF Smaller
  <1>3. PICK q : q = SubSeq(s, Len(s) - k + 1, Len(s))
    OBVIOUS
  <1>4. q \in Seq(S) /\ Len(q) = k /\ \A i \in 1..k : q[i] = s[Len(s) - k + i]
    <2>1. Len(s) - k + 1 \in 1..(Len(s) + 1) /\ Len(s) \in (Len(s) - k + 1 - 1)..Len(s)
      BY <1>1, <1>2
    <2>2. /\ q \in Seq(S) /\ Len(q) = Len(s) - (Len(s) - k + 1) + 1
          /\ \A i \in 1..(Len(s) - (Len(s) - k + 1) + 1) : q[i] = s[(Len(s) - k + 1) + i - 1]
      BY <1>3, <2>1, SubSeqProperties
    <2>3. Len(s) - (Len(s) - k + 1) + 1 = k /\ \A i \in 1..k : (Len(s) - k + 1) + i - 1 = Len(s) - k + i
      BY <1>1, <1>2
    <2> QED
      BY <2>2, <2>3
  <1>5. LastN(D, s) = q
    <2> DEFINE start == IF Len(s) > D THEN Len(s) - D + 1 ELSE 1
    <2>1. start = Len(s) - k + 1
      BY <1>1, <1>2 DEF Smaller
    <2>2. LastN(D, s) = SubSeq(s, start, Len(s))
      BY DEF LastN
    <2> HIDE DEF start
    <2> QED
      BY <1>3, <2>1, <2>2
  <1> QED
    BY <1>2, <1>4, <1>5 DEF Window

\* There is one such window.
LEMMA WindowUnique ==
    ASSUME NEW S, NEW s \in Seq(S), NEW p \in Seq(S), NEW q \in Seq(S), Window(p, s), Window(q, s)
    PROVE  p = q
  BY DEF Window

\* push_back and pop_front move the window on.
LEMMA PushedWindow ==
    ASSUME NEW S, NEW s \in Seq(S), NEW q \in Seq(S), NEW x \in S, Window(q, s)
    PROVE  Pushed(q, x) \in Seq(S) /\ Window(Pushed(q, x), Append(s, x))
  <1> DEFINE longer == Append(q, x)
             line == Append(s, x)
  <1>1. /\ D \in Nat \ {0} /\ Len(s) \in Nat /\ Len(q) \in Nat
        /\ Len(q) = Smaller(D, Len(s)) /\ Len(q) <= Len(s)
    BY BankConstants DEF D, Window, Smaller
  <1>2. /\ longer \in Seq(S) /\ Len(longer) = Len(q) + 1
        /\ \A i \in 1..Len(q) : longer[i] = q[i]
        /\ longer[Len(q) + 1] = x
    BY <1>1
  <1>3. /\ line \in Seq(S) /\ Len(line) = Len(s) + 1
        /\ \A i \in 1..Len(s) : line[i] = s[i]
        /\ line[Len(s) + 1] = x
    BY <1>1
  <1>4. Pushed(q, x) = IF Len(longer) > D THEN Tail(longer) ELSE longer
    BY DEF Pushed, D
  <1> HIDE DEF longer, line
  <1>5. \A i \in 1..(Len(q) + 1) : longer[i] = line[Len(s) - Len(q) + i]
    <2> SUFFICES ASSUME NEW i \in 1..(Len(q) + 1)
                 PROVE  longer[i] = line[Len(s) - Len(q) + i]
      OBVIOUS
    <2>1. CASE i = Len(q) + 1
      BY <2>1, <1>1, <1>2, <1>3
    <2>2. CASE i # Len(q) + 1
      <3>1. i \in 1..Len(q) /\ Len(s) - Len(q) + i \in 1..Len(s)
        BY <2>2, <1>1
      <3>2. q[i] = s[Len(s) - Len(q) + i]
        BY <3>1 DEF Window
      <3> QED
        BY <3>1, <3>2, <1>2, <1>3
    <2> QED
      BY <2>1, <2>2
  <1>6. CASE Len(longer) > D
    <2>1. Len(q) = D
      BY <1>1, <1>2, <1>6 DEF Smaller
    <2>2. longer # <<>>
      BY <1>1, <1>2
    <2>3. /\ Tail(longer) \in Seq(S) /\ Len(Tail(longer)) = Len(longer) - 1
          /\ \A i \in 1..(Len(longer) - 1) : Tail(longer)[i] = longer[i + 1]
      BY <1>2, <2>2
    <2>4. \A i \in 1..D : Tail(longer)[i] = line[Len(line) - D + i]
      <3> SUFFICES ASSUME NEW i \in 1..D
                   PROVE  Tail(longer)[i] = line[Len(line) - D + i]
        OBVIOUS
      <3>1. i + 1 \in 1..(Len(q) + 1) /\ i \in 1..(Len(longer) - 1)
        BY <1>1, <1>2, <2>1
      <3>2. Len(s) - Len(q) + (i + 1) = Len(line) - D + i
        BY <1>1, <1>3, <2>1
      <3>3. longer[i + 1] = line[Len(s) - Len(q) + (i + 1)]
        BY <1>5, <3>1
      <3> QED
        BY <2>3, <3>1, <3>2, <3>3
    <2>5. Len(Tail(longer)) = D /\ Smaller(D, Len(line)) = D
      BY <1>1, <1>2, <1>3, <2>1, <2>3 DEF Smaller
    <2> QED
      BY <1>4, <1>6, <2>3, <2>4, <2>5 DEF Window, line
  <1>7. CASE ~(Len(longer) > D)
    <2>1. Len(q) = Len(s) /\ Smaller(D, Len(line)) = Len(longer) /\ Len(line) = Len(longer)
      BY <1>1, <1>2, <1>3, <1>7 DEF Smaller
    <2>2. \A i \in 1..Len(longer) : longer[i] = line[Len(line) - Len(longer) + i]
      <3>1. Len(s) - Len(q) = 0 /\ Len(line) - Len(longer) = 0
        BY <1>1, <1>2, <1>3, <2>1
      <3> QED
        BY <1>2, <1>5, <3>1
    <2> QED
      BY <1>2, <1>4, <1>7, <2>1, <2>2 DEF Window, line
  <1> QED
    BY <1>6, <1>7


\* The banks' line of ancestors: one entry for every slot, and the queue is its end.
OnLine(b) ==
    /\ AncestorHashes[b] \in Seq(BlockhashInfo)
    /\ Len(AncestorHashes[b]) = banks[b].slot + 1
    /\ \A i \in 1..Len(AncestorHashes[b]) :
          AncestorHashes[b][i].created_at_slot = IF i = 1 THEN 0 ELSE i - 2
    /\ Window(banks[b].blockhash_queue, AncestorHashes[b])

\* The first bank has the one hash it starts with.
LEMMA GenesisOnLine == Types /\ LineInv => OnLine(1)
  <1> SUFFICES ASSUME Types, LineInv PROVE OnLine(1)
    OBVIOUS
  <1>1. /\ 1 \in DOMAIN banks /\ banks[1].parent = 0 /\ banks[1].slot = 0
        /\ banks[1].blockhash_queue = Oldest
    BY DEF LineInv, LineOfBanks, Oldest
  <1>2. AncestorHashes[1] = Oldest
    BY <1>1, AncestorHashesDef DEF AncestorsOf
  <1>3. /\ Oldest \in Seq(BlockhashInfo) /\ Len(Oldest) = 1
        /\ Oldest[1].created_at_slot = 0
    BY DEF Oldest, BlockhashInfo, Hash
  <1>4. Window(Oldest, Oldest)
    BY <1>3, BankConstants DEF Window, Smaller, D
  <1> QED
    BY <1>1, <1>2, <1>3, <1>4 DEF OnLine

\* A child is on the line if its parent is.
LEMMA ChildOnLine ==
    ASSUME Types, LineInv, NEW b \in DOMAIN banks, b # 1, OnLine(banks[b].parent)
    PROVE  OnLine(b)
  <1>1. PICK p \in DOMAIN banks : p = banks[b].parent
    BY DEF LineInv, LineOfBanks
  <1>2. ChildOf(banks[b], banks[p]) /\ banks[b] \in BankType /\ banks[p] \in BankType /\ p # 0
    BY <1>1 DEF LineInv, LineOfBanks, Types, BanksTyped
  <1> DEFINE line == AncestorHashes[p]
             info == [hash |-> banks[p].finalized_hash, created_at_slot |-> banks[p].slot]
  <1>3. AncestorHashes[b] = Append(line, info)
    BY <1>1, <1>2, AncestorHashesDef DEF AncestorsOf
  <1>4. info = Entry(banks[p]) /\ info \in BlockhashInfo
    BY <1>2 DEF ChildOf, Final, Entry, hash, BankType, BlockhashInfo
  <1>5. info.created_at_slot = banks[p].slot /\ banks[p].slot \in Nat
        /\ banks[b].slot = banks[p].slot + 1
    BY <1>2 DEF BankType, ChildOf
  <1>6. /\ line \in Seq(BlockhashInfo)
        /\ Len(line) = banks[p].slot + 1
        /\ \A i \in 1..Len(line) : line[i].created_at_slot = IF i = 1 THEN 0 ELSE i - 2
        /\ Window(banks[p].blockhash_queue, line)
    BY <1>1 DEF OnLine
  <1>7. banks[p].blockhash_queue \in Seq(BlockhashInfo)
    BY <1>2 DEF BankType
  <1> HIDE DEF line, info
  <1>8. Window(banks[b].blockhash_queue, Append(line, info))
    <2>1. Window(Pushed(banks[p].blockhash_queue, info), Append(line, info))
      BY <1>4, <1>6, <1>7, PushedWindow
    <2>2. banks[b].blockhash_queue = Pushed(banks[p].blockhash_queue, info)
      BY <1>2, <1>4 DEF ChildOf
    <2> QED
      BY <2>1, <2>2
  <1>9. /\ Append(line, info) \in Seq(BlockhashInfo)
        /\ Len(Append(line, info)) = Len(line) + 1
        /\ \A i \in 1..Len(line) : Append(line, info)[i] = line[i]
        /\ Append(line, info)[Len(line) + 1] = info
    BY <1>4, <1>6
  <1>10. \A i \in 1..(Len(line) + 1) :
            Append(line, info)[i].created_at_slot = IF i = 1 THEN 0 ELSE i - 2
    <2> SUFFICES ASSUME NEW i \in 1..(Len(line) + 1)
                 PROVE  Append(line, info)[i].created_at_slot = IF i = 1 THEN 0 ELSE i - 2
      OBVIOUS
    <2>1. CASE i = Len(line) + 1
      BY <2>1, <1>5, <1>6, <1>9
    <2>2. CASE i # Len(line) + 1
      <3>1. i \in 1..Len(line)
        BY <2>2, <1>6
      <3> QED
        BY <3>1, <1>6, <1>9
    <2> QED
      BY <2>1, <2>2
  <1> QED
    BY <1>3, <1>5, <1>6, <1>8, <1>9, <1>10 DEF OnLine

\* Every bank has the hashes of its line in its queue, as many as fit: by induction along
\* the banks.
LEMMA AllOnLine ==
    ASSUME Types, LineInv, NEW b \in DOMAIN banks
    PROVE  OnLine(b)
  <1> DEFINE S == {c \in DOMAIN banks : OnLine(c)}
             N == Len(banks)
  <1>1. DOMAIN banks = 1..N /\ N \in Nat
    BY DEF Types, BanksTyped
  <1>2. ASSUME NEW c \in 1..N, \A m \in 1..N : m < c => m \in S
        PROVE  c \in S
    <2>1. CASE c = 1
      BY <1>1, <2>1, GenesisOnLine
    <2>2. CASE c # 1
      <3>1. /\ banks[c].parent \in 0..(c - 1) /\ banks[c].parent \in DOMAIN banks
        BY <1>1, <2>2 DEF Types, BanksTyped, LineInv, LineOfBanks
      <3>2. banks[c].parent \in 1..N /\ banks[c].parent < c
        BY <1>1, <3>1
      <3>3. OnLine(banks[c].parent)
        BY <1>2, <3>2
      <3> QED
        BY <1>1, <2>2, <3>3, ChildOnLine
    <2> QED
      BY <2>1, <2>2
  <1>3. S \in SUBSET (1..N)
    BY <1>1
  <1> HIDE DEF S
  <1>4. S = 1..N
    BY <1>1, <1>2, <1>3, StrongInduction
  <1> QED
    BY <1>1, <1>4 DEF S

\* The invariant gives the property.
LEMMA LineSuffices == Types /\ LineInv => ChildExtendsFrozenParent
  <1> SUFFICES ASSUME Types, LineInv, NEW b \in DOMAIN banks
               PROVE  /\ banks[b].parent # 0 =>
                            /\ banks[banks[b].parent].is_frozen
                            /\ banks[b].slot = banks[banks[b].parent].slot + 1
                            /\ banks[b].parent_hash = banks[banks[b].parent].finalized_hash
                      /\ banks[b].blockhash_queue = LastN(D, AncestorHashes[b])
    BY DEF ChildExtendsFrozenParent, D
  <1>1. banks[b].parent # 0 => b # 1
    BY DEF LineInv, LineOfBanks
  <1>2. banks[b].parent # 0 => ChildOf(banks[b], banks[banks[b].parent])
    BY <1>1 DEF LineInv, LineOfBanks
  <1>3. OnLine(b)
    BY AllOnLine
  <1>4. banks[b].blockhash_queue = LastN(D, AncestorHashes[b])
    <2>1. banks[b].blockhash_queue \in Seq(BlockhashInfo)
      <3>1. banks[b] \in BankType
        BY DEF Types, BanksTyped
      <3> QED
        BY <3>1 DEF BankType
    <2>2. AncestorHashes[b] \in Seq(BlockhashInfo)
          /\ Window(banks[b].blockhash_queue, AncestorHashes[b])
      BY <1>3 DEF OnLine
    <2>3. /\ LastN(D, AncestorHashes[b]) \in Seq(BlockhashInfo)
          /\ Window(LastN(D, AncestorHashes[b]), AncestorHashes[b])
      BY <2>2, LastNWindow
    <2> QED
      BY <2>1, <2>2, <2>3, WindowUnique
  <1> QED
    BY <1>2, <1>4 DEF ChildOf, Final

\* With one thread making banks, every bank's blockhash queue is the recent part of
\* its line of final ancestors, whatever the depth of the queue and the groups that
\* run on the banks meanwhile.
THEOREM ChildrenExtendFrozenParents ==
    ASSUME OneForker
    PROVE  Spec => []ChildExtendsFrozenParent
  <1>1. Spec => []LineInv
    BY LineHolds
  <1> QED
    BY <1>1, TypesHold, LineSuffices, PTL

-----------------------------------------------------------------------------
\* How long a blockhash is good for.

\* check_preflight_rules finds an entry with the hash if there is one.
LEMMA FoundThere ==
    ASSUME NEW bank, NEW recent, bank.blockhash_queue \in Seq(BlockhashInfo),
           NEW i \in 1..Len(bank.blockhash_queue), bank.blockhash_queue[i].hash = recent
    PROVE  Found(bank, recent) \in 1..Len(bank.blockhash_queue)
  <1> DEFINE queue == bank.blockhash_queue
             I == {n \in 1..Len(queue) : queue[n].hash = recent}
  <1>1. I \in SUBSET Nat /\ I # {} /\ I \subseteq 1..Len(queue)
    OBVIOUS
  <1>2. Found(bank, recent) = Min(I)
    BY <1>1 DEF Found, SelectInSeq
  <1> HIDE DEF I
  <1>3. \E x \in I : \A y \in I : x <= y
    BY <1>1, SmallestElement
  <1>4. Min(I) \in I
    BY <1>3 DEF Min
  <1> QED
    BY <1>1, <1>2, <1>4

\* No entry of the queue of a bank is ever too old: the eviction comes first.
LEMMA QueueIsRecent ==
    ASSUME Types, LineInv, NEW b \in DOMAIN banks, NEW i \in 1..Len(banks[b].blockhash_queue)
    PROVE  /\ banks[b].blockhash_queue[i].created_at_slot \in Nat
           /\ banks[b].slot <= banks[b].blockhash_queue[i].created_at_slot + D
  <1> DEFINE q == banks[b].blockhash_queue
             line == AncestorHashes[b]
  <1>1. banks[b].slot \in Nat /\ q \in Seq(BlockhashInfo)
    <2>1. banks[b] \in BankType
      BY DEF Types, BanksTyped
    <2> QED
      BY <2>1 DEF BankType
  <1>2. /\ line \in Seq(BlockhashInfo) /\ Len(line) = banks[b].slot + 1
        /\ \A k \in 1..Len(line) : line[k].created_at_slot = IF k = 1 THEN 0 ELSE k - 2
        /\ Window(q, line)
    BY AllOnLine DEF OnLine
  <1>3. D \in Nat \ {0}
    BY BankConstants DEF D
  <1> HIDE DEF q, line
  <1>4. Len(q) \in Nat /\ i \in 1..Len(q) /\ Len(q) = Smaller(D, Len(line))
        /\ q[i] = line[Len(line) - Len(q) + i]
    BY <1>1, <1>2 DEF Window, q
  <1>5. PICK k : k = Len(line) - Len(q) + i
    OBVIOUS
  <1>6. k \in 1..Len(line) /\ (k + D >= banks[b].slot + 2 \/ D > banks[b].slot)
    <2>1. PICK n, m, s, d : n = Len(q) /\ m = Len(line) /\ s = banks[b].slot /\ d = D
      OBVIOUS
    <2>2. /\ s \in Nat /\ m = s + 1 /\ n \in Nat /\ d \in Nat /\ i \in 1..n /\ k = m - n + i
          /\ n = IF d < m THEN d ELSE m
      BY <1>1, <1>2, <1>3, <1>4, <1>5, <2>1 DEF Smaller
    <2>3. k \in 1..m /\ (k + d >= s + 2 \/ d > s)
      BY <2>2
    <2> QED
      BY <2>1, <2>3
  <1>7. q[i] = line[k]
    BY <1>4, <1>5
  <1>8. q[i].created_at_slot = IF k = 1 THEN 0 ELSE k - 2
    BY <1>2, <1>6, <1>7
  <1>9. q[i].created_at_slot \in Nat /\ banks[b].slot <= q[i].created_at_slot + D
    <2>1. k \in Nat \ {0} /\ D \in Nat /\ banks[b].slot \in Nat
      BY <1>1, <1>2, <1>3, <1>6
    <2> QED
      BY <1>6, <1>8, <2>1
  <1> QED
    BY <1>9 DEF q

\* So the test of the age never refuses what the search has found.
LEMMA RecentIsInQueue ==
    ASSUME Types, LineInv, NEW b \in DOMAIN banks, NEW recent,
           NEW i \in 1..Len(banks[b].blockhash_queue),
           banks[b].blockhash_queue[i].hash = recent
    PROVE  IsRecent(banks[b], recent)
  <1>1. banks[b] \in BankType
    BY DEF Types, BanksTyped
  <1>2. banks[b].blockhash_queue \in Seq(BlockhashInfo) /\ banks[b].slot \in Nat
    BY <1>1 DEF BankType
  <1>3. PICK n \in 1..Len(banks[b].blockhash_queue) : n = Found(banks[b], recent)
    BY <1>2, FoundThere
  <1>4. ~Expired(banks[b], banks[b].blockhash_queue[n])
    <2>1. /\ banks[b].blockhash_queue[n].created_at_slot \in Nat
          /\ banks[b].slot <= banks[b].blockhash_queue[n].created_at_slot + D
      BY QueueIsRecent
    <2> QED
      BY <1>2, <2>1, BankConstants DEF Expired, D
  <1> QED
    BY <1>2, <1>3, <1>4 DEF IsRecent

\* Line, like AncestorHashes, is defined by recursion along the parents.
LineFrom(f, b) == {b} \cup (IF banks[b].parent = 0 THEN {} ELSE f[banks[b].parent])

\* The recursion of Line is well founded as well.
LEMMA LineExists ==
    ASSUME Types, NEW n \in DOMAIN banks
    PROVE  \E f : f = [b \in 1..n |-> LineFrom(f, b)]
  <1> DEFINE E(k) == \E f : f = [b \in 1..k |-> LineFrom(f, b)]
             S == {k \in 1..n : E(k)}
  <1>1. n \in Nat \ {0} /\ \A b \in 1..n : banks[b].parent \in 0..(b - 1)
    BY DEF Types, BanksTyped
  <1>2. ASSUME NEW k \in 1..n, \A m \in 1..n : m < k => m \in S
        PROVE  k \in S
    <2>1. PICK f : f = [b \in 1..(k - 1) |-> LineFrom(f, b)]
      <3>1. CASE k = 1
        <4> DEFINE e == [b \in 1..0 |-> 0]
        <4>1. e = [b \in 1..0 |-> LineFrom(e, b)]
          OBVIOUS
        <4> QED
          BY <3>1, <4>1
      <3>2. CASE k # 1
        <4>1. k - 1 \in 1..n /\ k - 1 < k
          BY <1>1, <3>2
        <4> QED
          BY <1>2, <4>1
      <3> QED
        BY <3>1, <3>2
    <2> DEFINE g == [b \in 1..k |-> IF b = k THEN LineFrom(f, k) ELSE f[b]]
    <2>2. ASSUME NEW b \in 1..k
          PROVE  LineFrom(g, b) = LineFrom(f, b)
      <3>1. banks[b].parent # 0 => g[banks[b].parent] = f[banks[b].parent]
        BY <1>1
      <3> QED
        BY <3>1 DEF LineFrom
    <2>3. ASSUME NEW b \in 1..k
          PROVE  g[b] = LineFrom(g, b)
      <3>1. CASE b = k
        BY <2>2, <3>1
      <3>2. CASE b # k
        <4>1. b \in 1..(k - 1)
          BY <1>1, <3>2
        <4>2. f[b] = LineFrom(f, b)
          BY <2>1, <4>1
        <4> QED
          BY <2>2, <3>2, <4>2
      <3> QED
        BY <3>1, <3>2
    <2>4. g = [b \in 1..k |-> g[b]]
      OBVIOUS
    <2>5. g = [b \in 1..k |-> LineFrom(g, b)]
      <3> HIDE DEF g
      <3> QED
        BY <2>3, <2>4
    <2> QED
      BY <2>5
  <1> HIDE DEF E
  <1>3. S = 1..n
    <2>1. S \in SUBSET (1..n)
      OBVIOUS
    <2> HIDE DEF S
    <2> QED
      BY <1>1, <1>2, <2>1, StrongInduction
  <1>4. E(n)
    BY <1>1, <1>3
  <1> QED
    BY <1>4 DEF E

\* So Line satisfies its defining equation.
LEMMA LineDef ==
    ASSUME Types, NEW b \in DOMAIN banks
    PROVE  Line[b] = LineFrom(Line, b)
  <1> DEFINE Is(f) == f = [c \in DOMAIN banks |-> LineFrom(f, c)]
  <1>1. Line = CHOOSE f : Is(f)
    BY DEF Line, LineFrom
  <1>2. \E f : Is(f)
    <2>1. DOMAIN banks = 1..Len(banks) /\ Len(banks) \in DOMAIN banks
      BY DEF Types, BanksTyped
    <2> QED
      BY <2>1, LineExists
  <1> HIDE DEF Is
  <1>3. Is(Line)
    BY <1>1, <1>2
  <1>4. Line = [c \in DOMAIN banks |-> LineFrom(Line, c)]
    BY <1>3 DEF Is
  <1> QED
    BY <1>4

\* A bank sees the hashes of every bank it descends from, and more.
Descends(b, a) ==
    /\ a \in DOMAIN banks
    /\ banks[a].slot <= banks[b].slot
    /\ \A i \in 1..Len(AncestorHashes[a]) : AncestorHashes[b][i] = AncestorHashes[a][i]

\* The members of the line of b are its ancestors, and b extends each of them.
LEMMA LineDescends ==
    ASSUME Types, LineInv, NEW b \in DOMAIN banks, NEW a \in Line[b]
    PROVE  Descends(b, a)
  <1> DEFINE S == {c \in DOMAIN banks : \A d \in Line[c] : Descends(c, d)}
             N == Len(banks)
  <1>1. /\ DOMAIN banks = 1..N /\ N \in Nat
        /\ \A c \in DOMAIN banks : banks[c] \in BankType
    BY DEF Types, BanksTyped
  <1>2. \A c \in DOMAIN banks : banks[c].slot \in Nat
    BY <1>1 DEF BankType
  <1>3. ASSUME NEW c \in 1..N PROVE Descends(c, c)
    BY <1>1, <1>2 DEF Descends
  <1>4. ASSUME NEW c \in 1..N, \A m \in 1..N : m < c => m \in S
        PROVE  c \in S
    <2>1. CASE c = 1
      <3>1. Line[c] = {c}
        BY <1>1, <2>1, LineDef DEF LineFrom, LineInv, LineOfBanks
      <3> QED
        BY <1>1, <1>3, <3>1
    <2>2. CASE c # 1
      <3>1. PICK p \in DOMAIN banks : p = banks[c].parent
        BY <1>1, <2>2 DEF LineInv, LineOfBanks
      <3>2. p \in 1..N /\ p < c /\ p # 0
        BY <1>1, <3>1 DEF Types, BanksTyped
      <3>3. Line[c] = {c} \cup Line[p]
        BY <1>1, <3>1, <3>2, LineDef DEF LineFrom
      <3>4. \A d \in Line[p] : Descends(p, d)
        BY <1>4, <3>2
      <3>5. banks[c].slot = banks[p].slot + 1
        BY <1>1, <2>2, <3>1 DEF LineInv, LineOfBanks, ChildOf
      <3>6. /\ AncestorHashes[p] \in Seq(BlockhashInfo)
            /\ Len(AncestorHashes[p]) = banks[p].slot + 1
            /\ \A i \in 1..Len(AncestorHashes[p]) : AncestorHashes[c][i] = AncestorHashes[p][i]
        <4>1. /\ AncestorHashes[p] \in Seq(BlockhashInfo)
              /\ Len(AncestorHashes[p]) = banks[p].slot + 1
          BY AllOnLine DEF OnLine
        <4>2. PICK info : AncestorHashes[c] = Append(AncestorHashes[p], info)
          BY <1>1, <3>1, <3>2, AncestorHashesDef DEF AncestorsOf
        <4> QED
          BY <4>1, <4>2
      <3>7. ASSUME NEW d \in Line[p] PROVE Descends(c, d)
        <4>1. /\ d \in DOMAIN banks /\ banks[d].slot <= banks[p].slot
              /\ \A i \in 1..Len(AncestorHashes[d]) : AncestorHashes[p][i] = AncestorHashes[d][i]
          BY <3>4, <3>7 DEF Descends
        <4>2. Len(AncestorHashes[d]) = banks[d].slot + 1
          BY <4>1, AllOnLine DEF OnLine
        <4>3. banks[d].slot \in Nat /\ banks[p].slot \in Nat /\ banks[c].slot \in Nat
          BY <1>1, <1>2, <4>1
        <4>4. \A i \in 1..Len(AncestorHashes[d]) : i \in 1..Len(AncestorHashes[p])
          BY <3>6, <4>1, <4>2, <4>3
        <4>5. banks[d].slot <= banks[c].slot
          BY <3>5, <4>1, <4>3
        <4> QED
          BY <3>6, <4>1, <4>4, <4>5 DEF Descends
      <3> QED
        BY <1>1, <1>3, <3>3, <3>7
    <2> QED
      BY <2>1, <2>2
  <1>5. S \in SUBSET (1..N)
    BY <1>1
  <1> HIDE DEF S
  <1>6. S = 1..N
    BY <1>1, <1>4, <1>5, StrongInduction
  <1> QED
    BY <1>1, <1>6 DEF S

\* The queue of a bank, entry by entry, as a part of its line.
LEMMA QueueEntries ==
    ASSUME Types, LineInv, NEW b \in DOMAIN banks
    PROVE  /\ banks[b].blockhash_queue \in Seq(BlockhashInfo)
           /\ banks[b].slot \in Nat
           /\ AncestorHashes[b] \in Seq(BlockhashInfo)
           /\ Len(AncestorHashes[b]) = banks[b].slot + 1
           /\ Len(banks[b].blockhash_queue) = Smaller(D, banks[b].slot + 1)
           /\ \A i \in 1..Len(banks[b].blockhash_queue) :
                 banks[b].blockhash_queue[i] =
                     AncestorHashes[b][banks[b].slot + 1 - Len(banks[b].blockhash_queue) + i]
  <1> DEFINE q == banks[b].blockhash_queue
             line == AncestorHashes[b]
  <1>1. q \in Seq(BlockhashInfo) /\ banks[b].slot \in Nat
    <2>1. banks[b] \in BankType
      BY DEF Types, BanksTyped
    <2> QED
      BY <2>1 DEF BankType
  <1>2. line \in Seq(BlockhashInfo) /\ Len(line) = banks[b].slot + 1 /\ Window(q, line)
    BY AllOnLine DEF OnLine
  <1> HIDE DEF q, line
  <1>3. /\ Len(q) = Smaller(D, Len(line))
        /\ \A i \in 1..Len(q) : q[i] = line[Len(line) - Len(q) + i]
    BY <1>2 DEF Window
  <1>4. PICK n : n = banks[b].slot + 1
    OBVIOUS
  <1>5. n = Len(line)
    BY <1>2, <1>4
  <1>6. \A i \in 1..Len(q) : q[i] = line[n - Len(q) + i]
    BY <1>3, <1>5
  <1>7. \A i \in 1..Len(q) : q[i] = line[banks[b].slot + 1 - Len(q) + i]
    <2> SUFFICES ASSUME NEW i \in 1..Len(q)
                 PROVE  q[i] = line[banks[b].slot + 1 - Len(q) + i]
      OBVIOUS
    <2>1. q[i] = line[n - Len(q) + i]
      BY <1>6
    <2>2. n - Len(q) + i = banks[b].slot + 1 - Len(q) + i
      <3>1. Len(q) \in Int /\ banks[b].slot \in Int /\ i \in Int
        BY <1>1
      <3> QED
        BY <1>4, <3>1
    <2> QED
      BY <2>1, <2>2, Zenon
  <1>8. Len(q) = Smaller(D, banks[b].slot + 1)
    BY <1>2, <1>3, Zenon
  <1> QED
    BY <1>1, <1>2, <1>7, <1>8, Zenon DEF q, line

\* What get_latest_blockhash hands out on a bank other than the first.
LEMMA LatestEntry ==
    ASSUME Types, LineInv, NEW a \in DOMAIN banks, a # 1
    PROVE  /\ get_latest_blockhash(banks[a]).info = AncestorHashes[a][banks[a].slot + 1]
           /\ get_latest_blockhash(banks[a]).info.created_at_slot = banks[a].slot - 1
           /\ get_latest_blockhash(banks[a]).lastValidBlockHeight = banks[a].slot - 1 + D
           /\ banks[a].slot \in Nat \ {0}
  <1> DEFINE q == banks[a].blockhash_queue
             t == banks[a].slot
  <1>1. PICK p \in DOMAIN banks : banks[a].slot = banks[p].slot + 1
    BY DEF LineInv, LineOfBanks, ChildOf
  <1>2. banks[p].slot \in Nat
    BY QueueEntries
  <1>3. t \in Nat \ {0}
    BY <1>1, <1>2
  <1>4. D \in Nat \ {0}
    BY BankConstants DEF D
  <1>5. /\ q \in Seq(BlockhashInfo) /\ Len(q) = Smaller(D, t + 1)
        /\ \A i \in 1..Len(q) : q[i] = AncestorHashes[a][t + 1 - Len(q) + i]
    BY QueueEntries
  <1>6. Len(AncestorHashes[a]) = t + 1
        /\ \A i \in 1..Len(AncestorHashes[a]) :
              AncestorHashes[a][i].created_at_slot = IF i = 1 THEN 0 ELSE i - 2
    BY AllOnLine DEF OnLine
  <1> HIDE DEF q, t
  <1>7. Len(q) \in 1..Len(q) /\ t + 1 - Len(q) + Len(q) = t + 1
    BY <1>3, <1>4, <1>5 DEF Smaller
  <1>8. Last(q) = AncestorHashes[a][t + 1]
    BY <1>5, <1>7 DEF Last
  <1>9. AncestorHashes[a][t + 1].created_at_slot = t - 1
    BY <1>3, <1>6
  <1> QED
    BY <1>3, <1>8, <1>9 DEF get_latest_blockhash, q, t, D

\* A hash is in the queue of a descendant exactly as long as its promise lasts.
LEMMA LineIsPromise == Types /\ LineInv => ValidAsLongAsPromised
  <1> SUFFICES ASSUME Types, LineInv, NEW b \in DOMAIN banks, NEW a \in Line[b] \ {1}
               PROVE  LET latest == get_latest_blockhash(banks[a])
                      IN  IF banks[b].slot <= latest.lastValidBlockHeight
                          THEN IsRecent(banks[b], latest.info.hash)
                          ELSE latest.info \notin ToSet(banks[b].blockhash_queue)
    BY DEF ValidAsLongAsPromised
  <1> DEFINE latest == get_latest_blockhash(banks[a])
             q == banks[b].blockhash_queue
  <1>1. /\ a \in DOMAIN banks /\ banks[a].slot <= banks[b].slot
        /\ \A i \in 1..Len(AncestorHashes[a]) : AncestorHashes[b][i] = AncestorHashes[a][i]
    BY LineDescends DEF Descends
  <1>2. PICK s, t : s = banks[b].slot /\ t = banks[a].slot
    OBVIOUS
  <1>3. /\ latest.info = AncestorHashes[a][t + 1]
        /\ latest.info.created_at_slot = t - 1
        /\ latest.lastValidBlockHeight = t - 1 + D
        /\ t \in Nat \ {0}
    BY <1>1, <1>2, LatestEntry
  <1>4. /\ q \in Seq(BlockhashInfo) /\ Len(q) = Smaller(D, s + 1) /\ s \in Nat
        /\ \A i \in 1..Len(q) : q[i] = AncestorHashes[b][s + 1 - Len(q) + i]
    BY <1>2, QueueEntries
  <1>5. D \in Nat \ {0} /\ t <= s /\ Len(AncestorHashes[a]) = t + 1
    BY <1>1, <1>2, QueueEntries, BankConstants DEF D
  <1>6. latest.info = AncestorHashes[b][t + 1]
    <2>1. t + 1 \in 1..Len(AncestorHashes[a])
      BY <1>3, <1>5
    <2> QED
      BY <1>1, <1>3, <2>1
  <1> HIDE DEF latest, q
  <1>7. CASE s <= t - 1 + D
    <2>1. PICK i : i = t - s + Len(q)
      OBVIOUS
    <2>2. i \in 1..Len(q) /\ s + 1 - Len(q) + i = t + 1
      BY <1>3, <1>4, <1>5, <1>7, <2>1 DEF Smaller
    <2>3. q[i] = latest.info
      BY <1>4, <1>6, <2>2
    <2>4. IsRecent(banks[b], latest.info.hash)
      BY <2>2, <2>3, RecentIsInQueue DEF q
    <2> QED
      BY <1>2, <1>3, <1>7, <2>4 DEF latest
  <1>8. CASE ~(s <= t - 1 + D)
    <2>1. ASSUME NEW i \in DOMAIN q PROVE q[i] # latest.info
      <3>1. i \in 1..Len(q)
        BY <1>4
      <3>2. q[i].created_at_slot \in Nat /\ s <= q[i].created_at_slot + D
        BY <1>2, <3>1, QueueIsRecent DEF q
      <3>3. q[i].created_at_slot # t - 1
        BY <1>3, <1>4, <1>5, <1>8, <3>2
      <3> QED
        BY <1>3, <3>3
    <2>2. latest.info \notin ToSet(q)
      BY <2>1 DEF ToSet
    <2> QED
      BY <1>2, <1>3, <1>8, <2>2 DEF latest, q
  <1> QED
    BY <1>7, <1>8

\* A blockhash that was handed out on any bank but the first is accepted by every
\* descendant up to its lastValidBlockHeight and by none after that, whatever the
\* depth of the queue: the age test and the eviction agree on every slot.
THEOREM PromisesKept ==
    ASSUME OneForker
    PROVE  Spec => []ValidAsLongAsPromised
  <1>1. Spec => []LineInv
    BY LineHolds
  <1> QED
    BY <1>1, TypesHold, LineIsPromise, PTL

-----------------------------------------------------------------------------
\* A level of the hash tree, and one without repetition.
Level(s) == Len(s) \in Nat \ {0} /\ s = [i \in 1..Len(s) |-> s[i]]
Differ(s) == \A i, j \in 1..Len(s) : s[i] = s[j] => i = j

\* The partner of the left digest of pair i.
Partner(s, i) == IF 2 * i <= Len(s) THEN 2 * i ELSE 2 * i - 1

\* A pair tells its halves.
LEMMA PairIs ==
    ASSUME NEW a, NEW b, NEW c, NEW d
    PROVE  /\ PairHash(a, b) = PairHash(c, d) => a = c /\ b = d
           /\ PairHash(a, b).pair # <<>>
  BY DEF PairHash

\* The next level.
LEMMA NextIs ==
    ASSUME NEW s, Level(s), Differ(s), NEW t, t = NextLevel(s)
    PROVE  /\ Level(t) /\ Differ(t)
           /\ Len(t) = (Len(s) + 1) \div 2
           /\ \A i \in 1..Len(t) : t[i] = PairHash(s[2 * i - 1], s[Partner(s, i)])
  <1>1. PICK n, m : n = Len(s) /\ m = (n + 1) \div 2
    OBVIOUS
  <1>2. n \in Nat \ {0} /\ m \in Nat \ {0} /\ 2 * m <= n + 1
    BY <1>1 DEF Level
  <1>3. t = [i \in 1..m |-> PairHash(s[2 * i - 1], s[Partner(s, i)])]
    BY <1>1, Zenon DEF NextLevel, Partner
  <1>4. Len(t) = m
    BY <1>2, <1>3
  <1>5. \A i \in 1..m : t[i] = PairHash(s[2 * i - 1], s[Partner(s, i)])
    BY <1>3
  <1>6. t = [i \in 1..m |-> t[i]]
    BY <1>3, <1>5
  <1>7. ASSUME NEW i \in 1..m, NEW j \in 1..m, t[i] = t[j] PROVE i = j
    <2>1. PICK a, b, c, d : /\ a = s[2 * i - 1] /\ b = s[Partner(s, i)]
                            /\ c = s[2 * j - 1] /\ d = s[Partner(s, j)]
      OBVIOUS
    <2>2. PairHash(a, b) = PairHash(c, d)
      BY <1>5, <1>7, <2>1
    <2>3. s[2 * i - 1] = s[2 * j - 1]
      BY <2>1, <2>2, PairIs
    <2>4. 2 * i - 1 \in 1..n /\ 2 * j - 1 \in 1..n
      BY <1>2
    <2>5. 2 * i - 1 = 2 * j - 1
      BY <1>1, <2>3, <2>4 DEF Differ
    <2> QED
      BY <2>5
  <1> QED
    BY <1>1, <1>2, <1>4, <1>5, <1>6, <1>7 DEF Level, Differ

\* It tells the level before it: a last pair of twice the same digest is one digest
\* without a partner, since no digest comes twice.
LEMMA NextInjective ==
    ASSUME NEW s, Level(s), Differ(s), NEW t, Level(t), Differ(t), NextLevel(s) = NextLevel(t)
    PROVE  s = t
  <1>1. PICK v, n, k, m : v = NextLevel(s) /\ n = Len(s) /\ k = Len(t) /\ m = Len(v)
    OBVIOUS
  <1>2. /\ m = (n + 1) \div 2
        /\ \A i \in 1..m : v[i] = PairHash(s[2 * i - 1], s[Partner(s, i)])
    BY <1>1, NextIs
  <1>3. /\ m = (k + 1) \div 2
        /\ \A i \in 1..m : v[i] = PairHash(t[2 * i - 1], t[Partner(t, i)])
    BY <1>1, NextIs
  <1>4. n \in Nat \ {0} /\ k \in Nat \ {0} /\ m \in Nat \ {0}
        /\ n \in {2 * m - 1, 2 * m} /\ k \in {2 * m - 1, 2 * m}
    <2>1. n \in Nat \ {0} /\ k \in Nat \ {0}
      BY <1>1 DEF Level
    <2>2. m = (n + 1) \div 2 /\ m = (k + 1) \div 2
      BY <1>2, <1>3
    <2> QED
      BY <2>1, <2>2
  <1>5. ASSUME NEW i \in 1..m
        PROVE  s[2 * i - 1] = t[2 * i - 1] /\ s[Partner(s, i)] = t[Partner(t, i)]
    <2>1. PICK a, b, c, d : /\ a = s[2 * i - 1] /\ b = s[Partner(s, i)]
                            /\ c = t[2 * i - 1] /\ d = t[Partner(t, i)]
      OBVIOUS
    <2>2. PairHash(a, b) = PairHash(c, d)
      BY <1>2, <1>3, <2>1
    <2> QED
      BY <2>1, <2>2, PairIs
  <1>6. m \in 1..m /\ s[2 * m - 1] = t[2 * m - 1] /\ s[Partner(s, m)] = t[Partner(t, m)]
    BY <1>4, <1>5
  <1>7. ASSUME n = 2 * m - 1, k = 2 * m PROVE FALSE
    <2>1. t[2 * m] = t[2 * m - 1]
      BY <1>1, <1>4, <1>6, <1>7 DEF Partner
    <2> QED
      BY <1>1, <1>4, <1>7, <2>1 DEF Differ
  <1>8. ASSUME n = 2 * m, k = 2 * m - 1 PROVE FALSE
    <2>1. s[2 * m] = s[2 * m - 1]
      BY <1>1, <1>4, <1>6, <1>8 DEF Partner
    <2> QED
      BY <1>1, <1>4, <1>8, <2>1 DEF Differ
  <1>9. n = k
    BY <1>4, <1>7, <1>8
  <1>10. ASSUME NEW j \in 1..n PROVE s[j] = t[j]
    <2>1. PICK i : i = (j + 1) \div 2
      OBVIOUS
    <2>2. i \in 1..m /\ (j = 2 * i - 1 \/ j = 2 * i)
      BY <1>4, <2>1
    <2>3. CASE j = 2 * i - 1
      BY <1>5, <2>2, <2>3
    <2>4. CASE j = 2 * i
      <3>1. Partner(s, i) = j /\ Partner(t, i) = j
        BY <1>1, <1>9, <2>4 DEF Partner
      <3> QED
        BY <1>5, <2>2, <3>1
    <2> QED
      BY <2>2, <2>3, <2>4
  <1> QED
    BY <1>1, <1>9, <1>10 DEF Level

\* The levels one over the other, as RootOf computes them.
Above(level) == IF Len(level) > 1 THEN NextLevel(level) ELSE level
LevelAt(A, s, n) == IF n = 0 THEN s ELSE Above(A[n - 1])
Tower(A, s, N) == A = [n \in 0..N |-> LevelAt(A, s, n)]

\* There are such levels.
LEMMA TowerExists ==
    ASSUME NEW s, NEW N \in Nat
    PROVE  \E A : Tower(A, s, N)
  <1> DEFINE E(k) == \E A : Tower(A, s, k - 1)
             S == {k \in 1..(N + 1) : E(k)}
  <1>1. ASSUME NEW k \in 1..(N + 1), \A m \in 1..(N + 1) : m < k => m \in S
        PROVE  k \in S
    <2>1. CASE k = 1
      <3> DEFINE A == [n \in 0..0 |-> s]
      <3>1. \A n \in 0..0 : LevelAt(A, s, n) = s
        BY DEF LevelAt
      <3>2. A = [n \in 0..0 |-> LevelAt(A, s, n)]
        BY <3>1
      <3>3. Tower(A, s, k - 1)
        BY <2>1, <3>2 DEF Tower
      <3> QED
        BY <3>3
    <2>2. CASE k # 1
      <3>1. k - 1 \in 1..(N + 1) /\ k - 1 < k /\ k - 2 \in Nat /\ (k - 1) - 1 = k - 2
        BY <2>2
      <3>2. PICK B : Tower(B, s, k - 2)
        BY <1>1, <3>1
      <3> DEFINE A == [n \in 0..(k - 1) |-> IF n = k - 1 THEN LevelAt(B, s, n) ELSE B[n]]
      <3>3. ASSUME NEW n \in 0..(k - 1)
            PROVE  LevelAt(A, s, n) = LevelAt(B, s, n)
        <4>1. n # 0 => A[n - 1] = B[n - 1]
          BY <3>1
        <4> QED
          BY <4>1 DEF LevelAt
      <3>4. ASSUME NEW n \in 0..(k - 1)
            PROVE  A[n] = LevelAt(A, s, n)
        <4>1. n # k - 1 => n \in 0..(k - 2)
          BY <3>1
        <4>2. n # k - 1 => B[n] = LevelAt(B, s, n)
          BY <3>2, <4>1 DEF Tower
        <4>3. A[n] = IF n = k - 1 THEN LevelAt(B, s, n) ELSE B[n]
          OBVIOUS
        <4> HIDE DEF A
        <4> QED
          BY <3>3, <4>2, <4>3
      <3>5. A = [n \in 0..(k - 1) |-> A[n]]
        OBVIOUS
      <3>6. Tower(A, s, k - 1)
        <4> HIDE DEF A
        <4> QED
          BY <3>4, <3>5 DEF Tower
      <3> QED
        BY <3>6
    <2> QED
      BY <2>1, <2>2
  <1> HIDE DEF E
  <1>2. S = 1..(N + 1)
    <2>1. S \in SUBSET (1..(N + 1)) /\ N + 1 \in Nat
      OBVIOUS
    <2> HIDE DEF S
    <2> QED
      BY <1>1, <2>1, StrongInduction
  <1>3. E(N + 1) /\ N + 1 - 1 = N
    BY <1>2
  <1> QED
    BY <1>3 DEF E

\* The root is on top of them.
LEMMA RootIs ==
    ASSUME NEW s, Len(s) \in Nat
    PROVE  \E A : Tower(A, s, Len(s)) /\ RootOf(s) = Head(A[Len(s)])
  <1>1. PICK N : N = Len(s)
    OBVIOUS
  <1> DEFINE Is(A) == A = [n \in 0..N |-> IF n = 0 THEN s
                                          ELSE IF Len(A[n - 1]) > 1 THEN NextLevel(A[n - 1]) ELSE A[n - 1]]
  <1>2. \A A : Tower(A, s, N) <=> Is(A)
    BY Zenon DEF Tower, LevelAt, Above
  <1>3. \E A : Is(A)
    BY <1>1, <1>2, TowerExists
  <1>4. RootOf(s) = Head((CHOOSE A : Is(A))[N])
    BY <1>1, Zenon DEF RootOf
  <1> HIDE DEF Is
  <1>5. PICK A : A = CHOOSE B : Is(B)
    OBVIOUS
  <1>6. Is(A)
    BY <1>3, <1>5
  <1> QED
    BY <1>1, <1>2, <1>4, <1>5, <1>6

\* The levels of s, from the leaves to the one below the root.
Descent(A, h, s) ==
    /\ A[0] = s /\ Len(A[h]) = 1 /\ RootOf(s) = A[h][1]
    /\ \A n \in 0..h : Level(A[n]) /\ Differ(A[n])
    /\ \A n \in 0..h : n # h => A[n + 1] = NextLevel(A[n])

\* Levels get shorter until one digest is left.
LEMMA TowerLevels ==
    ASSUME NEW s, Level(s), Differ(s), NEW A, Tower(A, s, Len(s)), NEW n \in 0..Len(s)
    PROVE  Level(A[n]) /\ Differ(A[n]) /\ (Len(A[n]) = 1 \/ Len(A[n]) <= Len(s) - n)
  <1>1. PICK N : N = Len(s)
    OBVIOUS
  <1> DEFINE Good(k) == Level(A[k]) /\ Differ(A[k]) /\ (Len(A[k]) = 1 \/ Len(A[k]) <= N - k)
             S == {k \in 1..N : Good(k)}
  <1>2. N \in Nat \ {0}
    BY <1>1 DEF Level
  <1>3. A[0] = s
    BY <1>1, <1>2 DEF Tower, LevelAt
  <1>4. Good(0)
    BY <1>1, <1>2, <1>3
  <1>5. ASSUME NEW k \in 1..N PROVE A[k] = Above(A[k - 1])
    BY <1>1, <1>2, <1>5 DEF Tower, LevelAt
  <1>6. ASSUME NEW k \in 1..N, Good(k - 1) PROVE Good(k)
    <2>1. PICK u, v : u = A[k - 1] /\ v = A[k]
      OBVIOUS
    <2>2. Level(u) /\ Differ(u) /\ (Len(u) = 1 \/ Len(u) <= N - (k - 1)) /\ Len(u) \in Nat \ {0}
      BY <1>6, <2>1 DEF Level
    <2>3. CASE Len(u) > 1
      <3>1. v = NextLevel(u)
        BY <1>5, <2>1, <2>3 DEF Above
      <3>2. Level(v) /\ Differ(v) /\ Len(v) = (Len(u) + 1) \div 2
        BY <2>2, <3>1, NextIs
      <3>3. PICK a, b : a = Len(u) /\ b = Len(v)
        OBVIOUS
      <3>4. a \in Nat /\ a > 1 /\ a <= N - (k - 1) /\ b = (a + 1) \div 2
        BY <2>2, <2>3, <3>2, <3>3
      <3>5. b <= a - 1
        BY <3>4
      <3>6. b <= N - k
        BY <1>2, <3>4, <3>5
      <3> QED
        BY <2>1, <3>2, <3>3, <3>6
    <2>4. CASE ~(Len(u) > 1)
      <3>1. v = u
        BY <1>5, <2>1, <2>4 DEF Above
      <3>2. PICK a : a = Len(u)
        OBVIOUS
      <3>3. a = 1
        BY <2>2, <2>4, <3>2
      <3> QED
        BY <2>1, <2>2, <3>1, <3>2, <3>3
    <2> QED
      BY <2>3, <2>4
  <1> HIDE DEF Good
  <1>7. ASSUME NEW k \in 1..N, \A m \in 1..N : m < k => m \in S
        PROVE  k \in S
    <2>1. Good(k - 1)
      <3>1. CASE k = 1
        BY <1>4, <3>1
      <3>2. CASE k # 1
        <4>1. k - 1 \in 1..N /\ k - 1 < k
          BY <1>2, <3>2
        <4> QED
          BY <1>7, <4>1
      <3> QED
        BY <3>1, <3>2
    <2> QED
      BY <1>6, <2>1
  <1>8. S = 1..N
    <2>1. S \in SUBSET (1..N)
      OBVIOUS
    <2> HIDE DEF S
    <2> QED
      BY <1>2, <1>7, <2>1, StrongInduction
  <1>9. Good(n)
    <2>1. CASE n = 0
      BY <1>4, <2>1
    <2>2. CASE n # 0
      <3>1. n \in 1..N
        BY <1>1, <1>2, <2>2
      <3> QED
        BY <1>8, <3>1
    <2> QED
      BY <2>1, <2>2
  <1> QED
    BY <1>1, <1>9 DEF Good

\* The first level of one digest.
LEMMA DescentExists ==
    ASSUME NEW s, Level(s), Differ(s)
    PROVE  \E A : \E h \in Nat : Descent(A, h, s)
  <1>1. PICK N : N = Len(s)
    OBVIOUS
  <1>2. N \in Nat \ {0}
    BY <1>1 DEF Level
  <1>3. PICK A : Tower(A, s, N) /\ RootOf(s) = Head(A[N])
    BY <1>1, <1>2, RootIs
  <1>4. \A n \in 0..N : Level(A[n]) /\ Differ(A[n]) /\ (Len(A[n]) = 1 \/ Len(A[n]) <= N - n)
    BY <1>1, <1>3, TowerLevels
  <1>5. A[0] = s /\ \A n \in 1..N : A[n] = Above(A[n - 1])
    BY <1>2, <1>3 DEF Tower, LevelAt
  <1>6. \A n \in 0..N : Len(A[n]) \in Nat \ {0}
    BY <1>4 DEF Level
  <1>7. Len(A[N]) = 1
    BY <1>2, <1>4, <1>6
  <1> DEFINE T == {n \in 0..N : Len(A[n]) = 1}
  <1>8. T \in SUBSET Nat /\ N \in T
    BY <1>2, <1>7
  <1> HIDE DEF T
  <1>9. PICK h \in T : \A n \in T : h <= n
    BY <1>8, SmallestElement
  <1>10. h \in 0..N /\ h \in Nat /\ Len(A[h]) = 1
    BY <1>8, <1>9 DEF T
  <1>11. ASSUME NEW n \in 0..h, n # h PROVE A[n + 1] = NextLevel(A[n])
    <2>1. n \in 0..N /\ n < h /\ n + 1 \in 1..N /\ (n + 1) - 1 = n
      BY <1>2, <1>10, <1>11
    <2>2. n \notin T
      BY <1>9, <1>10, <2>1
    <2>3. Len(A[n]) > 1
      <3>1. PICK a : a = Len(A[n])
        OBVIOUS
      <3>2. a \in Nat \ {0} /\ a # 1
        BY <1>6, <2>1, <2>2, <3>1 DEF T
      <3>3. a > 1
        BY <3>2
      <3> QED
        BY <3>1, <3>3, Zenon
    <2>4. A[n + 1] = Above(A[n])
      BY <1>5, <2>1
    <2> QED
      BY <2>3, <2>4 DEF Above
  <1>12. A[N] = A[h]
    <2> DEFINE K == N - h
               S == {k \in 1..K : A[h + k] = A[h]}
    <2>1. K \in Nat
      BY <1>2, <1>10
    <2>2. ASSUME NEW k \in 1..K, \A m \in 1..K : m < k => m \in S PROVE k \in S
      <3>1. h + k \in 1..N /\ (h + k) - 1 = h + (k - 1)
        BY <1>2, <1>10, <2>1
      <3>2. A[h + (k - 1)] = A[h]
        <4>1. CASE k = 1
          BY <1>10, <4>1
        <4>2. CASE k # 1
          <5>1. k - 1 \in 1..K /\ k - 1 < k
            BY <2>1, <4>2
          <5> QED
            BY <2>2, <5>1
        <4> QED
          BY <4>1, <4>2
      <3>3. A[h + k] = Above(A[h])
        BY <1>5, <3>1, <3>2
      <3> QED
        BY <1>10, <3>3 DEF Above
    <2>3. S \in SUBSET (1..K)
      OBVIOUS
    <2> HIDE DEF S, K
    <2>4. S = 1..K
      BY <2>1, <2>2, <2>3, StrongInduction
    <2>5. CASE K = 0
      BY <1>2, <1>10, <2>5 DEF K
    <2>6. CASE K # 0
      <3>1. K \in S /\ h + K = N
        BY <1>2, <1>10, <2>1, <2>4, <2>6 DEF K
      <3> QED
        BY <3>1 DEF S
    <2> QED
      BY <2>5, <2>6
  <1>13. RootOf(s) = A[h][1]
    <2>1. PICK u : u = A[h]
      OBVIOUS
    <2>2. Level(u) /\ Len(u) = 1
      BY <1>4, <1>10, <2>1
    <2>3. u = [i \in 1..1 |-> u[i]]
      BY <2>2 DEF Level
    <2>4. Head(u) = u[1]
      BY <2>3
    <2> QED
      BY <1>3, <1>12, <2>1, <2>4
  <1>14. \A n \in 0..h : n \in 0..N
    BY <1>2, <1>10
  <1> QED
    BY <1>4, <1>5, <1>10, <1>11, <1>13, <1>14 DEF Descent

\* A digest of an account is not one of a pair.
Leaf(s) == \A i \in 1..Len(s) : s[i].pair = <<>>

\* Trees with the same root have the same leaves, if one is at most as high.
LEMMA DescentsMeet ==
    ASSUME NEW s, Leaf(s), NEW t, RootOf(s) = RootOf(t),
           NEW A, NEW h \in Nat, Descent(A, h, s), NEW B, NEW g \in Nat, Descent(B, g, t), h <= g
    PROVE  s = t
  <1> DEFINE S == {k \in 1..(h + 1) : A[(h + 1) - k] = B[(g + 1) - k]}
  <1>1. ASSUME NEW k \in 1..(h + 1), \A m \in 1..(h + 1) : m < k => m \in S PROVE k \in S
    <2>1. CASE k = 1
      <3>1. (h + 1) - k = h /\ (g + 1) - k = g
        BY <2>1
      <3>2. PICK u, v : u = A[h] /\ v = B[g]
        OBVIOUS
      <3>3. Level(u) /\ Level(v) /\ Len(u) = 1 /\ Len(v) = 1 /\ u[1] = v[1]
        <4>1. h \in 0..h /\ g \in 0..g
          OBVIOUS
        <4> QED
          BY <3>2, <4>1 DEF Descent
      <3>4. u = [i \in 1..1 |-> u[i]] /\ v = [i \in 1..1 |-> v[i]]
        BY <3>3 DEF Level
      <3>5. u = v
        <4>1. \A i \in 1..1 : u[i] = v[i]
          BY <3>3
        <4> QED
          BY <3>4, <4>1
      <3> QED
        BY <3>1, <3>2, <3>5
    <2>2. CASE k # 1
      <3>1. PICK a, b : a = (h + 1) - k /\ b = (g + 1) - k
        OBVIOUS
      <3>2. /\ a \in 0..h /\ b \in 0..g /\ a # h /\ b # g
            /\ k - 1 \in 1..(h + 1) /\ k - 1 < k
            /\ (h + 1) - (k - 1) = a + 1 /\ (g + 1) - (k - 1) = b + 1
        BY <2>2, <3>1
      <3>3. A[a + 1] = B[b + 1]
        <4>1. k - 1 \in S
          BY <1>1, <3>2
        <4> QED
          BY <3>2, <4>1
      <3>4. PICK u, v : u = A[a] /\ v = B[b]
        OBVIOUS
      <3>5. Level(u) /\ Differ(u) /\ Level(v) /\ Differ(v) /\ NextLevel(u) = NextLevel(v)
        BY <3>2, <3>3, <3>4 DEF Descent
      <3>6. u = v
        BY <3>5, NextInjective
      <3> QED
        BY <3>1, <3>4, <3>6
    <2> QED
      BY <2>1, <2>2
  <1>2. S = 1..(h + 1)
    <2>1. S \in SUBSET (1..(h + 1)) /\ h + 1 \in Nat
      OBVIOUS
    <2> HIDE DEF S
    <2> QED
      BY <1>1, <2>1, StrongInduction
  <1>3. A[0] = B[g - h]
    <2>1. h + 1 \in S
      <3>1. h + 1 \in 1..(h + 1)
        OBVIOUS
      <3> HIDE DEF S
      <3> QED
        BY <1>2, <3>1
    <2>2. (h + 1) - (h + 1) = 0 /\ (g + 1) - (h + 1) = g - h
      OBVIOUS
    <2> QED
      BY <2>1, <2>2
  <1>4. CASE g = h
    <2>1. g - h = 0
      BY <1>4
    <2> QED
      BY <1>3, <2>1 DEF Descent
  <1>5. ASSUME g # h PROVE FALSE
    <2>1. PICK n : n = (g - h) - 1
      OBVIOUS
    <2>2. n \in 0..g /\ n # g /\ n + 1 = g - h
      BY <1>5, <2>1
    <2>3. PICK u, v : u = B[n] /\ v = B[n + 1]
      OBVIOUS
    <2>4. Level(u) /\ Differ(u) /\ v = NextLevel(u)
      BY <2>2, <2>3 DEF Descent
    <2>5. Level(v) /\ \A i \in 1..Len(v) : v[i] = PairHash(u[2 * i - 1], u[Partner(u, i)])
      BY <2>4, NextIs
    <2>6. 1 \in 1..Len(v)
      BY <2>5 DEF Level
    <2>7. PICK a, b : v[1] = PairHash(a, b)
      BY <2>5, <2>6
    <2>8. v[1].pair # <<>>
      BY <2>7, PairIs
    <2>9. v = s
      BY <1>3, <2>2, <2>3 DEF Descent
    <2> QED
      BY <2>6, <2>8, <2>9 DEF Leaf
  <1> QED
    BY <1>4, <1>5

\* The root tells the leaves.
LEMMA RootTellsLeaves ==
    ASSUME NEW s, Level(s), Differ(s), Leaf(s), NEW t, Level(t), Differ(t), Leaf(t), RootOf(s) = RootOf(t)
    PROVE  s = t
  <1>1. PICK A, h : h \in Nat /\ Descent(A, h, s)
    BY DescentExists
  <1>2. PICK B, g : g \in Nat /\ Descent(B, g, t)
    BY DescentExists
  <1>3. CASE h <= g
    BY <1>1, <1>2, <1>3, DescentsMeet
  <1>4. CASE g <= h
    <2>1. t = s
      BY <1>1, <1>2, <1>4, DescentsMeet
    <2> QED
      BY <2>1
  <1> QED
    BY <1>1, <1>2, <1>3, <1>4

\* Different numbers can be put in order: each goes where its rank says.
LEMMA OrderExists ==
    ASSUME NEW n \in Nat, NEW k \in [1..n -> Nat], \A i, j \in 1..n : k[i] = k[j] => i = j
    PROVE  \E p \in [1..n -> 1..n] :
              /\ \A i, j \in 1..n : p[i] = p[j] => i = j
              /\ \A i, j \in 1..n : i < j => k[p[i]] < k[p[j]]
  <1> DEFINE Under(i) == {j \in 1..n : k[j] <= k[i]}
             r == [i \in 1..n |-> Cardinality(Under(i))]
  <1>1. IsFiniteSet(1..n) /\ Cardinality(1..n) = n
    BY FS_Interval
  <1>2. ASSUME NEW i \in 1..n PROVE IsFiniteSet(Under(i)) /\ r[i] \in 1..n /\ i \in Under(i)
    <2>1. Under(i) \in SUBSET (1..n) /\ i \in Under(i)
      OBVIOUS
    <2> HIDE DEF Under
    <2>2. IsFiniteSet(Under(i)) /\ Cardinality(Under(i)) <= n
      BY <1>1, <2>1, FS_Subset
    <2>3. Cardinality(Under(i)) \in Nat /\ Cardinality(Under(i)) # 0
      BY <2>1, <2>2, FS_CardinalityType, FS_EmptySet
    <2> QED
      BY <2>1, <2>2, <2>3
  <1>3. ASSUME NEW i \in 1..n, NEW j \in 1..n, k[i] < k[j] PROVE r[i] < r[j]
    <2>1. PICK P, Q : P = Under(i) /\ Q = Under(j)
      OBVIOUS
    <2>2. P \in SUBSET Q /\ P # Q
      <3>1. j \in Q /\ j \notin P
        BY <1>3, <2>1
      <3>2. P \subseteq Q
        BY <1>3, <2>1
      <3> QED
        BY <3>1, <3>2
    <2>3. IsFiniteSet(Q) /\ r[i] = Cardinality(P) /\ r[j] = Cardinality(Q)
      BY <1>2, <2>1
    <2>4. Cardinality(P) <= Cardinality(Q) /\ Cardinality(P) # Cardinality(Q)
      BY <2>2, <2>3, FS_Subset
    <2>5. r[i] \in Nat /\ r[j] \in Nat
      <3>1. r[i] \in 1..n /\ r[j] \in 1..n
        BY <1>2
      <3> HIDE DEF r
      <3> QED
        BY <3>1
    <2> HIDE DEF r
    <2> QED
      BY <2>3, <2>4, <2>5
  <1>4. r \in [1..n -> 1..n]
    BY <1>2
  <1> HIDE DEF r, Under
  <1>5. ASSUME NEW i \in 1..n, NEW j \in 1..n, r[i] = r[j] PROVE i = j
    <2>1. k[i] \in Nat /\ k[j] \in Nat /\ r[i] \in Nat /\ r[j] \in Nat
      BY <1>4
    <2>2. ~(k[i] < k[j]) /\ ~(k[j] < k[i])
      BY <1>3, <1>5, <2>1
    <2>3. k[i] = k[j]
      BY <2>1, <2>2
    <2> QED
      BY <2>3
  <1>6. \A m \in 1..n : \E i \in 1..n : r[i] = m
    <2>1. r \in Injection(1..n, 1..n)
      BY <1>4, <1>5 DEF Injection, IsInjective
    <2>2. r \in Surjection(1..n, 1..n)
      BY <1>1, <2>1, FS_Injection
    <2> QED
      BY <2>2 DEF Surjection
  <1> DEFINE p == [m \in 1..n |-> CHOOSE i \in 1..n : r[i] = m]
  <1>7. ASSUME NEW m \in 1..n PROVE p[m] \in 1..n /\ r[p[m]] = m
    BY <1>6
  <1>8. p \in [1..n -> 1..n]
    BY <1>7
  <1> HIDE DEF p
  <1>9. ASSUME NEW i \in 1..n, NEW j \in 1..n PROVE p[i] = p[j] => i = j
    BY <1>7
  <1>10. ASSUME NEW i \in 1..n, NEW j \in 1..n, i < j PROVE k[p[i]] < k[p[j]]
    <2>1. PICK a, b : a = p[i] /\ b = p[j]
      OBVIOUS
    <2>2. a \in 1..n /\ b \in 1..n /\ r[a] = i /\ r[b] = j
      BY <1>7, <2>1
    <2>3. k[a] \in Nat /\ k[b] \in Nat
      BY <2>2
    <2>4. ~(k[b] < k[a])
      BY <1>3, <1>10, <2>2
    <2>5. k[a] # k[b]
      <3>1. a # b
        BY <1>10, <2>2
      <3> QED
        BY <2>2, <3>1
    <2> QED
      BY <2>1, <2>3, <2>4, <2>5
  <1> QED
    BY <1>8, <1>9, <1>10

\* How many numbers of K are up to x.
Rank(K, x) == Cardinality({y \in K : y <= x})

\* The numbers of K in increasing order.
Increasing(u, n, K) ==
    /\ n \in Nat /\ u \in [1..n -> Nat] /\ K = {u[i] : i \in 1..n}
    /\ \A i, j \in 1..n : i < j => u[i] < u[j]

\* In an increasing sequence as many numbers are up to the i-th as there are places.
LEMMA RankIsPlace ==
    ASSUME NEW K, NEW n, NEW u, Increasing(u, n, K), NEW m \in 1..n
    PROVE  Rank(K, u[m]) = m
  <1> DEFINE T == {x \in K : x <= u[m]}
             f == [i \in 1..m |-> u[i]]
  <1>0. n \in Nat /\ u \in [1..n -> Nat] /\ K = {u[i] : i \in 1..n} /\ \A i, j \in 1..n : i < j => u[i] < u[j]
    BY DEF Increasing
  <1>1. m \in Nat /\ \A i \in 1..m : i \in 1..n
    BY <1>0
  <1>2. ASSUME NEW i \in 1..m PROVE u[i] \in T
    <2>1. i \in 1..n /\ u[i] \in Nat /\ u[m] \in Nat
      BY <1>0, <1>1
    <2>2. u[i] <= u[m]
      BY <1>0, <1>1, <2>1
    <2>3. u[i] \in K
      BY <1>0, <2>1
    <2> QED
      BY <2>2, <2>3
  <1>3. ASSUME NEW x \in T PROVE \E i \in 1..m : u[i] = x
    <2>1. PICK i \in 1..n : u[i] = x
      BY <1>0
    <2>2. u[i] \in Nat /\ u[m] \in Nat /\ u[i] <= u[m]
      BY <1>0, <2>1
    <2>3. ~(m < i)
      BY <1>0, <2>2
    <2> QED
      BY <1>0, <1>1, <2>1, <2>3
  <1>4. ASSUME NEW i \in 1..m, NEW j \in 1..m, u[i] = u[j] PROVE i = j
    <2>1. i \in 1..n /\ j \in 1..n
      BY <1>1
    <2>2. u[i] \in Nat /\ u[j] \in Nat
      BY <1>0, <2>1
    <2>3. ~(i < j) /\ ~(j < i)
      BY <1>0, <1>4, <2>1, <2>2
    <2> QED
      BY <1>1, <2>3
  <1> HIDE DEF T
  <1>5. f \in Bijection(1..m, T)
    <2>1. f \in [1..m -> T] /\ \A i \in 1..m : f[i] = u[i]
      BY <1>2
    <2> HIDE DEF f
    <2>2. f \in Injection(1..m, T)
      BY <1>4, <2>1 DEF Injection, IsInjective
    <2>3. f \in Surjection(1..m, T)
      BY <1>3, <2>1 DEF Surjection
    <2> QED
      BY <2>2, <2>3 DEF Bijection
  <1> HIDE DEF f
  <1>6. ExistsBijection(1..m, T)
    BY <1>5 DEF ExistsBijection
  <1>7. IsFiniteSet(1..m) /\ Cardinality(1..m) = m
    BY <1>1, FS_Interval
  <1>8. Cardinality(T) = m
    BY <1>6, <1>7, FS_Bijection
  <1> QED
    BY <1>8 DEF T, Rank

\* There is one such order.
LEMMA OneOrder ==
    ASSUME NEW K, NEW n, NEW u, Increasing(u, n, K), NEW m, NEW v, Increasing(v, m, K)
    PROVE  n = m /\ \A i \in 1..n : u[i] = v[i]
  <1>1. n \in Nat /\ u \in [1..n -> Nat] /\ K = {u[i] : i \in 1..n} /\ \A i, j \in 1..n : i < j => u[i] < u[j]
    BY DEF Increasing
  <1>2. m \in Nat /\ v \in [1..m -> Nat] /\ K = {v[i] : i \in 1..m} /\ \A i, j \in 1..m : i < j => v[i] < v[j]
    BY DEF Increasing
  <1>3. ASSUME NEW i \in 1..n PROVE i \in 1..m /\ v[i] = u[i]
    <2>1. u[i] \in K
      BY <1>1
    <2>2. PICK j \in 1..m : v[j] = u[i]
      BY <1>2, <2>1
    <2>3. PICK a, b : a = Rank(K, u[i]) /\ b = Rank(K, v[j])
      OBVIOUS
    <2>4. a = i
      BY <2>3, RankIsPlace
    <2>5. b = j
      BY <2>3, RankIsPlace
    <2>6. a = b
      BY <2>2, <2>3
    <2> QED
      BY <2>2, <2>4, <2>5, <2>6
  <1>4. ASSUME NEW j \in 1..m PROVE j \in 1..n
    <2>1. v[j] \in K
      BY <1>2
    <2>2. PICK i \in 1..n : u[i] = v[j]
      BY <1>1, <2>1
    <2>3. PICK a, b : a = Rank(K, u[i]) /\ b = Rank(K, v[j])
      OBVIOUS
    <2>4. a = i
      BY <2>3, RankIsPlace
    <2>5. b = j
      BY <2>3, RankIsPlace
    <2>6. a = b
      BY <2>2, <2>3
    <2> QED
      BY <2>2, <2>4, <2>5, <2>6
  <1>5. n = m
    <2>1. n \in 1..n \/ n = 0
      BY <1>1
    <2>2. m \in 1..m \/ m = 0
      BY <1>2
    <2>3. n \in 1..n => n \in 1..m
      BY <1>3
    <2>4. m \in 1..m => m \in 1..n
      BY <1>4
    <2>5. n \in Nat /\ m \in Nat
      BY <1>1, <1>2
    <2> QED
      BY <2>1, <2>2, <2>3, <2>4, <2>5
  <1> QED
    BY <1>3, <1>5

-----------------------------------------------------------------------------
\* A store: finitely many accounts, one for each key.
KeyedStore(S) ==
    /\ IsFiniteSet(S) /\ S # {}
    /\ \A a \in S : a \in [pubkey : Nat, lamports : Nat]
    /\ \A a, b \in S : a.pubkey = b.pubkey => a = b

\* The digests of S, in order.
InOrder(q, n, S) ==
    /\ n \in Nat \ {0} /\ q = [i \in 1..n |-> q[i]] /\ Len(q) = n
    /\ {q[i] : i \in 1..n} = {LeafHash(a) : a \in S}
    /\ \A i \in 1..n : q[i].account[1] \in Nat /\ q[i].pair = <<>>
    /\ \A i, j \in 1..n : i < j => q[i].account[1] < q[j].account[1]

\* Any order of a store lists its accounts.
LEMMA OrderIs ==
    ASSUME NEW S, KeyedStore(S), NEW order \in all_accounts(S)
    PROVE  \E n \in Nat \ {0} :
              /\ order \in [1..n -> S]
              /\ \A i, j \in 1..n : order[i] = order[j] => i = j
              /\ \A a \in S : \E i \in 1..n : order[i] = a
  <1>1. PICK n : n = Cardinality(S)
    OBVIOUS
  <1>2. n \in Nat /\ n # 0
    BY <1>1, FS_CardinalityType, FS_EmptySet DEF KeyedStore
  <1>3. order \in [1..n -> S] /\ \A i, j \in 1..n : i # j => order[i] # order[j]
    BY <1>1 DEF all_accounts, SetToSeqs
  <1>4. order \in Injection(1..n, S)
    BY <1>3 DEF Injection, IsInjective
  <1>5. IsFiniteSet(S) /\ Cardinality(1..n) = n
    BY <1>2, FS_Interval DEF KeyedStore
  <1>6. order \in Surjection(1..n, S)
    BY <1>1, <1>4, <1>5, FS_Injection
  <1> QED
    BY <1>2, <1>3, <1>6 DEF Surjection

\* A leaf tells its account.
LEMMA LeafIs ==
    ASSUME NEW a \in [pubkey : Nat, lamports : Nat], NEW b \in [pubkey : Nat, lamports : Nat]
    PROVE  /\ LeafHash(a).account[1] = a.pubkey /\ LeafHash(a).pair = <<>>
           /\ LeafHash(a) = LeafHash(b) => a = b
  <1>1. /\ LeafHash(a).account = <<a.pubkey, a.lamports>> /\ LeafHash(a).pair = <<>>
        /\ LeafHash(b).account = <<b.pubkey, b.lamports>>
    BY DEF LeafHash
  <1> QED
    BY <1>1

\* An order of the places P of d, and d in that order.
OrderOn(p, d, P) ==
    /\ p \in [P -> P] /\ \A i, j \in P : p[i] = p[j] => i = j
    /\ \A i, j \in P : i < j => ~Before(d[p[j]], d[p[i]])
SortedBy(p, d, P) == [i \in P |-> d[p[i]]]

\* When there is an order, Sorted finds one.
LEMMA SortedIs ==
    ASSUME NEW d, NEW p, NEW P, P = DOMAIN d, OrderOn(p, d, P)
    PROVE  \E o : OrderOn(o, d, P) /\ Sorted(d) = SortedBy(o, d, P)
  <1> DEFINE Good(o) == /\ \A i, j \in DOMAIN d : o[i] = o[j] => i = j
                        /\ \A i, j \in DOMAIN d : i < j => ~Before(d[o[j]], d[o[i]])
             o1 == CHOOSE o \in [DOMAIN d -> DOMAIN d] : Good(o)
  <1>1. Sorted(d) = [i \in DOMAIN d |-> d[o1[i]]]
    BY Zenon DEF Sorted
  <1>2. OrderOn(p, d, DOMAIN d)
    OBVIOUS
  <1>3. \E o \in [DOMAIN d -> DOMAIN d] : Good(o)
    BY <1>2, Zenon DEF OrderOn
  <1>4. \A o : o \in [DOMAIN d -> DOMAIN d] /\ Good(o) => OrderOn(o, d, DOMAIN d)
    BY Zenon DEF OrderOn
  <1> HIDE DEF Good
  <1>5. o1 \in [DOMAIN d -> DOMAIN d] /\ Good(o1)
    BY <1>3, Zenon
  <1> HIDE DEF o1
  <1>6. OrderOn(o1, d, DOMAIN d) /\ Sorted(d) = SortedBy(o1, d, DOMAIN d)
    BY <1>1, <1>4, <1>5, Zenon DEF SortedBy
  <1> QED
    BY <1>6

\* Sorting puts the digests of a store in order.
LEMMA SortedInOrder ==
    ASSUME NEW S, KeyedStore(S), NEW order \in all_accounts(S), NEW d,
           d = [i \in DOMAIN order |-> LeafHash(order[i])]
    PROVE  \E n : InOrder(Sorted(d), n, S)
  <1>1. PICK n \in Nat \ {0} :
              /\ order \in [1..n -> S]
              /\ \A i, j \in 1..n : order[i] = order[j] => i = j
              /\ \A a \in S : \E i \in 1..n : order[i] = a
    BY OrderIs
  <1>2. DOMAIN d = 1..n /\ \A i \in 1..n : d[i] = LeafHash(order[i])
    BY <1>1
  <1>3. PICK k : k = [i \in 1..n |-> order[i].pubkey]
    OBVIOUS
  <1>4. ASSUME NEW i \in 1..n
        PROVE  k[i] \in Nat /\ k[i] = order[i].pubkey /\ d[i].account[1] = k[i] /\ d[i].pair = <<>>
    <2>1. PICK a : a = order[i]
      OBVIOUS
    <2>2. a \in S /\ a \in [pubkey : Nat, lamports : Nat]
      BY <1>1, <2>1 DEF KeyedStore
    <2>3. LeafHash(a).account[1] = a.pubkey /\ LeafHash(a).pair = <<>>
      BY <2>2, LeafIs
    <2>4. a.pubkey \in Nat
      BY <2>2
    <2> QED
      BY <1>2, <1>3, <2>1, <2>3, <2>4
  <1>5. k \in [1..n -> Nat] /\ \A i, j \in 1..n : k[i] = k[j] => i = j
    <2>1. \A i, j \in 1..n : k[i] = k[j] => order[i] = order[j]
      BY <1>1, <1>4 DEF KeyedStore
    <2> QED
      BY <1>1, <1>3, <1>4, <2>1
  <1>6. PICK p0 : OrderOn(p0, d, 1..n)
    <2>1. PICK p \in [1..n -> 1..n] :
              /\ \A i, j \in 1..n : p[i] = p[j] => i = j
              /\ \A i, j \in 1..n : i < j => k[p[i]] < k[p[j]]
      BY <1>5, OrderExists
    <2>2. ASSUME NEW i \in 1..n, NEW j \in 1..n, i < j PROVE ~Before(d[p[j]], d[p[i]])
      <3>1. PICK a, b : a = p[i] /\ b = p[j]
        OBVIOUS
      <3>2. a \in 1..n /\ b \in 1..n /\ k[a] < k[b]
        BY <2>1, <2>2, <3>1
      <3>3. k[a] \in Nat /\ k[b] \in Nat /\ d[a].account[1] = k[a] /\ d[b].account[1] = k[b]
        BY <1>4, <3>2
      <3>4. PICK x, y : x = k[a] /\ y = k[b]
        OBVIOUS
      <3>5. ~(y < x) /\ y # x
        <4>1. x \in Nat /\ y \in Nat /\ x < y
          BY <3>2, <3>3, <3>4, Zenon
        <4> QED
          BY <4>1
      <3>6. ~Before(d[b], d[a])
        BY <3>3, <3>4, <3>5, Zenon DEF Before
      <3> QED
        BY <3>1, <3>6
    <2>3. OrderOn(p, d, 1..n)
      BY <2>1, <2>2 DEF OrderOn
    <2> QED
      BY <2>3
  <1>7. PICK p : OrderOn(p, d, 1..n) /\ Sorted(d) = SortedBy(p, d, 1..n)
    BY <1>2, <1>6, SortedIs
  <1>8. p \in [1..n -> 1..n] /\ \A i, j \in 1..n : p[i] = p[j] => i = j
    BY <1>7 DEF OrderOn
  <1>9. PICK q : q = Sorted(d)
    OBVIOUS
  <1>10. Len(q) = n /\ q = [i \in 1..n |-> q[i]] /\ \A i \in 1..n : q[i] = d[p[i]]
    BY <1>7, <1>9 DEF SortedBy
  <1>11. \A m \in 1..n : \E i \in 1..n : p[i] = m
    <2>1. p \in Injection(1..n, 1..n)
      BY <1>8 DEF Injection, IsInjective
    <2>2. IsFiniteSet(1..n)
      BY FS_Interval
    <2>3. p \in Surjection(1..n, 1..n)
      BY <2>1, <2>2, FS_Injection
    <2> QED
      BY <2>3 DEF Surjection
  <1>12. {q[i] : i \in 1..n} = {LeafHash(a) : a \in S}
    <2>1. ASSUME NEW i \in 1..n PROVE \E a \in S : q[i] = LeafHash(a)
      <3>1. p[i] \in 1..n
        BY <1>8
      <3>2. order[p[i]] \in S /\ q[i] = LeafHash(order[p[i]])
        BY <1>1, <1>2, <1>10, <3>1
      <3> QED
        BY <3>2
    <2>2. ASSUME NEW a \in S PROVE \E i \in 1..n : q[i] = LeafHash(a)
      <3>1. PICK m \in 1..n : order[m] = a
        BY <1>1
      <3>2. PICK i \in 1..n : p[i] = m
        BY <1>11
      <3>3. q[i] = LeafHash(a)
        BY <1>2, <1>10, <3>1, <3>2
      <3> QED
        BY <3>3
    <2> QED
      BY <2>1, <2>2
  <1>13. ASSUME NEW i \in 1..n
         PROVE  q[i].account[1] \in Nat /\ q[i].pair = <<>> /\ q[i].account[1] = k[p[i]]
    <2>1. p[i] \in 1..n
      BY <1>8
    <2> QED
      BY <1>4, <1>10, <2>1
  <1>14. ASSUME NEW i \in 1..n, NEW j \in 1..n, i < j
         PROVE  q[i].account[1] < q[j].account[1]
    <2>1. PICK a, b : a = p[i] /\ b = p[j]
      OBVIOUS
    <2>2. a \in 1..n /\ b \in 1..n /\ a # b
      BY <1>8, <1>14, <2>1
    <2>3. k[a] \in Nat /\ k[b] \in Nat /\ d[a].account[1] = k[a] /\ d[b].account[1] = k[b] /\ k[a] # k[b]
      BY <1>4, <1>5, <2>2
    <2>4. ~Before(d[b], d[a])
      BY <1>7, <1>14, <2>1 DEF OrderOn
    <2>5. k[a] < k[b]
      BY <2>3, <2>4 DEF Before
    <2> QED
      BY <1>13, <2>1, <2>5
  <1>15. InOrder(q, n, S)
    BY <1>10, <1>12, <1>13, <1>14 DEF InOrder
  <1> QED
    BY <1>9, <1>15

\* There is one such order of a store.
LEMMA OneInOrder ==
    ASSUME NEW S, KeyedStore(S), NEW q, NEW n, InOrder(q, n, S), NEW r, NEW m, InOrder(r, m, S)
    PROVE  q = r
  <1>1. PICK u, v : u = [i \in 1..n |-> q[i].account[1]] /\ v = [i \in 1..m |-> r[i].account[1]]
    OBVIOUS
  <1>2. n \in Nat /\ u \in [1..n -> Nat] /\ \A i, j \in 1..n : i < j => u[i] < u[j]
    BY <1>1 DEF InOrder
  <1>3. m \in Nat /\ v \in [1..m -> Nat] /\ \A i, j \in 1..m : i < j => v[i] < v[j]
    BY <1>1 DEF InOrder
  <1>4. (\A i \in 1..n : \E j \in 1..m : q[i] = r[j]) /\ (\A j \in 1..m : \E i \in 1..n : q[i] = r[j])
    <2>1. {q[i] : i \in 1..n} = {r[i] : i \in 1..m}
      BY DEF InOrder
    <2> QED
      BY <2>1
  <1>5. {u[i] : i \in 1..n} = {v[i] : i \in 1..m}
    <2>1. ASSUME NEW i \in 1..n PROVE \E j \in 1..m : v[j] = u[i]
      BY <1>1, <1>4
    <2>2. ASSUME NEW j \in 1..m PROVE \E i \in 1..n : v[j] = u[i]
      BY <1>1, <1>4
    <2> QED
      BY <2>1, <2>2
  <1>6. n = m /\ \A i \in 1..n : u[i] = v[i]
    <2>1. PICK K : K = {u[i] : i \in 1..n}
      BY Zenon
    <2>2. Increasing(u, n, K)
      BY <1>2, <2>1 DEF Increasing
    <2>3. Increasing(v, m, K)
      BY <1>3, <1>5, <2>1 DEF Increasing
    <2> QED
      BY <2>2, <2>3, OneOrder
  <1>7. ASSUME NEW i \in 1..n PROVE q[i] = r[i]
    <2>1. PICK j \in 1..m : q[i] = r[j]
      BY <1>4
    <2>2. u[i] = v[j] /\ v[i] = v[j]
      BY <1>1, <1>6, <2>1
    <2>3. v[i] \in Nat /\ v[j] \in Nat /\ i \in 1..m
      BY <1>3, <1>6
    <2>4. ~(i < j) /\ ~(j < i)
      BY <1>3, <2>2, <2>3
    <2>5. i = j
      BY <1>6, <2>4
    <2> QED
      BY <2>1, <2>5
  <1> QED
    BY <1>6, <1>7 DEF InOrder

\* The leaves tell the store.
LEMMA LeavesTellStore ==
    ASSUME NEW S, KeyedStore(S), NEW T, KeyedStore(T),
           {LeafHash(a) : a \in S} = {LeafHash(a) : a \in T}
    PROVE  S = T
  <1>1. ASSUME NEW a \in S PROVE a \in T
    <2>1. PICK b \in T : LeafHash(a) = LeafHash(b)
      OBVIOUS
    <2>2. a \in [pubkey : Nat, lamports : Nat] /\ b \in [pubkey : Nat, lamports : Nat]
      BY DEF KeyedStore
    <2>3. a = b
      BY <2>1, <2>2, LeafIs
    <2> QED
      BY <2>3
  <1>2. ASSUME NEW b \in T PROVE b \in S
    <2>1. PICK a \in S : LeafHash(a) = LeafHash(b)
      OBVIOUS
    <2>2. a \in [pubkey : Nat, lamports : Nat] /\ b \in [pubkey : Nat, lamports : Nat]
      BY DEF KeyedStore
    <2>3. a = b
      BY <2>1, <2>2, LeafIs
    <2> QED
      BY <2>3
  <1> QED
    BY <1>1, <1>2

\* Digests in order make a level of different leaves.
LEMMA InOrderLevel ==
    ASSUME NEW S, NEW q, NEW n, InOrder(q, n, S)
    PROVE  Level(q) /\ Differ(q) /\ Leaf(q)
  <1>1. ASSUME NEW i \in 1..n, NEW j \in 1..n, q[i] = q[j] PROVE i = j
    <2>1. q[i].account[1] \in Nat /\ q[i].account[1] = q[j].account[1]
      BY <1>1 DEF InOrder
    <2>2. ~(i < j) /\ ~(j < i)
      BY <2>1 DEF InOrder
    <2> QED
      BY <2>2 DEF InOrder
  <1> QED
    BY <1>1 DEF InOrder, Level, Differ, Leaf

\* The root hash identifies the store, in whatever order it is read.
LEMMA RootTellsStore ==
    ASSUME NEW S, KeyedStore(S), NEW order \in all_accounts(S),
           NEW T, KeyedStore(T), NEW other \in all_accounts(T)
    PROVE  hash_accounts(order) = hash_accounts(other) <=> S = T
  <1>1. PICK d, e : /\ d = [i \in DOMAIN order |-> LeafHash(order[i])]
                    /\ e = [i \in DOMAIN other |-> LeafHash(other[i])]
    OBVIOUS
  <1>2. PICK q, r : q = Sorted(d) /\ r = Sorted(e)
    OBVIOUS
  <1>3. hash_accounts(order) = RootOf(q) /\ hash_accounts(other) = RootOf(r)
    BY <1>1, <1>2, Zenon DEF hash_accounts
  <1>4. PICK n : InOrder(q, n, S)
    BY <1>1, <1>2, SortedInOrder
  <1>5. PICK m : InOrder(r, m, T)
    BY <1>1, <1>2, SortedInOrder
  <1>6. ASSUME RootOf(q) = RootOf(r) PROVE S = T
    <2>1. Level(q) /\ Differ(q) /\ Leaf(q)
      BY <1>4, InOrderLevel
    <2>2. Level(r) /\ Differ(r) /\ Leaf(r)
      BY <1>5, InOrderLevel
    <2>3. q = r
      BY <1>6, <2>1, <2>2, RootTellsLeaves
    <2>4. n = m
      BY <1>4, <1>5, <2>3 DEF InOrder
    <2>5. {LeafHash(a) : a \in S} = {LeafHash(a) : a \in T}
      BY <1>4, <1>5, <2>3, <2>4 DEF InOrder
    <2> QED
      BY <2>5, LeavesTellStore
  <1>7. ASSUME S = T PROVE RootOf(q) = RootOf(r)
    <2>1. InOrder(r, m, S)
      BY <1>5, <1>7
    <2>2. q = r
      BY <1>4, <2>1, OneInOrder
    <2> QED
      BY <2>2
  <1> QED
    BY <1>3, <1>6, <1>7

\* A hash and the store it was made from, in whatever order that was read.
MadeFrom(h, store) ==
    store \in AccountState /\ \E order \in all_accounts(store) : h = hash_accounts(order)

\* The history `sealed` has, for each finalized bank, the store its hash was made from.
Sealing ==
    \A b \in DOMAIN banks :
        banks[b].finalized_hash # NoHash => MadeFrom(banks[b].finalized_hash, sealed[b])

\* One step; only FreezeFinalize stores a hash, and the store with it.
LEMMA NextSealing == Types /\ Sealing /\ [Next]_vars => Sealing'
  <1> SUFFICES ASSUME Types, Sealing, [Next]_vars PROVE Sealing'
    OBVIOUS
  <1>0. /\ \A b \in DOMAIN banks : banks[b] \in BankType
        /\ accounts \in AccountState
    BY DEF Types, BanksTyped, HistoryTyped
  \* It is enough that the hashes and the history stay.
  <1>a. ASSUME DOMAIN banks' = DOMAIN banks, sealed' = sealed,
               \A b \in DOMAIN banks : banks'[b].finalized_hash = banks[b].finalized_hash
        PROVE  Sealing'
    BY <1>a DEF Sealing
  <1>1. ASSUME NEW w \in Worker,
               \/ \E b \in DOMAIN banks : acquire_freeze_lock(w, b)
               \/ \E recent \in Hash : check_preflight_rules(w, recent)
               \/ \E new \in AccountState : Commit(w, new)
               \/ DropFreezeLock(w)
        PROVE  Sealing'
    BY <1>1, <1>a, WorkerStepBanks DEF SameButCount
  <1>2. ASSUME NEW f \in Forker, NEW b \in DOMAIN banks, new_from_parent(f, b) PROVE Sealing'
    BY <1>2, <1>a DEF new_from_parent
  <1>3. ASSUME NEW f \in Forker, FreezeWait(f) PROVE Sealing'
    BY <1>3, <1>a DEF FreezeWait
  <1>4. ASSUME NEW f \in Forker, FreezeSwap(f) PROVE Sealing'
    <2>1. PICK b : b = forker[f].bank
      OBVIOUS
    <2>2. /\ b \in DOMAIN banks /\ DOMAIN banks' = DOMAIN banks
          /\ banks'[b] = [banks[b] EXCEPT !.is_frozen = TRUE]
          /\ \A c \in DOMAIN banks : c # b => banks'[c] = banks[c]
      BY <1>4, <2>1, FreezeSwapSteps
    <2>3. banks'[b].finalized_hash = banks[b].finalized_hash
      BY <1>0, <2>2 DEF BankType
    <2>4. sealed' = sealed
      BY <1>4 DEF FreezeSwap
    <2> QED
      BY <1>a, <2>2, <2>3, <2>4
  <1>5. ASSUME NEW f \in Forker, FreezeFinalize(f) PROVE Sealing'
    <2>1. PICK b : b = forker[f].bank
      OBVIOUS
    <2>2. /\ b \in DOMAIN banks /\ DOMAIN banks' = DOMAIN banks
          /\ \A c \in DOMAIN banks : c # b => banks'[c] = banks[c]
          /\ \A c \in DOMAIN banks : c # b => sealed'[c] = sealed[c]
          /\ banks[b].finalized_hash # NoHash => banks'[b] = banks[b] /\ sealed'[b] = sealed[b]
          /\ banks[b].finalized_hash = NoHash =>
                /\ sealed'[b] = accounts
                /\ \E order \in all_accounts(accounts) :
                      banks'[b] = [banks[b] EXCEPT !.finalized_hash = hash_accounts(order)]
      BY <1>5, <2>1, FreezeFinalizeSteps
    <2>3. ASSUME NEW c \in DOMAIN banks, banks'[c].finalized_hash # NoHash
          PROVE  MadeFrom(banks'[c].finalized_hash, sealed'[c])
      <3>1. CASE banks'[c] = banks[c] /\ sealed'[c] = sealed[c]
        BY <2>3, <3>1 DEF Sealing
      <3>2. CASE c = b /\ banks[b].finalized_hash = NoHash
        <4>1. PICK order \in all_accounts(accounts) :
                 banks'[b] = [banks[b] EXCEPT !.finalized_hash = hash_accounts(order)]
          BY <2>2, <3>2
        <4>2. banks'[b].finalized_hash = hash_accounts(order)
          BY <1>0, <2>2, <4>1 DEF BankType
        <4>3. sealed'[b] = accounts
          BY <2>2, <3>2
        <4> QED
          BY <1>0, <3>2, <4>2, <4>3 DEF MadeFrom
      <3> QED
        BY <2>2, <3>1, <3>2
    <2> QED
      BY <2>2, <2>3 DEF Sealing
  <1>6. ASSUME NEW f \in Forker, ExtendQueue(f) PROVE Sealing'
    BY <1>6, <1>a DEF ExtendQueue
  <1>7. ASSUME NEW f \in Forker, MakeChild(f) PROVE Sealing'
    <2>1. \A d \in DOMAIN banks : banks'[d] = banks[d] /\ sealed'[d] = sealed[d]
      BY <1>7, MakeChildSteps
    <2>2. DOMAIN banks' = DOMAIN banks \cup {Len(banks) + 1}
      BY <1>7, MakeChildSteps
    <2>3. banks'[Len(banks) + 1] = Child(forker[f].bank, forker[f].queue)
      <3>1. banks \in Seq(BankType)
        BY DEF Types, BanksTyped
      <3>2. PICK child : child = Child(forker[f].bank, forker[f].queue)
        OBVIOUS
      <3>3. banks' = Append(banks, child)
        BY <1>7, <3>2 DEF MakeChild, Child
      <3> QED
        BY <3>1, <3>2, <3>3
    <2>4. PICK c : c = Len(banks) + 1
      OBVIOUS
    <2>5. banks'[c].finalized_hash = NoHash
      BY <2>3, <2>4 DEF Child, GenesisBank
    <2> QED
      BY <2>1, <2>2, <2>4, <2>5 DEF Sealing
  <1>8. CASE UNCHANGED vars
    BY <1>8, <1>a DEF vars
  <1> QED
    BY <1>1, <1>2, <1>3, <1>4, <1>5, <1>6, <1>7, <1>8 DEF Next

\* Two banks have the same hash exactly if the accounts were the same when they were
\* finalized, in whatever order each was read: sorting the leaves makes the order of the
\* iterator disappear, and with different leaves an odd level that repeats its last
\* digest is not taken for an even one, nor a tree for a higher one.
THEOREM HashesIdentify == Spec => []HashIdentifiesState
  <1>1. Init => Sealing
    BY DEF Init, Sealing, GenesisBank
  <1>2. Spec => []Sealing
    BY <1>1, NextSealing, TypesHold, PTL DEF Spec
  <1>3. ASSUME Sealing PROVE HashIdentifiesState
    <2>1. ASSUME NEW b \in DOMAIN banks, NEW c \in DOMAIN banks,
                 banks[b].finalized_hash # NoHash, banks[c].finalized_hash # NoHash
          PROVE  banks[b].finalized_hash = banks[c].finalized_hash <=> sealed[b] = sealed[c]
      <3>1. PICK S, T : S = sealed[b] /\ T = sealed[c]
        OBVIOUS
      <3>2. MadeFrom(banks[b].finalized_hash, S) /\ MadeFrom(banks[c].finalized_hash, T)
        BY <1>3, <2>1, <3>1 DEF Sealing
      <3>3. S \in AccountState /\ T \in AccountState
        BY <3>2 DEF MadeFrom
      <3>4. KeyedStore(S) /\ KeyedStore(T)
        BY <3>3, StoresKeyed, BankConstants DEF KeyedStore
      <3>5. PICK order \in all_accounts(S) : banks[b].finalized_hash = hash_accounts(order)
        BY <3>2 DEF MadeFrom
      <3>6. PICK other \in all_accounts(T) : banks[c].finalized_hash = hash_accounts(other)
        BY <3>2 DEF MadeFrom
      <3>7. hash_accounts(order) = hash_accounts(other) <=> S = T
        BY <3>4, RootTellsStore
      <3> QED
        BY <3>1, <3>5, <3>6, <3>7
    <2> QED
      BY <2>1 DEF HashIdentifiesState
  <1> QED
    BY <1>2, <1>3, PTL
=============================================================================
