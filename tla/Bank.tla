-------------------------------- MODULE Bank --------------------------------
(***************************************************************************)
(* The life of banks (src/src/bank.rs): freeze, new_from_parent, the       *)
(* blockhash queue, and the freeze lock that BankingStage holds around the *)
(* execution and commit of a group.                                        *)
(*                                                                         *)
(* All banks share one account store, whose content is a member of         *)
(* AccountState: a set of accounts, as in RootHash.  A group is abstracted *)
(* to one transaction, and its flush to one step.                          *)
(***************************************************************************)
EXTENDS RootHash, FiniteSets

CONSTANTS Worker,                     \* threads that process groups
          Forker,                     \* threads that call new_from_parent
          AccountState,               \* contents of the account store
          initial_state,              \* its content when the node starts
          default_hash,               \* Hash::default()
          NoHash,                     \* a finalized_hash of None
          MAX_BLOCKHASH_QUEUE_DEPTH,
          MaxBanks                    \* bound: banks made

ASSUME BankConstants ==
    /\ initial_state \in AccountState
    /\ {} \notin AccountState
    /\ MAX_BLOCKHASH_QUEUE_DEPTH \in Nat \ {0}

\* A store has finitely many accounts, one for each key.
ASSUME StoresKeyed ==
    \A store \in AccountState :
        /\ IsFiniteSet(store)
        /\ \A a \in store : a \in [pubkey : Nat, lamports : Nat]
        /\ \A a, b \in store : a.pubkey = b.pubkey => a = b

\* freeze_lock_count counts threads.
ASSUME WorkersFinite == IsFiniteSet(Worker)

VARIABLES banks,      \* sequence of banks; `parent` is a position in it, 0 for none
          accounts,   \* the shared store
          worker,     \* worker[w]: what w's group is doing, and on which bank
          forker,     \* forker[f]: where f is in new_from_parent, and of which bank
          early,      \* history: early[b], workers that held bank b when it was frozen
          sealed      \* history: sealed[b], the content bank b was finalized with

vars == <<banks, accounts, worker, forker, early, sealed>>

\* The hashes a client may have got from a bank: of a store in the order in which it
\* happened to be read.
Hash == {hash_accounts(order) : order \in UNION {all_accounts(store) : store \in AccountState}}
            \cup {default_hash}

\* None is not Some(hash).
ASSUME NoHashAssumption == NoHash \notin Hash

\* Bank::hash(): the finalized hash, or the parent's.
hash(bank) == IF bank.finalized_hash = NoHash THEN bank.parent_hash ELSE bank.finalized_hash

\* Bank::new.
GenesisBank == [slot |-> 0, parent |-> 0, parent_hash |-> default_hash,
                blockhash_queue |-> <<[hash |-> default_hash, created_at_slot |-> 0]>>,
                is_frozen |-> FALSE, freeze_lock_count |-> 0, finalized_hash |-> NoHash]

Idle == [pc |-> "idle", bank |-> 0]

Init ==
    /\ banks = <<GenesisBank>>
    /\ accounts = initial_state
    /\ worker = [w \in Worker |-> Idle]
    /\ forker = [f \in Forker |-> [pc |-> "idle", bank |-> 0, queue |-> <<>>]]
    /\ early = <<{}>>
    /\ sealed = <<{}>>

-----------------------------------------------------------------------------
\* process_batch, as far as the bank sees it.

\* acquire_freeze_lock: the count goes up, frozen or not.
acquire_freeze_lock(w, b) ==
    /\ worker[w].pc = "idle"
    /\ banks' = [banks EXCEPT ![b].freeze_lock_count = @ + 1]
    /\ worker' = [worker EXCEPT ![w] = [pc |-> "preflight", bank |-> b]]
    /\ UNCHANGED <<accounts, forker, early, sealed>>

\* The entry check_preflight_rules finds: the first one with the hash.
Found(bank, recent) == SelectInSeq(bank.blockhash_queue, LAMBDA info : info.hash = recent)

\* Mutant of Expired: a hash is too old one slot earlier.
Expired_OffByOne(bank, info) ==
    bank.slot >= info.created_at_slot + MAX_BLOCKHASH_QUEUE_DEPTH

\* The TransactionError::BlockhashExpired branch.
Expired(bank, info) == bank.slot > info.created_at_slot + MAX_BLOCKHASH_QUEUE_DEPTH

\* The transaction's blockhash is in the queue, and not expired.
IsRecent(bank, recent) ==
    LET n == Found(bank, recent)
    IN  n # 0 /\ ~Expired(bank, bank.blockhash_queue[n])

\* Mutant of check_preflight_rules: the frozen flag is not looked at.
check_preflight_rules_NoFrozenCheck(w, recent) ==
    /\ worker[w].pc = "preflight"
    /\ worker' = [worker EXCEPT ![w].pc =
                      IF IsRecent(banks[worker[w].bank], recent) THEN "run" ELSE "drop"]
    /\ UNCHANGED <<banks, accounts, forker, early, sealed>>

\* Mutant of check_preflight_rules: a refused group forgets its guard.
check_preflight_rules_Leaks(w, recent) ==
    /\ worker[w].pc = "preflight"
    /\ LET bank == banks[worker[w].bank]
       IN  worker' = [worker EXCEPT ![w] =
                         IF ~bank.is_frozen /\ Found(bank, recent) # 0
                         THEN [pc |-> "run", bank |-> worker[w].bank] ELSE Idle]
    /\ UNCHANGED <<banks, accounts, forker, early, sealed>>

\* check_preflight_rules: the frozen flag, then the transaction's blockhash.
check_preflight_rules(w, recent) ==
    /\ worker[w].pc = "preflight"
    /\ LET bank == banks[worker[w].bank]
           ok   == ~bank.is_frozen /\ IsRecent(bank, recent)
       IN  worker' = [worker EXCEPT ![w].pc = IF ok THEN "run" ELSE "drop"]
    /\ UNCHANGED <<banks, accounts, forker, early, sealed>>

\* The transaction ran; its overlay is flushed.
Commit(w, new) ==
    /\ worker[w].pc = "run"
    /\ accounts' = new
    /\ worker' = [worker EXCEPT ![w].pc = "drop"]
    /\ UNCHANGED <<banks, forker, early, sealed>>

\* Drop for FreezeLockGuard.
DropFreezeLock(w) ==
    /\ worker[w].pc = "drop"
    /\ banks' = [banks EXCEPT ![worker[w].bank].freeze_lock_count = @ - 1]
    /\ worker' = [worker EXCEPT ![w] = Idle]
    /\ UNCHANGED <<accounts, forker, early, sealed>>

\* What handle_get_latest_blockhash hands out on a bank.
get_latest_blockhash(bank) ==
    LET info == Last(bank.blockhash_queue)
    IN  [info |-> info,
         lastValidBlockHeight |-> info.created_at_slot + MAX_BLOCKHASH_QUEUE_DEPTH]

-----------------------------------------------------------------------------
\* new_from_parent(b): freeze b, then build the child.

new_from_parent(f, b) ==
    /\ forker[f].pc = "idle"
    /\ Len(banks) < MaxBanks
    /\ forker' = [forker EXCEPT ![f] = [pc |-> "wait", bank |-> b, queue |-> <<>>]]
    /\ UNCHANGED <<banks, accounts, worker, early, sealed>>

\* freeze: the spin loop sees that no lock is held ...
FreezeWait(f) ==
    /\ forker[f].pc = "wait"
    /\ banks[forker[f].bank].freeze_lock_count = 0
    /\ forker' = [forker EXCEPT ![f].pc = "swap"]
    /\ UNCHANGED <<banks, accounts, worker, early, sealed>>

\* ... is_frozen.swap(true): whoever finds it set returns at once ...
FreezeSwap(f) ==
    /\ forker[f].pc = "swap"
    /\ LET b == forker[f].bank
       IN  /\ banks' = [banks EXCEPT ![b].is_frozen = TRUE]
           /\ forker' = [forker EXCEPT ![f].pc = IF banks[b].is_frozen THEN "queue" ELSE "finalize"]
           /\ early' = IF banks[b].is_frozen THEN early
                       ELSE [early EXCEPT ![b] = {w \in Worker : worker[w].bank = b}]
    /\ UNCHANGED <<accounts, worker, sealed>>

\* Mutant of FreezeFinalize: the hash of a frozen bank is computed again.
FreezeFinalize_Again(f) ==
    /\ forker[f].pc \in {"finalize", "queue"}
    /\ \E order \in all_accounts(accounts) :
          banks' = [banks EXCEPT ![forker[f].bank].finalized_hash = hash_accounts(order)]
    /\ forker' = [forker EXCEPT ![f].pc = "queue"]
    /\ UNCHANGED <<accounts, worker, early, sealed>>

\* ... and under the lock of finalized_hash the root hash is stored if there is none.
FreezeFinalize(f) ==
    /\ forker[f].pc = "finalize"
    /\ LET b == forker[f].bank
       IN  IF banks[b].finalized_hash # NoHash THEN UNCHANGED <<banks, sealed>>
           ELSE /\ \E order \in all_accounts(accounts) :
                      banks' = [banks EXCEPT ![b].finalized_hash = hash_accounts(order)]
                /\ sealed' = [sealed EXCEPT ![b] = accounts]
    /\ forker' = [forker EXCEPT ![f].pc = "queue"]
    /\ UNCHANGED <<accounts, worker, early>>

\* Mutant of Pushed: the oldest entry is let go one push too late.
Pushed_OneTooMany(queue, info) ==
    LET longer == Append(queue, info)
    IN  IF Len(longer) > MAX_BLOCKHASH_QUEUE_DEPTH + 1 THEN Tail(longer) ELSE longer

\* push_back, and pop_front when the queue is too long.
Pushed(queue, info) ==
    LET longer == Append(queue, info)
    IN  IF Len(longer) > MAX_BLOCKHASH_QUEUE_DEPTH THEN Tail(longer) ELSE longer

\* The child's blockhash queue, with the first call of parent.hash().
ExtendQueue(f) ==
    /\ forker[f].pc = "queue"
    /\ LET parent == banks[forker[f].bank]
       IN  forker' = [forker EXCEPT ![f].pc = "child",
                         ![f].queue = Pushed(parent.blockhash_queue,
                                             [hash |-> hash(parent),
                                              created_at_slot |-> parent.slot])]
    /\ UNCHANGED <<banks, accounts, worker, early, sealed>>

\* The child itself, with the second call of parent.hash().
MakeChild(f) ==
    /\ forker[f].pc = "child"
    /\ LET b == forker[f].bank
       IN  banks' = Append(banks, [GenesisBank EXCEPT
                              !.slot = banks[b].slot + 1, !.parent = b,
                              !.parent_hash = hash(banks[b]),
                              !.blockhash_queue = forker[f].queue])
    /\ early' = Append(early, {})
    /\ sealed' = Append(sealed, {})
    /\ forker' = [forker EXCEPT ![f] = [pc |-> "idle", bank |-> 0, queue |-> <<>>]]
    /\ UNCHANGED <<accounts, worker>>

-----------------------------------------------------------------------------
Next ==
    \/ \E w \in Worker :
          \/ \E b \in DOMAIN banks : acquire_freeze_lock(w, b)
          \/ \E recent \in Hash : check_preflight_rules(w, recent)
          \/ \E new \in AccountState : Commit(w, new)
          \/ DropFreezeLock(w)
    \/ \E f \in Forker :
          \/ \E b \in DOMAIN banks : new_from_parent(f, b)
          \/ FreezeWait(f) \/ FreezeSwap(f) \/ FreezeFinalize(f)
          \/ ExtendQueue(f) \/ MakeChild(f)

Spec == Init /\ [][Next]_vars

-----------------------------------------------------------------------------
\* Types; a bank's freeze_lock_count is the number of groups that hold the bank.
TypeOK ==
    /\ accounts \in AccountState
    /\ Len(early) = Len(banks) /\ Len(sealed) = Len(banks)
    /\ \A b \in DOMAIN banks :
          /\ banks[b].slot \in Nat
          /\ banks[b].parent \in 0..(b - 1)
          /\ banks[b].parent_hash \in Hash
          /\ banks[b].finalized_hash \in Hash \cup {NoHash}
          /\ banks[b].is_frozen \in BOOLEAN
          /\ banks[b].freeze_lock_count = Cardinality({w \in Worker : worker[w].bank = b})

\* The finalized hashes of the bank's ancestors with their slots, oldest first.
AncestorHashes[b \in DOMAIN banks] ==
    IF banks[b].parent = 0 THEN <<[hash |-> default_hash, created_at_slot |-> 0]>>
    ELSE LET parent == banks[banks[b].parent]
         IN  Append(AncestorHashes[banks[b].parent],
                    [hash |-> parent.finalized_hash, created_at_slot |-> parent.slot])

\* The last n elements of a sequence, all of them if there are fewer.
LastN(n, seq) == SubSeq(seq, IF Len(seq) > n THEN Len(seq) - n + 1 ELSE 1, Len(seq))

\* With one thread making banks, a child descends from a frozen bank whose hash is
\* final, and its blockhash queue is the most recent part of its line of ancestors,
\* whatever groups were running on them: a hash handed out by get_latest_blockhash
\* stays in the queue for MAX_BLOCKHASH_QUEUE_DEPTH slots and then leaves.
ChildExtendsFrozenParent ==
    \A b \in DOMAIN banks :
        /\ banks[b].parent # 0 =>
              LET parent == banks[banks[b].parent]
              IN  /\ parent.is_frozen
                  /\ banks[b].slot = parent.slot + 1
                  /\ banks[b].parent_hash = parent.finalized_hash
        /\ banks[b].blockhash_queue = LastN(MAX_BLOCKHASH_QUEUE_DEPTH, AncestorHashes[b])

\* The bank and its ancestors.
Line[b \in DOMAIN banks] ==
    {b} \cup (IF banks[b].parent = 0 THEN {} ELSE Line[banks[b].parent])

\* A blockhash that RPC hands out on a bank is accepted by every descendant up to the
\* lastValidBlockHeight that came with it, and its entry is gone from later ones:
\* the age test, which looks at the first entry with the hash, and the eviction from
\* the queue meet at the same slot.  The genesis bank is left out: its child enters a
\* second hash with slot 0, so that its own hash lives one slot less than promised.
ValidAsLongAsPromised ==
    \A b \in DOMAIN banks : \A a \in Line[b] \ {1} :
        LET latest == get_latest_blockhash(banks[a])
        IN  IF banks[b].slot <= latest.lastValidBlockHeight
            THEN IsRecent(banks[b], latest.info.hash)
            ELSE latest.info \notin ToSet(banks[b].blockhash_queue)

\* A finalized hash is never replaced and a frozen bank never thaws, although the
\* store goes on changing under the bank's children.
FrozenIsFinal ==
    [][\A b \in DOMAIN banks :
          /\ banks[b].is_frozen => banks'[b].is_frozen
          /\ banks[b].finalized_hash # NoHash =>
                banks'[b].finalized_hash = banks[b].finalized_hash]_vars

\* Two banks have the same hash exactly if the accounts were the same when they were
\* finalized: the order in which the store is iterated does not show in the root
\* hash, and every difference does, whatever the number of accounts.
HashIdentifiesState ==
    \A b, c \in DOMAIN banks :
        banks[b].finalized_hash # NoHash /\ banks[c].finalized_hash # NoHash =>
            (banks[b].finalized_hash = banks[c].finalized_hash <=> sealed[b] = sealed[c])

\* What can still change the accounts through a frozen bank is exactly the groups
\* that held it at the instant it was frozen: a later group is refused.
OnlyEarlyGroupsCommit ==
    \A w \in Worker :
        worker[w].pc = "run" /\ banks[worker[w].bank].is_frozen
            => w \in early[worker[w].bank]

\* readme.md: "Note over Bank: Prevents Bank.freeze() during execution".
NoFreezeDuringExecution ==
    [][\A b \in DOMAIN banks :
          banks'[b].is_frozen /\ ~banks[b].is_frozen => banks[b].freeze_lock_count = 0]_vars
=============================================================================
