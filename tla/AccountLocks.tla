---------------------------- MODULE AccountLocks ----------------------------
(***************************************************************************)
(* The account lock table of the banking stage (src/src/account_locks.rs). *)
(*                                                                         *)
(* A caller asks for the locks of a whole group of transactions at once    *)
(* and gets either a LockGuard or AccountInUse; there is no waiting.  The  *)
(* table is only touched under TrackedRwLock::write, so one call is one    *)
(* atomic step.  Dropping the guard gives the locks back.                  *)
(***************************************************************************)
EXTENDS Naturals, FiniteSets

CONSTANTS Pubkey,   \* account addresses
          Caller,   \* threads that call try_lock_accounts_for_group
          Group     \* groups a caller may ask for: each a set of TxSets

\* The keys a transaction's instructions name, by the is_writable flag.
TxSets == [read_set: SUBSET Pubkey, write_set: SUBSET Pubkey]

ASSUME CallerFinite == IsFiniteSet(Caller)
ASSUME GroupsAreSets == Group \subseteq SUBSET TxSets

VARIABLES write_locks,  \* AccountLockState.write_locks
          read_locks,   \* AccountLockState.read_locks: key -> ReadCount
          holding,      \* callers whose LockGuard is alive
          guard         \* the keys listed in each caller's LockGuard

vars == <<write_locks, read_locks, holding, guard>>

EmptyGuard == [write_locks |-> {}, read_locks |-> {}]

-----------------------------------------------------------------------------
\* The two BTreeSets collected over the group's instructions.  A key may be in
\* both: one transaction of the group writes it, another one reads it.
write_keys_to_lock(group) == UNION {sets.write_set : sets \in group}
read_keys_to_lock(group)  == UNION {sets.read_set : sets \in group}

\* Mutant of InUse: a writer is not checked against the readers of the table.
InUse_WriterIgnoresReaders(group) ==
    \E key \in write_keys_to_lock(group) \cup read_keys_to_lock(group) :
        key \in write_locks

\* The write-write, read-write and write-read checks against the table.
InUse(group) ==
    \/ \E key \in write_keys_to_lock(group) :
          key \in write_locks \/ key \in DOMAIN read_locks
    \/ \E key \in read_keys_to_lock(group) : key \in write_locks

\* Mutant of CountReads: the entry is made, its count is not raised.
CountReads_NoIncrement(keys) ==
    [key \in DOMAIN read_locks \cup keys |->
        IF key \in DOMAIN read_locks THEN read_locks[key] ELSE 0]

\* *entry(key).or_insert(ReadCount(0)) += ReadCount(1), for every key of `keys`.
CountReads(keys) ==
    [key \in DOMAIN read_locks \cup keys |->
        (IF key \in DOMAIN read_locks THEN read_locks[key] ELSE 0)
          + (IF key \in keys THEN 1 ELSE 0)]

\* Mutant of UncountReads: an entry whose count is zero stays in the map.
UncountReads_KeepsZero(keys) ==
    [key \in DOMAIN read_locks |->
        IF key \in keys THEN read_locks[key] - 1 ELSE read_locks[key]]

\* *count -= ReadCount(1) for every key of `keys`; an entry that reaches zero
\* is removed.
UncountReads(keys) ==
    [key \in {k \in DOMAIN read_locks : k \notin keys \/ read_locks[k] # 1} |->
        IF key \in keys THEN read_locks[key] - 1 ELSE read_locks[key]]

-----------------------------------------------------------------------------
Init ==
    /\ write_locks = {}
    /\ read_locks = [key \in {} |-> 0]
    /\ holding = {}
    /\ guard = [c \in Caller |-> EmptyGuard]

\* try_lock_accounts_for_group returning Ok(LockGuard).
TryLockOk(c, group) ==
    /\ c \notin holding
    /\ ~InUse(group)
    /\ write_locks' = write_locks \cup write_keys_to_lock(group)
    /\ read_locks' = CountReads(read_keys_to_lock(group))
    /\ holding' = holding \cup {c}
    /\ guard' = [guard EXCEPT ![c] =
                    [write_locks |-> write_keys_to_lock(group),
                     read_locks  |-> read_keys_to_lock(group)]]

\* try_lock_accounts_for_group returning Err(AccountInUse): nothing is locked.
TryLockErr(c, group) ==
    /\ c \notin holding
    /\ InUse(group)
    /\ UNCHANGED vars

\* Drop for LockGuard.  A guard that lists no key returns before it takes the
\* table's lock, which leaves the table as it is.
DropGuard(c) ==
    /\ c \in holding
    /\ write_locks' = write_locks \ guard[c].write_locks
    /\ read_locks' = UncountReads(guard[c].read_locks)
    /\ holding' = holding \ {c}
    /\ guard' = [guard EXCEPT ![c] = EmptyGuard]

Next ==
    \E c \in Caller :
        \/ \E group \in Group : TryLockOk(c, group) \/ TryLockErr(c, group)
        \/ DropGuard(c)

Spec == Init /\ [][Next]_vars

-----------------------------------------------------------------------------
\* Types: read counts are natural numbers, guards belong to callers.
TypeOK ==
    /\ write_locks \subseteq Pubkey
    /\ DOMAIN read_locks \subseteq Pubkey
    /\ read_locks \in [DOMAIN read_locks -> Nat]
    /\ holding \subseteq Caller
    /\ guard \in [Caller -> [write_locks: SUBSET Pubkey, read_locks: SUBSET Pubkey]]

ReadersOf(key) == {c \in Caller : key \in guard[c].read_locks}

\* While a guard that lists a key for writing is alive, no other caller's guard
\* lists that key at all: two groups in execution never share a written account.
Exclusion ==
    \A c, d \in Caller :
        c # d => guard[c].write_locks
                   \cap (guard[d].write_locks \cup guard[d].read_locks) = {}

\* The table holds exactly the locks of the live guards: no lock outlives its
\* guard, none is released early, and a read count is the number of guards that
\* read the key (so the entry disappears with the last reader and a later writer
\* is not refused).
TableMatchesGuards ==
    /\ write_locks = UNION {guard[c].write_locks : c \in Caller}
    /\ DOMAIN read_locks = UNION {guard[c].read_locks : c \in Caller}
    /\ \A key \in DOMAIN read_locks :
          read_locks[key] = Cardinality(ReadersOf(key))
    /\ \A c \in Caller \ holding : guard[c] = EmptyGuard

\* A call returns AccountInUse only because of a key that some live guard holds
\* in a conflicting mode, never because of a leftover of an earlier guard or of
\* the group itself (which may both read and write a key).
RefusedOnlyByALiveGuard ==
    \A group \in Group :
        InUse(group) =>
            \E c \in holding :
               \/ write_keys_to_lock(group)
                    \cap (guard[c].write_locks \cup guard[c].read_locks) # {}
               \/ read_keys_to_lock(group) \cap guard[c].write_locks # {}
=============================================================================
