------------------------- MODULE AccountLocksProofs -------------------------
(***************************************************************************)
(* Proofs about AccountLocks, for every set of keys, every finite set of   *)
(* callers and every set of groups.  The inductive invariant is TypeOK,    *)
(* TableMatchesGuards and Exclusion together: a call looks only at the     *)
(* table, so Exclusion needs the table to be exactly the live guards.      *)
(***************************************************************************)
EXTENDS AccountLocks, FiniteSetTheorems, TLAPS

\* What a group reads and writes are keys.
LEMMA GroupKeys ==
    ASSUME NEW group \in Group
    PROVE  /\ write_keys_to_lock(group) \subseteq Pubkey
           /\ read_keys_to_lock(group) \subseteq Pubkey
BY GroupsAreSets DEF write_keys_to_lock, read_keys_to_lock, TxSets

\* None of the three is inductive alone.  TypeOK needs TableMatchesGuards: a count
\* is lowered only for a key some guard reads, hence from at least one.
\* TableMatchesGuards needs Exclusion: removing a guard's write locks must not
\* remove another guard's.  Exclusion needs TableMatchesGuards (see above).
Inv == TypeOK /\ TableMatchesGuards /\ Exclusion

LEMMA InitInv == Init => Inv
<1> SUFFICES ASSUME Init PROVE Inv
  OBVIOUS
<1>1. TypeOK
  BY DEF Init, TypeOK, EmptyGuard
<1>2. TableMatchesGuards
  BY DEF Init, TableMatchesGuards, EmptyGuard
<1>3. Exclusion
  BY DEF Init, Exclusion, EmptyGuard
<1> QED
  BY <1>1, <1>2, <1>3 DEF Inv

\* The readers of a key can be counted.
LEMMA ReadersFinite ==
    ASSUME NEW key
    PROVE  /\ IsFiniteSet(ReadersOf(key))
           /\ Cardinality(ReadersOf(key)) \in Nat
<1>1. ReadersOf(key) \subseteq Caller
  BY DEF ReadersOf
<1> QED
  BY <1>1, CallerFinite, FS_Subset, FS_CardinalityType

\* A call that succeeds adds its guard to the table, which no live guard contradicts.
LEMMA TryLockOkInv ==
    ASSUME Inv, NEW c \in Caller, NEW group \in Group, TryLockOk(c, group)
    PROVE  Inv'
<1> DEFINE W == write_keys_to_lock(group)
           R == read_keys_to_lock(group)
<1>1. W \subseteq Pubkey /\ R \subseteq Pubkey
  BY GroupKeys
<1> HIDE DEF W, R
<1>2. /\ c \notin holding
      /\ write_locks' = write_locks \cup W
      /\ read_locks' = CountReads(R)
      /\ holding' = holding \cup {c}
      /\ guard' = [guard EXCEPT ![c] = [write_locks |-> W, read_locks |-> R]]
  BY DEF TryLockOk, W, R
<1>3. /\ W \cap (write_locks \cup DOMAIN read_locks) = {}
      /\ R \cap write_locks = {}
  BY DEF TryLockOk, InUse, W, R
<1>4. guard[c] = EmptyGuard
  BY <1>2 DEF Inv, TableMatchesGuards
<1>5. TypeOK'
  BY <1>1, <1>2 DEF Inv, TypeOK, CountReads
<1>6. \A d \in Caller : guard'[d] = IF d = c
                                    THEN [write_locks |-> W, read_locks |-> R]
                                    ELSE guard[d]
  BY <1>2 DEF Inv, TypeOK
<1>7. TableMatchesGuards'
  <2>1. write_locks' = UNION {guard'[d].write_locks : d \in Caller}
    BY <1>2, <1>4, <1>6 DEF Inv, TableMatchesGuards, EmptyGuard
  <2>2. DOMAIN read_locks' = UNION {guard'[d].read_locks : d \in Caller}
    BY <1>2, <1>4, <1>6 DEF Inv, TableMatchesGuards, EmptyGuard, CountReads
  <2>3. ASSUME NEW key \in DOMAIN read_locks'
        PROVE  read_locks'[key] = Cardinality(ReadersOf(key)')
    <3>1. c \notin ReadersOf(key)
      BY <1>4 DEF ReadersOf, EmptyGuard
    <3>2. ReadersOf(key)' = IF key \in R THEN ReadersOf(key) \cup {c}
                                         ELSE ReadersOf(key)
      BY <1>4, <1>6, <3>1 DEF ReadersOf, EmptyGuard
    <3>3. Cardinality(ReadersOf(key)') =
            Cardinality(ReadersOf(key)) + (IF key \in R THEN 1 ELSE 0)
      BY <3>1, <3>2, ReadersFinite, FS_AddElement
    <3>4. Cardinality(ReadersOf(key)) =
            IF key \in DOMAIN read_locks THEN read_locks[key] ELSE 0
      <4>1. CASE key \in DOMAIN read_locks
        BY <4>1 DEF Inv, TableMatchesGuards
      <4>2. CASE key \notin DOMAIN read_locks
        <5>1. ReadersOf(key) = {}
          BY <4>2 DEF Inv, TableMatchesGuards, ReadersOf
        <5> QED
          BY <4>2, <5>1, FS_EmptySet
      <4> QED
        BY <4>1, <4>2
    <3> QED
      BY <1>2, <3>3, <3>4 DEF CountReads
  <2>4. \A d \in Caller \ holding' : guard'[d] = EmptyGuard
    BY <1>2, <1>6 DEF Inv, TableMatchesGuards
  <2> QED
    BY <2>1, <2>2, <2>3, <2>4 DEF TableMatchesGuards
<1>8. Exclusion'
  <2> SUFFICES ASSUME NEW a \in Caller, NEW b \in Caller, a # b
               PROVE  guard'[a].write_locks
                        \cap (guard'[b].write_locks \cup guard'[b].read_locks) = {}
    BY DEF Exclusion
  <2>1. \A d \in Caller : /\ guard[d].write_locks \subseteq write_locks
                          /\ guard[d].read_locks \subseteq DOMAIN read_locks
    BY DEF Inv, TableMatchesGuards
  <2>2. CASE a = c
    BY <1>3, <1>6, <2>1, <2>2
  <2>3. CASE b = c
    BY <1>3, <1>6, <2>1, <2>3
  <2>4. CASE a # c /\ b # c
    BY <1>6, <2>4 DEF Inv, Exclusion
  <2> QED
    BY <2>2, <2>3, <2>4
<1> QED
  BY <1>5, <1>7, <1>8 DEF Inv

\* Dropping a guard takes out of the table exactly what is its own.
LEMMA DropGuardInv ==
    ASSUME Inv, NEW c \in Caller, DropGuard(c)
    PROVE  Inv'
<1> DEFINE W == guard[c].write_locks
           R == guard[c].read_locks
<1>1. /\ write_locks' = write_locks \ W
      /\ read_locks' = UncountReads(R)
      /\ holding' = holding \ {c}
  BY DEF DropGuard
<1>2. \A d \in Caller : guard'[d] = IF d = c THEN EmptyGuard ELSE guard[d]
  BY DEF DropGuard, Inv, TypeOK
<1>3. ASSUME NEW key \in DOMAIN read_locks
      PROVE  read_locks[key] \in Nat \ {0}
  <2>1. ReadersOf(key) # {}
    BY DEF Inv, TableMatchesGuards, ReadersOf
  <2>2. Cardinality(ReadersOf(key)) # 0
    BY <2>1, ReadersFinite, FS_EmptySet
  <2> QED
    BY <2>2, ReadersFinite DEF Inv, TableMatchesGuards
<1>4. TypeOK'
  <2>1. read_locks' \in [DOMAIN read_locks' -> Nat]
    BY <1>1, <1>3 DEF UncountReads
  <2>2. DOMAIN read_locks' \subseteq Pubkey
    BY <1>1 DEF UncountReads, Inv, TypeOK
  <2>3. guard' \in [Caller -> [write_locks: SUBSET Pubkey, read_locks: SUBSET Pubkey]]
    BY DEF DropGuard, EmptyGuard, Inv, TypeOK
  <2> QED
    BY <1>1, <2>1, <2>2, <2>3 DEF Inv, TypeOK
<1>5. \A key : ReadersOf(key)' = ReadersOf(key) \ {c}
  BY <1>2 DEF ReadersOf, EmptyGuard
<1>6. ASSUME NEW key, key \in R
      PROVE  Cardinality(ReadersOf(key)') = Cardinality(ReadersOf(key)) - 1
  <2>1. c \in ReadersOf(key)
    BY <1>6 DEF ReadersOf
  <2>2. Cardinality(ReadersOf(key) \ {c}) = Cardinality(ReadersOf(key)) - 1
    BY <2>1, ReadersFinite, FS_RemoveElement
  <2> QED
    BY <1>5, <2>2
<1>7. \A key : key \notin R => ReadersOf(key)' = ReadersOf(key)
  BY <1>5 DEF ReadersOf
<1>8. TableMatchesGuards'
  <2>1. write_locks' = UNION {guard'[d].write_locks : d \in Caller}
    BY <1>1, <1>2 DEF Inv, TableMatchesGuards, Exclusion, EmptyGuard
  <2>2. DOMAIN read_locks' = UNION {guard'[d].read_locks : d \in Caller}
    <3>1. ASSUME NEW key
          PROVE  key \in UNION {guard'[d].read_locks : d \in Caller}
                   <=> ReadersOf(key)' # {}
      BY DEF ReadersOf
    <3>2. ASSUME NEW key
          PROVE  key \in DOMAIN read_locks <=> ReadersOf(key) # {}
      BY DEF Inv, TableMatchesGuards, ReadersOf
    <3>3. ASSUME NEW key \in DOMAIN read_locks, key \in R
          PROVE  ReadersOf(key)' = {} <=> read_locks[key] = 1
      <4>1. Cardinality(ReadersOf(key)') = read_locks[key] - 1
        BY <1>6, <3>3 DEF Inv, TableMatchesGuards
      <4>2. IsFiniteSet(ReadersOf(key)')
        BY <1>5, ReadersFinite, FS_RemoveElement
      <4> QED
        BY <1>3, <4>1, <4>2, FS_EmptySet
    <3>4. ASSUME NEW key
          PROVE  key \in DOMAIN read_locks' <=> ReadersOf(key)' # {}
      <4>1. key \in DOMAIN read_locks'
              <=> key \in DOMAIN read_locks /\ (key \notin R \/ read_locks[key] # 1)
        BY <1>1 DEF UncountReads
      <4>2. CASE key \in R
        BY <3>2, <3>3, <4>1, <4>2 DEF ReadersOf
      <4>3. CASE key \notin R
        BY <1>7, <3>2, <4>1, <4>3
      <4> QED
        BY <4>2, <4>3
    <3> QED
      BY <3>1, <3>4
  <2>3. ASSUME NEW key \in DOMAIN read_locks'
        PROVE  read_locks'[key] = Cardinality(ReadersOf(key)')
    <3>1. /\ key \in DOMAIN read_locks
          /\ read_locks'[key] = IF key \in R THEN read_locks[key] - 1 ELSE read_locks[key]
      BY <1>1, <2>3 DEF UncountReads
    <3>2. read_locks[key] = Cardinality(ReadersOf(key))
      BY <3>1 DEF Inv, TableMatchesGuards
    <3> QED
      BY <1>6, <1>7, <3>1, <3>2
  <2>4. \A d \in Caller \ holding' : guard'[d] = EmptyGuard
    BY <1>1, <1>2 DEF Inv, TableMatchesGuards
  <2> QED
    BY <2>1, <2>2, <2>3, <2>4 DEF TableMatchesGuards
<1>9. Exclusion'
  BY <1>2 DEF Inv, Exclusion, EmptyGuard
<1> QED
  BY <1>4, <1>8, <1>9 DEF Inv

\* The invariant is inductive.
LEMMA NextInv == Inv /\ [Next]_vars => Inv'
<1> SUFFICES ASSUME Inv, [Next]_vars PROVE Inv'
  OBVIOUS
<1>1. ASSUME NEW c \in Caller, NEW group \in Group, TryLockOk(c, group)
      PROVE  Inv'
  BY <1>1, TryLockOkInv
<1>2. ASSUME NEW c \in Caller, NEW group \in Group, TryLockErr(c, group)
      PROVE  Inv'
  BY <1>2 DEF TryLockErr, vars, Inv, TypeOK, TableMatchesGuards, Exclusion, ReadersOf
<1>3. ASSUME NEW c \in Caller, DropGuard(c)
      PROVE  Inv'
  BY <1>3, DropGuardInv
<1>4. CASE UNCHANGED vars
  BY <1>4 DEF vars, Inv, TypeOK, TableMatchesGuards, Exclusion, ReadersOf
<1> QED
  BY <1>1, <1>2, <1>3, <1>4 DEF Next

\* The inductive invariant holds in every reachable state.
THEOREM InvHolds == Spec => []Inv
BY InitInv, NextInv, PTL DEF Spec

\* The lock table, and the guards keep their types: in particular a
\* ReadCount is never lowered below zero by a dropped guard.
THEOREM TypeCorrect == Spec => []TypeOK
<1>1. Inv => TypeOK
  BY DEF Inv
<1> QED
  BY <1>1, InvHolds, PTL

\* try_lock_accounts_for_group excludes a writer from every other guard's keys.
THEOREM MutualExclusion == Spec => []Exclusion
<1>1. Inv => Exclusion
  BY DEF Inv
<1> QED
  BY <1>1, InvHolds, PTL

\* The table never keeps a lock without its guard and never loses one.
THEOREM NoLeakedLock == Spec => []TableMatchesGuards
<1>1. Inv => TableMatchesGuards
  BY DEF Inv
<1> QED
  BY <1>1, InvHolds, PTL

\* AccountInUse is returned only against a live, conflicting guard.
THEOREM NoStaleRefusal == Spec => []RefusedOnlyByALiveGuard
<1>1. ASSUME Inv
      PROVE  RefusedOnlyByALiveGuard
  <2> SUFFICES ASSUME NEW group \in Group, InUse(group)
               PROVE  \E c \in holding :
                        \/ write_keys_to_lock(group)
                             \cap (guard[c].write_locks \cup guard[c].read_locks) # {}
                        \/ read_keys_to_lock(group) \cap guard[c].write_locks # {}
    BY DEF RefusedOnlyByALiveGuard
  <2>1. PICK c \in Caller :
           \/ write_keys_to_lock(group)
                \cap (guard[c].write_locks \cup guard[c].read_locks) # {}
           \/ read_keys_to_lock(group) \cap guard[c].write_locks # {}
    BY <1>1 DEF InUse, Inv, TableMatchesGuards
  <2>2. c \in holding
    BY <1>1, <2>1 DEF Inv, TableMatchesGuards, EmptyGuard
  <2> QED
    BY <2>1, <2>2
<1> QED
  BY <1>1, InvHolds, PTL
=============================================================================
