---------------------------- MODULE LedgerProofs ----------------------------
(***************************************************************************)
(* The pipeline implements SerialLedger: for any number of loops, whatever *)
(* the batches and their groups, the accounts change as if the committed   *)
(* transactions had run one after the other.                               *)
(*                                                                         *)
(* Two things about the transactions have to be taken for granted, because *)
(* the code takes them for granted (Discipline).  The argument is the one  *)
(* of two-phase locking: what a member of a group has loaded is what the   *)
(* ledger holds, and stays so until the member is committed, since its     *)
(* group's locks and the schedule keep every other writer away.            *)
(*                                                                         *)
(* The types of the pipeline (BankingTypes) need none of that: whatever an *)
(* instruction drains or credits, accounts stay accounts.                  *)
(***************************************************************************)
EXTENDS BankingStageProofs

\* The first n accounts of a transaction, where the accounts are V.
FirstLoads(tx, V, n) == [m \in 1..n |-> V[tx.account_keys[m]]]

\* No transaction writes a key that another lists without naming it, and none changes an
\* account it does not mark writable.
Discipline ==
    /\ UnnamedKeysUnwritten(Tx)
    /\ \A tx \in Tx : \A V : ChangesOnlyWritable(tx, FirstLoads(tx, V, Len(tx.account_keys)))

-----------------------------------------------------------------------------
\* The invariant, for a loop at place p with variables j and guard g, when s has been
\* sent, the ledger is V and the store A, both seen as functions on all keys.

At(j, s, i) == s[j.batch[i]]
Writes(tx) == extract_sets(tx).write_set
Names(tx) == Touched(extract_sets(tx))
KeysOf(tx) == ToSet(tx.account_keys)
Executing(p) == p \in {"execute", "collect", "commit"}

\* The positions of the batch with valid signatures, and the pairs of positions where
\* the second touches nothing the first writes.
Signed(j, s) == {i \in DOMAIN j.batch : verify_signatures_sync(At(j, s, i))}
Clear(j, s) == {p \in (DOMAIN j.batch) \X (DOMAIN j.batch) :
                   Writes(At(j, s, p[1])) \cap Names(At(j, s, p[2])) = {}}

Ordered(t, R) == \A m, n \in DOMAIN t : m < n => <<t[m], t[n]>> \in R
Across(a, t, R) == \A m \in DOMAIN a, n \in DOMAIN t : <<a[m], t[n]>> \in R

\* What the loop has chosen to run together is signed, and clear of what comes before
\* it.  (Not of what comes after: a group may write an account that an earlier member
\* reads, and is right only because overlays are committed in the group's order.)
ChosenOk(p, j, S, R) ==
    /\ InProcess(p) => /\ j.groups \in Seq(Seq(S))
                       /\ \A g \in DOMAIN j.groups : Ordered(j.groups[g], R)
    /\ HasGroup(p) => /\ j.admitted \in Seq(S) /\ j.to_admit \in Seq(S)
                      /\ Ordered(j.admitted, R) /\ Ordered(j.to_admit, R)
                      /\ Across(j.admitted, j.to_admit, R)
    /\ p = "commit" => /\ j.admitted \in Seq(S) /\ j.overlays \in Seq(S)
                       /\ Ordered(j.overlays, R)
                       /\ \A i \in ToSet(j.overlays) :
                             i \in ToSet(j.admitted) /\ j.outcome[i] = "Ok"

\* The guard holds the keys the members name, and no write lock besides.
GuardOk(p, j, s, g) ==
    Executing(p) =>
        /\ \A i \in ToSet(j.admitted) : /\ At(j, s, i) \in Tx
                                        /\ Writes(At(j, s, i)) \subseteq g.write_locks
                                        /\ Names(At(j, s, i)) \subseteq g.write_locks \cup g.read_locks
        /\ \A key \in g.write_locks : \E i \in ToSet(j.admitted) : key \in Writes(At(j, s, i))

\* What a member has loaded is what the ledger holds; its accounts after it has run are
\* those that running it now would give.
MemberOk(outcome, loaded, tx, V) ==
    /\ outcome = "Running" => \E n \in 0..Len(tx.account_keys) : loaded = FirstLoads(tx, V, n)
    /\ outcome = "Ok" =>
          LET done == execute_instructions(tx, FirstLoads(tx, V, Len(tx.account_keys)))
          IN  /\ tx.recent_blockhash \in blockhash_queue
              /\ done.result = "Ok" /\ done.loaded = loaded

ToCommit(p, j) == IF p = "commit" THEN ToSet(j.overlays) ELSE ToSet(j.admitted)
LoadsOk(p, j, s, V) ==
    Executing(p) =>
        /\ j.loaded = [i \in ToSet(j.admitted) |-> j.loaded[i]]
        /\ \A i \in ToCommit(p, j) : MemberOk(j.outcome[i], j.loaded[i], At(j, s, i), V)

\* An account on its way to the store belongs to a member, and is already there as it is
\* unless the group has locked it for writing.
FlushingOk(p, j, s, g, A) ==
    /\ p # "commit" => DOMAIN j.flushing = {}
    /\ \A key \in DOMAIN j.flushing :
          /\ \E i \in ToSet(j.admitted) : key \in KeysOf(At(j, s, i))
          /\ key \notin g.write_locks => j.flushing[key] = A[key]

OnAllKeys(store) == [key \in Pubkey |-> Load(store, key)]

LoopLedgerOk(p, j, s, g, V, A) ==
    /\ ChosenOk(p, j, Signed(j, s), Clear(j, s))
    /\ GuardOk(p, j, s, g)
    /\ LoadsOk(p, j, s, V)
    /\ FlushingOk(p, j, s, g, A)

LoopsLedgerOk(W, ps, js, s, gs, V, A) ==
    \A w \in W : LoopLedgerOk(ps[w], js[w], s, gs[w], V, A)

LedgerInv ==
    LoopsLedgerOk(Worker, pc, job, sent, guard, OnAllKeys(LedgerOf), OnAllKeys(accounts))

-----------------------------------------------------------------------------
\* Sequences in order.

LEMMA OrderedTail ==
    ASSUME NEW S, NEW t \in Seq(S), t # <<>>, NEW R, Ordered(t, R)
    PROVE  /\ Head(t) \in S /\ Tail(t) \in Seq(S) /\ Ordered(Tail(t), R)
           /\ \A x \in ToSet(Tail(t)) : <<Head(t), x>> \in R
  <1>1. PICK u \in Seq(S) : u = Tail(t)
    BY HeadTailProperties
  <1>2. Len(u) = Len(t) - 1 /\ \A n \in DOMAIN u : n + 1 \in DOMAIN t /\ u[n] = t[n + 1]
    BY <1>1, HeadTailProperties
  <1>3. Ordered(u, R)
    <2> SUFFICES ASSUME NEW m \in DOMAIN u, NEW n \in DOMAIN u, m < n
                 PROVE  <<u[m], u[n]>> \in R
      BY DEF Ordered
    <2>1. m + 1 < n + 1 /\ m + 1 \in DOMAIN t /\ n + 1 \in DOMAIN t
      BY <1>2
    <2> QED
      BY <1>2, <2>1 DEF Ordered
  <1>4. \A x \in ToSet(u) : <<Head(t), x>> \in R
    <2> SUFFICES ASSUME NEW n \in DOMAIN u PROVE <<Head(t), u[n]>> \in R
      BY DEF ToSet
    <2>1. 1 < n + 1 /\ 1 \in DOMAIN t /\ n + 1 \in DOMAIN t /\ Head(t) = t[1]
      BY <1>2
    <2> QED
      BY <1>2, <2>1 DEF Ordered
  <1> QED
    BY <1>1, <1>3, <1>4

LEMMA AdmitOne ==
    ASSUME NEW S, NEW a \in Seq(S), NEW t \in Seq(S), t # <<>>, NEW R,
           Ordered(a, R), Ordered(t, R), Across(a, t, R)
    PROVE  /\ Append(a, Head(t)) \in Seq(S) /\ Tail(t) \in Seq(S)
           /\ Ordered(Append(a, Head(t)), R) /\ Ordered(Tail(t), R)
           /\ Across(Append(a, Head(t)), Tail(t), R)
  <1>1. PICK u, x : u = Tail(t) /\ x = Head(t)
    OBVIOUS
  <1>2. /\ u \in Seq(S) /\ x \in S /\ Ordered(u, R)
        /\ \A y \in ToSet(u) : <<x, y>> \in R
    BY <1>1, OrderedTail, Zenon
  <1>3. PICK b \in Seq(S) : b = Append(a, x)
    BY <1>2, AppendProperties, Zenon
  <1>4. /\ \A m \in DOMAIN a : <<a[m], x>> \in R
        /\ \A m \in DOMAIN a, n \in DOMAIN u : <<a[m], u[n]>> \in R
    <2>1. 1 \in DOMAIN t /\ x = t[1]
      BY <1>1
    <2>2. \A n \in DOMAIN u : n + 1 \in DOMAIN t /\ u[n] = t[n + 1]
      BY <1>1
    <2> QED
      BY <2>1, <2>2 DEF Across
  <1>5. \A m \in DOMAIN b : \/ m \in DOMAIN a /\ b[m] = a[m]
                            \/ m = Len(a) + 1 /\ b[m] = x
    BY <1>2, <1>3, AppendProperties
  <1>6. Len(a) \in Nat /\ DOMAIN a = 1..Len(a)
    OBVIOUS
  <1>7. Ordered(b, R)
    <2> SUFFICES ASSUME NEW m \in DOMAIN b, NEW n \in DOMAIN b, m < n
                 PROVE  <<b[m], b[n]>> \in R
      BY DEF Ordered
    <2>1. DOMAIN b = 1..(Len(a) + 1)
      BY <1>3
    <2>2. m \in DOMAIN a /\ b[m] = a[m]
      BY <1>5, <1>6, <2>1
    <2> QED
      BY <1>4, <1>5, <2>2 DEF Ordered
  <1>8. Across(b, u, R)
    BY <1>2, <1>4, <1>5 DEF Across, ToSet
  <1> QED
    BY <1>1, <1>2, <1>3, <1>7, <1>8

LEMMA OrderedThose ==
    ASSUME NEW S, NEW t \in Seq(S), NEW R, Ordered(t, R), NEW set
    PROVE  Those(t, set) \in Seq(S) /\ Ordered(Those(t, set), R)
  <1>1. PICK u \in Seq(S) : u = Those(t, set)
    BY ThosePicks
  <1>2. PICK e : Picks(u, t, set, Len(t), e)
    BY <1>1, ThosePicks
  <1>3. /\ e \in [1..Len(u) -> 1..Len(t)]
        /\ \A m, n \in 1..Len(u) : m < n => e[m] < e[n]
        /\ \A n \in 1..Len(u) : u[n] = t[e[n]]
    BY <1>2, Zenon DEF Picks
  <1>4. Ordered(u, R)
    <2> SUFFICES ASSUME NEW m \in DOMAIN u, NEW n \in DOMAIN u, m < n
                 PROVE  <<u[m], u[n]>> \in R
      BY DEF Ordered
    <2>1. m \in 1..Len(u) /\ n \in 1..Len(u)
      OBVIOUS
    <2>2. e[m] \in DOMAIN t /\ e[n] \in DOMAIN t /\ e[m] < e[n] /\ u[m] = t[e[m]] /\ u[n] = t[e[n]]
      BY <1>3, <2>1
    <2> QED
      BY <2>2 DEF Ordered
  <1> QED
    BY <1>1, <1>4

-----------------------------------------------------------------------------
\* What is chosen stays signed and clear.

\* Which places of a loop are in process_batch, and which have a group in hand.
LEMMA PlacesOf ==
    /\ \A p : HasGroup(p) => InProcess(p) /\ p # "commit"
    /\ ~HasGroup("group") /\ InProcess("group") /\ "group" # "commit"
    /\ ~HasGroup("commit") /\ InProcess("commit")
    /\ \A p \in {"head", "recv", "verify", "stopped"} : ~InProcess(p) /\ ~HasGroup(p) /\ p # "commit"
    /\ \A p \in {"admit", "add", "lock", "refused", "requeue", "execute", "collect"} : HasGroup(p)
BY DEF HasGroup, InProcess

\* How ChosenOk is kept by each change of the groups and of the group in hand.
LEMMA ChosenIdle ==
    ASSUME NEW p \in {"head", "recv", "verify", "stopped"}, NEW k, NEW S, NEW R
    PROVE  ChosenOk(p, k, S, R)
BY PlacesOf DEF ChosenOk

LEMMA ChosenSame ==
    ASSUME NEW p, NEW p2, NEW j, NEW k, NEW S, NEW R, ChosenOk(p, j, S, R), HasGroup(p), HasGroup(p2),
           k.groups = j.groups, k.to_admit = j.to_admit, k.admitted = j.admitted
    PROVE  ChosenOk(p2, k, S, R)
BY PlacesOf, Zenon DEF ChosenOk

LEMMA ChosenDone ==
    ASSUME NEW p, NEW j, NEW k, NEW S, NEW R, ChosenOk(p, j, S, R), InProcess(p),
           k.groups = j.groups
    PROVE  ChosenOk("group", k, S, R)
BY PlacesOf, Zenon DEF ChosenOk

LEMMA ChosenNext ==
    ASSUME NEW j, NEW k, NEW S, NEW R, ChosenOk("group", j, S, R), j.groups # <<>>,
           k.to_admit = Head(j.groups), k.groups = Tail(j.groups), k.admitted = <<>>
    PROVE  ChosenOk("admit", k, S, R)
  <1>1. PICK T, gs : T = Seq(S) /\ gs = j.groups
    OBVIOUS
  <1>2. gs \in Seq(T) /\ gs # <<>> /\ \A g \in DOMAIN gs : Ordered(gs[g], R)
    BY <1>1, PlacesOf, Zenon DEF ChosenOk
  <1>3. PICK h, rest : h = Head(gs) /\ rest = Tail(gs)
    OBVIOUS
  <1>4. /\ h \in T /\ rest \in Seq(T) /\ h = gs[1] /\ 1 \in DOMAIN gs
        /\ \A g \in DOMAIN rest : g + 1 \in DOMAIN gs /\ rest[g] = gs[g + 1]
    BY <1>2, <1>3, HeadTailProperties
  <1>5. Ordered(h, R) /\ \A g \in DOMAIN rest : Ordered(rest[g], R)
    BY <1>2, <1>4
  <1>6. PICK none : none = <<>>
    OBVIOUS
  <1>7. none \in Seq(S) /\ Ordered(none, R) /\ Across(none, h, R)
    BY <1>6 DEF Ordered, Across
  <1>8. HasGroup("admit") /\ InProcess("admit") /\ "admit" # "commit"
    BY DEF HasGroup, InProcess
  <1> QED
    BY <1>1, <1>3, <1>4, <1>5, <1>6, <1>7, <1>8, Zenon DEF ChosenOk

LEMMA ChosenRefused ==
    ASSUME NEW j, NEW k, NEW S, NEW R, ChosenOk("admit", j, S, R), j.to_admit # <<>>,
           k.to_admit = Tail(j.to_admit), k.groups = j.groups, k.admitted = j.admitted
    PROVE  ChosenOk("admit", k, S, R)
  <1>1. HasGroup("admit") /\ InProcess("admit") /\ "admit" # "commit"
    BY DEF HasGroup, InProcess
  <1>2. PICK a, t, u : a = j.admitted /\ t = j.to_admit /\ u = Tail(t)
    OBVIOUS
  <1>3. /\ a \in Seq(S) /\ t \in Seq(S) /\ t # <<>>
        /\ Ordered(a, R) /\ Ordered(t, R) /\ Across(a, t, R)
    BY <1>1, <1>2, Zenon DEF ChosenOk
  <1>4. u \in Seq(S) /\ Ordered(u, R)
    BY <1>2, <1>3, OrderedTail
  <1>5. \A n \in DOMAIN u : n + 1 \in DOMAIN t /\ u[n] = t[n + 1]
    BY <1>2, <1>3, HeadTailProperties
  <1>6. Across(a, u, R)
    BY <1>3, <1>5 DEF Across
  <1> QED
    BY <1>1, <1>2, <1>3, <1>4, <1>6, Zenon DEF ChosenOk

LEMMA ChosenAdded ==
    ASSUME NEW j, NEW k, NEW S, NEW R, ChosenOk("add", j, S, R), j.to_admit # <<>>,
           k.to_admit = Tail(j.to_admit), k.groups = j.groups,
           k.admitted = Append(j.admitted, Head(j.to_admit))
    PROVE  ChosenOk("admit", k, S, R)
  <1>1. /\ HasGroup("admit") /\ InProcess("admit") /\ "admit" # "commit"
        /\ HasGroup("add") /\ InProcess("add")
    BY DEF HasGroup, InProcess
  <1>2. PICK a, t : a = j.admitted /\ t = j.to_admit
    OBVIOUS
  <1>3. /\ a \in Seq(S) /\ t \in Seq(S) /\ t # <<>>
        /\ Ordered(a, R) /\ Ordered(t, R) /\ Across(a, t, R)
    BY <1>1, <1>2, Zenon DEF ChosenOk
  <1>4. PICK b, u : b = Append(a, Head(t)) /\ u = Tail(t)
    OBVIOUS
  <1>5. b \in Seq(S) /\ u \in Seq(S) /\ Ordered(b, R) /\ Ordered(u, R) /\ Across(b, u, R)
    BY <1>3, <1>4, AdmitOne, Zenon
  <1> QED
    BY <1>1, <1>2, <1>4, <1>5, Zenon DEF ChosenOk

LEMMA ChosenReturned ==
    ASSUME NEW j, NEW k, NEW S, NEW R, ChosenOk("requeue", j, S, R), j.admitted # <<>>,
           k.to_admit = j.to_admit, k.groups = j.groups, k.admitted = Tail(j.admitted)
    PROVE  ChosenOk("refused", k, S, R)
  <1>1. /\ HasGroup("requeue") /\ InProcess("requeue")
        /\ HasGroup("refused") /\ InProcess("refused") /\ "refused" # "commit"
    BY DEF HasGroup, InProcess
  <1>2. PICK a, t : a = j.admitted /\ t = j.to_admit
    OBVIOUS
  <1>3. /\ a \in Seq(S) /\ t \in Seq(S) /\ a # <<>>
        /\ Ordered(a, R) /\ Ordered(t, R) /\ Across(a, t, R)
    BY <1>1, <1>2, Zenon DEF ChosenOk
  <1>4. PICK b : b = Tail(a)
    OBVIOUS
  <1>5. b \in Seq(S) /\ \A m \in DOMAIN b : m + 1 \in DOMAIN a /\ b[m] = a[m + 1] /\ m \in Nat
    BY <1>3, <1>4, HeadTailProperties
  <1>6. Ordered(b, R)
    BY <1>3, <1>5 DEF Ordered
  <1>7. Across(b, t, R)
    BY <1>3, <1>5 DEF Across
  <1> QED
    BY <1>1, <1>2, <1>3, <1>4, <1>5, <1>6, <1>7, Zenon DEF ChosenOk

LEMMA ChosenCollected ==
    ASSUME NEW j, NEW k, NEW S, NEW R, ChosenOk("collect", j, S, R), NEW F,
           F = {i \in ToSet(j.admitted) : j.outcome[i] # "Ok"},
           k.overlays = Those(j.admitted, ToSet(j.admitted) \ F),
           k.groups = j.groups, k.admitted = j.admitted, k.outcome = j.outcome
    PROVE  ChosenOk("commit", k, S, R)
  <1>1. HasGroup("collect") /\ InProcess("collect") /\ ~HasGroup("commit")
    BY DEF HasGroup, InProcess
  <1>2. PICK a, o, A : a = j.admitted /\ A = ToSet(a) /\ o = Those(a, A \ F)
    OBVIOUS
  <1>3. a \in Seq(S) /\ Ordered(a, R)
    BY <1>1, <1>2, Zenon DEF ChosenOk
  <1>4. o \in Seq(S) /\ Ordered(o, R)
    BY <1>2, <1>3, OrderedThose, Zenon
  <1>5. ToSet(o) = A \cap (A \ F)
    BY <1>2, <1>3, ThoseAre
  <1>6. \A i \in ToSet(o) : i \in ToSet(k.admitted) /\ k.outcome[i] = "Ok"
    BY <1>2, <1>5
  <1>7. k.overlays = o
    BY <1>2, Zenon
  <1> QED
    BY <1>1, <1>2, <1>3, <1>4, <1>6, <1>7, Zenon DEF ChosenOk

LEMMA ChosenFlushed ==
    ASSUME NEW j, NEW k, NEW S, NEW R, ChosenOk("commit", j, S, R),
           k.overlays = j.overlays \/ (j.overlays # <<>> /\ k.overlays = Tail(j.overlays)),
           k.groups = j.groups, k.admitted = j.admitted, k.outcome = j.outcome
    PROVE  ChosenOk("commit", k, S, R)
  <1>1. InProcess("commit") /\ ~HasGroup("commit")
    BY DEF HasGroup, InProcess
  <1>2. PICK o, u : o = j.overlays /\ u = k.overlays
    OBVIOUS
  <1>3. o \in Seq(S) /\ Ordered(o, R)
    BY <1>1, <1>2, Zenon DEF ChosenOk
  <1>4. u \in Seq(S) /\ Ordered(u, R)
    BY <1>2, <1>3, OrderedTail
  <1>5. ToSet(u) \subseteq ToSet(o)
    <2>1. CASE u = o
      BY <2>1
    <2>2. CASE o # <<>> /\ u = Tail(o)
      <3>1. \A n \in DOMAIN u : n + 1 \in DOMAIN o /\ u[n] = o[n + 1]
        BY <2>2, <1>3, HeadTailProperties
      <3> QED
        BY <3>1 DEF ToSet
    <2> QED
      BY <1>2, <2>1, <2>2
  <1>6. \A i \in ToSet(u) : i \in ToSet(k.admitted) /\ k.outcome[i] = "Ok"
    BY <1>2, <1>5, Zenon DEF ChosenOk
  <1> QED
    BY <1>1, <1>2, <1>4, <1>6, Zenon DEF ChosenOk


LEMMA ChosenScheduled ==
    ASSUME NEW S, NEW t \in Seq(S), NEW Key, NEW sets \in Seq(KeySets(Key)), Len(sets) = Len(t),
           NEW R, \A m, n \in 1..Len(t) :
                     Touched(sets[n]) \cap sets[m].write_set = {} => <<t[m], t[n]>> \in R,
           NEW k, k.groups = Regroup(t, ScheduleOf(sets))
    PROVE  ChosenOk("group", k, S, R)
  <1>1. PICK G : G = ScheduleOf(sets)
    OBVIOUS
  <1>2. G \in Seq(Seq(1..Len(t))) /\ ConflictFreeIn(sets, G)
    BY <1>1, ScheduleGroups
  <1>3. PICK gs : gs = Regroup(t, G)
    OBVIOUS
  <1>4. /\ gs \in Seq(Seq(S)) /\ DOMAIN gs = DOMAIN G
        /\ \A g \in DOMAIN G :
              /\ DOMAIN gs[g] = DOMAIN G[g]
              /\ \A n \in DOMAIN G[g] : gs[g][n] = t[G[g][n]] /\ G[g][n] \in 1..Len(t)
    BY <1>2, <1>3, RegroupShape
  <1>5. ASSUME NEW g \in DOMAIN gs PROVE Ordered(gs[g], R)
    <2>1. PICK u, a : u = gs[g] /\ a = G[g]
      OBVIOUS
    <2>2. DOMAIN u = DOMAIN a /\ \A n \in DOMAIN a : u[n] = t[a[n]] /\ a[n] \in 1..Len(t)
      BY <1>4, <1>5, <2>1
    <2>3. \A p, q \in DOMAIN a : p < q => Touched(sets[a[q]]) \cap sets[a[p]].write_set = {}
      BY <1>2, <1>4, <1>5, <2>1 DEF ConflictFreeIn
    <2>4. Ordered(u, R)
      BY <2>2, <2>3 DEF Ordered
    <2> QED
      BY <2>1, <2>4
  <1>6. k.groups = gs
    BY <1>1, <1>3, Zenon
  <1> QED
    BY <1>4, <1>5, <1>6, PlacesOf, Zenon DEF ChosenOk

-----------------------------------------------------------------------------
\* Two loops in their groups.

\* A listed key is named by an instruction, or it is one of the unnamed ones.
LEMMA KeysKnown ==
    ASSUME NEW tx, NEW key \in KeysOf(tx), key \notin Names(tx)
    PROVE  key \in UnnamedKeys(tx)
  <1>1. \A m \in Metas(tx) : m.pubkey \in Names(tx)
    BY DEF Names, Touched, extract_sets
  <1> QED
    BY <1>1 DEF UnnamedKeys, KeysOf

\* What one group has locked for writing, the members of another do not even load.
LEMMA KeptAway ==
    ASSUME Discipline, NEW s,
           NEW p, NEW j, NEW g, GuardOk(p, j, s, g), Executing(p),
           NEW q, NEW k, NEW h, GuardOk(q, k, s, h), Executing(q),
           g.write_locks \cap (h.write_locks \cup h.read_locks) = {},
           NEW key \in g.write_locks, NEW i \in ToSet(k.admitted)
    PROVE  key \notin KeysOf(At(k, s, i))
  <1> SUFFICES ASSUME key \in KeysOf(At(k, s, i)) PROVE FALSE
    OBVIOUS
  <1>1. PICK tx : tx = At(k, s, i)
    OBVIOUS
  <1>2. tx \in Tx /\ Names(tx) \subseteq h.write_locks \cup h.read_locks
    BY <1>1 DEF GuardOk
  <1>3. PICK n \in ToSet(j.admitted) : key \in Writes(At(j, s, n)) /\ At(j, s, n) \in Tx
    BY DEF GuardOk
  <1>4. key \notin Names(tx)
    BY <1>2
  <1>5. key \in UnnamedKeys(tx)
    BY <1>1, <1>4, KeysKnown
  <1>6. UnnamedKeys(tx) \cap extract_sets(At(j, s, n)).write_set = {}
    BY <1>2, <1>3 DEF Discipline, UnnamedKeysUnwritten
  <1> QED
    BY <1>3, <1>5, <1>6 DEF Writes

\* A loop that flushes is committing a group.
LEMMA ExecutingFlusher ==
    ASSUME NEW p, NEW j, NEW s, NEW g, NEW A, FlushingOk(p, j, s, g, A), NEW key \in DOMAIN j.flushing
    PROVE  /\ p = "commit" /\ Executing(p)
           /\ \E i \in ToSet(j.admitted) : key \in KeysOf(At(j, s, i))
           /\ key \notin g.write_locks => j.flushing[key] = A[key]
  <1>1. p = "commit"
    BY DEF FlushingOk
  <1> QED
    BY <1>1 DEF FlushingOk, Executing

\* Two loops that flush the same account, which both have only read, store the same value.
LEMMA SameFlush ==
    ASSUME Discipline, NEW s, NEW A,
           NEW p, NEW j, NEW g, GuardOk(p, j, s, g), FlushingOk(p, j, s, g, A),
           NEW q, NEW k, NEW h, GuardOk(q, k, s, h), FlushingOk(q, k, s, h, A),
           g.write_locks \cap (h.write_locks \cup h.read_locks) = {},
           h.write_locks \cap (g.write_locks \cup g.read_locks) = {},
           NEW key \in DOMAIN j.flushing, key \in DOMAIN k.flushing
    PROVE  j.flushing[key] = k.flushing[key]
  <1>1. Executing(p) /\ (key \notin g.write_locks => j.flushing[key] = A[key])
    BY ExecutingFlusher
  <1>2. Executing(q) /\ (key \notin h.write_locks => k.flushing[key] = A[key])
    BY ExecutingFlusher
  <1>3. PICK i \in ToSet(j.admitted) : key \in KeysOf(At(j, s, i))
    BY ExecutingFlusher, Zenon
  <1>4. PICK n \in ToSet(k.admitted) : key \in KeysOf(At(k, s, n))
    BY ExecutingFlusher, Zenon
  <1>5. key \notin g.write_locks
    BY <1>1, <1>2, <1>4, KeptAway, Zenon
  <1>6. key \notin h.write_locks
    BY <1>1, <1>2, <1>3, KeptAway, Zenon
  <1> QED
    BY <1>1, <1>2, <1>5, <1>6

-----------------------------------------------------------------------------
\* The ledger, as a function of the store and of what is being flushed.

LedgerFrom(W, acc, jobs) ==
    LET flushing(key) == {w \in W : key \in DOMAIN jobs[w].flushing}
    IN  [key \in DOMAIN acc \cup UNION {DOMAIN jobs[w].flushing : w \in W} |->
            IF flushing(key) = {} THEN acc[key]
            ELSE jobs[CHOOSE w \in flushing(key) : TRUE].flushing[key]]

Agree(W, jobs) ==
    \A u, v \in W : \A key \in DOMAIN jobs[u].flushing :
        key \in DOMAIN jobs[v].flushing => jobs[u].flushing[key] = jobs[v].flushing[key]

\* The ledger without CHOOSE.
IsLedger(L, W, acc, jobs) ==
    /\ L = [key \in DOMAIN L |-> L[key]]
    /\ \A key : key \in DOMAIN L <=> \/ key \in DOMAIN acc
                                     \/ \E w \in W : key \in DOMAIN jobs[w].flushing
    /\ \A w \in W : \A key \in DOMAIN jobs[w].flushing : L[key] = jobs[w].flushing[key]
    /\ \A key \in DOMAIN acc :
          (\A w \in W : key \notin DOMAIN jobs[w].flushing) => L[key] = acc[key]

\* The ledger is the store, with the accounts that are on their way to it.
LEMMA LedgerIs ==
    ASSUME NEW W, NEW acc, NEW jobs, Agree(W, jobs)
    PROVE  IsLedger(LedgerFrom(W, acc, jobs), W, acc, jobs)
  <1> DEFINE F(key) == {w \in W : key \in DOMAIN jobs[w].flushing}
             D == DOMAIN acc \cup UNION {DOMAIN jobs[w].flushing : w \in W}
             value(key) == IF F(key) = {} THEN acc[key]
                           ELSE jobs[CHOOSE w \in F(key) : TRUE].flushing[key]
  <1>1. PICK L : L = LedgerFrom(W, acc, jobs)
    OBVIOUS
  <1>2. L = [key \in D |-> value(key)]
    BY <1>1, Zenon DEF LedgerFrom
  <1>3. DOMAIN L = D /\ L = [key \in DOMAIN L |-> L[key]] /\ \A key \in D : L[key] = value(key)
    <2> HIDE DEF D, value
    <2> QED
      BY <1>2
  <1>4. ASSUME NEW w \in W, NEW key \in DOMAIN jobs[w].flushing PROVE L[key] = jobs[w].flushing[key]
    <2>1. w \in F(key) /\ key \in D
      BY <1>4
    <2>2. PICK v : v = CHOOSE u \in F(key) : TRUE
      OBVIOUS
    <2>3. v \in F(key)
      BY <2>1, <2>2, Zenon
    <2>4. L[key] = jobs[v].flushing[key]
      BY <1>3, <2>1, <2>2, Zenon
    <2> QED
      BY <1>4, <2>3, <2>4 DEF Agree
  <1>5. ASSUME NEW key \in DOMAIN acc, \A w \in W : key \notin DOMAIN jobs[w].flushing
        PROVE  L[key] = acc[key]
    <2>1. F(key) = {} /\ key \in D
      BY <1>5
    <2> QED
      BY <1>3, <2>1, Zenon
  <1>6. \A key : key \in DOMAIN L <=> \/ key \in DOMAIN acc
                                      \/ \E w \in W : key \in DOMAIN jobs[w].flushing
    <2>1. \A key : key \in DOMAIN L <=> key \in D
      BY <1>3, Zenon
    <2> QED
      BY <2>1
  <1>7. IsLedger(L, W, acc, jobs)
    BY <1>3, <1>4, <1>5, <1>6, Zenon DEF IsLedger
  <1> QED
    BY <1>1, <1>7, Zenon

\* The ledger does not change when nothing of it does.
LEMMA LedgerSame ==
    ASSUME NEW W, NEW acc, NEW jobs, NEW jobs2,
           \A w \in W : /\ DOMAIN jobs2[w].flushing = DOMAIN jobs[w].flushing
                        /\ \A key \in DOMAIN jobs[w].flushing :
                              jobs2[w].flushing[key] = jobs[w].flushing[key]
    PROVE  LedgerFrom(W, acc, jobs2) = LedgerFrom(W, acc, jobs)
  <1> DEFINE F(js, key) == {w \in W : key \in DOMAIN js[w].flushing}
             D(js) == DOMAIN acc \cup UNION {DOMAIN js[w].flushing : w \in W}
             value(js, key) == IF F(js, key) = {} THEN acc[key]
                               ELSE js[CHOOSE w \in F(js, key) : TRUE].flushing[key]
  <1>1. D(jobs2) = D(jobs)
    <2>1. {DOMAIN jobs2[w].flushing : w \in W} = {DOMAIN jobs[w].flushing : w \in W}
      BY Zenon
    <2> QED
      BY <2>1, Zenon
  <1>2. ASSUME NEW key PROVE value(jobs2, key) = value(jobs, key)
    <2>1. F(jobs2, key) = F(jobs, key)
      BY Zenon
    <2>2. CASE F(jobs, key) = {}
      BY <2>1, <2>2, Zenon
    <2>3. CASE F(jobs, key) # {}
      <3>1. PICK v : v = CHOOSE u \in F(jobs, key) : TRUE
        OBVIOUS
      <3>2. v \in F(jobs, key)
        BY <2>3, <3>1
      <3>3. jobs2[v].flushing[key] = jobs[v].flushing[key]
        BY <3>2
      <3> QED
        BY <2>1, <2>3, <3>1, <3>3, Zenon
    <2> QED
      BY <2>2, <2>3
  <1>3. /\ LedgerFrom(W, acc, jobs2) = [key \in D(jobs2) |-> value(jobs2, key)]
        /\ LedgerFrom(W, acc, jobs) = [key \in D(jobs) |-> value(jobs, key)]
    BY Zenon DEF LedgerFrom
  <1> HIDE DEF D, value
  <1> QED
    BY <1>1, <1>2, <1>3, Zenon


\* It does not change when one account arrives in the store ...
LEMMA LedgerFlushed ==
    ASSUME NEW W, NEW acc, NEW jobs, NEW w \in W, NEW key \in DOMAIN jobs[w].flushing,
           NEW jobs2, \A v \in W : v # w => jobs2[v] = jobs[v],
           DOMAIN jobs2[w].flushing = DOMAIN jobs[w].flushing \ {key},
           \A x \in DOMAIN jobs2[w].flushing : jobs2[w].flushing[x] = jobs[w].flushing[x],
           NEW L, IsLedger(L, W, acc, jobs),
           NEW L2, IsLedger(L2, W, Store(acc, key, jobs[w].flushing[key]), jobs2)
    PROVE  L2 = L
  <1>1. PICK a : a = Store(acc, key, jobs[w].flushing[key])
    OBVIOUS
  <1>2. /\ DOMAIN a = DOMAIN acc \cup {key} /\ a[key] = jobs[w].flushing[key]
        /\ \A x \in DOMAIN acc : x # key => a[x] = acc[x]
    BY <1>1 DEF Store
  <1>3. /\ L = [x \in DOMAIN L |-> L[x]]
        /\ \A x : x \in DOMAIN L <=> x \in DOMAIN acc \/ \E v \in W : x \in DOMAIN jobs[v].flushing
        /\ \A v \in W : \A x \in DOMAIN jobs[v].flushing : L[x] = jobs[v].flushing[x]
        /\ \A x \in DOMAIN acc : (\A v \in W : x \notin DOMAIN jobs[v].flushing) => L[x] = acc[x]
    BY Zenon DEF IsLedger
  <1>4. /\ L2 = [x \in DOMAIN L2 |-> L2[x]]
        /\ \A x : x \in DOMAIN L2 <=> x \in DOMAIN a \/ \E v \in W : x \in DOMAIN jobs2[v].flushing
        /\ \A v \in W : \A x \in DOMAIN jobs2[v].flushing : L2[x] = jobs2[v].flushing[x]
        /\ \A x \in DOMAIN a : (\A v \in W : x \notin DOMAIN jobs2[v].flushing) => L2[x] = a[x]
    BY <1>1, Zenon DEF IsLedger
  <1>5. \A v \in W : \A x : x # key =>
           (x \in DOMAIN jobs2[v].flushing <=> x \in DOMAIN jobs[v].flushing)
    OBVIOUS
  <1>6. \A v \in W : \A x \in DOMAIN jobs2[v].flushing :
           x \in DOMAIN jobs[v].flushing /\ jobs2[v].flushing[x] = jobs[v].flushing[x]
    OBVIOUS
  <1>7. \A x : x \in DOMAIN L2 <=> x \in DOMAIN L
    BY <1>2, <1>3, <1>4, <1>5, <1>6
  <1>8. ASSUME NEW x \in DOMAIN L PROVE L2[x] = L[x]
    <2>1. CASE \E v \in W : x \in DOMAIN jobs2[v].flushing
      <3>1. PICK v \in W : x \in DOMAIN jobs2[v].flushing
        BY <2>1
      <3>2. L2[x] = jobs2[v].flushing[x]
        BY <1>4, <3>1
      <3>3. x \in DOMAIN jobs[v].flushing /\ jobs2[v].flushing[x] = jobs[v].flushing[x]
        BY <1>6, <3>1
      <3> QED
        BY <1>3, <3>2, <3>3
    <2>2. CASE x = key /\ \A v \in W : x \notin DOMAIN jobs2[v].flushing
      BY <1>2, <1>3, <1>4, <2>2
    <2>3. CASE x # key /\ \A v \in W : x \notin DOMAIN jobs2[v].flushing
      <3>1. \A v \in W : x \notin DOMAIN jobs[v].flushing
        BY <1>5, <2>3
      <3>2. x \in DOMAIN acc /\ x \in DOMAIN a
        BY <1>2, <1>3, <1>8, <3>1
      <3> QED
        BY <1>2, <1>3, <1>4, <2>3, <3>1, <3>2
    <2> QED
      BY <2>1, <2>2, <2>3, Zenon
  <1>9. DOMAIN L2 = DOMAIN L
    BY <1>7
  <1> QED
    BY <1>3, <1>4, <1>8, <1>9, Zenon

\* When a loop begins to flush an overlay the ledger is overlaid with it.
LEMMA LedgerBegun ==
    ASSUME NEW W, NEW acc, NEW jobs, NEW w \in W, DOMAIN jobs[w].flushing = {},
           NEW jobs2, \A v \in W : v # w => jobs2[v] = jobs[v],
           NEW e, jobs2[w].flushing = e,
           NEW L, IsLedger(L, W, acc, jobs), NEW L2, IsLedger(L2, W, acc, jobs2)
    PROVE  L2 = Over(L, e)
  <1>3. /\ \A x : x \in DOMAIN L <=> x \in DOMAIN acc \/ \E v \in W : x \in DOMAIN jobs[v].flushing
        /\ \A v \in W : \A x \in DOMAIN jobs[v].flushing : L[x] = jobs[v].flushing[x]
        /\ \A x \in DOMAIN acc : (\A v \in W : x \notin DOMAIN jobs[v].flushing) => L[x] = acc[x]
    BY Zenon DEF IsLedger
  <1>4. /\ L2 = [x \in DOMAIN L2 |-> L2[x]]
        /\ \A x : x \in DOMAIN L2 <=> x \in DOMAIN acc \/ \E v \in W : x \in DOMAIN jobs2[v].flushing
        /\ \A v \in W : \A x \in DOMAIN jobs2[v].flushing : L2[x] = jobs2[v].flushing[x]
        /\ \A x \in DOMAIN acc : (\A v \in W : x \notin DOMAIN jobs2[v].flushing) => L2[x] = acc[x]
    BY Zenon DEF IsLedger
  <1>5. \A x : x \in DOMAIN L2 <=> x \in DOMAIN L \/ x \in DOMAIN e
    BY <1>3, <1>4
  <1>6. \A x \in DOMAIN e : L2[x] = e[x]
    BY <1>4
  <1>7. ASSUME NEW x \in DOMAIN L, x \notin DOMAIN e PROVE L2[x] = L[x]
    <2>1. CASE \E v \in W : x \in DOMAIN jobs[v].flushing
      <3>1. PICK v \in W : x \in DOMAIN jobs[v].flushing
        BY <2>1
      <3>2. v # w
        BY <3>1
      <3> QED
        BY <1>3, <1>4, <3>1, <3>2
    <2>2. CASE \A v \in W : x \notin DOMAIN jobs[v].flushing
      <3>1. \A v \in W : x \notin DOMAIN jobs2[v].flushing
        BY <1>7, <2>2
      <3>2. x \in DOMAIN acc
        BY <1>3, <1>7, <2>2
      <3> QED
        BY <1>3, <1>4, <2>2, <3>1, <3>2
    <2> QED
      BY <2>1, <2>2
  <1>8. DOMAIN L2 = DOMAIN L \cup DOMAIN e
    BY <1>5
  <1> QED
    BY <1>4, <1>6, <1>7, <1>8 DEF Over

-----------------------------------------------------------------------------
\* All loops together.

Exclusive(W, gs) ==
    \A v, w \in W : v # w => gs[v].write_locks \cap (gs[w].write_locks \cup gs[w].read_locks) = {}

\* So it does not matter in which order the flushes of the loops are laid over the store.
LEMMA AgreeNow ==
    ASSUME Discipline, NEW W, NEW ps, NEW js, NEW s, NEW gs, NEW V, NEW A, Exclusive(W, gs),
           LoopsLedgerOk(W, ps, js, s, gs, V, A)
    PROVE  Agree(W, js)
  <1> SUFFICES ASSUME NEW u \in W, NEW v \in W, NEW key \in DOMAIN js[u].flushing,
                      key \in DOMAIN js[v].flushing
               PROVE  js[u].flushing[key] = js[v].flushing[key]
    BY Zenon DEF Agree
  <1>1. CASE u = v
    BY <1>1
  <1>2. CASE u # v
    <2>1. /\ GuardOk(ps[u], js[u], s, gs[u]) /\ FlushingOk(ps[u], js[u], s, gs[u], A)
          /\ GuardOk(ps[v], js[v], s, gs[v]) /\ FlushingOk(ps[v], js[v], s, gs[v], A)
      BY Zenon DEF LoopsLedgerOk, LoopLedgerOk
    <2>2. /\ gs[u].write_locks \cap (gs[v].write_locks \cup gs[v].read_locks) = {}
          /\ gs[v].write_locks \cap (gs[u].write_locks \cup gs[u].read_locks) = {}
      BY <1>2, Zenon DEF Exclusive
    <2> QED
      BY <2>1, <2>2, SameFlush
  <1> QED
    BY <1>1, <1>2

\* The ledger and the store, seen on all keys.
LEMMA ViewOf ==
    ASSUME NEW W, NEW acc, NEW js, NEW L, IsLedger(L, W, acc, js), NEW key \in Pubkey
    PROVE  /\ \A w \in W : key \in DOMAIN js[w].flushing => OnAllKeys(L)[key] = js[w].flushing[key]
           /\ (\A w \in W : key \notin DOMAIN js[w].flushing) => OnAllKeys(L)[key] = OnAllKeys(acc)[key]
  <1>1. \A x : x \in DOMAIN L <=> x \in DOMAIN acc \/ \E w \in W : x \in DOMAIN js[w].flushing
    BY Zenon DEF IsLedger
  <1>2. OnAllKeys(L)[key] = Load(L, key) /\ OnAllKeys(acc)[key] = Load(acc, key)
    BY DEF OnAllKeys
  <1>3. ASSUME NEW w \in W, key \in DOMAIN js[w].flushing
        PROVE  OnAllKeys(L)[key] = js[w].flushing[key]
    <2>1. L[key] = js[w].flushing[key] /\ key \in DOMAIN L
      BY <1>1, <1>3, Zenon DEF IsLedger
    <2> QED
      BY <1>2, <2>1 DEF Load
  <1>4. ASSUME \A w \in W : key \notin DOMAIN js[w].flushing
        PROVE  OnAllKeys(L)[key] = OnAllKeys(acc)[key]
    <2>1. key \in DOMAIN L <=> key \in DOMAIN acc
      BY <1>1, <1>4
    <2>2. key \in DOMAIN acc => L[key] = acc[key]
      BY <1>4, Zenon DEF IsLedger
    <2> QED
      BY <1>2, <2>1, <2>2 DEF Load
  <1> QED
    BY <1>3, <1>4

\* What a member may load now is what the ledger holds.
LEMMA LoadsNow ==
    ASSUME Discipline, NEW W, NEW ps, NEW js, NEW s, NEW gs, NEW acc, NEW L, IsLedger(L, W, acc, js),
           Exclusive(W, gs), LoopsLedgerOk(W, ps, js, s, gs, OnAllKeys(L), OnAllKeys(acc)),
           NEW w \in W, Executing(ps[w]), DOMAIN js[w].flushing = {},
           NEW i \in ToSet(js[w].admitted), NEW key \in Pubkey, key \in KeysOf(At(js[w], s, i))
    PROVE  OnAllKeys(L)[key] = OnAllKeys(acc)[key]
  <1>1. CASE \A v \in W : key \notin DOMAIN js[v].flushing
    BY <1>1, ViewOf
  <1>2. CASE \E v \in W : key \in DOMAIN js[v].flushing
    <2>1. PICK v \in W : key \in DOMAIN js[v].flushing
      BY <1>2
    <2>2. v # w
      BY <2>1
    <2>3. /\ GuardOk(ps[v], js[v], s, gs[v]) /\ FlushingOk(ps[v], js[v], s, gs[v], OnAllKeys(acc))
          /\ GuardOk(ps[w], js[w], s, gs[w])
      BY Zenon DEF LoopsLedgerOk, LoopLedgerOk
    <2>4. gs[v].write_locks \cap (gs[w].write_locks \cup gs[w].read_locks) = {}
      BY <2>2, Zenon DEF Exclusive
    <2>5. /\ Executing(ps[v])
          /\ key \notin gs[v].write_locks => js[v].flushing[key] = OnAllKeys(acc)[key]
      BY <2>1, <2>3, ExecutingFlusher
    <2>6. key \notin gs[v].write_locks
      BY <2>3, <2>4, <2>5, KeptAway, Zenon
    <2>7. OnAllKeys(L)[key] = js[v].flushing[key]
      BY <2>1, ViewOf
    <2> QED
      BY <2>5, <2>6, <2>7
  <1> QED
    BY <1>1, <1>2

-----------------------------------------------------------------------------
\* A loop that does not move.

\* What a member has loaded stays right while the accounts it lists stay the same.
LEMMA FirstLoadsSame ==
    ASSUME NEW tx, tx.account_keys \in Seq(Pubkey), NEW V, NEW V2,
           \A key \in KeysOf(tx) : V2[key] = V[key], NEW n \in 0..Len(tx.account_keys)
    PROVE  FirstLoads(tx, V2, n) = FirstLoads(tx, V, n)
  <1>1. \A m \in 1..n : tx.account_keys[m] \in KeysOf(tx)
    <2>1. PICK t \in Seq(Pubkey) : t = tx.account_keys
      OBVIOUS
    <2>2. \A m \in 1..n : t[m] \in ToSet(t)
      BY <2>1 DEF ToSet
    <2> QED
      BY <2>1, <2>2 DEF KeysOf
  <1> QED
    BY <1>1 DEF FirstLoads

LEMMA MemberSame ==
    ASSUME NEW tx, tx.account_keys \in Seq(Pubkey), NEW V, NEW V2,
           \A key \in KeysOf(tx) : V2[key] = V[key],
           NEW o, NEW l, MemberOk(o, l, tx, V)
    PROVE  MemberOk(o, l, tx, V2)
  <1>1. \A n \in 0..Len(tx.account_keys) : FirstLoads(tx, V2, n) = FirstLoads(tx, V, n)
    BY FirstLoadsSame, Zenon
  <1>2. Len(tx.account_keys) \in 0..Len(tx.account_keys)
    OBVIOUS
  <1>3. FirstLoads(tx, V2, Len(tx.account_keys)) = FirstLoads(tx, V, Len(tx.account_keys))
    BY <1>1, <1>2, Zenon
  <1> QED
    BY <1>1, <1>3, Zenon DEF MemberOk

\* A loop keeps its part of the invariant when no account of its members changes.
LEMMA OthersKeep ==
    ASSUME NEW p, NEW j, NEW s, NEW g, NEW V, NEW A, LoopLedgerOk(p, j, s, g, V, A),
           NEW V2, \A i \in ToSet(j.admitted) : \A key \in KeysOf(At(j, s, i)) :
                      Executing(p) => V2[key] = V[key],
           NEW A2, FlushingOk(p, j, s, g, A2)
    PROVE  LoopLedgerOk(p, j, s, g, V2, A2)
  <1>1. /\ ChosenOk(p, j, Signed(j, s), Clear(j, s)) /\ GuardOk(p, j, s, g)
        /\ LoadsOk(p, j, s, V)
    BY Zenon DEF LoopLedgerOk
  <1>2. ASSUME Executing(p), NEW i \in ToCommit(p, j)
        PROVE  MemberOk(j.outcome[i], j.loaded[i], At(j, s, i), V2)
    <2>1. i \in ToSet(j.admitted)
      BY <1>1, <1>2 DEF ToCommit, ChosenOk
    <2>2. At(j, s, i) \in Tx
      BY <1>1, <1>2, <2>1 DEF GuardOk
    <2>3. At(j, s, i).account_keys \in Seq(Pubkey)
      BY <2>2, BankingConstants
    <2>4. MemberOk(j.outcome[i], j.loaded[i], At(j, s, i), V)
      BY <1>1, <1>2 DEF LoadsOk
    <2> QED
      BY <1>2, <2>1, <2>3, <2>4, MemberSame, Zenon
  <1>3. LoadsOk(p, j, s, V2)
    BY <1>1, <1>2, Zenon DEF LoadsOk
  <1> QED
    BY <1>1, <1>3, Zenon DEF LoopLedgerOk

-----------------------------------------------------------------------------
\* A step of one loop that changes neither the store nor the ledger.

LEMMA HereOk ==
    ASSUME LedgerInv, NEW w \in Worker
    PROVE  LET V == OnAllKeys(LedgerOf)
               A == OnAllKeys(accounts)
           IN  /\ LoopLedgerOk(pc[w], job[w], sent, guard[w], V, A)
               /\ ChosenOk(pc[w], job[w], Signed(job[w], sent), Clear(job[w], sent))
               /\ GuardOk(pc[w], job[w], sent, guard[w])
               /\ LoadsOk(pc[w], job[w], sent, V)
               /\ FlushingOk(pc[w], job[w], sent, guard[w], A)
BY Zenon DEF LedgerInv, LoopsLedgerOk, LoopLedgerOk

LEMMA NothingFlushing ==
    ASSUME LedgerInv, NEW w \in Worker, pc[w] # "commit"
    PROVE  DOMAIN job[w].flushing = {}
BY HereOk DEF FlushingOk

\* Steps that change neither the store nor what is on its way to it.
LEMMA Quietly ==
    ASSUME Inv, LedgerInv, NEW w \in Worker, NEW p2 \in Places, NEW k, Moves(w, p2, k),
           UNCHANGED <<sent, accounts>>, \A v \in Worker : v # w => guard'[v] = guard[v],
           DOMAIN k.flushing = DOMAIN job[w].flushing,
           \A x \in DOMAIN k.flushing : k.flushing[x] = job[w].flushing[x],
           LoopLedgerOk(p2, k, sent, guard'[w], OnAllKeys(LedgerOf), OnAllKeys(accounts))
    PROVE  LedgerInv' /\ LedgerOf' = LedgerOf
  <1>1. /\ pc'[w] = p2 /\ job'[w] = k
        /\ \A v \in Worker : v # w => pc'[v] = pc[v] /\ job'[v] = job[v]
    BY MovesOne DEF Inv
  <1>2. LedgerFrom(Worker, accounts, job') = LedgerFrom(Worker, accounts, job)
    <2>1. PICK js : js = job'
      OBVIOUS
    <2>2. \A v \in Worker : /\ DOMAIN js[v].flushing = DOMAIN job[v].flushing
                            /\ \A x \in DOMAIN job[v].flushing :
                                  js[v].flushing[x] = job[v].flushing[x]
      BY <1>1, <2>1
    <2>3. LedgerFrom(Worker, accounts, js) = LedgerFrom(Worker, accounts, job)
      BY <2>2, LedgerSame
    <2> QED
      BY <2>1, <2>3
  <1>3. LedgerOf' = LedgerOf
    BY <1>2 DEF LedgerOf, LedgerFrom
  <1>4. \A v \in Worker : LoopLedgerOk(pc'[v], job'[v], sent, guard'[v],
                                       OnAllKeys(LedgerOf), OnAllKeys(accounts))
    BY <1>1, HereOk, Zenon
  <1>5. OnAllKeys(LedgerOf)' = OnAllKeys(LedgerOf) /\ OnAllKeys(accounts)' = OnAllKeys(accounts)
    BY <1>3 DEF OnAllKeys
  <1>6. LedgerInv'
    BY <1>4, <1>5 DEF LedgerInv, LoopsLedgerOk
  <1> QED
    BY <1>3, <1>6

\* In particular outside execution and commit.
LEMMA IdleOk ==
    ASSUME NEW p, ~Executing(p), NEW k, NEW s, ChosenOk(p, k, Signed(k, s), Clear(k, s)),
           DOMAIN k.flushing = {}, NEW g, NEW V, NEW A
    PROVE  LoopLedgerOk(p, k, s, g, V, A)
  <1>1. p # "commit"
    BY DEF Executing
  <1> QED
    BY <1>1 DEF LoopLedgerOk, GuardOk, LoadsOk, FlushingOk

LEMMA Idly ==
    ASSUME Inv, LedgerInv, NEW w \in Worker, NEW p2 \in Places, ~Executing(p2), NEW k,
           Moves(w, p2, k), UNCHANGED <<sent, accounts>>,
           \A v \in Worker : v # w => guard'[v] = guard[v],
           DOMAIN job[w].flushing = {}, DOMAIN k.flushing = {},
           ChosenOk(p2, k, Signed(k, sent), Clear(k, sent))
    PROVE  LedgerInv' /\ LedgerOf' = LedgerOf
  <1>1. LoopLedgerOk(p2, k, sent, guard'[w], OnAllKeys(LedgerOf), OnAllKeys(accounts))
    BY IdleOk
  <1>2. \A x \in DOMAIN k.flushing : k.flushing[x] = job[w].flushing[x]
    OBVIOUS
  <1> QED
    BY <1>1, <1>2, Quietly

\* The places of the loop where it holds no group.
IdlePlaces == {"head", "recv", "verify", "stopped"}

LEMMA ToIdle ==
    ASSUME Inv, LedgerInv, NEW w \in Worker, NEW p2 \in IdlePlaces, NEW k, Moves(w, p2, k),
           UNCHANGED <<sent, accounts>>, \A v \in Worker : v # w => guard'[v] = guard[v],
           DOMAIN job[w].flushing = {}, DOMAIN k.flushing = {}
    PROVE  LedgerInv' /\ LedgerOf' = LedgerOf
  <1>1. p2 \in Places /\ ~Executing(p2)
    BY DEF IdlePlaces, Places, Executing
  <1>2. ChosenOk(p2, k, Signed(k, sent), Clear(k, sent))
    BY ChosenIdle DEF IdlePlaces
  <1> QED
    BY <1>1, <1>2, Idly

-----------------------------------------------------------------------------
\* What else an assignment keeps.

\* Assignments to local variables that leave the flush alone.
LEMMA AssignKeeps ==
    ASSUME NEW j, Fields(j), NEW x, NEW y, NEW z
    PROVE  /\ WithBatch(j, x).flushing = j.flushing
           /\ WithSchedule(j, x, y).flushing = j.flushing
           /\ WithGroup(j, x, y, z).flushing = j.flushing
           /\ WithRefusal(j, x, y).flushing = j.flushing
           /\ WithAdmission(j, x, y).flushing = j.flushing
           /\ WithReturn(j, x, y).flushing = j.flushing
           /\ WithNoGroup(j, x, y, z).flushing = j.flushing
  <1>1. WithBatch(j, x).flushing = j.flushing BY DEF Fields, WithBatch
  <1>2. WithSchedule(j, x, y).flushing = j.flushing BY DEF Fields, WithSchedule
  <1>3. WithGroup(j, x, y, z).flushing = j.flushing BY DEF Fields, WithGroup
  <1>4. WithRefusal(j, x, y).flushing = j.flushing BY DEF Fields, WithRefusal
  <1>5. WithAdmission(j, x, y).flushing = j.flushing BY DEF Fields, WithAdmission
  <1>6. WithReturn(j, x, y).flushing = j.flushing BY DEF Fields, WithReturn
  <1>7. WithNoGroup(j, x, y, z).flushing = j.flushing BY DEF Fields, WithNoGroup
  <1> QED
    BY <1>1, <1>2, <1>3, <1>4, <1>5, <1>6, <1>7, Zenon

LEMMA AssignGroupKeeps ==
    ASSUME NEW j, Fields(j), NEW x, NEW y
    PROVE  /\ WithRunning(j, x, y).flushing = j.flushing /\ WithRunning(j, x, y).loaded = x
           /\ WithOverlays(j, x, y).flushing = j.flushing /\ WithOverlays(j, x, y).loaded = j.loaded
           /\ WithOverlays(j, x, y).outcome = j.outcome
           /\ WithOverlays(j, x, y).admitted = j.admitted
           /\ WithFlush(j, x, y).flushing = y /\ WithFlush(j, x, y).loaded = j.loaded
           /\ WithFlush(j, x, y).outcome = j.outcome
           /\ WithFlush(j, x, y).admitted = j.admitted
  <1>1. WithRunning(j, x, y).flushing = j.flushing /\ WithRunning(j, x, y).loaded = x
    BY DEF Fields, WithRunning
  <1>2. /\ WithOverlays(j, x, y).flushing = j.flushing /\ WithOverlays(j, x, y).loaded = j.loaded
        /\ WithOverlays(j, x, y).outcome = j.outcome
        /\ WithOverlays(j, x, y).admitted = j.admitted
    BY DEF Fields, WithOverlays
  <1>3. /\ WithFlush(j, x, y).flushing = y /\ WithFlush(j, x, y).loaded = j.loaded
        /\ WithFlush(j, x, y).outcome = j.outcome
        /\ WithFlush(j, x, y).admitted = j.admitted
    BY DEF Fields, WithFlush
  <1> QED
    BY <1>1, <1>2, <1>3, Zenon

LEMMA PlaceOnly ==
    ASSUME Inv, NEW w \in Worker, NEW p2, pc' = [pc EXCEPT ![w] = p2], UNCHANGED job
    PROVE  Moves(w, p2, job[w])
BY LoopHere DEF Moves

LEMMA EmptyJobFlush == DOMAIN EmptyJob.flushing = {}
BY DEF EmptyJob, EmptyMap

LEMMA SameBatchSame ==
    ASSUME NEW j, NEW k, k.batch = j.batch, NEW s
    PROVE  /\ Signed(k, s) = Signed(j, s) /\ Clear(k, s) = Clear(j, s)
           /\ \A i : At(k, s, i) = At(j, s, i)
BY DEF Signed, Clear, At

\* Only the guard of the caller is dropped.
LEMMA OtherGuards ==
    ASSUME LP!Inv, NEW w \in Worker, Locks!DropGuard(w)
    PROVE  \A v \in Worker : v # w => guard'[v] = guard[v]
  <1>1. guard \in [Worker -> [write_locks: SUBSET Pubkey, read_locks: SUBSET Pubkey]]
    BY DEF LP!Inv, LP!TypeOK
  <1> QED
    BY <1>1 DEF Locks!DropGuard

-----------------------------------------------------------------------------
\* The loop of main, and the ways out of process_batch.

\* The actions of a loop, one lemma each: the action keeps LedgerInv, and the ledger unless
\* it begins a flush.
LEMMA BetweenBatches ==
    ASSUME Inv, LedgerInv, NEW w \in Worker,
           Stop(w) \/ Poll(w) \/ ReceiveEnds(w) \/ VerifyPanics(w) \/ Cancelled(w) \/ FinishBatch(w)
    PROVE  LedgerInv' /\ LedgerOf' = LedgerOf
  <1>1. /\ pc[w] \in {"head", "recv", "verify", "group"}
        /\ UNCHANGED <<sent, accounts, guard>>
        /\ \E p2 \in IdlePlaces :
              pc' = [pc EXCEPT ![w] = p2] /\ (UNCHANGED job \/ job' = [job EXCEPT ![w] = EmptyJob])
    BY Zenon DEF Stop, Poll, ReceiveEnds, VerifyPanics, Cancelled, FinishBatch, lockVars, IdlePlaces
  <1>2. PICK p2 \in IdlePlaces :
            pc' = [pc EXCEPT ![w] = p2] /\ (UNCHANGED job \/ job' = [job EXCEPT ![w] = EmptyJob])
    BY <1>1
  <1>3. DOMAIN job[w].flushing = {}
    BY <1>1, NothingFlushing
  <1>4. PICK k : Moves(w, p2, k) /\ DOMAIN k.flushing = {}
    BY <1>2, <1>3, PlaceOnly, EmptyJobFlush, Zenon DEF Moves
  <1> QED
    BY <1>1, <1>3, <1>4, ToIdle, Zenon

LEMMA ReceiveLedger ==
    ASSUME Inv, LedgerInv, NEW w \in Worker, Receive(w)
    PROVE  LedgerInv' /\ LedgerOf' = LedgerOf
  <1> DEFINE j == job[w]
             k == WithBatch(j, Append(j.batch, Head(channel)))
  <1>1. Fields(j) /\ job = [v \in Worker |-> job[v]] /\ pc[w] = "recv"
        /\ UNCHANGED <<sent, accounts, guard>>
    BY LoopHere DEF Receive, lockVars
  <1>2. Moves(w, "recv", k)
    <2>1. job' = [job EXCEPT ![w] = k]
      BY <1>1 DEF Receive, WithBatch
    <2> QED
      BY <1>1, <2>1, LoopHere, Zenon DEF Moves, Receive
  <1>3. DOMAIN j.flushing = {} /\ k.flushing = j.flushing /\ "recv" \in IdlePlaces
    BY <1>1, NothingFlushing, AssignKeeps DEF IdlePlaces
  <1> QED
    BY <1>1, <1>2, <1>3, ToIdle

LEMMA UnwindLedger ==
    ASSUME Inv, LP!Inv, LedgerInv, NEW w \in Worker,
           RecordFails(w) \/ RecordPanics(w) \/ \E i : ExecutePanics(w, i)
    PROVE  LedgerInv' /\ LedgerOf' = LedgerOf
  <1>1. /\ pc[w] = "execute" /\ Locks!DropGuard(w) /\ UNCHANGED <<sent, accounts>>
        /\ \E p2 \in IdlePlaces : Moves(w, p2, EmptyJob)
    BY Zenon DEF RecordFails, RecordPanics, ExecutePanics, ExecutionEnded, Unwind, Moves, IdlePlaces
  <1>2. DOMAIN job[w].flushing = {}
    BY <1>1, NothingFlushing
  <1>3. \A v \in Worker : v # w => guard'[v] = guard[v]
    BY <1>1, OtherGuards
  <1> QED
    BY <1>1, <1>2, <1>3, EmptyJobFlush, ToIdle, Zenon

-----------------------------------------------------------------------------
\* Scheduling and admission.

LEMMA SeqInto ==
    ASSUME NEW S, NEW t \in Seq(S), NEW T, ToSet(t) \subseteq T
    PROVE  t \in Seq(T)
  <1>1. Len(t) \in Nat /\ t \in [1..Len(t) -> T]
    BY DEF ToSet
  <1> QED
    BY <1>1, FunctionIsSeq

LEMMA VerifyAndScheduleLedger ==
    ASSUME Inv, LedgerInv, NEW w \in Worker, VerifyAndSchedule(w)
    PROVE  LedgerInv' /\ LedgerOf' = LedgerOf
  <1> DEFINE j == job[w]
             D == DOMAIN j.batch
  <1>1. Fields(j) /\ pc[w] = "verify" /\ UNCHANGED <<sent, accounts, guard>>
    BY LoopHere, Zenon DEF VerifyAndSchedule, lockVars
  <1>2. PICK valid, t, sets :
            /\ valid = {i \in D : verify_signatures_sync(TxAt(w, i))}
            /\ t = Those(Positions(j), valid) /\ t \in Seq(D)
            /\ sets = [n \in DOMAIN t |-> extract_sets(TxAt(w, t[n]))]
            /\ sets \in Seq(KeySets(Pubkey)) /\ Len(sets) = Len(t)
            /\ Moves(w, "group", WithSchedule(j, Verified(j, valid), Regroup(t, ScheduleOf(sets))))
    BY VerifyAndScheduleIs, Zenon
  <1>3. PICK r, g : r = Verified(j, valid) /\ g = Regroup(t, ScheduleOf(sets))
    OBVIOUS
  <1>4. PICK k : k = WithSchedule(j, r, g)
    OBVIOUS
  <1>5. k.batch = j.batch /\ k.groups = g /\ k.flushing = j.flushing
    BY <1>1, <1>4, AssignSchedule, AssignKeeps
  <1>6. PICK S, R : S = Signed(k, sent) /\ R = Clear(k, sent)
    OBVIOUS
  <1>7. S = valid
    BY <1>2, <1>5, <1>6, Zenon DEF Signed, At, TxAt
  <1>8. t \in Seq(S)
    <2>1. PICK n \in Nat : D = 1..n
      BY LoopHere DEF LoopOk, BatchOk
    <2>2. Positions(j) \in Seq(D)
      BY <2>1, IdentitySeq, Zenon DEF Positions
    <2>3. ToSet(t) = ToSet(Positions(j)) \cap valid
      BY <1>2, <2>2, ThoseAre, Zenon
    <2> QED
      BY <1>2, <1>7, <2>3, SeqInto
  <1>9. ASSUME NEW m \in 1..Len(t), NEW n \in 1..Len(t),
               Touched(sets[n]) \cap sets[m].write_set = {}
        PROVE  <<t[m], t[n]>> \in R
    <2>1. m \in DOMAIN t /\ n \in DOMAIN t /\ t[m] \in D /\ t[n] \in D
      BY <1>2, <1>9
    <2>2. /\ sets[m] = extract_sets(At(k, sent, t[m])) /\ sets[n] = extract_sets(At(k, sent, t[n]))
      BY <1>2, <1>5, <2>1, Zenon DEF At, TxAt
    <2>3. Writes(At(k, sent, t[m])) \cap Names(At(k, sent, t[n])) = {}
      BY <1>9, <2>2 DEF Writes, Names
    <2> QED
      BY <1>5, <1>6, <2>1, <2>3 DEF Clear
  <1>10. k.groups = Regroup(t, ScheduleOf(sets))
    BY <1>3, <1>5, Zenon
  <1>11. ChosenOk("group", k, S, R)
    <2>1. \A m, n \in 1..Len(t) :
             Touched(sets[n]) \cap sets[m].write_set = {} => <<t[m], t[n]>> \in R
      BY <1>9, Zenon
    <2>2. sets \in Seq(KeySets(Pubkey)) /\ Len(sets) = Len(t)
      BY <1>2, Zenon
    <2> QED
      BY <1>8, <1>10, <2>1, <2>2, ChosenScheduled
  <1>12. Moves(w, "group", k) /\ "group" \in Places /\ ~Executing("group")
    BY <1>2, <1>3, <1>4, Zenon DEF Places, Executing
  <1>13. DOMAIN j.flushing = {}
    BY <1>1, NothingFlushing
  <1> QED
    BY <1>1, <1>5, <1>6, <1>11, <1>12, <1>13, Idly

LEMMA NextGroupLedger ==
    ASSUME Inv, LedgerInv, NEW w \in Worker, NextGroup(w)
    PROVE  LedgerInv' /\ LedgerOf' = LedgerOf
  <1> DEFINE j == job[w]
  <1>1. PICK k : k = WithGroup(j, Head(j.groups), Tail(j.groups), <<>>)
    OBVIOUS
  <1>2. Fields(j) /\ job = [v \in Worker |-> job[v]] /\ pc[w] = "group" /\ j.groups # <<>>
        /\ UNCHANGED <<sent, accounts, guard>>
    BY LoopHere DEF NextGroup, lockVars
  <1>3. Moves(w, "admit", k)
    BY <1>1, <1>2, Zenon DEF Moves, NextGroup, WithGroup
  <1>4. /\ k.batch = j.batch /\ k.flushing = j.flushing
        /\ k.to_admit = Head(j.groups) /\ k.groups = Tail(j.groups) /\ k.admitted = <<>>
    BY <1>1, <1>2, AssignGroup, AssignKeeps
  <1>5. DOMAIN j.flushing = {}
    BY <1>2, NothingFlushing
  <1>6. ChosenOk("admit", k, Signed(k, sent), Clear(k, sent))
    BY <1>2, <1>4, HereOk, ChosenNext, SameBatchSame
  <1>7. "admit" \in Places /\ ~Executing("admit")
    BY DEF Places, Executing
  <1> QED
    BY <1>2, <1>3, <1>4, <1>5, <1>6, <1>7, Idly

LEMMA WouldFitLedger ==
    ASSUME Inv, LedgerInv, NEW w \in Worker, WouldFit(w) \/ AdmissionEnds(w)
    PROVE  LedgerInv' /\ LedgerOf' = LedgerOf
  <1>1. pc[w] = "admit" /\ UNCHANGED <<sent, accounts, guard, job>>
    BY DEF WouldFit, AdmissionEnds, lockVars
  <1>2. PICK p2 \in {"add", "lock", "group"} : pc' = [pc EXCEPT ![w] = p2]
    BY DEF WouldFit, AdmissionEnds
  <1>3. Moves(w, p2, job[w])
    BY <1>1, <1>2, PlaceOnly
  <1>4. ChosenOk(p2, job[w], Signed(job[w], sent), Clear(job[w], sent))
    <2>1. ChosenOk("admit", job[w], Signed(job[w], sent), Clear(job[w], sent))
      BY <1>1, HereOk
    <2>2. InProcess("admit") /\ HasGroup("admit") /\ HasGroup("add") /\ HasGroup("lock")
      BY DEF InProcess, HasGroup
    <2> QED
      BY <2>1, <2>2, ChosenSame, ChosenDone, Zenon
  <1>5. p2 \in Places /\ ~Executing(p2) /\ DOMAIN job[w].flushing = {}
    BY <1>1, NothingFlushing DEF Places, Executing
  <1> QED
    BY <1>1, <1>3, <1>4, <1>5, Idly

LEMMA WouldNotFitLedger ==
    ASSUME Inv, LedgerInv, NEW w \in Worker, WouldNotFit(w)
    PROVE  LedgerInv' /\ LedgerOf' = LedgerOf
  <1> DEFINE j == job[w]
             r == [j.results EXCEPT ![Head(j.to_admit)] = "WouldExceedMaxBlockCostLimit"]
  <1>1. PICK k : k = WithRefusal(j, Tail(j.to_admit), r)
    OBVIOUS
  <1>2. /\ Fields(j) /\ job = [v \in Worker |-> job[v]] /\ pc[w] = "admit" /\ j.to_admit # <<>>
        /\ UNCHANGED <<sent, accounts, guard>>
    BY LoopHere DEF WouldNotFit, lockVars
  <1>3. Moves(w, "admit", k)
    <2>1. job' = [job EXCEPT ![w] = k]
      BY <1>1, <1>2, Zenon DEF WouldNotFit, WithRefusal
    <2> QED
      BY <1>2, <2>1, LoopHere, Zenon DEF Moves, WouldNotFit
  <1>4. /\ k.batch = j.batch /\ k.flushing = j.flushing /\ k.groups = j.groups
        /\ k.to_admit = Tail(j.to_admit) /\ k.admitted = j.admitted
    BY <1>1, <1>2, AssignRefusal, AssignKeeps
  <1>5. DOMAIN j.flushing = {}
    BY <1>2, NothingFlushing
  <1>6. ChosenOk("admit", k, Signed(k, sent), Clear(k, sent))
    BY <1>2, <1>4, HereOk, ChosenRefused, SameBatchSame
  <1>7. "admit" \in Places /\ ~Executing("admit")
    BY DEF Places, Executing
  <1> QED
    BY <1>2, <1>3, <1>4, <1>5, <1>6, <1>7, Idly

LEMMA AddCostLedger ==
    ASSUME Inv, LedgerInv, NEW w \in Worker, AddCost(w)
    PROVE  LedgerInv' /\ LedgerOf' = LedgerOf
  <1> DEFINE j == job[w]
  <1>1. PICK t, a : t = Tail(j.to_admit) /\ a = Append(j.admitted, Head(j.to_admit))
    OBVIOUS
  <1>2. PICK k : k = WithAdmission(j, t, a)
    OBVIOUS
  <1>3. /\ Fields(j) /\ job = [v \in Worker |-> job[v]] /\ pc[w] = "add"
        /\ UNCHANGED <<sent, accounts, guard>>
    BY LoopHere DEF AddCost, lockVars
  <1>4. Moves(w, "admit", k)
    BY <1>1, <1>2, <1>3, Zenon DEF Moves, AddCost, WithAdmission
  <1>5. /\ k.batch = j.batch /\ k.flushing = j.flushing /\ k.groups = j.groups
        /\ k.to_admit = t /\ k.admitted = a
    BY <1>2, <1>3, AssignAdmission, AssignKeeps
  <1>6. DOMAIN j.flushing = {} /\ j.to_admit # <<>>
    BY <1>3, NothingFlushing, LoopHere DEF LoopOk, GroupOk
  <1>7. ChosenOk("admit", k, Signed(k, sent), Clear(k, sent))
    <2>1. ChosenOk("add", j, Signed(j, sent), Clear(j, sent))
      BY <1>3, HereOk
    <2>2. k.to_admit = Tail(j.to_admit) /\ k.admitted = Append(j.admitted, Head(j.to_admit))
      BY <1>1, <1>5, Zenon
    <2> QED
      BY <1>5, <1>6, <2>1, <2>2, ChosenAdded, SameBatchSame, Zenon
  <1>8. "admit" \in Places /\ ~Executing("admit")
    BY DEF Places, Executing
  <1> QED
    BY <1>3, <1>4, <1>5, <1>6, <1>7, <1>8, Idly, Zenon

LEMMA AccountsInUseLedger ==
    ASSUME Inv, LedgerInv, NEW w \in Worker, AccountsInUse(w) \/ RollBackCost(w)
    PROVE  LedgerInv' /\ LedgerOf' = LedgerOf
  <1>1. pc[w] \in {"lock", "refused"} /\ UNCHANGED <<sent, accounts, guard, job>>
    BY Zenon DEF AccountsInUse, RollBackCost, Locks!TryLockErr, Locks!vars, lockVars
  <1>2. PICK p2 \in {"refused", "requeue"} : pc' = [pc EXCEPT ![w] = p2]
    BY Zenon DEF AccountsInUse, RollBackCost
  <1>3. Moves(w, p2, job[w])
    BY <1>1, <1>2, PlaceOnly
  <1>4. ChosenOk(p2, job[w], Signed(job[w], sent), Clear(job[w], sent))
    <2>1. ChosenOk(pc[w], job[w], Signed(job[w], sent), Clear(job[w], sent))
      BY HereOk
    <2>2. HasGroup(pc[w]) /\ HasGroup(p2)
      BY <1>1 DEF HasGroup
    <2> QED
      BY <2>1, <2>2, ChosenSame, Zenon
  <1>5. p2 \in Places /\ ~Executing(p2) /\ DOMAIN job[w].flushing = {}
    BY <1>1, NothingFlushing DEF Places, Executing
  <1> QED
    BY <1>1, <1>3, <1>4, <1>5, Idly

LEMMA RequeueLedger ==
    ASSUME Inv, LedgerInv, NEW w \in Worker, Requeue(w)
    PROVE  LedgerInv' /\ LedgerOf' = LedgerOf
  <1> DEFINE j == job[w]
  <1>1. /\ Fields(j) /\ pc[w] = "requeue" /\ UNCHANGED <<sent, accounts, guard>>
        /\ j.admitted # <<>>
    <2>1. pc[w] = "requeue" /\ UNCHANGED <<sent, accounts, guard>>
      BY Zenon DEF Requeue, lockVars
    <2> QED
      BY <2>1, LoopHere DEF LoopOk, GroupOk
  <1>2. PICK p2, k :
           /\ p2 \in {"group", "refused"}
           /\ Moves(w, p2, k) /\ Fields(k) /\ SentBack(j, k)
           /\ p2 = "group" <=> Tail(j.admitted) = <<>>
           /\ k = WithReturn(j, Tail(j.admitted),
                            [j.results EXCEPT ![Head(j.admitted)] = "AccountInUse"])
    BY RequeueAssigns, Zenon
  <1>3. PICK a, r : /\ a = Tail(j.admitted)
                    /\ r = [j.results EXCEPT ![Head(j.admitted)] = "AccountInUse"]
    OBVIOUS
  <1>4. /\ k.batch = j.batch /\ k.flushing = j.flushing /\ k.groups = j.groups
        /\ k.to_admit = j.to_admit /\ k.admitted = a
    <2>1. k = WithReturn(j, a, r)
      BY <1>2, <1>3, Zenon
    <2> QED
      BY <1>1, <2>1, AssignReturn, AssignKeeps
  <1>5. ChosenOk(p2, k, Signed(k, sent), Clear(k, sent))
    <2>1. ChosenOk("requeue", j, Signed(j, sent), Clear(j, sent)) /\ InProcess("requeue")
      BY <1>1, HereOk DEF InProcess, HasGroup
    <2>2. Signed(k, sent) = Signed(j, sent) /\ Clear(k, sent) = Clear(j, sent)
      BY <1>4, SameBatchSame
    <2> QED
      BY <1>1, <1>2, <1>3, <1>4, <2>1, <2>2, ChosenDone, ChosenReturned, Zenon
  <1>6. p2 \in Places /\ ~Executing(p2) /\ DOMAIN j.flushing = {}
    BY <1>1, <1>2, NothingFlushing DEF Places, Executing
  <1> QED
    BY <1>1, <1>2, <1>4, <1>5, <1>6, Idly, Zenon

LEMMA ReleaseGroupLedger ==
    ASSUME Inv, LP!Inv, LedgerInv, NEW w \in Worker, ReleaseGroup(w)
    PROVE  LedgerInv' /\ LedgerOf' = LedgerOf
  <1> DEFINE j == job[w]
  <1>1. PICK k : k = WithNoGroup(j, EmptyMap, EmptyMap, <<>>)
    OBVIOUS
  <1>2. /\ Fields(j) /\ job = [v \in Worker |-> job[v]] /\ pc[w] = "commit"
        /\ UNCHANGED <<sent, accounts>> /\ Locks!DropGuard(w) /\ DOMAIN j.flushing = {}
    BY LoopHere DEF ReleaseGroup
  <1>3. Moves(w, "group", k)
    BY <1>1, <1>2, Zenon DEF Moves, ReleaseGroup, WithNoGroup
  <1>4. k.batch = j.batch /\ k.flushing = j.flushing /\ k.groups = j.groups
    BY <1>1, <1>2, AssignNoGroup, AssignKeeps
  <1>5. ChosenOk("group", k, Signed(k, sent), Clear(k, sent))
    <2>1. InProcess("commit")
      BY DEF InProcess, HasGroup
    <2> QED
      BY <1>2, <1>4, <2>1, HereOk, ChosenDone, SameBatchSame
  <1>6. "group" \in Places /\ ~Executing("group")
    BY DEF Places, Executing
  <1>7. \A v \in Worker : v # w => guard'[v] = guard[v]
    BY <1>2, OtherGuards
  <1> QED
    BY <1>2, <1>3, <1>4, <1>5, <1>6, <1>7, Idly, Zenon

-----------------------------------------------------------------------------
\* Execution.

\* A group that has just got its locks has loaded nothing.
LEMMA NoLoads ==
    ASSUME NEW tx \in Tx, NEW V
    PROVE  MemberOk("Running", <<>>, tx, V)
  <1>1. FirstLoads(tx, V, 0) = <<>>
    BY DEF FirstLoads
  <1>2. 0 \in 0..Len(tx.account_keys)
    BY BankingConstants
  <1> QED
    BY <1>1, <1>2 DEF MemberOk

LEMMA LockAccountsLedger ==
    ASSUME Inv, LP!Inv, LedgerInv, NEW w \in Worker, LockAccounts(w)
    PROVE  LedgerInv' /\ LedgerOf' = LedgerOf
  <1> DEFINE j == job[w]
             M == ToSet(j.admitted)
             V == OnAllKeys(LedgerOf)
             A == OnAllKeys(accounts)
  <1>1. PICK l, o : l = [i \in M |-> <<>>] /\ o = [i \in M |-> "Running"]
    OBVIOUS
  <1>2. PICK k : k = WithRunning(j, l, o)
    OBVIOUS
  <1>3. /\ Fields(j) /\ job = [v \in Worker |-> job[v]] /\ pc[w] = "lock"
        /\ UNCHANGED <<sent, accounts>>
    BY LoopHere, Zenon DEF LockAccounts
  <1>4. Moves(w, "execute", k)
    BY <1>1, <1>2, <1>3, Zenon DEF Moves, LockAccounts, WithRunning, Members
  <1>5. /\ k.batch = j.batch /\ k.groups = j.groups /\ k.flushing = j.flushing
        /\ k.to_admit = j.to_admit /\ k.admitted = j.admitted /\ k.outcome = o /\ k.loaded = l
    BY <1>2, <1>3, AssignRunning, AssignGroupKeeps
  <1>6. PICK g : /\ g = guard'[w]
                 /\ g.write_locks = UNION {sets.write_set : sets \in GroupSets(w)}
                 /\ g.read_locks = UNION {sets.read_set : sets \in GroupSets(w)}
    <2>1. guard \in [Worker -> [write_locks: SUBSET Pubkey, read_locks: SUBSET Pubkey]]
      BY DEF LP!Inv, LP!TypeOK
    <2>2. guard' = [guard EXCEPT ![w] =
                       [write_locks |-> Locks!write_keys_to_lock(GroupSets(w)),
                        read_locks  |-> Locks!read_keys_to_lock(GroupSets(w))]]
      BY Zenon DEF LockAccounts, Locks!TryLockOk
    <2>3. guard'[w] = [write_locks |-> Locks!write_keys_to_lock(GroupSets(w)),
                       read_locks  |-> Locks!read_keys_to_lock(GroupSets(w))]
      BY <2>1, <2>2
    <2> QED
      BY <2>3 DEF Locks!write_keys_to_lock, Locks!read_keys_to_lock
  <1>7. \A v \in Worker : v # w => guard'[v] = guard[v]
    <2>1. guard \in [Worker -> [write_locks: SUBSET Pubkey, read_locks: SUBSET Pubkey]]
      BY DEF LP!Inv, LP!TypeOK
    <2>2. PICK e : guard' = [guard EXCEPT ![w] = e]
      BY Zenon DEF LockAccounts, Locks!TryLockOk
    <2> QED
      BY <2>1, <2>2
  <1>8. \A i \in M : At(k, sent, i) \in Tx /\ extract_sets(At(k, sent, i)) \in GroupSets(w)
    <2>1. j.admitted \in Seq(DOMAIN j.batch)
      BY <1>3, LoopHere DEF LoopOk, GroupOk, HasGroup
    <2>2. \A i \in M : i \in DOMAIN j.batch
      BY <2>1 DEF ToSet
    <2>3. \A i : At(k, sent, i) = TxAt(w, i)
      BY <1>5 DEF At, TxAt
    <2> QED
      BY <2>2, <2>3, BatchIsSent DEF GroupSets, Members
  <1>9. GuardOk("execute", k, sent, g)
    <2>1. \A i \in M : /\ Writes(At(k, sent, i)) \subseteq g.write_locks
                       /\ Names(At(k, sent, i)) \subseteq g.write_locks \cup g.read_locks
      BY <1>6, <1>8 DEF Writes, Names, Touched
    <2>2. ASSUME NEW key \in g.write_locks
          PROVE  \E i \in M : key \in Writes(At(k, sent, i))
      <3>1. PICK i \in Members(w) : key \in extract_sets(TxAt(w, i)).write_set
        BY <1>6, <2>2 DEF GroupSets
      <3>2. i \in M /\ At(k, sent, i) = TxAt(w, i)
        BY <1>5 DEF Members, At, TxAt
      <3> QED
        BY <3>1, <3>2 DEF Writes
    <2> QED
      BY <1>5, <1>8, <2>1, <2>2 DEF GuardOk
  <1>10. LoadsOk("execute", k, sent, V)
    <2>1. k.loaded = [i \in M |-> k.loaded[i]]
      BY <1>1, <1>5
    <2>2. \A i \in M : k.outcome[i] = "Running" /\ k.loaded[i] = <<>>
      BY <1>1, <1>5
    <2>3. \A i \in M : MemberOk(k.outcome[i], k.loaded[i], At(k, sent, i), V)
      BY <1>8, <2>2, NoLoads
    <2> QED
      BY <1>5, <2>1, <2>3 DEF LoadsOk, ToCommit
  <1>11. DOMAIN j.flushing = {}
    BY <1>3, NothingFlushing
  <1>12. FlushingOk("execute", k, sent, g, A)
    BY <1>5, <1>11 DEF FlushingOk
  <1>13. ChosenOk("execute", k, Signed(k, sent), Clear(k, sent))
    <2>1. HasGroup("lock") /\ HasGroup("execute")
      BY DEF HasGroup
    <2> QED
      BY <1>3, <1>5, <2>1, HereOk, ChosenSame, SameBatchSame
  <1>14. LoopLedgerOk("execute", k, sent, guard'[w], V, A)
    BY <1>6, <1>9, <1>10, <1>12, <1>13 DEF LoopLedgerOk
  <1>15. "execute" \in Places /\ k.flushing = j.flushing
    BY <1>5 DEF Places
  <1> QED
    BY <1>3, <1>4, <1>7, <1>14, <1>15, Quietly

\* A step of member i.
LEMMA MemberLedger ==
    ASSUME Inv, LedgerInv, NEW w \in Worker, pc[w] = "execute", NEW l, NEW o,
           job' = [job EXCEPT ![w] = WithRunning(job[w], l, o)],
           UNCHANGED <<pc, sent, accounts, guard>>,
           l = [x \in ToSet(job[w].admitted) |-> l[x]],
           NEW i, MemberOk(o[i], l[i], At(job[w], sent, i), OnAllKeys(LedgerOf)),
           \A x \in ToSet(job[w].admitted) :
               x # i => l[x] = job[w].loaded[x] /\ o[x] = job[w].outcome[x]
    PROVE  LedgerInv' /\ LedgerOf' = LedgerOf
  <1> DEFINE j == job[w]
             M == ToSet(j.admitted)
             V == OnAllKeys(LedgerOf)
             A == OnAllKeys(accounts)
  <1>1. PICK k : k = WithRunning(j, l, o)
    OBVIOUS
  <1>2. Fields(j) /\ Moves(w, "execute", k)
    BY <1>1, LoopHere DEF Moves
  <1>3. /\ k.batch = j.batch /\ k.groups = j.groups /\ k.flushing = j.flushing
        /\ k.to_admit = j.to_admit /\ k.admitted = j.admitted /\ k.outcome = o /\ k.loaded = l
    BY <1>1, <1>2, AssignRunning, AssignGroupKeeps
  <1>4. \A x : At(k, sent, x) = At(j, sent, x)
    BY <1>3, SameBatchSame
  <1>5. /\ GuardOk("execute", j, sent, guard[w]) /\ LoadsOk("execute", j, sent, V)
        /\ FlushingOk("execute", j, sent, guard[w], A)
        /\ ChosenOk("execute", j, Signed(j, sent), Clear(j, sent))
    BY HereOk
  <1>6. GuardOk("execute", k, sent, guard[w])
    BY <1>3, <1>4, <1>5 DEF GuardOk
  <1>7. LoadsOk("execute", k, sent, V)
    <2>1. \A x \in M : MemberOk(j.outcome[x], j.loaded[x], At(j, sent, x), V)
      BY <1>5 DEF LoadsOk, ToCommit, Executing
    <2>2. \A x \in M : MemberOk(o[x], l[x], At(j, sent, x), V)
      BY <2>1, Zenon
    <2> QED
      BY <1>3, <1>4, <2>2 DEF LoadsOk, ToCommit
  <1>8. FlushingOk("execute", k, sent, guard[w], A)
    BY <1>3, <1>4, <1>5 DEF FlushingOk
  <1>9. ChosenOk("execute", k, Signed(k, sent), Clear(k, sent))
    <2>1. HasGroup("execute")
      BY DEF HasGroup
    <2> QED
      BY <1>3, <1>5, <2>1, ChosenSame, SameBatchSame
  <1>10. LoopLedgerOk("execute", k, sent, guard'[w], V, A)
    BY <1>6, <1>7, <1>8, <1>9 DEF LoopLedgerOk
  <1>11. "execute" \in Places
    BY DEF Places
  <1> QED
    BY <1>2, <1>3, <1>10, <1>11, Quietly

LEMMA LedgerNow ==
    ASSUME Discipline, LP!Inv, LedgerInv
    PROVE  /\ IsLedger(LedgerOf, Worker, accounts, job)
           /\ Agree(Worker, job) /\ Exclusive(Worker, guard)
  <1>1. Exclusive(Worker, guard)
    BY Zenon DEF Exclusive, LP!Inv, LP!Exclusion
  <1>2. Agree(Worker, job)
    BY <1>1, AgreeNow, Zenon DEF LedgerInv
  <1>3. LedgerOf = LedgerFrom(Worker, accounts, job)
    BY Zenon DEF LedgerOf, LedgerFrom
  <1> QED
    BY <1>1, <1>2, <1>3, LedgerIs, Zenon

LEMMA LoadsHere ==
    ASSUME Discipline, LP!Inv, LedgerInv, NEW w \in Worker,
           Executing(pc[w]), DOMAIN job[w].flushing = {},
           NEW i \in ToSet(job[w].admitted), NEW key \in Pubkey, key \in KeysOf(At(job[w], sent, i))
    PROVE  OnAllKeys(LedgerOf)[key] = OnAllKeys(accounts)[key]
  <1>1. IsLedger(LedgerOf, Worker, accounts, job) /\ Exclusive(Worker, guard)
    BY LedgerNow
  <1>2. PICK L : L = LedgerOf
    OBVIOUS
  <1>3. /\ IsLedger(L, Worker, accounts, job)
        /\ LoopsLedgerOk(Worker, pc, job, sent, guard, OnAllKeys(L), OnAllKeys(accounts))
    BY <1>1, <1>2, Zenon DEF LedgerInv
  <1>4. OnAllKeys(L)[key] = OnAllKeys(accounts)[key]
    BY <1>1, <1>3, LoadsNow
  <1> QED
    BY <1>2, <1>4

LEMMA MemberHere ==
    ASSUME Inv, LedgerInv, NEW w \in Worker, pc[w] = "execute", NEW i \in DOMAIN job[w].outcome
    PROVE  LET M == ToSet(job[w].admitted)
           IN  /\ i \in M /\ job[w].outcome \in [M -> Outcomes]
               /\ job[w].loaded = [x \in M |-> job[w].loaded[x]]
               /\ At(job[w], sent, i) \in Tx /\ TxAt(w, i) = At(job[w], sent, i)
               /\ MemberOk(job[w].outcome[i], job[w].loaded[i], At(job[w], sent, i), OnAllKeys(LedgerOf))
               /\ Fields(job[w]) /\ job = [v \in Worker |-> job[v]]
  <1>1. i \in ToSet(job[w].admitted) /\ job[w].outcome \in [ToSet(job[w].admitted) -> Outcomes]
    BY LoopHere DEF LoopOk, GroupOk
  <1>2. LoadsOk("execute", job[w], sent, OnAllKeys(LedgerOf)) /\ GuardOk("execute", job[w], sent, guard[w])
    BY HereOk
  <1>3. /\ job[w].loaded = [x \in ToSet(job[w].admitted) |-> job[w].loaded[x]]
        /\ MemberOk(job[w].outcome[i], job[w].loaded[i], At(job[w], sent, i), OnAllKeys(LedgerOf))
    BY <1>1, <1>2, Zenon DEF LoadsOk, Executing, ToCommit
  <1>4. At(job[w], sent, i) \in Tx /\ TxAt(w, i) = At(job[w], sent, i)
    BY <1>1, <1>2 DEF GuardOk, Executing, At, TxAt
  <1> QED
    BY <1>1, <1>3, <1>4, LoopHere, Zenon

LEMMA PreflightFailsLedger ==
    ASSUME Inv, LedgerInv, NEW w \in Worker, NEW i \in DOMAIN job[w].outcome, PreflightFails(w, i)
    PROVE  LedgerInv' /\ LedgerOf' = LedgerOf
  <1> DEFINE j == job[w]
             M == ToSet(j.admitted)
  <1>1. pc[w] = "execute" /\ UNCHANGED <<pc, sent, accounts, guard>>
    BY DEF PreflightFails, lockVars
  <1>2. /\ i \in M /\ j.outcome \in [M -> Outcomes] /\ j.loaded = [x \in M |-> j.loaded[x]]
        /\ Fields(j) /\ job = [v \in Worker |-> job[v]]
    BY <1>1, MemberHere
  <1>3. PICK o : o = [j.outcome EXCEPT ![i] = "BlockhashNotFound"]
    OBVIOUS
  <1>4. job' = [job EXCEPT ![w] = [j EXCEPT !.outcome = o]]
    BY <1>2, <1>3 DEF PreflightFails
  <1>5. job' = [job EXCEPT ![w] = WithRunning(j, j.loaded, o)]
    BY <1>2, <1>4, AssignOne, Zenon
  <1>6. o[i] = "BlockhashNotFound" /\ \A x \in M : x # i => o[x] = j.outcome[x]
    BY <1>2, <1>3
  <1>7. MemberOk(o[i], j.loaded[i], At(j, sent, i), OnAllKeys(LedgerOf))
    BY <1>6 DEF MemberOk
  <1> QED
    BY <1>1, <1>2, <1>5, <1>6, <1>7, MemberLedger

\* Loading one more account.
LEMMA AppendLoad ==
    ASSUME NEW tx \in Tx, NEW V, NEW n \in 0..Len(tx.account_keys)
    PROVE  /\ Len(FirstLoads(tx, V, n)) = n
           /\ n + 1 <= Len(tx.account_keys) =>
                 Append(FirstLoads(tx, V, n), V[tx.account_keys[n + 1]]) = FirstLoads(tx, V, n + 1)
  <1>1. PICK t : t = tx.account_keys
    OBVIOUS
  <1>2. t \in Seq(Pubkey) /\ n \in Nat
    BY <1>1, BankingConstants
  <1> DEFINE value(m) == V[t[m]]
             S == {value(m) : m \in 1..(n + 1)}
  <1>3. PICK a, b : a = [m \in 1..n |-> value(m)] /\ b = [m \in 1..(n + 1) |-> value(m)]
    OBVIOUS
  <1>4. \A m \in 1..(n + 1) : value(m) \in S
    OBVIOUS
  <1> HIDE DEF value, S
  <1>5. a \in [1..n -> S] /\ b \in [1..(n + 1) -> S] /\ value(n + 1) \in S
    BY <1>2, <1>3, <1>4
  <1>6. a \in Seq(S) /\ b \in Seq(S)
    <2>1. n + 1 \in Nat
      BY <1>2
    <2> QED
      BY <1>2, <1>5, <2>1, FunctionIsSeq, Zenon
  <1>7. Len(a) = n /\ Len(b) = n + 1
    BY <1>2, <1>5, <1>6
  <1>8. Append(a, value(n + 1)) = b
    <2>1. PICK c \in Seq(S) : c = Append(a, value(n + 1))
      BY <1>5, <1>6, AppendProperties, Zenon
    <2>2. Len(c) = n + 1 /\ \A m \in 1..(n + 1) : c[m] = b[m]
      BY <1>2, <1>3, <1>5, <1>6, <1>7, <2>1
    <2>3. Len(c) = Len(b) /\ \A m \in 1..Len(c) : c[m] = b[m]
      BY <1>7, <2>2, Zenon
    <2>4. c = b
      BY <1>6, <2>3, SeqEqual, Zenon
    <2> QED
      BY <2>1, <2>4
  <1> USE DEF value
  <1>9. FirstLoads(tx, V, n) = a /\ FirstLoads(tx, V, n + 1) = b
    BY <1>1, <1>3, Zenon DEF FirstLoads
  <1>10. value(n + 1) = V[tx.account_keys[n + 1]]
    BY <1>1, Zenon
  <1> HIDE DEF value
  <1> QED
    BY <1>7, <1>8, <1>9, <1>10, Zenon

LEMMA LoadAccountLedger ==
    ASSUME Discipline, Inv, LP!Inv, LedgerInv, NEW w \in Worker, NEW i \in DOMAIN job[w].outcome,
           LoadAccount(w, i)
    PROVE  LedgerInv' /\ LedgerOf' = LedgerOf
  <1> DEFINE j == job[w]
             M == ToSet(j.admitted)
             V == OnAllKeys(LedgerOf)
             tx == At(j, sent, i)
  <1>1. pc[w] = "execute" /\ j.outcome[i] = "Running" /\ UNCHANGED <<pc, sent, accounts, guard>>
    BY Zenon DEF LoadAccount, lockVars
  <1>2. /\ i \in M /\ j.outcome \in [M -> Outcomes] /\ j.loaded = [x \in M |-> j.loaded[x]]
        /\ Fields(j) /\ job = [v \in Worker |-> job[v]]
        /\ tx \in Tx /\ TxAt(w, i) = tx /\ MemberOk(j.outcome[i], j.loaded[i], tx, V)
    BY <1>1, MemberHere
  <1>3. PICK n \in 0..Len(tx.account_keys) : j.loaded[i] = FirstLoads(tx, V, n)
    BY <1>1, <1>2, Zenon DEF MemberOk
  <1>4. Len(j.loaded[i]) = n
    BY <1>2, <1>3, AppendLoad
  <1>5. PICK key, e : key = tx.account_keys[n + 1] /\ e = Append(FirstLoads(tx, V, n), Load(accounts, key))
    OBVIOUS
  <1>6. n + 1 <= Len(tx.account_keys) /\ job' = [job EXCEPT ![w].loaded[i] = e]
    BY <1>2, <1>3, <1>4, <1>5, Zenon DEF LoadAccount
  <1>7. key \in Pubkey /\ key \in KeysOf(tx) /\ n + 1 \in 0..Len(tx.account_keys)
    <2>1. PICK t \in Seq(Pubkey) : t = tx.account_keys
      BY <1>2, BankingConstants
    <2>2. n + 1 \in 1..Len(t)
      BY <1>6, <2>1
    <2>3. t[n + 1] \in Pubkey /\ t[n + 1] \in ToSet(t)
      BY <2>1, <2>2 DEF ToSet
    <2> QED
      BY <1>5, <2>1, <2>2, <2>3 DEF KeysOf
  <1>8. Load(accounts, key) = V[key]
    <2>1. OnAllKeys(accounts)[key] = Load(accounts, key)
      BY <1>7 DEF OnAllKeys
    <2>2. DOMAIN j.flushing = {} /\ Executing(pc[w])
      BY <1>1, NothingFlushing DEF Executing
    <2>3. V[key] = OnAllKeys(accounts)[key]
      BY <1>2, <1>7, <2>2, LoadsHere
    <2> QED
      BY <2>1, <2>3
  <1>9. e = FirstLoads(tx, V, n + 1)
    BY <1>2, <1>3, <1>5, <1>6, <1>8, AppendLoad
  <1>10. PICK l : l = [j.loaded EXCEPT ![i] = e]
    OBVIOUS
  <1>11. l[i] = e /\ l = [x \in M |-> l[x]] /\ \A x \in M : x # i => l[x] = j.loaded[x]
    BY <1>2, <1>10
  <1>12. job' = [job EXCEPT ![w] = WithRunning(j, l, j.outcome)]
    <2>1. job' = [job EXCEPT ![w] = [j EXCEPT !.loaded = l]]
      BY <1>2, <1>6, <1>10, Zenon
    <2> QED
      BY <1>2, <2>1, AssignOne, Zenon
  <1>13. MemberOk(j.outcome[i], l[i], tx, V)
    BY <1>1, <1>7, <1>9, <1>11 DEF MemberOk
  <1> QED
    BY <1>1, <1>2, <1>11, <1>12, <1>13, MemberLedger

LEMMA ExecuteLedger ==
    ASSUME Inv, LedgerInv, NEW w \in Worker, NEW i \in DOMAIN job[w].outcome, Execute(w, i)
    PROVE  LedgerInv' /\ LedgerOf' = LedgerOf
  <1> DEFINE j == job[w]
             M == ToSet(j.admitted)
             V == OnAllKeys(LedgerOf)
             tx == At(j, sent, i)
  <1>1. pc[w] = "execute" /\ j.outcome[i] = "Running" /\ UNCHANGED <<pc, sent, accounts, guard>>
    BY Zenon DEF Execute, lockVars
  <1>2. /\ i \in M /\ j.outcome \in [M -> Outcomes] /\ j.loaded = [x \in M |-> j.loaded[x]]
        /\ Fields(j) /\ job = [v \in Worker |-> job[v]]
        /\ tx \in Tx /\ TxAt(w, i) = tx /\ MemberOk(j.outcome[i], j.loaded[i], tx, V)
    BY <1>1, MemberHere
  <1>3. PICK n \in 0..Len(tx.account_keys) : j.loaded[i] = FirstLoads(tx, V, n)
    BY <1>1, <1>2, Zenon DEF MemberOk
  <1>4. n = Len(tx.account_keys) /\ tx.recent_blockhash \in blockhash_queue
    <2>1. Len(j.loaded[i]) = n
      BY <1>2, <1>3, AppendLoad
    <2> QED
      BY <1>2, <2>1, Zenon DEF Execute
  <1>5. PICK done, r : /\ done = execute_instructions(tx, j.loaded[i])
                       /\ r = IF done.result = "Ok" THEN "Ok" ELSE "ProgramError"
    OBVIOUS
  <1>6. job' = [job EXCEPT ![w].loaded[i] = done.loaded, ![w].outcome[i] = r]
    BY <1>2, <1>5, Zenon DEF Execute
  <1>7. PICK l, o : l = [j.loaded EXCEPT ![i] = done.loaded] /\ o = [j.outcome EXCEPT ![i] = r]
    OBVIOUS
  <1>8. /\ l[i] = done.loaded /\ l = [x \in M |-> l[x]] /\ o[i] = r
        /\ \A x \in M : x # i => l[x] = j.loaded[x] /\ o[x] = j.outcome[x]
    BY <1>2, <1>7
  <1>9. job' = [job EXCEPT ![w] = WithRunning(j, l, o)]
    BY <1>2, <1>6, <1>7, Zenon DEF WithRunning
  <1>10. MemberOk(r, done.loaded, tx, V)
    <2>1. r \in {"Ok", "ProgramError"} /\ (r = "Ok" => done.result = "Ok")
      BY <1>5
    <2>2. done = execute_instructions(tx, FirstLoads(tx, V, Len(tx.account_keys)))
      BY <1>3, <1>4, <1>5, Zenon
    <2> QED
      BY <1>4, <2>1, <2>2 DEF MemberOk
  <1>11. MemberOk(o[i], l[i], tx, V)
    BY <1>8, <1>10, Zenon
  <1> QED
    BY <1>1, <1>8, <1>9, <1>11, MemberLedger

LEMMA RecordLedger ==
    ASSUME Inv, LedgerInv, NEW w \in Worker, Record(w)
    PROVE  LedgerInv' /\ LedgerOf' = LedgerOf
  <1> DEFINE j == job[w]
             V == OnAllKeys(LedgerOf)
             A == OnAllKeys(accounts)
  <1>1. /\ pc[w] = "execute" /\ UNCHANGED <<sent, accounts, guard, job>>
        /\ pc' = [pc EXCEPT ![w] = "collect"]
    BY DEF Record, ExecutionEnded, lockVars
  <1>2. Moves(w, "collect", j)
    BY <1>1, PlaceOnly
  <1>3. /\ GuardOk("execute", j, sent, guard[w]) /\ LoadsOk("execute", j, sent, V)
        /\ FlushingOk("execute", j, sent, guard[w], A)
        /\ ChosenOk("execute", j, Signed(j, sent), Clear(j, sent))
    BY <1>1, HereOk
  <1>4. ChosenOk("collect", j, Signed(j, sent), Clear(j, sent))
    BY <1>3, ChosenSame DEF HasGroup
  <1>5. GuardOk("collect", j, sent, guard[w])
    BY <1>3 DEF GuardOk, Executing
  <1>6. LoadsOk("collect", j, sent, V)
    BY <1>3 DEF LoadsOk, ToCommit, Executing
  <1>7. FlushingOk("collect", j, sent, guard[w], A)
    BY <1>3 DEF FlushingOk
  <1>8. LoopLedgerOk("collect", j, sent, guard'[w], V, A)
    BY <1>1, <1>4, <1>5, <1>6, <1>7 DEF LoopLedgerOk
  <1>9. "collect" \in Places
    BY DEF Places
  <1> QED
    BY <1>1, <1>2, <1>8, <1>9, Quietly

LEMMA CollectResultsLedger ==
    ASSUME Inv, LedgerInv, NEW w \in Worker, CollectResults(w)
    PROVE  LedgerInv' /\ LedgerOf' = LedgerOf
  <1> DEFINE j == job[w]
             M == ToSet(j.admitted)
             V == OnAllKeys(LedgerOf)
             A == OnAllKeys(accounts)
  <1>1. pc[w] = "collect" /\ Fields(j) /\ UNCHANGED <<sent, accounts, guard>>
    BY LoopHere, Zenon DEF CollectResults, lockVars
  <1>2. PICK F : /\ F = {i \in M : j.outcome[i] # "Ok"}
                 /\ Moves(w, "commit", WithOverlays(j, Collected(j, F), Those(j.admitted, M \ F)))
    BY CollectResultsIs, Zenon
  <1>3. PICK r, o : r = Collected(j, F) /\ o = Those(j.admitted, M \ F)
    OBVIOUS
  <1>4. PICK k : k = WithOverlays(j, r, o)
    OBVIOUS
  <1>5. /\ k.batch = j.batch /\ k.groups = j.groups /\ k.overlays = o /\ k.flushing = j.flushing
        /\ k.loaded = j.loaded /\ k.outcome = j.outcome /\ k.admitted = j.admitted
    BY <1>1, <1>4, AssignOverlays, AssignGroupKeeps
  <1>6. /\ GuardOk("collect", j, sent, guard[w]) /\ LoadsOk("collect", j, sent, V)
        /\ FlushingOk("collect", j, sent, guard[w], A)
        /\ ChosenOk("collect", j, Signed(j, sent), Clear(j, sent))
    BY <1>1, HereOk
  <1>7. Signed(k, sent) = Signed(j, sent) /\ Clear(k, sent) = Clear(j, sent)
        /\ \A i : At(k, sent, i) = At(j, sent, i)
    BY <1>5, SameBatchSame
  <1>8. ChosenOk("commit", k, Signed(k, sent), Clear(k, sent))
    <2>1. k.overlays = Those(j.admitted, ToSet(j.admitted) \ F)
      BY <1>3, <1>5, Zenon
    <2> QED
      BY <1>2, <1>5, <1>6, <1>7, <2>1, ChosenCollected, Zenon
  <1>9. GuardOk("commit", k, sent, guard[w])
    BY <1>5, <1>6, <1>7 DEF GuardOk, Executing
  <1>10. LoadsOk("commit", k, sent, V)
    <2>1. \A i \in ToSet(k.overlays) : i \in M
      BY <1>5, <1>8 DEF ChosenOk
    <2>2. j.loaded = [i \in M |-> j.loaded[i]]
      BY <1>6 DEF LoadsOk, Executing
    <2>3. \A i \in M : MemberOk(j.outcome[i], j.loaded[i], At(j, sent, i), V)
      BY <1>6 DEF LoadsOk, ToCommit, Executing
    <2> QED
      BY <1>5, <1>7, <2>1, <2>2, <2>3 DEF LoadsOk, ToCommit
  <1>11. DOMAIN j.flushing = {}
    BY <1>1, NothingFlushing
  <1>12. FlushingOk("commit", k, sent, guard[w], A)
    BY <1>5, <1>11 DEF FlushingOk
  <1>13. LoopLedgerOk("commit", k, sent, guard'[w], V, A)
    BY <1>1, <1>8, <1>9, <1>10, <1>12 DEF LoopLedgerOk
  <1>14. Moves(w, "commit", k) /\ "commit" \in Places
    BY <1>2, <1>3, <1>4, Zenon DEF Places
  <1> QED
    BY <1>1, <1>5, <1>13, <1>14, Quietly

-----------------------------------------------------------------------------
\* Commit, key by key.

\* What is flushed are accounts.
LEMMA FlushKeys ==
    ASSUME NEW p, NEW j, NEW s, NEW g, NEW A, GuardOk(p, j, s, g), FlushingOk(p, j, s, g, A)
    PROVE  DOMAIN j.flushing \subseteq Pubkey
  <1> SUFFICES ASSUME NEW key \in DOMAIN j.flushing PROVE key \in Pubkey
    OBVIOUS
  <1>1. Executing(p)
    BY ExecutingFlusher
  <1>2. PICK i \in ToSet(j.admitted) : key \in KeysOf(At(j, s, i))
    BY ExecutingFlusher, Zenon
  <1>3. At(j, s, i).account_keys \in Seq(Pubkey)
    BY <1>1, BankingConstants DEF GuardOk
  <1> QED
    BY <1>2, <1>3 DEF KeysOf, ToSet

LEMMA FlushAccountLedger ==
    ASSUME Discipline, Inv, LP!Inv, LedgerInv, NEW w \in Worker, NEW key, FlushAccount(w, key)
    PROVE  LedgerInv' /\ LedgerOf' = LedgerOf
  <1> DEFINE j == job[w]
             V == OnAllKeys(LedgerOf)
             A == OnAllKeys(accounts)
  <1>1. /\ Fields(j) /\ job = [v \in Worker |-> job[v]] /\ pc[w] = "commit"
        /\ key \in DOMAIN j.flushing /\ UNCHANGED <<sent, guard>> /\ pc' = pc
        /\ accounts' = Store(accounts, key, j.flushing[key])
    BY LoopHere DEF FlushAccount, lockVars
  <1>2. PICK e : e = [x \in DOMAIN j.flushing \ {key} |-> j.flushing[x]]
    OBVIOUS
  <1>3. PICK k : k = WithFlush(j, j.overlays, e)
    OBVIOUS
  <1>4. Moves(w, "commit", k)
    <2>1. job' = [job EXCEPT ![w] = [j EXCEPT !.flushing = e]]
      BY <1>1, <1>2 DEF FlushAccount
    <2>2. [j EXCEPT !.flushing = e] = k
      BY <1>1, <1>3, AssignOne, Zenon
    <2>3. pc' = [pc EXCEPT ![w] = "commit"]
      BY <1>1, LoopHere
    <2> QED
      BY <2>1, <2>2, <2>3, Zenon DEF Moves
  <1>5. /\ k.batch = j.batch /\ k.groups = j.groups /\ k.overlays = j.overlays /\ k.flushing = e
        /\ k.loaded = j.loaded /\ k.outcome = j.outcome /\ k.admitted = j.admitted
    BY <1>1, <1>3, AssignFlush, AssignGroupKeeps
  <1>6. PICK js : js = job'
    OBVIOUS
  <1>7. js[w] = k /\ \A v \in Worker : v # w => js[v] = job[v]
    BY <1>4, <1>6, MovesOne DEF Inv, Places
  <1>8. /\ DOMAIN js[w].flushing = DOMAIN job[w].flushing \ {key}
        /\ \A x \in DOMAIN js[w].flushing : js[w].flushing[x] = job[w].flushing[x]
    BY <1>2, <1>5, <1>7
  <1>9. IsLedger(LedgerOf, Worker, accounts, job) /\ Agree(Worker, job)
    BY LedgerNow
  <1>10. Agree(Worker, js)
    <2>1. \A v \in Worker : \A x \in DOMAIN js[v].flushing :
             x \in DOMAIN job[v].flushing /\ js[v].flushing[x] = job[v].flushing[x]
      BY <1>7, <1>8
    <2> QED
      BY <1>9, <2>1 DEF Agree
  <1>11. LedgerOf' = LedgerOf
    <2>1. LedgerOf' = LedgerFrom(Worker, accounts', js)
      <3>1. LedgerOf' = LedgerFrom(Worker, accounts', job')
        BY DEF LedgerOf, LedgerFrom
      <3> QED
        BY <1>6, <3>1, Zenon
    <2>2. PICK L, L2 : L = LedgerOf /\ L2 = LedgerFrom(Worker, accounts', js)
      OBVIOUS
    <2>3. IsLedger(L2, Worker, Store(accounts, key, job[w].flushing[key]), js)
      <3>1. IsLedger(LedgerFrom(Worker, accounts', js), Worker, accounts', js)
        BY <1>10, LedgerIs
      <3> QED
        BY <1>1, <2>2, <3>1
    <2>4. IsLedger(L, Worker, accounts, job)
      BY <1>9, <2>2
    <2>5. L2 = L
      BY <1>1, <1>7, <1>8, <2>3, <2>4, LedgerFlushed
    <2> QED
      BY <2>1, <2>2, <2>5
  <1>12. PICK A2 : A2 = OnAllKeys(accounts')
    OBVIOUS
  <1>13. /\ \A x \in Pubkey : x # key => A2[x] = A[x]
         /\ key \in Pubkey => A2[key] = j.flushing[key]
    <2>1. /\ DOMAIN accounts' = DOMAIN accounts \cup {key} /\ accounts'[key] = j.flushing[key]
          /\ \A x \in DOMAIN accounts : x # key => accounts'[x] = accounts[x]
      BY <1>1 DEF Store
    <2> QED
      BY <1>12, <2>1 DEF OnAllKeys, Load
  <1>14. ASSUME NEW v \in Worker
         PROVE  LoopLedgerOk(pc[v], js[v], sent, guard[v], V, A2)
    <2>1. /\ LoopLedgerOk(pc[v], job[v], sent, guard[v], V, A) /\ GuardOk(pc[v], job[v], sent, guard[v])
          /\ FlushingOk(pc[v], job[v], sent, guard[v], A)
          /\ ChosenOk(pc[v], job[v], Signed(job[v], sent), Clear(job[v], sent))
          /\ LoadsOk(pc[v], job[v], sent, V)
      BY HereOk
    <2>2. DOMAIN job[v].flushing \subseteq Pubkey
      BY <2>1, FlushKeys
    <2>3. ASSUME NEW x \in DOMAIN job[v].flushing, x \notin guard[v].write_locks
          PROVE  job[v].flushing[x] = A2[x]
      <3>1. job[v].flushing[x] = A[x] /\ x \in Pubkey
        BY <2>1, <2>2, <2>3 DEF FlushingOk
      <3>2. CASE x # key
        BY <1>13, <3>1, <3>2
      <3>3. CASE x = key
        BY <1>1, <1>9, <1>13, <3>1, <3>3 DEF Agree
      <3> QED
        BY <3>2, <3>3
    <2>4. FlushingOk(pc[v], job[v], sent, guard[v], A2)
      BY <2>1, <2>3 DEF FlushingOk
    <2>5. CASE v # w
      <3>1. LoopLedgerOk(pc[v], job[v], sent, guard[v], V, A2)
        BY <2>1, <2>4, OthersKeep
      <3> QED
        BY <1>7, <2>5, <3>1
    <2>6. CASE v = w
      <3>1. /\ Signed(k, sent) = Signed(j, sent) /\ Clear(k, sent) = Clear(j, sent)
            /\ \A i : At(k, sent, i) = At(j, sent, i)
        BY <1>5, SameBatchSame
      <3>2. ChosenOk("commit", k, Signed(k, sent), Clear(k, sent))
        BY <1>1, <1>5, <2>1, <2>6, <3>1, ChosenFlushed
      <3>3. GuardOk("commit", k, sent, guard[w])
        BY <1>1, <1>5, <2>1, <2>6, <3>1 DEF GuardOk
      <3>4. LoadsOk("commit", k, sent, V)
        BY <1>1, <1>5, <2>1, <2>6, <3>1 DEF LoadsOk, ToCommit
      <3>5. FlushingOk("commit", k, sent, guard[w], A2)
        <4>1. FlushingOk("commit", j, sent, guard[w], A2)
          BY <1>1, <2>4, <2>6
        <4>2. \A x \in DOMAIN k.flushing : x \in DOMAIN j.flushing /\ k.flushing[x] = j.flushing[x]
          BY <1>7, <1>8
        <4> QED
          BY <1>5, <3>1, <4>1, <4>2 DEF FlushingOk
      <3> QED
        BY <1>1, <1>7, <2>6, <3>2, <3>3, <3>4, <3>5 DEF LoopLedgerOk
    <2> QED
      BY <2>5, <2>6
  <1>15. OnAllKeys(LedgerOf)' = V /\ OnAllKeys(accounts)' = A2
    BY <1>11, <1>12 DEF OnAllKeys
  <1>16. LedgerInv'
    BY <1>1, <1>6, <1>14, <1>15 DEF LedgerInv, LoopsLedgerOk
  <1> QED
    BY <1>11, <1>16

-----------------------------------------------------------------------------
\* The commit of one member is the transaction run alone.

\* The overlay of a transaction has an account for each key the transaction lists.
LEMMA OverlayOf ==
    ASSUME NEW tx, tx.account_keys \in Seq(Pubkey), NEW l
    PROVE  /\ DOMAIN overlay_of(tx, l) = KeysOf(tx) /\ KeysOf(tx) \subseteq Pubkey
           /\ \A key \in KeysOf(tx) : \E n \in 1..Len(tx.account_keys) :
                 tx.account_keys[n] = key /\ overlay_of(tx, l)[key] = l[n]
  <1>1. PICK t \in Seq(Pubkey) : t = tx.account_keys
    OBVIOUS
  <1>2. KeysOf(tx) = ToSet(t) /\ ToSet(t) \subseteq Pubkey
    BY <1>1 DEF KeysOf, ToSet
  <1>3. PICK e : e = overlay_of(tx, l)
    OBVIOUS
  <1>4. e = [key \in ToSet(t) |-> l[SelectLastInSeq(t, LAMBDA k : k = key)]]
    BY <1>1, <1>3, Zenon DEF overlay_of
  <1>5. ASSUME NEW key \in ToSet(t)
        PROVE  \E n \in 1..Len(t) : t[n] = key /\ e[key] = l[n]
    <2> DEFINE S == {i \in 1..Len(t) : t[i] = key}
    <2>1. SelectLastInSeq(t, LAMBDA k : k = key) = IF S # {} THEN Max(S) ELSE 0
      BY Zenon DEF SelectLastInSeq
    <2>2. S # {} /\ S \in SUBSET (1..Len(t)) /\ Len(t) \in Nat
      BY <1>5 DEF ToSet
    <2>3. Max(S) \in S
      <3> HIDE DEF S
      <3> QED
        BY <2>2, MaxOfPositions
    <2>4. e[key] = l[Max(S)]
      BY <1>4, <2>1, <2>2, Zenon
    <2> QED
      BY <2>3, <2>4
  <1>6. DOMAIN e = ToSet(t)
    BY <1>4, Zenon
  <1> QED
    BY <1>1, <1>2, <1>3, <1>5, <1>6, Zenon

\* The overlay of a member that ran gives the ledger that running it alone now would give.
LEMMA CommitsAlone ==
    ASSUME Discipline, NEW tx \in Tx, NEW L, NEW l, MemberOk("Ok", l, tx, OnAllKeys(L))
    PROVE  LET e == overlay_of(tx, l)
           IN  /\ tx.recent_blockhash \in blockhash_queue
               /\ RunAlone(tx, L).result = "Ok"
               /\ RunAlone(tx, L).store = Over(L, e)
               /\ \A key \in KeysOf(tx) : key \notin Writes(tx) => e[key] = OnAllKeys(L)[key]
  <1>1. PICK t \in Seq(Pubkey) : t = tx.account_keys
    BY BankingConstants
  <1>2. PICK V : V = OnAllKeys(L)
    OBVIOUS
  <1>3. PICK F : F = FirstLoads(tx, V, Len(t))
    OBVIOUS
  <1>4. F = [m \in 1..Len(t) |-> V[t[m]]]
    BY <1>1, <1>3, Zenon DEF FirstLoads
  <1>5. F = [i \in DOMAIN t |-> Load(L, t[i])]
    <2>1. DOMAIN t = 1..Len(t) /\ \A m \in 1..Len(t) : t[m] \in Pubkey
      OBVIOUS
    <2>2. \A m \in 1..Len(t) : V[t[m]] = Load(L, t[m])
      BY <1>2, <2>1 DEF OnAllKeys
    <2> QED
      BY <1>4, <2>1, <2>2, Zenon
  <1>6. PICK done : done = execute_instructions(tx, F)
    OBVIOUS
  <1>7. tx.recent_blockhash \in blockhash_queue /\ done.result = "Ok" /\ done.loaded = l
    BY <1>1, <1>2, <1>3, <1>6, Zenon DEF MemberOk
  <1>8. PICK e : e = overlay_of(tx, l)
    OBVIOUS
  <1>9. RunAlone(tx, L).result = "Ok" /\ RunAlone(tx, L).store = Over(L, e)
    <2>1. F = [i \in DOMAIN tx.account_keys |-> Load(L, tx.account_keys[i])]
      BY <1>1, <1>5, Zenon
    <2>2. overlay_of(tx, done.loaded) = e
      BY <1>7, <1>8, Zenon
    <2>3. PICK st : st = Over(L, e)
      OBVIOUS
    <2>4. RunAlone(tx, L) = [result |-> done.result, store |-> st]
      BY <1>6, <2>1, <2>2, <2>3, Zenon DEF RunAlone, Over
    <2>5. RunAlone(tx, L).result = done.result /\ RunAlone(tx, L).store = st
      BY <2>4
    <2> QED
      BY <1>7, <2>3, <2>5
  <1>10. ASSUME NEW key \in KeysOf(tx), key \notin Writes(tx) PROVE e[key] = V[key]
    <2>1. PICK n \in 1..Len(t) : t[n] = key /\ e[key] = l[n]
      <3>1. tx.account_keys \in Seq(Pubkey)
        BY <1>1
      <3>2. \E n \in 1..Len(tx.account_keys) :
               tx.account_keys[n] = key /\ overlay_of(tx, l)[key] = l[n]
        BY <1>10, <3>1, OverlayOf
      <3> QED
        BY <1>1, <1>8, <3>2, Zenon
    <2>2. ChangesOnlyWritable(tx, F)
      BY <1>1, <1>3, Zenon DEF Discipline
    <2>3. l[n] = F[n]
      BY <1>1, <1>6, <1>7, <1>10, <2>1, <2>2 DEF ChangesOnlyWritable, Writes
    <2> QED
      BY <1>4, <2>1, <2>3
  <1> QED
    BY <1>2, <1>7, <1>8, <1>9, <1>10, Zenon

\* A member and what another group's members load.
LEMMA OthersUnwritten ==
    ASSUME Discipline, NEW W, NEW ps, NEW js, NEW s, NEW gs, NEW V, NEW A,
           Exclusive(W, gs), LoopsLedgerOk(W, ps, js, s, gs, V, A),
           NEW w \in W, Executing(ps[w]), NEW i \in ToSet(js[w].admitted),
           NEW v \in W, v # w, Executing(ps[v]), NEW n \in ToSet(js[v].admitted),
           NEW key \in KeysOf(At(js[v], s, n))
    PROVE  key \notin Writes(At(js[w], s, i))
  <1>1. GuardOk(ps[v], js[v], s, gs[v]) /\ GuardOk(ps[w], js[w], s, gs[w])
    BY Zenon DEF LoopsLedgerOk, LoopLedgerOk
  <1>2. gs[w].write_locks \cap (gs[v].write_locks \cup gs[v].read_locks) = {}
    BY Zenon DEF Exclusive
  <1>3. \A x \in gs[w].write_locks : x \notin KeysOf(At(js[v], s, n))
    BY <1>1, <1>2, KeptAway, Zenon
  <1>4. Writes(At(js[w], s, i)) \subseteq gs[w].write_locks
    BY <1>1 DEF GuardOk
  <1> QED
    BY <1>3, <1>4

\* The overlay e of member i is about to be flushed, and gives the accounts that its
\* transaction does not write back as they are.
Begins(W, js, s, L, w, i, e) ==
    LET tx == At(js[w], s, i)
    IN  /\ i \in ToSet(js[w].admitted) /\ tx \in Tx
        /\ DOMAIN js[w].flushing = {}
        /\ DOMAIN e = KeysOf(tx) /\ DOMAIN e \subseteq Pubkey
        /\ \A key \in DOMAIN e : key \notin Writes(tx) => e[key] = OnAllKeys(L)[key]

\* The flush that begins agrees with those that are underway.
LEMMA BegunAgree ==
    ASSUME Discipline, NEW W, NEW ps, NEW js, NEW s, NEW gs, NEW acc, NEW L, IsLedger(L, W, acc, js),
           Exclusive(W, gs), LoopsLedgerOk(W, ps, js, s, gs, OnAllKeys(L), OnAllKeys(acc)),
           Agree(W, js),
           NEW w \in W, Executing(ps[w]), NEW i, NEW e, Begins(W, js, s, L, w, i, e),
           NEW js2, \A v \in W : v # w => js2[v] = js[v], js2[w].flushing = e
    PROVE  Agree(W, js2)
  <1>1. /\ i \in ToSet(js[w].admitted) /\ DOMAIN e \subseteq Pubkey
        /\ \A key \in DOMAIN e : key \notin Writes(At(js[w], s, i)) => e[key] = OnAllKeys(L)[key]
    BY Zenon DEF Begins
  <1>2. ASSUME NEW v \in W, v # w, NEW key \in DOMAIN e, key \in DOMAIN js[v].flushing
        PROVE  e[key] = js[v].flushing[key]
    <2>1. FlushingOk(ps[v], js[v], s, gs[v], OnAllKeys(acc))
      BY Zenon DEF LoopsLedgerOk, LoopLedgerOk
    <2>2. Executing(ps[v])
      BY <1>2, <2>1, ExecutingFlusher
    <2>3. PICK n \in ToSet(js[v].admitted) : key \in KeysOf(At(js[v], s, n))
      BY <1>2, <2>1, ExecutingFlusher, Zenon
    <2>4. key \notin Writes(At(js[w], s, i))
      BY <1>1, <1>2, <2>2, <2>3, OthersUnwritten, Zenon
    <2>5. e[key] = OnAllKeys(L)[key] /\ key \in Pubkey
      BY <1>1, <1>2, <2>4
    <2>6. OnAllKeys(L)[key] = js[v].flushing[key]
      BY <1>2, <2>5, ViewOf
    <2> QED
      BY <2>5, <2>6
  <1> SUFFICES ASSUME NEW u \in W, NEW v \in W, NEW key \in DOMAIN js2[u].flushing,
                      key \in DOMAIN js2[v].flushing
               PROVE  js2[u].flushing[key] = js2[v].flushing[key]
    BY Zenon DEF Agree
  <1>3. CASE u = w /\ v # w
    BY <1>2, <1>3
  <1>4. CASE v = w /\ u # w
    BY <1>2, <1>4
  <1>5. CASE u # w /\ v # w
    BY <1>5 DEF Agree
  <1> QED
    BY <1>3, <1>4, <1>5

\* It changes the ledger only where its own transaction writes.
LEMMA BegunView ==
    ASSUME NEW W, NEW js, NEW s, NEW L, NEW w, NEW i, NEW e, Begins(W, js, s, L, w, i, e),
           NEW key \in Pubkey, key \notin Writes(At(js[w], s, i))
    PROVE  OnAllKeys(Over(L, e))[key] = OnAllKeys(L)[key]
  <1>1. PICK L2 : L2 = Over(L, e)
    OBVIOUS
  <1>2. /\ DOMAIN L2 = DOMAIN L \cup DOMAIN e
        /\ \A x \in DOMAIN e : L2[x] = e[x]
        /\ \A x \in DOMAIN L : x \notin DOMAIN e => L2[x] = L[x]
    BY <1>1 DEF Over
  <1>3. OnAllKeys(L2)[key] = Load(L2, key) /\ OnAllKeys(L)[key] = Load(L, key)
    BY DEF OnAllKeys
  <1>4. key \in DOMAIN e => e[key] = Load(L, key)
    BY <1>3 DEF Begins
  <1>5. Load(L2, key) = Load(L, key)
    BY <1>2, <1>4 DEF Load
  <1> QED
    BY <1>1, <1>3, <1>5, Zenon

\* No member of another loop's group lists such a key: locks and Discipline see to it.
LEMMA BegunOthers ==
    ASSUME Discipline, NEW W, NEW ps, NEW js, NEW s, NEW gs, NEW L, NEW A,
           Exclusive(W, gs), LoopsLedgerOk(W, ps, js, s, gs, OnAllKeys(L), A),
           NEW w \in W, Executing(ps[w]), NEW i, NEW e, Begins(W, js, s, L, w, i, e),
           NEW V2, \A key \in Pubkey : key \notin Writes(At(js[w], s, i)) => V2[key] = OnAllKeys(L)[key],
           NEW v \in W, v # w
    PROVE  LoopLedgerOk(ps[v], js[v], s, gs[v], V2, A)
  <1>1. /\ LoopLedgerOk(ps[v], js[v], s, gs[v], OnAllKeys(L), A)
        /\ GuardOk(ps[v], js[v], s, gs[v]) /\ FlushingOk(ps[v], js[v], s, gs[v], A)
    BY Zenon DEF LoopsLedgerOk, LoopLedgerOk
  <1>2. i \in ToSet(js[w].admitted)
    BY Zenon DEF Begins
  <1>3. ASSUME NEW n \in ToSet(js[v].admitted), NEW key \in KeysOf(At(js[v], s, n)), Executing(ps[v])
        PROVE  V2[key] = OnAllKeys(L)[key]
    <2>1. key \notin Writes(At(js[w], s, i))
      BY <1>2, <1>3, OthersUnwritten, Zenon
    <2>2. At(js[v], s, n).account_keys \in Seq(Pubkey)
      BY <1>1, <1>3, BankingConstants DEF GuardOk
    <2>3. key \in Pubkey
      BY <1>3, <2>2 DEF KeysOf, ToSet
    <2> QED
      BY <2>1, <2>3
  <1> QED
    BY <1>1, <1>3, OthersKeep, Zenon

\* Nor does a later member of the same group: that is what the schedule is for.
LEMMA BegunOwn ==
    ASSUME Discipline, NEW j, NEW s, NEW g, NEW V, NEW A, LoopLedgerOk("commit", j, s, g, V, A),
           j.overlays # <<>>, NEW tx, tx = At(j, s, Head(j.overlays)),
           NEW V2, \A key \in Pubkey : key \notin Writes(tx) => V2[key] = V[key],
           NEW e, DOMAIN e = KeysOf(tx), DOMAIN e \subseteq Pubkey,
           \A key \in DOMAIN e : key \notin Writes(tx) => e[key] = A[key],
           NEW k, k.batch = j.batch, k.groups = j.groups, k.admitted = j.admitted,
           k.loaded = j.loaded, k.outcome = j.outcome,
           k.overlays = Tail(j.overlays), k.flushing = e
    PROVE  LoopLedgerOk("commit", k, s, g, V2, A)
  <1> DEFINE R == Clear(j, s)
  <1>1. /\ ChosenOk("commit", j, Signed(j, s), R) /\ GuardOk("commit", j, s, g)
        /\ LoadsOk("commit", j, s, V)
    BY Zenon DEF LoopLedgerOk
  <1>2. /\ Signed(k, s) = Signed(j, s) /\ Clear(k, s) = R
        /\ \A i : At(k, s, i) = At(j, s, i)
    BY SameBatchSame
  <1>3. PICK h : h = Head(j.overlays)
    OBVIOUS
  <1>4. /\ h \in Signed(j, s) /\ Ordered(k.overlays, R) /\ k.overlays \in Seq(Signed(j, s))
        /\ \A x \in ToSet(k.overlays) : <<h, x>> \in R
    <2>1. PICK o, S : o = j.overlays /\ S = Signed(j, s)
      OBVIOUS
    <2>2. o \in Seq(S) /\ o # <<>> /\ Ordered(o, R)
      BY <1>1, <2>1, Zenon DEF ChosenOk
    <2> HIDE DEF R
    <2>3. Head(o) \in S /\ Tail(o) \in Seq(S) /\ Ordered(Tail(o), R) /\ \A x \in ToSet(Tail(o)) : <<Head(o), x>> \in R
      BY <2>2, OrderedTail
    <2> QED
      BY <1>3, <2>1, <2>3, Zenon
  <1>5. /\ h \in ToSet(j.admitted) /\ \A x \in ToSet(k.overlays) : x \in ToSet(j.overlays)
        /\ \A x \in ToSet(j.overlays) : x \in ToSet(j.admitted)
    <2>1. PICK o, S : o = j.overlays /\ S = Signed(j, s)
      OBVIOUS
    <2>2. o \in Seq(S) /\ o # <<>> /\ \A x \in ToSet(o) : x \in ToSet(j.admitted)
      BY <1>1, <2>1, Zenon DEF ChosenOk
    <2>3. /\ Head(o) = o[1] /\ 1 \in DOMAIN o
          /\ \A n \in DOMAIN Tail(o) : n + 1 \in DOMAIN o /\ Tail(o)[n] = o[n + 1]
      BY <2>2, HeadTailProperties
    <2>4. Head(o) \in ToSet(o) /\ \A x \in ToSet(Tail(o)) : x \in ToSet(o)
      BY <2>3 DEF ToSet
    <2> QED
      BY <1>3, <2>1, <2>2, <2>4
  <1>6. ChosenOk("commit", k, Signed(k, s), Clear(k, s))
    <2>1. ChosenOk("commit", k, Signed(j, s), R)
      <3> HIDE DEF R
      <3> QED
        BY <1>1, ChosenFlushed
    <2> QED
      BY <1>2, <2>1, Zenon
  <1>7. GuardOk("commit", k, s, g)
    BY <1>1, <1>2 DEF GuardOk
  <1>8. At(j, s, h) = tx /\ tx \in Tx /\ Writes(tx) \subseteq g.write_locks
    BY <1>1, <1>3, <1>5 DEF GuardOk, Executing
  <1>9. ASSUME NEW i \in ToSet(k.overlays)
        PROVE  MemberOk(k.outcome[i], k.loaded[i], At(k, s, i), V2)
    <2>1. PICK t2 : t2 = At(j, s, i)
      OBVIOUS
    <2>2. t2 \in Tx
      BY <1>1, <1>5, <1>9, <2>1 DEF GuardOk, Executing
    <2>3. t2.account_keys \in Seq(Pubkey)
      BY <2>2, BankingConstants
    <2>4. Writes(tx) \cap Names(t2) = {}
      BY <1>4, <1>8, <1>9, <2>1 DEF Clear
    <2>5. UnnamedKeys(t2) \cap Writes(tx) = {}
      BY <1>8, <2>2, Zenon DEF Discipline, UnnamedKeysUnwritten, Writes
    <2>6. ASSUME NEW key \in KeysOf(t2) PROVE V2[key] = V[key]
      <3>1. key \in Names(t2) \/ key \in UnnamedKeys(t2)
        BY <2>6, KeysKnown, Zenon
      <3>2. key \notin Writes(tx)
        BY <2>4, <2>5, <3>1
      <3>3. key \in Pubkey
        BY <2>3, <2>6 DEF KeysOf, ToSet
      <3> QED
        BY <3>2, <3>3
    <2>7. MemberOk(j.outcome[i], j.loaded[i], t2, V)
      BY <1>1, <1>5, <1>9, <2>1 DEF LoadsOk, ToCommit, Executing
    <2>8. MemberOk(j.outcome[i], j.loaded[i], t2, V2)
      BY <2>3, <2>6, <2>7, MemberSame
    <2> QED
      BY <1>2, <2>1, <2>8, Zenon
  <1>10. LoadsOk("commit", k, s, V2)
    BY <1>1, <1>9 DEF LoadsOk, ToCommit, Executing
  <1>11. FlushingOk("commit", k, s, g, A)
    <2> SUFFICES ASSUME NEW key \in DOMAIN e
                 PROVE  /\ \E i \in ToSet(k.admitted) : key \in KeysOf(At(k, s, i))
                        /\ key \notin g.write_locks => e[key] = A[key]
      BY DEF FlushingOk
    <2>1. key \in KeysOf(At(k, s, h)) /\ h \in ToSet(k.admitted)
      BY <1>2, <1>5, <1>8
    <2> QED
      BY <1>8, <2>1
  <1> QED
    BY <1>6, <1>7, <1>10, <1>11, Zenon DEF LoopLedgerOk

LEMMA BeginFlushLedger ==
    ASSUME Discipline, Inv, LP!Inv, LedgerInv, NEW w \in Worker, BeginFlush(w)
    PROVE  LET id == job[w].batch[Head(job[w].overlays)]
           IN  /\ LedgerInv'
               /\ verify_signatures_sync(sent[id]) /\ sent[id].recent_blockhash \in blockhash_queue
               /\ RunAlone(sent[id], LedgerOf).result = "Ok"
               /\ LedgerOf' = RunAlone(sent[id], LedgerOf).store
  <1> DEFINE j == job[w]
             A == OnAllKeys(accounts)
  <1>1. /\ Fields(j) /\ job = [v \in Worker |-> job[v]] /\ pc[w] = "commit" /\ Executing(pc[w])
        /\ j.overlays # <<>> /\ DOMAIN j.flushing = {} /\ UNCHANGED <<sent, guard, accounts>> /\ pc' = pc
    BY LoopHere DEF BeginFlush, lockVars, Executing
  <1>2. PICK i : i = Head(j.overlays)
    OBVIOUS
  <1>3. PICK tx : tx = At(j, sent, i)
    OBVIOUS
  <1>4. tx = TxAt(w, i) /\ tx = sent[j.batch[i]]
    BY <1>3 DEF At, TxAt
  <1>5. /\ i \in Signed(j, sent) /\ i \in ToSet(j.overlays) /\ i \in ToSet(j.admitted)
        /\ j.outcome[i] = "Ok"
    <2>1. ChosenOk("commit", j, Signed(j, sent), Clear(j, sent))
      BY <1>1, HereOk
    <2>2. PICK o, S : o = j.overlays /\ S = Signed(j, sent)
      OBVIOUS
    <2>3. o \in Seq(S) /\ o # <<>> /\ \A x \in ToSet(o) : x \in ToSet(j.admitted) /\ j.outcome[x] = "Ok"
      BY <1>1, <2>1, <2>2, Zenon DEF ChosenOk
    <2>4. Head(o) = o[1] /\ 1 \in DOMAIN o /\ o[1] \in S
      BY <2>3
    <2>5. Head(o) \in ToSet(o) /\ Head(o) \in S
      BY <2>4 DEF ToSet
    <2> QED
      BY <1>2, <2>2, <2>3, <2>5
  <1>6. tx \in Tx /\ verify_signatures_sync(tx)
    <2>1. GuardOk("commit", j, sent, guard[w])
      BY <1>1, HereOk
    <2> QED
      BY <1>3, <1>5, <2>1 DEF GuardOk, Executing, Signed
  <1>7. PICK L : L = LedgerOf
    OBVIOUS
  <1>8. PICK l : l = j.loaded[i]
    OBVIOUS
  <1>9. MemberOk("Ok", l, tx, OnAllKeys(L))
    <2>1. LoadsOk("commit", j, sent, OnAllKeys(LedgerOf))
      BY <1>1, HereOk
    <2>2. \A x \in ToSet(j.overlays) : MemberOk(j.outcome[x], j.loaded[x], At(j, sent, x), OnAllKeys(LedgerOf))
      BY <2>1 DEF LoadsOk, ToCommit, Executing
    <2> QED
      BY <1>3, <1>5, <1>7, <1>8, <2>2, Zenon
  <1>10. PICK e : e = overlay_of(tx, l)
    OBVIOUS
  <1>11. PICK L3 : L3 = Over(L, e)
    OBVIOUS
  <1>12. /\ tx.recent_blockhash \in blockhash_queue /\ RunAlone(tx, L).result = "Ok"
         /\ RunAlone(tx, L).store = L3
         /\ \A key \in KeysOf(tx) : key \notin Writes(tx) => e[key] = OnAllKeys(L)[key]
    <2> HIDE DEF j, A
    <2>1. /\ tx.recent_blockhash \in blockhash_queue /\ RunAlone(tx, L).result = "Ok"
          /\ RunAlone(tx, L).store = Over(L, overlay_of(tx, l))
          /\ \A key \in KeysOf(tx) : key \notin Writes(tx) => overlay_of(tx, l)[key] = OnAllKeys(L)[key]
      BY <1>6, <1>9, CommitsAlone
    <2> QED
      BY <1>10, <1>11, <2>1, Zenon
  <1>13. DOMAIN e = KeysOf(tx) /\ DOMAIN e \subseteq Pubkey
    <2>1. tx.account_keys \in Seq(Pubkey)
      BY <1>6, BankingConstants
    <2>2. DOMAIN overlay_of(tx, l) = KeysOf(tx) /\ KeysOf(tx) \subseteq Pubkey
      BY <2>1, OverlayOf, Zenon
    <2> QED
      BY <1>10, <2>2
  <1>14. Begins(Worker, job, sent, L, w, i, e)
    BY <1>1, <1>3, <1>5, <1>6, <1>12, <1>13, Zenon DEF Begins
  <1>15. PICK k : k = WithFlush(j, Tail(j.overlays), e)
    OBVIOUS
  <1>16. Moves(w, "commit", k)
    <2>1. job' = [job EXCEPT ![w] = k]
      BY <1>1, <1>2, <1>4, <1>8, <1>10, <1>15, Zenon DEF BeginFlush, WithFlush
    <2>2. pc' = [pc EXCEPT ![w] = "commit"]
      BY <1>1, LoopHere
    <2> QED
      BY <2>1, <2>2, Zenon DEF Moves
  <1>17. /\ k.batch = j.batch /\ k.groups = j.groups /\ k.overlays = Tail(j.overlays) /\ k.flushing = e
         /\ k.loaded = j.loaded /\ k.outcome = j.outcome /\ k.admitted = j.admitted
    BY <1>1, <1>15, AssignFlush, AssignGroupKeeps
  <1>18. PICK js : js = job'
    OBVIOUS
  <1>19. js[w] = k /\ js[w].flushing = e /\ \A v \in Worker : v # w => js[v] = job[v]
    BY <1>16, <1>17, <1>18, MovesOne DEF Inv, Places
  <1>20. /\ IsLedger(L, Worker, accounts, job) /\ Agree(Worker, job) /\ Exclusive(Worker, guard)
         /\ LoopsLedgerOk(Worker, pc, job, sent, guard, OnAllKeys(L), A)
    BY <1>7, LedgerNow, Zenon DEF LedgerInv
  <1>21. Agree(Worker, js)
    BY <1>1, <1>14, <1>19, <1>20, BegunAgree
  <1>22. LedgerOf' = L3
    <2>1. LedgerOf' = LedgerFrom(Worker, accounts', job')
      BY DEF LedgerOf, LedgerFrom
    <2>2. PICK L2 : L2 = LedgerFrom(Worker, accounts, js)
      OBVIOUS
    <2>3. IsLedger(L2, Worker, accounts, js)
      BY <1>21, <2>2, LedgerIs, Zenon
    <2>4. L2 = Over(L, e)
      <3>1. DOMAIN job[w].flushing = {} /\ IsLedger(L, Worker, accounts, job)
        BY <1>1, <1>20
      <3>2. js[w].flushing = e /\ \A v \in Worker : v # w => js[v] = job[v]
        BY <1>19
      <3> HIDE DEF j, A
      <3> QED
        BY <2>3, <3>1, <3>2, LedgerBegun
    <2> QED
      BY <1>1, <1>11, <1>18, <2>1, <2>2, <2>4, Zenon
  <1>23. PICK V2 : V2 = OnAllKeys(L3)
    OBVIOUS
  <1>24. \A key \in Pubkey : key \notin Writes(At(job[w], sent, i)) => V2[key] = OnAllKeys(L)[key]
    <2> SUFFICES ASSUME NEW key \in Pubkey, key \notin Writes(At(job[w], sent, i))
                 PROVE  V2[key] = OnAllKeys(L)[key]
      OBVIOUS
    <2> HIDE DEF j, A
    <2>1. OnAllKeys(Over(L, e))[key] = OnAllKeys(L)[key]
      BY <1>14, BegunView
    <2> QED
      BY <1>11, <1>23, <2>1, Zenon
  <1>25. ASSUME NEW v \in Worker
         PROVE  LoopLedgerOk(pc[v], js[v], sent, guard[v], V2, A)
    <2>1. CASE v # w
      <3>1. LoopLedgerOk(pc[v], job[v], sent, guard[v], V2, A)
        <4> HIDE DEF j, A
        <4> QED
          BY <1>1, <1>14, <1>20, <1>24, <2>1, BegunOthers
      <3> QED
        BY <1>19, <2>1, <3>1
    <2>2. CASE v = w
      <3>1. LoopLedgerOk("commit", j, sent, guard[w], OnAllKeys(L), A)
        BY <1>1, <1>7, HereOk, Zenon
      <3>2. \A key \in DOMAIN e : key \notin Writes(tx) => e[key] = A[key]
        <4> SUFFICES ASSUME NEW key \in DOMAIN e, key \notin Writes(tx) PROVE e[key] = A[key]
          OBVIOUS
        <4>1. key \in Pubkey /\ key \in KeysOf(At(job[w], sent, i))
          BY <1>3, <1>13
        <4>2. OnAllKeys(LedgerOf)[key] = OnAllKeys(accounts)[key]
          BY <1>1, <1>5, <4>1, LoadsHere
        <4> QED
          BY <1>7, <1>12, <1>13, <4>2
      <3>3. LoopLedgerOk("commit", k, sent, guard[w], V2, A)
        <4>1. PICK V : V = OnAllKeys(L)
          OBVIOUS
        <4>2. LoopLedgerOk("commit", j, sent, guard[w], V, A) /\ \A key \in Pubkey : key \notin Writes(tx) => V2[key] = V[key]
          BY <1>3, <1>24, <3>1, <4>1, Zenon
        <4>3. tx = At(j, sent, Head(j.overlays)) /\ j.overlays # <<>>
          BY <1>1, <1>2, <1>3, Zenon
        <4> HIDE DEF A, j
        <4> QED
          BY <1>13, <1>17, <3>2, <4>2, <4>3, BegunOwn
      <3> QED
        BY <1>1, <1>19, <2>2, <3>3
    <2> QED
      BY <2>1, <2>2
  <1>26. OnAllKeys(LedgerOf)' = V2 /\ OnAllKeys(accounts)' = A
    BY <1>1, <1>22, <1>23 DEF OnAllKeys
  <1>27. LedgerInv'
    BY <1>1, <1>18, <1>25, <1>26 DEF LedgerInv, LoopsLedgerOk
  <1> QED
    BY <1>2, <1>4, <1>6, <1>7, <1>12, <1>22, <1>27, Zenon

-----------------------------------------------------------------------------
\* The rest of the node.

\* A transaction more in the queue is nothing to a loop with a batch.
LEMMA SentMore ==
    ASSUME NEW p, NEW j, NEW s, NEW s2, NEW g, NEW V, NEW A, LoopLedgerOk(p, j, s, g, V, A),
           \A i \in DOMAIN j.batch : s2[j.batch[i]] = s[j.batch[i]]
    PROVE  LoopLedgerOk(p, j, s2, g, V, A)
  <1>1. /\ ChosenOk(p, j, Signed(j, s), Clear(j, s)) /\ GuardOk(p, j, s, g)
        /\ LoadsOk(p, j, s, V) /\ FlushingOk(p, j, s, g, A)
    BY Zenon DEF LoopLedgerOk
  <1>2. \A i \in DOMAIN j.batch : At(j, s2, i) = At(j, s, i)
    BY DEF At
  <1>3. Signed(j, s2) = Signed(j, s) /\ Clear(j, s2) = Clear(j, s)
    <2>1. Signed(j, s2) = Signed(j, s)
      BY <1>2, Zenon DEF Signed
    <2>2. \A q \in (DOMAIN j.batch) \X (DOMAIN j.batch) :
             q[1] \in DOMAIN j.batch /\ q[2] \in DOMAIN j.batch
      OBVIOUS
    <2>3. Clear(j, s2) = Clear(j, s)
      BY <1>2, <2>2, Zenon DEF Clear
    <2> QED
      BY <2>1, <2>3
  <1>4. ChosenOk(p, j, Signed(j, s2), Clear(j, s2))
    BY <1>1, <1>3, Zenon
  <1>5. Executing(p) => /\ ToSet(j.admitted) \subseteq DOMAIN j.batch
                        /\ ToCommit(p, j) \subseteq ToSet(j.admitted)
    <2> SUFFICES ASSUME Executing(p)
                 PROVE  /\ ToSet(j.admitted) \subseteq DOMAIN j.batch
                        /\ ToCommit(p, j) \subseteq ToSet(j.admitted)
      OBVIOUS
    <2>1. PICK S, a : S = Signed(j, s) /\ a = j.admitted
      OBVIOUS
    <2>2. S \subseteq DOMAIN j.batch
      BY <2>1 DEF Signed
    <2>3. HasGroup(p) \/ p = "commit"
      BY DEF Executing, HasGroup
    <2>4. a \in Seq(S)
      BY <1>1, <2>1, <2>3, Zenon DEF ChosenOk
    <2>5. ToSet(a) \subseteq S
      BY <2>4 DEF ToSet
    <2>6. ToCommit(p, j) \subseteq ToSet(j.admitted)
      BY <1>1 DEF ToCommit, ChosenOk
    <2> QED
      BY <2>1, <2>2, <2>5, <2>6
  <1>6. GuardOk(p, j, s2, g)
    <2> SUFFICES ASSUME Executing(p)
                 PROVE  /\ \A i \in ToSet(j.admitted) :
                              /\ At(j, s2, i) \in Tx
                              /\ Writes(At(j, s2, i)) \subseteq g.write_locks
                              /\ Names(At(j, s2, i)) \subseteq g.write_locks \cup g.read_locks
                        /\ \A key \in g.write_locks :
                              \E i \in ToSet(j.admitted) : key \in Writes(At(j, s2, i))
      BY Zenon DEF GuardOk
    <2>1. \A i \in ToSet(j.admitted) : At(j, s2, i) = At(j, s, i)
      BY <1>2, <1>5
    <2> QED
      BY <1>1, <2>1, Zenon DEF GuardOk
  <1>7. LoadsOk(p, j, s2, V)
    <2>1. Executing(p) => \A i \in ToCommit(p, j) : At(j, s2, i) = At(j, s, i)
      BY <1>2, <1>5
    <2> QED
      BY <1>1, <2>1, Zenon DEF LoadsOk
  <1>8. FlushingOk(p, j, s2, g, A)
    <2>1. CASE p # "commit"
      BY <1>1, <2>1 DEF FlushingOk
    <2>2. CASE p = "commit"
      <3>1. \A i \in ToSet(j.admitted) : At(j, s2, i) = At(j, s, i)
        BY <1>2, <1>5, <2>2 DEF Executing
      <3> QED
        BY <1>1, <3>1, Zenon DEF FlushingOk
    <2> QED
      BY <2>1, <2>2
  <1> QED
    BY <1>4, <1>6, <1>7, <1>8, Zenon DEF LoopLedgerOk

\* Steps of the clients and of main, which move no loop.
LEMMA NoLoopMoves ==
    ASSUME LedgerInv, UNCHANGED <<accounts, job, pc, guard>>,
           \A w \in Worker : \A i \in DOMAIN job[w].batch : sent'[job[w].batch[i]] = sent[job[w].batch[i]]
    PROVE  LedgerInv' /\ LedgerOf' = LedgerOf
  <1>1. LedgerOf' = LedgerOf
    BY DEF LedgerOf
  <1>2. PICK s2 : s2 = sent'
    OBVIOUS
  <1>3. \A w \in Worker : LoopLedgerOk(pc[w], job[w], s2, guard[w], OnAllKeys(LedgerOf), OnAllKeys(accounts))
    BY <1>2, HereOk, SentMore
  <1>4. OnAllKeys(LedgerOf)' = OnAllKeys(LedgerOf) /\ OnAllKeys(accounts)' = OnAllKeys(accounts)
    BY <1>1 DEF OnAllKeys
  <1>5. LedgerInv'
    BY <1>2, <1>3, <1>4 DEF LedgerInv, LoopsLedgerOk
  <1> QED
    BY <1>1, <1>5

LEMMA SendTransactionLedger ==
    ASSUME Inv, LedgerInv, NEW tx \in Tx, SendTransaction(tx)
    PROVE  LedgerInv' /\ LedgerOf' = LedgerOf
  <1>1. sent' = Append(sent, tx) /\ UNCHANGED <<accounts, job, pc, guard>>
    BY DEF SendTransaction, lockVars
  <1>2. sent \in Seq(Tx) /\ DOMAIN fate = 1..Len(sent)
    BY LengthType DEF Inv, Shape
  <1>3. \A n \in 1..Len(sent) : sent'[n] = sent[n]
    BY <1>1, <1>2
  <1>4. ASSUME NEW w \in Worker, NEW i \in DOMAIN job[w].batch PROVE job[w].batch[i] \in 1..Len(sent)
    <2>1. job[w].batch \in Seq(DOMAIN fate)
      BY LoopHere DEF LoopOk, BatchOk
    <2> QED
      BY <1>2, <2>1
  <1> QED
    BY <1>1, <1>3, <1>4, NoLoopMoves

-----------------------------------------------------------------------------
\* The fates.

PendingOf(f) == {id \in DOMAIN f : f[id] = "Pending"}

\* What settling does to the set of pending transactions.
LEMMA SettleIds ==
    ASSUME NEW ids, NEW how, how # "Pending", NEW f, f = Settle(ids, how)
    PROVE  DOMAIN f = DOMAIN fate /\ PendingOf(f) = PendingOf(fate) \ ids
  <1>1. f = [id \in DOMAIN fate |-> IF id \in ids THEN how ELSE fate[id]]
    BY Zenon DEF Settle
  <1>2. DOMAIN f = DOMAIN fate /\ \A id \in DOMAIN fate : f[id] = IF id \in ids THEN how ELSE fate[id]
    BY <1>1
  <1> QED
    BY <1>2 DEF PendingOf

LEMMA CollectedIds ==
    ASSUME NEW j, NEW f, NEW F, NEW f2, f2 = FatesCollected(j, f, F, F),
           \A i \in F : j.outcome[i] # "Pending"
    PROVE  PendingOf(f2) \subseteq PendingOf(f)
  <1>1. /\ DOMAIN f2 = DOMAIN f
        /\ \A id \in DOMAIN f : f2[id] = IF \E i \in F : j.batch[i] = id
                                        THEN j.outcome[CHOOSE i \in F : j.batch[i] = id] ELSE f[id]
    BY DEF FatesCollected
  <1>2. ASSUME NEW id \in DOMAIN f, f2[id] = "Pending" PROVE f[id] = "Pending"
    <2>1. CASE \E i \in F : j.batch[i] = id
      <3>1. PICK c : c = CHOOSE i \in F : j.batch[i] = id
        OBVIOUS
      <3>2. c \in F
        BY <2>1, <3>1
      <3>3. f2[id] = j.outcome[c]
        BY <1>1, <1>2, <2>1, <3>1, Zenon
      <3> QED
        BY <1>2, <3>2, <3>3
    <2>2. CASE ~\E i \in F : j.batch[i] = id
      BY <1>1, <1>2, <2>2
    <2> QED
      BY <2>1, <2>2
  <1> QED
    BY <1>1, <1>2 DEF PendingOf

\* No step of a loop makes a transaction pending again.
LEMMA PendingShrinks ==
    ASSUME Inv, NEW w \in Worker, WorkerStep(w)
    PROVE  sent' = sent /\ PendingOf(fate') \subseteq PendingOf(fate)
  <1> DEFINE G == sent' = sent /\ PendingOf(fate') \subseteq PendingOf(fate)
  <1>1. ASSUME UNCHANGED <<sent, fate>> PROVE G
    BY <1>1
  <1>2. ASSUME sent' = sent, NEW ids, NEW how, how # "Pending", fate' = Settle(ids, how) PROVE G
    BY <1>2, SettleIds
  <1>3. ASSUME Stop(w) \/ Poll(w) \/ Receive(w) \/ ReceiveEnds(w) \/ NextGroup(w) \/ FinishBatch(w)
               \/ WouldFit(w) \/ AddCost(w) \/ AdmissionEnds(w) PROVE G
    <2>1. UNCHANGED <<sent, fate>>
      BY <1>3 DEF Stop, Poll, Receive, ReceiveEnds, NextGroup, FinishBatch, WouldFit, AddCost,
                  AdmissionEnds
    <2> QED
      BY <1>1, <2>1
  <1>4. ASSUME \/ LockAccounts(w) \/ AccountsInUse(w) \/ RollBackCost(w) \/ Requeue(w)
               \/ Record(w) \/ ReleaseGroup(w)
        PROVE  G
    <2>1. UNCHANGED <<sent, fate>>
      BY <1>4, Zenon DEF LockAccounts, AccountsInUse, RollBackCost, Requeue, Record, ReleaseGroup
    <2> QED
      BY <1>1, <2>1
  <1>5. ASSUME NEW i, PreflightFails(w, i) \/ LoadAccount(w, i) \/ Execute(w, i) PROVE G
    <2>1. UNCHANGED <<sent, fate>>
      BY <1>5 DEF PreflightFails, LoadAccount, Execute
    <2> QED
      BY <1>1, <2>1
  <1>6. ASSUME NEW key, FlushAccount(w, key) PROVE G
    <2>1. UNCHANGED <<sent, fate>>
      BY <1>6 DEF FlushAccount
    <2> QED
      BY <1>1, <2>1
  <1>7. ASSUME VerifyPanics(w) \/ Cancelled(w) PROVE G
    <2>1. sent' = sent /\ fate' = Settle(ToSet(job[w].batch), "Aborted")
      BY <1>7, Zenon DEF VerifyPanics, Cancelled
    <2> QED
      BY <1>2, <2>1
  <1>8. ASSUME VerifyAndSchedule(w) PROVE G
    <2>1. sent' = sent /\ \E ids : fate' = Settle(ids, "InvalidSignature")
      BY <1>8, Zenon DEF VerifyAndSchedule
    <2> QED
      BY <1>2, <2>1
  <1>9. ASSUME WouldNotFit(w) PROVE G
    <2>1. sent' = sent /\ \E ids : fate' = Settle(ids, "WouldExceedMaxBlockCostLimit")
      BY <1>9, Zenon DEF WouldNotFit
    <2> QED
      BY <1>2, <2>1
  <1>10. ASSUME RecordFails(w) \/ RecordPanics(w) \/ \E i : ExecutePanics(w, i) PROVE G
    <2>1. sent' = sent /\ fate' = Settle(Unsettled(w), "Aborted")
      BY <1>10, Zenon DEF RecordFails, RecordPanics, ExecutePanics, Unwind
    <2> QED
      BY <1>2, <2>1
  <1>11. ASSUME BeginFlush(w) PROVE G
    <2>1. sent' = sent /\ \E ids : fate' = Settle(ids, "Committed")
      BY <1>11, Zenon DEF BeginFlush
    <2> QED
      BY <1>2, <2>1
  <1>12. ASSUME CollectResults(w) PROVE G
    <2>1. sent' = sent /\ pc[w] = "collect"
      BY <1>12, Zenon DEF CollectResults
    <2>2. PICK F : /\ F = {i \in ToSet(job[w].admitted) : job[w].outcome[i] # "Ok"}
                   /\ fate' = FatesCollected(job[w], fate, F, F)
      BY <1>12, CollectResultsIs, Zenon
    <2>3. job[w].outcome \in [ToSet(job[w].admitted) -> Outcomes]
      BY <2>1, LoopHere DEF LoopOk, GroupOk
    <2>4. \A i \in F : job[w].outcome[i] # "Pending"
      BY <2>2, <2>3 DEF Outcomes
    <2>5. PICK f2 : f2 = fate'
      OBVIOUS
    <2>6. PendingOf(f2) \subseteq PendingOf(fate)
      BY <2>2, <2>4, <2>5, CollectedIds
    <2> QED
      BY <2>1, <2>5, <2>6
  <1> HIDE DEF G
  <1>13. G
    BY <1>3, <1>4, <1>5, <1>6, <1>7, <1>8, <1>9, <1>10, <1>11, <1>12, Zenon DEF WorkerStep
  <1> QED
    BY <1>13 DEF G

-----------------------------------------------------------------------------
\* Every step of the pipeline is a step of the serial ledger, or none.

\* The actions of SerialLedger, in terms of the variables of the pipeline.
LEMMA LedgerParts ==
    /\ Ledger!Init <=> sent = <<>> /\ PendingOf(fate) = {} /\ LedgerOf = InitAccounts
    /\ \A tx : Ledger!Submit(tx) <=> /\ sent' = Append(sent, tx)
                                     /\ PendingOf(fate') = PendingOf(fate) \cup {Len(sent) + 1}
                                     /\ LedgerOf' = LedgerOf
    /\ \A id : Ledger!Apply(id) <=> /\ id \in PendingOf(fate)
                                    /\ verify_signatures_sync(sent[id])
                                    /\ sent[id].recent_blockhash \in blockhash_queue
                                    /\ RunAlone(sent[id], LedgerOf).result = "Ok"
                                    /\ LedgerOf' = RunAlone(sent[id], LedgerOf).store
                                    /\ PendingOf(fate') = PendingOf(fate) \ {id}
                                    /\ sent' = sent
    /\ \A ids : Ledger!Discard(ids) <=> /\ ids \subseteq PendingOf(fate) /\ ids # {}
                                        /\ PendingOf(fate') = PendingOf(fate) \ ids
                                        /\ sent' = sent /\ LedgerOf' = LedgerOf
    /\ Ledger!Next <=> \/ \E tx \in Tx : Ledger!Submit(tx)
                       \/ \E id \in PendingOf(fate) : Ledger!Apply(id)
                       \/ \E ids \in SUBSET PendingOf(fate) : Ledger!Discard(ids)
    /\ UNCHANGED Ledger!vars <=> sent' = sent /\ PendingOf(fate') = PendingOf(fate) /\ LedgerOf' = LedgerOf
BY DEF PendingOf, Ledger!Init, Ledger!Submit, Ledger!Apply, Ledger!Discard, Ledger!Next, Ledger!vars

\* A step that keeps the ledger gives up transactions, or does nothing.
LEMMA GivesUp ==
    ASSUME sent' = sent, LedgerOf' = LedgerOf, PendingOf(fate') \subseteq PendingOf(fate)
    PROVE  [Ledger!Next]_(Ledger!vars)
  <1>1. CASE PendingOf(fate') = PendingOf(fate)
    BY <1>1, LedgerParts
  <1>2. CASE PendingOf(fate') # PendingOf(fate)
    <2>1. PICK ids : ids = PendingOf(fate) \ PendingOf(fate')
      OBVIOUS
    <2>2. ids \in SUBSET PendingOf(fate) /\ ids # {} /\ PendingOf(fate') = PendingOf(fate) \ ids
      BY <1>2, <2>1
    <2>3. Ledger!Discard(ids)
      BY <2>2, LedgerParts
    <2> QED
      BY <2>2, <2>3, LedgerParts
  <1> QED
    BY <1>1, <1>2

\* Beginning to flush an overlay is a step of SerialLedger that applies a transaction.
LEMMA CommitApplies ==
    ASSUME Discipline, Inv, LP!Inv, LedgerInv, NEW w \in Worker, BeginFlush(w)
    PROVE  LedgerInv' /\ [Ledger!Next]_(Ledger!vars)
  <1>1. PICK i, id : i = Head(job[w].overlays) /\ id = job[w].batch[i]
    OBVIOUS
  <1>2. /\ LedgerInv' /\ verify_signatures_sync(sent[id]) /\ sent[id].recent_blockhash \in blockhash_queue
        /\ RunAlone(sent[id], LedgerOf).result = "Ok"
        /\ LedgerOf' = RunAlone(sent[id], LedgerOf).store
    BY <1>1, BeginFlushLedger, Zenon
  <1>3. id \in PendingOf(fate)
    <2>1. pc[w] = "commit" /\ job[w].overlays # <<>>
      BY DEF BeginFlush
    <2>2. LoopOk("commit", job[w], fate)
      BY <2>1, LoopHere
    <2>3. job[w].batch \in Seq(DOMAIN fate) /\ job[w].overlays \in Seq(DOMAIN job[w].batch)
      BY <2>2 DEF LoopOk, BatchOk, GroupOk
    <2>4. i \in ToSet(job[w].overlays) /\ i \in DOMAIN job[w].batch
      BY <1>1, <2>1, <2>3 DEF ToSet
    <2>5. i \in Open("commit", job[w]) /\ InProcess("commit")
      BY <2>4 DEF Open, InHand, HasGroup, InProcess
    <2>6. fate[id] = "Pending"
      BY <1>1, <2>2, <2>5 DEF LoopOk, ResultsOk
    <2> QED
      BY <1>1, <2>3, <2>4, <2>6 DEF PendingOf
  <1>4. PendingOf(fate') = PendingOf(fate) \ {id} /\ sent' = sent
    <2>1. fate' = Settle({id}, "Committed") /\ sent' = sent
      <3>1. Ids(w, {i}) = {id}
        BY <1>1 DEF Ids
      <3> QED
        BY <1>1, <3>1, Zenon DEF BeginFlush
    <2>2. PICK f : f = fate'
      OBVIOUS
    <2>3. PendingOf(f) = PendingOf(fate) \ {id}
      BY <2>1, <2>2, SettleIds
    <2> QED
      BY <2>1, <2>2, <2>3
  <1>5. Ledger!Apply(id)
    BY <1>2, <1>3, <1>4, LedgerParts, Zenon
  <1> QED
    BY <1>2, <1>3, <1>5, LedgerParts, Zenon

\* A submission is one of SerialLedger.
LEMMA SubmitSubmits ==
    ASSUME Inv, LedgerInv, NEW tx \in Tx, SendTransaction(tx)
    PROVE  LedgerInv' /\ [Ledger!Next]_(Ledger!vars)
  <1>1. LedgerInv' /\ LedgerOf' = LedgerOf
    BY SendTransactionLedger
  <1>2. sent' = Append(sent, tx) /\ fate' = Append(fate, "Pending")
    BY DEF SendTransaction
  <1>3. fate \in Seq(Fates) /\ Len(fate) = Len(sent) /\ Len(sent) \in Nat
    BY LengthType DEF Inv, Shape
  <1>4. PICK f : f = fate'
    OBVIOUS
  <1>5. /\ DOMAIN f = DOMAIN fate \cup {Len(sent) + 1} /\ f[Len(sent) + 1] = "Pending"
        /\ \A id \in DOMAIN fate : f[id] = fate[id]
    BY <1>2, <1>3, <1>4
  <1>6. PendingOf(f) = PendingOf(fate) \cup {Len(sent) + 1}
    BY <1>5 DEF PendingOf
  <1>7. Ledger!Submit(tx)
    BY <1>1, <1>2, <1>4, <1>6, LedgerParts
  <1> QED
    BY <1>1, <1>7, LedgerParts

\* Every step of a loop applies a transaction, discards some or changes nothing.
LEMMA LoopLedgerStep ==
    ASSUME Discipline, Inv, LP!Inv, LedgerInv, NEW w \in Worker, WorkerStep(w)
    PROVE  LedgerInv' /\ [Ledger!Next]_(Ledger!vars)
  <1> DEFINE G == LedgerInv' /\ LedgerOf' = LedgerOf
  <1>1. ASSUME Stop(w) \/ Poll(w) \/ ReceiveEnds(w) \/ VerifyPanics(w) \/ Cancelled(w) \/ FinishBatch(w)
        PROVE  G
    BY <1>1, BetweenBatches
  <1>2. ASSUME Receive(w) PROVE G
    BY <1>2, ReceiveLedger
  <1>3. ASSUME RecordFails(w) \/ RecordPanics(w) \/ \E i : ExecutePanics(w, i) PROVE G
    BY <1>3, UnwindLedger
  <1>4. ASSUME VerifyAndSchedule(w) PROVE G
    BY <1>4, VerifyAndScheduleLedger
  <1>5. ASSUME NextGroup(w) PROVE G
    BY <1>5, NextGroupLedger
  <1>6. ASSUME WouldFit(w) \/ AdmissionEnds(w) PROVE G
    BY <1>6, WouldFitLedger
  <1>7. ASSUME WouldNotFit(w) PROVE G
    BY <1>7, WouldNotFitLedger
  <1>8. ASSUME AddCost(w) PROVE G
    BY <1>8, AddCostLedger
  <1>9. ASSUME AccountsInUse(w) \/ RollBackCost(w) \/ Requeue(w) PROVE G
    BY <1>9, AccountsInUseLedger, RequeueLedger
  <1>10. ASSUME ReleaseGroup(w) PROVE G
    BY <1>10, ReleaseGroupLedger
  <1>11. ASSUME LockAccounts(w) PROVE G
    BY <1>11, LockAccountsLedger
  <1>12. ASSUME NEW i \in DOMAIN job[w].outcome, PreflightFails(w, i) PROVE G
    BY <1>12, PreflightFailsLedger
  <1>13. ASSUME NEW i \in DOMAIN job[w].outcome, LoadAccount(w, i) PROVE G
    BY <1>13, LoadAccountLedger
  <1>14. ASSUME NEW i \in DOMAIN job[w].outcome, Execute(w, i) PROVE G
    BY <1>14, ExecuteLedger
  <1>15. ASSUME Record(w) PROVE G
    BY <1>15, RecordLedger
  <1>16. ASSUME CollectResults(w) PROVE G
    BY <1>16, CollectResultsLedger
  <1>17. ASSUME NEW key, FlushAccount(w, key) PROVE G
    BY <1>17, FlushAccountLedger
  <1> HIDE DEF G
  <1>18. G \/ BeginFlush(w)
    BY <1>1, <1>2, <1>3, <1>4, <1>5, <1>6, <1>7, <1>8, <1>9, <1>10, <1>11, <1>12, <1>13, <1>14,
       <1>15, <1>16, <1>17, Zenon DEF WorkerStep
  <1>19. CASE G
    <2>1. LedgerInv' /\ LedgerOf' = LedgerOf
      BY <1>19 DEF G
    <2> QED
      BY <2>1, PendingShrinks, GivesUp, Zenon
  <1>20. CASE BeginFlush(w)
    BY <1>20, CommitApplies
  <1> QED
    BY <1>18, <1>19, <1>20

\* Every step of the pipeline is one of SerialLedger, or none.
LEMMA LedgerStep ==
    ASSUME Discipline, Inv, LP!Inv, LedgerInv, [Next]_vars
    PROVE  LedgerInv' /\ [Ledger!Next]_(Ledger!vars)
  <1>1. CASE \E tx \in Tx : SendTransaction(tx)
    BY <1>1, SubmitSubmits
  <1>2. CASE \E w \in Worker : WorkerStep(w)
    BY <1>2, LoopLedgerStep
  <1>3. CASE Exit \/ PohStops \/ Terminated \/ UNCHANGED vars
    <2>1. UNCHANGED <<sent, fate, accounts, job, pc, guard>>
      BY <1>3, Zenon DEF Exit, PohStops, Terminated, vars, lockVars
    <2>2. LedgerInv' /\ LedgerOf' = LedgerOf
      BY <2>1, NoLoopMoves
    <2> QED
      BY <2>1, <2>2, GivesUp
  <1> QED
    BY <1>1, <1>2, <1>3 DEF Next

\* The initial state is one of SerialLedger.
LEMMA LedgerStart ==
    ASSUME Init
    PROVE  LedgerInv /\ Ledger!Init
  <1>1. /\ sent = <<>> /\ fate = <<>> /\ accounts = InitAccounts
        /\ pc = [w \in Worker |-> "head"] /\ job = [w \in Worker |-> EmptyJob]
    BY DEF Init
  <1>2. ASSUME NEW w \in Worker PROVE pc[w] = "head" /\ DOMAIN job[w].flushing = {}
    BY <1>1, EmptyJobFlush
  <1>3. LedgerOf = InitAccounts
    <2>1. \A key : {w \in Worker : key \in DOMAIN job[w].flushing} = {}
      BY <1>2
    <2>2. DOMAIN accounts \cup UNION {DOMAIN job[w].flushing : w \in Worker} = DOMAIN accounts
      BY <1>2
    <2>3. LedgerOf = [key \in DOMAIN accounts |-> accounts[key]]
      BY <2>1, <2>2, Zenon DEF LedgerOf
    <2> QED
      BY <1>1, <2>3, InitAccountsIsStore
  <1>4. LedgerInv
    <2> SUFFICES ASSUME NEW w \in Worker
                 PROVE  LoopLedgerOk(pc[w], job[w], sent, guard[w], OnAllKeys(LedgerOf), OnAllKeys(accounts))
      BY DEF LedgerInv, LoopsLedgerOk
    <2>1. pc[w] = "head" /\ DOMAIN job[w].flushing = {}
      BY <1>2
    <2> QED
      <3>1. ~Executing(pc[w]) /\ ChosenOk(pc[w], job[w], Signed(job[w], sent), Clear(job[w], sent))
        BY <2>1, ChosenIdle DEF Executing
      <3> QED
        BY <2>1, <3>1, IdleOk, Zenon
  <1>5. PendingOf(fate) = {}
    BY <1>1 DEF PendingOf
  <1> QED
    BY <1>1, <1>3, <1>4, <1>5, LedgerParts

\* For any number of loops and any transactions that keep to Discipline, batching,
\* grouping, parallel execution, key-by-key commit, retries and every way out of
\* process_batch change the accounts only as running whole transactions one after the
\* other would, each at most once.
THEOREM Serial ==
    ASSUME Discipline
    PROVE  Spec => Serializable
  <1>1. Init => LedgerInv /\ Ledger!Init
    BY LedgerStart
  <1>2. Inv /\ LP!Inv /\ LedgerInv /\ [Next]_vars => LedgerInv' /\ [Ledger!Next]_(Ledger!vars)
    BY LedgerStep
  <1> QED
    BY <1>1, <1>2, InvHolds, LockTable, PTL DEF Spec, Serializable, Ledger!Spec

\* Every transaction loses nothing when it runs alone, and the lamports fit a u64.
LosslessTxs == (\A tx \in Tx : Lossless(tx)) /\ IsGenesis(InitAccounts)

\* What the lamports need as invariant: the ledger is a store of accounts that hold
\* what the node started with.
LedgerConserved == IsGenesis(LedgerOf) /\ Lamports(LedgerOf) = Lamports(InitAccounts)

\* A step of SerialLedger conserves lamports, since the one that changes the ledger
\* runs one transaction alone.
LEMMA LedgerConservedStep ==
    ASSUME LosslessTxs, Inv, LedgerConserved, [Ledger!Next]_(Ledger!vars)
    PROVE  LedgerConserved'
  <1>1. CASE LedgerOf' = LedgerOf
    BY <1>1 DEF LedgerConserved
  <1>2. CASE \E id \in PendingOf(fate) : Ledger!Apply(id)
    <2>1. PICK id \in PendingOf(fate) : Ledger!Apply(id)
      BY <1>2
    <2>2. PICK tx : tx = sent[id]
      OBVIOUS
    <2>3. Lossless(tx)
      <3>1. sent \in Seq(Tx) /\ DOMAIN fate = 1..Len(sent)
        BY DEF Inv, Shape
      <3>2. id \in 1..Len(sent)
        BY <3>1 DEF PendingOf
      <3> QED
        BY <2>2, <3>1, <3>2 DEF LosslessTxs
    <2>4. RunAlone(tx, LedgerOf).result = "Ok" /\ LedgerOf' = RunAlone(tx, LedgerOf).store
      BY <2>1, <2>2, Zenon DEF Ledger!Apply
    <2>5. IsGenesis(LedgerOf') /\ Lamports(LedgerOf') = Lamports(LedgerOf)
      <3>1. IsGenesis(LedgerOf)
        BY DEF LedgerConserved
      <3>2. PICK L, M : L = LedgerOf /\ M = LedgerOf'
        OBVIOUS
      <3> QED
        BY <2>3, <2>4, <3>1, <3>2, LosslessRun
    <2> QED
      BY <2>5 DEF LedgerConserved
  <1>3. LedgerOf' = LedgerOf \/ \E id \in PendingOf(fate) : Ledger!Apply(id)
    BY DEF Ledger!Next, Ledger!vars, Ledger!Submit, Ledger!Discard, PendingOf
  <1> QED
    BY <1>1, <1>2, <1>3

\* For any number of loops, no interleaving of loads and flushes creates or destroys
\* lamports: the ledger changes as if transactions ran alone, and none of those does.
THEOREM LamportsTheorem ==
    ASSUME Discipline, LosslessTxs
    PROVE  Spec => []LamportsConserved
  <1>1. Init => LedgerInv /\ LedgerConserved
    <2>1. Ledger!Init => LedgerOf = InitAccounts
      BY DEF Ledger!Init
    <2> QED
      BY <2>1, LedgerStart DEF LedgerConserved, LosslessTxs
  <1>2. /\ Inv /\ LP!Inv /\ LedgerInv /\ [Next]_vars => LedgerInv' /\ [Ledger!Next]_(Ledger!vars)
        /\ Inv /\ LedgerConserved /\ [Ledger!Next]_(Ledger!vars) => LedgerConserved'
    BY LedgerStep, LedgerConservedStep
  <1>3. LedgerConserved => LamportsConserved
    BY DEF LedgerConserved, LamportsConserved
  <1> QED
    BY <1>1, <1>2, <1>3, InvHolds, LockTable, PTL DEF Spec

-----------------------------------------------------------------------------
\* The types of the pipeline.

\* Every key of the store is one, with an account of the shape of the Rust type.
InStore(store) == \A key \in DOMAIN store : key \in Pubkey /\ IsAccount(store[key])

\* Clients send values of the Rust types, and the node starts with such accounts.
TypedTxs ==
    /\ \A tx \in Tx : WellFormedTx(tx) /\ HasCost(tx)
    /\ InStore(InitAccounts)

\* The first accounts of a transaction.
SomeLoads(l) ==
    \E n \in Nat : l = [m \in 1..n |-> l[m]] /\ \A m \in 1..n : IsAccount(l[m])

\* What the thread of one member holds.
MemberTyped(o, l, tx) == (o = "Running" => SomeLoads(l)) /\ (o = "Ok" => TypedOf(tx, l))

\* A loop at place p with variables j, when s has been sent: what it has loaded and what
\* it is about to flush are accounts, as many as the transaction lists.
LoopTyped(p, j, s) ==
    /\ InStore(j.flushing)
    /\ p \in {"execute", "collect"} =>
          /\ j.loaded = [i \in ToSet(j.admitted) |-> j.loaded[i]]
          /\ \A i \in ToSet(j.admitted) : MemberTyped(j.outcome[i], j.loaded[i], At(j, s, i))
    /\ p = "commit" => \A i \in ToSet(j.overlays) : TypedOf(At(j, s, i), j.loaded[i])

TypedLoops(pcs, jobs, s) == \A v \in Worker : LoopTyped(pcs[v], jobs[v], s)

\* The inductive invariant.
TypedInv ==
    /\ InStore(accounts)
    /\ cost_tracker.block_cost \in 0..U64_MAX
    /\ TypedLoops(pc, job, sent)

\* One loop moves.
LEMMA TypedMove ==
    ASSUME Inv, TypedLoops(pc, job, sent), NEW w \in Worker, NEW p2 \in Places, NEW k,
           Moves(w, p2, k), UNCHANGED sent, LoopTyped(p2, k, sent)
    PROVE  TypedLoops(pc', job', sent')
  <1>1. /\ pc'[w] = p2 /\ job'[w] = k
        /\ \A v \in Worker : v # w => pc'[v] = pc[v] /\ job'[v] = job[v]
    BY MovesOne DEF Inv
  <1> QED
    BY <1>1, Zenon DEF TypedLoops

\* Outside execution and commit there is only the flush.
LEMMA QuietMove ==
    ASSUME Inv, TypedLoops(pc, job, sent), NEW w \in Worker, NEW p2 \in Places, ~Executing(p2),
           NEW k, Moves(w, p2, k), UNCHANGED sent, InStore(k.flushing)
    PROVE  TypedLoops(pc', job', sent')
  <1>1. LoopTyped(p2, k, sent)
    BY DEF LoopTyped, Executing
  <1> QED
    BY <1>1, TypedMove

\* The flush of a loop.
LEMMA FlushTyped ==
    ASSUME TypedLoops(pc, job, sent), NEW w \in Worker
    PROVE  InStore(job[w].flushing)
BY DEF TypedLoops, LoopTyped

LEMMA EmptyJobTyped == InStore(EmptyJob.flushing)
BY EmptyJobFlush DEF InStore

\* Steps that leave the variables of the loop alone, or clear them.
LEMMA PlaceTyped ==
    ASSUME Inv, TypedLoops(pc, job, sent), NEW w \in Worker,
           \/ Stop(w) \/ Poll(w) \/ ReceiveEnds(w) \/ VerifyPanics(w) \/ Cancelled(w) \/ FinishBatch(w)
           \/ WouldFit(w) \/ AdmissionEnds(w) \/ AccountsInUse(w) \/ RollBackCost(w)
           \/ RecordFails(w) \/ RecordPanics(w) \/ \E i : ExecutePanics(w, i)
    PROVE  TypedLoops(pc', job', sent') /\ UNCHANGED accounts
  <1> DEFINE Q == {"head", "recv", "verify", "stopped", "group", "add", "lock", "refused", "requeue"}
  <1>1. /\ UNCHANGED <<sent, accounts>>
        /\ \E p2 \in Q : /\ pc' = [pc EXCEPT ![w] = p2]
                         /\ UNCHANGED job \/ job' = [job EXCEPT ![w] = EmptyJob]
    BY Zenon DEF Stop, Poll, ReceiveEnds, VerifyPanics, Cancelled, FinishBatch, WouldFit, AdmissionEnds,
                 AccountsInUse, RollBackCost, RecordFails, RecordPanics, ExecutePanics, Unwind
  <1>2. PICK p2 \in Q : /\ pc' = [pc EXCEPT ![w] = p2]
                        /\ UNCHANGED job \/ job' = [job EXCEPT ![w] = EmptyJob]
    BY <1>1
  <1>3. p2 \in Places /\ ~Executing(p2)
    BY DEF Places, Executing
  <1>4. PICK k : Moves(w, p2, k) /\ InStore(k.flushing)
    BY <1>2, PlaceOnly, FlushTyped, EmptyJobTyped, Zenon DEF Moves
  <1> QED
    BY <1>1, <1>3, <1>4, QuietMove

\* Steps that set other variables than the flush.
LEMMA AssignTyped ==
    ASSUME Inv, TypedLoops(pc, job, sent), NEW w \in Worker,
           \/ Receive(w) \/ VerifyAndSchedule(w) \/ NextGroup(w) \/ WouldNotFit(w) \/ AddCost(w)
           \/ Requeue(w) \/ ReleaseGroup(w)
    PROVE  TypedLoops(pc', job', sent') /\ UNCHANGED accounts
  <1> DEFINE j == job[w]
             Q == {"recv", "group", "refused", "admit"}
             G == \E p2 \in Q : \E k : Moves(w, p2, k) /\ k.flushing = j.flushing
  <1>1. Fields(j) /\ job = [v \in Worker |-> job[v]] /\ pc = [v \in Worker |-> pc[v]]
    BY LoopHere
  <1>2. UNCHANGED <<sent, accounts>>
    BY Zenon DEF Receive, VerifyAndSchedule, NextGroup, WouldNotFit, AddCost, Requeue, ReleaseGroup
  <1>3. ASSUME Receive(w) PROVE G
    <2>1. PICK k : k = WithBatch(j, Append(j.batch, Head(channel)))
      OBVIOUS
    <2>2. Moves(w, "recv", k)
      BY <1>1, <1>3, <2>1, Zenon DEF Receive, WithBatch, Moves
    <2>3. k.flushing = j.flushing
      BY <1>1, <2>1, AssignKeeps
    <2> QED
      BY <2>2, <2>3, Zenon
  <1>4. ASSUME VerifyAndSchedule(w) PROVE G
    <2>1. PICK r, g : Moves(w, "group", WithSchedule(j, r, g))
      BY <1>4, VerifyAndScheduleIs, Zenon
    <2>2. WithSchedule(j, r, g).flushing = j.flushing
      BY <1>1, AssignKeeps
    <2> QED
      BY <2>1, <2>2, Zenon
  <1>5. ASSUME NextGroup(w) PROVE G
    <2>1. PICK k : k = WithGroup(j, Head(j.groups), Tail(j.groups), <<>>)
      OBVIOUS
    <2>2. Moves(w, "admit", k)
      BY <1>1, <1>5, <2>1, Zenon DEF Moves, NextGroup, WithGroup
    <2>3. k.flushing = j.flushing
      BY <1>1, <2>1, AssignKeeps
    <2> QED
      BY <2>2, <2>3, Zenon
  <1>6. ASSUME WouldNotFit(w) PROVE G
    <2>1. PICK k : k = WithRefusal(j, Tail(j.to_admit),
                           [j.results EXCEPT ![Head(j.to_admit)] = "WouldExceedMaxBlockCostLimit"])
      OBVIOUS
    <2>2. Moves(w, "admit", k)
      BY <1>1, <1>6, <2>1, Zenon DEF Moves, WouldNotFit, WithRefusal
    <2>3. k.flushing = j.flushing
      BY <1>1, <2>1, AssignKeeps
    <2> QED
      BY <2>2, <2>3, Zenon
  <1>7. ASSUME AddCost(w) PROVE G
    <2>1. PICK k : k = WithAdmission(j, Tail(j.to_admit), Append(j.admitted, Head(j.to_admit)))
      OBVIOUS
    <2>2. Moves(w, "admit", k)
      BY <1>1, <1>7, <2>1, Zenon DEF Moves, AddCost, WithAdmission
    <2>3. k.flushing = j.flushing
      BY <1>1, <2>1, AssignKeeps
    <2> QED
      BY <2>2, <2>3, Zenon
  <1>8. ASSUME Requeue(w) PROVE G
    <2>1. PICK p2, k :
             /\ p2 \in {"group", "refused"}
             /\ Moves(w, p2, k) /\ Fields(k) /\ SentBack(j, k)
             /\ p2 = "group" <=> Tail(j.admitted) = <<>>
             /\ k = WithReturn(j, Tail(j.admitted),
                              [j.results EXCEPT ![Head(j.admitted)] = "AccountInUse"])
      BY <1>8, RequeueAssigns, Zenon
    <2>2. k.flushing = j.flushing
      BY <1>1, <2>1, AssignKeeps
    <2> QED
      BY <2>1, <2>2, Zenon
  <1>9. ASSUME ReleaseGroup(w) PROVE G
    <2>1. PICK k : k = WithNoGroup(j, EmptyMap, EmptyMap, <<>>)
      OBVIOUS
    <2>2. Moves(w, "group", k)
      BY <1>1, <1>9, <2>1, Zenon DEF Moves, ReleaseGroup, WithNoGroup
    <2>3. k.flushing = j.flushing
      BY <1>1, <2>1, AssignKeeps
    <2> QED
      BY <2>2, <2>3, Zenon
  <1>10. G
    <2> HIDE DEF G
    <2> QED
      BY <1>3, <1>4, <1>5, <1>6, <1>7, <1>8, <1>9
  <1>11. PICK p2, k : p2 \in Q /\ Moves(w, p2, k) /\ k.flushing = j.flushing
    BY <1>10
  <1>12. p2 \in Places /\ ~Executing(p2) /\ InStore(k.flushing)
    BY <1>11, FlushTyped DEF Places, Executing
  <1> QED
    BY <1>2, <1>11, <1>12, QuietMove

\* A member of a group that executes.
LEMMA MemberNow ==
    ASSUME Inv, TypedLoops(pc, job, sent), NEW w \in Worker, pc[w] = "execute",
           NEW i \in DOMAIN job[w].outcome
    PROVE  LET M == ToSet(job[w].admitted)
           IN  /\ i \in M /\ job[w].outcome \in [M -> Outcomes]
               /\ job[w].loaded = [x \in M |-> job[w].loaded[x]]
               /\ At(job[w], sent, i) \in Tx /\ TxAt(w, i) = At(job[w], sent, i)
               /\ MemberTyped(job[w].outcome[i], job[w].loaded[i], At(job[w], sent, i))
               /\ Fields(job[w]) /\ job = [v \in Worker |-> job[v]]
  <1>1. /\ i \in ToSet(job[w].admitted) /\ job[w].outcome \in [ToSet(job[w].admitted) -> Outcomes]
        /\ job[w].admitted \in Seq(DOMAIN job[w].batch)
    BY LoopHere DEF LoopOk, GroupOk, HasGroup
  <1>2. i \in DOMAIN job[w].batch
    BY <1>1 DEF ToSet
  <1>3. LoopTyped("execute", job[w], sent)
    BY DEF TypedLoops
  <1>4. /\ job[w].loaded = [x \in ToSet(job[w].admitted) |-> job[w].loaded[x]]
        /\ MemberTyped(job[w].outcome[i], job[w].loaded[i], At(job[w], sent, i))
    BY <1>1, <1>3 DEF LoopTyped
  <1>5. At(job[w], sent, i) \in Tx /\ TxAt(w, i) = At(job[w], sent, i)
    BY <1>2, BatchIsSent DEF At, TxAt
  <1> QED
    BY <1>1, <1>4, <1>5, LoopHere, Zenon

\* A step of member i leaves the others alone.
OnlyMember(w, i, l, o) ==
    /\ job' = [job EXCEPT ![w] = WithRunning(job[w], l, o)] /\ UNCHANGED <<pc, sent>>
    /\ l = [x \in ToSet(job[w].admitted) |-> l[x]]
    /\ MemberTyped(o[i], l[i], At(job[w], sent, i))
    /\ \A x \in ToSet(job[w].admitted) :
          x # i => l[x] = job[w].loaded[x] /\ o[x] = job[w].outcome[x]

LEMMA MemberMove ==
    ASSUME Inv, TypedLoops(pc, job, sent), NEW w \in Worker, pc[w] = "execute",
           NEW i, NEW l, NEW o, OnlyMember(w, i, l, o)
    PROVE  TypedLoops(pc', job', sent')
  <1> DEFINE j == job[w]
             M == ToSet(j.admitted)
  <1>1. PICK k : k = WithRunning(j, l, o)
    OBVIOUS
  <1>2. Fields(j) /\ Moves(w, "execute", k) /\ UNCHANGED sent
    BY <1>1, LoopHere DEF Moves, OnlyMember
  <1>3. /\ k.batch = j.batch /\ k.flushing = j.flushing
        /\ k.admitted = j.admitted /\ k.outcome = o /\ k.loaded = l
    BY <1>1, <1>2, AssignRunning, AssignGroupKeeps
  <1>4. \A x : At(k, sent, x) = At(j, sent, x)
    BY <1>3, SameBatchSame
  <1>5. \A x \in M : MemberTyped(j.outcome[x], j.loaded[x], At(j, sent, x))
    BY DEF TypedLoops, LoopTyped
  <1>6. \A x \in M : MemberTyped(o[x], l[x], At(j, sent, x))
    BY <1>5, Zenon DEF OnlyMember
  <1>7. InStore(j.flushing) /\ "execute" \in Places
    BY FlushTyped DEF Places
  <1>8. LoopTyped("execute", k, sent)
    <2>1. InStore(k.flushing) /\ k.loaded = [x \in ToSet(k.admitted) |-> k.loaded[x]]
      BY <1>3, <1>7, Zenon DEF OnlyMember
    <2>2. \A x \in ToSet(k.admitted) : MemberTyped(k.outcome[x], k.loaded[x], At(k, sent, x))
      BY <1>3, <1>4, <1>6, Zenon
    <2> QED
      BY <2>1, <2>2 DEF LoopTyped
  <1> QED
    BY <1>2, <1>7, <1>8, TypedMove

LEMMA PreflightFailsTyped ==
    ASSUME Inv, TypedLoops(pc, job, sent), NEW w \in Worker, NEW i \in DOMAIN job[w].outcome,
           PreflightFails(w, i)
    PROVE  TypedLoops(pc', job', sent') /\ UNCHANGED accounts
  <1> DEFINE j == job[w]
             M == ToSet(j.admitted)
  <1>1. pc[w] = "execute" /\ UNCHANGED <<pc, sent, accounts>>
    BY DEF PreflightFails
  <1>2. /\ i \in M /\ j.outcome \in [M -> Outcomes] /\ j.loaded = [x \in M |-> j.loaded[x]]
        /\ Fields(j) /\ job = [v \in Worker |-> job[v]]
    BY <1>1, MemberNow
  <1>3. PICK o : o = [j.outcome EXCEPT ![i] = "BlockhashNotFound"]
    OBVIOUS
  <1>4. job' = [job EXCEPT ![w] = [j EXCEPT !.outcome = o]]
    BY <1>2, <1>3 DEF PreflightFails
  <1>5. job' = [job EXCEPT ![w] = WithRunning(j, j.loaded, o)]
    BY <1>2, <1>4, AssignOne, Zenon
  <1>6. o[i] = "BlockhashNotFound" /\ \A x \in M : x # i => o[x] = j.outcome[x]
    BY <1>2, <1>3
  <1>7. MemberTyped(o[i], j.loaded[i], At(j, sent, i))
    BY <1>6 DEF MemberTyped
  <1>8. OnlyMember(w, i, j.loaded, o)
    BY <1>1, <1>2, <1>5, <1>6, <1>7, Zenon DEF OnlyMember
  <1> QED
    BY <1>1, <1>8, MemberMove

\* One more account is loaded.
LEMMA SomeMore ==
    ASSUME NEW l, SomeLoads(l), NEW a, IsAccount(a)
    PROVE  SomeLoads(Append(l, a))
  <1>1. PICK n \in Nat : l = [m \in 1..n |-> l[m]] /\ \A m \in 1..n : IsAccount(l[m])
    BY DEF SomeLoads
  <1>2. PICK S : S = {l[m] : m \in 1..n} \cup {a}
    OBVIOUS
  <1>3. l \in [1..n -> S] /\ a \in S
    BY <1>1, <1>2
  <1>4. l \in Seq(S) /\ Len(l) = n
    BY <1>1, <1>3, FunctionIsSeq
  <1>5. PICK c \in Seq(S) : c = Append(l, a)
    BY <1>3, <1>4, AppendProperties, Zenon
  <1>6. /\ Len(c) = n + 1 /\ c = [m \in 1..(n + 1) |-> c[m]]
        /\ \A m \in 1..n : c[m] = l[m]
        /\ c[n + 1] = a
    <2>1. Len(c) = n + 1 /\ (\A m \in 1..n : c[m] = l[m]) /\ c[n + 1] = a
      BY <1>3, <1>4, <1>5
    <2>2. c = [m \in 1..Len(c) |-> c[m]]
      OBVIOUS
    <2> QED
      BY <2>1, <2>2, Zenon
  <1>7. \A m \in 1..(n + 1) : IsAccount(c[m])
    <2>1. \A m \in 1..(n + 1) : m \in 1..n \/ m = n + 1
      OBVIOUS
    <2> QED
      BY <1>1, <1>6, <2>1, Zenon
  <1>8. n + 1 \in Nat
    OBVIOUS
  <1> QED
    BY <1>5, <1>6, <1>7, <1>8, Zenon DEF SomeLoads

LEMMA LoadAccountTyped ==
    ASSUME Inv, TypedLoops(pc, job, sent), InStore(accounts), NEW w \in Worker,
           NEW i \in DOMAIN job[w].outcome, LoadAccount(w, i)
    PROVE  TypedLoops(pc', job', sent') /\ UNCHANGED accounts
  <1> DEFINE j == job[w]
             M == ToSet(j.admitted)
             tx == At(j, sent, i)
  <1>1. pc[w] = "execute" /\ j.outcome[i] = "Running" /\ UNCHANGED <<pc, sent, accounts>>
    BY Zenon DEF LoadAccount
  <1>2. /\ i \in M /\ j.outcome \in [M -> Outcomes] /\ j.loaded = [x \in M |-> j.loaded[x]]
        /\ Fields(j) /\ job = [v \in Worker |-> job[v]]
        /\ MemberTyped(j.outcome[i], j.loaded[i], tx)
    BY <1>1, MemberNow
  <1>3. PICK a : a = Load(accounts, TxAt(w, i).account_keys[Len(j.loaded[i]) + 1])
    OBVIOUS
  <1>4. IsAccount(a)
    <2>1. IsAccount(DefaultAccount)
      BY U64Assumption DEF IsAccount, DefaultAccount
    <2> QED
      BY <1>3, <2>1 DEF Load, InStore
  <1>5. PICK e : e = Append(j.loaded[i], a)
    OBVIOUS
  <1>6. SomeLoads(e)
    BY <1>1, <1>2, <1>4, <1>5, SomeMore DEF MemberTyped
  <1>7. job' = [job EXCEPT ![w].loaded[i] = e]
    BY <1>3, <1>5, Zenon DEF LoadAccount
  <1>8. PICK l : l = [j.loaded EXCEPT ![i] = e]
    OBVIOUS
  <1>9. l[i] = e /\ l = [x \in M |-> l[x]] /\ \A x \in M : x # i => l[x] = j.loaded[x]
    BY <1>2, <1>8
  <1>10. job' = [job EXCEPT ![w] = WithRunning(j, l, j.outcome)]
    <2>1. job' = [job EXCEPT ![w] = [j EXCEPT !.loaded = l]]
      BY <1>2, <1>7, <1>8, Zenon
    <2> QED
      BY <1>2, <2>1, AssignOne, Zenon
  <1>11. MemberTyped(j.outcome[i], l[i], tx)
    BY <1>1, <1>6, <1>9 DEF MemberTyped
  <1>12. OnlyMember(w, i, l, j.outcome)
    BY <1>1, <1>9, <1>10, <1>11, Zenon DEF OnlyMember
  <1> QED
    BY <1>1, <1>12, MemberMove

LEMMA ExecuteTyped ==
    ASSUME TypedTxs, Inv, TypedLoops(pc, job, sent), NEW w \in Worker,
           NEW i \in DOMAIN job[w].outcome, Execute(w, i)
    PROVE  TypedLoops(pc', job', sent') /\ UNCHANGED accounts
  <1> DEFINE j == job[w]
             M == ToSet(j.admitted)
  <1>0. PICK tx : tx = At(j, sent, i)
    OBVIOUS
  <1>1. pc[w] = "execute" /\ j.outcome[i] = "Running" /\ UNCHANGED <<pc, sent, accounts>>
    BY Zenon DEF Execute
  <1>2. /\ i \in M /\ j.outcome \in [M -> Outcomes] /\ j.loaded = [x \in M |-> j.loaded[x]]
        /\ Fields(j) /\ job = [v \in Worker |-> job[v]]
        /\ tx \in Tx /\ TxAt(w, i) = tx /\ MemberTyped(j.outcome[i], j.loaded[i], tx)
    BY <1>0, <1>1, MemberNow
  <1>3. PICK F : F = j.loaded[i]
    OBVIOUS
  <1>4. TypedOf(tx, F)
    <2>1. PICK n \in Nat : F = [m \in 1..n |-> F[m]] /\ \A m \in 1..n : IsAccount(F[m])
      BY <1>1, <1>2, <1>3 DEF MemberTyped, SomeLoads
    <2>2. Len(F) = n /\ DOMAIN F = 1..n
      BY <2>1
    <2>3. PICK keys : keys = tx.account_keys
      OBVIOUS
    <2>4. Len(F) = Len(keys)
      BY <1>2, <1>3, <2>3, Zenon DEF Execute
    <2>5. DOMAIN keys = 1..Len(keys)
      BY <1>2, <2>3 DEF TypedTxs, WellFormedTx
    <2>6. IsFiniteSet(DOMAIN F)
      BY <2>2, FS_Interval
    <2>7. AreAccounts(F)
      BY <2>1, <2>2, <2>6 DEF AreAccounts
    <2> QED
      BY <2>2, <2>3, <2>4, <2>5, <2>7 DEF TypedOf
  <1>5. PICK done, r : /\ done = execute_instructions(tx, F)
                       /\ r = IF done.result = "Ok" THEN "Ok" ELSE "ProgramError"
    OBVIOUS
  <1>6. job' = [job EXCEPT ![w].loaded[i] = done.loaded, ![w].outcome[i] = r]
    BY <1>2, <1>3, <1>5, Zenon DEF Execute
  <1>7. PICK l, o : l = [j.loaded EXCEPT ![i] = done.loaded] /\ o = [j.outcome EXCEPT ![i] = r]
    OBVIOUS
  <1>8. /\ l[i] = done.loaded /\ l = [x \in M |-> l[x]] /\ o[i] = r
        /\ \A x \in M : x # i => l[x] = j.loaded[x] /\ o[x] = j.outcome[x]
    BY <1>2, <1>7
  <1>9. job' = [job EXCEPT ![w] = WithRunning(j, l, o)]
    BY <1>2, <1>6, <1>7, Zenon DEF WithRunning
  <1>10. r = "Ok" => TypedOf(tx, done.loaded)
    <2> SUFFICES ASSUME r = "Ok" PROVE TypedOf(tx, done.loaded)
      OBVIOUS
    <2>1. done.result = "Ok" /\ WellFormedTx(tx)
      BY <1>2, <1>5 DEF TypedTxs
    <2> QED
      BY <1>4, <1>5, <2>1, ExecTyped
  <1>11. r # "Running"
    BY <1>5
  <1>12. MemberTyped(o[i], l[i], At(j, sent, i))
    BY <1>0, <1>8, <1>10, <1>11, Zenon DEF MemberTyped
  <1>13. OnlyMember(w, i, l, o)
    BY <1>1, <1>8, <1>9, <1>12, Zenon DEF OnlyMember
  <1> QED
    BY <1>1, <1>13, MemberMove

\* A group that has just got its locks has loaded nothing.
LEMMA LockAccountsTyped ==
    ASSUME Inv, TypedLoops(pc, job, sent), NEW w \in Worker, LockAccounts(w)
    PROVE  TypedLoops(pc', job', sent') /\ UNCHANGED accounts
  <1> DEFINE j == job[w]
             M == ToSet(j.admitted)
  <1>1. PICK l, o : l = [i \in M |-> <<>>] /\ o = [i \in M |-> "Running"]
    OBVIOUS
  <1>2. PICK k : k = WithRunning(j, l, o)
    OBVIOUS
  <1>3. Fields(j) /\ job = [v \in Worker |-> job[v]] /\ UNCHANGED <<sent, accounts>>
    BY LoopHere, Zenon DEF LockAccounts
  <1>4. Moves(w, "execute", k)
    BY <1>1, <1>2, <1>3, Zenon DEF Moves, LockAccounts, WithRunning, Members
  <1>5. k.flushing = j.flushing /\ k.admitted = j.admitted /\ k.outcome = o /\ k.loaded = l
    BY <1>2, <1>3, AssignRunning, AssignGroupKeeps
  <1>6. SomeLoads(<<>>)
    <2>1. <<>> = [m \in 1..0 |-> <<>>[m]] /\ \A m \in 1..0 : IsAccount(<<>>[m])
      OBVIOUS
    <2> QED
      BY <2>1 DEF SomeLoads
  <1>7. \A tx : MemberTyped("Running", <<>>, tx)
    BY <1>6 DEF MemberTyped
  <1>8. LoopTyped("execute", k, sent)
    <2>1. InStore(k.flushing) /\ k.loaded = [i \in ToSet(k.admitted) |-> k.loaded[i]]
      BY <1>1, <1>5, FlushTyped
    <2>2. \A i \in ToSet(k.admitted) : k.outcome[i] = "Running" /\ k.loaded[i] = <<>>
      BY <1>1, <1>5
    <2>3. \A i \in ToSet(k.admitted) : MemberTyped(k.outcome[i], k.loaded[i], At(k, sent, i))
      BY <1>7, <2>2
    <2> QED
      BY <2>1, <2>3 DEF LoopTyped
  <1>9. "execute" \in Places
    BY DEF Places
  <1> QED
    BY <1>3, <1>4, <1>8, <1>9, TypedMove

LEMMA RecordTyped ==
    ASSUME Inv, TypedLoops(pc, job, sent), NEW w \in Worker, Record(w)
    PROVE  TypedLoops(pc', job', sent') /\ UNCHANGED accounts
  <1>1. /\ pc[w] = "execute" /\ UNCHANGED <<sent, accounts, job>>
        /\ pc' = [pc EXCEPT ![w] = "collect"]
    BY DEF Record, ExecutionEnded
  <1>2. Moves(w, "collect", job[w]) /\ "collect" \in Places
    BY <1>1, PlaceOnly DEF Places
  <1>3. LoopTyped("collect", job[w], sent)
    BY <1>1 DEF TypedLoops, LoopTyped
  <1> QED
    BY <1>1, <1>2, <1>3, TypedMove

\* The members that go on to the commit have succeeded.
LEMMA CollectResultsTyped ==
    ASSUME Inv, TypedLoops(pc, job, sent), NEW w \in Worker, CollectResults(w)
    PROVE  TypedLoops(pc', job', sent') /\ UNCHANGED accounts
  <1> DEFINE j == job[w]
             M == ToSet(j.admitted)
  <1>1. pc[w] = "collect" /\ Fields(j) /\ UNCHANGED <<sent, accounts>>
    BY LoopHere, Zenon DEF CollectResults
  <1>2. PICK F : /\ F = {i \in M : j.outcome[i] # "Ok"}
                 /\ Moves(w, "commit", WithOverlays(j, Collected(j, F), Those(j.admitted, M \ F)))
    BY CollectResultsIs, Zenon
  <1>3. PICK r, o : r = Collected(j, F) /\ o = Those(j.admitted, M \ F)
    OBVIOUS
  <1>4. PICK k : k = WithOverlays(j, r, o)
    OBVIOUS
  <1>5. k.batch = j.batch /\ k.overlays = o /\ k.flushing = j.flushing /\ k.loaded = j.loaded
    BY <1>1, <1>4, AssignOverlays, AssignGroupKeeps
  <1>6. \A i \in M : MemberTyped(j.outcome[i], j.loaded[i], At(j, sent, i))
    BY <1>1 DEF TypedLoops, LoopTyped
  <1>7. ToSet(o) \subseteq M \ F
    <2>1. j.admitted \in Seq(DOMAIN j.batch)
      BY <1>1, LoopHere DEF LoopOk, GroupOk, HasGroup
    <2>2. ToSet(o) = M \cap (M \ F)
      BY <1>3, <2>1, ThoseAre, Zenon
    <2> QED
      BY <2>2
  <1>8. \A i \in ToSet(o) : TypedOf(At(j, sent, i), j.loaded[i])
    <2>1. \A i \in M \ F : j.outcome[i] = "Ok"
      BY <1>2
    <2> QED
      BY <1>6, <1>7, <2>1 DEF MemberTyped
  <1>9. LoopTyped("commit", k, sent)
    <2>1. \A i \in ToSet(k.overlays) : TypedOf(At(k, sent, i), k.loaded[i])
      BY <1>5, <1>8 DEF At
    <2> QED
      BY <1>5, <2>1, FlushTyped DEF LoopTyped
  <1>10. Moves(w, "commit", k) /\ "commit" \in Places
    BY <1>2, <1>3, <1>4, Zenon DEF Places
  <1> QED
    BY <1>1, <1>9, <1>10, TypedMove

\* What a commit flushes are the accounts of a transaction that has succeeded.
LEMMA BeginFlushTyped ==
    ASSUME Inv, TypedLoops(pc, job, sent), NEW w \in Worker, BeginFlush(w)
    PROVE  TypedLoops(pc', job', sent') /\ UNCHANGED accounts
  <1> DEFINE j == job[w]
  <1>1. /\ Fields(j) /\ job = [v \in Worker |-> job[v]] /\ pc[w] = "commit" /\ j.overlays # <<>>
        /\ UNCHANGED <<sent, accounts>> /\ pc' = pc
        /\ j.overlays \in Seq(DOMAIN j.batch)
    BY LoopHere DEF BeginFlush, LoopOk, GroupOk
  <1>2. PICK i, o, t : i = Head(j.overlays) /\ o = j.overlays /\ t = Tail(j.overlays)
    OBVIOUS
  <1>3. i \in ToSet(o) /\ i \in DOMAIN j.batch /\ ToSet(t) \subseteq ToSet(o)
    <2>1. o \in Seq(DOMAIN j.batch) /\ o # <<>>
      BY <1>1, <1>2
    <2>2. o[1] = i /\ 1 \in DOMAIN o
      BY <1>2, <2>1
    <2>3. \A m \in DOMAIN t : m + 1 \in DOMAIN o /\ t[m] = o[m + 1]
      BY <1>2, <2>1
    <2> QED
      BY <2>1, <2>2, <2>3 DEF ToSet
  <1>4. PICK tx, l : tx = TxAt(w, i) /\ l = j.loaded[i]
    OBVIOUS
  <1>5. \A x \in ToSet(o) : TypedOf(At(j, sent, x), j.loaded[x])
    BY <1>1, <1>2 DEF TypedLoops, LoopTyped
  <1>6. TypedOf(tx, l) /\ tx.account_keys \in Seq(Pubkey)
    <2>1. At(j, sent, i) = tx
      BY <1>4 DEF At, TxAt
    <2>2. tx \in Tx
      BY <1>3, <1>4, BatchIsSent
    <2> QED
      BY <1>3, <1>4, <1>5, <2>1, <2>2, BankingConstants
  <1>7. PICK e : e = overlay_of(tx, l)
    OBVIOUS
  <1>8. InStore(e)
    <2>1. /\ DOMAIN e = KeysOf(tx) /\ KeysOf(tx) \subseteq Pubkey
          /\ \A key \in KeysOf(tx) : \E n \in 1..Len(tx.account_keys) : e[key] = l[n]
      BY <1>6, <1>7, OverlayOf
    <2>2. PICK keys \in Seq(Pubkey) : keys = tx.account_keys
      BY <1>6
    <2>3. \A n \in 1..Len(keys) : IsAccount(l[n])
      BY <1>6, <2>2 DEF TypedOf, AreAccounts
    <2> QED
      BY <2>1, <2>2, <2>3 DEF InStore
  <1>9. PICK k : k = WithFlush(j, t, e)
    OBVIOUS
  <1>10. Moves(w, "commit", k)
    <2>1. job' = [job EXCEPT ![w].overlays = t, ![w].flushing = e]
      BY <1>2, <1>4, <1>7, Zenon DEF BeginFlush
    <2>2. job' = [job EXCEPT ![w] = k]
      BY <1>1, <1>9, <2>1, Zenon DEF WithFlush
    <2>3. pc' = [pc EXCEPT ![w] = "commit"]
      BY <1>1, LoopHere
    <2> QED
      BY <2>2, <2>3, Zenon DEF Moves
  <1>11. k.batch = j.batch /\ k.overlays = t /\ k.flushing = e /\ k.loaded = j.loaded
    BY <1>1, <1>9, AssignFlush, AssignGroupKeeps
  <1>12. LoopTyped("commit", k, sent)
    <2>1. \A x \in ToSet(k.overlays) : TypedOf(At(k, sent, x), k.loaded[x])
      BY <1>3, <1>5, <1>11 DEF At
    <2> QED
      BY <1>8, <1>11, <2>1 DEF LoopTyped
  <1>13. "commit" \in Places
    BY DEF Places
  <1> QED
    BY <1>1, <1>10, <1>12, <1>13, TypedMove

LEMMA FlushAccountTyped ==
    ASSUME Inv, TypedLoops(pc, job, sent), InStore(accounts), NEW w \in Worker, NEW key,
           FlushAccount(w, key)
    PROVE  TypedLoops(pc', job', sent') /\ InStore(accounts')
  <1> DEFINE j == job[w]
  <1>1. /\ Fields(j) /\ job = [v \in Worker |-> job[v]] /\ pc[w] = "commit"
        /\ key \in DOMAIN j.flushing /\ UNCHANGED sent /\ pc' = pc
        /\ accounts' = Store(accounts, key, j.flushing[key])
    BY LoopHere DEF FlushAccount
  <1>2. PICK e : e = [x \in DOMAIN j.flushing \ {key} |-> j.flushing[x]]
    OBVIOUS
  <1>3. PICK k : k = WithFlush(j, j.overlays, e)
    OBVIOUS
  <1>4. Moves(w, "commit", k)
    <2>1. job' = [job EXCEPT ![w] = [j EXCEPT !.flushing = e]]
      BY <1>1, <1>2 DEF FlushAccount
    <2>2. [j EXCEPT !.flushing = e] = k
      BY <1>1, <1>3, AssignOne, Zenon
    <2>3. pc' = [pc EXCEPT ![w] = "commit"]
      BY <1>1, LoopHere
    <2> QED
      BY <2>1, <2>2, <2>3, Zenon DEF Moves
  <1>5. k.batch = j.batch /\ k.overlays = j.overlays /\ k.flushing = e /\ k.loaded = j.loaded
    BY <1>1, <1>3, AssignFlush, AssignGroupKeeps
  <1>6. InStore(j.flushing)
    BY FlushTyped
  <1>7. LoopTyped("commit", k, sent)
    <2>1. InStore(k.flushing)
      BY <1>2, <1>5, <1>6 DEF InStore
    <2>2. \A x \in ToSet(j.overlays) : TypedOf(At(j, sent, x), j.loaded[x])
      BY <1>1 DEF TypedLoops, LoopTyped
    <2>3. \A x \in ToSet(k.overlays) : TypedOf(At(k, sent, x), k.loaded[x])
      BY <1>5, <2>2 DEF At
    <2> QED
      BY <2>1, <2>3 DEF LoopTyped
  <1>8. InStore(accounts')
    <2>1. PICK a : a = j.flushing[key]
      OBVIOUS
    <2>2. key \in Pubkey /\ IsAccount(a)
      BY <1>1, <1>6, <2>1 DEF InStore
    <2>3. InStore(Store(accounts, key, a))
      BY <2>2 DEF InStore, Store
    <2> QED
      BY <1>1, <2>1, <2>3
  <1>9. "commit" \in Places
    BY DEF Places
  <1> QED
    BY <1>1, <1>4, <1>7, <1>8, <1>9, TypedMove

\* A step of a loop keeps what its threads hold, and the store.
LEMMA LoopKeepsTypes ==
    ASSUME TypedTxs, Inv, TypedLoops(pc, job, sent), InStore(accounts), NEW w \in Worker, WorkerStep(w)
    PROVE  TypedLoops(pc', job', sent') /\ InStore(accounts')
  <1> DEFINE G == TypedLoops(pc', job', sent') /\ InStore(accounts')
  <1>0. UNCHANGED accounts => InStore(accounts')
    OBVIOUS
  <1>1. ASSUME \/ Stop(w) \/ Poll(w) \/ ReceiveEnds(w) \/ VerifyPanics(w) \/ Cancelled(w)
               \/ FinishBatch(w) \/ WouldFit(w) \/ AdmissionEnds(w) \/ AccountsInUse(w)
               \/ RollBackCost(w) \/ RecordFails(w) \/ RecordPanics(w) \/ \E i : ExecutePanics(w, i)
        PROVE  G
    BY <1>0, <1>1, PlaceTyped
  <1>2. ASSUME \/ Receive(w) \/ VerifyAndSchedule(w) \/ NextGroup(w) \/ WouldNotFit(w) \/ AddCost(w)
               \/ Requeue(w) \/ ReleaseGroup(w)
        PROVE  G
    BY <1>0, <1>2, AssignTyped
  <1>3. ASSUME LockAccounts(w) PROVE G
    BY <1>0, <1>3, LockAccountsTyped
  <1>4. ASSUME NEW i \in DOMAIN job[w].outcome, PreflightFails(w, i) PROVE G
    BY <1>0, <1>4, PreflightFailsTyped
  <1>5. ASSUME NEW i \in DOMAIN job[w].outcome, LoadAccount(w, i) PROVE G
    BY <1>0, <1>5, LoadAccountTyped
  <1>6. ASSUME NEW i \in DOMAIN job[w].outcome, Execute(w, i) PROVE G
    BY <1>0, <1>6, ExecuteTyped
  <1>7. ASSUME Record(w) PROVE G
    BY <1>0, <1>7, RecordTyped
  <1>8. ASSUME CollectResults(w) PROVE G
    BY <1>0, <1>8, CollectResultsTyped
  <1>9. ASSUME BeginFlush(w) PROVE G
    BY <1>0, <1>9, BeginFlushTyped
  <1>10. ASSUME NEW key, FlushAccount(w, key) PROVE G
    BY <1>10, FlushAccountTyped
  <1> HIDE DEF G
  <1>11. G
    BY <1>1, <1>2, <1>3, <1>4, <1>5, <1>6, <1>7, <1>8, <1>9, <1>10, Zenon DEF WorkerStep
  <1> QED
    BY <1>11 DEF G

\* What has been sent stays.
LEMMA SendKeepsTypes ==
    ASSUME Inv, TypedLoops(pc, job, sent), NEW tx \in Tx, SendTransaction(tx)
    PROVE  TypedLoops(pc', job', sent') /\ UNCHANGED accounts
  <1>1. sent' = Append(sent, tx) /\ UNCHANGED <<accounts, job, pc>>
    BY DEF SendTransaction
  <1>2. sent \in Seq(Tx) /\ DOMAIN fate = 1..Len(sent)
    BY LengthType DEF Inv, Shape
  <1>3. \A n \in 1..Len(sent) : sent'[n] = sent[n]
    BY <1>1, <1>2
  <1>4. ASSUME NEW w \in Worker PROVE LoopTyped(pc[w], job[w], sent')
    <2>1. PICK j, p, s : j = job[w] /\ p = pc[w] /\ s = sent'
      OBVIOUS
    <2>2. LoopOk(p, j, fate)
      BY <2>1, LoopHere
    <2>3. ASSUME NEW i \in DOMAIN j.batch PROVE At(j, s, i) = At(j, sent, i)
      <3>1. j.batch[i] \in 1..Len(sent)
        BY <1>2, <2>2 DEF LoopOk, BatchOk
      <3> QED
        BY <1>3, <2>1, <3>1 DEF At
    <2>4. LoopTyped(p, j, sent)
      BY <2>1 DEF TypedLoops
    <2>5. LoopTyped(p, j, s)
      <3>1. ASSUME p \in {"execute", "collect"}, NEW i \in ToSet(j.admitted)
            PROVE  At(j, s, i) = At(j, sent, i)
        <4>1. j.admitted \in Seq(DOMAIN j.batch)
          BY <2>2, <3>1 DEF LoopOk, GroupOk, HasGroup
        <4>2. i \in DOMAIN j.batch
          BY <3>1, <4>1 DEF ToSet
        <4> QED
          BY <2>3, <4>2
      <3>2. ASSUME p = "commit", NEW i \in ToSet(j.overlays)
            PROVE  At(j, s, i) = At(j, sent, i)
        <4>1. j.overlays \in Seq(DOMAIN j.batch)
          BY <2>2, <3>2 DEF LoopOk, GroupOk
        <4>2. i \in DOMAIN j.batch
          BY <3>2, <4>1 DEF ToSet
        <4> QED
          BY <2>3, <4>2
      <3> QED
        BY <2>4, <3>1, <3>2, Zenon DEF LoopTyped
    <2> QED
      BY <2>1, <2>5, Zenon
  <1> QED
    BY <1>1, <1>4 DEF TypedLoops

\* A counter that wraps stays a u64.
LEMMA WrapTyped ==
    ASSUME NEW a \in 0..U64_MAX, NEW b \in 0..U64_MAX
    PROVE  wrapping_add(a, b) \in 0..U64_MAX /\ wrapping_sub(a, b) \in 0..U64_MAX
  <1>1. PICK m \in Nat : m = U64_MAX + 1 /\ m > 0
    BY U64Assumption
  <1>2. PICK x, y \in Nat : x = a + b /\ y = a + U64_MAX + 1 - b
    BY U64Assumption
  <1>3. x % m \in 0..(m - 1) /\ y % m \in 0..(m - 1)
    BY <1>1, <1>2
  <1>4. m - 1 = U64_MAX
    BY <1>1, U64Assumption
  <1> QED
    BY <1>1, <1>2, <1>3, <1>4, Zenon DEF wrapping_add, wrapping_sub

\* Taking costs back keeps the block's cost a u64.
LEMMA RefundTyped ==
    ASSUME cost_tracker.block_cost \in 0..U64_MAX, NEW w, NEW S, NEW indices \in Seq(S),
           \A i \in S : CostAt(w, i).sum \in 0..U64_MAX
    PROVE  Refund(w, indices).block_cost \in 0..U64_MAX
  <1>1. PICK st : RefundStepByStep(st, w, indices)
    BY RefundSteps
  <1>2. PICK n : n = Len(indices)
    OBVIOUS
  <1> DEFINE P(k) == st[k].block_cost \in 0..U64_MAX
             Z == {k \in 1..n : P(k)}
  <1>3. n \in Nat /\ \A m \in 1..n : indices[m] \in S
    BY <1>2
  <1>4. P(0)
    BY <1>1 DEF RefundStepByStep
  <1>5. ASSUME NEW k \in 1..n, P(k - 1) PROVE P(k)
    <2>1. PICK a, c : a = st[k - 1] /\ c = CostAt(w, indices[k])
      OBVIOUS
    <2>2. st[k] = subtract_cost(a, c)
      BY <1>1, <1>2, <2>1, Zenon DEF RefundStepByStep
    <2>3. a.block_cost \in 0..U64_MAX /\ c.sum \in 0..U64_MAX
      BY <1>3, <1>5, <2>1
    <2>4. subtract_cost(a, c).block_cost = wrapping_sub(a.block_cost, c.sum)
      BY DEF subtract_cost
    <2> QED
      BY <2>2, <2>3, <2>4, WrapTyped
  <1>6. P(n)
    <2>1. ASSUME n # 0 PROVE n \in Z
      <3> HIDE DEF P
      <3>1. \A k \in 1..n : (k = 1 \/ k - 1 \in Z) => k \in Z
        <4> SUFFICES ASSUME NEW k \in 1..n, k = 1 \/ k - 1 \in Z PROVE k \in Z
          OBVIOUS
        <4>1. P(k - 1)
          <5>1. CASE k = 1
            BY <1>4, <5>1
          <5>2. CASE k - 1 \in Z
            BY <5>2 DEF Z
          <5> QED
            BY <5>1, <5>2
        <4> QED
          BY <1>5, <4>1 DEF Z
      <3>2. Z \in SUBSET (1..n)
        BY DEF Z
      <3> HIDE DEF Z
      <3>3. Z = 1..n
        BY <1>3, <2>1, <3>1, <3>2, StrongInduction
      <3> QED
        BY <1>3, <2>1, <3>3
    <2> QED
      BY <1>4, <2>1 DEF Z
  <1> QED
    BY <1>1, <1>2, <1>6 DEF RefundStepByStep

\* So does every step of a loop.
LEMMA LoopKeepsCost ==
    ASSUME TypedTxs, Inv, cost_tracker.block_cost \in 0..U64_MAX, NEW w \in Worker, WorkerStep(w)
    PROVE  cost_tracker'.block_cost \in 0..U64_MAX
  <1> DEFINE j == job[w]
  <1>1. ASSUME NEW i \in DOMAIN j.batch PROVE CostAt(w, i).sum \in 0..U64_MAX
    <2>1. HasCost(TxAt(w, i))
      BY BatchIsSent DEF TypedTxs
    <2> QED
      BY <2>1, CostIsU64 DEF CostAt
  <1>2. LoopOk(pc[w], j, fate)
    BY LoopHere
  <1>3. CASE FinishBatch(w)
    BY <1>3, U64Assumption DEF FinishBatch, NewTracker
  <1>4. CASE AddCost(w)
    <2>1. PICK i, t : i = Head(j.to_admit) /\ t = j.to_admit
      OBVIOUS
    <2>2. i \in DOMAIN j.batch
      <3>1. t \in Seq(DOMAIN j.batch) /\ t # <<>>
        BY <1>2, <1>4, <2>1 DEF AddCost, LoopOk, GroupOk, HasGroup
      <3> QED
        BY <2>1, <3>1
    <2>3. PICK a, c : a = cost_tracker /\ c = CostAt(w, i)
      OBVIOUS
    <2>4. cost_tracker' = add_cost(a, c)
      BY <1>4, <2>1, <2>3, Zenon DEF AddCost
    <2>5. add_cost(a, c).block_cost = wrapping_add(a.block_cost, c.sum)
      BY Zenon DEF add_cost
    <2>6. a.block_cost \in 0..U64_MAX /\ c.sum \in 0..U64_MAX
      BY <1>1, <2>2, <2>3
    <2> QED
      BY <2>4, <2>5, <2>6, WrapTyped
  <1>5. CASE RollBackCost(w)
    <2>1. PICK i, t : i = Head(j.admitted) /\ t = j.admitted
      OBVIOUS
    <2>2. i \in DOMAIN j.batch
      <3>1. t \in Seq(DOMAIN j.batch) /\ t # <<>>
        BY <1>2, <1>5, <2>1 DEF RollBackCost, LoopOk, GroupOk, HasGroup
      <3> QED
        BY <2>1, <3>1
    <2>3. PICK a, c : a = cost_tracker /\ c = CostAt(w, i)
      OBVIOUS
    <2>4. cost_tracker' = subtract_cost(a, c)
      BY <1>5, <2>1, <2>3, Zenon DEF RollBackCost
    <2>5. subtract_cost(a, c).block_cost = wrapping_sub(a.block_cost, c.sum)
      BY DEF subtract_cost
    <2>6. a.block_cost \in 0..U64_MAX /\ c.sum \in 0..U64_MAX
      BY <1>1, <2>2, <2>3
    <2> QED
      BY <2>4, <2>5, <2>6, WrapTyped
  <1>6. CASE CollectResults(w)
    <2>1. j.admitted \in Seq(DOMAIN j.batch)
      BY <1>2, <1>6, Zenon DEF CollectResults, LoopOk, GroupOk, HasGroup
    <2>2. PICK T : cost_tracker' = Refund(w, Those(j.admitted, T))
      BY <1>6, Zenon DEF CollectResults
    <2>3. Those(j.admitted, T) \in Seq(DOMAIN j.batch)
      BY <2>1, ThoseAre, Zenon
    <2> QED
      BY <1>1, <2>2, <2>3, RefundTyped
  <1>7. UNCHANGED cost_tracker \/ FinishBatch(w) \/ AddCost(w) \/ RollBackCost(w) \/ CollectResults(w)
    BY Zenon DEF WorkerStep, Stop, Poll, Receive, ReceiveEnds, VerifyPanics, Cancelled, VerifyAndSchedule,
                 NextGroup, WouldFit, WouldNotFit, AdmissionEnds, LockAccounts, AccountsInUse, Requeue,
                 PreflightFails, LoadAccount, Execute, ExecutePanics, Record, RecordFails,
                 RecordPanics, Unwind, BeginFlush,
                 FlushAccount, ReleaseGroup
  <1> QED
    BY <1>3, <1>4, <1>5, <1>6, <1>7

LEMMA TypesKept ==
    ASSUME TypedTxs, Inv, TypedInv, [Next]_vars
    PROVE  TypedInv'
  <1>1. CASE \E tx \in Tx : SendTransaction(tx)
    <2>1. PICK tx \in Tx : SendTransaction(tx)
      BY <1>1
    <2>2. UNCHANGED cost_tracker
      BY <2>1 DEF SendTransaction
    <2> QED
      BY <2>1, <2>2, SendKeepsTypes DEF TypedInv
  <1>2. CASE \E w \in Worker : WorkerStep(w)
    BY <1>2, LoopKeepsTypes, LoopKeepsCost DEF TypedInv
  <1>3. CASE Exit \/ PohStops \/ Terminated \/ UNCHANGED vars
    <2>1. UNCHANGED <<sent, accounts, job, pc, cost_tracker>>
      BY <1>3, Zenon DEF Exit, PohStops, Terminated, vars
    <2> QED
      BY <2>1 DEF TypedInv
  <1> QED
    BY <1>1, <1>2, <1>3 DEF Next

LEMMA TypesAtStart ==
    ASSUME TypedTxs, Init
    PROVE  TypedInv
  <1>1. /\ accounts = InitAccounts /\ cost_tracker = NewTracker
        /\ pc = [w \in Worker |-> "head"] /\ job = [w \in Worker |-> EmptyJob]
    BY DEF Init
  <1>2. cost_tracker.block_cost \in 0..U64_MAX
    BY <1>1, U64Assumption DEF NewTracker
  <1>3. ASSUME NEW w \in Worker PROVE LoopTyped(pc[w], job[w], sent)
    <2>1. pc[w] = "head" /\ job[w] = EmptyJob
      BY <1>1
    <2> QED
      BY <2>1, EmptyJobTyped DEF LoopTyped
  <1> QED
    BY <1>1, <1>2, <1>3 DEF TypedInv, TypedLoops, TypedTxs

\* Fates, the queue, places and batches have their types.
LEMMA ShapeTypes ==
    ASSUME Inv
    PROVE  /\ Len(fate) = Len(sent) /\ ToSet(fate) \subseteq Fates /\ ToSet(channel) \subseteq DOMAIN sent
           /\ \A w \in Worker : pc[w] \in Places /\ Len(job[w].batch) <= BATCH_SIZE_LIMIT
  <1>1. fate \in [1..Len(sent) -> Fates] /\ Len(sent) \in Nat /\ DOMAIN sent = 1..Len(sent)
    BY LengthType DEF Inv, Shape
  <1>2. fate \in Seq(Fates) /\ Len(fate) = Len(sent)
    BY <1>1, FunctionIsSeq
  <1>3. channel \in Seq(DOMAIN fate) /\ DOMAIN fate = DOMAIN sent
    BY <1>1 DEF Inv, PipelineOk, QueueOk
  <1> QED
    BY <1>1, <1>2, <1>3, LoopHere DEF ToSet

\* In every reachable state of the pipeline the store has accounts only, balances and the
\* cost of the block are u64 values, and the queue and the fates are of what was sent.
THEOREM BankingTypes ==
    ASSUME TypedTxs
    PROVE  Spec => []TypeOK
  <1>1. Init => TypedInv
    BY TypesAtStart
  <1>2. Inv /\ TypedInv /\ [Next]_vars => TypedInv'
    BY TypesKept
  <1>3. Inv /\ TypedInv /\ Guards => TypeOK
    <2> SUFFICES ASSUME Inv, TypedInv, Guards PROVE TypeOK
      OBVIOUS
    <2>1. freeze_lock_count \in Nat
      <3>1. IsFiniteSet(InGroup)
        BY BankingConstants, FS_Subset DEF InGroup
      <3> QED
        BY <3>1, FS_CardinalityType DEF Guards
    <2>2. /\ DOMAIN accounts \subseteq Pubkey
          /\ \A key \in DOMAIN accounts : accounts[key].lamports \in 0..U64_MAX
      BY DEF TypedInv, InStore, IsAccount
    <2> QED
      BY <2>1, <2>2, ShapeTypes DEF TypedInv, TypeOK
  <1> QED
    BY <1>1, <1>2, <1>3, InvHolds, GuardsHold, PTL DEF Spec

-----------------------------------------------------------------------------
\* The transactions of src/src/bin/client.rs keep to Discipline, except for a transfer
\* from or to the system program's own key.

\* create_transfer_transaction.
IsClientTransfer(tx) ==
    \E from, to, ix, amount :
        /\ from # SYSTEM_PROGRAM_ID /\ to # SYSTEM_PROGRAM_ID
        /\ tx.account_keys = <<from, to, SYSTEM_PROGRAM_ID>>
        /\ tx.instructions = <<ix>>
        /\ ix.program_id = SYSTEM_PROGRAM_ID /\ ix.data = System!TransferData(amount)
        /\ ix.accounts = <<[pubkey |-> from, is_signer |-> TRUE, is_writable |-> TRUE],
                           [pubkey |-> to, is_signer |-> FALSE, is_writable |-> TRUE]>>

\* It names and writes the two accounts, and loads the program's as well.
LEMMA TransferKeys ==
    ASSUME NEW tx, IsClientTransfer(tx)
    PROVE  UnnamedKeys(tx) \subseteq {SYSTEM_PROGRAM_ID} /\ SYSTEM_PROGRAM_ID \notin Writes(tx)
  <1>1. PICK from, to, ix, amount :
           /\ from # SYSTEM_PROGRAM_ID /\ to # SYSTEM_PROGRAM_ID
           /\ tx.account_keys = <<from, to, SYSTEM_PROGRAM_ID>> /\ tx.instructions = <<ix>>
           /\ ix.accounts = <<[pubkey |-> from, is_signer |-> TRUE, is_writable |-> TRUE],
                              [pubkey |-> to, is_signer |-> FALSE, is_writable |-> TRUE]>>
    BY Zenon DEF IsClientTransfer
  <1>2. PICK a, b : /\ a = [pubkey |-> from, is_signer |-> TRUE, is_writable |-> TRUE]
                    /\ b = [pubkey |-> to, is_signer |-> FALSE, is_writable |-> TRUE]
    OBVIOUS
  <1>3. a.pubkey = from /\ b.pubkey = to /\ a.is_writable /\ b.is_writable
    BY <1>2
  <1>4. ToSet(<<ix>>) = {ix} /\ ToSet(<<a, b>>) = {a, b}
    BY DEF ToSet
  <1>5. Metas(tx) = {a, b}
    <2>1. ix.accounts = <<a, b>>
      BY <1>1, <1>2, Zenon
    <2>2. ToSet(tx.instructions) = {ix} /\ ToSet(ix.accounts) = {a, b}
      BY <1>1, <1>4, <2>1, Zenon
    <2> QED
      BY <2>2 DEF Metas
  <1>6. ToSet(tx.account_keys) = {from, to, SYSTEM_PROGRAM_ID}
    BY <1>1 DEF ToSet
  <1>7. UnnamedKeys(tx) \subseteq {SYSTEM_PROGRAM_ID}
    BY <1>3, <1>5, <1>6 DEF UnnamedKeys
  <1>8. Writes(tx) \subseteq {from, to}
    BY <1>3, <1>5 DEF Writes, extract_sets
  <1> QED
    BY <1>1, <1>7, <1>8

\* Running a transaction of one instruction.
LEMMA OneInstruction ==
    ASSUME NEW tx, NEW ix, tx.instructions = <<ix>>, NEW F
    PROVE  execute_instructions(tx, F) =
              IF ~InfosOk(ix, tx.account_keys) THEN Fail("InternalError", F)
              ELSE execute(ix, NewContext(ix), F, prepare_account_infos(ix, tx.account_keys))
  <1> DEFINE op(state, x) ==
                IF state.result # "Ok" THEN state
                ELSE IF ~InfosOk(x, tx.account_keys) THEN Fail("InternalError", state.loaded)
                ELSE execute(x, NewContext(x), state.loaded,
                             prepare_account_infos(x, tx.account_keys))
             base == Succeed(F)
             seq == <<ix>>
             Is(iter) == iter = [s \in SUBSET (DOMAIN seq) |->
                 IF s = {} THEN base ELSE op(iter[s \ {Max(s)}], seq[Max(s)])]
             one == [s \in SUBSET (DOMAIN seq) |-> IF s = {} THEN base ELSE op(base, ix)]
  <1>1. execute_instructions(tx, F) = (CHOOSE iter : Is(iter))[DOMAIN seq]
    BY Zenon DEF execute_instructions, FoldLeft, MapThenFoldSet
  <1>2. DOMAIN seq = {1} /\ seq[1] = ix
    OBVIOUS
  <1>3. Max({1}) = 1
    <2>1. {1} \in SUBSET (1..1) /\ {1} # {} /\ 1 \in Nat
      OBVIOUS
    <2>2. PICK s : s = {1}
      OBVIOUS
    <2>3. Max(s) \in s
      BY <2>1, <2>2, MaxOfPositions
    <2> QED
      BY <2>2, <2>3
  <1>4. \A s \in SUBSET {1} : s = {} \/ s = {1}
    OBVIOUS
  <1> HIDE DEF seq, op, base
  <1>5. one = [s \in SUBSET (DOMAIN seq) |-> IF s = {} THEN base ELSE op(one[s \ {Max(s)}], seq[Max(s)])]
    <2>1. one[{}] = base /\ {1} \ {1} = {}
      BY <1>2
    <2>2. ASSUME NEW s \in SUBSET (DOMAIN seq), s # {}
          PROVE  op(one[s \ {Max(s)}], seq[Max(s)]) = op(base, ix)
      <3>1. s = {1}
        BY <1>2, <1>4, <2>2, Zenon
      <3> HIDE DEF one
      <3> QED
        BY <1>2, <1>3, <2>1, <3>1, Zenon
    <2> QED
      BY <2>2, Zenon
  <1>6. PICK iter : Is(iter) /\ execute_instructions(tx, F) = iter[DOMAIN seq]
    <2>1. Is(one)
      BY <1>5, Zenon
    <2> HIDE DEF Is, one
    <2> QED
      BY <1>1, <2>1, Zenon
  <1>7. iter[{}] = base /\ iter[{1}] = op(iter[{1} \ {1}], ix)
    <2>1. {} \in SUBSET (DOMAIN seq) /\ {1} \in SUBSET (DOMAIN seq) /\ {1} # {}
      BY <1>2
    <2>2. \A s \in SUBSET (DOMAIN seq) :
             iter[s] = IF s = {} THEN base ELSE op(iter[s \ {Max(s)}], seq[Max(s)])
      BY <1>6
    <2> HIDE DEF Is
    <2>3. iter[{1}] = op(iter[{1} \ {Max({1})}], seq[Max({1})])
      BY <2>1, <2>2, Zenon
    <2> QED
      BY <1>2, <1>3, <2>1, <2>2, <2>3, Zenon
  <1>8. execute_instructions(tx, F) = op(base, ix)
    <2>1. {1} \ {1} = {}
      OBVIOUS
    <2> QED
      BY <1>2, <1>6, <1>7, <2>1, Zenon
  <1>9. base.result = "Ok" /\ base.loaded = F
    BY DEF base, Succeed
  <1> QED
    BY <1>8, <1>9, Zenon DEF op

\* Position finds a key that is in the list.
LEMMA FirstPosition ==
    ASSUME NEW S, NEW keys \in Seq(S), NEW key \in ToSet(keys)
    PROVE  Position(keys, key) \in 1..Len(keys) /\ keys[Position(keys, key)] = key
  <1> DEFINE I == {i \in 1..Len(keys) : keys[i] = key}
  <1>1. Position(keys, key) = IF I # {} THEN Min(I) ELSE 0
    BY Zenon DEF Position, SelectInSeq
  <1>2. I \in SUBSET Nat /\ I # {}
    BY DEF ToSet
  <1>3. Min(I) \in I
    <2> HIDE DEF I
    <2>1. \E x \in I : \A y \in I : x <= y
      BY <1>2, SmallestElement
    <2> QED
      BY <2>1, Zenon DEF Min
  <1>4. Position(keys, key) \in I
    BY <1>1, <1>2, <1>3, Zenon
  <1> QED
    BY <1>4

\* The program's own account is not touched.
LEMMA TransferKeepsThird ==
    ASSUME NEW tx \in Tx, IsClientTransfer(tx), NEW F, F = [m \in 1..3 |-> F[m]],
           execute_instructions(tx, F).result = "Ok"
    PROVE  execute_instructions(tx, F).loaded[3] = F[3]
  <1>1. PICK from, to, ix, amount :
           /\ from # SYSTEM_PROGRAM_ID /\ to # SYSTEM_PROGRAM_ID
           /\ tx.account_keys = <<from, to, SYSTEM_PROGRAM_ID>> /\ tx.instructions = <<ix>>
           /\ ix.program_id = SYSTEM_PROGRAM_ID /\ ix.data = System!TransferData(amount)
           /\ ix.accounts = <<[pubkey |-> from, is_signer |-> TRUE, is_writable |-> TRUE],
                              [pubkey |-> to, is_signer |-> FALSE, is_writable |-> TRUE]>>
    BY Zenon DEF IsClientTransfer
  <1>2. PICK keys, infos : keys = tx.account_keys /\ infos = prepare_account_infos(ix, keys)
    OBVIOUS
  <1>3. PICK done : done = execute_instructions(tx, F)
    OBVIOUS
  <1>4. done = execute(ix, NewContext(ix), F, infos)
    <2>1. done = IF ~InfosOk(ix, keys) THEN Fail("InternalError", F)
                 ELSE execute(ix, NewContext(ix), F, infos)
      BY <1>1, <1>2, <1>3, OneInstruction, Zenon
    <2>2. Fail("InternalError", F).result # "Ok"
      BY DEF Fail
    <2> QED
      BY <1>3, <2>1, <2>2, Zenon
  <1>5. done = System!entrypoint(NewContext(ix), F, infos)
    <2>1. ix.program_id \in NativePrograms
      BY <1>1 DEF NativePrograms
    <2> QED
      BY <1>1, <1>4, <2>1, ProgramIdsDiffer DEF execute, native_execute
  <1>6. done = System!Transfer(amount, F, infos)
    <2>1. NewContext(ix).instruction_data = System!TransferData(amount)
      BY <1>1 DEF NewContext
    <2>2. /\ System!TransferData(amount).variant = 0 /\ System!TransferData(amount).kinds = <<"u64">>
          /\ System!TransferData(amount).args = <<amount>>
      BY DEF System!TransferData, System!Data
    <2>3. /\ System!Decodes(System!TransferData(amount), 0, <<"u64">>)
          /\ ~System!Decodes(System!TransferData(amount), 1, <<"pubkey">>)
          /\ ~System!Decodes(System!TransferData(amount), 2, <<"u64", "u64", "pubkey">>)
      BY <2>2 DEF System!Decodes
    <2>4. <<amount>>[1] = amount
      OBVIOUS
    <2> QED
      BY <1>5, <2>1, <2>2, <2>3, <2>4 DEF System!entrypoint
  <1>7. done.loaded = System!move_lamports(F, infos[1], infos[2], amount)
    <2>1. done.result = "Ok"
      BY <1>3
    <2> QED
      BY <1>6, <2>1 DEF System!Transfer, System!Fail, System!Succeed
  <1>8. infos[1].index # 3 /\ infos[2].index # 3
    <2>1. keys \in Seq(Pubkey) /\ keys = <<from, to, SYSTEM_PROGRAM_ID>>
      BY <1>1, <1>2, BankingConstants, Zenon
    <2>2. from \in ToSet(keys) /\ to \in ToSet(keys)
      BY <2>1 DEF ToSet
    <2>3. keys[Position(keys, from)] = from /\ keys[Position(keys, to)] = to
      BY <2>1, <2>2, FirstPosition
    <2>4. Position(keys, from) # 3 /\ Position(keys, to) # 3
      BY <1>1, <2>1, <2>3
    <2>5. infos[1].index = Position(keys, from) /\ infos[2].index = Position(keys, to)
      BY <1>1, <1>2 DEF prepare_account_infos
    <2> QED
      BY <2>4, <2>5
  <1>9. \A info, n, G : /\ 3 \in DOMAIN G => (info.index # 3 => System!set_lamports(G, info, n)[3] = G[3])
                        /\ DOMAIN System!set_lamports(G, info, n) = DOMAIN G
    BY DEF System!set_lamports
  <1>10. 3 \in DOMAIN F
    OBVIOUS
  <1>11. System!move_lamports(F, infos[1], infos[2], amount)[3] = F[3]
    <2>1. PICK G : G = System!set_lamports(F, infos[1],
                            System!saturating_sub(System!lamports(F, infos[1]), amount))
      OBVIOUS
    <2>2. G[3] = F[3] /\ 3 \in DOMAIN G
      BY <1>8, <1>9, <1>10, <2>1
    <2>3. System!move_lamports(F, infos[1], infos[2], amount)
             = System!set_lamports(G, infos[2],
                  System!saturating_add(System!lamports(G, infos[2]), amount))
      BY <2>1, Zenon DEF System!move_lamports
    <2> QED
      BY <1>8, <1>9, <2>2, <2>3
  <1> QED
    BY <1>3, <1>7, <1>11

\* Of the keys that client's transfers list only the system program's is not named, and
\* no transfer writes it; a transfer changes only the two accounts it marks writable.
LEMMA TransfersKeepDiscipline ==
    ASSUME \A tx \in Tx : IsClientTransfer(tx)
    PROVE  Discipline
  <1>1. UnnamedKeysUnwritten(Tx)
    BY TransferKeys DEF UnnamedKeysUnwritten, Writes
  <1>2. ASSUME NEW tx \in Tx, NEW V
        PROVE  ChangesOnlyWritable(tx, FirstLoads(tx, V, Len(tx.account_keys)))
    <2>1. PICK from, to, ix :
             /\ tx.account_keys = <<from, to, SYSTEM_PROGRAM_ID>> /\ tx.instructions = <<ix>>
             /\ ix.accounts = <<[pubkey |-> from, is_signer |-> TRUE, is_writable |-> TRUE],
                                [pubkey |-> to, is_signer |-> FALSE, is_writable |-> TRUE]>>
      BY Zenon DEF IsClientTransfer
    <2>2. PICK a, b : /\ a = [pubkey |-> from, is_signer |-> TRUE, is_writable |-> TRUE]
                      /\ b = [pubkey |-> to, is_signer |-> FALSE, is_writable |-> TRUE]
      OBVIOUS
    <2>3. from \in Writes(tx) /\ to \in Writes(tx)
      <3>1. ToSet(<<ix>>) = {ix} /\ ToSet(<<a, b>>) = {a, b}
        BY DEF ToSet
      <3>2. ix.accounts = <<a, b>>
        BY <2>1, <2>2, Zenon
      <3>3. ToSet(tx.instructions) = {ix} /\ ToSet(ix.accounts) = {a, b}
        BY <2>1, <3>1, <3>2, Zenon
      <3>4. a \in Metas(tx) /\ b \in Metas(tx)
        BY <3>3 DEF Metas
      <3>5. a.pubkey = from /\ b.pubkey = to /\ a.is_writable /\ b.is_writable
        BY <2>2
      <3> QED
        BY <3>4, <3>5 DEF Writes, extract_sets
    <2>4. PICK F : F = FirstLoads(tx, V, Len(tx.account_keys))
      OBVIOUS
    <2>5. F = [m \in 1..3 |-> F[m]] /\ DOMAIN tx.account_keys = {1, 2, 3}
      BY <2>1, <2>4 DEF FirstLoads
    <2> SUFFICES ASSUME execute_instructions(tx, F).result = "Ok", NEW n \in DOMAIN tx.account_keys,
                        tx.account_keys[n] \notin Writes(tx)
                 PROVE  execute_instructions(tx, F).loaded[n] = F[n]
      BY <2>4, Zenon DEF ChangesOnlyWritable, Writes
    <2>6. n = 3
      BY <2>1, <2>3, <2>5
    <2> QED
      BY <2>5, <2>6, TransferKeepsThird
  <1> QED
    BY <1>1, <1>2, Zenon DEF Discipline

\* In particular the transfers that the client builds are serializable, as long as none
\* of them is from or to the system program's own key.
COROLLARY TransfersSerial ==
    ASSUME \A tx \in Tx : IsClientTransfer(tx)
    PROVE  Spec => Serializable
BY TransfersKeepDiscipline, Serial
=============================================================================
