------------------------ MODULE ProgramLedgerProofs -------------------------
(***************************************************************************)
(* The native programs over any sequence of transactions, for every set of *)
(* accounts and every workload that keeps to the discipline a theorem      *)
(* names.                                                                  *)
(*                                                                         *)
(* The argument goes from the code up.  What a transaction's accounts come *)
(* to is seen through its loaded copies (View), and each instruction is a  *)
(* relation between the view before it and the one after (SystemAt,        *)
(* TokenAt, LoaderAt).  An account holds what the instructions that name   *)
(* it allow (StoreOk), data only moves on (LaterAt), but for the accounts  *)
(* that are created, and a supply is the sum of its accounts (SupplyOk)    *)
(* unless an account is created again: each relation keeps the three, so a *)
(* transaction does, and Settled and Supplied are invariants.              *)
(***************************************************************************)
EXTENDS ProgramLedger, OperatorProofs, TLAPS

\* The inductive invariant: the store is one of accounts, and what it holds is what the
\* node started with, so that no balance can reach the end of the u64s.
Conserved ==
    /\ clients \in DOMAIN Workload
    /\ IsGenesis(ledger)
    /\ Lamports(ledger) = Lamports(InitAccounts)

\* One transaction, or none.
LEMMA ConservedStep ==
    ASSUME LosslessClients, Conserved, [Next]_vars
    PROVE  Conserved'
  <1>1. CASE Next
    <2>1. PICK tx \in Workload[clients] : Run(tx)
      BY <1>1 DEF Next
    <2>2. Lossless(tx)
      BY <2>1 DEF LosslessClients, Conserved
    <2>3. RunAlone(tx, ledger).result = "Ok" /\ ledger' = RunAlone(tx, ledger).store
          /\ clients' = clients
      BY <2>1, Zenon DEF Run
    <2>4. IsGenesis(ledger') /\ Lamports(ledger') = Lamports(ledger)
      <3>1. IsGenesis(ledger)
        BY DEF Conserved
      <3> QED
        BY <2>2, <2>3, <3>1, LosslessRun
    <2> QED
      BY <2>3, <2>4 DEF Conserved
  <1>2. CASE UNCHANGED vars
    BY <1>2 DEF vars, Conserved
  <1> QED
    BY <1>1, <1>2

\* No program makes or loses lamports, whatever is created, transferred, closed or
\* deployed, in whatever order, and however often a transaction is sent again.
THEOREM LamportsTheorem ==
    ASSUME LosslessClients
    PROVE  Spec => []LamportsConserved
  <1>1. Init => Conserved
    BY DEF Init, Conserved, LosslessClients
  <1>2. Conserved /\ [Next]_vars => Conserved'
    BY ConservedStep
  <1>3. Conserved => LamportsConserved
    BY DEF Conserved, LamportsConserved
  <1> QED
    BY <1>1, <1>2, <1>3, PTL DEF Spec

-----------------------------------------------------------------------------
\* The store as a transaction sees it that has got as far as F: its accounts laid over L.
View(tx, L, F) == Over(L, overlay_of(tx, F))

ViewOf(V, t, L, F) ==
    /\ AreAccounts(V) /\ DOMAIN V = DOMAIN L \cup {t[i] : i \in 1..Len(t)}
    /\ DOMAIN F = 1..Len(t) /\ OneToOne(t, Len(t))
    /\ \A i \in 1..Len(t) : t[i] \in DOMAIN V /\ V[t[i]] = F[i]
    /\ \A key \in DOMAIN V : (\A i \in 1..Len(t) : t[i] # key) => key \in DOMAIN L /\ V[key] = L[key]

\* A view holds the accounts of the transaction where it lists their keys.
LEMMA ViewIs ==
    ASSUME NEW tx, WellFormedTx(tx), ListsOnce(tx), NEW L, AreAccounts(L),
           NEW F, AreAccounts(F), DOMAIN F = DOMAIN tx.account_keys,
           NEW t, t = tx.account_keys, NEW V, V = View(tx, L, F)
    PROVE  ViewOf(V, t, L, F)
  <1>1. PICK n : n = Len(t)
    BY Zenon
  <1>2. n \in Nat /\ DOMAIN t = 1..n /\ OneToOne(t, n)
    BY <1>1 DEF WellFormedTx, ListsOnce
  <1>3. PICK e : e = overlay_of(tx, F)
    OBVIOUS
  <1>4. V = Over(L, e)
    BY <1>3 DEF View
  <1>5. AreAccounts(V) /\ IsOver(V, L, e)
    BY <1>3, <1>4, OverAccounts
  <1>6. OverlayIs(e, t, F)
    BY <1>1, <1>2, <1>3, OverlayAt
  <1>7. DOMAIN e = {t[i] : i \in 1..n}
    BY <1>1, <1>6 DEF OverlayIs
  <1>8. ASSUME NEW i \in 1..n PROVE t[i] \in DOMAIN e /\ e[t[i]] = F[i]
    <2>1. t[i] \in DOMAIN e
      BY <1>7
    <2>2. PICK j \in 1..n : t[j] = t[i] /\ e[t[i]] = F[j]
      BY <1>1, <1>6, <2>1, Zenon DEF OverlayIs
    <2> QED
      BY <1>2, <2>1, <2>2 DEF OneToOne
  <1>9. /\ DOMAIN V = DOMAIN L \cup DOMAIN e
        /\ \A x \in DOMAIN V : V[x] = IF x \in DOMAIN e THEN e[x] ELSE L[x]
    BY <1>5 DEF IsOver
  <1>10. ASSUME NEW i \in 1..n PROVE t[i] \in DOMAIN V /\ V[t[i]] = F[i]
    BY <1>8, <1>9
  <1>11. ASSUME NEW key \in DOMAIN V, \A i \in 1..n : t[i] # key
         PROVE  key \in DOMAIN L /\ V[key] = L[key]
    <2>1. key \notin DOMAIN e
      BY <1>7, <1>11
    <2> QED
      BY <1>9, <2>1
  <1>12. DOMAIN V = DOMAIN L \cup {t[i] : i \in 1..n}
    BY <1>7, <1>9
  <1>13. DOMAIN F = 1..n
    BY <1>2
  <1> QED
    BY <1>1, <1>2, <1>5, <1>10, <1>11, <1>12, <1>13, Zenon DEF ViewOf

-----------------------------------------------------------------------------
\* Everything but the balance.
Same(a, b) == b.data = a.data /\ b.owner = a.owner /\ b.executable = a.executable

\* Nothing but balances changes outside K.
Kept(K, V, W) == DOMAIN W = DOMAIN V /\ \A key \in DOMAIN V \ K : Same(V[key], W[key])

\* The account at k becomes one with this data, owner and flag.
Becomes(k, d, o, e, V, W) ==
    /\ k \in DOMAIN V /\ Kept({k}, V, W)
    /\ W[k].data = d /\ W[k].owner = o /\ W[k].executable = e

\* The data at k is written.
Put(k, d, V, W) == Becomes(k, d, V[k].owner, V[k].executable, V, W)

\* The data at k and at m is written.
PutTwo(k, d, m, e, V, W) ==
    /\ k \in DOMAIN V /\ m \in DOMAIN V /\ k # m /\ Kept({k, m}, V, W)
    /\ W[k].data = d /\ W[k].owner = V[k].owner /\ W[k].executable = V[k].executable
    /\ W[m].data = e /\ W[m].owner = V[m].owner /\ W[m].executable = V[m].executable

\* What stays among the accounts of a transaction stays in the store.
LEMMA ViewKept ==
    ASSUME NEW t, NEW L, NEW F, NEW G, NEW V, NEW W, ViewOf(V, t, L, F), ViewOf(W, t, L, G),
           NEW S, Kept(S, F, G), NEW K, \A i \in S : i \in 1..Len(t) => t[i] \in K
    PROVE  Kept(K, V, W)
  <1>1. DOMAIN W = DOMAIN V
    BY DEF ViewOf
  <1>2. ASSUME NEW key \in DOMAIN V \ K PROVE Same(V[key], W[key])
    <2>1. CASE \A i \in 1..Len(t) : t[i] # key
      <3>1. V[key] = L[key] /\ W[key] = L[key]
        BY <1>1, <2>1, Zenon DEF ViewOf
      <3> QED
        BY <3>1 DEF Same
    <2>2. CASE \E i \in 1..Len(t) : t[i] = key
      <3>1. PICK i \in 1..Len(t) : t[i] = key
        BY <2>2
      <3>2. V[key] = F[i] /\ W[key] = G[i] /\ i \in DOMAIN F \ S
        BY <1>2, <3>1 DEF ViewOf
      <3> QED
        BY <3>2 DEF Kept
    <2> QED
      BY <2>1, <2>2
  <1> QED
    BY <1>1, <1>2 DEF Kept

\* One account of a transaction.
LEMMA ViewBecomes ==
    ASSUME NEW t, NEW L, NEW F, NEW G, NEW V, NEW W, ViewOf(V, t, L, F), ViewOf(W, t, L, G),
           NEW x, NEW d, NEW o, NEW e, Becomes(x, d, o, e, F, G), NEW k, k = t[x]
    PROVE  Becomes(k, d, o, e, V, W) /\ V[k] = F[x]
  <1>1. x \in 1..Len(t) /\ Kept({x}, F, G)
    BY DEF Becomes, ViewOf
  <1>2. k \in DOMAIN V /\ V[k] = F[x] /\ W[k] = G[x]
    BY <1>1 DEF ViewOf
  <1>3. Kept({k}, V, W)
    <2>1. \A i \in {x} : i \in 1..Len(t) => t[i] \in {k}
      OBVIOUS
    <2> QED
      BY <1>1, <2>1, ViewKept
  <1> QED
    BY <1>2, <1>3 DEF Becomes

\* One account whose data is written.
LEMMA ViewPut ==
    ASSUME NEW t, NEW L, NEW F, NEW G, NEW V, NEW W, ViewOf(V, t, L, F), ViewOf(W, t, L, G),
           NEW x \in DOMAIN F, NEW d, DataAt(x, d, F, G), NEW k, k = t[x]
    PROVE  Put(k, d, V, W) /\ V[k] = F[x] /\ k \in DOMAIN V
  <1>1. Becomes(x, d, F[x].owner, F[x].executable, F, G)
    BY DEF DataAt, OnlyData, OnlyAt, Becomes, Kept, Same
  <1>2. Becomes(k, d, F[x].owner, F[x].executable, V, W) /\ V[k] = F[x]
    BY <1>1, ViewBecomes
  <1> QED
    BY <1>2 DEF Put, Becomes

\* Two accounts of a transaction.
LEMMA ViewPutTwo ==
    ASSUME NEW t, NEW L, NEW F, NEW G, NEW V, NEW W, ViewOf(V, t, L, F), ViewOf(W, t, L, G),
           NEW x \in DOMAIN F, NEW d, NEW y \in DOMAIN F, NEW e, x # y, DataAtTwo(x, d, y, e, F, G),
           NEW k, k = t[x], NEW m, m = t[y]
    PROVE  PutTwo(k, d, m, e, V, W) /\ V[k] = F[x] /\ V[m] = F[y]
  <1>1. PICK H : DataAt(x, d, F, H) /\ DataAt(y, e, H, G)
    BY DEF DataAtTwo
  <1>2. /\ Kept({x, y}, F, G)
        /\ G[x].data = d /\ G[x].owner = F[x].owner /\ G[x].executable = F[x].executable
        /\ G[y].data = e /\ G[y].owner = F[y].owner /\ G[y].executable = F[y].executable
    BY <1>1 DEF DataAt, OnlyData, OnlyAt, Kept, Same
  <1>3. x \in 1..Len(t) /\ y \in 1..Len(t)
    BY DEF ViewOf
  <1>4. /\ k \in DOMAIN V /\ V[k] = F[x] /\ W[k] = G[x]
        /\ m \in DOMAIN V /\ V[m] = F[y] /\ W[m] = G[y]
    BY <1>3 DEF ViewOf
  <1>5. k # m
    BY <1>3 DEF ViewOf, OneToOne
  <1>6. Kept({k, m}, V, W)
    <2>1. \A i \in {x, y} : i \in 1..Len(t) => t[i] \in {k, m}
      OBVIOUS
    <2> QED
      BY <1>2, <2>1, ViewKept
  <1> QED
    BY <1>2, <1>4, <1>5, <1>6 DEF PutTwo

-----------------------------------------------------------------------------
\* What an instruction that succeeds does to the store.
Key(ix, i) == ix.accounts[i].pubkey

SystemAt(ix, V, W) ==
    \/ Kept({}, V, W)
    \/ /\ ix.data.variant = 1 /\ Len(ix.accounts) >= 1
       /\ LET k == Key(ix, 1)
          IN  Becomes(k, V[k].data, ix.data.args[1], V[k].executable, V, W)
    \/ /\ Decodes(ix.data, 2, <<"u64", "u64", "pubkey">>) /\ Len(ix.accounts) >= 2
       /\ LET k == Key(ix, 2)
          IN  Becomes(k, Zeros(ix.data.args[2]), ix.data.args[3], V[k].executable, V, W)

MintAt(mint, dest, n, V, W) ==
    /\ mint \in DOMAIN V /\ dest \in DOMAIN V
    /\ Token!IsMint(V[mint].data) /\ Token!IsTokenAccount(V[dest].data)
    /\ Token!UnpackTokenAccount(V[dest].data).mint = mint
    /\ PutTwo(mint, MintedMore(V[mint].data, n), dest, Credited(V[dest].data, n), V, W)

MoveAt(source, dest, n, V, W) ==
    /\ source \in DOMAIN V /\ dest \in DOMAIN V
    /\ Token!IsTokenAccount(V[source].data) /\ Token!IsTokenAccount(V[dest].data)
    /\ Token!UnpackTokenAccount(V[source].data).mint = Token!UnpackTokenAccount(V[dest].data).mint
    /\ ~(Token!UnpackTokenAccount(V[source].data).amount < n)
    /\ PutTwo(source, Debited(V[source].data, n), dest, Credited(V[dest].data, n), V, W)

InitMintAt(mint, authority, V, W) ==
    /\ mint \in DOMAIN V
    /\ Token!IsMint(V[mint].data) /\ ~Token!UnpackMint(V[mint].data).is_initialized
    /\ Put(mint, Token!MintState(authority, 0, TRUE), V, W)

InitAccountAt(k, mint, owner, V, W) ==
    /\ k \in DOMAIN V /\ mint \in DOMAIN V
    /\ Token!IsTokenAccount(V[k].data) /\ ~Token!UnpackTokenAccount(V[k].data).is_initialized
    /\ Token!IsMint(V[mint].data) /\ Token!UnpackMint(V[mint].data).is_initialized
    /\ Put(k, Token!TokenAccount(mint, owner, 0, TRUE), V, W)

TokenAt(ix, V, W) ==
    \/ /\ Decodes(ix.data, 0, <<"u64">>) /\ Len(ix.accounts) >= 3
       /\ MintAt(Key(ix, 2), Key(ix, 3), ix.data.args[1], V, W)
    \/ /\ Decodes(ix.data, 1, <<"u64">>) /\ Len(ix.accounts) >= 3
       /\ MoveAt(Key(ix, 2), Key(ix, 3), ix.data.args[1], V, W)
    \/ /\ ix.data.variant = 3 /\ Len(ix.accounts) >= 2
       /\ InitMintAt(Key(ix, 1), ix.data.args[2], V, W)
    \/ /\ ix.data.variant = 4 /\ Len(ix.accounts) >= 4
       /\ InitAccountAt(Key(ix, 1), Key(ix, 2), Key(ix, 3), V, W)

InitBufferAt(k, new, V, W) ==
    /\ k \in DOMAIN V
    /\ Loader!StateOf(V[k].data) = Loader!Uninitialized
    /\ ~Loader!PackFails(new, V[k].data)
    /\ Put(k, Loader!pack_into_account(new, V[k].data), V, W)

WriteAtKey(k, offset, bytes, V, W) ==
    /\ k \in DOMAIN V
    /\ Loader!HasState(V[k].data) /\ Loader!StateOf(V[k].data).tag = "Buffer"
    /\ Loader!StateOf(V[k].data).authority_address # Loader!NoKey
    /\ Put(k, Rewritten(V[k].data, offset, bytes), V, W)

SetAuthorityAt(k, old, new, V, W) ==
    /\ k \in DOMAIN V
    /\ Loader!HasState(V[k].data) /\ Loader!StateOf(V[k].data).tag \in {"Buffer", "ProgramData"}
    /\ Loader!StateOf(V[k].data).authority_address = old
    /\ ~Loader!PackFails(WithAuthority(V[k].data, new), V[k].data)
    /\ Put(k, Loader!pack_into_account(WithAuthority(V[k].data, new), V[k].data), V, W)

\* p becomes the programdata account of the program q, with what was in the buffer b.
DeployAt(p, q, b, authority, space, owner, V, W) ==
    /\ p \in DOMAIN V /\ q \in DOMAIN V /\ b \in DOMAIN V
    /\ p # q /\ p # b /\ q # b /\ Kept({p, q, b}, V, W)
    /\ ~(V[b].data.len < Loader!size_of_buffer_metadata)
    /\ ~Loader!PackFails(Loader!ProgramData(0, authority), Zeros(space))
    /\ ~Loader!PackFails(Loader!Program(p), V[q].data)
    /\ LET code == Loader!BodyFrom(Loader!size_of_buffer_metadata, V[b].data)
       IN  /\ ~(Zeros(space).len < Loader!size_of_programdata_metadata + Len(code))
           /\ W[p].data = Deployed(authority, Zeros(space), code)
    /\ W[p].owner = owner /\ W[p].executable = V[p].executable
    /\ W[q].data = Loader!pack_into_account(Loader!Program(p), V[q].data)
    /\ W[q].owner = BPF_LOADER_UPGRADEABLE_PROGRAM_ID /\ W[q].executable = TRUE
    /\ W[b].data = Empty /\ W[b].owner = V[b].owner /\ W[b].executable = V[b].executable

LoaderAt(ix, V, W) ==
    \/ /\ ix.data.variant = 0 /\ Len(ix.accounts) >= 1
       /\ InitBufferAt(Key(ix, 1),
              Loader!Buffer(IF Len(ix.accounts) > 1 THEN Key(ix, 2) ELSE Loader!NoKey), V, W)
    \/ /\ ix.data.variant = 1 /\ Len(ix.accounts) >= 2
       /\ WriteAtKey(Key(ix, 1), ix.data.args[1], ix.data.args[2], V, W)
    \/ /\ Decodes(ix.data, 2, <<"u64", "u64", "pubkey">>) /\ Len(ix.accounts) >= 8
       /\ DeployAt(Key(ix, 2), Key(ix, 3), Key(ix, 4), Key(ix, 8), ix.data.args[2], ix.data.args[3], V, W)
    \/ /\ ix.data.variant = 4 /\ Len(ix.accounts) >= 2
       /\ SetAuthorityAt(Key(ix, 1), Key(ix, 2), ix.data.args[1], V, W)
    \/ /\ ix.data.variant = 5 /\ Len(ix.accounts) >= 3
       /\ Put(Key(ix, 1), Empty, V, W) /\ Key(ix, 1) \in DOMAIN V

InstructionAt(ix, V, W) ==
    \/ ix.program_id = SYSTEM_PROGRAM_ID /\ SystemAt(ix, V, W)
    \/ ix.program_id = TOKEN_PROGRAM_ID /\ TokenAt(ix, V, W)
    \/ ix.program_id = BPF_LOADER_UPGRADEABLE_PROGRAM_ID /\ LoaderAt(ix, V, W)

\* The infos of an instruction and the keys of their accounts.
InfosAt(ix, infos, t, F) ==
    /\ AreInfos(F, infos) /\ Len(infos) = Len(ix.accounts)
    /\ \A i \in 1..Len(infos) : /\ infos[i].pubkey = Key(ix, i)
                                /\ infos[i].index \in DOMAIN F /\ t[infos[i].index] = Key(ix, i)
    /\ MarkedApart(ix, infos)

\* The system program.
LEMMA SystemView ==
    ASSUME NEW t, NEW L, NEW F, NEW G, NEW V, NEW W, ViewOf(V, t, L, F), ViewOf(W, t, L, G),
           NEW ix, NEW infos, InfosAt(ix, infos, t, F),
           Conserves(F, G), SystemDone(ix.data, infos, F, G)
    PROVE  SystemAt(ix, V, W)
  <1>1. CASE OnlyBalances(F, G)
    <2>1. Kept({}, F, G)
      BY <1>1 DEF OnlyBalances, Kept, Same, Conserves
    <2>2. Kept({}, V, W)
      BY <2>1, ViewKept
    <2> QED
      BY <2>2 DEF SystemAt
  <1>2. CASE /\ Decodes(ix.data, 1, <<"pubkey">>) /\ Len(infos) >= 1
             /\ OnlyAt(infos[1].index, F, G)
             /\ G[infos[1].index].data = F[infos[1].index].data
             /\ G[infos[1].index].executable = F[infos[1].index].executable
             /\ G[infos[1].index].owner = ix.data.args[1]
    <2>1. PICK x, k : x = infos[1].index /\ k = Key(ix, 1)
      OBVIOUS
    <2>2. 1 \in 1..Len(infos)
      BY <1>2 DEF InfosAt, AreInfos
    <2>3. x \in DOMAIN F /\ t[x] = k
      BY <2>1, <2>2 DEF InfosAt
    <2>4. Becomes(x, F[x].data, ix.data.args[1], F[x].executable, F, G)
      BY <1>2, <2>1, <2>3 DEF OnlyAt, Becomes, Kept, Same
    <2>5. Becomes(k, F[x].data, ix.data.args[1], F[x].executable, V, W) /\ V[k] = F[x]
      BY <2>3, <2>4, ViewBecomes
    <2>6. ix.data.variant = 1 /\ Len(ix.accounts) >= 1
      BY <1>2 DEF Decodes, InfosAt
    <2>7. Becomes(k, V[k].data, ix.data.args[1], V[k].executable, V, W)
      BY <2>5
    <2> QED
      BY <2>1, <2>6, <2>7 DEF SystemAt
  <1>3. CASE /\ Decodes(ix.data, 2, <<"u64", "u64", "pubkey">>) /\ Len(infos) >= 2
             /\ MadeAt(infos[2].index, ix.data.args[2], ix.data.args[3], F, G)
    <2>1. PICK x, k, d, o : /\ x = infos[2].index /\ k = Key(ix, 2)
                            /\ d = Zeros(ix.data.args[2]) /\ o = ix.data.args[3]
      OBVIOUS
    <2>2. 2 \in 1..Len(infos)
      BY <1>3 DEF InfosAt, AreInfos
    <2>3. x \in DOMAIN F /\ t[x] = k
      BY <2>1, <2>2 DEF InfosAt
    <2>4. Becomes(x, d, o, F[x].executable, F, G)
      BY <1>3, <2>1, <2>3 DEF MadeAt, KeptBut, Becomes, Kept, Same, Conserves
    <2>5. Becomes(k, d, o, F[x].executable, V, W) /\ V[k] = F[x]
      BY <2>3, <2>4, ViewBecomes
    <2>6. Len(ix.accounts) >= 2
      BY <1>3 DEF InfosAt
    <2>7. Becomes(k, d, o, V[k].executable, V, W)
      BY <2>5
    <2> QED
      BY <1>3, <2>1, <2>6, <2>7 DEF SystemAt
  <1> QED
    BY <1>1, <1>2, <1>3 DEF SystemDone

\* A mint is no token account.
LEMMA MintIsNoAccount ==
    ASSUME NEW d, Token!IsMint(d)
    PROVE  ~Token!IsTokenAccount(d)
  BY DEF Token!IsMint, Token!IsTokenAccount, Token!Zeros, Token!MINT_LEN, Token!TOKEN_ACCOUNT_LEN

\* MintTo.
LEMMA MintView ==
    ASSUME NEW t, NEW L, NEW F, NEW G, NEW V, NEW W, ViewOf(V, t, L, F), ViewOf(W, t, L, G),
           NEW x, NEW y, NEW n, NEW m, m = t[x], NEW k, k = t[y], MintDone(x, y, m, n, F, G)
    PROVE  MintAt(m, k, n, V, W)
  <1>1. x \in DOMAIN F /\ y \in DOMAIN F /\ x # y
    BY MintIsNoAccount DEF MintDone
  <1>2. PICK d, e : d = MintedMore(F[x].data, n) /\ e = Credited(F[y].data, n)
    OBVIOUS
  <1>3. DataAtTwo(x, d, y, e, F, G)
    BY <1>2 DEF MintDone
  <1>4. PutTwo(m, d, k, e, V, W) /\ V[m] = F[x] /\ V[k] = F[y]
    BY <1>1, <1>3, ViewPutTwo
  <1>5. m \in DOMAIN V /\ k \in DOMAIN V
    BY <1>4 DEF PutTwo
  <1> QED
    BY <1>2, <1>4, <1>5 DEF MintDone, MintAt

\* Transfer of tokens between two accounts.
LEMMA MoveView ==
    ASSUME NEW t, NEW L, NEW F, NEW G, NEW V, NEW W, ViewOf(V, t, L, F), ViewOf(W, t, L, G),
           NEW x, NEW y, x # y, NEW n, MoveDone(x, y, n, F, G),
           NEW m, m = t[x], NEW k, k = t[y]
    PROVE  MoveAt(m, k, n, V, W)
  <1>1. x \in DOMAIN F /\ y \in DOMAIN F
    BY DEF MoveDone
  <1>2. PICK d, e : d = Debited(F[x].data, n) /\ e = Credited(F[y].data, n)
    OBVIOUS
  <1>3. DataAtTwo(x, d, y, e, F, G)
    BY <1>2 DEF MoveDone
  <1>4. PutTwo(m, d, k, e, V, W) /\ V[m] = F[x] /\ V[k] = F[y]
    BY <1>1, <1>3, ViewPutTwo
  <1>5. m \in DOMAIN V /\ k \in DOMAIN V
    BY <1>4 DEF PutTwo
  <1> QED
    BY <1>2, <1>4, <1>5 DEF MoveDone, MoveAt

\* InitializeMint.
LEMMA InitMintView ==
    ASSUME NEW t, NEW L, NEW F, NEW G, NEW V, NEW W, ViewOf(V, t, L, F), ViewOf(W, t, L, G),
           NEW x, NEW authority, InitMintDone(x, authority, F, G), NEW k, k = t[x]
    PROVE  InitMintAt(k, authority, V, W)
  <1>1. x \in DOMAIN F
    BY DEF InitMintDone
  <1>2. PICK d : d = Token!MintState(authority, 0, TRUE)
    BY Zenon
  <1>3. DataAt(x, d, F, G)
    BY <1>2, Zenon DEF InitMintDone
  <1>4. Put(k, d, V, W) /\ V[k] = F[x] /\ k \in DOMAIN V
    BY <1>1, <1>3, ViewPut
  <1> QED
    BY <1>2, <1>4, Zenon DEF InitMintDone, InitMintAt

\* InitializeAccount.
LEMMA InitAccountView ==
    ASSUME NEW t, NEW L, NEW F, NEW G, NEW V, NEW W, ViewOf(V, t, L, F), ViewOf(W, t, L, G),
           NEW x, NEW y, NEW mint, NEW owner, InitAccountDone(x, y, mint, owner, F, G),
           NEW k, k = t[x], mint = t[y]
    PROVE  InitAccountAt(k, mint, owner, V, W)
  <1>1. x \in DOMAIN F /\ y \in DOMAIN F
    BY DEF InitAccountDone
  <1>2. PICK d : d = Token!TokenAccount(mint, owner, 0, TRUE)
    BY Zenon
  <1>3. DataAt(x, d, F, G)
    BY <1>2, Zenon DEF InitAccountDone
  <1>4. Put(k, d, V, W) /\ V[k] = F[x] /\ k \in DOMAIN V
    BY <1>1, <1>3, ViewPut
  <1>5. mint \in DOMAIN V /\ V[mint] = F[y]
    BY <1>1 DEF ViewOf
  <1> QED
    BY <1>2, <1>4, <1>5, Zenon DEF InitAccountDone, InitAccountAt

\* The token program.
LEMMA TokenView ==
    ASSUME NEW t, NEW L, NEW F, NEW G, NEW V, NEW W, ViewOf(V, t, L, F), ViewOf(W, t, L, G),
           NEW ix, ix.program_id = TOKEN_PROGRAM_ID, MarksWritten(ix),
           NEW infos, InfosAt(ix, infos, t, F), TokenDone(ix.data, infos, F, G)
    PROVE  TokenAt(ix, V, W)
  <1>1. Len(infos) \in Nat /\ Len(infos) = Len(ix.accounts)
    BY DEF InfosAt, AreInfos
  <1>2. \A i \in 1..Len(infos) : infos[i].pubkey = Key(ix, i) /\ t[infos[i].index] = Key(ix, i)
    BY DEF InfosAt
  <1>3. CASE /\ Decodes(ix.data, 0, <<"u64">>) /\ Len(infos) >= 3
             /\ MintDone(infos[2].index, infos[3].index, infos[2].pubkey, ix.data.args[1], F, G)
    <2>1. 2 \in 1..Len(infos) /\ 3 \in 1..Len(infos)
      BY <1>1, <1>3
    <2>2. PICK x, y, n, m, k : /\ x = infos[2].index /\ y = infos[3].index /\ n = ix.data.args[1]
                               /\ m = Key(ix, 2) /\ k = Key(ix, 3)
      OBVIOUS
    <2>3. MintDone(x, y, m, n, F, G) /\ m = t[x] /\ k = t[y]
      BY <1>2, <1>3, <2>1, <2>2
    <2>4. MintAt(m, k, n, V, W)
      BY <2>3, MintView
    <2> QED
      BY <1>1, <1>3, <2>2, <2>4 DEF TokenAt
  <1>4. CASE /\ Decodes(ix.data, 1, <<"u64">>) /\ Len(infos) >= 3
             /\ MoveDone(infos[2].index, infos[3].index, ix.data.args[1], F, G)
    <2>1. 2 \in 1..Len(infos) /\ 3 \in 1..Len(infos)
      BY <1>1, <1>4
    <2>2. infos[2].index # infos[3].index
      <3>1. ix.accounts[2].is_writable /\ ix.accounts[3].is_writable
        BY <1>1, <1>4 DEF MarksWritten, Decodes
      <3>2. MarkedApart(ix, infos)
        BY DEF InfosAt
      <3> QED
        BY <2>1, <3>1, <3>2 DEF MarkedApart
    <2>3. PICK x, y, n, m, k : /\ x = infos[2].index /\ y = infos[3].index /\ n = ix.data.args[1]
                               /\ m = Key(ix, 2) /\ k = Key(ix, 3)
      OBVIOUS
    <2>4. MoveDone(x, y, n, F, G) /\ x # y /\ m = t[x] /\ k = t[y]
      BY <1>2, <1>4, <2>1, <2>2, <2>3
    <2>5. MoveAt(m, k, n, V, W)
      BY <2>4, MoveView
    <2> QED
      BY <1>1, <1>4, <2>3, <2>5 DEF TokenAt
  <1>5. CASE /\ Decodes(ix.data, 3, <<"u8", "pubkey">>) /\ Len(infos) >= 2
             /\ InitMintDone(infos[1].index, ix.data.args[2], F, G)
    <2>1. 1 \in 1..Len(infos)
      BY <1>1, <1>5
    <2>2. InitMintAt(Key(ix, 1), ix.data.args[2], V, W)
      BY <1>2, <1>5, <2>1, InitMintView
    <2> QED
      BY <1>1, <1>5, <2>2 DEF TokenAt, Decodes
  <1>6. CASE /\ Decodes(ix.data, 4, <<>>) /\ Len(infos) >= 4
             /\ InitAccountDone(infos[1].index, infos[2].index, infos[2].pubkey, infos[3].pubkey, F, G)
    <2>1. 1 \in 1..Len(infos) /\ 2 \in 1..Len(infos) /\ 3 \in 1..Len(infos)
      BY <1>1, <1>6
    <2>2. PICK x, y, k, mint, owner : /\ x = infos[1].index /\ y = infos[2].index
                                      /\ k = Key(ix, 1) /\ mint = Key(ix, 2) /\ owner = Key(ix, 3)
      OBVIOUS
    <2>3. InitAccountDone(x, y, mint, owner, F, G) /\ k = t[x] /\ mint = t[y]
      BY <1>2, <1>6, <2>1, <2>2
    <2>4. InitAccountAt(k, mint, owner, V, W)
      BY <2>3, InitAccountView
    <2> QED
      BY <1>1, <1>6, <2>2, <2>4 DEF TokenAt, Decodes
  <1> QED
    BY <1>3, <1>4, <1>5, <1>6 DEF TokenDone

\* InitializeBuffer.
LEMMA InitBufferView ==
    ASSUME NEW t, NEW L, NEW F, NEW G, NEW V, NEW W, ViewOf(V, t, L, F), ViewOf(W, t, L, G),
           NEW x, NEW new, InitBufferDone(x, new, F, G), NEW k, k = t[x]
    PROVE  InitBufferAt(k, new, V, W)
  <1>1. x \in DOMAIN F
    BY DEF InitBufferDone
  <1>2. PICK d : d = Loader!pack_into_account(new, F[x].data)
    OBVIOUS
  <1>3. DataAt(x, d, F, G)
    BY <1>2 DEF InitBufferDone
  <1>4. Put(k, d, V, W) /\ V[k] = F[x] /\ k \in DOMAIN V
    BY <1>1, <1>3, ViewPut
  <1> QED
    BY <1>2, <1>4 DEF InitBufferDone, InitBufferAt

\* Write.
LEMMA WriteView ==
    ASSUME NEW t, NEW L, NEW F, NEW G, NEW V, NEW W, ViewOf(V, t, L, F), ViewOf(W, t, L, G),
           NEW x, NEW offset, NEW bytes, WriteDone(x, offset, bytes, F, G), NEW k, k = t[x]
    PROVE  WriteAtKey(k, offset, bytes, V, W)
  <1>1. x \in DOMAIN F
    BY DEF WriteDone
  <1>2. PICK d : d = Rewritten(F[x].data, offset, bytes)
    OBVIOUS
  <1>3. DataAt(x, d, F, G)
    BY <1>2 DEF WriteDone
  <1>4. Put(k, d, V, W) /\ V[k] = F[x] /\ k \in DOMAIN V
    BY <1>1, <1>3, ViewPut
  <1> QED
    BY <1>2, <1>4 DEF WriteDone, WriteAtKey

\* SetAuthority.
LEMMA SetAuthorityView ==
    ASSUME NEW t, NEW L, NEW F, NEW G, NEW V, NEW W, ViewOf(V, t, L, F), ViewOf(W, t, L, G),
           NEW x, NEW old, NEW new, SetAuthorityDone(x, old, new, F, G), NEW k, k = t[x]
    PROVE  SetAuthorityAt(k, old, new, V, W)
  <1>1. x \in DOMAIN F
    BY DEF SetAuthorityDone
  <1>2. PICK d : d = Loader!pack_into_account(WithAuthority(F[x].data, new), F[x].data)
    OBVIOUS
  <1>3. DataAt(x, d, F, G)
    BY <1>2 DEF SetAuthorityDone
  <1>4. Put(k, d, V, W) /\ V[k] = F[x] /\ k \in DOMAIN V
    BY <1>1, <1>3, ViewPut
  <1> QED
    BY <1>2, <1>4 DEF SetAuthorityDone, SetAuthorityAt

\* Close.
LEMMA CloseView ==
    ASSUME NEW t, NEW L, NEW F, NEW G, NEW V, NEW W, ViewOf(V, t, L, F), ViewOf(W, t, L, G),
           NEW x, NEW y, DrainedTo(x, y, F, G), NEW k, k = t[x]
    PROVE  Put(k, Empty, V, W) /\ k \in DOMAIN V
  <1>1. Becomes(x, Empty, F[x].owner, F[x].executable, F, G)
    BY DEF DrainedTo, KeptBut, Becomes, Kept, Same
  <1>2. Becomes(k, Empty, F[x].owner, F[x].executable, V, W) /\ V[k] = F[x]
    BY <1>1, ViewBecomes
  <1> QED
    BY <1>2 DEF Put, Becomes

\* What a deployment does to the accounts of its transaction.
Installed(p, q, b, key, authority, space, o, owner, code, F, G) ==
    /\ Kept({p, q, b}, F, G)
    /\ ~Loader!PackFails(Loader!Program(key), F[q].data)
    /\ G[p].data = Deployed(authority, Zeros(space), code)
    /\ G[p].owner = o /\ G[p].executable = F[p].executable
    /\ G[q].data = Loader!pack_into_account(Loader!Program(key), F[q].data)
    /\ G[q].owner = owner /\ G[q].executable = TRUE
    /\ G[b].data = Empty /\ G[b].owner = F[b].owner /\ G[b].executable = F[b].executable

\* The steps of a deployment taken together, for three different accounts.
LEMMA InstallFlat ==
    ASSUME NEW F, NEW C, NEW G, NEW a, NEW p, NEW q, NEW b, p # q, p # b, q # b,
           p \in DOMAIN F, q \in DOMAIN F, b \in DOMAIN F, Conserves(F, C),
           NEW space, NEW o, MadeAt(p, space, o, F, C), NEW key, NEW authority, NEW owner, NEW code,
           InstallDone(a, p, q, b, key, authority, owner, code, C, G)
    PROVE  Installed(p, q, b, key, authority, space, o, owner, code, F, G)
  <1>1. PICK I, J, K : /\ DataAt(p, Deployed(authority, C[p].data, code), C, I)
                       /\ ~Loader!PackFails(Loader!Program(key), I[q].data)
                       /\ DataAt(q, Loader!pack_into_account(Loader!Program(key), I[q].data), I, J)
                       /\ Executable(q, owner, J, K)
                       /\ DrainedTo(b, a, K, G)
    BY DEF InstallDone
  <1>2. /\ DOMAIN C = DOMAIN F /\ \A m \in DOMAIN F \ {p} : Same(F[m], C[m])
        /\ C[p].data = Zeros(space) /\ C[p].owner = o /\ C[p].executable = F[p].executable
    BY DEF MadeAt, KeptBut, Conserves, Same
  <1>3. PICK d : d = Deployed(authority, C[p].data, code)
    OBVIOUS
  <1>4. /\ DOMAIN I = DOMAIN F /\ \A m \in DOMAIN F \ {p} : Same(C[m], I[m])
        /\ I[p].data = d /\ I[p].owner = C[p].owner /\ I[p].executable = C[p].executable
    BY <1>1, <1>2, <1>3 DEF DataAt, OnlyData, OnlyAt, Same
  <1>5. PICK c : c = Loader!pack_into_account(Loader!Program(key), I[q].data)
    OBVIOUS
  <1>6. /\ DOMAIN J = DOMAIN F /\ \A m \in DOMAIN F \ {q} : Same(I[m], J[m])
        /\ J[q].data = c /\ J[q].owner = I[q].owner /\ J[q].executable = I[q].executable
    BY <1>1, <1>4, <1>5 DEF DataAt, OnlyData, OnlyAt, Same
  <1>7. /\ DOMAIN K = DOMAIN F /\ \A m \in DOMAIN F \ {q} : Same(J[m], K[m])
        /\ K[q].data = J[q].data /\ K[q].owner = owner /\ K[q].executable = TRUE
    BY <1>1, <1>6 DEF Executable, OnlyAt, Same
  <1>8. /\ DOMAIN G = DOMAIN F /\ \A m \in DOMAIN F \ {b} : Same(K[m], G[m])
        /\ G[b].data = Empty /\ G[b].owner = K[b].owner /\ G[b].executable = K[b].executable
    BY <1>1, <1>7 DEF DrainedTo, KeptBut, Same
  <1>9. Kept({p, q, b}, F, G)
    BY <1>2, <1>4, <1>6, <1>7, <1>8 DEF Kept, Same
  <1>10. I[q].data = F[q].data
    BY <1>2, <1>4 DEF Same
  <1>11. G[p].data = d /\ G[p].owner = o /\ G[p].executable = F[p].executable
    BY <1>2, <1>4, <1>6, <1>7, <1>8 DEF Same
  <1>12. d = Deployed(authority, Zeros(space), code)
    BY <1>2, <1>3
  <1>13. G[q].data = c /\ G[q].owner = owner /\ G[q].executable = TRUE
    BY <1>6, <1>7, <1>8 DEF Same
  <1>14. c = Loader!pack_into_account(Loader!Program(key), F[q].data)
    BY <1>5, <1>10
  <1>15. G[b].data = Empty /\ G[b].owner = F[b].owner /\ G[b].executable = F[b].executable
    BY <1>2, <1>4, <1>6, <1>7, <1>8 DEF Same
  <1>16. ~Loader!PackFails(Loader!Program(key), F[q].data)
    BY <1>1, <1>10
  <1> QED
    BY <1>9, <1>11, <1>12, <1>13, <1>14, <1>15, <1>16, Zenon DEF Installed

\* DeployWithMaxDataLen.
LEMMA DeployView ==
    ASSUME NEW t, NEW L, NEW F, NEW G, NEW V, NEW W, ViewOf(V, t, L, F), ViewOf(W, t, L, G),
           NEW ix, NEW infos, InfosAt(ix, infos, t, F), Len(infos) >= 8,
           MarksWritten(ix), MarksDrained(ix), ix.data.variant = 2,
           ix.program_id = BPF_LOADER_UPGRADEABLE_PROGRAM_ID,
           DeployDone(ix.data, infos, BPF_LOADER_UPGRADEABLE_PROGRAM_ID, F, G)
    PROVE  DeployAt(Key(ix, 2), Key(ix, 3), Key(ix, 4), Key(ix, 8), ix.data.args[2], ix.data.args[3], V, W)
  <1>1. PICK x, y, z, a : /\ x = infos[2].index /\ y = infos[3].index /\ z = infos[4].index
                          /\ a = infos[1].index
    OBVIOUS
  <1>2. PICK p, q, b, auth, space, o : /\ p = Key(ix, 2) /\ q = Key(ix, 3) /\ b = Key(ix, 4)
                                       /\ auth = Key(ix, 8) /\ space = ix.data.args[2]
                                       /\ o = ix.data.args[3]
    BY Zenon
  <1>3. Len(infos) \in Nat /\ Len(infos) = Len(ix.accounts)
    BY DEF InfosAt, AreInfos
  <1>4. 2 \in 1..Len(infos) /\ 3 \in 1..Len(infos) /\ 4 \in 1..Len(infos) /\ 8 \in 1..Len(infos)
    BY <1>3
  <1>5. /\ infos[2].pubkey = p /\ infos[8].pubkey = auth
        /\ x \in DOMAIN F /\ y \in DOMAIN F /\ z \in DOMAIN F
        /\ t[x] = p /\ t[y] = q /\ t[z] = b
    BY <1>1, <1>2, <1>4 DEF InfosAt
  <1>6. x # y /\ x # z /\ y # z
    <2>1. ix.accounts[2].is_writable /\ ix.accounts[3].is_writable /\ ix.accounts[4].is_writable
      BY <1>3 DEF MarksWritten, MarksDrained
    <2>2. MarkedApart(ix, infos)
      BY DEF InfosAt
    <2> QED
      BY <1>1, <1>4, <2>1, <2>2 DEF MarkedApart
  <1>7. PICK C, code :
          /\ Conserves(F, C) /\ MadeAt(x, space, o, F, C)
          /\ code = Loader!BodyFrom(Loader!size_of_buffer_metadata, F[z].data)
          /\ ~(F[z].data.len < Loader!size_of_buffer_metadata)
          /\ ~Loader!PackFails(Loader!ProgramData(0, auth), C[x].data)
          /\ ~(C[x].data.len < Loader!size_of_programdata_metadata + Len(code))
          /\ InstallDone(a, x, y, z, p, auth, BPF_LOADER_UPGRADEABLE_PROGRAM_ID, code, C, G)
    BY <1>1, <1>2, <1>5, Zenon DEF DeployDone
  <1>8. Installed(x, y, z, p, auth, space, o, BPF_LOADER_UPGRADEABLE_PROGRAM_ID, code, F, G)
    BY <1>5, <1>6, <1>7, InstallFlat
  <1>9. C[x].data = Zeros(space)
    BY <1>7 DEF MadeAt
  <1>10. /\ p \in DOMAIN V /\ V[p] = F[x] /\ W[p] = G[x]
         /\ q \in DOMAIN V /\ V[q] = F[y] /\ W[q] = G[y]
         /\ b \in DOMAIN V /\ V[b] = F[z] /\ W[b] = G[z]
    BY <1>5 DEF ViewOf
  <1>11. p # q /\ p # b /\ q # b
    BY <1>5, <1>6 DEF ViewOf, OneToOne
  <1>12. Kept({p, q, b}, V, W)
    <2>1. Kept({x, y, z}, F, G)
      BY <1>8 DEF Installed
    <2>2. \A i \in {x, y, z} : i \in 1..Len(t) => t[i] \in {p, q, b}
      BY <1>5
    <2> QED
      BY <2>1, <2>2, ViewKept
  <1>13. /\ ~(V[b].data.len < Loader!size_of_buffer_metadata)
         /\ ~Loader!PackFails(Loader!ProgramData(0, auth), Zeros(space))
         /\ ~(Zeros(space).len < Loader!size_of_programdata_metadata + Len(code))
         /\ code = Loader!BodyFrom(Loader!size_of_buffer_metadata, V[b].data)
    BY <1>7, <1>9, <1>10, Zenon
  <1>14. /\ ~Loader!PackFails(Loader!Program(p), V[q].data)
         /\ W[p].data = Deployed(auth, Zeros(space), code)
         /\ W[p].owner = o /\ W[p].executable = V[p].executable
         /\ W[q].data = Loader!pack_into_account(Loader!Program(p), V[q].data)
         /\ W[q].owner = BPF_LOADER_UPGRADEABLE_PROGRAM_ID /\ W[q].executable = TRUE
         /\ W[b].data = Empty /\ W[b].owner = V[b].owner /\ W[b].executable = V[b].executable
    BY <1>8, <1>10, Zenon DEF Installed
  <1>15. DeployAt(p, q, b, auth, space, o, V, W)
    BY <1>10, <1>11, <1>12, <1>13, <1>14, Zenon DEF DeployAt
  <1> QED
    BY <1>2, <1>15

\* The loader.
LEMMA LoaderView ==
    ASSUME NEW t, NEW L, NEW F, NEW G, NEW V, NEW W, ViewOf(V, t, L, F), ViewOf(W, t, L, G),
           NEW ix, ix.program_id = BPF_LOADER_UPGRADEABLE_PROGRAM_ID, MarksWritten(ix), MarksDrained(ix),
           NEW infos, InfosAt(ix, infos, t, F),
           LoaderDone(ix.data, infos, BPF_LOADER_UPGRADEABLE_PROGRAM_ID, F, G)
    PROVE  LoaderAt(ix, V, W)
  <1>1. Len(infos) \in Nat /\ Len(infos) = Len(ix.accounts)
    BY DEF InfosAt, AreInfos
  <1>2. \A i \in 1..Len(infos) : infos[i].pubkey = Key(ix, i) /\ t[infos[i].index] = Key(ix, i)
    BY DEF InfosAt
  <1>3. PICK x, k, a, b : /\ x = infos[1].index /\ k = Key(ix, 1)
                          /\ a = ix.data.args[1] /\ b = ix.data.args[2]
    OBVIOUS
  <1>4. Len(infos) >= 1 => t[x] = k
    BY <1>1, <1>2, <1>3
  <1>5. CASE ix.data.variant = 0 /\ Len(infos) >= 1
             /\ InitBufferDone(x, Loader!Buffer(IF Len(infos) > 1 THEN infos[2].pubkey ELSE Loader!NoKey), F, G)
    <2>1. PICK new : new = Loader!Buffer(IF Len(infos) > 1 THEN infos[2].pubkey ELSE Loader!NoKey)
      OBVIOUS
    <2>2. InitBufferAt(k, new, V, W)
      <3>1. InitBufferDone(x, new, F, G) /\ k = t[x]
        BY <1>4, <1>5, <2>1
      <3> QED
        BY <3>1, InitBufferView
    <2>3. new = Loader!Buffer(IF Len(ix.accounts) > 1 THEN Key(ix, 2) ELSE Loader!NoKey)
      BY <1>1, <1>2, <2>1
    <2> QED
      BY <1>1, <1>3, <1>5, <2>2, <2>3 DEF LoaderAt
  <1>6. CASE ix.data.variant = 1 /\ Len(infos) >= 2 /\ WriteDone(x, a, b, F, G)
    <2>1. WriteAtKey(k, a, b, V, W)
      <3>1. k = t[x]
        BY <1>1, <1>4, <1>6
      <3> QED
        BY <1>6, <3>1, WriteView
    <2> QED
      BY <1>1, <1>3, <1>6, <2>1 DEF LoaderAt
  <1>7. CASE Decodes(ix.data, 2, <<"u64", "u64", "pubkey">>) /\ Len(infos) >= 8
             /\ DeployDone(ix.data, infos, BPF_LOADER_UPGRADEABLE_PROGRAM_ID, F, G)
    <2>1. ix.data.variant = 2
      BY <1>7 DEF Decodes
    <2>2. DeployAt(Key(ix, 2), Key(ix, 3), Key(ix, 4), Key(ix, 8), ix.data.args[2], ix.data.args[3], V, W)
      BY <1>7, <2>1, DeployView
    <2> QED
      BY <1>1, <1>7, <2>2 DEF LoaderAt
  <1>8. CASE ix.data.variant = 4 /\ Len(infos) >= 2 /\ SetAuthorityDone(x, infos[2].pubkey, a, F, G)
    <2>1. PICK old : old = Key(ix, 2)
      OBVIOUS
    <2>2. SetAuthorityDone(x, old, a, F, G) /\ k = t[x]
      BY <1>1, <1>2, <1>4, <1>8, <2>1
    <2>3. SetAuthorityAt(k, old, a, V, W)
      BY <2>2, SetAuthorityView
    <2> QED
      BY <1>1, <1>3, <1>8, <2>1, <2>3 DEF LoaderAt
  <1>9. CASE ix.data.variant = 5 /\ Len(infos) >= 3 /\ DrainedTo(x, infos[2].index, F, G)
    <2>1. PICK y : y = infos[2].index
      OBVIOUS
    <2>2. DrainedTo(x, y, F, G) /\ k = t[x]
      BY <1>1, <1>4, <1>9, <2>1
    <2>3. Put(k, Empty, V, W) /\ k \in DOMAIN V
      BY <2>2, CloseView
    <2> QED
      BY <1>1, <1>3, <1>9, <2>3 DEF LoaderAt
  <1> QED
    BY <1>3, <1>5, <1>6, <1>7, <1>8, <1>9 DEF LoaderDone

\* What an instruction that succeeds does to the accounts of its transaction it does to
\* the store.
LEMMA InstructionView ==
    ASSUME NEW t, NEW L, NEW F, NEW G, NEW V, NEW W, ViewOf(V, t, L, F), ViewOf(W, t, L, G),
           NEW ix, MarksWritten(ix), MarksDrained(ix),
           NEW infos, InfosAt(ix, infos, t, F), InstructionDone(ix, infos, F, G)
    PROVE  InstructionAt(ix, V, W)
  <1>1. CASE ix.program_id = SYSTEM_PROGRAM_ID /\ Conserves(F, G) /\ SystemDone(ix.data, infos, F, G)
    BY <1>1, SystemView DEF InstructionAt
  <1>2. CASE ix.program_id = TOKEN_PROGRAM_ID /\ TokenDone(ix.data, infos, F, G)
    BY <1>2, TokenView DEF InstructionAt
  <1>3. CASE ix.program_id = BPF_LOADER_UPGRADEABLE_PROGRAM_ID
             /\ LoaderDone(ix.data, infos, BPF_LOADER_UPGRADEABLE_PROGRAM_ID, F, G)
    BY <1>3, LoaderView DEF InstructionAt
  <1> QED
    BY <1>1, <1>2, <1>3 DEF InstructionDone

-----------------------------------------------------------------------------
\* What accounts hold.
IsZeros(d) == d.kind = "Zeros" /\ d = Zeros(d.len) /\ d.len \in Nat

IsMintData(d) ==
    /\ d.kind = "Mint" /\ d = Token!MintState(d.mint_authority, d.supply, d.is_initialized)
    /\ d.supply \in 0..U64_MAX /\ d.is_initialized \in BOOLEAN

\* A token account that is not initialized names the mint that zeros stand for.
IsTokenData(d) ==
    /\ d.kind = "TokenAccount"
    /\ d = Token!TokenAccount(d.mint, d.owner, d.amount, d.is_initialized)
    /\ d.amount \in 0..U64_MAX /\ d.is_initialized \in BOOLEAN
    /\ ~d.is_initialized => d.mint = SYSTEM_PROGRAM_ID

IsLoaderState(s) ==
    \/ s.tag = "Buffer" /\ s = Loader!Buffer(s.authority_address)
    \/ s.tag = "Program" /\ s = Loader!Program(s.programdata_address)
    \/ s.tag = "ProgramData" /\ s = Loader!ProgramData(0, s.authority_address)

IsLoaderData(d) ==
    /\ d.kind = "Loader" /\ d = [kind |-> "Loader", len |-> d.len, state |-> d.state, body |-> d.body]
    /\ d.len \in Nat /\ d.body \in Seq(Byte) /\ IsLoaderState(d.state)
    /\ d.len >= Loader!serialized_size(d.state)
    /\ Len(d.body) = saturating_sub(d.len, Loader!MetadataLen(d.state))

AnyData(d) == IsZeros(d) \/ IsMintData(d) \/ IsTokenData(d) \/ IsLoaderData(d)

\* What the account at this key may hold: a mint or tokens where token instructions write.
DataOk(key, d, txs) ==
    \/ IsZeros(d)
    \/ key \in TokenKeys(txs) /\ (IsMintData(d) \/ IsTokenData(d))
    \/ IsLoaderData(d)

\* What is no loader's there is the token program's, unless it is empty.
AccountOk(key, a, txs) ==
    /\ a.executable \in BOOLEAN
    /\ key \in TokenKeys(txs) /\ a.data # Empty /\ a.data.kind # "Loader" =>
          a.owner = TOKEN_PROGRAM_ID
    /\ DataOk(key, a.data, txs)

StoreOk(V, txs) == \A key \in DOMAIN V : AccountOk(key, V[key], txs)

\* What becomes of data while no account is created at its key, and at a key that is no
\* account of the loader's instructions in us, nor one they make a program.
Frozen(d) ==
    /\ d.kind = "Loader" /\ d.state.tag \in {"Buffer", "ProgramData"}
    /\ d.state.authority_address = Loader!NoKey
LaterData(old, new) ==
    /\ old = Empty => new = Empty
    /\ StaysInitialized(old, new)
    /\ Frozen(old) => new \in {old, Empty}
LoaderLater(old, new) ==
    /\ old = Empty => new = Empty
    /\ Frozen(old) => new \in {old, Empty}
LaterAt(key, old, new, us) ==
    /\ old = Empty => new = Empty
    /\ key \notin LoaderKeys(us) => StaysInitialized(old, new)
    /\ key \notin ProgramKeys(us) => (Frozen(old) => new \in {old, Empty})
Later(V, W, made, us) ==
    \A key \in DOMAIN V \ made : LaterAt(key, V[key].data, W[key].data, us)

\* The tokens of a mint, key by key.
IsMintAt(V, m) == IsInitialized(V[m].data, "Mint")
IsAccountOf(V, key, m) == IsInitialized(V[key].data, "TokenAccount") /\ V[key].data.mint = m
Tokens(V, m) == [key \in DOMAIN V |-> IF IsAccountOf(V, key, m) THEN V[key].data.amount ELSE 0]
MintsNamed(V) ==
    \A key \in DOMAIN V : IsInitialized(V[key].data, "TokenAccount") =>
        V[key].data.mint \in DOMAIN V /\ IsMintAt(V, V[key].data.mint)
SuppliesAre(V) ==
    \A m \in DOMAIN V : IsMintAt(V, m) /\ V[m].data.supply < U64_MAX =>
        SumFunctionOnSet(Tokens(V, m), DOMAIN V) = V[m].data.supply
SupplyOk(V) == MintsNamed(V) /\ SuppliesAre(V)

-----------------------------------------------------------------------------
\* The kind of data says what it is.
LEMMA KindsOf ==
    ASSUME NEW txs, NEW key, NEW d, DataOk(key, d, txs)
    PROVE  /\ d.kind \in {"Zeros", "Mint", "TokenAccount", "Loader"}
           /\ d.kind = "Zeros" => IsZeros(d)
           /\ d.kind = "Mint" => key \in TokenKeys(txs) /\ IsMintData(d)
           /\ d.kind = "TokenAccount" => key \in TokenKeys(txs) /\ IsTokenData(d)
           /\ d.kind = "Loader" => IsLoaderData(d)
  BY DEF DataOk, IsZeros, IsMintData, IsTokenData, IsLoaderData

\* Empty data is of no program.
LEMMA EmptyIs == IsZeros(Empty) /\ Empty.kind = "Zeros" /\ Empty.len = 0
  BY DEF IsZeros, Empty, Zeros

\* What holds of data holds wherever the account is, and where the loader writes.
LEMMA LaterAnywhere ==
    ASSUME NEW old, NEW new, LaterData(old, new), NEW key, NEW us
    PROVE  LaterAt(key, old, new, us)
  BY DEF LaterData, LaterAt

LEMMA LaterAtLoader ==
    ASSUME NEW old, NEW new, LoaderLater(old, new), NEW us, NEW key \in LoaderKeys(us)
    PROVE  LaterAt(key, old, new, us)
  BY DEF LoaderLater, LaterAt

\* Data that stays as it is.
LEMMA LaterSame ==
    ASSUME NEW txs, NEW key, NEW d, DataOk(key, d, txs)
    PROVE  LaterData(d, d)
  <1>1. d.kind = "Mint" => d.supply \in 0..U64_MAX
    BY KindsOf DEF IsMintData
  <1> QED
    BY <1>1, U64Assumption DEF LaterData, StaysInitialized, IsInitialized

\* Data that changes twice.
LEMMA LaterTwice ==
    ASSUME NEW txs, NEW key, NEW a, NEW b, NEW c, NEW us,
           DataOk(key, a, txs), DataOk(key, b, txs), DataOk(key, c, txs),
           LaterAt(key, a, b, us), LaterAt(key, b, c, us)
    PROVE  LaterAt(key, a, c, us)
  <1>1. /\ a.kind = "Mint" => a.supply \in 0..U64_MAX
        /\ b.kind = "Mint" => b.supply \in 0..U64_MAX
        /\ c.kind = "Mint" => c.supply \in 0..U64_MAX
    BY KindsOf DEF IsMintData
  <1>2. ASSUME StaysInitialized(a, b), StaysInitialized(b, c)
        PROVE  StaysInitialized(a, c)
    BY <1>1, <1>2, U64Assumption DEF StaysInitialized, IsInitialized
  <1>3. ASSUME Frozen(a) => b \in {a, Empty}, Frozen(b) => c \in {b, Empty}, b = Empty => c = Empty
        PROVE  Frozen(a) => c \in {a, Empty}
    BY <1>3
  <1> QED
    BY <1>2, <1>3, Zenon DEF LaterAt

\* Balances do not matter.
LEMMA StoreKept ==
    ASSUME NEW txs, NEW V, StoreOk(V, txs), NEW W, NEW K, Kept(K, V, W),
           \A k \in DOMAIN V : k \in K => AccountOk(k, W[k], txs)
    PROVE  StoreOk(W, txs)
  BY DEF StoreOk, Kept, Same, AccountOk

\* Nor do they for what becomes of data.
LEMMA LaterKept ==
    ASSUME NEW txs, NEW V, StoreOk(V, txs), NEW W, NEW K, Kept(K, V, W), NEW made, NEW us,
           \A k \in DOMAIN V \ made : k \in K => LaterAt(k, V[k].data, W[k].data, us)
    PROVE  Later(V, W, made, us)
  <1>1. ASSUME NEW key \in DOMAIN V \ made PROVE LaterAt(key, V[key].data, W[key].data, us)
    <2>1. CASE key \in K
      BY <2>1
    <2>2. CASE key \notin K
      <3>1. W[key].data = V[key].data
        BY <2>2 DEF Kept, Same
      <3>2. DataOk(key, V[key].data, txs)
        BY DEF StoreOk, AccountOk
      <3>3. LaterData(V[key].data, V[key].data)
        BY <3>2, LaterSame
      <3>4. LaterAt(key, V[key].data, V[key].data, us)
        BY <3>3, LaterAnywhere
      <3> QED
        BY <3>1, <3>4
    <2> QED
      BY <2>1, <2>2
  <1> QED
    BY <1>1 DEF Later

-----------------------------------------------------------------------------
\* What the token program writes.
\* More is minted.
LEMMA MintedData ==
    ASSUME NEW txs, NEW key, NEW d, DataOk(key, d, txs), Token!IsMint(d), NEW n \in 0..U64_MAX,
           NEW e, e = MintedMore(d, n)
    PROVE  /\ IsMintData(e) /\ LaterData(d, e)
           /\ d.kind = "Mint" => /\ e.supply = saturating_add(d.supply, n)
                                 /\ e.is_initialized = d.is_initialized
           /\ d.kind # "Mint" => ~e.is_initialized
  <1>1. PICK a, s, i : Token!UnpackMint(d) = Token!MintState(a, s, i) /\ s \in 0..U64_MAX /\ i \in BOOLEAN
                       /\ (d.kind = "Mint" => d.mint_authority = a /\ d.supply = s /\ d.is_initialized = i)
                       /\ (d.kind # "Mint" => i = FALSE)
    <2>1. CASE d.kind = "Mint"
      <3>1. IsMintData(d)
        BY <2>1, KindsOf
      <3> QED
        BY <2>1, <3>1, Zenon DEF IsMintData, Token!UnpackMint
    <2>2. CASE d.kind # "Mint"
      <3>1. PICK f : f = FALSE
        BY Zenon
      <3>2. Token!UnpackMint(d) = Token!MintState(SYSTEM_PROGRAM_ID, 0, f)
        BY <2>2, <3>1, Zenon DEF Token!UnpackMint
      <3>3. 0 \in 0..U64_MAX
        BY U64Assumption
      <3> QED
        BY <2>2, <3>1, <3>2, <3>3, Zenon
    <2> QED
      BY <2>1, <2>2, Zenon
  <1>2. PICK m : m = Token!UnpackMint(d)
    OBVIOUS
  <1>3. e = [m EXCEPT !.supply = saturating_add(@, n)]
    BY <1>2, Zenon DEF MintedMore
  <1>4. m = [kind |-> "Mint", len |-> Token!MINT_LEN, mint_authority |-> a, supply |-> s, is_initialized |-> i]
    BY <1>1, <1>2, Zenon DEF Token!MintState
  <1>5. PICK u : u = saturating_add(s, n)
    OBVIOUS
  <1>6. e = [kind |-> "Mint", len |-> Token!MINT_LEN, mint_authority |-> a, supply |-> u, is_initialized |-> i]
    BY <1>3, <1>4, <1>5
  <1>7. u \in 0..U64_MAX /\ u >= s
    BY <1>1, <1>5, U64Assumption DEF saturating_add
  <1>8. IsMintData(e)
    BY <1>1, <1>6, <1>7 DEF IsMintData, Token!MintState
  <1>9. d # Empty /\ d.kind \in {"Mint", "Zeros"}
    BY DEF Token!IsMint, Token!Zeros, Empty, Zeros, Token!MINT_LEN
  <1>10. LaterData(d, e)
    BY <1>1, <1>6, <1>7, <1>9 DEF LaterData, StaysInitialized, IsInitialized, Frozen
  <1> QED
    BY <1>1, <1>5, <1>6, <1>8, <1>10

\* The fields of a mint, and of a token account.
MintIs(e, a, v, i) ==
    /\ IsMintData(e) /\ e.kind = "Mint" /\ e.mint_authority = a /\ e.supply = v
    /\ e.is_initialized = i
TokenIs(e, a, o, v, i) ==
    /\ IsTokenData(e) /\ e.kind = "TokenAccount" /\ e.mint = a /\ e.owner = o /\ e.amount = v
    /\ e.is_initialized = i

\* A mint has them.
LEMMA MintShape ==
    ASSUME NEW a, NEW v \in 0..U64_MAX, NEW i \in BOOLEAN, NEW e, e = Token!MintState(a, v, i)
    PROVE  MintIs(e, a, v, i)
  BY DEF MintIs, IsMintData, Token!MintState

\* So has a token account.
LEMMA TokenShape ==
    ASSUME NEW a, NEW o, NEW v \in 0..U64_MAX, NEW i \in BOOLEAN, ~i => a = SYSTEM_PROGRAM_ID,
           NEW e, e = Token!TokenAccount(a, o, v, i)
    PROVE  TokenIs(e, a, o, v, i)
  BY DEF TokenIs, IsTokenData, Token!TokenAccount

\* The token account that data unpacks to.
LEMMA Unpacked ==
    ASSUME NEW txs, NEW key, NEW d, DataOk(key, d, txs), Token!IsTokenAccount(d),
           NEW m, m = Token!UnpackTokenAccount(d)
    PROVE  /\ IsTokenData(m) /\ d # Empty /\ d.kind \in {"TokenAccount", "Zeros"}
           /\ d.kind = "TokenAccount" => m = d
           /\ d.kind # "TokenAccount" => ~m.is_initialized
  <1>1. CASE d.kind = "TokenAccount"
    <2>1. IsTokenData(d)
      BY <1>1, KindsOf
    <2>2. m = d
      BY <1>1, Zenon DEF Token!UnpackTokenAccount
    <2> QED
      BY <1>1, <2>1, <2>2 DEF Empty, Zeros
  <1>2. CASE d.kind # "TokenAccount"
    <2>1. PICK f, v : f = FALSE /\ v = 0
      BY Zenon
    <2>2. m = Token!TokenAccount(SYSTEM_PROGRAM_ID, SYSTEM_PROGRAM_ID, v, f)
      BY <1>2, <2>1, Zenon DEF Token!UnpackTokenAccount
    <2>3. f \in BOOLEAN /\ v \in 0..U64_MAX
      <3>1. f \in BOOLEAN
        BY <2>1, Zenon
      <3> QED
        BY <2>1, <3>1, U64Assumption
    <2>4. TokenIs(m, SYSTEM_PROGRAM_ID, SYSTEM_PROGRAM_ID, v, f)
      BY <2>2, <2>3, TokenShape
    <2>5. IsTokenData(m) /\ ~m.is_initialized
      BY <2>1, <2>4 DEF TokenIs
    <2>6. d # Empty /\ d.kind = "Zeros"
      BY <1>2 DEF Token!IsTokenAccount, Token!Zeros, Empty, Zeros, Token!TOKEN_ACCOUNT_LEN
    <2> QED
      BY <1>2, <2>5, <2>6
  <1> QED
    BY <1>1, <1>2

\* e is what data d that unpacks to m becomes with another amount.
HasAmount(d, m, e, v) ==
    /\ IsTokenData(e) /\ LaterData(d, e) /\ e.kind = "TokenAccount"
    /\ e.amount = v /\ e.mint = m.mint /\ e.is_initialized = m.is_initialized

\* What a token account with another amount is.
LEMMA AmountData ==
    ASSUME NEW txs, NEW key, NEW d, DataOk(key, d, txs), Token!IsTokenAccount(d),
           NEW m, m = Token!UnpackTokenAccount(d), NEW v \in 0..U64_MAX,
           NEW e, e = [m EXCEPT !.amount = v]
    PROVE  HasAmount(d, m, e, v)
  <1>1. /\ IsTokenData(m) /\ d # Empty /\ d.kind \in {"TokenAccount", "Zeros"}
        /\ d.kind = "TokenAccount" => m = d
    BY Unpacked
  <1>2. PICK a, o, s, i : m = Token!TokenAccount(a, o, s, i) /\ i \in BOOLEAN
                          /\ (~i => a = SYSTEM_PROGRAM_ID)
                          /\ m.mint = a /\ m.owner = o /\ m.is_initialized = i
    BY <1>1 DEF IsTokenData
  <1>3. m = [kind |-> "TokenAccount", len |-> Token!TOKEN_ACCOUNT_LEN, mint |-> a, owner |-> o,
             amount |-> s, is_initialized |-> i]
    BY <1>2, Zenon DEF Token!TokenAccount
  <1>4. e = [kind |-> "TokenAccount", len |-> Token!TOKEN_ACCOUNT_LEN, mint |-> a, owner |-> o,
             amount |-> v, is_initialized |-> i]
    BY <1>3
  <1>5. IsTokenData(e)
    BY <1>2, <1>4 DEF IsTokenData, Token!TokenAccount
  <1>6. LaterData(d, e)
    BY <1>1, <1>2, <1>4, Zenon DEF LaterData, StaysInitialized, IsInitialized, Frozen
  <1> QED
    BY <1>2, <1>4, <1>5, <1>6 DEF HasAmount

\* Tokens come.
LEMMA CreditedData ==
    ASSUME NEW txs, NEW key, NEW d, DataOk(key, d, txs), Token!IsTokenAccount(d), NEW n \in 0..U64_MAX,
           NEW m, m = Token!UnpackTokenAccount(d), NEW e, e = Credited(d, n)
    PROVE  /\ IsTokenData(e) /\ LaterData(d, e) /\ e.kind = "TokenAccount"
           /\ e.amount = saturating_add(m.amount, n) /\ e.mint = m.mint
           /\ e.is_initialized = m.is_initialized
  <1>1. PICK v : v = saturating_add(m.amount, n)
    OBVIOUS
  <1>2. e = [m EXCEPT !.amount = v]
    BY <1>1, Zenon DEF Credited
  <1>3. IsTokenData(m)
    BY Unpacked
  <1>4. v \in 0..U64_MAX
    BY <1>1, <1>3, U64Assumption DEF IsTokenData, saturating_add
  <1>5. HasAmount(d, m, e, v)
    BY <1>2, <1>4, AmountData
  <1> QED
    BY <1>1, <1>5, Zenon DEF HasAmount

\* Tokens go.
LEMMA DebitedData ==
    ASSUME NEW txs, NEW key, NEW d, DataOk(key, d, txs), Token!IsTokenAccount(d), NEW n \in 0..U64_MAX,
           NEW m, m = Token!UnpackTokenAccount(d), NEW e, e = Debited(d, n)
    PROVE  /\ IsTokenData(e) /\ LaterData(d, e) /\ e.kind = "TokenAccount"
           /\ e.amount = saturating_sub(m.amount, n) /\ e.mint = m.mint
           /\ e.is_initialized = m.is_initialized
  <1>1. PICK v : v = saturating_sub(m.amount, n)
    OBVIOUS
  <1>2. e = [m EXCEPT !.amount = v]
    BY <1>1, Zenon DEF Debited
  <1>3. IsTokenData(m)
    BY Unpacked
  <1>4. v \in 0..U64_MAX
    BY <1>1, <1>3, U64Assumption DEF IsTokenData, saturating_sub
  <1>5. HasAmount(d, m, e, v)
    BY <1>2, <1>4, AmountData
  <1> QED
    BY <1>1, <1>5, Zenon DEF HasAmount

\* A mint is initialized.
LEMMA NewMintData ==
    ASSUME NEW txs, NEW key, NEW d, DataOk(key, d, txs), Token!IsMint(d),
           ~Token!UnpackMint(d).is_initialized, NEW a,
           NEW v \in 0..U64_MAX, v = 0, NEW t \in BOOLEAN, t, NEW e, e = Token!MintState(a, v, t)
    PROVE  /\ IsMintData(e) /\ LaterData(d, e) /\ IsInitialized(e, "Mint") /\ e.supply = 0
           /\ ~IsInitialized(d, "Mint") /\ ~IsInitialized(d, "TokenAccount") /\ d # Empty
  <1>2. MintIs(e, a, v, t)
    BY MintShape, Zenon
  <1>3. d # Empty /\ d.kind \in {"Mint", "Zeros"}
    BY DEF Token!IsMint, Token!Zeros, Empty, Zeros, Token!MINT_LEN
  <1>4. d.kind = "Mint" => ~d.is_initialized
    BY Zenon DEF Token!UnpackMint
  <1>5. ~IsInitialized(d, "Mint") /\ ~IsInitialized(d, "TokenAccount")
    BY <1>3, <1>4 DEF IsInitialized
  <1>6. d.kind # "Loader"
    BY <1>3
  <1>7. LaterData(d, e)
    BY <1>3, <1>5, <1>6, Zenon DEF LaterData, StaysInitialized, Frozen
  <1> QED
    BY <1>2, <1>3, <1>5, <1>7, Zenon DEF IsInitialized, MintIs

\* e is what data d of a token account becomes when it is initialized for the mint m.
NewToken(d, e, m) ==
    /\ IsTokenData(e) /\ LaterData(d, e)
    /\ IsInitialized(e, "TokenAccount") /\ e.amount = 0 /\ e.mint = m
    /\ ~IsInitialized(d, "Mint") /\ ~IsInitialized(d, "TokenAccount") /\ d # Empty

\* A token account is initialized.
LEMMA NewTokenData ==
    ASSUME NEW txs, NEW key, NEW d, DataOk(key, d, txs), Token!IsTokenAccount(d),
           ~Token!UnpackTokenAccount(d).is_initialized, NEW m, NEW o,
           NEW v \in 0..U64_MAX, v = 0, NEW t \in BOOLEAN, t, NEW e, e = Token!TokenAccount(m, o, v, t)
    PROVE  NewToken(d, e, m)
  <1>2. TokenIs(e, m, o, v, t)
    BY TokenShape, Zenon
  <1>3. /\ d # Empty /\ d.kind \in {"TokenAccount", "Zeros"}
        /\ d.kind = "TokenAccount" => ~d.is_initialized
    <2>1. PICK u : u = Token!UnpackTokenAccount(d)
      OBVIOUS
    <2>2. /\ d # Empty /\ d.kind \in {"TokenAccount", "Zeros"}
          /\ d.kind = "TokenAccount" => u = d
      BY <2>1, Unpacked
    <2> QED
      BY <2>1, <2>2
  <1>4. ~IsInitialized(d, "Mint") /\ ~IsInitialized(d, "TokenAccount")
    BY <1>3 DEF IsInitialized
  <1>5. d.kind # "Loader"
    BY <1>3
  <1>6. LaterData(d, e)
    BY <1>3, <1>4, <1>5, Zenon DEF LaterData, StaysInitialized, Frozen
  <1> QED
    BY <1>2, <1>3, <1>4, <1>6, Zenon DEF IsInitialized, TokenIs, NewToken

-----------------------------------------------------------------------------
\* What the loader writes.
\* The sizes of its states.
LEMMA SizesAre ==
    ASSUME NEW a
    PROVE  /\ Loader!serialized_size(Loader!Buffer(a)) = IF a = Loader!NoKey THEN 5 ELSE 37
           /\ Loader!serialized_size(Loader!Program(a)) = 36
           /\ Loader!serialized_size(Loader!ProgramData(0, a)) = IF a = Loader!NoKey THEN 13 ELSE 45
  <1>1. Loader!serialized_size(Loader!Buffer(a)) = IF a = Loader!NoKey THEN 5 ELSE 37
    BY DEF Loader!serialized_size, Loader!Buffer
  <1>2. Loader!serialized_size(Loader!Program(a)) = 36
    BY DEF Loader!serialized_size, Loader!Program
  <1>3. Loader!serialized_size(Loader!ProgramData(0, a)) = IF a = Loader!NoKey THEN 13 ELSE 45
    BY DEF Loader!serialized_size, Loader!ProgramData
  <1> QED
    BY <1>1, <1>2, <1>3

\* Their metadata.
LEMMA MetadataIs ==
    /\ Loader!size_of_buffer_metadata \in {5, 37}
    /\ Loader!size_of_programdata_metadata \in {13, 45}
  BY SizesAre DEF Loader!size_of_buffer_metadata, Loader!size_of_programdata_metadata

\* Where a state's metadata ends.
LEMMA MetadataLenIs ==
    ASSUME NEW s, IsLoaderState(s)
    PROVE  /\ Loader!MetadataLen(s) \in Nat /\ Loader!serialized_size(s) \in Nat
           /\ Loader!serialized_size(s) >= 1
           /\ s.tag = "Buffer" => Loader!MetadataLen(s) = Loader!size_of_buffer_metadata
           /\ s.tag = "ProgramData" => Loader!MetadataLen(s) = Loader!size_of_programdata_metadata
           /\ s.tag = "Buffer" /\ s.authority_address # Loader!NoKey =>
                 Loader!size_of_buffer_metadata <= Loader!serialized_size(s)
  <1>1. CASE s.tag = "Buffer"
    <2>1. PICK a : s = Loader!Buffer(a) /\ s.authority_address = a
      BY <1>1 DEF IsLoaderState
    <2>2. Loader!MetadataLen(s) = Loader!size_of_buffer_metadata
      BY <1>1 DEF Loader!MetadataLen
    <2>3. Loader!serialized_size(s) = IF a = Loader!NoKey THEN 5 ELSE 37
      BY <2>1, SizesAre
    <2> QED
      BY <1>1, <2>1, <2>2, <2>3, MetadataIs
  <1>2. CASE s.tag = "Program"
    <2>1. PICK a : s = Loader!Program(a)
      BY <1>2 DEF IsLoaderState
    <2>2. Loader!MetadataLen(s) = Loader!serialized_size(s)
      BY <1>2 DEF Loader!MetadataLen
    <2>3. Loader!serialized_size(s) = 36
      BY <2>1, SizesAre
    <2> QED
      BY <1>2, <2>2, <2>3
  <1>3. CASE s.tag = "ProgramData"
    <2>1. PICK a : s = Loader!ProgramData(0, a)
      BY <1>3 DEF IsLoaderState
    <2>2. Loader!MetadataLen(s) = Loader!size_of_programdata_metadata
      BY <1>3 DEF Loader!MetadataLen
    <2>3. Loader!serialized_size(s) = IF a = Loader!NoKey THEN 13 ELSE 45
      BY <2>1, SizesAre
    <2> QED
      BY <1>3, <2>2, <2>3, MetadataIs
  <1> QED
    BY <1>1, <1>2, <1>3 DEF IsLoaderState

\* Bytes copied over others.
LEMMA CopiedBytes ==
    ASSUME NEW body \in Seq(Byte), NEW offset \in Nat, NEW bytes \in Seq(Byte),
           NEW c, c = Loader!CopyInto(body, offset, bytes)
    PROVE  /\ c \in Seq(Byte) /\ Len(c) = Len(body)
           /\ \A i \in 1..Len(body) :
                 c[i] = IF i - offset \in 1..Len(bytes) THEN bytes[i - offset] ELSE body[i]
  <1>1. DOMAIN body = 1..Len(body) /\ DOMAIN bytes = 1..Len(bytes) /\ Len(body) \in Nat
    OBVIOUS
  <1>2. c = [i \in 1..Len(body) |-> IF i - offset \in 1..Len(bytes) THEN bytes[i - offset] ELSE body[i]]
    BY <1>1, Zenon DEF Loader!CopyInto
  <1>3. \A i \in 1..Len(body) :
            (IF i - offset \in 1..Len(bytes) THEN bytes[i - offset] ELSE body[i]) \in Byte
    OBVIOUS
  <1>4. c \in [1..Len(body) -> Byte]
    BY <1>2, <1>3
  <1>5. c \in Seq(Byte) /\ Len(c) = Len(body)
    BY <1>1, <1>4
  <1> QED
    BY <1>2, <1>5

\* The length of data.
LEMMA LenIsNat ==
    ASSUME NEW d, AnyData(d)
    PROVE  d.len \in Nat
  BY DEF AnyData, IsZeros, IsMintData, IsTokenData, IsLoaderData,
         Token!MintState, Token!TokenAccount, Token!MINT_LEN, Token!TOKEN_ACCOUNT_LEN

\* The bytes of data.
LEMMA BodyIs ==
    ASSUME NEW d, AnyData(d), NEW from \in Nat, NEW b, b = Loader!BodyFrom(from, d)
    PROVE  b \in Seq(Byte) /\ Len(b) = saturating_sub(d.len, from)
  <1>1. PICK n : n = Loader!saturating_sub(d.len, from)
    OBVIOUS
  <1>2. n = saturating_sub(d.len, from)
    BY <1>1, LoaderOps
  <1>3. d.len \in Nat
    BY LenIsNat
  <1>4. n \in Nat /\ n = (IF d.len > from THEN d.len - from ELSE 0)
    BY <1>2, <1>3 DEF saturating_sub
  <1>5. PICK f : f = [i \in 1..n |->
              IF d.kind = "Zeros" THEN 0
              ELSE IF d.kind = "Loader" /\ from + i > Loader!MetadataLen(d.state)
                   THEN d.body[from + i - Loader!MetadataLen(d.state)]
              ELSE Loader!OPAQUE]
    BY Zenon
  <1>6. b = f
    BY <1>1, <1>5, Zenon DEF Loader!BodyFrom
  <1>7. ASSUME NEW i \in 1..n, d.kind = "Loader", from + i > Loader!MetadataLen(d.state)
        PROVE  d.body[from + i - Loader!MetadataLen(d.state)] \in Byte
    <2>1. IsLoaderData(d)
      BY <1>7 DEF AnyData, IsZeros, IsMintData, IsTokenData
    <2>2. PICK m, body : m = Loader!MetadataLen(d.state) /\ body = d.body
      OBVIOUS
    <2>3. m \in Nat
      BY <2>1, <2>2, MetadataLenIs DEF IsLoaderData
    <2>4. body \in Seq(Byte) /\ Len(body) = saturating_sub(d.len, m)
      BY <2>1, <2>2 DEF IsLoaderData
    <2>5. PICK x, y \in Nat : x = d.len /\ y = saturating_sub(d.len, m)
      BY <1>3, <2>3 DEF saturating_sub
    <2>6. from + i - m \in 1..y
      <3>1. y = (IF x > m THEN x - m ELSE 0) /\ n = (IF x > from THEN x - from ELSE 0)
        BY <1>4, <2>5 DEF saturating_sub
      <3>2. i \in Nat /\ i >= 1 /\ i <= n /\ from + i > m
        BY <1>4, <1>7, <2>2
      <3> QED
        BY <1>4, <2>3, <2>5, <3>1, <3>2
    <2> QED
      BY <2>2, <2>4, <2>5, <2>6
  <1>8. 0 \in Byte /\ Loader!OPAQUE \in Byte
    BY DEF Byte
  <1>9. ASSUME NEW i \in 1..n PROVE f[i] \in Byte
    BY <1>5, <1>7, <1>8
  <1>10. f \in [1..n -> Byte]
    BY <1>5, <1>9
  <1> QED
    BY <1>2, <1>4, <1>6, <1>10

\* A state packed into an account.
Packed(d, s, e) ==
    /\ IsLoaderData(e) /\ e.kind = "Loader" /\ e.len = d.len /\ e.state = s
    /\ e.body = Loader!BodyFrom(Loader!MetadataLen(s), d)

\* Packing makes loader data.
LEMMA PackedData ==
    ASSUME NEW d, AnyData(d), NEW s, IsLoaderState(s), ~Loader!PackFails(s, d),
           NEW e, e = Loader!pack_into_account(s, d)
    PROVE  Packed(d, s, e)
  <1>1. PICK from, b : from = Loader!MetadataLen(s) /\ b = Loader!BodyFrom(from, d)
    OBVIOUS
  <1>2. e = [kind |-> "Loader", len |-> d.len, state |-> s, body |-> b]
    BY <1>1, Zenon DEF Loader!pack_into_account
  <1>3. from \in Nat /\ Loader!serialized_size(s) \in Nat
    BY <1>1, MetadataLenIs
  <1>4. d.len \in Nat
    BY LenIsNat
  <1>5. b \in Seq(Byte) /\ Len(b) = saturating_sub(d.len, from)
    BY <1>1, <1>3, BodyIs
  <1>6. d.len >= Loader!serialized_size(s)
    BY <1>3, <1>4 DEF Loader!PackFails
  <1>7. IsLoaderData(e)
    BY <1>1, <1>2, <1>4, <1>5, <1>6 DEF IsLoaderData
  <1> QED
    BY <1>1, <1>2, <1>7 DEF Packed

\* Data with something in it that the loader may write.
LEMMA LaterLoader ==
    ASSUME NEW d, d # Empty, ~Frozen(d), NEW e
    PROVE  LoaderLater(d, e)
  BY DEF LoaderLater

\* The state in data.
LEMMA StateIs ==
    ASSUME NEW d, AnyData(d)
    PROVE  /\ IsLoaderData(d) => Loader!StateOf(d) = d.state
           /\ ~IsLoaderData(d) => /\ Loader!StateOf(d) = Loader!Uninitialized
                                  /\ Loader!StateOf(d).tag = "Uninitialized"
                                  /\ d.kind # "Loader"
           /\ Loader!StateOf(d) = Loader!Uninitialized => d.kind # "Loader"
  BY DEF Loader!StateOf, Loader!Uninitialized, AnyData, IsZeros, IsMintData, IsTokenData,
         IsLoaderData, IsLoaderState

\* A buffer is initialized.
LEMMA BufferData ==
    ASSUME NEW d, AnyData(d), Loader!StateOf(d) = Loader!Uninitialized,
           NEW a, NEW s, s = Loader!Buffer(a), ~Loader!PackFails(s, d),
           NEW e, e = Loader!pack_into_account(s, d)
    PROVE  Packed(d, s, e) /\ LoaderLater(d, e) /\ d # Empty /\ s.tag = "Buffer"
  <1>1. ~Frozen(d)
    BY StateIs DEF Frozen
  <1>2. IsLoaderState(s) /\ s.tag = "Buffer"
    BY DEF IsLoaderState, Loader!Buffer
  <1>3. Packed(d, s, e)
    BY <1>2, PackedData
  <1>4. d # Empty
    <2>1. Loader!serialized_size(s) \in Nat /\ Loader!serialized_size(s) >= 1
      BY <1>2, MetadataLenIs
    <2>2. d.len >= Loader!serialized_size(s)
      BY <2>1, LenIsNat DEF Loader!PackFails
    <2> QED
      BY <2>1, <2>2, EmptyIs
  <1>5. LoaderLater(d, e)
    BY <1>1, <1>4, LaterLoader
  <1> QED
    BY <1>2, <1>3, <1>4, <1>5

\* Bytes are written to a buffer.
LEMMA RewrittenData ==
    ASSUME NEW d, AnyData(d), Loader!StateOf(d).tag = "Buffer",
           Loader!StateOf(d).authority_address # Loader!NoKey,
           NEW offset \in Nat, NEW bytes \in Seq(Byte), NEW e, e = Rewritten(d, offset, bytes)
    PROVE  /\ IsLoaderData(d) /\ d # Empty /\ IsLoaderData(e) /\ e.kind = "Loader" /\ e.state = d.state
           /\ LoaderLater(d, e)
  <1>1. IsLoaderData(d) /\ Loader!StateOf(d) = d.state
    BY StateIs
  <1>2. PICK s, l, b : /\ d = [kind |-> "Loader", len |-> l, state |-> s, body |-> b]
                       /\ s = d.state /\ l = d.len /\ b = d.body
    BY <1>1 DEF IsLoaderData
  <1>3. PICK c : c = Loader!CopyInto(b, offset, bytes)
    OBVIOUS
  <1>4. c \in Seq(Byte) /\ Len(c) = Len(b)
    BY <1>1, <1>2, <1>3, CopiedBytes DEF IsLoaderData
  <1>5. PICK w : w = [d EXCEPT !.body = c]
    BY Zenon
  <1>6. w = [kind |-> "Loader", len |-> l, state |-> s, body |-> c]
    BY <1>2, <1>5
  <1>7. IsLoaderData(w) /\ AnyData(w)
    BY <1>1, <1>2, <1>4, <1>6 DEF IsLoaderData, AnyData
  <1>8. e = Loader!pack_into_account(s, w)
    <2>1. e = Loader!pack_into_account(Loader!StateOf(d), [d EXCEPT !.body = Loader!CopyInto(@, offset, bytes)])
      BY Zenon DEF Rewritten
    <2>2. [d EXCEPT !.body = Loader!CopyInto(@, offset, bytes)] = w
      BY <1>2, <1>3, <1>5
    <2> QED
      BY <1>1, <1>2, <2>1, <2>2
  <1>9. IsLoaderState(s) /\ ~Loader!PackFails(s, w)
    <2>1. IsLoaderState(s) /\ l \in Nat /\ l >= Loader!serialized_size(s)
      BY <1>1, <1>2 DEF IsLoaderData
    <2>2. Loader!serialized_size(s) \in Nat /\ w.len = l
      BY <1>6, <2>1, MetadataLenIs
    <2> QED
      BY <2>1, <2>2 DEF Loader!PackFails
  <1>10. w.state = s
    BY <1>6
  <1>11. Packed(w, s, e)
    BY <1>7, <1>8, <1>9, <1>10, PackedData
  <1>12. IsLoaderData(e) /\ e.kind = "Loader" /\ e.state = d.state
    BY <1>2, <1>11 DEF Packed
  <1>13. d # Empty /\ ~Frozen(d)
    BY <1>1 DEF IsLoaderData, Frozen, Empty, Zeros
  <1>14. LoaderLater(d, e)
    BY <1>13, LaterLoader
  <1> QED
    BY <1>1, <1>12, <1>13, <1>14

\* e is what data d becomes when its state becomes s, with another authority.
Rekeyed(d, s, e) ==
    /\ IsLoaderData(d) /\ d # Empty /\ Packed(d, s, e) /\ s.tag = d.state.tag /\ LoaderLater(d, e)

\* The authority is replaced.
LEMMA AuthorityData ==
    ASSUME NEW d, AnyData(d), NEW old, old # Loader!NoKey, NEW new,
           Loader!StateOf(d).tag \in {"Buffer", "ProgramData"}, Loader!StateOf(d).authority_address = old,
           NEW s, s = WithAuthority(d, new), ~Loader!PackFails(s, d),
           NEW e, e = Loader!pack_into_account(s, d)
    PROVE  Rekeyed(d, s, e)
  <1>1. IsLoaderData(d) /\ Loader!StateOf(d) = d.state
    BY StateIs
  <1>2. PICK f : f = d.state
    OBVIOUS
  <1>3. s = [f EXCEPT !.authority_address = new]
    BY <1>1, <1>2, Zenon DEF WithAuthority
  <1>4. IsLoaderState(s) /\ s.tag = f.tag
    <2>1. CASE f.tag = "Buffer"
      <3>1. PICK a : f = Loader!Buffer(a)
        BY <1>1, <1>2, <2>1 DEF IsLoaderData, IsLoaderState
      <3>2. f = [tag |-> "Buffer", authority_address |-> a]
        BY <3>1, Zenon DEF Loader!Buffer
      <3>3. s = [tag |-> "Buffer", authority_address |-> new]
        BY <1>3, <3>2
      <3> QED
        BY <2>1, <3>3 DEF IsLoaderState, Loader!Buffer
    <2>2. CASE f.tag = "ProgramData"
      <3>1. PICK a : f = Loader!ProgramData(0, a)
        BY <1>1, <1>2, <2>2 DEF IsLoaderData, IsLoaderState
      <3>2. f = [tag |-> "ProgramData", slot |-> 0, authority_address |-> a]
        BY <3>1, Zenon DEF Loader!ProgramData
      <3>3. s = [tag |-> "ProgramData", slot |-> 0, authority_address |-> new]
        BY <1>3, <3>2
      <3> QED
        BY <2>2, <3>3 DEF IsLoaderState, Loader!ProgramData
    <2> QED
      BY <1>1, <1>2, <2>1, <2>2
  <1>5. Packed(d, s, e)
    BY <1>1, <1>2, <1>4, PackedData
  <1>6. d # Empty /\ ~Frozen(d)
    BY <1>1 DEF IsLoaderData, Frozen, Empty, Zeros
  <1>7. LoaderLater(d, e)
    BY <1>6, LaterLoader
  <1> QED
    BY <1>1, <1>2, <1>4, <1>5, <1>6, <1>7 DEF Rekeyed

\* A program account points to its data.
LEMMA PointerData ==
    ASSUME NEW d, AnyData(d), NEW p, NEW s, s = Loader!Program(p),
           ~Loader!PackFails(s, d), NEW e, e = Loader!pack_into_account(s, d)
    PROVE  Packed(d, s, e) /\ s.tag = "Program" /\ s.programdata_address = p /\ d # Empty
  <1>1. IsLoaderState(s) /\ s.tag = "Program" /\ s.programdata_address = p
    BY DEF IsLoaderState, Loader!Program
  <1>2. Packed(d, s, e)
    BY <1>1, PackedData
  <1>3. d # Empty
    <2>1. Loader!serialized_size(s) = 36
      BY SizesAre
    <2>2. d.len >= 36
      BY <2>1, LenIsNat DEF Loader!PackFails
    <2> QED
      BY <2>2, EmptyIs
  <1> QED
    BY <1>1, <1>2, <1>3

\* The programdata account of a deployment.
LEMMA ProgramDataIs ==
    ASSUME NEW auth, NEW space \in Nat, NEW code \in Seq(Byte), NEW z, z = Zeros(space),
           ~Loader!PackFails(Loader!ProgramData(0, auth), z),
           NEW e, e = Deployed(auth, z, code)
    PROVE  /\ IsLoaderData(e) /\ e.kind = "Loader" /\ e.state.tag = "ProgramData"
           /\ e.body = Loader!CopyInto(Loader!BodyFrom(Loader!size_of_programdata_metadata, z), 0, code)
  <1>1. AnyData(z)
    BY DEF IsZeros, Zeros, AnyData
  <1>2. PICK s, w : s = Loader!ProgramData(0, auth) /\ w = Loader!pack_into_account(s, z)
    OBVIOUS
  <1>3. IsLoaderState(s) /\ s.tag = "ProgramData"
    BY <1>2 DEF IsLoaderState, Loader!ProgramData
  <1>4. Packed(z, s, w)
    BY <1>1, <1>2, <1>3, PackedData
  <1>5. PICK l, b : /\ w = [kind |-> "Loader", len |-> l, state |-> s, body |-> b]
                    /\ l \in Nat /\ b \in Seq(Byte) /\ l >= Loader!serialized_size(s)
                    /\ Len(b) = saturating_sub(l, Loader!MetadataLen(s))
                    /\ b = Loader!BodyFrom(Loader!MetadataLen(s), z)
    BY <1>4 DEF Packed, IsLoaderData
  <1>6. PICK c : c = Loader!CopyInto(b, 0, code)
    OBVIOUS
  <1>7. c \in Seq(Byte) /\ Len(c) = Len(b)
    BY <1>5, <1>6, CopiedBytes
  <1>8. e = [kind |-> "Loader", len |-> l, state |-> s, body |-> c]
    <2>1. e = [w EXCEPT !.body = Loader!CopyInto(@, 0, code)]
      BY <1>2, Zenon DEF Deployed
    <2> QED
      BY <1>5, <1>6, <2>1
  <1>9. IsLoaderData(e)
    BY <1>3, <1>5, <1>7, <1>8 DEF IsLoaderData
  <1>10. Loader!MetadataLen(s) = Loader!size_of_programdata_metadata
    BY <1>3, MetadataLenIs
  <1> QED
    BY <1>3, <1>5, <1>6, <1>8, <1>9, <1>10

-----------------------------------------------------------------------------
\* What an instruction leaves of the store, but for the accounts it creates; us are the
\* transactions whose loader instructions may be at work.
Onward(V, W, made, txs, us) == DOMAIN W = DOMAIN V /\ StoreOk(W, txs) /\ Later(V, W, made, us)

\* No data of the loader appears.
NoneLoaded(V, W) == \A key \in DOMAIN V : W[key].data.kind = "Loader" => W[key].data = V[key].data

LEMMA KeptLoaded ==
    ASSUME NEW V, NEW W, NEW K, Kept(K, V, W), \A k \in DOMAIN V : k \in K => W[k].data.kind # "Loader"
    PROVE  NoneLoaded(V, W)
  BY DEF NoneLoaded, Kept, Same

\* An account whose data the token program writes.
LEMMA TokenAccountOk ==
    ASSUME NEW txs, NEW key \in TokenKeys(txs), NEW a, AccountOk(key, a, txs), a.data # Empty,
           a.data.kind # "Loader", NEW b, b.owner = a.owner, b.executable = a.executable,
           IsMintData(b.data) \/ IsTokenData(b.data)
    PROVE  AccountOk(key, b, txs)
  BY DEF AccountOk, DataOk

\* An account whose data the loader writes.
LEMMA LoaderAccountOk ==
    ASSUME NEW txs, NEW key, NEW b, b.executable \in BOOLEAN, IsLoaderData(b.data)
    PROVE  AccountOk(key, b, txs)
  BY DEF AccountOk, DataOk, IsLoaderData

LEMMA LoaderStays ==
    ASSUME NEW txs, NEW key, NEW a, AccountOk(key, a, txs), NEW b, b.executable = a.executable,
           NEW d, IsLoaderData(d), b.data = d
    PROVE  AccountOk(key, b, txs)
  <1>1. b.executable \in BOOLEAN /\ IsLoaderData(b.data)
    BY DEF AccountOk
  <1> QED
    BY <1>1, LoaderAccountOk

\* What an account may hold.
LEMMA LoaderHolds ==
    ASSUME NEW txs, NEW key, NEW a, AccountOk(key, a, txs)
    PROVE  AnyData(a.data)
  BY DEF AccountOk, DataOk, AnyData

\* One account is written.
LEMMA PutOnward ==
    ASSUME NEW txs, NEW V, StoreOk(V, txs), NEW W, NEW k, NEW d, Put(k, d, V, W), NEW made, NEW us,
           AccountOk(k, W[k], txs), k \in made \/ LaterAt(k, V[k].data, d, us)
    PROVE  Onward(V, W, made, txs, us)
  <1>1. Kept({k}, V, W) /\ DOMAIN W = DOMAIN V /\ W[k].data = d
    BY DEF Put, Becomes, Kept
  <1>2. StoreOk(W, txs)
    BY <1>1, StoreKept
  <1>3. Later(V, W, made, us)
    <2>1. \A x \in DOMAIN V \ made : x \in {k} => LaterAt(x, V[x].data, W[x].data, us)
      BY <1>1
    <2> QED
      BY <1>1, <2>1, LaterKept
  <1> QED
    BY <1>1, <1>2, <1>3 DEF Onward

\* It is the token program's.
LEMMA PutToken ==
    ASSUME NEW txs, NEW V, StoreOk(V, txs), NEW W, NEW k, NEW d, Put(k, d, V, W), NEW made, NEW us,
           AccountOk(k, W[k], txs), LaterData(V[k].data, d), IsMintData(d) \/ IsTokenData(d)
    PROVE  Onward(V, W, made, txs, us) /\ NoneLoaded(V, W)
  <1>1. LaterAt(k, V[k].data, d, us)
    BY LaterAnywhere
  <1>2. Onward(V, W, made, txs, us)
    BY <1>1, PutOnward
  <1>3. PICK K : K = {k}
    BY Zenon
  <1>4. Kept(K, V, W) /\ W[k].data.kind # "Loader"
    BY <1>3 DEF Put, Becomes, IsMintData, IsTokenData
  <1>5. NoneLoaded(V, W)
    BY <1>3, <1>4, KeptLoaded
  <1> QED
    BY <1>2, <1>5

\* Two accounts are written.
LEMMA PutTwoOnward ==
    ASSUME NEW txs, NEW V, StoreOk(V, txs), NEW W, NEW k, NEW d, NEW m, NEW e, PutTwo(k, d, m, e, V, W),
           AccountOk(k, W[k], txs), LaterData(V[k].data, d), IsMintData(d) \/ IsTokenData(d),
           AccountOk(m, W[m], txs), LaterData(V[m].data, e), IsMintData(e) \/ IsTokenData(e),
           NEW made, NEW us
    PROVE  Onward(V, W, made, txs, us) /\ NoneLoaded(V, W)
  <1>1. PICK K : K = {k, m}
    BY Zenon
  <1>2. Kept(K, V, W) /\ DOMAIN W = DOMAIN V /\ W[k].data = d /\ W[m].data = e
    BY <1>1 DEF PutTwo, Kept
  <1>3. StoreOk(W, txs)
    <2>1. \A x \in DOMAIN V : x \in K => AccountOk(x, W[x], txs)
      BY <1>1
    <2> QED
      BY <1>2, <2>1, StoreKept
  <1>4. Later(V, W, made, us)
    <2>1. LaterAt(k, V[k].data, d, us) /\ LaterAt(m, V[m].data, e, us)
      BY LaterAnywhere
    <2>2. \A x \in DOMAIN V \ made : x \in K => LaterAt(x, V[x].data, W[x].data, us)
      BY <1>1, <1>2, <2>1
    <2> QED
      BY <1>2, <2>2, LaterKept
  <1>5. NoneLoaded(V, W)
    <2>1. \A x \in DOMAIN V : x \in K => W[x].data.kind # "Loader"
      BY <1>1, <1>2 DEF IsMintData, IsTokenData
    <2> QED
      BY <1>2, <2>1, KeptLoaded
  <1> QED
    BY <1>2, <1>3, <1>4, <1>5 DEF Onward

\* MintTo.
LEMMA MintOnward ==
    ASSUME NEW txs, NEW V, StoreOk(V, txs), NEW W, NEW m \in TokenKeys(txs), NEW k \in TokenKeys(txs),
           NEW n \in 0..U64_MAX, MintAt(m, k, n, V, W), NEW made, NEW us
    PROVE  Onward(V, W, made, txs, us) /\ NoneLoaded(V, W)
  <1>1. PICK c, d, e, f : c = V[m].data /\ d = MintedMore(c, n) /\ e = V[k].data /\ f = Credited(e, n)
    OBVIOUS
  <1>2. /\ AccountOk(m, V[m], txs) /\ AccountOk(k, V[k], txs) /\ Token!IsMint(c) /\ Token!IsTokenAccount(e)
        /\ PutTwo(m, d, k, f, V, W)
    BY <1>1 DEF MintAt, StoreOk
  <1>3. DataOk(m, c, txs) /\ DataOk(k, e, txs)
    BY <1>1, <1>2 DEF AccountOk
  <1>4. IsMintData(d) /\ LaterData(c, d)
    BY <1>1, <1>2, <1>3, MintedData
  <1>5. IsTokenData(f) /\ LaterData(e, f)
    <2>1. PICK u : u = Token!UnpackTokenAccount(e)
      OBVIOUS
    <2> QED
      BY <1>1, <1>2, <1>3, <2>1, CreditedData
  <1>6. c # Empty /\ e # Empty /\ c.kind # "Loader" /\ e.kind # "Loader"
    BY <1>2 DEF Token!IsMint, Token!IsTokenAccount, Token!Zeros, Empty, Zeros, Token!MINT_LEN, Token!TOKEN_ACCOUNT_LEN
  <1>7. /\ W[m].data = d /\ W[m].owner = V[m].owner /\ W[m].executable = V[m].executable
        /\ W[k].data = f /\ W[k].owner = V[k].owner /\ W[k].executable = V[k].executable
    BY <1>2 DEF PutTwo
  <1>8. AccountOk(m, W[m], txs)
    BY <1>1, <1>2, <1>4, <1>6, <1>7, TokenAccountOk
  <1>9. AccountOk(k, W[k], txs)
    BY <1>1, <1>2, <1>5, <1>6, <1>7, TokenAccountOk
  <1> QED
    BY <1>1, <1>2, <1>4, <1>5, <1>8, <1>9, PutTwoOnward

\* Transfer.
LEMMA MoveOnward ==
    ASSUME NEW txs, NEW V, StoreOk(V, txs), NEW W, NEW m \in TokenKeys(txs), NEW k \in TokenKeys(txs),
           NEW n \in 0..U64_MAX, MoveAt(m, k, n, V, W), NEW made, NEW us
    PROVE  Onward(V, W, made, txs, us) /\ NoneLoaded(V, W)
  <1>1. PICK c, d, e, f : c = V[m].data /\ d = Debited(c, n) /\ e = V[k].data /\ f = Credited(e, n)
    OBVIOUS
  <1>2. /\ AccountOk(m, V[m], txs) /\ AccountOk(k, V[k], txs)
        /\ Token!IsTokenAccount(c) /\ Token!IsTokenAccount(e)
        /\ PutTwo(m, d, k, f, V, W)
    BY <1>1 DEF MoveAt, StoreOk
  <1>3. DataOk(m, c, txs) /\ DataOk(k, e, txs)
    BY <1>1, <1>2 DEF AccountOk
  <1>4. IsTokenData(d) /\ LaterData(c, d)
    <2>1. PICK u : u = Token!UnpackTokenAccount(c)
      OBVIOUS
    <2> QED
      BY <1>1, <1>2, <1>3, <2>1, DebitedData
  <1>5. IsTokenData(f) /\ LaterData(e, f)
    <2>1. PICK u : u = Token!UnpackTokenAccount(e)
      OBVIOUS
    <2> QED
      BY <1>1, <1>2, <1>3, <2>1, CreditedData
  <1>6. c # Empty /\ e # Empty /\ c.kind # "Loader" /\ e.kind # "Loader"
    BY <1>2 DEF Token!IsTokenAccount, Token!Zeros, Empty, Zeros, Token!TOKEN_ACCOUNT_LEN
  <1>7. /\ W[m].data = d /\ W[m].owner = V[m].owner /\ W[m].executable = V[m].executable
        /\ W[k].data = f /\ W[k].owner = V[k].owner /\ W[k].executable = V[k].executable
    BY <1>2 DEF PutTwo
  <1>8. AccountOk(m, W[m], txs)
    BY <1>1, <1>2, <1>4, <1>6, <1>7, TokenAccountOk
  <1>9. AccountOk(k, W[k], txs)
    BY <1>1, <1>2, <1>5, <1>6, <1>7, TokenAccountOk
  <1> QED
    BY <1>1, <1>2, <1>4, <1>5, <1>8, <1>9, PutTwoOnward

\* InitializeMint.
LEMMA InitMintOnward ==
    ASSUME NEW txs, NEW V, StoreOk(V, txs), NEW W, NEW m \in TokenKeys(txs), NEW a,
           InitMintAt(m, a, V, W), NEW made, NEW us
    PROVE  Onward(V, W, made, txs, us) /\ NoneLoaded(V, W)
  <1>1. PICK d, v, t, e : d = V[m].data /\ v = 0 /\ t = TRUE /\ e = Token!MintState(a, v, t)
    OBVIOUS
  <1>2. /\ AccountOk(m, V[m], txs) /\ Token!IsMint(d) /\ ~Token!UnpackMint(d).is_initialized
        /\ Put(m, e, V, W)
    BY <1>1, Zenon DEF InitMintAt, StoreOk
  <1>3. DataOk(m, d, txs) /\ v \in 0..U64_MAX /\ t \in BOOLEAN /\ t
    BY <1>1, <1>2, U64Assumption DEF AccountOk
  <1>4. IsMintData(e) /\ LaterData(d, e) /\ d # Empty
    BY <1>1, <1>2, <1>3, NewMintData, Zenon
  <1>7. d.kind # "Loader"
    BY <1>2 DEF Token!IsMint, Token!Zeros, Zeros
  <1>5. W[m].data = e /\ W[m].owner = V[m].owner /\ W[m].executable = V[m].executable
    BY <1>2 DEF Put, Becomes
  <1>6. AccountOk(m, W[m], txs)
    BY <1>1, <1>2, <1>4, <1>5, <1>7, TokenAccountOk, Zenon
  <1> QED
    BY <1>1, <1>2, <1>4, <1>6, PutToken, Zenon

\* InitializeAccount.
LEMMA InitAccountOnward ==
    ASSUME NEW txs, NEW V, StoreOk(V, txs), NEW W, NEW k \in TokenKeys(txs), NEW m, NEW o,
           InitAccountAt(k, m, o, V, W), NEW made, NEW us
    PROVE  Onward(V, W, made, txs, us) /\ NoneLoaded(V, W)
  <1>1. PICK d, v, t, e : d = V[k].data /\ v = 0 /\ t = TRUE /\ e = Token!TokenAccount(m, o, v, t)
    OBVIOUS
  <1>2. /\ AccountOk(k, V[k], txs) /\ Token!IsTokenAccount(d) /\ ~Token!UnpackTokenAccount(d).is_initialized
        /\ Put(k, e, V, W)
    BY <1>1, Zenon DEF InitAccountAt, StoreOk
  <1>3. DataOk(k, d, txs) /\ v \in 0..U64_MAX /\ t \in BOOLEAN /\ t
    BY <1>1, <1>2, U64Assumption DEF AccountOk
  <1>4. NewToken(d, e, m)
    BY <1>1, <1>2, <1>3, NewTokenData, Zenon
  <1>7. d.kind # "Loader"
    BY <1>2 DEF Token!IsTokenAccount, Token!Zeros, Zeros
  <1>5. W[k].data = e /\ W[k].owner = V[k].owner /\ W[k].executable = V[k].executable
    BY <1>2 DEF Put, Becomes
  <1>6. AccountOk(k, W[k], txs)
    BY <1>1, <1>2, <1>4, <1>5, <1>7, TokenAccountOk, Zenon DEF NewToken
  <1> QED
    BY <1>1, <1>2, <1>4, <1>6, PutToken, Zenon DEF NewToken

\* InitializeBuffer.
LEMMA InitBufferOnward ==
    ASSUME NEW txs, NEW V, StoreOk(V, txs), NEW W, NEW us, NEW k \in LoaderKeys(us),
           NEW a, NEW s, s = Loader!Buffer(a), InitBufferAt(k, s, V, W), NEW made
    PROVE  Onward(V, W, made, txs, us)
  <1>1. PICK d, e : d = V[k].data /\ e = Loader!pack_into_account(s, d)
    OBVIOUS
  <1>2. /\ k \in DOMAIN V /\ AccountOk(k, V[k], txs) /\ Loader!StateOf(d) = Loader!Uninitialized
        /\ ~Loader!PackFails(s, d) /\ Put(k, e, V, W)
    BY <1>1 DEF InitBufferAt, StoreOk
  <1>3. AnyData(d)
    BY <1>1, <1>2, LoaderHolds
  <1>4. Packed(d, s, e) /\ LoaderLater(d, e)
    BY <1>1, <1>2, <1>3, BufferData
  <1>5. W[k].data = e /\ W[k].executable = V[k].executable
    BY <1>2 DEF Put, Becomes
  <1>6. AccountOk(k, W[k], txs)
    BY <1>2, <1>4, <1>5, LoaderStays DEF Packed
  <1>7. LaterAt(k, d, e, us)
    BY <1>4, LaterAtLoader DEF Rekeyed
  <1> QED
    BY <1>1, <1>2, <1>6, <1>7, PutOnward

\* Write.
LEMMA WriteOnward ==
    ASSUME NEW txs, NEW V, StoreOk(V, txs), NEW W, NEW us, NEW k \in LoaderKeys(us),
           NEW offset \in Nat, NEW bytes \in Seq(Byte), WriteAtKey(k, offset, bytes, V, W), NEW made
    PROVE  Onward(V, W, made, txs, us)
  <1>1. PICK d, e : d = V[k].data /\ e = Rewritten(d, offset, bytes)
    OBVIOUS
  <1>2. /\ k \in DOMAIN V /\ AccountOk(k, V[k], txs) /\ Loader!StateOf(d).tag = "Buffer"
        /\ Loader!StateOf(d).authority_address # Loader!NoKey /\ Put(k, e, V, W)
    BY <1>1 DEF WriteAtKey, StoreOk
  <1>3. AnyData(d)
    BY <1>1, <1>2, LoaderHolds
  <1>4. IsLoaderData(d) /\ IsLoaderData(e) /\ e.state = d.state /\ LoaderLater(d, e)
    BY <1>1, <1>2, <1>3, RewrittenData
  <1>5. W[k].data = e /\ W[k].executable = V[k].executable
    BY <1>2 DEF Put, Becomes
  <1>6. AccountOk(k, W[k], txs)
    BY <1>2, <1>4, <1>5, LoaderStays
  <1>7. LaterAt(k, d, e, us)
    BY <1>4, LaterAtLoader DEF Rekeyed
  <1> QED
    BY <1>1, <1>2, <1>6, <1>7, PutOnward

\* SetAuthority.
LEMMA AuthorityOnward ==
    ASSUME NEW txs, NEW V, StoreOk(V, txs), NEW W, NEW us, NEW k \in LoaderKeys(us),
           NEW old, old # Loader!NoKey, NEW new, SetAuthorityAt(k, old, new, V, W), NEW made
    PROVE  Onward(V, W, made, txs, us)
  <1>1. PICK d, s, e : d = V[k].data /\ s = WithAuthority(d, new) /\ e = Loader!pack_into_account(s, d)
    OBVIOUS
  <1>2. /\ k \in DOMAIN V /\ AccountOk(k, V[k], txs) /\ Loader!StateOf(d).tag \in {"Buffer", "ProgramData"}
        /\ Loader!StateOf(d).authority_address = old /\ ~Loader!PackFails(s, d) /\ Put(k, e, V, W)
    BY <1>1 DEF SetAuthorityAt, StoreOk
  <1>3. AnyData(d)
    BY <1>1, <1>2, LoaderHolds
  <1>4. Rekeyed(d, s, e)
    BY <1>1, <1>2, <1>3, AuthorityData
  <1>5. W[k].data = e /\ W[k].executable = V[k].executable
    BY <1>2 DEF Put, Becomes
  <1>6. AccountOk(k, W[k], txs)
    BY <1>2, <1>4, <1>5, LoaderStays DEF Rekeyed, Packed
  <1>7. LaterAt(k, d, e, us)
    BY <1>4, LaterAtLoader DEF Rekeyed
  <1> QED
    BY <1>1, <1>2, <1>6, <1>7, PutOnward

\* Close.
LEMMA CloseOnward ==
    ASSUME NEW txs, NEW V, StoreOk(V, txs), NEW W, NEW us, NEW k \in LoaderKeys(us), k \in DOMAIN V,
           Put(k, Empty, V, W), NEW made
    PROVE  Onward(V, W, made, txs, us)
  <1>1. PICK d, e : d = V[k].data /\ e = Empty
    OBVIOUS
  <1>2. AccountOk(k, V[k], txs) /\ Put(k, e, V, W)
    BY <1>1 DEF StoreOk
  <1>4. LoaderLater(d, e)
    BY <1>1 DEF LoaderLater
  <1>5. W[k].data = e /\ W[k].executable = V[k].executable
    BY <1>2 DEF Put, Becomes
  <1>6. AccountOk(k, W[k], txs)
    BY <1>1, <1>2, <1>5, EmptyIs DEF AccountOk, DataOk
  <1>7. LaterAt(k, d, e, us)
    BY <1>4, LaterAtLoader DEF Rekeyed
  <1> QED
    BY <1>1, <1>2, <1>6, <1>7, PutOnward

\* DeployWithMaxDataLen, on a programdata account that is empty.
LEMMA DeployOnward ==
    ASSUME NEW txs, NEW V, StoreOk(V, txs), NEW W, NEW us, NEW p,
           NEW q \in LoaderKeys(us), q \in ProgramKeys(us), NEW b \in LoaderKeys(us),
           NEW auth, NEW space \in Nat, NEW o, DeployAt(p, q, b, auth, space, o, V, W), NEW made, p \in made
    PROVE  /\ Onward(V, W, made, txs, us)
           /\ IsLoaderData(W[p].data) /\ W[p].data.state.tag = "ProgramData" /\ IsLoaderData(W[q].data)
  <1>1. PICK z, code, d, e, s, f : /\ z = Zeros(space) /\ d = V[b].data /\ e = V[q].data
                                /\ code = Loader!BodyFrom(Loader!size_of_buffer_metadata, d)
                                /\ s = Loader!Program(p) /\ f = Loader!pack_into_account(s, e)
    OBVIOUS
  <1>2. /\ p \in DOMAIN V /\ q \in DOMAIN V /\ b \in DOMAIN V /\ p # q /\ p # b /\ q # b /\ Kept({p, q, b}, V, W)
        /\ ~Loader!PackFails(Loader!ProgramData(0, auth), z) /\ ~Loader!PackFails(s, e)
        /\ W[p].data = Deployed(auth, z, code) /\ W[p].executable = V[p].executable
        /\ W[q].data = f /\ W[q].executable = TRUE
        /\ W[b].data = Empty /\ W[b].executable = V[b].executable
    BY <1>1, Zenon DEF DeployAt
  <1>3. AccountOk(p, V[p], txs) /\ AccountOk(q, V[q], txs) /\ AccountOk(b, V[b], txs)
    BY <1>2 DEF StoreOk
  <1>4. AnyData(d)
    BY <1>1, <1>3, LoaderHolds
  <1>5. AnyData(e)
    BY <1>1, <1>3, LoaderHolds
  <1>6. code \in Seq(Byte)
    BY <1>1, <1>4, BodyIs, MetadataIs
  <1>7. IsLoaderData(W[p].data) /\ W[p].data.state.tag = "ProgramData"
    <2>1. PICK g : g = Deployed(auth, z, code)
      OBVIOUS
    <2>2. IsLoaderData(g) /\ g.state.tag = "ProgramData"
      BY <1>1, <1>2, <1>6, <2>1, ProgramDataIs
    <2> QED
      BY <1>2, <2>1, <2>2
  <1>8. Packed(e, s, f) /\ s.tag = "Program" /\ e # Empty
    BY <1>1, <1>2, <1>5, PointerData
  <1>9. LaterAt(q, e, f, us)
    BY <1>8 DEF LaterAt
  <1>10. AccountOk(p, W[p], txs)
    BY <1>2, <1>3, <1>7, LoaderStays
  <1>11. AccountOk(q, W[q], txs)
    <2>1. PICK g : g = W[q]
      OBVIOUS
    <2>2. IsLoaderData(g.data) /\ g.data.state.tag = "Program"
      BY <1>2, <1>8, <2>1 DEF Packed
    <2>3. g.executable \in BOOLEAN
      BY <1>2, <2>1, Zenon
    <2>4. AccountOk(q, g, txs)
      BY <2>2, <2>3, LoaderAccountOk
    <2> QED
      BY <2>1, <2>4
  <1>12. AccountOk(b, W[b], txs)
    BY <1>2, <1>3, EmptyIs DEF AccountOk, DataOk
  <1>13. LaterAt(b, d, Empty, us)
    <2>1. LoaderLater(d, Empty)
      BY DEF LoaderLater
    <2> QED
      BY <2>1, LaterAtLoader
  <1>14. PICK K : K = {p, q, b}
    BY Zenon
  <1>15. StoreOk(W, txs)
    <2>1. \A x \in DOMAIN V : x \in K => AccountOk(x, W[x], txs)
      BY <1>10, <1>11, <1>12, <1>14
    <2> QED
      BY <1>2, <1>14, <2>1, StoreKept
  <1>16. Later(V, W, made, us)
    <2>1. \A x \in DOMAIN V \ made : x \in K => LaterAt(x, V[x].data, W[x].data, us)
      BY <1>1, <1>2, <1>9, <1>13, <1>14
    <2> QED
      BY <1>2, <1>14, <2>1, LaterKept
  <1> QED
    BY <1>2, <1>7, <1>8, <1>15, <1>16 DEF Onward, Kept, Packed

-----------------------------------------------------------------------------
\* The keys an instruction names.
LEMMA NamedKey ==
    ASSUME NEW ix, HasAccounts(ix), NEW i \in 1..Len(ix.accounts), NEW places, i \in places
    PROVE  Key(ix, i) \in Named(ix, places)
  BY DEF Named, Key, HasAccounts

\* Those of a token instruction.
LEMMA TokenKey ==
    ASSUME NEW txs, NEW ix \in Instructions(txs), HasAccounts(ix), ix.program_id = TOKEN_PROGRAM_ID,
           NEW i \in 1..Len(ix.accounts), i \in IF ix.data.variant \in {0, 1} THEN {2, 3} ELSE {1}
    PROVE  Key(ix, i) \in TokenKeys(txs)
  <1>1. ix \in InstructionsOf(TOKEN_PROGRAM_ID, txs)
    BY DEF InstructionsOf
  <1>2. PICK places : places = IF ix.data.variant \in {0, 1} THEN {2, 3} ELSE {1}
    BY Zenon
  <1>3. Key(ix, i) \in Named(ix, places)
    BY <1>2, NamedKey
  <1> QED
    BY <1>1, <1>2, <1>3, Zenon DEF TokenKeys

\* Those of a loader instruction.
LEMMA LoaderKey ==
    ASSUME NEW txs, NEW ix \in Instructions(txs), HasAccounts(ix),
           ix.program_id = BPF_LOADER_UPGRADEABLE_PROGRAM_ID,
           NEW i \in 1..Len(ix.accounts), i \in IF ix.data.variant = 2 THEN {2, 3, 4} ELSE {1}
    PROVE  /\ Key(ix, i) \in LoaderKeys(txs)
           /\ ix.data.variant = 2 /\ i = 3 => Key(ix, i) \in ProgramKeys(txs)
  <1>1. ix \in InstructionsOf(BPF_LOADER_UPGRADEABLE_PROGRAM_ID, txs)
    BY DEF InstructionsOf
  <1>2. PICK places : places = IF ix.data.variant = 2 THEN {2, 3, 4} ELSE {1}
    BY Zenon
  <1>3. Key(ix, i) \in Named(ix, places)
    BY <1>2, NamedKey
  <1>4. Key(ix, i) \in LoaderKeys(txs)
    BY <1>1, <1>2, <1>3, Zenon DEF LoaderKeys
  <1>5. ASSUME ix.data.variant = 2, i = 3
        PROVE  Key(ix, i) \in ProgramKeys(txs)
    <2>1. PICK at : at = IF ix.data.variant = 2 THEN {3} ELSE {}
      BY Zenon
    <2>2. i \in at
      BY <1>5, <2>1
    <2>3. Key(ix, i) \in Named(ix, at)
      BY <2>2, NamedKey
    <2> QED
      BY <1>1, <2>1, <2>3, Zenon DEF ProgramKeys
  <1> QED
    BY <1>4, <1>5

\* The account that is created.
LEMMA CreatedKey ==
    ASSUME NEW ix, HasAccounts(ix), ix.data.variant = 2,
           ix.program_id \in {SYSTEM_PROGRAM_ID, BPF_LOADER_UPGRADEABLE_PROGRAM_ID}, Len(ix.accounts) >= 2
    PROVE  Key(ix, 2) \in Creates(ix) /\ Creates(ix) = {Key(ix, 2)}
  BY DEF Creates, Named, Key, HasAccounts

\* The system program.
LEMMA SystemOnward ==
    ASSUME NEW txs, TokenOwned(txs), NEW ix \in Instructions(txs), HasAccounts(ix), U64Args(ix.data),
           ix.program_id = SYSTEM_PROGRAM_ID,
           NEW V, StoreOk(V, txs), NEW W, SystemAt(ix, V, W), NEW us
    PROVE  Onward(V, W, Creates(ix), txs, us)
  <1>1. CASE Kept({}, V, W)
    <2>1. PICK K : K = {}
      BY Zenon
    <2>2. Kept(K, V, W)
      BY <1>1, <2>1
    <2>3. StoreOk(W, txs)
      BY <2>1, <2>2, StoreKept
    <2>4. Later(V, W, Creates(ix), us)
      BY <2>1, <2>2, LaterKept
    <2> QED
      BY <2>2, <2>3, <2>4 DEF Onward, Kept
  <1>2. ix \in InstructionsOf(SYSTEM_PROGRAM_ID, txs)
    BY DEF InstructionsOf
  <1>3. ASSUME ix.data.variant = 1, Len(ix.accounts) >= 1, NEW k, k = Key(ix, 1),
               Becomes(k, V[k].data, ix.data.args[1], V[k].executable, V, W)
        PROVE  Onward(V, W, Creates(ix), txs, us)
    <2>1. /\ k \in DOMAIN V /\ Kept({k}, V, W) /\ DOMAIN W = DOMAIN V
          /\ W[k].data = V[k].data /\ W[k].owner = ix.data.args[1] /\ W[k].executable = V[k].executable
      BY <1>3 DEF Becomes, Kept
    <2>2. k \in TokenKeys(txs) => ix.data.args[1] = TOKEN_PROGRAM_ID
      <3>1. k \in Named(ix, {1})
        BY <1>3, NamedKey DEF HasAccounts
      <3> QED
        BY <1>2, <1>3, <3>1, Zenon DEF TokenOwned
    <2>3. AccountOk(k, V[k], txs)
      BY <2>1 DEF StoreOk
    <2>4. AccountOk(k, W[k], txs)
      BY <2>1, <2>2, <2>3 DEF AccountOk
    <2>5. LaterAt(k, V[k].data, W[k].data, us)
      <3>1. PICK d : d = V[k].data
        OBVIOUS
      <3>2. DataOk(k, d, txs)
        BY <2>3, <3>1 DEF AccountOk
      <3>3. LaterData(d, d)
        BY <3>2, LaterSame
      <3> QED
        BY <2>1, <3>1, <3>3, LaterAnywhere
    <2>6. StoreOk(W, txs)
      BY <2>1, <2>4, StoreKept
    <2>7. Later(V, W, Creates(ix), us)
      BY <2>1, <2>5, LaterKept
    <2> QED
      BY <2>1, <2>6, <2>7 DEF Onward
  <1>4. ASSUME Decodes(ix.data, 2, <<"u64", "u64", "pubkey">>), Len(ix.accounts) >= 2, NEW k, k = Key(ix, 2),
               Becomes(k, Zeros(ix.data.args[2]), ix.data.args[3], V[k].executable, V, W)
        PROVE  Onward(V, W, Creates(ix), txs, us)
    <2>1. /\ k \in DOMAIN V /\ Kept({k}, V, W) /\ DOMAIN W = DOMAIN V
          /\ W[k].data = Zeros(ix.data.args[2]) /\ W[k].owner = ix.data.args[3]
          /\ W[k].executable = V[k].executable
      BY <1>4 DEF Becomes, Kept
    <2>2. k \in Creates(ix)
      BY <1>4, CreatedKey DEF Decodes
    <2>3. k \in TokenKeys(txs) => ix.data.args[3] = TOKEN_PROGRAM_ID
      BY <1>2, <2>2, Zenon DEF TokenOwned
    <2>4. IsZeros(W[k].data)
      <3>1. ix.data.args[2] \in 0..U64_MAX
        <4>1. 2 \in DOMAIN ix.data.kinds /\ ix.data.kinds[2] = "u64"
          BY <1>4 DEF Decodes
        <4> QED
          BY <4>1, Zenon DEF U64Args
      <3> QED
        BY <2>1, <3>1 DEF IsZeros, Zeros
    <2>5. AccountOk(k, V[k], txs)
      BY <2>1 DEF StoreOk
    <2>6. AccountOk(k, W[k], txs)
      BY <2>1, <2>3, <2>4, <2>5 DEF AccountOk, DataOk
    <2>7. StoreOk(W, txs)
      BY <2>1, <2>6, StoreKept
    <2>8. Later(V, W, Creates(ix), us)
      BY <2>1, <2>2, LaterKept
    <2> QED
      BY <2>1, <2>7, <2>8 DEF Onward
  <1> QED
    BY <1>1, <1>3, <1>4 DEF SystemAt

-----------------------------------------------------------------------------
\* What an instruction is, of a workload that is tidy.
TidyIx(ix, txs) ==
    /\ TokenOwned(txs) /\ ix \in Instructions(txs)
    /\ HasAccounts(ix) /\ U64Args(ix.data) /\ WellTyped(ix)

\* The token program.
LEMMA TokenOnward ==
    ASSUME NEW txs, NEW ix, TidyIx(ix, txs), ix.program_id = TOKEN_PROGRAM_ID,
           NEW V, StoreOk(V, txs), NEW W, TokenAt(ix, V, W), NEW made, NEW us
    PROVE  Onward(V, W, made, txs, us) /\ NoneLoaded(V, W)
  <1>1. PICK k1, k2, k3, n, a : /\ k1 = Key(ix, 1) /\ k2 = Key(ix, 2) /\ k3 = Key(ix, 3)
                                /\ n = ix.data.args[1] /\ a = ix.data.args[2]
    OBVIOUS
  <1>2. Len(ix.accounts) \in Nat
    BY DEF TidyIx, HasAccounts
  <1>3. ASSUME ix.data.variant \in {0, 1}, ix.data.kinds = <<"u64">>, Len(ix.accounts) >= 3
        PROVE  k2 \in TokenKeys(txs) /\ k3 \in TokenKeys(txs) /\ n \in 0..U64_MAX
    <2>1. 2 \in 1..Len(ix.accounts) /\ 3 \in 1..Len(ix.accounts)
      BY <1>2, <1>3
    <2>2. k2 \in TokenKeys(txs)
      BY <1>1, <1>3, <2>1, TokenKey DEF TidyIx
    <2>3. k3 \in TokenKeys(txs)
      BY <1>1, <1>3, <2>1, TokenKey DEF TidyIx
    <2>4. 1 \in DOMAIN ix.data.kinds /\ ix.data.kinds[1] = "u64"
      BY <1>3
    <2>5. n \in 0..U64_MAX
      BY <1>1, <2>4, Zenon DEF TidyIx, U64Args
    <2> QED
      BY <2>2, <2>3, <2>5
  <1>4. ASSUME ix.data.variant \in {3, 4}, Len(ix.accounts) >= 2
        PROVE  k1 \in TokenKeys(txs)
    <2>1. 1 \in 1..Len(ix.accounts) /\ ~(ix.data.variant \in {0, 1})
      BY <1>2, <1>4
    <2> QED
      BY <1>1, <1>4, <2>1, TokenKey DEF TidyIx
  <1>5. CASE Decodes(ix.data, 0, <<"u64">>) /\ Len(ix.accounts) >= 3 /\ MintAt(k2, k3, n, V, W)
    <2>1. k2 \in TokenKeys(txs) /\ k3 \in TokenKeys(txs) /\ n \in 0..U64_MAX
      BY <1>3, <1>5 DEF Decodes
    <2> QED
      BY <1>5, <2>1, MintOnward
  <1>6. CASE Decodes(ix.data, 1, <<"u64">>) /\ Len(ix.accounts) >= 3 /\ MoveAt(k2, k3, n, V, W)
    <2>1. k2 \in TokenKeys(txs) /\ k3 \in TokenKeys(txs) /\ n \in 0..U64_MAX
      BY <1>3, <1>6 DEF Decodes
    <2> QED
      BY <1>6, <2>1, MoveOnward
  <1>7. CASE ix.data.variant = 3 /\ Len(ix.accounts) >= 2 /\ InitMintAt(k1, a, V, W)
    <2>1. k1 \in TokenKeys(txs)
      BY <1>4, <1>7
    <2> QED
      BY <1>7, <2>1, InitMintOnward
  <1>8. CASE ix.data.variant = 4 /\ Len(ix.accounts) >= 4 /\ InitAccountAt(k1, k2, k3, V, W)
    <2>1. k1 \in TokenKeys(txs)
      BY <1>2, <1>4, <1>8
    <2> QED
      BY <1>8, <2>1, InitAccountOnward
  <1> QED
    BY <1>1, <1>5, <1>6, <1>7, <1>8 DEF TokenAt

\* The loader.
LEMMA LoaderOnward ==
    ASSUME NEW txs, NEW ix, TidyIx(ix, txs), ix.program_id = BPF_LOADER_UPGRADEABLE_PROGRAM_ID,
           NEW V, StoreOk(V, txs), NEW W, LoaderAt(ix, V, W), NEW us, ix \in Instructions(us)
    PROVE  Onward(V, W, Creates(ix), txs, us)
  <1>1. PICK k1, k2, k3, k4, k8, a, b, c : /\ k1 = Key(ix, 1) /\ k2 = Key(ix, 2) /\ k3 = Key(ix, 3)
                                 /\ k4 = Key(ix, 4) /\ k8 = Key(ix, 8)
                                 /\ a = ix.data.args[1] /\ b = ix.data.args[2] /\ c = ix.data.args[3]
    BY Zenon
  <1>2. Len(ix.accounts) \in Nat
    BY DEF TidyIx, HasAccounts
  <1>3. ASSUME ix.data.variant # 2, Len(ix.accounts) >= 1
        PROVE  k1 \in LoaderKeys(us)
    <2>1. 1 \in 1..Len(ix.accounts)
      BY <1>2, <1>3
    <2> QED
      BY <1>1, <1>3, <2>1, LoaderKey DEF TidyIx
  <1>4. CASE ix.data.variant = 0 /\ Len(ix.accounts) >= 1
             /\ InitBufferAt(k1, Loader!Buffer(IF Len(ix.accounts) > 1 THEN k2 ELSE Loader!NoKey), V, W)
    <2>1. PICK x, s : /\ x = IF Len(ix.accounts) > 1 THEN k2 ELSE Loader!NoKey
                      /\ s = Loader!Buffer(x)
      OBVIOUS
    <2>2. k1 \in LoaderKeys(us)
      BY <1>3, <1>4
    <2>3. InitBufferAt(k1, s, V, W)
      BY <1>4, <2>1
    <2> QED
      BY <1>2, <2>1, <2>2, <2>3, InitBufferOnward
  <1>5. CASE ix.data.variant = 1 /\ Len(ix.accounts) >= 2 /\ WriteAtKey(k1, a, b, V, W)
    <2>1. k1 \in LoaderKeys(us)
      BY <1>2, <1>3, <1>5
    <2>2. a \in Nat /\ b \in Seq(Byte)
      BY <1>1, <1>5 DEF TidyIx, WellTyped
    <2> QED
      BY <1>2, <1>5, <2>1, <2>2, WriteOnward
  <1>6. CASE Decodes(ix.data, 2, <<"u64", "u64", "pubkey">>) /\ Len(ix.accounts) >= 8
             /\ DeployAt(k2, k3, k4, k8, b, c, V, W)
    <2>1. ix.data.variant = 2 /\ 2 \in DOMAIN ix.data.kinds /\ ix.data.kinds[2] = "u64"
      BY <1>6 DEF Decodes
    <2>2. b \in Nat
      <3>1. b \in 0..U64_MAX
        BY <1>1, <2>1, Zenon DEF TidyIx, U64Args
      <3> QED
        BY <3>1, U64Assumption
    <2>3. 2 \in 1..Len(ix.accounts) /\ 3 \in 1..Len(ix.accounts) /\ 4 \in 1..Len(ix.accounts)
      BY <1>2, <1>6
    <2>4. k3 \in LoaderKeys(us) /\ k3 \in ProgramKeys(us)
      BY <1>1, <2>1, <2>3, LoaderKey DEF TidyIx
    <2>5. k4 \in LoaderKeys(us)
      BY <1>1, <2>1, <2>3, LoaderKey DEF TidyIx
    <2>6. k2 \in Creates(ix)
      BY <1>1, <1>2, <1>6, <2>1, CreatedKey DEF TidyIx
    <2> QED
      BY <1>2, <1>6, <2>2, <2>4, <2>5, <2>6, DeployOnward, Zenon
  <1>7. CASE ix.data.variant = 4 /\ Len(ix.accounts) >= 2 /\ SetAuthorityAt(k1, k2, a, V, W)
    <2>1. k1 \in LoaderKeys(us)
      BY <1>2, <1>3, <1>7
    <2>2. k2 # Loader!NoKey
      <3>1. 2 \in DOMAIN ix.accounts
        BY <1>2, <1>7 DEF TidyIx, HasAccounts
      <3> QED
        BY <1>1, <3>1 DEF TidyIx, WellTyped, Key
    <2> QED
      BY <1>2, <1>7, <2>1, <2>2, AuthorityOnward
  <1>8. CASE ix.data.variant = 5 /\ Len(ix.accounts) >= 3 /\ Put(k1, Empty, V, W) /\ k1 \in DOMAIN V
    <2>1. k1 \in LoaderKeys(us)
      BY <1>2, <1>3, <1>8
    <2> QED
      BY <1>2, <1>8, <2>1, CloseOnward
  <1> QED
    BY <1>1, <1>4, <1>5, <1>6, <1>7, <1>8, Zenon DEF LoaderAt

\* An instruction of a tidy workload.
LEMMA InstructionOnward ==
    ASSUME NEW txs, NEW ix, TidyIx(ix, txs), NEW V, StoreOk(V, txs), NEW W, InstructionAt(ix, V, W),
           NEW us, ix \in Instructions(us)
    PROVE  Onward(V, W, Creates(ix), txs, us)
  <1>1. CASE ix.program_id = SYSTEM_PROGRAM_ID /\ SystemAt(ix, V, W)
    BY <1>1, SystemOnward DEF TidyIx
  <1>2. CASE ix.program_id = TOKEN_PROGRAM_ID /\ TokenAt(ix, V, W)
    BY <1>2, TokenOnward
  <1>3. CASE ix.program_id = BPF_LOADER_UPGRADEABLE_PROGRAM_ID /\ LoaderAt(ix, V, W)
    BY <1>3, LoaderOnward
  <1> QED
    BY <1>1, <1>2, <1>3 DEF InstructionAt

-----------------------------------------------------------------------------
\* The tokens of m in data.
Amount(d, m) == IF IsInitialized(d, "TokenAccount") /\ d.mint = m THEN d.amount ELSE 0
Plain(d) == ~IsInitialized(d, "Mint") /\ ~IsInitialized(d, "TokenAccount")
SupplyIs(V, m) ==
    V[m].data.supply < U64_MAX => SumFunctionOnSet(Tokens(V, m), DOMAIN V) = V[m].data.supply

\* The function that is summed.
LEMMA TokensAt ==
    ASSUME NEW txs, NEW V, StoreOk(V, txs), NEW m, NEW f, f = Tokens(V, m)
    PROVE  \A key \in DOMAIN V : f[key] = Amount(V[key].data, m) /\ f[key] \in Nat
  <1>1. \A key \in DOMAIN V : f[key] = Amount(V[key].data, m)
    BY DEF Tokens, IsAccountOf, Amount
  <1>2. ASSUME NEW key \in DOMAIN V PROVE Amount(V[key].data, m) \in Nat
    <2>1. PICK d : d = V[key].data
      OBVIOUS
    <2>2. DataOk(key, d, txs)
      BY <2>1 DEF StoreOk, AccountOk
    <2>3. d.kind = "TokenAccount" => d.amount \in 0..U64_MAX
      BY <2>2, KindsOf DEF IsTokenData
    <2> QED
      BY <2>1, <2>3, U64Assumption DEF Amount, IsInitialized
  <1> QED
    BY <1>1, <1>2

\* A mint that nothing happens to.
LEMMA SupplyStays ==
    ASSUME NEW txs, NEW V, StoreOk(V, txs), IsFiniteSet(DOMAIN V), NEW W, StoreOk(W, txs), DOMAIN W = DOMAIN V,
           NEW m, SupplyIs(V, m), W[m].data.supply = V[m].data.supply,
           \A key \in DOMAIN V : Amount(W[key].data, m) = Amount(V[key].data, m)
    PROVE  SupplyIs(W, m)
  <1>1. PICK f, g, S : f = Tokens(V, m) /\ g = Tokens(W, m) /\ S = DOMAIN V
    BY Zenon
  <1>2. \A key \in S : f[key] = Amount(V[key].data, m)
    BY <1>1, TokensAt
  <1>3. \A key \in S : g[key] = Amount(W[key].data, m)
    BY <1>1, TokensAt
  <1>4. SumFunctionOnSet(g, S) = SumFunctionOnSet(f, S)
    <2>1. IsFiniteSet(S) /\ \A key \in S : g[key] = f[key]
      BY <1>1, <1>2, <1>3
    <2> QED
      BY <2>1, SumSame
  <1> QED
    BY <1>1, <1>4 DEF SupplyIs

\* Mints and token accounts stay that.
Onwards(V, W) == \A key \in DOMAIN V : StaysInitialized(V[key].data, W[key].data)

\* Accounts go on naming initialized mints.
LEMMA MintsNamedStill ==
    ASSUME NEW V, MintsNamed(V), NEW W, DOMAIN W = DOMAIN V, Onwards(V, W),
           \A key \in DOMAIN V : IsInitialized(W[key].data, "TokenAccount") =>
               \/ IsInitialized(V[key].data, "TokenAccount")
               \/ W[key].data.mint \in DOMAIN V /\ IsMintAt(V, W[key].data.mint)
    PROVE  MintsNamed(W)
  <1>1. \A key \in DOMAIN V : IsMintAt(V, key) => IsMintAt(W, key)
    BY DEF Onwards, StaysInitialized, IsMintAt
  <1>2. \A key \in DOMAIN V : IsInitialized(V[key].data, "TokenAccount") => W[key].data.mint = V[key].data.mint
    BY DEF Onwards, StaysInitialized
  <1> QED
    BY <1>1, <1>2 DEF MintsNamed

\* Nothing happens to mints and token accounts.
LEMMA QuietSupply ==
    ASSUME NEW txs, NEW V, StoreOk(V, txs), IsFiniteSet(DOMAIN V), NEW W, StoreOk(W, txs), DOMAIN W = DOMAIN V,
           SupplyOk(V),
           \A key \in DOMAIN V : W[key].data = V[key].data \/ (Plain(V[key].data) /\ Plain(W[key].data))
    PROVE  SupplyOk(W)
  <1>1. \A key \in DOMAIN V : /\ IsMintAt(W, key) => IsMintAt(V, key) /\ W[key].data.supply = V[key].data.supply
                              /\ IsMintAt(V, key) => IsMintAt(W, key)
    BY DEF Plain, IsMintAt
  <1>2. \A m : \A key \in DOMAIN V : Amount(W[key].data, m) = Amount(V[key].data, m)
    BY DEF Plain, Amount
  <1>3. MintsNamed(W)
    <2>1. \A key \in DOMAIN V : IsInitialized(W[key].data, "TokenAccount") =>
               IsInitialized(V[key].data, "TokenAccount") /\ W[key].data = V[key].data
      BY DEF Plain
    <2> QED
      BY <1>1, <2>1 DEF SupplyOk, MintsNamed
  <1>4. ASSUME NEW m \in DOMAIN W, IsMintAt(W, m) PROVE SupplyIs(W, m)
    <2>1. SupplyIs(V, m)
      BY <1>1, <1>4 DEF SupplyOk, SuppliesAre, SupplyIs
    <2> QED
      BY <1>1, <1>2, <1>4, <2>1, SupplyStays
  <1> QED
    BY <1>3, <1>4 DEF SupplyOk, SuppliesAre, SupplyIs

\* An account that no token instruction writes has no tokens and is no mint.
LEMMA NotToken ==
    ASSUME NEW txs, NEW key, key \notin TokenKeys(txs), NEW d, DataOk(key, d, txs)
    PROVE  Plain(d)
  BY KindsOf DEF Plain, IsInitialized

\* The loader writes the loader's accounts.
LEMMA LoaderWrites ==
    ASSUME NEW txs, NEW ix, TidyIx(ix, txs), ix.program_id = BPF_LOADER_UPGRADEABLE_PROGRAM_ID,
           NEW V, NEW W, LoaderAt(ix, V, W)
    PROVE  Kept(LoaderKeys(txs), V, W)
  <1>1. PICK k1, k2, k3, k4 : k1 = Key(ix, 1) /\ k2 = Key(ix, 2) /\ k3 = Key(ix, 3) /\ k4 = Key(ix, 4)
    OBVIOUS
  <1>2. Len(ix.accounts) \in Nat
    BY DEF TidyIx, HasAccounts
  <1>3. CASE ix.data.variant # 2 /\ Len(ix.accounts) >= 1 /\ Kept({k1}, V, W)
    <2>1. 1 \in 1..Len(ix.accounts)
      BY <1>2, <1>3
    <2>2. k1 \in LoaderKeys(txs)
      BY <1>1, <1>3, <2>1, LoaderKey DEF TidyIx
    <2> QED
      BY <1>3, <2>2 DEF Kept
  <1>4. CASE ix.data.variant = 2 /\ Len(ix.accounts) >= 8 /\ Kept({k2, k3, k4}, V, W)
    <2>1. 2 \in 1..Len(ix.accounts) /\ 3 \in 1..Len(ix.accounts) /\ 4 \in 1..Len(ix.accounts)
      BY <1>2, <1>4
    <2>2. k2 \in LoaderKeys(txs)
      BY <1>1, <1>4, <2>1, LoaderKey DEF TidyIx
    <2>3. k3 \in LoaderKeys(txs)
      BY <1>1, <1>4, <2>1, LoaderKey DEF TidyIx
    <2>4. k4 \in LoaderKeys(txs)
      BY <1>1, <1>4, <2>1, LoaderKey DEF TidyIx
    <2> QED
      BY <1>4, <2>2, <2>3, <2>4 DEF Kept
  <1>5. ASSUME NEW d, Put(k1, d, V, W) PROVE Kept({k1}, V, W)
    BY <1>5 DEF Put, Becomes
  <1>6. CASE ix.data.variant = 0 /\ Len(ix.accounts) >= 1
             /\ InitBufferAt(k1, Loader!Buffer(IF Len(ix.accounts) > 1 THEN k2 ELSE Loader!NoKey), V, W)
    <2>1. Kept({k1}, V, W)
      BY <1>5, <1>6, Zenon DEF InitBufferAt
    <2> QED
      BY <1>3, <1>6, <2>1
  <1>7. CASE /\ ix.data.variant = 1 /\ Len(ix.accounts) >= 2
             /\ WriteAtKey(k1, ix.data.args[1], ix.data.args[2], V, W)
    <2>1. Kept({k1}, V, W)
      BY <1>5, <1>7, Zenon DEF WriteAtKey
    <2> QED
      BY <1>2, <1>3, <1>7, <2>1
  <1>8. CASE /\ Decodes(ix.data, 2, <<"u64", "u64", "pubkey">>) /\ Len(ix.accounts) >= 8
             /\ DeployAt(k2, k3, k4, Key(ix, 8), ix.data.args[2], ix.data.args[3], V, W)
    <2>1. Kept({k2, k3, k4}, V, W)
      BY <1>8, Zenon DEF DeployAt
    <2> QED
      BY <1>4, <1>8, <2>1 DEF Decodes
  <1>9. CASE ix.data.variant = 4 /\ Len(ix.accounts) >= 2 /\ SetAuthorityAt(k1, k2, ix.data.args[1], V, W)
    <2>1. Kept({k1}, V, W)
      BY <1>5, <1>9, Zenon DEF SetAuthorityAt
    <2> QED
      BY <1>2, <1>3, <1>9, <2>1
  <1>10. CASE ix.data.variant = 5 /\ Len(ix.accounts) >= 3 /\ Put(k1, Empty, V, W)
    <2>1. PICK d : d = Empty
      OBVIOUS
    <2>2. Kept({k1}, V, W)
      BY <1>5, <1>10, <2>1, Zenon
    <2> QED
      BY <1>2, <1>3, <1>10, <2>2
  <1> QED
    BY <1>1, <1>6, <1>7, <1>8, <1>9, <1>10, Zenon DEF LoaderAt

\* The system program.
LEMMA SystemSupply ==
    ASSUME NEW txs, NEW ix, TidyIx(ix, txs), NEW V, StoreOk(V, txs), IsFiniteSet(DOMAIN V), SupplyOk(V),
           ix.program_id = SYSTEM_PROGRAM_ID,
           \A key \in DOMAIN V : key \in Creates(ix) => V[key].data = Empty,
           NEW W, StoreOk(W, txs), SystemAt(ix, V, W)
    PROVE  SupplyOk(W)
  <1>1. ASSUME NEW k, Kept({k}, V, W), k \in DOMAIN V => W[k].data = V[k].data
        PROVE  SupplyOk(W)
    <2>1. DOMAIN W = DOMAIN V /\ \A key \in DOMAIN V : W[key].data = V[key].data
      BY <1>1 DEF Kept, Same
    <2> QED
      BY <2>1, QuietSupply
  <1>2. CASE Kept({}, V, W)
    <2>1. DOMAIN W = DOMAIN V /\ \A key \in DOMAIN V : W[key].data = V[key].data
      BY <1>2 DEF Kept, Same
    <2> QED
      BY <2>1, QuietSupply
  <1>3. CASE LET k == Key(ix, 1) IN Becomes(k, V[k].data, ix.data.args[1], V[k].executable, V, W)
    BY <1>1, <1>3 DEF Becomes
  <1>4. CASE /\ Decodes(ix.data, 2, <<"u64", "u64", "pubkey">>) /\ Len(ix.accounts) >= 2
             /\ LET k == Key(ix, 2)
                IN  Becomes(k, Zeros(ix.data.args[2]), ix.data.args[3], V[k].executable, V, W)
    <2>1. PICK k, z : k = Key(ix, 2) /\ z = Zeros(ix.data.args[2])
      OBVIOUS
    <2>2. k \in Creates(ix)
      BY <1>4, <2>1, CreatedKey DEF TidyIx, Decodes
    <2>3. k \in DOMAIN V /\ Kept({k}, V, W) /\ W[k].data = z
      BY <1>4, <2>1 DEF Becomes
    <2>4. Plain(z)
      BY <2>1 DEF Plain, IsInitialized, Zeros
    <2>5. Plain(V[k].data)
      BY <2>2, <2>3 DEF Plain, IsInitialized, Empty, Zeros
    <2>6. /\ DOMAIN W = DOMAIN V
          /\ \A key \in DOMAIN V : W[key].data = V[key].data \/ (Plain(V[key].data) /\ Plain(W[key].data))
      BY <2>3, <2>4, <2>5 DEF Kept, Same
    <2> QED
      BY <2>6, QuietSupply
  <1> QED
    BY <1>2, <1>3, <1>4 DEF SystemAt

\* The loader.
LEMMA LoaderSupply ==
    ASSUME NEW txs, KeysApart(txs), NEW ix, TidyIx(ix, txs), NEW V, StoreOk(V, txs), IsFiniteSet(DOMAIN V), SupplyOk(V),
           ix.program_id = BPF_LOADER_UPGRADEABLE_PROGRAM_ID,
           NEW W, StoreOk(W, txs), LoaderAt(ix, V, W)
    PROVE  SupplyOk(W)
  <1>1. Kept(LoaderKeys(txs), V, W)
    BY LoaderWrites
  <1>2. DOMAIN W = DOMAIN V
    BY <1>1 DEF Kept
  <1>3. ASSUME NEW key \in DOMAIN V
        PROVE  W[key].data = V[key].data \/ (Plain(V[key].data) /\ Plain(W[key].data))
    <2>1. CASE key \in LoaderKeys(txs)
      <3>1. key \notin TokenKeys(txs)
        BY <2>1 DEF KeysApart
      <3>2. DataOk(key, V[key].data, txs) /\ DataOk(key, W[key].data, txs)
        BY <1>2 DEF StoreOk, AccountOk
      <3> QED
        BY <3>1, <3>2, NotToken
    <2>2. CASE key \notin LoaderKeys(txs)
      BY <1>1, <2>2 DEF Kept, Same
    <2> QED
      BY <2>1, <2>2
  <1> QED
    BY <1>2, <1>3, QuietSupply

-----------------------------------------------------------------------------
\* A token account that is initialized names an initialized mint, which zeros do not.
LEMMA NamesMint ==
    ASSUME NEW txs, KeysApart(txs), NEW V, StoreOk(V, txs), MintsNamed(V),
           NEW k \in DOMAIN V, NEW d, d = V[k].data, Token!IsTokenAccount(d),
           NEW u, u = Token!UnpackTokenAccount(d), NEW m, m = u.mint
    PROVE  /\ IsTokenData(u)
           /\ IsInitialized(d, "TokenAccount") => /\ u = d /\ m \in DOMAIN V /\ IsMintAt(V, m)
                                                  /\ m \in TokenKeys(txs) /\ m # SYSTEM_PROGRAM_ID
           /\ ~IsInitialized(d, "TokenAccount") => Plain(d) /\ m = SYSTEM_PROGRAM_ID /\ ~u.is_initialized
  <1>1. DataOk(k, d, txs)
    BY DEF StoreOk, AccountOk
  <1>2. /\ IsTokenData(u) /\ d.kind \in {"TokenAccount", "Zeros"}
        /\ d.kind = "TokenAccount" => u = d
        /\ d.kind # "TokenAccount" => ~u.is_initialized
    BY <1>1, Unpacked
  <1>3. ASSUME IsInitialized(d, "TokenAccount")
        PROVE  /\ u = d /\ m \in DOMAIN V /\ IsMintAt(V, m)
               /\ m \in TokenKeys(txs) /\ m # SYSTEM_PROGRAM_ID
    <2>1. u = d
      BY <1>2, <1>3 DEF IsInitialized
    <2>2. m \in DOMAIN V /\ IsMintAt(V, m)
      BY <1>3, <2>1 DEF MintsNamed
    <2>3. PICK c : c = V[m].data
      OBVIOUS
    <2>4. DataOk(m, c, txs) /\ c.kind = "Mint"
      BY <2>2, <2>3 DEF StoreOk, AccountOk, IsMintAt, IsInitialized
    <2>5. m \in TokenKeys(txs)
      BY <2>4, KindsOf
    <2> QED
      BY <2>1, <2>2, <2>5 DEF KeysApart
  <1>4. ASSUME ~IsInitialized(d, "TokenAccount")
        PROVE  Plain(d) /\ m = SYSTEM_PROGRAM_ID /\ ~u.is_initialized
    <2>1. Plain(d)
      BY <1>2, <1>4 DEF Plain, IsInitialized
    <2>2. ~u.is_initialized
      BY <1>2, <1>4 DEF IsInitialized
    <2> QED
      BY <1>2, <2>1, <2>2 DEF IsTokenData
  <1> QED
    BY <1>2, <1>3, <1>4

\* Of a sum only one part changes, and nothing saturates below the limit.
LEMMA SumGrows ==
    ASSUME NEW S, IsFiniteSet(S), NEW f, NEW g, NEW k \in S, NEW n \in 0..U64_MAX,
           \A y \in S : f[y] \in Nat /\ g[y] \in Nat, \A y \in S \ {k} : f[y] = g[y],
           g[k] = saturating_add(f[k], n), NEW s, s = SumFunctionOnSet(f, S), s + n < U64_MAX
    PROVE  SumFunctionOnSet(g, S) = s + n
  <1>1. PICK a, b, r : a = f[k] /\ b = g[k] /\ r = SumFunctionOnSet(g, S)
    OBVIOUS
  <1>2. a \in Nat /\ b \in Nat /\ s \in Nat /\ r \in Nat
    BY <1>1, SumNat
  <1>3. a <= s
    BY <1>1, SumBounds
  <1>4. r + a = s + b
    BY <1>1, SumChanges
  <1>5. b = a + n
    BY <1>1, <1>2, <1>3, U64Assumption DEF saturating_add
  <1> QED
    BY <1>1, <1>2, <1>4, <1>5, U64Assumption

\* A part of it moves.
LEMMA SumShifts ==
    ASSUME NEW S, IsFiniteSet(S), NEW f, NEW g, NEW j \in S, NEW k \in S, j # k, NEW n \in 0..U64_MAX,
           \A y \in S : f[y] \in Nat /\ g[y] \in Nat, \A y \in S \ {j, k} : f[y] = g[y],
           ~(f[j] < n), g[j] = saturating_sub(f[j], n), g[k] = saturating_add(f[k], n),
           NEW s, s = SumFunctionOnSet(f, S), s < U64_MAX
    PROVE  SumFunctionOnSet(g, S) = s
  <1>1. PICK a, b, c, d : a = f[j] /\ b = f[k] /\ c = g[j] /\ d = g[k]
    OBVIOUS
  <1>2. a \in Nat /\ b \in Nat /\ c \in Nat /\ d \in Nat /\ s \in Nat
    BY <1>1, SumNat
  <1>3. a + b <= s
    BY <1>1, SumBounds
  <1>4. c = a - n /\ d = b + n
    BY <1>1, <1>2, <1>3, U64Assumption DEF saturating_add, saturating_sub
  <1>5. f[j] + f[k] = g[j] + g[k]
    BY <1>1, <1>2, <1>4, U64Assumption
  <1> QED
    BY <1>5, SumMoves

\* What every token instruction leaves: the accounts, and those there were.
Forward(V, W, txs) ==
    /\ StoreOk(V, txs) /\ IsFiniteSet(DOMAIN V) /\ SupplyOk(V) /\ KeysApart(txs)
    /\ StoreOk(W, txs) /\ DOMAIN W = DOMAIN V /\ Onwards(V, W)

\* MintTo: supply and account grow alike.
LEMMA MintSupply ==
    ASSUME NEW txs, NEW V, NEW W, Forward(V, W, txs), NEW m, NEW k, NEW n \in 0..U64_MAX,
           MintAt(m, k, n, V, W)
    PROVE  SupplyOk(W)
  <1>1. PICK c, d, e, f, u : /\ c = V[m].data /\ d = MintedMore(c, n) /\ e = V[k].data /\ f = Credited(e, n)
                             /\ u = Token!UnpackTokenAccount(e)
    OBVIOUS
  <1>2. /\ m \in DOMAIN V /\ k \in DOMAIN V /\ m # k /\ Token!IsMint(c) /\ Token!IsTokenAccount(e)
        /\ u.mint = m /\ Kept({m, k}, V, W) /\ W[m].data = d /\ W[k].data = f
    BY <1>1 DEF MintAt, PutTwo
  <1>3. DataOk(m, c, txs) /\ DataOk(k, e, txs)
    BY <1>1, <1>2 DEF Forward, StoreOk, AccountOk
  <1>4. /\ IsMintData(d)
        /\ c.kind = "Mint" => /\ d.supply = saturating_add(c.supply, n)
                              /\ d.is_initialized = c.is_initialized
        /\ c.kind # "Mint" => ~d.is_initialized
    BY <1>1, <1>2, <1>3, MintedData
  <1>5. /\ IsTokenData(f) /\ f.kind = "TokenAccount" /\ f.amount = saturating_add(u.amount, n) /\ f.mint = m
        /\ f.is_initialized = u.is_initialized
    BY <1>1, <1>2, <1>3, CreditedData
  <1>6. /\ IsInitialized(e, "TokenAccount") => u = e /\ IsMintAt(V, m)
        /\ ~IsInitialized(e, "TokenAccount") => Plain(e) /\ m = SYSTEM_PROGRAM_ID /\ ~u.is_initialized
    BY <1>1, <1>2, NamesMint DEF Forward, SupplyOk
  <1>7. DOMAIN W = DOMAIN V /\ \A key \in DOMAIN V \ {m, k} : W[key].data = V[key].data
    BY <1>2 DEF Kept, Same
  <1>8. CASE ~IsInitialized(e, "TokenAccount")
    <2>1. Plain(e) /\ Plain(f)
      BY <1>5, <1>6, <1>8 DEF Plain, IsInitialized
    <2>2. ~(m \in TokenKeys(txs)) /\ Plain(c)
      <3>1. ~(m \in TokenKeys(txs))
        BY <1>6, <1>8 DEF Forward, KeysApart
      <3> QED
        BY <1>3, <3>1, NotToken
    <2>3. Plain(d)
      <3>1. DataOk(m, d, txs)
        BY <1>2 DEF Forward, StoreOk, AccountOk
      <3> QED
        BY <2>2, <3>1, NotToken
    <2>4. \A key \in DOMAIN V : W[key].data = V[key].data \/ (Plain(V[key].data) /\ Plain(W[key].data))
      BY <1>1, <1>2, <1>7, <2>1, <2>2, <2>3
    <2> QED
      BY <2>4, QuietSupply DEF Forward
  <1>9. CASE IsInitialized(e, "TokenAccount")
    <2>1. /\ u = e /\ IsInitialized(c, "Mint") /\ c.kind = "Mint" /\ IsInitialized(d, "Mint")
          /\ IsInitialized(f, "TokenAccount") /\ e.mint = m /\ d.supply = saturating_add(c.supply, n)
          /\ e.kind = "TokenAccount" /\ d.kind = "Mint"
      BY <1>1, <1>2, <1>4, <1>5, <1>6, <1>9 DEF IsMintAt, IsInitialized, IsMintData
    <2>2. MintsNamed(W)
      <3>1. MintsNamed(V) /\ Onwards(V, W)
        BY DEF Forward, SupplyOk
      <3>2. \A key \in DOMAIN V : IsInitialized(W[key].data, "TokenAccount") =>
                IsInitialized(V[key].data, "TokenAccount")
        BY <1>1, <1>2, <1>7, <1>9, <2>1 DEF IsInitialized
      <3> QED
        BY <1>7, <3>1, <3>2, MintsNamedStill
    <2>3. ASSUME NEW x \in DOMAIN W, IsMintAt(W, x) PROVE SupplyIs(W, x)
      <3>1. CASE x # m
        <4>1. x # k
          BY <1>2, <1>5, <2>3 DEF IsMintAt, IsInitialized
        <4>2. W[x].data = V[x].data
          BY <1>7, <3>1, <4>1
        <4>3. SupplyIs(V, x)
          <5>1. x \in DOMAIN V /\ IsMintAt(V, x)
            BY <1>7, <2>3, <4>2 DEF IsMintAt
          <5>2. SuppliesAre(V)
            BY DEF Forward, SupplyOk
          <5> QED
            BY <5>1, <5>2, Zenon DEF SuppliesAre, SupplyIs
        <4>4. \A key \in DOMAIN V : Amount(W[key].data, x) = Amount(V[key].data, x)
          <5>1. Amount(d, x) = Amount(c, x)
            BY <2>1 DEF Amount, IsInitialized
          <5>2. Amount(f, x) = Amount(e, x)
            BY <1>5, <2>1, <3>1 DEF Amount
          <5> QED
            BY <1>1, <1>2, <1>7, <5>1, <5>2
        <4> QED
          BY <4>2, <4>3, <4>4, SupplyStays DEF Forward
      <3>2. CASE x = m
        <4>1. SUFFICES ASSUME d.supply < U64_MAX
                       PROVE  SumFunctionOnSet(Tokens(W, m), DOMAIN W) = d.supply
          BY <1>2, <3>2 DEF SupplyIs
        <4>2. PICK g, h, S, s : /\ g = Tokens(V, m) /\ h = Tokens(W, m) /\ S = DOMAIN V
                                /\ s = SumFunctionOnSet(g, S)
          BY Zenon
        <4>3. \A key \in S : g[key] = Amount(V[key].data, m) /\ g[key] \in Nat
          BY <4>2, TokensAt DEF Forward
        <4>4. \A key \in S : h[key] = Amount(W[key].data, m) /\ h[key] \in Nat
          BY <1>7, <4>2, TokensAt DEF Forward
        <4>5. c.supply \in 0..U64_MAX
          BY <1>3, <2>1, KindsOf DEF IsMintData
        <4>6. d.supply = c.supply + n
          BY <2>1, <4>1, <4>5, U64Assumption DEF saturating_add
        <4>7. s = c.supply
          <5>1. c.supply < U64_MAX
            BY <4>1, <4>5, <4>6, U64Assumption
          <5> QED
            BY <1>1, <1>2, <2>1, <4>2, <5>1 DEF Forward, SupplyOk, SuppliesAre, IsMintAt
        <4>8. g[k] = e.amount /\ h[k] = saturating_add(e.amount, n) /\ k \in S
          BY <1>1, <1>2, <1>5, <1>9, <2>1, <4>2, <4>3, <4>4 DEF Amount
        <4>9. \A key \in S \ {k} : g[key] = h[key]
          <5>1. Amount(d, m) = Amount(c, m)
            BY <2>1 DEF Amount, IsInitialized
          <5> QED
            BY <1>1, <1>2, <1>7, <4>2, <4>3, <4>4, <5>1
        <4>10. IsFiniteSet(S) /\ s + n < U64_MAX
          BY <4>1, <4>2, <4>6, <4>7 DEF Forward
        <4>11. SumFunctionOnSet(h, S) = s + n
          <5>1. h[k] = saturating_add(g[k], n)
            BY <4>8
          <5>2. \A key \in S : g[key] \in Nat /\ h[key] \in Nat
            BY <4>3, <4>4
          <5>3. k \in S /\ s = SumFunctionOnSet(g, S)
            BY <4>2, <4>8
          <5> QED
            BY <4>9, <4>10, <5>1, <5>2, <5>3, SumGrows
        <4> QED
          BY <1>7, <4>2, <4>6, <4>7, <4>11
      <3> QED
        BY <3>1, <3>2
    <2> QED
      BY <2>2, <2>3 DEF SupplyOk, SuppliesAre, SupplyIs
  <1> QED
    BY <1>8, <1>9

\* A mint that stays as it is, with accounts that hold what they held of it.
LEMMA MintStays ==
    ASSUME NEW txs, NEW V, NEW W, Forward(V, W, txs), NEW x \in DOMAIN V, IsMintAt(W, x),
           W[x].data = V[x].data,
           \A key \in DOMAIN V : Amount(W[key].data, x) = Amount(V[key].data, x)
    PROVE  SupplyIs(W, x)
  <1>1. IsMintAt(V, x) /\ SuppliesAre(V)
    BY DEF IsMintAt, Forward, SupplyOk
  <1>2. SupplyIs(V, x)
    BY <1>1, Zenon DEF SuppliesAre, SupplyIs
  <1> QED
    BY <1>2, SupplyStays DEF Forward

\* Transfer: what one account loses the other gets.
LEMMA MoveSupply ==
    ASSUME NEW txs, NEW V, NEW W, Forward(V, W, txs), NEW j, NEW k, NEW n \in 0..U64_MAX,
           MoveAt(j, k, n, V, W)
    PROVE  SupplyOk(W)
  <1>1. PICK c, d, e, f, u, v : /\ c = V[j].data /\ d = Debited(c, n) /\ e = V[k].data /\ f = Credited(e, n)
                                /\ u = Token!UnpackTokenAccount(c) /\ v = Token!UnpackTokenAccount(e)
    OBVIOUS
  <1>2. /\ j \in DOMAIN V /\ k \in DOMAIN V /\ j # k /\ Token!IsTokenAccount(c) /\ Token!IsTokenAccount(e)
        /\ u.mint = v.mint /\ ~(u.amount < n)
        /\ Kept({j, k}, V, W) /\ W[j].data = d /\ W[k].data = f
    BY <1>1 DEF MoveAt, PutTwo
  <1>3. DataOk(j, c, txs) /\ DataOk(k, e, txs)
    BY <1>1, <1>2 DEF Forward, StoreOk, AccountOk
  <1>4. /\ IsTokenData(d) /\ d.kind = "TokenAccount" /\ d.amount = saturating_sub(u.amount, n) /\ d.mint = u.mint
        /\ d.is_initialized = u.is_initialized
    BY <1>1, <1>2, <1>3, DebitedData
  <1>5. /\ IsTokenData(f) /\ f.kind = "TokenAccount" /\ f.amount = saturating_add(v.amount, n) /\ f.mint = v.mint
        /\ f.is_initialized = v.is_initialized
    BY <1>1, <1>2, <1>3, CreditedData
  <1>6. PICK m : m = u.mint
    OBVIOUS
  <1>7. /\ IsInitialized(c, "TokenAccount") => u = c /\ m # SYSTEM_PROGRAM_ID
        /\ ~IsInitialized(c, "TokenAccount") => Plain(c) /\ m = SYSTEM_PROGRAM_ID /\ ~u.is_initialized
    BY <1>1, <1>2, <1>6, NamesMint DEF Forward, SupplyOk
  <1>8. /\ IsInitialized(e, "TokenAccount") => v = e /\ m # SYSTEM_PROGRAM_ID
        /\ ~IsInitialized(e, "TokenAccount") => Plain(e) /\ m = SYSTEM_PROGRAM_ID /\ ~v.is_initialized
    <2>1. m = v.mint
      BY <1>2, <1>6
    <2> QED
      BY <1>1, <1>2, <2>1, NamesMint DEF Forward, SupplyOk
  <1>9. DOMAIN W = DOMAIN V /\ \A key \in DOMAIN V \ {j, k} : W[key].data = V[key].data
    BY <1>2 DEF Kept, Same
  <1>10. CASE m = SYSTEM_PROGRAM_ID
    <2>1. Plain(c) /\ Plain(d) /\ Plain(e) /\ Plain(f)
      BY <1>4, <1>5, <1>7, <1>8, <1>10 DEF Plain, IsInitialized
    <2>2. \A key \in DOMAIN V : W[key].data = V[key].data \/ (Plain(V[key].data) /\ Plain(W[key].data))
      BY <1>1, <1>2, <1>9, <2>1
    <2> QED
      BY <2>2, QuietSupply DEF Forward
  <1>11. CASE m # SYSTEM_PROGRAM_ID
    <2>1. /\ IsInitialized(c, "TokenAccount") /\ IsInitialized(e, "TokenAccount") /\ u = c /\ v = e
      BY <1>7, <1>8, <1>11
    <2>2. IsInitialized(d, "TokenAccount") /\ IsInitialized(f, "TokenAccount")
      BY <1>4, <1>5, <2>1 DEF IsInitialized
    <2>3. MintsNamed(W)
      <3>1. MintsNamed(V) /\ Onwards(V, W)
        BY DEF Forward, SupplyOk
      <3>2. \A key \in DOMAIN V : IsInitialized(W[key].data, "TokenAccount") =>
                IsInitialized(V[key].data, "TokenAccount")
        BY <1>1, <1>2, <1>9, <2>1
      <3> QED
        BY <1>9, <3>1, <3>2, MintsNamedStill
    <2>4. ASSUME NEW x \in DOMAIN W, IsMintAt(W, x) PROVE SupplyIs(W, x)
      <3>1. x # j /\ x # k
        BY <1>2, <1>4, <1>5, <2>4 DEF IsMintAt, IsInitialized
      <3>2. W[x].data = V[x].data /\ x \in DOMAIN V
        BY <1>9, <3>1
      <3>3. CASE x # m
        <4>1. \A key \in DOMAIN V : Amount(W[key].data, x) = Amount(V[key].data, x)
          <5>1. Amount(d, x) = Amount(c, x) /\ Amount(f, x) = Amount(e, x)
            BY <1>2, <1>4, <1>5, <1>6, <2>1, <3>3 DEF Amount
          <5> QED
            BY <1>1, <1>2, <1>9, <5>1
        <4> QED
          BY <2>4, <3>2, <4>1, MintStays
      <3>4. CASE x = m
        <4>1. SUFFICES ASSUME W[m].data.supply < U64_MAX
                       PROVE  SumFunctionOnSet(Tokens(W, m), DOMAIN W) = W[m].data.supply
          BY <3>4 DEF SupplyIs
        <4>2. PICK g, h, S, s : /\ g = Tokens(V, m) /\ h = Tokens(W, m) /\ S = DOMAIN V
                                /\ s = SumFunctionOnSet(g, S)
          BY Zenon
        <4>3. \A key \in S : g[key] = Amount(V[key].data, m) /\ g[key] \in Nat
          BY <4>2, TokensAt DEF Forward
        <4>4. \A key \in S : h[key] = Amount(W[key].data, m) /\ h[key] \in Nat
          BY <1>9, <4>2, TokensAt DEF Forward
        <4>5. s = W[m].data.supply
          <5>1. IsMintAt(V, m) /\ m \in DOMAIN V /\ V[m].data.supply < U64_MAX
            BY <2>4, <3>2, <3>4, <4>1 DEF IsMintAt
          <5>2. SumFunctionOnSet(g, S) = V[m].data.supply
            BY <4>2, <5>1 DEF Forward, SupplyOk, SuppliesAre
          <5> QED
            BY <3>2, <3>4, <4>2, <5>2
        <4>6. j \in S /\ k \in S /\ g[j] = c.amount /\ g[k] = e.amount /\ h[j] = d.amount /\ h[k] = f.amount
          BY <1>1, <1>2, <1>4, <1>5, <1>6, <2>1, <2>2, <4>2, <4>3, <4>4 DEF Amount
        <4>7. ~(g[j] < n) /\ h[j] = saturating_sub(g[j], n) /\ h[k] = saturating_add(g[k], n)
          BY <1>2, <1>4, <1>5, <2>1, <4>6
        <4>8. \A key \in S \ {j, k} : g[key] = h[key]
          BY <1>9, <4>2, <4>3, <4>4
        <4>9. \A key \in S : g[key] \in Nat /\ h[key] \in Nat
          BY <4>3, <4>4
        <4>10. IsFiniteSet(S) /\ s < U64_MAX /\ s = SumFunctionOnSet(g, S)
          BY <4>1, <4>2, <4>5 DEF Forward
        <4>11. SumFunctionOnSet(h, S) = s
          BY <1>2, <4>6, <4>7, <4>8, <4>9, <4>10, SumShifts
        <4> QED
          BY <1>9, <4>2, <4>5, <4>11
      <3> QED
        BY <3>3, <3>4
    <2> QED
      BY <2>3, <2>4 DEF SupplyOk, SuppliesAre, SupplyIs
  <1> QED
    BY <1>10, <1>11

\* InitializeMint: nobody named the mint before.
LEMMA InitMintSupply ==
    ASSUME NEW txs, NEW V, NEW W, Forward(V, W, txs), NEW m, NEW a, InitMintAt(m, a, V, W)
    PROVE  SupplyOk(W)
  <1>1. PICK d, v, t, e : d = V[m].data /\ v = 0 /\ t = TRUE /\ e = Token!MintState(a, v, t)
    OBVIOUS
  <1>2. /\ m \in DOMAIN V /\ Token!IsMint(d) /\ ~Token!UnpackMint(d).is_initialized
        /\ Put(m, e, V, W)
    BY <1>1, Zenon DEF InitMintAt
  <1>3. DataOk(m, d, txs) /\ v \in 0..U64_MAX /\ t \in BOOLEAN /\ t
    BY <1>1, <1>2, U64Assumption DEF Forward, StoreOk, AccountOk
  <1>4. IsInitialized(e, "Mint") /\ e.supply = 0 /\ ~IsInitialized(d, "Mint") /\ ~IsInitialized(d, "TokenAccount")
    BY <1>1, <1>2, <1>3, NewMintData, Zenon
  <1>5. Kept({m}, V, W) /\ W[m].data = e
    BY <1>2 DEF Put, Becomes
  <1>6. DOMAIN W = DOMAIN V /\ \A key \in DOMAIN V \ {m} : W[key].data = V[key].data
    BY <1>5 DEF Kept, Same
  <1>7. ~IsInitialized(e, "TokenAccount")
    BY <1>4 DEF IsInitialized
  <1>8. MintsNamed(V) /\ Onwards(V, W)
    BY DEF Forward, SupplyOk
  <1>9. MintsNamed(W)
    <2>1. \A key \in DOMAIN V : IsInitialized(W[key].data, "TokenAccount") =>
              IsInitialized(V[key].data, "TokenAccount")
      BY <1>5, <1>6, <1>7
    <2> QED
      BY <1>6, <1>8, <2>1, MintsNamedStill
  <1>10. \A x : \A key \in DOMAIN V : Amount(W[key].data, x) = Amount(V[key].data, x)
    BY <1>1, <1>4, <1>5, <1>6, <1>7, Zenon DEF Amount
  <1>11. ASSUME NEW x \in DOMAIN W, IsMintAt(W, x) PROVE SupplyIs(W, x)
    <2>1. CASE x # m
      BY <1>6, <1>10, <1>11, <2>1, MintStays
    <2>2. CASE x = m
      <3>1. PICK f, S : f = Tokens(V, m) /\ S = DOMAIN V
        BY Zenon
      <3>2. \A key \in S : f[key] = Amount(V[key].data, m)
        BY <3>1, TokensAt DEF Forward
      <3>3. \A key \in S : Amount(V[key].data, m) = 0
        BY <1>1, <1>4, <1>8, <3>1 DEF Amount, MintsNamed, IsMintAt
      <3>4. \A key \in S : f[key] = 0
        BY <3>2, <3>3
      <3>5. PICK g : g = Tokens(W, m)
        OBVIOUS
      <3>6. \A key \in S : g[key] = Amount(W[key].data, m)
        BY <1>6, <3>1, <3>5, TokensAt DEF Forward
      <3>7. \A key \in S : g[key] = 0
        BY <1>10, <3>1, <3>3, <3>6
      <3>8. SumFunctionOnSet(g, S) = 0
        BY <3>1, <3>7, SumZero DEF Forward
      <3> QED
        BY <1>4, <1>5, <1>6, <2>2, <3>1, <3>5, <3>8 DEF SupplyIs
    <2> QED
      BY <2>1, <2>2
  <1> QED
    BY <1>9, <1>11 DEF SupplyOk, SuppliesAre, SupplyIs

\* InitializeAccount: it starts with nothing.
LEMMA InitAccountSupply ==
    ASSUME NEW txs, NEW V, NEW W, Forward(V, W, txs), NEW k, NEW m, NEW o, InitAccountAt(k, m, o, V, W)
    PROVE  SupplyOk(W)
  <1>1. PICK d, v, t, e : d = V[k].data /\ v = 0 /\ t = TRUE /\ e = Token!TokenAccount(m, o, v, t)
    OBVIOUS
  <1>2. /\ k \in DOMAIN V /\ m \in DOMAIN V /\ Token!IsTokenAccount(d)
        /\ ~Token!UnpackTokenAccount(d).is_initialized /\ Put(k, e, V, W)
        /\ Token!UnpackMint(V[m].data).is_initialized
    BY <1>1, Zenon DEF InitAccountAt
  <1>3. DataOk(k, d, txs) /\ v \in 0..U64_MAX /\ t \in BOOLEAN /\ t
    BY <1>1, <1>2, U64Assumption DEF Forward, StoreOk, AccountOk
  <1>4. NewToken(d, e, m)
    BY <1>1, <1>2, <1>3, NewTokenData, Zenon
  <1>5. /\ IsInitialized(e, "TokenAccount") /\ e.amount = 0 /\ e.mint = m
        /\ ~IsInitialized(d, "Mint") /\ ~IsInitialized(d, "TokenAccount")
    BY <1>4 DEF NewToken
  <1>6. Kept({k}, V, W) /\ W[k].data = e
    BY <1>2 DEF Put, Becomes
  <1>7. DOMAIN W = DOMAIN V /\ \A key \in DOMAIN V \ {k} : W[key].data = V[key].data
    BY <1>6 DEF Kept, Same
  <1>8. ~IsInitialized(e, "Mint")
    BY <1>5 DEF IsInitialized
  <1>9. IsMintAt(V, m)
    <2>1. PICK c : c = V[m].data
      OBVIOUS
    <2>2. c.kind = "Mint" /\ c.is_initialized
      <3>1. ASSUME c.kind # "Mint" PROVE FALSE
        <4>1. PICK f : f = FALSE
          BY Zenon
        <4>2. Token!UnpackMint(c) = Token!MintState(SYSTEM_PROGRAM_ID, 0, f)
          BY <3>1, <4>1, Zenon DEF Token!UnpackMint
        <4>3. f \in BOOLEAN /\ 0 \in 0..U64_MAX
          <5>1. f \in BOOLEAN
            BY <4>1, Zenon
          <5> QED
            BY <5>1, U64Assumption
        <4>4. MintIs(Token!UnpackMint(c), SYSTEM_PROGRAM_ID, 0, f)
          BY <4>2, <4>3, MintShape
        <4>5. ~Token!UnpackMint(c).is_initialized
          BY <4>1, <4>4 DEF MintIs
        <4> QED
          BY <1>2, <2>1, <4>5
      <3>2. Token!UnpackMint(c) = c
        BY <3>1, Zenon DEF Token!UnpackMint
      <3> QED
        BY <1>2, <2>1, <3>1, <3>2
    <2> QED
      BY <2>1, <2>2 DEF IsMintAt, IsInitialized
  <1>10. MintsNamed(W)
    <2>1. MintsNamed(V) /\ Onwards(V, W)
      BY DEF Forward, SupplyOk
    <2>2. \A key \in DOMAIN V : IsInitialized(W[key].data, "TokenAccount") =>
              \/ IsInitialized(V[key].data, "TokenAccount")
              \/ W[key].data.mint \in DOMAIN V /\ IsMintAt(V, W[key].data.mint)
      BY <1>2, <1>5, <1>6, <1>7, <1>9
    <2> QED
      BY <1>7, <2>1, <2>2, MintsNamedStill
  <1>11. \A x : \A key \in DOMAIN V : Amount(W[key].data, x) = Amount(V[key].data, x)
    BY <1>1, <1>5, <1>6, <1>7, Zenon DEF Amount
  <1>12. ASSUME NEW x \in DOMAIN W, IsMintAt(W, x) PROVE SupplyIs(W, x)
    <2>1. x # k
      BY <1>6, <1>8, <1>12 DEF IsMintAt
    <2>2. W[x].data = V[x].data
      BY <1>7, <2>1
    <2> QED
      BY <1>7, <1>11, <1>12, <2>2, MintStays
  <1> QED
    BY <1>10, <1>12 DEF SupplyOk, SuppliesAre, SupplyIs

\* What a token instruction names.
LEMMA TokenNames ==
    ASSUME NEW txs, NEW ix, TidyIx(ix, txs), ix.program_id = TOKEN_PROGRAM_ID
    PROVE  /\ ix.data.variant \in {0, 1} /\ Len(ix.accounts) >= 3 =>
                 Key(ix, 2) \in TokenKeys(txs) /\ Key(ix, 3) \in TokenKeys(txs)
           /\ ix.data.variant \in {3, 4} /\ Len(ix.accounts) >= 2 => Key(ix, 1) \in TokenKeys(txs)
           /\ ix.data.kinds = <<"u64">> => ix.data.args[1] \in 0..U64_MAX
  <1>1. Len(ix.accounts) \in Nat
    BY DEF TidyIx, HasAccounts
  <1>2. ASSUME ix.data.variant \in {0, 1}, Len(ix.accounts) >= 3
        PROVE  Key(ix, 2) \in TokenKeys(txs) /\ Key(ix, 3) \in TokenKeys(txs)
    <2>1. 2 \in 1..Len(ix.accounts) /\ 3 \in 1..Len(ix.accounts)
      BY <1>1, <1>2
    <2>2. Key(ix, 2) \in TokenKeys(txs)
      BY <1>2, <2>1, TokenKey DEF TidyIx
    <2>3. Key(ix, 3) \in TokenKeys(txs)
      BY <1>2, <2>1, TokenKey DEF TidyIx
    <2> QED
      BY <2>2, <2>3
  <1>3. ASSUME ix.data.variant \in {3, 4}, Len(ix.accounts) >= 2
        PROVE  Key(ix, 1) \in TokenKeys(txs)
    <2>1. 1 \in 1..Len(ix.accounts) /\ ~(ix.data.variant \in {0, 1})
      BY <1>1, <1>3
    <2> QED
      BY <1>3, <2>1, TokenKey DEF TidyIx
  <1>4. ASSUME ix.data.kinds = <<"u64">> PROVE ix.data.args[1] \in 0..U64_MAX
    <2>1. 1 \in DOMAIN ix.data.kinds /\ ix.data.kinds[1] = "u64"
      BY <1>4
    <2> QED
      BY <2>1, Zenon DEF TidyIx, U64Args
  <1> QED
    BY <1>2, <1>3, <1>4

\* The token program writes the accounts it is given.
LEMMA TokenWrites ==
    ASSUME NEW txs, NEW ix, TidyIx(ix, txs), ix.program_id = TOKEN_PROGRAM_ID,
           NEW V, NEW W, TokenAt(ix, V, W)
    PROVE  Kept(TokenKeys(txs), V, W)
  <1>1. PICK k1, k2, k3, n, a : /\ k1 = Key(ix, 1) /\ k2 = Key(ix, 2) /\ k3 = Key(ix, 3)
                                /\ n = ix.data.args[1] /\ a = ix.data.args[2]
    OBVIOUS
  <1>2. /\ ix.data.variant \in {0, 1} /\ Len(ix.accounts) >= 3 =>
              k2 \in TokenKeys(txs) /\ k3 \in TokenKeys(txs)
        /\ ix.data.variant \in {3, 4} /\ Len(ix.accounts) >= 2 => k1 \in TokenKeys(txs)
        /\ Len(ix.accounts) \in Nat
    BY <1>1, TokenNames DEF TidyIx, HasAccounts
  <1>3. CASE Decodes(ix.data, 0, <<"u64">>) /\ Len(ix.accounts) >= 3 /\ MintAt(k2, k3, n, V, W)
    <2>1. Kept({k2, k3}, V, W)
      BY <1>3 DEF MintAt, PutTwo
    <2> QED
      BY <1>2, <1>3, <2>1 DEF Kept, Decodes
  <1>4. CASE Decodes(ix.data, 1, <<"u64">>) /\ Len(ix.accounts) >= 3 /\ MoveAt(k2, k3, n, V, W)
    <2>1. Kept({k2, k3}, V, W)
      BY <1>4 DEF MoveAt, PutTwo
    <2> QED
      BY <1>2, <1>4, <2>1 DEF Kept, Decodes
  <1>5. CASE ix.data.variant = 3 /\ Len(ix.accounts) >= 2 /\ InitMintAt(k1, a, V, W)
    <2>1. Kept({k1}, V, W)
      BY <1>5 DEF InitMintAt, Put, Becomes
    <2> QED
      BY <1>2, <1>5, <2>1 DEF Kept
  <1>6. CASE ix.data.variant = 4 /\ Len(ix.accounts) >= 4 /\ InitAccountAt(k1, k2, k3, V, W)
    <2>1. Kept({k1}, V, W)
      BY <1>6 DEF InitAccountAt, Put, Becomes
    <2> QED
      BY <1>2, <1>6, <2>1 DEF Kept
  <1> QED
    BY <1>1, <1>3, <1>4, <1>5, <1>6 DEF TokenAt

\* The token program.
LEMMA TokenSupply ==
    ASSUME NEW txs, KeysApart(txs), NEW ix, TidyIx(ix, txs), NEW V, StoreOk(V, txs), IsFiniteSet(DOMAIN V), SupplyOk(V),
           ix.program_id = TOKEN_PROGRAM_ID, NEW W, TokenAt(ix, V, W)
    PROVE  SupplyOk(W)
  <1>1. Forward(V, W, txs)
    <2>1. PICK made : made = {}
      BY Zenon
    <2>2. Onward(V, W, made, txs, made)
      BY TokenOnward
    <2>3. LoaderKeys(made) = {}
      BY <2>1 DEF LoaderKeys, InstructionsOf, Instructions
    <2>4. Onwards(V, W)
      BY <2>1, <2>2, <2>3 DEF Onward, Later, LaterAt, Onwards
    <2> QED
      BY <2>2, <2>4 DEF Forward, Onward
  <1>2. PICK k1, k2, k3, n, a : /\ k1 = Key(ix, 1) /\ k2 = Key(ix, 2) /\ k3 = Key(ix, 3)
                                /\ n = ix.data.args[1] /\ a = ix.data.args[2]
    BY Zenon
  <1>3. ix.data.kinds = <<"u64">> => n \in 0..U64_MAX
    BY <1>2, TokenNames
  <1>4. CASE Decodes(ix.data, 0, <<"u64">>) /\ MintAt(k2, k3, n, V, W)
    <2>1. n \in 0..U64_MAX
      BY <1>3, <1>4 DEF Decodes
    <2> QED
      BY <1>1, <1>4, <2>1, MintSupply
  <1>5. CASE Decodes(ix.data, 1, <<"u64">>) /\ MoveAt(k2, k3, n, V, W)
    <2>1. n \in 0..U64_MAX
      BY <1>3, <1>5 DEF Decodes
    <2> QED
      BY <1>1, <1>5, <2>1, MoveSupply
  <1>6. CASE InitMintAt(k1, a, V, W)
    BY <1>1, <1>6, InitMintSupply
  <1>7. CASE InitAccountAt(k1, k2, k3, V, W)
    BY <1>1, <1>7, InitAccountSupply
  <1> QED
    BY <1>2, <1>4, <1>5, <1>6, <1>7, Zenon DEF TokenAt

\* Where no key has two uses, an instruction leaves every supply the sum it was.
LEMMA InstructionSupply ==
    ASSUME NEW txs, KeysApart(txs), NEW ix, TidyIx(ix, txs), NEW V, StoreOk(V, txs), IsFiniteSet(DOMAIN V),
           SupplyOk(V), \A key \in DOMAIN V : key \in Creates(ix) => V[key].data = Empty,
           NEW W, StoreOk(W, txs), InstructionAt(ix, V, W)
    PROVE  SupplyOk(W)
  <1>1. CASE ix.program_id = SYSTEM_PROGRAM_ID /\ SystemAt(ix, V, W)
    BY <1>1, SystemSupply
  <1>2. CASE ix.program_id = TOKEN_PROGRAM_ID /\ TokenAt(ix, V, W)
    BY <1>2, TokenSupply
  <1>3. CASE ix.program_id = BPF_LOADER_UPGRADEABLE_PROGRAM_ID /\ LoaderAt(ix, V, W)
    BY <1>3, LoaderSupply
  <1> QED
    BY <1>1, <1>2, <1>3 DEF InstructionAt

-----------------------------------------------------------------------------
\* How far a transaction has got: what it made of the accounts V0 it found.
Progress(V0, V, made, txs, us) ==
    DOMAIN V = DOMAIN V0 /\ StoreOk(V, txs) /\ Later(V0, V, made, us)

\* The accounts a transaction is to create, but for those in made, are empty.
Awaits(V, tx, made) == \A key \in DOMAIN V : key \in Created(tx) /\ key \notin made => V[key].data = Empty

\* One more instruction.
LEMMA StepProgress ==
    ASSUME NEW txs, NEW ix, TidyIx(ix, txs), NEW V0, StoreOk(V0, txs),
           NEW us, ix \in Instructions(us),
           NEW V, NEW made, Progress(V0, V, made, txs, us), NEW W, InstructionAt(ix, V, W),
           NEW more, more = made \cup Creates(ix)
    PROVE  Progress(V0, W, more, txs, us)
  <1>1. /\ DOMAIN V = DOMAIN V0 /\ StoreOk(V, txs)
        /\ \A key \in DOMAIN V0 \ made : LaterAt(key, V0[key].data, V[key].data, us)
    BY DEF Progress, Later
  <1>2. DOMAIN W = DOMAIN V /\ StoreOk(W, txs)
        /\ \A key \in DOMAIN V \ Creates(ix) : LaterAt(key, V[key].data, W[key].data, us)
    <2>1. Onward(V, W, Creates(ix), txs, us)
      BY <1>1, InstructionOnward
    <2> QED
      BY <2>1 DEF Onward, Later
  <1>3. ASSUME NEW key \in DOMAIN V0 \ more PROVE LaterAt(key, V0[key].data, W[key].data, us)
    <2>1. PICK a, b, c : a = V0[key].data /\ b = V[key].data /\ c = W[key].data
      OBVIOUS
    <2>2. LaterAt(key, a, b, us) /\ LaterAt(key, b, c, us)
      BY <1>1, <1>2, <2>1
    <2>3. DataOk(key, a, txs) /\ DataOk(key, b, txs) /\ DataOk(key, c, txs)
      BY <1>1, <1>2, <2>1 DEF StoreOk, AccountOk
    <2>4. LaterAt(key, a, c, us)
      BY <2>2, <2>3, LaterTwice
    <2> QED
      BY <2>1, <2>4
  <1> QED
    BY <1>1, <1>2, <1>3 DEF Progress, Later

\* After the keys in made, tx creates those of ix, which are others.
CreatesMore(ix, tx, made, more) ==
    /\ Creates(ix) \subseteq Created(tx) /\ Creates(ix) \cap made = {}
    /\ more = made \cup Creates(ix)

\* Its supplies, as long as it creates accounts that are empty.
LEMMA StepSupply ==
    ASSUME NEW txs, KeysApart(txs), NEW ix, TidyIx(ix, txs), NEW V, StoreOk(V, txs), IsFiniteSet(DOMAIN V),
           SupplyOk(V), NEW W, InstructionAt(ix, V, W), NEW us, ix \in Instructions(us),
           NEW tx, NEW made, Awaits(V, tx, made), NEW more, CreatesMore(ix, tx, made, more)
    PROVE  SupplyOk(W) /\ Awaits(W, tx, more)
  <1>0. /\ Creates(ix) \subseteq Created(tx) /\ Creates(ix) \cap made = {}
        /\ more = made \cup Creates(ix)
    BY DEF CreatesMore
  <1>1. Onward(V, W, Creates(ix), txs, us)
    BY InstructionOnward
  <1>2. \A key \in DOMAIN V : key \in Creates(ix) => V[key].data = Empty
    BY <1>0 DEF Awaits
  <1>3. StoreOk(W, txs) /\ DOMAIN W = DOMAIN V
    BY <1>1 DEF Onward
  <1>4. SupplyOk(W)
    BY <1>2, <1>3, InstructionSupply
  <1>5. \A key \in DOMAIN V \ Creates(ix) : V[key].data = Empty => W[key].data = Empty
    BY <1>1 DEF Onward, Later, LaterAt
  <1> QED
    BY <1>0, <1>3, <1>4, <1>5 DEF Awaits

-----------------------------------------------------------------------------
\* Only a deployment makes program data.
IsDeploy(ix) == ix.program_id = BPF_LOADER_UPGRADEABLE_PROGRAM_ID /\ ix.data.variant = 2
NoNewData(V, W) ==
    \A key \in DOMAIN V : Holds(W[key], "ProgramData") => Holds(V[key], "ProgramData")

\* One account that gets no program data, or had some.
LEMMA NoNewDataAt ==
    ASSUME NEW V, NEW W, NEW k, Kept({k}, V, W), Holds(W[k], "ProgramData") => Holds(V[k], "ProgramData")
    PROVE  NoNewData(V, W)
  BY DEF NoNewData, Kept, Same, Holds

\* Another instruction of the loader.
LEMMA LoaderMakesNone ==
    ASSUME NEW txs, NEW ix, TidyIx(ix, txs), ix.program_id = BPF_LOADER_UPGRADEABLE_PROGRAM_ID, ix.data.variant # 2,
           NEW V, StoreOk(V, txs), NEW W, LoaderAt(ix, V, W)
    PROVE  NoNewData(V, W)
  <1>1. PICK k, k2, a, b : k = Key(ix, 1) /\ k2 = Key(ix, 2) /\ a = ix.data.args[1] /\ b = ix.data.args[2]
    OBVIOUS
  <1>2. ASSUME NEW d, Put(k, d, V, W), d.kind = "Loader" /\ d.state.tag = "ProgramData" =>
                                           Holds(V[k], "ProgramData")
        PROVE  NoNewData(V, W)
    <2>1. Kept({k}, V, W) /\ W[k].data = d
      BY <1>2 DEF Put, Becomes
    <2>2. Holds(W[k], "ProgramData") => Holds(V[k], "ProgramData")
      BY <1>2, <2>1, Zenon DEF Holds
    <2> QED
      BY <2>1, <2>2, NoNewDataAt
  <1>3. PICK c, s : c = V[k].data /\ s = Loader!StateOf(c)
    OBVIOUS
  <1>4. ASSUME NEW new, NEW old, NEW d, d = Loader!pack_into_account(new, old)
        PROVE  d.state = new
    BY <1>4 DEF Loader!pack_into_account
  <1>5. CASE ix.data.variant = 0
             /\ InitBufferAt(k, Loader!Buffer(IF Len(ix.accounts) > 1 THEN k2 ELSE Loader!NoKey), V, W)
    <2>1. PICK x, new, d : /\ x = (IF Len(ix.accounts) > 1 THEN k2 ELSE Loader!NoKey)
                           /\ new = Loader!Buffer(x) /\ d = Loader!pack_into_account(new, c)
      OBVIOUS
    <2>2. Put(k, d, V, W)
      BY <1>3, <1>5, <2>1 DEF InitBufferAt
    <2>3. d.state = new /\ new.tag = "Buffer"
      BY <1>4, <2>1 DEF Loader!Buffer
    <2> QED
      BY <1>2, <2>2, <2>3
  <1>6. CASE ix.data.variant = 1 /\ WriteAtKey(k, a, b, V, W)
    <2>1. PICK d : d = Rewritten(c, a, b)
      OBVIOUS
    <2>2. Put(k, d, V, W) /\ s.tag = "Buffer"
      BY <1>3, <1>6, <2>1 DEF WriteAtKey
    <2>3. PICK w : d = Loader!pack_into_account(s, w)
      BY <1>3, <2>1, Zenon DEF Rewritten
    <2>4. d.state = s
      BY <1>4, <2>3
    <2> QED
      BY <1>2, <2>2, <2>4
  <1>7. CASE ix.data.variant = 4 /\ SetAuthorityAt(k, k2, a, V, W) /\ Len(ix.accounts) >= 2
    <2>1. PICK n, d : n = WithAuthority(c, a) /\ d = Loader!pack_into_account(n, c)
      OBVIOUS
    <2>2. /\ k \in DOMAIN V /\ Put(k, d, V, W) /\ ~Loader!PackFails(n, c)
          /\ s.tag \in {"Buffer", "ProgramData"} /\ s.authority_address = k2
      BY <1>3, <1>7, <2>1 DEF SetAuthorityAt
    <2>3. k2 # Loader!NoKey
      <3>1. Len(ix.accounts) \in Nat /\ DOMAIN ix.accounts = 1..Len(ix.accounts)
        BY DEF TidyIx, HasAccounts
      <3>2. 2 \in DOMAIN ix.accounts
        BY <1>7, <3>1
      <3> QED
        BY <1>1, <3>1, <3>2 DEF TidyIx, WellTyped, Key
    <2>4. AccountOk(k, V[k], txs)
      BY <2>2 DEF StoreOk
    <2>5. AnyData(c)
      BY <1>3, <2>4, LoaderHolds
    <2>6. Rekeyed(c, n, d)
      BY <1>3, <2>1, <2>2, <2>3, <2>5, AuthorityData
    <2>7. d.state.tag = c.state.tag /\ c.kind = "Loader"
      BY <2>6 DEF Rekeyed, Packed, IsLoaderData
    <2> QED
      BY <1>2, <1>3, <2>2, <2>7 DEF Holds
  <1>8. CASE ix.data.variant = 5 /\ Put(k, Empty, V, W)
    <2>1. PICK d : d = Empty
      OBVIOUS
    <2>2. Put(k, d, V, W) /\ d.kind # "Loader"
      BY <1>8, <2>1, EmptyIs
    <2> QED
      BY <1>2, <2>2
  <1> QED
    BY <1>1, <1>5, <1>6, <1>7, <1>8 DEF LoaderAt, Decodes

\* An instruction that is no deployment.
LEMMA OthersMakeNone ==
    ASSUME NEW txs, NEW ix, TidyIx(ix, txs), ~IsDeploy(ix), NEW V, StoreOk(V, txs),
           NEW W, InstructionAt(ix, V, W)
    PROVE  NoNewData(V, W)
  <1>1. CASE ix.program_id = SYSTEM_PROGRAM_ID /\ SystemAt(ix, V, W)
    <2>1. CASE Kept({}, V, W)
      BY <2>1 DEF Kept, Same, NoNewData, Holds
    <2>2. ASSUME NEW k, NEW d, NEW o, NEW e, Becomes(k, d, o, e, V, W), d = V[k].data \/ d.kind = "Zeros"
          PROVE  NoNewData(V, W)
      <3>1. Kept({k}, V, W) /\ W[k].data = d
        BY <2>2 DEF Becomes
      <3>2. Holds(W[k], "ProgramData") => Holds(V[k], "ProgramData")
        BY <2>2, <3>1 DEF Holds
      <3> QED
        BY <3>1, <3>2, NoNewDataAt, Zenon
    <2>3. CASE LET k == Key(ix, 1) IN Becomes(k, V[k].data, ix.data.args[1], V[k].executable, V, W)
      BY <2>2, <2>3
    <2>4. CASE LET k == Key(ix, 2)
               IN  Becomes(k, Zeros(ix.data.args[2]), ix.data.args[3], V[k].executable, V, W)
      <3>1. PICK d : d = Zeros(ix.data.args[2])
        OBVIOUS
      <3>2. d.kind = "Zeros"
        BY <3>1 DEF Zeros
      <3> QED
        BY <2>2, <2>4, <3>1, <3>2
    <2> QED
      BY <1>1, <2>1, <2>3, <2>4 DEF SystemAt
  <1>2. CASE ix.program_id = TOKEN_PROGRAM_ID /\ TokenAt(ix, V, W)
    <2>1. PICK made : made = {}
      BY Zenon
    <2>2. Onward(V, W, made, txs, made) /\ NoneLoaded(V, W)
      BY <1>2, TokenOnward
    <2> QED
      BY <2>2 DEF NoneLoaded, NoNewData, Holds
  <1>3. CASE ix.program_id = BPF_LOADER_UPGRADEABLE_PROGRAM_ID /\ LoaderAt(ix, V, W)
    BY <1>3, LoaderMakesNone DEF IsDeploy
  <1> QED
    BY <1>1, <1>2, <1>3 DEF InstructionAt

\* key holds the code of an account that was used up, and a program points to it.
Whole(V, W, key) ==
    /\ \E program \in DOMAIN W :
          /\ Holds(W[program], "Program") /\ W[program].data.state.programdata_address = key
          /\ W[program].executable /\ W[program].owner = BPF_LOADER_UPGRADEABLE_PROGRAM_ID
    /\ \E buffer \in DOMAIN V :
          /\ V[buffer].data.len >= Loader!size_of_buffer_metadata
          /\ IsPrefix(Loader!BodyFrom(Loader!size_of_buffer_metadata, V[buffer].data), W[key].data.body)
          /\ W[buffer].data = Empty

\* Code copied to the start of zeros that are long enough.
LEMMA CodeIsPrefix ==
    ASSUME NEW code \in Seq(Byte), NEW z, IsZeros(z), NEW from \in Nat, ~(z.len < from + Len(code)),
           NEW body, body = Loader!CopyInto(Loader!BodyFrom(from, z), 0, code)
    PROVE  IsPrefix(code, body)
  <1>1. PICK b, o : b = Loader!BodyFrom(from, z) /\ o = 0
    OBVIOUS
  <1>2. b \in Seq(Byte) /\ Len(b) = saturating_sub(z.len, from) /\ z.len \in Nat
    <2>1. AnyData(z) /\ z.len \in Nat
      BY DEF AnyData, IsZeros
    <2> QED
      BY <1>1, <2>1, BodyIs, Zenon
  <1>3. Len(code) <= Len(b)
    BY <1>2 DEF saturating_sub
  <1>4. /\ body \in Seq(Byte) /\ Len(body) = Len(b)
        /\ \A i \in 1..Len(b) : body[i] = IF i - o \in 1..Len(code) THEN code[i - o] ELSE b[i]
    <2>1. o \in Nat /\ body = Loader!CopyInto(b, o, code)
      BY <1>1
    <2> QED
      BY <1>2, <2>1, CopiedBytes
  <1>5. \A i \in 1..Len(code) : body[i] = code[i]
    BY <1>1, <1>2, <1>3, <1>4
  <1>6. PICK n \in Nat : n = Len(code)
    OBVIOUS
  <1>7. PICK f : f = [i \in 1..n |-> code[i]]
    OBVIOUS
  <1>8. SubSeq(code, 1, n) = f
    BY <1>6, <1>7
  <1>9. SubSeq(body, 1, n) = f
    <2>1. f = [i \in 1..n |-> body[i]]
      BY <1>5, <1>6, <1>7
    <2>2. body \in Seq(Byte) /\ n <= Len(body)
      BY <1>3, <1>4, <1>6
    <2> QED
      BY <2>1, <2>2
  <1> QED
    BY <1>3, <1>4, <1>6, <1>8, <1>9 DEF IsPrefix

\* DeployWithMaxDataLen.
LEMMA DeployIsWhole ==
    ASSUME NEW txs, NEW V, StoreOk(V, txs), NEW W, NEW p, NEW q, NEW b, NEW auth, NEW space \in Nat, NEW o, DeployAt(p, q, b, auth, space, o, V, W),
           NEW key \in DOMAIN W, Holds(W[key], "ProgramData"), ~Holds(V[key], "ProgramData")
    PROVE  Whole(V, W, key)
  <1>1. PICK z, code, d, e, s, f : /\ z = Zeros(space) /\ d = V[b].data /\ e = V[q].data
                                /\ code = Loader!BodyFrom(Loader!size_of_buffer_metadata, d)
                                /\ s = Loader!Program(p) /\ f = Loader!pack_into_account(s, e)
    OBVIOUS
  <1>2. /\ p \in DOMAIN V /\ q \in DOMAIN V /\ b \in DOMAIN V /\ p # q /\ p # b /\ q # b /\ Kept({p, q, b}, V, W)
        /\ ~(d.len < Loader!size_of_buffer_metadata)
        /\ ~Loader!PackFails(Loader!ProgramData(0, auth), z)
        /\ ~(z.len < Loader!size_of_programdata_metadata + Len(code))
        /\ W[p].data = Deployed(auth, z, code)
        /\ W[q].data = f /\ W[q].owner = BPF_LOADER_UPGRADEABLE_PROGRAM_ID /\ W[q].executable = TRUE
        /\ W[b].data = Empty
    BY <1>1, Zenon DEF DeployAt
  <1>3. f.kind = "Loader" /\ f.state = s /\ s.tag = "Program" /\ s.programdata_address = p
    BY <1>1 DEF Loader!pack_into_account, Loader!Program
  <1>4. key = p
    <2>1. DOMAIN W = DOMAIN V /\ \A x \in DOMAIN V \ {p, q, b} : W[x].data = V[x].data
      BY <1>2 DEF Kept, Same
    <2>2. ~Holds(W[q], "ProgramData") /\ ~Holds(W[b], "ProgramData")
      BY <1>2, <1>3, EmptyIs DEF Holds
    <2> QED
      BY <2>1, <2>2 DEF Holds
  <1>5. q \in DOMAIN W /\ Holds(W[q], "Program") /\ W[q].data.state.programdata_address = p
    BY <1>2, <1>3 DEF Kept, Holds
  <1>6. d.len >= Loader!size_of_buffer_metadata
    <2>1. AccountOk(b, V[b], txs)
      BY <1>2 DEF StoreOk
    <2>2. d.len \in Nat
      BY <1>1, <2>1, LoaderHolds, LenIsNat
    <2> QED
      BY <1>2, <2>2, MetadataIs
  <1>7. code \in Seq(Byte)
    <2>1. AccountOk(b, V[b], txs)
      BY <1>2 DEF StoreOk
    <2>2. AnyData(d)
      BY <1>1, <2>1, LoaderHolds
    <2> QED
      BY <1>1, <2>2, BodyIs, MetadataIs
  <1>8. IsPrefix(code, W[p].data.body)
    <2>1. PICK g, h : /\ g = Deployed(auth, z, code)
                      /\ h = Loader!CopyInto(Loader!BodyFrom(Loader!size_of_programdata_metadata, z), 0, code)
      OBVIOUS
    <2>2. g.body = h
      BY <1>1, <1>2, <1>7, <2>1, ProgramDataIs
    <2>3. IsZeros(z) /\ Loader!size_of_programdata_metadata \in Nat
      BY <1>1, MetadataIs DEF IsZeros, Zeros
    <2>4. IsPrefix(code, h)
      BY <1>2, <1>7, <2>1, <2>3, CodeIsPrefix
    <2> QED
      BY <1>2, <2>1, <2>2, <2>4
  <1>9. \E program \in DOMAIN W :
          /\ Holds(W[program], "Program") /\ W[program].data.state.programdata_address = p
          /\ W[program].executable /\ W[program].owner = BPF_LOADER_UPGRADEABLE_PROGRAM_ID
    BY <1>2, <1>5, Zenon
  <1>10. \E buffer \in DOMAIN V :
          /\ V[buffer].data.len >= Loader!size_of_buffer_metadata
          /\ IsPrefix(Loader!BodyFrom(Loader!size_of_buffer_metadata, V[buffer].data), W[p].data.body)
          /\ W[buffer].data = Empty
    BY <1>1, <1>2, <1>6, <1>8, Zenon
  <1> QED
    BY <1>4, <1>9, <1>10, Zenon DEF Whole

\* A deployment leaves a program, or no new program data.
LEMMA InstructionIsWhole ==
    ASSUME NEW txs, NEW ix, TidyIx(ix, txs), IsDeploy(ix), NEW V, StoreOk(V, txs),
           NEW W, InstructionAt(ix, V, W),
           NEW key \in DOMAIN W, Holds(W[key], "ProgramData"), ~Holds(V[key], "ProgramData")
    PROVE  Whole(V, W, key)
  <1>1. PICK p, q, b, auth, space, o : /\ p = Key(ix, 2) /\ q = Key(ix, 3) /\ b = Key(ix, 4) /\ auth = Key(ix, 8)
                                       /\ space = ix.data.args[2] /\ o = ix.data.args[3]
    OBVIOUS
  <1>2. ix.program_id = BPF_LOADER_UPGRADEABLE_PROGRAM_ID /\ ix.data.variant = 2
    BY DEF IsDeploy
  <1>3. LoaderAt(ix, V, W)
    BY <1>2, ProgramIdsDiffer DEF InstructionAt
  <1>4. /\ Decodes(ix.data, 2, <<"u64", "u64", "pubkey">>) /\ Len(ix.accounts) >= 8
        /\ DeployAt(p, q, b, auth, space, o, V, W)
    BY <1>1, <1>2, <1>3 DEF LoaderAt
  <1>5. space \in Nat
    <2>1. 2 \in DOMAIN ix.data.kinds /\ ix.data.kinds[2] = "u64"
      BY <1>4 DEF Decodes
    <2>2. space \in 0..U64_MAX
      BY <1>1, <2>1, Zenon DEF TidyIx, U64Args
    <2> QED
      BY <2>2, U64Assumption
  <1> QED
    BY <1>4, <1>5, DeployIsWhole

-----------------------------------------------------------------------------
\* What a transaction finds: the store, and nothing at the keys that have no account.
Finds(V, L) ==
    /\ DOMAIN L \subseteq DOMAIN V /\ IsFiniteSet(DOMAIN V)
    /\ \A key \in DOMAIN V : V[key] = Load(L, key)

\* The view before the first instruction is such.
LEMMA FirstView ==
    ASSUME NEW tx, WellFormedTx(tx), ListsOnce(tx), NEW L, AreAccounts(L),
           NEW F, F = Loaded(tx, L), NEW V, V = View(tx, L, F)
    PROVE  Finds(V, L)
  <1>1. PICK t : t = tx.account_keys
    OBVIOUS
  <1>2. AreAccounts(F) /\ DOMAIN F = DOMAIN t /\ \A i \in DOMAIN t : F[i] = Load(L, t[i])
    BY <1>1, LoadedAccounts
  <1>3. ViewOf(V, t, L, F)
    BY <1>1, <1>2, ViewIs
  <1>4. DOMAIN t = 1..Len(t)
    BY <1>1 DEF WellFormedTx
  <1>5. ASSUME NEW key \in DOMAIN V PROVE V[key] = Load(L, key)
    <2>1. CASE \A i \in 1..Len(t) : t[i] # key
      <3>1. key \in DOMAIN L /\ V[key] = L[key]
        BY <1>3, <2>1 DEF ViewOf
      <3> QED
        BY <3>1 DEF Load
    <2>2. CASE \E i \in 1..Len(t) : t[i] = key
      <3>1. PICK i \in 1..Len(t) : t[i] = key
        BY <2>2
      <3>2. V[t[i]] = F[i]
        BY <1>3 DEF ViewOf
      <3> QED
        BY <1>2, <1>4, <3>1, <3>2
    <2> QED
      BY <2>1, <2>2
  <1> QED
    BY <1>3, <1>5 DEF Finds, ViewOf, AreAccounts

\* An account that is not there is found as new, which is empty.
FoundAs(new, V, L) ==
    /\ Plain(new.data) /\ new.data = Empty /\ new.executable = FALSE
    /\ \A key \in DOMAIN V : /\ (key \in DOMAIN L => V[key] = L[key])
                              /\ (key \notin DOMAIN L => V[key] = new)

LEMMA NewAccount ==
    ASSUME NEW V, NEW L, Finds(V, L)
    PROVE  \E new : FoundAs(new, V, L)
  <1>1. PICK new : new = DefaultAccount
    OBVIOUS
  <1>2. Plain(new.data) /\ new.data = Empty /\ new.executable = FALSE
    BY <1>1, EmptyIs DEF DefaultAccount, Plain, IsInitialized
  <1>3. \A key \in DOMAIN V : /\ (key \in DOMAIN L => V[key] = L[key])
                              /\ (key \notin DOMAIN L => V[key] = new)
    BY <1>1 DEF Finds, Load
  <1> QED
    BY <1>2, <1>3, Zenon DEF FoundAs

\* It has the accounts of the store.
LEMMA FindsStore ==
    ASSUME NEW txs, NEW L, StoreOk(L, txs), NEW V, Finds(V, L)
    PROVE  StoreOk(V, txs)
  <1>0. PICK new : FoundAs(new, V, L)
    BY NewAccount
  <1>1. /\ new.data = Empty /\ new.executable = FALSE
        /\ \A key \in DOMAIN V : /\ (key \in DOMAIN L => V[key] = L[key])
                                  /\ (key \notin DOMAIN L => V[key] = new)
    BY <1>0, Zenon DEF FoundAs
  <1>2. \A key : AccountOk(key, new, txs)
    BY <1>1, EmptyIs, Zenon DEF AccountOk, DataOk
  <1> QED
    BY <1>1, <1>2 DEF StoreOk

\* And its tokens.
LEMMA FindsSupply ==
    ASSUME NEW txs, NEW L, StoreOk(L, txs), IsFiniteSet(DOMAIN L), SupplyOk(L), NEW V, Finds(V, L)
    PROVE  SupplyOk(V)
  <1>1. StoreOk(V, txs)
    BY FindsStore
  <1>0. PICK new : FoundAs(new, V, L)
    BY NewAccount
  <1>2. /\ Plain(new.data)
        /\ \A key \in DOMAIN V : /\ (key \in DOMAIN L => V[key] = L[key])
                                  /\ (key \notin DOMAIN L => V[key] = new)
    BY <1>0, Zenon DEF FoundAs
  <1>3. DOMAIN L \subseteq DOMAIN V /\ IsFiniteSet(DOMAIN V)
    BY DEF Finds
  <1>4. MintsNamed(V)
    BY <1>2, <1>3 DEF SupplyOk, MintsNamed, IsMintAt, Plain
  <1>5. ASSUME NEW m \in DOMAIN V, IsMintAt(V, m) PROVE SupplyIs(V, m)
    <2>1. m \in DOMAIN L /\ V[m] = L[m] /\ IsMintAt(L, m)
      BY <1>2, <1>5 DEF IsMintAt, Plain
    <2>2. SupplyIs(L, m)
      BY <2>1, Zenon DEF SupplyOk, SuppliesAre, SupplyIs
    <2>3. PICK f, g, S, T : f = Tokens(L, m) /\ g = Tokens(V, m) /\ S = DOMAIN V /\ T = DOMAIN L
      BY Zenon
    <2>4. \A key \in T : f[key] = Amount(L[key].data, m)
      BY <2>3, TokensAt
    <2>5. \A key \in S : g[key] = Amount(V[key].data, m) /\ g[key] \in Nat
      BY <1>1, <2>3, TokensAt
    <2>6. \A key \in T : g[key] = f[key]
      BY <1>2, <1>3, <2>3, <2>4, <2>5
    <2>7. \A key \in S \ T : g[key] = 0
      BY <1>2, <2>3, <2>5 DEF Amount, Plain
    <2>8. IsFiniteSet(S) /\ IsFiniteSet(T) /\ T \in SUBSET S /\ IsFiniteSet(S \ T)
      <3>1. IsFiniteSet(S) /\ IsFiniteSet(T) /\ T \in SUBSET S
        BY <1>3, <2>3
      <3> QED
        BY <3>1, FS_Subset
    <2>9. PICK r, u, v : /\ r = SumFunctionOnSet(g, S) /\ u = SumFunctionOnSet(g, T)
                         /\ v = SumFunctionOnSet(g, S \ T)
      OBVIOUS
    <2>10. r = u + v
      <3>1. \A key \in S : g[key] \in Nat
        BY <2>5
      <3> QED
        BY <2>8, <2>9, <3>1, SumUnion
    <2>11. v = 0
      BY <2>7, <2>8, <2>9, SumZero
    <2>12. u = SumFunctionOnSet(f, T)
      BY <2>6, <2>8, <2>9, SumSame
    <2>13. u \in Nat
      BY <2>5, <2>8, <2>9, SumNat
    <2>14. r = SumFunctionOnSet(f, T)
      BY <2>10, <2>11, <2>12, <2>13
    <2> QED
      BY <2>1, <2>2, <2>3, <2>9, <2>14, Zenon DEF SupplyIs
  <1> QED
    BY <1>4, <1>5 DEF SupplyOk, SuppliesAre, SupplyIs

\* One instruction of a transaction, as it is seen in the store.
LEMMA StepIsInstruction ==
    ASSUME NEW txs, Tidy(txs), NEW tx \in txs, Lossless(tx), NEW L, AreAccounts(L),
           NEW k \in 1..Len(tx.instructions), NEW ix, ix = tx.instructions[k],
           NEW state, NEW next, next = ExecStep(tx, state, ix), next.result = "Ok",
           NEW F, F = state.loaded, AreAccounts(F), DOMAIN F = DOMAIN tx.account_keys,
           NEW G, G = next.loaded,
           NEW V, V = View(tx, L, F), NEW W, W = View(tx, L, G)
    PROVE  /\ state.result = "Ok" /\ Conserves(F, G)
           /\ TidyIx(ix, txs) /\ ix \in Instructions({tx}) /\ InstructionAt(ix, V, W)
  <1>1. WellFormedTx(tx) /\ ListsOnce(tx) /\ MarksDrained(ix)
    BY DEF Lossless
  <1>2. state.result = "Ok" /\ Conserves(F, G)
    BY <1>1, StepConserves
  <1>3. AreAccounts(G) /\ DOMAIN G = DOMAIN tx.account_keys
    BY <1>2 DEF Conserves
  <1>4. PICK t, infos : t = tx.account_keys /\ infos = prepare_account_infos(ix, t)
    OBVIOUS
  <1>5. ViewOf(V, t, L, F) /\ ViewOf(W, t, L, G)
    BY <1>1, <1>3, <1>4, ViewIs
  <1>6. InfosOk(ix, t) /\ InstructionDone(ix, infos, F, G)
    BY <1>1, <1>4, StepDone
  <1>7. HasAccounts(ix) /\ U64Args(ix.data) /\ Len(t) \in Nat /\ DOMAIN t = 1..Len(t)
    BY <1>1, <1>4 DEF WellFormedTx
  <1>8. InfosAt(ix, infos, t, F)
    <2>1. DOMAIN F = 1..Len(t)
      BY <1>4, <1>7
    <2>2. /\ AreInfos(F, infos) /\ Len(infos) = Len(ix.accounts)
          /\ \A i \in 1..Len(infos) :
                /\ infos[i].pubkey = ix.accounts[i].pubkey
                /\ infos[i].index \in 1..Len(t) /\ t[infos[i].index] = infos[i].pubkey
          /\ MarkedApart(ix, infos)
      BY <1>4, <1>6, <1>7, <2>1, PreparedInfos
    <2> QED
      BY <2>1, <2>2 DEF InfosAt, Key
  <1>9. ix \in Instructions(txs) /\ ix \in Instructions({tx})
    <2>1. k \in DOMAIN tx.instructions
      BY <1>1 DEF WellFormedTx, HasInstructions
    <2>2. ix \in ToSet(tx.instructions)
      BY <2>1 DEF ToSet
    <2> QED
      BY <2>2 DEF Instructions
  <1>10. MarksWritten(ix) /\ WellTyped(ix) /\ TokenOwned(txs)
    BY <1>9 DEF Tidy
  <1>11. InstructionAt(ix, V, W)
    BY <1>1, <1>5, <1>6, <1>8, <1>10, InstructionView
  <1> QED
    BY <1>2, <1>7, <1>9, <1>10, <1>11 DEF TidyIx

-----------------------------------------------------------------------------
\* What the first k instructions create.
MadeBy(tx, k) == UNION {Creates(tx.instructions[i]) : i \in 1..k}

\* Instruction by instruction.
LEMMA MadeStep ==
    ASSUME NEW tx, HasInstructions(tx), NEW k \in 1..Len(tx.instructions),
           NEW ix, ix = tx.instructions[k]
    PROVE  /\ MadeBy(tx, k) = MadeBy(tx, k - 1) \cup Creates(ix)
           /\ CreatesApart(tx) => Creates(ix) \cap MadeBy(tx, k - 1) = {}
           /\ Creates(ix) \subseteq Created(tx)
  <1>1. k \in DOMAIN tx.instructions /\ 1..k = (1..(k - 1)) \cup {k} /\ k \notin 1..(k - 1)
        /\ \A i \in 1..(k - 1) : i \in DOMAIN tx.instructions /\ i # k
    BY DEF HasInstructions
  <1>2. PICK I, J : I = 1..k /\ J = 1..(k - 1)
    OBVIOUS
  <1>3. UNION {Creates(tx.instructions[i]) : i \in I} = (UNION {Creates(tx.instructions[i]) : i \in J}) \cup Creates(ix)
    BY <1>1, <1>2, Zenon
  <1>4. CreatesApart(tx) => \A i \in J : Creates(ix) \cap Creates(tx.instructions[i]) = {}
    BY <1>1, <1>2, Zenon DEF CreatesApart
  <1>5. Creates(ix) \subseteq Created(tx)
    <2>1. ix \in ToSet(tx.instructions)
      BY <1>1 DEF ToSet
    <2> QED
      BY <2>1, Zenon DEF Created
  <1> QED
    BY <1>2, <1>3, <1>4, <1>5 DEF MadeBy

\* All of them.
LEMMA MadeAll ==
    ASSUME NEW tx, HasInstructions(tx)
    PROVE  MadeBy(tx, 0) = {} /\ MadeBy(tx, Len(tx.instructions)) \subseteq Created(tx)
  <1>1. MadeBy(tx, 0) = {}
    BY DEF MadeBy
  <1>2. PICK I : I = 1..Len(tx.instructions)
    OBVIOUS
  <1>3. ToSet(tx.instructions) = {tx.instructions[i] : i \in I}
    BY <1>2, Zenon DEF ToSet, HasInstructions
  <1>4. UNION {Creates(tx.instructions[i]) : i \in I} \subseteq UNION {Creates(ix) : ix \in ToSet(tx.instructions)}
    BY <1>3, Zenon
  <1> QED
    BY <1>1, <1>2, <1>4, Zenon DEF MadeBy, Created

NoDeploy(tx) == \A k \in 1..Len(tx.instructions) : ~IsDeploy(tx.instructions[k])

\* What it takes for the supplies to stay sums.
Sums(V0, tx, txs) == KeysApart(txs) /\ CreatesApart(tx) /\ SupplyOk(V0) /\ Awaits(V0, tx, {})

\* How far a transaction has got with k instructions.
SoFar(V0, V, tx, k, txs) ==
    /\ Progress(V0, V, MadeBy(tx, k), txs, {tx})
    /\ NoDeploy(tx) => NoNewData(V0, V)
    /\ Sums(V0, tx, txs) => SupplyOk(V) /\ Awaits(V, tx, MadeBy(tx, k))

\* One more.
LEMMA SoFarStep ==
    ASSUME NEW txs, Tidy(txs), NEW tx \in txs, Lossless(tx), NEW k \in 1..Len(tx.instructions),
           NEW ix, ix = tx.instructions[k], TidyIx(ix, txs), ix \in Instructions({tx}),
           NEW V0, StoreOk(V0, txs), IsFiniteSet(DOMAIN V0),
           NEW V, SoFar(V0, V, tx, k - 1, txs), NEW W, InstructionAt(ix, V, W)
    PROVE  SoFar(V0, W, tx, k, txs)
  <1>1. HasInstructions(tx)
    BY DEF Lossless, WellFormedTx
  <1>2. PICK made, more, us : made = MadeBy(tx, k - 1) /\ more = MadeBy(tx, k) /\ us = {tx}
    BY Zenon
  <1>3. /\ more = made \cup Creates(ix) /\ Creates(ix) \subseteq Created(tx)
        /\ CreatesApart(tx) => Creates(ix) \cap made = {}
    BY <1>1, <1>2, MadeStep
  <1>4. Progress(V0, V, made, txs, us) /\ ix \in Instructions(us)
    BY <1>2 DEF SoFar
  <1>5. Progress(V0, W, more, txs, us)
    BY <1>3, <1>4, StepProgress
  <1>6. StoreOk(V, txs) /\ DOMAIN V = DOMAIN V0
    BY <1>4 DEF Progress
  <1>7. ASSUME NoDeploy(tx) PROVE NoNewData(V0, W)
    <2>1. NoNewData(V0, V)
      BY <1>7 DEF SoFar
    <2>2. ~IsDeploy(ix)
      BY <1>7 DEF NoDeploy
    <2>3. NoNewData(V, W)
      BY <1>6, <2>2, OthersMakeNone
    <2> QED
      BY <1>6, <2>1, <2>3 DEF NoNewData
  <1>8. ASSUME Sums(V0, tx, txs) PROVE SupplyOk(W) /\ Awaits(W, tx, more)
    <2>1. SupplyOk(V) /\ Awaits(V, tx, made)
      BY <1>2, <1>8 DEF SoFar
    <2>2. KeysApart(txs) /\ Creates(ix) \cap made = {} /\ IsFiniteSet(DOMAIN V)
      BY <1>3, <1>6, <1>8 DEF Sums
    <2>3. StoreOk(V, txs) /\ ix \in Instructions(us)
      BY <1>4, <1>6
    <2>4. CreatesMore(ix, tx, made, more)
      BY <1>3, <2>2 DEF CreatesMore
    <2>5. KeysApart(txs) /\ IsFiniteSet(DOMAIN V)
      BY <2>2
    <2> QED
      BY <2>1, <2>3, <2>4, <2>5, StepSupply
  <1> QED
    BY <1>2, <1>5, <1>7, <1>8 DEF SoFar

\* A transaction that succeeds, from what it found to what it leaves.
LEMMA RunSoFar ==
    ASSUME NEW txs, Tidy(txs), NEW tx \in txs, Lossless(tx), NEW L, AreAccounts(L),
           NEW F, F = Loaded(tx, L), NEW V0, V0 = View(tx, L, F), StoreOk(V0, txs),
           NEW done, done = execute_instructions(tx, F), done.result = "Ok",
           NEW W, W = View(tx, L, done.loaded)
    PROVE  SoFar(V0, W, tx, Len(tx.instructions), txs)
  <1>1. PICK n : n = Len(tx.instructions)
    BY Zenon
  <1>2. WellFormedTx(tx) /\ ListsOnce(tx) /\ n \in Nat /\ HasInstructions(tx)
    BY <1>1 DEF Lossless, WellFormedTx, HasInstructions
  <1>3. PICK st : ExecStepByStep(st, tx, F)
    BY <1>2, ExecSteps
  <1>4. /\ st[0] = Succeed(F) /\ done = st[n]
        /\ \A k \in 1..n : st[k] = ExecStep(tx, st[k - 1], tx.instructions[k])
    BY <1>1, <1>3 DEF ExecStepByStep
  <1>5. AreAccounts(F) /\ DOMAIN F = DOMAIN tx.account_keys
    BY <1>2, LoadedAccounts
  <1>6. Finds(V0, L)
    BY <1>2, FirstView
  <1>7. IsFiniteSet(DOMAIN V0)
    BY <1>6 DEF Finds
  <1> DEFINE At(k) == View(tx, L, st[k].loaded)
             P(k) == st[k].result = "Ok" =>
                        /\ AreAccounts(st[k].loaded) /\ DOMAIN st[k].loaded = DOMAIN tx.account_keys
                        /\ SoFar(V0, At(k), tx, k, txs)
             Z == {k \in 1..n : P(k)}
  <1>8. P(0)
    <2>1. st[0].loaded = F
      BY <1>4 DEF Succeed
    <2>2. PICK made, us : made = MadeBy(tx, 0) /\ us = {tx}
      BY Zenon
    <2>3. Later(V0, V0, made, us)
      <3>1. ASSUME NEW key \in DOMAIN V0 PROVE LaterAt(key, V0[key].data, V0[key].data, us)
        <4>1. PICK d : d = V0[key].data
          OBVIOUS
        <4>2. DataOk(key, d, txs)
          BY <4>1 DEF StoreOk, AccountOk
        <4>3. LaterData(d, d)
          BY <4>2, LaterSame
        <4> QED
          BY <4>1, <4>3, LaterAnywhere
      <3> QED
        BY <3>1 DEF Later
    <2>4. SoFar(V0, V0, tx, 0, txs)
      <3>1. Progress(V0, V0, made, txs, us)
        BY <2>3 DEF Progress
      <3>2. made = {}
        BY <1>2, <2>2, MadeAll
      <3> QED
        BY <2>2, <3>1, <3>2, Zenon DEF SoFar, Sums, NoNewData
    <2> QED
      BY <1>5, <2>1, <2>4
  <1>9. ASSUME NEW k \in 1..n, P(k - 1) PROVE P(k)
    <2> SUFFICES ASSUME st[k].result = "Ok"
                 PROVE  /\ AreAccounts(st[k].loaded) /\ DOMAIN st[k].loaded = DOMAIN tx.account_keys
                        /\ SoFar(V0, At(k), tx, k, txs)
      OBVIOUS
    <2>1. PICK state, next, ix, S, G, V, X : /\ state = st[k - 1] /\ next = st[k] /\ ix = tx.instructions[k]
                                             /\ S = state.loaded /\ G = next.loaded
                                             /\ V = View(tx, L, S) /\ X = View(tx, L, G)
      OBVIOUS
    <2>2. k \in 1..Len(tx.instructions) /\ next = ExecStep(tx, state, ix) /\ next.result = "Ok"
      BY <1>1, <1>4, <2>1
    <2>3. state.result = "Ok"
      BY <2>2 DEF ExecStep
    <2>4. AreAccounts(S) /\ DOMAIN S = DOMAIN tx.account_keys /\ SoFar(V0, V, tx, k - 1, txs)
      BY <1>9, <2>1, <2>3
    <2> HIDE DEF At, P, Z
    <2>5. /\ Conserves(S, G) /\ TidyIx(ix, txs) /\ ix \in Instructions({tx})
          /\ InstructionAt(ix, V, X)
      BY <2>1, <2>2, <2>4, StepIsInstruction
    <2>6. SoFar(V0, X, tx, k, txs)
      BY <1>7, <2>1, <2>2, <2>4, <2>5, SoFarStep
    <2>7. AreAccounts(G) /\ DOMAIN G = DOMAIN tx.account_keys
      BY <2>4, <2>5 DEF Conserves
    <2> QED
      BY <2>1, <2>6, <2>7 DEF At
  <1> HIDE DEF P
  <1>10. ASSUME NEW k \in 1..n, \A m \in 1..n : m < k => m \in Z
         PROVE  k \in Z
    <2>1. P(k - 1)
      <3>1. CASE k = 1
        BY <1>8, <3>1
      <3>2. CASE k # 1
        <4>1. k - 1 \in 1..n /\ k - 1 < k
          BY <1>2, <3>2
        <4> QED
          BY <1>10, <4>1
      <3> QED
        BY <3>1, <3>2
    <2> QED
      BY <1>9, <2>1
  <1>11. Z = 1..n
    <2>1. Z \in SUBSET (1..n)
      OBVIOUS
    <2> HIDE DEF Z
    <2> QED
      BY <1>2, <1>10, <2>1, StrongInduction
  <1>12. P(n)
    <2>1. CASE n = 0
      BY <1>8, <2>1
    <2>2. CASE n # 0
      <3>1. n \in Z
        BY <1>2, <1>11, <2>2
      <3> QED
        BY <3>1
    <2> QED
      BY <2>1, <2>2
  <1> QED
    BY <1>1, <1>4, <1>12 DEF P

-----------------------------------------------------------------------------
\* What a transaction leaves of the store.
Leaves(L, M, tx, txs) ==
    /\ StoreOk(M, txs) /\ DOMAIN L \subseteq DOMAIN M
    /\ \A key \in DOMAIN L \ Created(tx) : LaterAt(key, L[key].data, M[key].data, {tx})

\* The accounts it creates it finds empty.
FindsNone(tx, L) == \A key \in Created(tx) : Load(L, key).data = Empty

\* What a transaction does to the store.
LEMMA RunLeaves ==
    ASSUME NEW txs, Tidy(txs), NEW tx \in txs, Lossless(tx), NEW L, AreAccounts(L),
           StoreOk(L, txs), RunAlone(tx, L).result = "Ok",
           NEW M, M = RunAlone(tx, L).store
    PROVE  /\ Leaves(L, M, tx, txs)
           /\ NoDeploy(tx) => \A key \in DOMAIN M : Holds(M[key], "ProgramData") => Holds(Load(L, key), "ProgramData")
           /\ KeysApart(txs) /\ CreatesApart(tx) /\ SupplyOk(L) /\ FindsNone(tx, L) => SupplyOk(M)
  <1>1. PICK F : F = Loaded(tx, L)
    OBVIOUS
  <1>2. PICK done, G : done = execute_instructions(tx, F) /\ G = done.loaded
    OBVIOUS
  <1>3. PICK e, V0, us : e = overlay_of(tx, G) /\ V0 = View(tx, L, F) /\ us = {tx}
    BY Zenon
  <1>4. done.result = "Ok" /\ M = Over(L, e)
    BY <1>1, <1>2, <1>3, RunAloneIs
  <1>5. M = View(tx, L, G)
    BY <1>3, <1>4 DEF View
  <1>6. Finds(V0, L)
    BY <1>1, <1>3, FirstView DEF Lossless
  <1>7. StoreOk(V0, txs)
    BY <1>6, FindsStore
  <1>8. PICK n, made : n = Len(tx.instructions) /\ made = MadeBy(tx, n)
    BY Zenon
  <1>9. SoFar(V0, M, tx, n, txs)
    BY <1>1, <1>2, <1>3, <1>4, <1>5, <1>7, <1>8, RunSoFar
  <1>10. /\ Progress(V0, M, made, txs, us) /\ (NoDeploy(tx) => NoNewData(V0, M))
         /\ Sums(V0, tx, txs) => SupplyOk(M)
    BY <1>3, <1>8, <1>9 DEF SoFar
  <1>11. made \subseteq Created(tx)
    BY <1>8, MadeAll DEF Lossless, WellFormedTx
  <1>12. DOMAIN M = DOMAIN V0 /\ StoreOk(M, txs) /\ Later(V0, M, made, us)
    BY <1>10 DEF Progress
  <1>13. ASSUME NEW key \in DOMAIN L \ Created(tx) PROVE LaterAt(key, L[key].data, M[key].data, us)
    <2>1. key \in DOMAIN V0 /\ V0[key] = L[key]
      BY <1>6 DEF Finds, Load
    <2> QED
      BY <1>11, <1>12, <2>1 DEF Later
  <1>14. NoDeploy(tx) => \A key \in DOMAIN M : Holds(M[key], "ProgramData") => Holds(Load(L, key), "ProgramData")
    BY <1>6, <1>10, <1>12 DEF NoNewData, Finds
  <1>15. ASSUME KeysApart(txs), CreatesApart(tx), SupplyOk(L), FindsNone(tx, L) PROVE SupplyOk(M)
    <2>1. SupplyOk(V0)
      <3>1. IsFiniteSet(DOMAIN L)
        BY DEF AreAccounts
      <3> QED
        BY <1>6, <1>15, <3>1, FindsSupply
    <2>2. Awaits(V0, tx, {})
      BY <1>6, <1>15 DEF Awaits, Finds, FindsNone
    <2> QED
      BY <1>10, <1>15, <2>1, <2>2 DEF Sums
  <1>16. Leaves(L, M, tx, txs)
    BY <1>3, <1>6, <1>12, <1>13 DEF Leaves, Finds
  <1> QED
    BY <1>14, <1>15, <1>16

\* A transaction that is one deployment.
LEMMA RunDeploys ==
    ASSUME NEW txs, Tidy(txs), NEW tx \in txs, Lossless(tx), NEW L, AreAccounts(L),
           StoreOk(L, txs), RunAlone(tx, L).result = "Ok",
           Len(tx.instructions) = 1, IsDeploy(tx.instructions[1]),
           NEW M, M = RunAlone(tx, L).store,
           NEW key \in DOMAIN M, Holds(M[key], "ProgramData"), ~Holds(Load(L, key), "ProgramData")
    PROVE  Whole(L, M, key)
  <1>1. PICK F, V0, ix : F = Loaded(tx, L) /\ V0 = View(tx, L, F) /\ ix = tx.instructions[1]
    OBVIOUS
  <1>2. PICK done, G : done = execute_instructions(tx, F) /\ G = done.loaded
    OBVIOUS
  <1>3. PICK e : e = overlay_of(tx, G)
    OBVIOUS
  <1>4. done.result = "Ok" /\ M = Over(L, e)
    BY <1>1, <1>2, <1>3, RunAloneIs
  <1>5. M = View(tx, L, G)
    BY <1>3, <1>4 DEF View
  <1>6. WellFormedTx(tx) /\ ListsOnce(tx) /\ HasInstructions(tx)
    BY DEF Lossless, WellFormedTx
  <1>7. Finds(V0, L)
    BY <1>1, <1>6, FirstView
  <1>8. StoreOk(V0, txs)
    BY <1>7, FindsStore
  <1>9. PICK st : ExecStepByStep(st, tx, F)
    BY <1>6, ExecSteps
  <1>10. PICK state : state = st[0]
    OBVIOUS
  <1>11. state.loaded = F /\ done = ExecStep(tx, state, ix)
    BY <1>1, <1>2, <1>9, <1>10 DEF ExecStepByStep, Succeed
  <1>12. AreAccounts(F) /\ DOMAIN F = DOMAIN tx.account_keys
    BY <1>1, <1>6, LoadedAccounts
  <1>13. TidyIx(ix, txs) /\ ix \in Instructions({tx}) /\ InstructionAt(ix, V0, M)
    <2>1. PICK k : k = 1
      OBVIOUS
    <2>2. k \in 1..Len(tx.instructions) /\ ix = tx.instructions[k]
      BY <1>1, <2>1
    <2>3. PICK next : next = ExecStep(tx, state, ix)
      OBVIOUS
    <2>4. next.result = "Ok" /\ G = next.loaded /\ F = state.loaded
      BY <1>2, <1>4, <1>11, <2>3
    <2>5. V0 = View(tx, L, F) /\ M = View(tx, L, G)
      BY <1>1, <1>5
    <2> QED
      BY <1>12, <2>2, <2>3, <2>4, <2>5, StepIsInstruction, SMTT(60)
  <1>14. key \in DOMAIN V0
    <2>1. PICK us : us = {tx}
      BY Zenon
    <2>2. Onward(V0, M, Creates(ix), txs, us)
      BY <1>8, <1>13, <2>1, InstructionOnward
    <2> QED
      BY <2>2 DEF Onward
  <1>15. ~Holds(V0[key], "ProgramData") /\ IsDeploy(ix)
    BY <1>1, <1>7, <1>14 DEF Finds
  <1>16. Whole(V0, M, key)
    BY <1>8, <1>13, <1>15, InstructionIsWhole
  <1>17. PICK buffer \in DOMAIN V0 :
            /\ V0[buffer].data.len >= Loader!size_of_buffer_metadata
            /\ IsPrefix(Loader!BodyFrom(Loader!size_of_buffer_metadata, V0[buffer].data), M[key].data.body)
            /\ M[buffer].data = Empty
    BY <1>16, Zenon DEF Whole
  <1>18. buffer \in DOMAIN L /\ V0[buffer] = L[buffer]
    <2>1. ASSUME buffer \notin DOMAIN L PROVE FALSE
      <3>1. V0[buffer].data = Empty
        BY <1>7, <2>1 DEF Finds, Load, DefaultAccount
      <3> QED
        BY <1>17, <3>1, EmptyIs, MetadataIs
    <2> QED
      BY <1>7, <2>1 DEF Finds, Load
  <1>19. \E b \in DOMAIN L :
            /\ L[b].data.len >= Loader!size_of_buffer_metadata
            /\ IsPrefix(Loader!BodyFrom(Loader!size_of_buffer_metadata, L[b].data), M[key].data.body)
            /\ M[b].data = Empty
    BY <1>17, <1>18, Zenon
  <1> QED
    BY <1>16, <1>19, Zenon DEF Whole

-----------------------------------------------------------------------------
\* The inductive invariant of tidy clients: every account holds what its part in the
\* workload allows; and with clients that keep their accounts apart, as long as none is
\* created again, every supply is the sum of its token accounts.
Settled == Conserved /\ StoreOk(ledger, Workload[clients])
Supplied == recreated \in BOOLEAN /\ (~recreated => SupplyOk(ledger))

\* Nothing is in the accounts at first.
LEMMA SettledAtFirst ==
    ASSUME LosslessClients, TidyClients, Init
    PROVE  Settled /\ Supplied
  <1>1. Conserved
    BY DEF Init, Conserved, LosslessClients
  <1>2. \A key \in DOMAIN ledger : ledger[key].data = Empty /\ ledger[key].executable \in BOOLEAN
    BY DEF Init, TidyClients
  <1>3. StoreOk(ledger, Workload[clients])
    BY <1>2, EmptyIs DEF StoreOk, AccountOk, DataOk
  <1>4. \A key \in DOMAIN ledger : Plain(ledger[key].data)
    BY <1>2, EmptyIs DEF Plain, IsInitialized
  <1>5. SupplyOk(ledger)
    BY <1>4 DEF SupplyOk, MintsNamed, SuppliesAre, IsMintAt, Plain
  <1> QED
    BY <1>1, <1>3, <1>5 DEF Settled, Supplied, Init

\* One transaction.
LEMMA SettledRun ==
    ASSUME LosslessClients, TidyClients, Settled, NEW tx \in Workload[clients], Run(tx)
    PROVE  /\ Leaves(ledger, ledger', tx, Workload[clients]) /\ clients' = clients
           /\ Tidy(Workload[clients]) /\ Lossless(tx) /\ AreAccounts(ledger)
           /\ RunAlone(tx, ledger).result = "Ok" /\ ledger' = RunAlone(tx, ledger).store
           /\ NoDeploy(tx) => \A key \in DOMAIN ledger' :
                                 Holds(ledger'[key], "ProgramData") => Holds(Load(ledger, key), "ProgramData")
           /\ ClientsApart /\ ~recreated' /\ SupplyOk(ledger) => SupplyOk(ledger')
  <1>1. PICK L, M, txs : L = ledger /\ M = ledger' /\ txs = Workload[clients]
    BY Zenon
  <1>2. clients \in DOMAIN Workload /\ AreAccounts(L) /\ StoreOk(L, txs)
    BY <1>1 DEF Settled, Conserved, IsGenesis
  <1>3. Tidy(txs) /\ Lossless(tx) /\ tx \in txs
    BY <1>1, <1>2 DEF TidyClients, LosslessClients
  <1>4. RunAlone(tx, L).result = "Ok" /\ M = RunAlone(tx, L).store /\ clients' = clients
    BY <1>1, Zenon DEF Run
  <1>5. ~recreated' => FindsNone(tx, L)
    BY <1>1, Zenon DEF Run, FindsNone
  <1>6. ClientsApart => KeysApart(txs) /\ CreatesApart(tx)
    BY <1>1, <1>2, Zenon DEF ClientsApart
  <1>7. /\ Leaves(L, M, tx, txs)
        /\ NoDeploy(tx) => \A key \in DOMAIN M : Holds(M[key], "ProgramData") => Holds(Load(L, key), "ProgramData")
        /\ KeysApart(txs) /\ CreatesApart(tx) /\ SupplyOk(L) /\ FindsNone(tx, L) => SupplyOk(M)
    BY <1>2, <1>3, <1>4, RunLeaves
  <1> QED
    BY <1>1, <1>2, <1>3, <1>4, <1>5, <1>6, <1>7, Zenon

\* One transaction, or none.
LEMMA SettledStep ==
    ASSUME LosslessClients, TidyClients, Settled, [Next]_vars
    PROVE  Settled' /\ (ClientsApart /\ Supplied => Supplied')
  <1>1. Conserved'
    BY ConservedStep DEF Settled
  <1>2. CASE Next
    <2>1. PICK tx \in Workload[clients] : Run(tx)
      BY <1>2 DEF Next
    <2>2. /\ Leaves(ledger, ledger', tx, Workload[clients]) /\ clients' = clients
          /\ ClientsApart /\ ~recreated' /\ SupplyOk(ledger) => SupplyOk(ledger')
      BY <2>1, SettledRun
    <2>3. StoreOk(ledger, Workload[clients])'
      BY <2>2 DEF Leaves, StoreOk
    <2>4. recreated' \in BOOLEAN /\ (recreated => recreated')
      BY <2>1, Zenon DEF Run
    <2>5. SupplyOk(ledger') => SupplyOk(ledger)'
      BY DEF SupplyOk, MintsNamed, SuppliesAre, Tokens, IsAccountOf, IsMintAt
    <2> QED
      BY <1>1, <2>2, <2>3, <2>4, <2>5 DEF Settled, Supplied
  <1>3. CASE UNCHANGED vars
    <2>1. SupplyOk(ledger) => SupplyOk(ledger)'
      BY <1>3 DEF vars, SupplyOk, MintsNamed, SuppliesAre, Tokens, IsAccountOf, IsMintAt
    <2> QED
      BY <1>1, <1>3, <2>1 DEF vars, Settled, Supplied, StoreOk
  <1> QED
    BY <1>2, <1>3

\* Settled always.
LEMMA SettledAlways ==
    ASSUME LosslessClients, TidyClients
    PROVE  Spec => []Settled
  <1>1. Init => Settled
    BY SettledAtFirst
  <1>2. Settled /\ [Next]_vars => Settled'
    BY SettledStep
  <1> QED
    BY <1>1, <1>2, PTL DEF Spec

-----------------------------------------------------------------------------
\* What an account that is as its part allows holds.
LEMMA TypedAccount ==
    ASSUME NEW txs, NEW key, NEW a, AccountOk(key, a, txs), a.lamports \in 0..U64_MAX, NEW d, d = a.data
    PROVE  /\ a.lamports \in 0..U64_MAX
           /\ a.executable \in BOOLEAN
           /\ d.kind = "Mint" => d.supply \in 0..U64_MAX
           /\ d.kind = "TokenAccount" => d.amount \in 0..U64_MAX /\ a.owner = TOKEN_PROGRAM_ID
           /\ d.kind = "Loader" => /\ d.len >= Loader!serialized_size(d.state)
                                   /\ Len(d.body) = saturating_sub(d.len, Loader!MetadataLen(d.state))
  <1>1. DataOk(key, d, txs)
    BY DEF AccountOk
  <1>2. d.kind = "Mint" => d.supply \in 0..U64_MAX
    BY <1>1, KindsOf DEF IsMintData
  <1>3. d.kind = "TokenAccount" => d.amount \in 0..U64_MAX /\ key \in TokenKeys(txs)
    BY <1>1, KindsOf DEF IsTokenData
  <1>4. d.kind = "TokenAccount" => a.owner = TOKEN_PROGRAM_ID
    BY <1>3, EmptyIs DEF AccountOk
  <1>5. d.kind = "Loader" => /\ d.len >= Loader!serialized_size(d.state)
                             /\ Len(d.body) = saturating_sub(d.len, Loader!MetadataLen(d.state))
    BY <1>1, KindsOf DEF IsLoaderData
  <1> QED
    BY <1>2, <1>3, <1>4, <1>5 DEF AccountOk

\* Every account of the store.
LEMMA SettledTypes ==
    ASSUME Settled
    PROVE  TypeOK
  <1>1. PICK txs : txs = Workload[clients]
    OBVIOUS
  <1>2. \A key \in DOMAIN ledger : AccountOk(key, ledger[key], txs) /\ ledger[key].lamports \in 0..U64_MAX
    BY <1>1 DEF Settled, Conserved, IsGenesis, AreAccounts, IsAccount, StoreOk
  <1>3. ASSUME NEW key \in DOMAIN ledger, NEW a, a = ledger[key], NEW d, d = a.data
        PROVE  /\ a.lamports \in 0..U64_MAX
               /\ a.executable \in BOOLEAN
               /\ d.kind = "Mint" => d.supply \in 0..U64_MAX
               /\ d.kind = "TokenAccount" => d.amount \in 0..U64_MAX /\ a.owner = TOKEN_PROGRAM_ID
               /\ d.kind = "Loader" => /\ d.len >= Loader!serialized_size(d.state)
                                       /\ Len(d.body) = saturating_sub(d.len, Loader!MetadataLen(d.state))
    <2>1. AccountOk(key, a, txs) /\ a.lamports \in 0..U64_MAX
      BY <1>2, <1>3
    <2> QED
      BY <1>3, <2>1, TypedAccount
  <1> QED
    BY <1>3, Zenon DEF TypeOK

\* The sum that the property takes, over the mint's accounts only.
LEMMA SupplyOfMint ==
    ASSUME Settled, SupplyOk(ledger), NEW mint \in Mints, NEW A, A = TokenAccountsOf(mint),
           ledger[mint].data.supply < U64_MAX,
           NEW c, c = [key \in A |-> ledger[key].data.amount]
    PROVE  SumFunctionOnSet(c, A) = ledger[mint].data.supply
  <1>1. PICK L, txs, f, S : L = ledger /\ txs = Workload[clients] /\ f = Tokens(L, mint) /\ S = DOMAIN L
    BY Zenon
  <1>2. StoreOk(L, txs) /\ SuppliesAre(L) /\ IsFiniteSet(S)
    BY <1>1 DEF Settled, SupplyOk, Conserved, IsGenesis, AreAccounts
  <1>3. mint \in DOMAIN L /\ IsMintAt(L, mint)
    BY <1>1 DEF Mints, IsMintAt
  <1>4. SumFunctionOnSet(f, S) = L[mint].data.supply
    BY <1>1, <1>2, <1>3 DEF SuppliesAre
  <1>5. \A key \in S : f[key] = Amount(L[key].data, mint) /\ f[key] \in Nat
    BY <1>1, <1>2, TokensAt
  <1>6. A \subseteq S /\ \A key \in A : f[key] = c[key]
    BY <1>1, <1>5 DEF TokenAccountsOf, Amount
  <1>7. \A key \in S \ A : f[key] = 0
    BY <1>1, <1>5 DEF TokenAccountsOf, Amount
  <1>8. SumFunctionOnSet(f, S) = SumFunctionOnSet(f, A) + SumFunctionOnSet(f, S \ A)
    <2>1. A \in SUBSET S /\ \A key \in S : f[key] \in Nat
      BY <1>5, <1>6
    <2> QED
      BY <1>2, <2>1, SumUnion
  <1>9. SumFunctionOnSet(f, S \ A) = 0
    <2>1. PICK B : B = S \ A
      BY Zenon
    <2>2. IsFiniteSet(B) /\ \A key \in B : f[key] = 0
      <3>1. B \subseteq S
        BY <2>1
      <3> QED
        BY <1>2, <1>7, <2>1, <3>1, FS_Subset
    <2> QED
      BY <2>1, <2>2, SumZero
  <1>10. IsFiniteSet(A) /\ \A key \in A : c[key] = f[key]
    BY <1>2, <1>6, FS_Subset
  <1>11. SumFunctionOnSet(c, A) = SumFunctionOnSet(f, A)
    BY <1>10, SumSame
  <1>12. SumFunctionOnSet(f, A) \in Nat
    <2>1. \A key \in A : f[key] \in Nat
      BY <1>5, <1>6
    <2> QED
      BY <1>10, <2>1, SumSplits
  <1> QED
    BY <1>1, <1>4, <1>8, <1>9, <1>11, <1>12

\* Every mint.
LEMMA SettledSupplies ==
    ASSUME Settled, Supplied
    PROVE  SupplyIsSum
  <1>1. ASSUME ~recreated, NEW mint \in Mints, ledger[mint].data.supply < U64_MAX
        PROVE  SumFunction([key \in TokenAccountsOf(mint) |-> ledger[key].data.amount])
                   = ledger[mint].data.supply
    <2>1. PICK A : A = TokenAccountsOf(mint)
      BY Zenon
    <2>2. PICK c : c = [key \in A |-> ledger[key].data.amount]
      BY Zenon
    <2>3. SumFunctionOnSet(c, A) = ledger[mint].data.supply
      <3>1. SupplyOk(ledger)
        BY <1>1 DEF Supplied
      <3> QED
        BY <1>1, <2>1, <2>2, <3>1, SupplyOfMint
    <2>4. DOMAIN c = A
      BY <2>2
    <2> QED
      BY <2>1, <2>2, <2>3, <2>4, Zenon DEF SumFunction
  <1> QED
    BY <1>1, Zenon DEF SupplyIsSum

-----------------------------------------------------------------------------
\* Balances, lengths, owners and amounts have their types, whatever was run.
THEOREM TypeTheorem ==
    ASSUME LosslessClients, TidyClients
    PROVE  Spec => []TypeOK
  <1>1. Spec => []Settled
    BY SettledAlways
  <1>2. Settled => TypeOK
    BY SettledTypes
  <1> QED
    BY <1>1, <1>2, PTL

\* As long as no account is created a second time, the tokens of a mint are what its
\* supply says, over any order of mints and transfers, and however often one is sent.
THEOREM SupplyTheorem ==
    ASSUME LosslessClients, TidyClients, ClientsApart
    PROVE  Spec => []SupplyIsSum
  <1>1. Init => Settled /\ Supplied
    BY SettledAtFirst
  <1>2. Settled /\ Supplied /\ [Next]_vars => Settled' /\ Supplied'
    BY SettledStep
  <1>3. Settled /\ Supplied => SupplyIsSum
    BY SettledSupplies
  <1> QED
    BY <1>1, <1>2, <1>3, PTL DEF Spec

\* What a step does to data that was there, unless it creates the account.
LEMMA StepIsLater ==
    ASSUME LosslessClients, TidyClients, Settled, Next
    PROVE  \E tx \in Workload[clients] :
               /\ Run(tx)
               /\ \A key \in DOMAIN ledger \ Created(tx) :
                     LaterAt(key, ledger[key].data, ledger'[key].data, {tx})
  <1>1. PICK tx \in Workload[clients] : Run(tx)
    BY DEF Next
  <1>2. Leaves(ledger, ledger', tx, Workload[clients])
    BY <1>1, SettledRun
  <1> QED
    BY <1>1, <1>2, Zenon DEF Leaves

\* A mint keeps its authority and its supply never shrinks, a token account keeps its
\* mint and its owner, unless a transaction creates the account again or gives it to an
\* instruction of the loader.
THEOREM InitializedOnceTheorem ==
    ASSUME LosslessClients, TidyClients
    PROVE  Spec => InitializedOnce
  <1>1. Spec => []Settled
    BY SettledAlways
  <1>2. ASSUME Settled, Next, NEW key \in DOMAIN ledger
        PROVE  \/ StaysInitialized(ledger[key].data, ledger'[key].data)
               \/ \E tx \in Workload[clients] :
                     key \in Created(tx) \cup LoaderKeys({tx}) /\ Run(tx)
    <2>1. PICK tx \in Workload[clients] :
               /\ Run(tx)
               /\ \A k \in DOMAIN ledger \ Created(tx) :
                     LaterAt(k, ledger[k].data, ledger'[k].data, {tx})
      BY <1>2, StepIsLater
    <2>2. CASE key \in Created(tx) \cup LoaderKeys({tx})
      BY <2>1, <2>2
    <2>3. CASE key \notin Created(tx) \cup LoaderKeys({tx})
      BY <1>2, <2>1, <2>3 DEF LaterAt
    <2> QED
      BY <2>2, <2>3
  <1>3. Settled /\ Next =>
            \A key \in DOMAIN ledger :
               \/ StaysInitialized(ledger[key].data, ledger'[key].data)
               \/ \E tx \in Workload[clients] :
                     key \in Created(tx) \cup LoaderKeys({tx}) /\ Run(tx)
    BY <1>2, Zenon
  <1> QED
    BY <1>1, <1>3, PTL DEF Spec, InitializedOnce

\* A buffer or a program's data without an authority stays as it is until it is closed,
\* unless a transaction creates the account again or deploys a program in its place.
THEOREM ImmutableTheorem ==
    ASSUME LosslessClients, TidyClients
    PROVE  Spec => ImmutableForever
  <1>1. Spec => []Settled
    BY SettledAlways
  <1>2. ASSUME Settled, Next, NEW key \in DOMAIN ledger
        PROVE  \/ /\ Holds(ledger[key], "Buffer") \/ Holds(ledger[key], "ProgramData")
                  /\ ledger[key].data.state.authority_address = Loader!NoKey
                  => ledger'[key].data \in {ledger[key].data, Empty}
               \/ \E tx \in Workload[clients] :
                     key \in Created(tx) \cup ProgramKeys({tx}) /\ Run(tx)
    <2>1. PICK tx \in Workload[clients] :
               /\ Run(tx)
               /\ \A k \in DOMAIN ledger \ Created(tx) :
                     LaterAt(k, ledger[k].data, ledger'[k].data, {tx})
      BY <1>2, StepIsLater
    <2>2. CASE key \in Created(tx) \cup ProgramKeys({tx})
      BY <2>1, <2>2
    <2>3. CASE key \notin Created(tx) \cup ProgramKeys({tx})
      <3>1. Frozen(ledger[key].data) => ledger'[key].data \in {ledger[key].data, Empty}
        BY <1>2, <2>1, <2>3 DEF LaterAt
      <3> QED
        BY <3>1 DEF Holds, Frozen
    <2> QED
      BY <2>2, <2>3
  <1>3. Settled /\ Next =>
            \A key \in DOMAIN ledger :
               \/ /\ Holds(ledger[key], "Buffer") \/ Holds(ledger[key], "ProgramData")
                  /\ ledger[key].data.state.authority_address = Loader!NoKey
                  => ledger'[key].data \in {ledger[key].data, Empty}
               \/ \E tx \in Workload[clients] :
                     key \in Created(tx) \cup ProgramKeys({tx}) /\ Run(tx)
    BY <1>2, Zenon
  <1> QED
    BY <1>1, <1>3, PTL DEF Spec, ImmutableForever

\* A transaction that brings program data, when a deployment is a transaction of its own.
LEMMA StepIsWhole ==
    ASSUME LosslessClients, TidyClients, DeployingClients, Settled, Next,
           NEW key \in DOMAIN ledger',
           Holds(ledger'[key], "ProgramData"), ~Holds(Load(ledger, key), "ProgramData")
    PROVE  Whole(ledger, ledger', key)
  <1>1. PICK tx \in Workload[clients] : Run(tx)
    BY DEF Next
  <1>2. PICK L, M, txs : L = ledger /\ M = ledger' /\ txs = Workload[clients]
    BY Zenon
  <1>3. /\ Tidy(txs) /\ Lossless(tx) /\ AreAccounts(L)
        /\ RunAlone(tx, L).result = "Ok" /\ M = RunAlone(tx, L).store
        /\ NoDeploy(tx) => \A k \in DOMAIN M : Holds(M[k], "ProgramData") => Holds(Load(L, k), "ProgramData")
    BY <1>1, <1>2, SettledRun
  <1>4. ~NoDeploy(tx)
    BY <1>2, <1>3
  <1>5. Len(tx.instructions) = 1 /\ IsDeploy(tx.instructions[1])
    <2>1. PICK k \in 1..Len(tx.instructions) : IsDeploy(tx.instructions[k])
      BY <1>4 DEF NoDeploy
    <2>2. DeploysAlone(tx)
      BY DEF DeployingClients, Settled, Conserved
    <2>3. k \in DOMAIN tx.instructions
      BY <1>3, <2>1 DEF Lossless, WellFormedTx, HasInstructions
    <2>4. Len(tx.instructions) = 1
      BY <2>1, <2>2, <2>3 DEF DeploysAlone, IsDeploy
    <2>5. k = 1
      BY <2>1, <2>4
    <2> QED
      BY <2>1, <2>4, <2>5
  <1>6. StoreOk(L, txs)
    BY <1>2 DEF Settled
  <1>7. key \in DOMAIN M /\ Holds(M[key], "ProgramData") /\ ~Holds(Load(L, key), "ProgramData")
    BY <1>2
  <1>8. Whole(L, M, key)
    BY <1>2, <1>3, <1>5, <1>6, <1>7, RunDeploys
  <1> QED
    BY <1>2, <1>8, Zenon

\* When program data appears, an executable program points to it, and it holds the code
\* of an account that the same transaction used up.
THEOREM DeployedTheorem ==
    ASSUME LosslessClients, TidyClients, DeployingClients
    PROVE  Spec => DeployedWhole
  <1>1. Spec => []Settled
    BY SettledAlways
  <1>2. ASSUME Settled, Next, NEW key \in DOMAIN ledger',
               Holds(ledger'[key], "ProgramData"), ~Holds(Load(ledger, key), "ProgramData")
        PROVE  /\ \E program \in DOMAIN ledger' :
                     /\ Holds(ledger'[program], "Program")
                     /\ ledger'[program].data.state.programdata_address = key
                     /\ ledger'[program].executable
                     /\ ledger'[program].owner = BPF_LOADER_UPGRADEABLE_PROGRAM_ID
               /\ \E buffer \in DOMAIN ledger :
                     /\ ledger[buffer].data.len >= Loader!size_of_buffer_metadata
                     /\ IsPrefix(Loader!BodyFrom(Loader!size_of_buffer_metadata,
                                                 ledger[buffer].data),
                                 ledger'[key].data.body)
                     /\ ledger'[buffer].data = Empty
    BY <1>2, StepIsWhole, Zenon DEF Whole
  <1>3. Settled /\ Next =>
            \A key \in DOMAIN ledger' :
              Holds(ledger'[key], "ProgramData") /\ ~Holds(Load(ledger, key), "ProgramData") =>
                  /\ \E program \in DOMAIN ledger' :
                        /\ Holds(ledger'[program], "Program")
                        /\ ledger'[program].data.state.programdata_address = key
                        /\ ledger'[program].executable
                        /\ ledger'[program].owner = BPF_LOADER_UPGRADEABLE_PROGRAM_ID
                  /\ \E buffer \in DOMAIN ledger :
                        /\ ledger[buffer].data.len >= Loader!size_of_buffer_metadata
                        /\ IsPrefix(Loader!BodyFrom(Loader!size_of_buffer_metadata,
                                                    ledger[buffer].data),
                                    ledger'[key].data.body)
                        /\ ledger'[buffer].data = Empty
    BY <1>2, Zenon
  <1> QED
    BY <1>1, <1>3, PTL DEF Spec, DeployedWhole
=============================================================================
