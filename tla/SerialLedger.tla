---------------------------- MODULE SerialLedger ----------------------------
(***************************************************************************)
(* What the node promises about the account state, whatever the batches,   *)
(* groups, threads and retries: the accounts change only by running one    *)
(* accepted transaction after the other, each submission at most once.     *)
(* The order is not promised to be the order of submission.                *)
(***************************************************************************)
EXTENDS Naturals, Sequences

CONSTANTS Tx,                         \* transactions a client may send
          blockhash_queue,            \* the hashes the bank accepts
          InitAccounts,               \* the store when the node starts
          verify_signatures_sync(_),  \* a transaction's signatures verify
          RunAlone(_, _)              \* its result and the store after it

VARIABLES sent,      \* submissions, in the order they were accepted
          pending,   \* those not yet run nor given up, as positions in `sent`
          ledger     \* the account store

vars == <<sent, pending, ledger>>

Init ==
    /\ sent = <<>>
    /\ pending = {}
    /\ ledger = InitAccounts

Submit(tx) ==
    /\ sent' = Append(sent, tx)
    /\ pending' = pending \cup {Len(sent) + 1}
    /\ UNCHANGED ledger

\* A transaction that is signed, recent and runs without error takes effect as a
\* whole, on the accounts as the transactions before it left them.
Apply(id) ==
    /\ id \in pending
    /\ pending' = pending \ {id}
    /\ UNCHANGED sent
    /\ verify_signatures_sync(sent[id])
    /\ sent[id].recent_blockhash \in blockhash_queue
    /\ RunAlone(sent[id], ledger).result = "Ok"
    /\ ledger' = RunAlone(sent[id], ledger).store

\* Submissions are given up without any effect.
Discard(ids) ==
    /\ ids \subseteq pending
    /\ ids # {}
    /\ pending' = pending \ ids
    /\ UNCHANGED <<sent, ledger>>

Next ==
    \/ \E tx \in Tx : Submit(tx)
    \/ \E id \in pending : Apply(id)
    \/ \E ids \in SUBSET pending : Discard(ids)

Spec == Init /\ [][Next]_vars
=============================================================================
