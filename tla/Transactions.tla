---------------------------- MODULE Transactions ----------------------------
(***************************************************************************)
(* A transaction and what the pipeline reads off it                        *)
(* (src/src/transactions.rs, extract_sets of src/src/scheduler.rs).        *)
(*                                                                         *)
(*   [signatures       |-> sequence of the keys that signed the message,   *)
(*    account_keys     |-> sequence of keys,                               *)
(*    recent_blockhash |-> a hash,                                         *)
(*    instructions     |-> sequence of                                     *)
(*        [program_id |-> key,                                             *)
(*         accounts   |-> sequence of [pubkey, is_signer, is_writable],    *)
(*         data       |-> its encoding (see Runtime),                      *)
(*         data_len   |-> the length of that in bytes]]                    *)
(*                                                                         *)
(* A signature stands for the key that made it over this message, so it    *)
(* verifies against exactly that key.                                      *)
(***************************************************************************)
EXTENDS Naturals, Sequences, SequencesExt

Metas(tx) == UNION {ToSet(ix.accounts) : ix \in ToSet(tx.instructions)}

\* extract_sets; try_lock_accounts_for_group and calculate_cost build the same sets.
extract_sets(tx) ==
    [read_set  |-> {m.pubkey : m \in {x \in Metas(tx) : ~x.is_writable}},
     write_set |-> {m.pubkey : m \in {x \in Metas(tx) : x.is_writable}}]

\* The slice account_keys[..signatures.len()] is out of range.
verify_panics(tx) == Len(tx.signatures) > Len(tx.account_keys)

\* Ok(()): every signature verifies against the key at its own position; no
\* signature at all is accepted.
verify_signatures_sync(tx) ==
    /\ ~verify_panics(tx)
    /\ \A i \in DOMAIN tx.signatures : tx.signatures[i] = tx.account_keys[i]

\* TransactionError::is_retryable.
is_retryable(error) == error \in {"AccountInUse", "WouldExceedMaxBlockCostLimit"}

\* What TransactionRecorder hashes: the first signature of each transaction.
\* Indexing signatures[0] panics when there is none.
has_first_signature(tx) == tx.signatures # <<>>

-----------------------------------------------------------------------------
\* Keys the transaction loads and stores back although no instruction names them,
\* so that neither the scheduler nor the lock table knows of them.
UnnamedKeys(tx) == ToSet(tx.account_keys) \ {m.pubkey : m \in Metas(tx)}

\* No transaction writes a key that another one, or itself, loads without naming it.
\* Nothing in the code sees to this; without it a commit writes back a stale account.
UnnamedKeysUnwritten(txs) ==
    \A t, u \in txs : UnnamedKeys(t) \cap extract_sets(u).write_set = {}

\* The instructions are a sequence.
HasInstructions(tx) ==
    Len(tx.instructions) \in Nat /\ DOMAIN tx.instructions = 1..Len(tx.instructions)
=============================================================================
