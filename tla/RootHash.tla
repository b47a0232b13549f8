------------------------------ MODULE RootHash ------------------------------
(***************************************************************************)
(* The root hash of an account store (get_root_hash and hash_accounts of   *)
(* src/src/accounts.rs).                                                   *)
(*                                                                         *)
(* A store is a set of accounts with different keys, numbers here.  SHA256 *)
(* is taken as free of collisions: a digest is what it was made from.      *)
(***************************************************************************)
EXTENDS Naturals, Sequences, SequencesExt

\* all_accounts: the iterators of DashMap and RocksDB return each account once, in
\* an order that is not known.
all_accounts(store) == SetToSeqs(store)

LeafHash(account)     == [account |-> <<account.pubkey, account.lamports>>, pair |-> <<>>]
PairHash(left, right) == [account |-> <<>>, pair |-> <<left, right>>]

\* The order of digests as byte strings, which has nothing to do with the accounts:
\* any one order will do.
Before(a, b) ==
    \/ a.account[1] < b.account[1]
    \/ a.account[1] = b.account[1] /\ a.account[2] < b.account[2]

\* leaf_hashes.par_sort_unstable(), as a permutation of the places that puts the digests in order.
\* SortSeq is that too, but the prover cannot look into it.
Sorted(digests) ==
    LET places == DOMAIN digests
        order  == CHOOSE p \in [places -> places] :
                      /\ \A i, j \in places : p[i] = p[j] => i = j
                      /\ \A i, j \in places : i < j => ~Before(digests[p[j]], digests[p[i]])
    IN  [i \in places |-> digests[order[i]]]

\* One turn of the loop: digests are hashed in pairs, a last one without a partner
\* with itself.
NextLevel(level) ==
    [i \in 1..((Len(level) + 1) \div 2) |->
        PairHash(level[2 * i - 1],
                 level[IF 2 * i <= Len(level) THEN 2 * i ELSE 2 * i - 1])]

\* The levels of the tree, until one digest is left.
RootOf(leaf_hashes) ==
    LET level[n \in 0..Len(leaf_hashes)] ==
            IF n = 0 THEN leaf_hashes
            ELSE IF Len(level[n - 1]) > 1 THEN NextLevel(level[n - 1]) ELSE level[n - 1]
    IN  Head(level[Len(leaf_hashes)])

\* Mutant of hash_accounts: the leaves are hashed as they come.
hash_accounts_Unsorted(listed) == RootOf([i \in DOMAIN listed |-> LeafHash(listed[i])])

\* hash_accounts of at least one account; of none it is an error.
hash_accounts(listed) ==
    RootOf(Sorted([i \in DOMAIN listed |-> LeafHash(listed[i])]))
=============================================================================
