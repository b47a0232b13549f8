------------------------------- MODULE MCBank -------------------------------
(* Banks with a short blockhash queue, so that hashes are evicted, over stores  *)
(* of two and of three accounts: an even and an odd level of the hash tree.     *)
EXTENDS Bank

MCStore(balances) == {[pubkey |-> i, lamports |-> balances[i]] : i \in DOMAIN balances}
MCStoreTwo   == MCStore(<<2, 1>>)
MCStoreThree == MCStore(<<2, 1, 0>>)
MCAccountState == {MCStoreTwo, MCStoreThree}

\* hash_accounts by itself: all stores of up to five accounts with a balance of 0 or
\* 1 have different roots.
MCStores == {store \in SUBSET [pubkey : 1..5, lamports : 0..1] :
                store # {} /\ \A a, b \in store : a.pubkey = b.pubkey => a = b}
ASSUME RootsDiffer ==
    Cardinality({hash_accounts(SetToSeq(store)) : store \in MCStores}) = Cardinality(MCStores)

MCWorkerSymmetry == Permutations(Worker)
=============================================================================
