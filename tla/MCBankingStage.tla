--------------------------- MODULE MCBankingStage ---------------------------
(***************************************************************************)
(* Small transactions for the banking stage: transfers shaped like those   *)
(* of src/src/bin/client.rs (the system program is listed among the keys,  *)
(* no instruction names it) and one transaction per way to fail.           *)
(***************************************************************************)
EXTENDS BankingStage

CONSTANTS A, B, C, D, SYS, BPF,  \* keys; SYS is the system program, BPF another one
          h0, h1                 \* h0 is in the bank's blockhash queue, h1 is not

MCPubkey == {A, B, C, D, SYS}
MCAccounts == [key \in {A, C} |->
                  [DefaultAccount EXCEPT !.lamports = IF key = A THEN 3 ELSE 1]]

Meta(key, signer, writable) ==
    [pubkey |-> key, is_signer |-> signer, is_writable |-> writable]

TransferIx(from, to, amount, more) ==
    [program_id |-> SYS, data_len |-> 1,
     data |-> System!TransferData(amount),
     accounts |-> <<Meta(from, TRUE, TRUE), Meta(to, FALSE, TRUE)>> \o more]

\* create_transfer_transaction of the client.
ClientTransfer(from, to, amount) ==
    [signatures |-> <<from>>, account_keys |-> <<from, to, SYS>>, recent_blockhash |-> h0,
     instructions |-> <<TransferIx(from, to, amount, <<>>)>>]

\* Two transfers in one transaction: the second may fail after the first ran.
TwoTransfers(from, via, to, first, second) ==
    [signatures |-> <<from, via>>, account_keys |-> <<from, via, to>>, recent_blockhash |-> h0,
     instructions |-> <<TransferIx(from, via, first, <<>>), TransferIx(via, to, second, <<>>)>>]

\* A transfer whose instruction also names an account it only reads.
ReadingTransfer(from, to, amount, read) ==
    [signatures |-> <<from>>, account_keys |-> <<from, to, read>>, recent_blockhash |-> h0,
     instructions |-> <<TransferIx(from, to, amount, <<Meta(read, FALSE, FALSE)>>)>>]

\* An account given away by an instruction that also names an account it only reads.
ReadingAssign(key, owner, read) ==
    [signatures |-> <<key>>, account_keys |-> <<key, read>>, recent_blockhash |-> h0,
     instructions |-> <<[program_id |-> SYS, data_len |-> 1, data |-> System!AssignData(owner),
                         accounts |-> <<Meta(key, TRUE, TRUE), Meta(read, FALSE, FALSE)>>]>>]

\* A new account, given away and taken back.
CreateThenAssign(from, to, amount, space) ==
    LET metas == <<Meta(from, TRUE, TRUE), Meta(to, TRUE, TRUE)>>
        ix(data, named) == [program_id |-> SYS, data_len |-> 1, data |-> data,
                            accounts |-> named]
    IN  [signatures |-> <<from, to>>, account_keys |-> <<from, to>>, recent_blockhash |-> h0,
         instructions |-> <<ix(System!CreateAccountData(amount, space, BPF), metas),
                            ix(System!AssignData(SYS), Tail(metas))>>]

\* A call of a program that is not native and has no executable account.
BpfCall(key) ==
    [signatures |-> <<key>>, account_keys |-> <<key>>, recent_blockhash |-> h0,
     instructions |-> <<[program_id |-> BPF, data_len |-> 0, data |-> Data(0, <<>>, <<>>),
                         accounts |-> <<Meta(key, TRUE, TRUE)>>]>>]

MCWorkerSymmetry == Permutations(Worker)

\* AtoB and CtoD may run in parallel; AthenB conflicts with both, and succeeds only
\* once AtoB has run.
AtoB       == ClientTransfer(A, B, 2)
CtoD       == ClientTransfer(C, D, 1)
AthenB     == TwoTransfers(A, B, C, 1, 2)
CreateD    == CreateThenAssign(C, D, 1, 1)
Oversized  == CreateThenAssign(C, D, 1, ISIZE_MAX + 1)
ReadsA     == ReadingTransfer(C, D, 1, A)
BadSig     == [AtoB EXCEPT !.signatures = <<C>>]
BadHash    == [CtoD EXCEPT !.recent_blockhash = h1]
NoSig      == [BpfCall(D) EXCEPT !.signatures = <<>>]
TooManySig == [BpfCall(A) EXCEPT !.signatures = <<A, A>>]

MCTxOne == {AtoB, CtoD, AthenB, ReadsA, CreateD, BpfCall(B),
            BadSig, BadHash, NoSig, TooManySig, Oversized}

\* For two loops, with few accounts to load: a writer of A, one who reads it, and the
\* three ways to panic.
AtoBOnly == [AtoB EXCEPT !.account_keys = <<A, B>>]
MCTxTwo  == {AtoBOnly, ReadingAssign(C, BPF, A), NoSig, TooManySig, Oversized}

\* A transfer to the system program's own key, and one that only lists that key.
AtoSys      == [ClientTransfer(A, SYS, 2) EXCEPT !.account_keys = <<A, SYS>>]
MCTxUnnamed == {AtoSys, CtoD}

\* What the runs on MCTxOne and MCTxTwo take for granted of their transactions, and run
\* lost_update does not: nobody else writes the keys they load without naming them, and
\* they change only what they mark writable.
Disciplined(txs) ==
    /\ UnnamedKeysUnwritten(txs)
    /\ \A tx \in txs : \A balance \in [DOMAIN tx.account_keys -> 0..3] :
          ChangesOnlyWritable(tx, [n \in DOMAIN tx.account_keys |->
                                      [DefaultAccount EXCEPT !.lamports = balance[n]]])

ASSUME MCTxDisciplined == Disciplined(MCTxOne) /\ Disciplined(MCTxTwo)
ASSUME MCTxUndisciplined == ~UnnamedKeysUnwritten(MCTxUnnamed)

\* What the theorems on LamportsConserved, the cost tracker and the types ask of them.
ASSUME MCTxLossless ==
    /\ \A tx \in MCTxOne \cup MCTxTwo : Lossless(tx) /\ HasCost(tx)
    /\ IsGenesis(MCAccounts) /\ DOMAIN MCAccounts \subseteq Pubkey
=============================================================================
