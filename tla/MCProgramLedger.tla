--------------------------- MODULE MCProgramLedger ---------------------------
(***************************************************************************)
(* Clients of the native programs.  Metas are the ones the instruction     *)
(* enums document.  The faucet F pays for every account; the mint M has    *)
(* authority A; O and P own the token accounts T1 and T2; the buffer BUF   *)
(* belongs to A at first.                                                  *)
(***************************************************************************)
EXTENDS ProgramLedger

CONSTANTS F, A, B, O, P, M, M2, T1, T2, T3, RENT, CLOCK, BUF, BUF2, PDATA, PROG,
          SYS, TOKEN, LOADER

MCInitAccounts == [key \in {F} |-> [DefaultAccount EXCEPT !.lamports = 3]]

Signer(key)   == [pubkey |-> key, is_signer |-> TRUE, is_writable |-> FALSE]
Writable(key) == [pubkey |-> key, is_signer |-> FALSE, is_writable |-> TRUE]
Both(key)     == [pubkey |-> key, is_signer |-> TRUE, is_writable |-> TRUE]
Reads(key)    == [pubkey |-> key, is_signer |-> FALSE, is_writable |-> FALSE]

Ix(program, data, metas) ==
    [program_id |-> program, data |-> data, data_len |-> 1, accounts |-> metas]

\* A transaction of these instructions, signed by the keys they want signed.
TxOf(instructions) ==
    LET metas   == UNION {ToSet(ix.accounts) : ix \in ToSet(instructions)}
        keys    == {m.pubkey : m \in metas}
        signers == {m.pubkey : m \in {x \in metas : x.is_signer}}
        first   == SetToSeq(signers)
    IN  [signatures |-> first, account_keys |-> first \o SetToSeq(keys \ signers),
         recent_blockhash |-> "h0", instructions |-> instructions]

Create(amount, key, space, owner) ==
    Ix(SYS, System!CreateAccountData(amount, space, owner), <<Both(F), Both(key)>>)

-----------------------------------------------------------------------------
InitMint(mint, authority) ==
    Ix(TOKEN, Data(3, <<"u8", "pubkey">>, <<0, authority>>), <<Writable(mint), Reads(RENT)>>)
InitToken(key, mint, owner) ==
    Ix(TOKEN, Data(4, <<>>, <<>>), <<Writable(key), Reads(mint), Reads(owner), Reads(RENT)>>)
MintTo(authority, mint, key, n) ==
    Ix(TOKEN, Data(0, <<"u64">>, <<n>>), <<Both(authority), Writable(mint), Writable(key)>>)
Move(owner, from, to, n) ==
    Ix(TOKEN, Data(1, <<"u64">>, <<n>>), <<Signer(owner), Writable(from), Writable(to)>>)
TokenAuthority(key, old, new) ==
    Ix(TOKEN, Data(2, <<"pubkey">>, <<new>>), <<Writable(key), Signer(old), Reads(new)>>)

NewSysvars == TxOf(<<Create(0, RENT, 17, SYS), Create(0, CLOCK, 40, SYS)>>)
NewMint(mint) == TxOf(<<Create(0, mint, 42, TOKEN), InitMint(mint, A)>>)
NewToken(key, mint, owner) == TxOf(<<Create(0, key, 73, TOKEN), InitToken(key, mint, owner)>>)

\* T1 and T2 are accounts of the mint M, T3 is one of M2.
MCTokenTx ==
    {NewSysvars, NewMint(M), NewMint(M2),
     NewToken(T1, M, O), NewToken(T2, M, P), NewToken(T3, M2, O),
     TxOf(<<InitMint(M, B)>>), TxOf(<<InitToken(T1, M2, B)>>),
     TxOf(<<MintTo(A, M, T1, 100)>>), TxOf(<<MintTo(A, M, T2, 100)>>),
     TxOf(<<MintTo(A, M2, T3, 100)>>), TxOf(<<MintTo(A, M2, T1, 100)>>),
     TxOf(<<MintTo(B, M, T1, 100)>>),
     TxOf(<<Move(O, T1, T2, 60)>>), TxOf(<<Move(P, T2, T1, 60)>>),
     TxOf(<<Move(O, T1, T1, 60)>>), TxOf(<<Move(P, T1, T2, 60)>>),
     TxOf(<<Move(O, T1, T3, 60)>>), TxOf(<<Move(O, T3, T1, 60)>>),
     TxOf(<<MintTo(A, M, T1, 100), Move(O, T1, T2, 60)>>),
     TxOf(<<TokenAuthority(M, A, B)>>)}

-----------------------------------------------------------------------------
InitBuffer(key, authority) ==
    Ix(LOADER, Data(0, <<>>, <<>>), <<Writable(key), Signer(authority)>>)
InitImmutable(key) == Ix(LOADER, Data(0, <<>>, <<>>), <<Writable(key)>>)
WriteAt(key, offset, byte, authority) ==
    Ix(LOADER, Data(1, <<"u32", "bytes">>, <<offset, <<byte>>>>),
       <<Writable(key), Signer(authority)>>)
LoaderAuthority(key, old, new) ==
    Ix(LOADER, Data(4, <<"option">>, <<new>>), <<Writable(key), Signer(old)>>)
CloseTo(key, recipient, authority) ==
    Ix(LOADER, Data(5, <<>>, <<>>), <<Writable(key), Writable(recipient), Signer(authority)>>)

DeployMetas(programdata, program, buffer) ==
    <<Both(F), programdata, Writable(program), Writable(buffer), Reads(RENT), Reads(CLOCK),
      Reads(SYS), Signer(A)>>

\* DeployWithMaxDataLen as it is documented.
Deploy == Ix(LOADER, Data(2, <<"u64">>, <<2>>), DeployMetas(Writable(PDATA), PROG, BUF))

\* The encoding with which the account is created after all: the loader ignores what
\* follows max_data_len, and the system program takes the whole for a CreateAccount
\* of max_data_len lamports.
LongDeploy(max_data_len, program, buffer) ==
    Ix(LOADER, System!CreateAccountData(max_data_len, 45 + 2, LOADER),
       DeployMetas(Both(PDATA), program, buffer))

\* BUF has room for two bytes and BUF2 for one.  LongDeploy(1, BUF2, PROG) deploys over
\* a buffer, immutable or not, from an account that is none.
MCLoaderTx ==
    {NewSysvars, TxOf(<<Create(0, PROG, 38, LOADER)>>), TxOf(<<InitBuffer(PROG, A)>>),
     TxOf(<<WriteAt(PROG, 0, 1, A)>>),
     TxOf(<<Create(1, BUF, 37 + 2, LOADER), InitBuffer(BUF, A)>>), TxOf(<<InitBuffer(BUF, B)>>),
     TxOf(<<Create(0, BUF2, 37 + 1, LOADER)>>), TxOf(<<InitBuffer(BUF2, B)>>),
     TxOf(<<InitImmutable(BUF2)>>),
     TxOf(<<WriteAt(BUF, 0, 1, A)>>), TxOf(<<WriteAt(BUF, 1, 1, A)>>),
     TxOf(<<WriteAt(BUF, 2, 1, A)>>), TxOf(<<WriteAt(BUF, 0, 1, B)>>),
     TxOf(<<WriteAt(BUF2, 0, 2, B)>>),
     TxOf(<<LoaderAuthority(BUF, A, B)>>), TxOf(<<LoaderAuthority(BUF, B, A)>>),
     TxOf(<<LoaderAuthority(BUF, B, Loader!NoKey)>>),
     TxOf(<<LoaderAuthority(PDATA, A, Loader!NoKey)>>), TxOf(<<LoaderAuthority(PDATA, B, B)>>),
     TxOf(<<CloseTo(BUF, F, A)>>), TxOf(<<CloseTo(BUF, BUF, A)>>), TxOf(<<CloseTo(PDATA, F, A)>>),
     TxOf(<<Deploy>>), TxOf(<<LongDeploy(2, PROG, BUF)>>), TxOf(<<LongDeploy(1, PROG, BUF)>>),
     TxOf(<<LongDeploy(1, PROG, BUF2)>>), TxOf(<<LongDeploy(1, BUF2, PROG)>>),
     TxOf(<<Ix(LOADER, Data(3, <<>>, <<>>), <<Writable(PDATA)>>)>>),
     TxOf(<<Ix(PROG, Data(0, <<>>, <<>>), <<Reads(PROG)>>)>>)}

\* The two programs share no accounts but the faucet and the sysvars.
MCWorkload == [token |-> MCTokenTx, loader |-> MCLoaderTx]

\* An authority that hands its mint over.
MCTxCpi == {NewSysvars, NewMint(M), TxOf(<<TokenAuthority(M, A, B)>>)}
MCWorkloadCpi == [cpi |-> MCTxCpi]

\* Every signature is that of a key the instructions want signed.
ASSUME MCTxSigned == \A tx \in MCTokenTx \cup MCLoaderTx \cup MCTxCpi : verify_signatures_sync(tx)

\* ... and they keep to the disciplines of the theorems about ProgramLedger.
ASSUME MCClientsDisciplined == LosslessClients /\ TidyClients /\ ClientsApart /\ DeployingClients
=============================================================================
