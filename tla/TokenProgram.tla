---------------------------- MODULE TokenProgram ----------------------------
(***************************************************************************)
(* The token program (src/src/programs/token_program.rs).  The number of   *)
(* decimals, which nothing reads, is left out of a mint's data.            *)
(***************************************************************************)
EXTENDS Runtime

System == INSTANCE SystemProgram

\* The encoded sizes of Mint and TokenAccount.
MINT_LEN == 32 + 8 + 1 + 1
TOKEN_ACCOUNT_LEN == 32 + 32 + 8 + 1

MintState(authority, supply, initialized) ==
    [kind |-> "Mint", len |-> MINT_LEN, mint_authority |-> authority, supply |-> supply,
     is_initialized |-> initialized]

TokenAccount(mint, owner, amount, initialized) ==
    [kind |-> "TokenAccount", len |-> TOKEN_ACCOUNT_LEN, mint |-> mint, owner |-> owner,
     amount |-> amount, is_initialized |-> initialized]

\* unpack_from_slice.  Zeros of the right length are a value too, that of Default:
\* the key of 32 zero bytes is the system program's.
IsMint(data) == data.kind = "Mint" \/ data = Zeros(MINT_LEN)
UnpackMint(data) == IF data.kind = "Mint" THEN data ELSE MintState(SYSTEM_PROGRAM_ID, 0, FALSE)

IsTokenAccount(data) == data.kind = "TokenAccount" \/ data = Zeros(TOKEN_ACCOUNT_LEN)
UnpackTokenAccount(data) ==
    IF data.kind = "TokenAccount" THEN data
    ELSE TokenAccount(SYSTEM_PROGRAM_ID, SYSTEM_PROGRAM_ID, 0, FALSE)

-----------------------------------------------------------------------------
\* Mint: accounts are the mint authority, the mint and the destination.
Mint(amount, loaded, infos) ==
    LET mint_data == data_of(loaded, infos[2])
        dest_data == data_of(loaded, infos[3])
        mint == UnpackMint(mint_data)
        dest == UnpackTokenAccount(dest_data)
        minted == set_data(loaded, infos[2],
                           [mint EXCEPT !.supply = saturating_add(@, amount)])
    IN  IF Len(infos) < 3 THEN Fail("NotEnoughAccountKeys", loaded)
        ELSE IF ~infos[1].is_signer THEN Fail("MissingRequiredSignature", loaded)
        ELSE IF ~IsMint(mint_data) THEN Fail("InvalidAccountData", loaded)
        ELSE IF mint.mint_authority # infos[1].pubkey THEN Fail("AuthorityMismatch", loaded)
        ELSE IF ~IsTokenAccount(dest_data) THEN Fail("InvalidAccountData", loaded)
        ELSE IF dest.mint # infos[2].pubkey THEN Fail("TokenAccountMintMismatch", loaded)
        ELSE Succeed(set_data(minted, infos[3],
                              [dest EXCEPT !.amount = saturating_add(@, amount)]))

\* The two writes of Transfer, each of a copy read before either was made.
MoveTokens(loaded, from, to, amount) ==
    LET source == UnpackTokenAccount(data_of(loaded, from))
        dest   == UnpackTokenAccount(data_of(loaded, to))
        debited == set_data(loaded, from, [source EXCEPT !.amount = saturating_sub(@, amount)])
    IN  set_data(debited, to, [dest EXCEPT !.amount = saturating_add(@, amount)])

\* Transfer: accounts are the owner, the source and the destination.
Transfer(amount, loaded, infos) ==
    LET source_data == data_of(loaded, infos[2])
        dest_data   == data_of(loaded, infos[3])
        source == UnpackTokenAccount(source_data)
    IN  IF Len(infos) < 3 THEN Fail("NotEnoughAccountKeys", loaded)
        ELSE IF ~infos[1].is_signer THEN Fail("MissingRequiredSignature", loaded)
        ELSE IF ~IsTokenAccount(source_data) THEN Fail("InvalidAccountData", loaded)
        ELSE IF source.owner # infos[1].pubkey THEN Fail("SourceNotOwnedBySigner", loaded)
        ELSE IF ~IsTokenAccount(dest_data) THEN Fail("InvalidAccountData", loaded)
        ELSE IF source.mint # UnpackTokenAccount(dest_data).mint THEN Fail("MintMismatch", loaded)
        ELSE IF source.amount < amount THEN Fail("InsufficientFunds", loaded)
        ELSE Succeed(MoveTokens(loaded, infos[2], infos[3], amount))

\* SetAuthority: accounts are the mint or token account and its authority.  The
\* system program is asked to assign the account to the new authority.
SetAuthority(ctx, new_authority, loaded, infos) ==
    IF Len(infos) < 2 THEN Fail("NotEnoughAccountKeys", loaded)
    ELSE IF ~infos[2].is_signer THEN Fail("MissingRequiredSignature", loaded)
    ELSE System!invoke(ctx, System!create_assign_instruction(infos[1].pubkey, new_authority),
                       loaded, <<infos[1]>>)

\* Mutant of InitializeMint: an initialized mint is initialized again.
InitializeMint_Again(authority, loaded, infos) ==
    LET mint_data == data_of(loaded, infos[1])
    IN  IF Len(infos) < 2 THEN Fail("NotEnoughAccountKeys", loaded)
        ELSE IF ~IsRent(data_of(loaded, infos[2])) THEN Fail("InternalError", loaded)
        ELSE IF ~IsMint(mint_data) THEN Fail("InvalidAccountData", loaded)
        ELSE Succeed(set_data(loaded, infos[1], MintState(authority, 0, TRUE)))

\* InitializeMint: accounts are the mint and the rent sysvar.
InitializeMint(authority, loaded, infos) ==
    LET mint_data == data_of(loaded, infos[1])
    IN  IF Len(infos) < 2 THEN Fail("NotEnoughAccountKeys", loaded)
        ELSE IF ~IsRent(data_of(loaded, infos[2])) THEN Fail("InternalError", loaded)
        ELSE IF ~IsMint(mint_data) THEN Fail("InvalidAccountData", loaded)
        ELSE IF UnpackMint(mint_data).is_initialized THEN Fail("AlreadyInitialized", loaded)
        ELSE IF lamports(loaded, infos[1]) < minimum_balance(mint_data.len)
             THEN Fail("NotRentExempt", loaded)
        ELSE Succeed(set_data(loaded, infos[1], MintState(authority, 0, TRUE)))

\* InitializeAccount: accounts are the token account, its mint, its owner and the
\* rent sysvar.
InitializeAccount(loaded, infos) ==
    LET token_data == data_of(loaded, infos[1])
        mint_data  == data_of(loaded, infos[2])
    IN  IF Len(infos) < 4 THEN Fail("NotEnoughAccountKeys", loaded)
        ELSE IF ~IsRent(data_of(loaded, infos[4])) THEN Fail("InternalError", loaded)
        ELSE IF ~IsTokenAccount(token_data) THEN Fail("InvalidAccountData", loaded)
        ELSE IF UnpackTokenAccount(token_data).is_initialized
             THEN Fail("AlreadyInitialized", loaded)
        ELSE IF lamports(loaded, infos[1]) < minimum_balance(token_data.len)
             THEN Fail("NotRentExempt", loaded)
        ELSE IF ~IsMint(mint_data) THEN Fail("InvalidAccountData", loaded)
        ELSE IF ~UnpackMint(mint_data).is_initialized THEN Fail("MintNotInitialized", loaded)
        ELSE Succeed(set_data(loaded, infos[1],
                              TokenAccount(infos[2].pubkey, infos[3].pubkey, 0, TRUE)))

entrypoint(ctx, loaded, infos) ==
    LET data == ctx.instruction_data
        arg  == data.args
    IN  CASE Decodes(data, 0, <<"u64">>)          -> Mint(arg[1], loaded, infos)
          [] Decodes(data, 1, <<"u64">>)          -> Transfer(arg[1], loaded, infos)
          [] Decodes(data, 2, <<"pubkey">>)       -> SetAuthority(ctx, arg[1], loaded, infos)
          [] Decodes(data, 3, <<"u8", "pubkey">>) -> InitializeMint(arg[2], loaded, infos)
          [] Decodes(data, 4, <<>>)               -> InitializeAccount(loaded, infos)
          [] OTHER                                -> Fail("InvalidInstructionData", loaded)
=============================================================================
