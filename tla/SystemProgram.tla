---------------------------- MODULE SystemProgram ----------------------------
(***************************************************************************)
(* The system program (src/src/programs/system_program.rs), and how other  *)
(* native programs call it.                                                *)
(***************************************************************************)
EXTENDS Runtime

\* SystemInstruction, as it is encoded.
TransferData(amount) == Data(0, <<"u64">>, <<amount>>)
AssignData(owner)    == Data(1, <<"pubkey">>, <<owner>>)
CreateAccountData(amount, space, owner) ==
    Data(2, <<"u64", "u64", "pubkey">>, <<amount, space, owner>>)

\* The debit, then the credit, each on the balance it reads.
move_lamports(loaded, from, to, n) ==
    LET debited == set_lamports(loaded, from, saturating_sub(lamports(loaded, from), n))
    IN  set_lamports(debited, to, saturating_add(lamports(debited, to), n))

Transfer(amount, loaded, infos) ==
    IF Len(infos) < 2 THEN Fail("InternalError", loaded)
    ELSE IF ~infos[1].is_signer THEN Fail("MissingRequiredSignature", loaded)
    ELSE IF lamports(loaded, infos[1]) < amount THEN Fail("InsufficientFunds", loaded)
    ELSE Succeed(move_lamports(loaded, infos[1], infos[2], amount))

Assign(owner, loaded, infos) ==
    IF Len(infos) < 1 THEN Fail("InternalError", loaded)
    ELSE IF ~infos[1].is_signer THEN Fail("MissingRequiredSignature", loaded)
    ELSE Succeed(set_owner(loaded, infos[1], owner))

\* Mutant of CreateAccount: the new account is not given to its owner.
CreateAccount_KeepsOwner(amount, space, owner, loaded, infos) ==
    IF Len(infos) < 2 THEN Fail("NotEnoughAccountKeys", loaded)
    ELSE IF ~infos[1].is_signer \/ ~infos[2].is_signer
         THEN Fail("MissingRequiredSignature", loaded)
    ELSE IF lamports(loaded, infos[1]) < amount THEN Fail("InsufficientFunds", loaded)
    ELSE IF space > ISIZE_MAX THEN Fail("panic", loaded)
    ELSE Succeed(set_data(move_lamports(loaded, infos[1], infos[2], amount),
                          infos[2], Zeros(space)))

\* The new account's data is replaced by `space` zeroes, whatever it held.  vec! panics
\* on more than isize::MAX of them; below that the allocation is taken to succeed.
CreateAccount(amount, space, owner, loaded, infos) ==
    IF Len(infos) < 2 THEN Fail("NotEnoughAccountKeys", loaded)
    ELSE IF ~infos[1].is_signer \/ ~infos[2].is_signer
         THEN Fail("MissingRequiredSignature", loaded)
    ELSE IF lamports(loaded, infos[1]) < amount THEN Fail("InsufficientFunds", loaded)
    ELSE IF space > ISIZE_MAX THEN Fail("panic", loaded)
    ELSE LET moved == move_lamports(loaded, infos[1], infos[2], amount)
         IN  Succeed(set_owner(set_data(moved, infos[2], Zeros(space)), infos[2], owner))

\* Data that does not decode is refused first.
entrypoint(ctx, loaded, infos) ==
    LET data == ctx.instruction_data
        arg  == data.args
    IN  CASE Decodes(data, 0, <<"u64">>)    -> Transfer(arg[1], loaded, infos)
          [] Decodes(data, 1, <<"pubkey">>) -> Assign(arg[1], loaded, infos)
          [] Decodes(data, 2, <<"u64", "u64", "pubkey">>)
                                            -> CreateAccount(arg[1], arg[2], arg[3], loaded, infos)
          [] OTHER                          -> Fail("InvalidInstructionData", loaded)

-----------------------------------------------------------------------------
\* The instructions other programs build for this one.
create_assign_instruction(target, new_owner) ==
    [program_id |-> SYSTEM_PROGRAM_ID, data |-> AssignData(new_owner),
     accounts |-> <<[pubkey |-> target, is_signer |-> TRUE, is_writable |-> TRUE]>>]

create_account_instruction(from, to, amount, space, owner) ==
    [program_id |-> SYSTEM_PROGRAM_ID, data |-> CreateAccountData(amount, space, owner),
     accounts |-> <<[pubkey |-> from, is_signer |-> TRUE, is_writable |-> TRUE],
                    [pubkey |-> to, is_signer |-> TRUE, is_writable |-> TRUE]>>]

\* InvokeContext::invoke, as native programs use it: always for the system program.
\* The executor hands the caller's own context on, so the callee decodes
\* ctx.instruction_data; the data and the metas of `instruction` are not looked at.
invoke(ctx, instruction, loaded, infos) ==
    IF instruction.program_id = SYSTEM_PROGRAM_ID THEN entrypoint(ctx, loaded, infos)
    ELSE Fail("AccountNotFound", loaded)
=============================================================================
