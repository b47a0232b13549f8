-------------------------- MODULE BpfLoaderProgram --------------------------
(***************************************************************************)
(* The upgradeable loader (src/src/programs/bpf_loader_program.rs).        *)
(*                                                                         *)
(* An account the loader has written holds its state and a body: the bytes *)
(* after the metadata, which is as long as that of a state with an         *)
(* authority.  What the bytes of a state or of token data are is left      *)
(* open: each is OPAQUE.  Data the token program wrote is taken as no      *)
(* loader state; the code reads a state off its first bytes.               *)
(***************************************************************************)
EXTENDS Runtime

System == INSTANCE SystemProgram

\* UpgradeableLoaderState; NoKey is an authority_address of None.
NoKey == "None"
Uninitialized == [tag |-> "Uninitialized"]
Buffer(authority) == [tag |-> "Buffer", authority_address |-> authority]
Program(programdata) == [tag |-> "Program", programdata_address |-> programdata]
ProgramData(slot, authority) ==
    [tag |-> "ProgramData", slot |-> slot, authority_address |-> authority]

\* serialized_size: the variant, then its fields; None takes one byte.
serialized_size(state) ==
    LET option(key) == IF key = NoKey THEN 1 ELSE 33
    IN  CASE state.tag = "Uninitialized" -> 4
          [] state.tag = "Buffer"        -> 4 + option(state.authority_address)
          [] state.tag = "Program"       -> 4 + 32
          [] state.tag = "ProgramData"   -> 4 + 8 + option(state.authority_address)

size_of_buffer_metadata      == serialized_size(Buffer(SYSTEM_PROGRAM_ID))
size_of_programdata_metadata == serialized_size(ProgramData(0, SYSTEM_PROGRAM_ID))

MetadataLen(state) ==
    CASE state.tag = "Buffer"      -> size_of_buffer_metadata
      [] state.tag = "ProgramData" -> size_of_programdata_metadata
      [] OTHER                     -> serialized_size(state)

\* What bincode::deserialize makes of account data: whether it is a state, and which.
HasState(data) == data.kind = "Loader" \/ (data.kind = "Zeros" /\ data.len >= 4)
StateOf(data)  == IF data.kind = "Loader" THEN data.state ELSE Uninitialized

\* A byte that is not told apart from others; the rest are 0..255.
OPAQUE == 256

\* The bytes of account data from position `from` on, whatever the data is.
BodyFrom(from, data) ==
    [i \in 1..saturating_sub(data.len, from) |->
        IF data.kind = "Zeros" THEN 0
        ELSE IF data.kind = "Loader" /\ from + i > MetadataLen(data.state)
             THEN data.body[from + i - MetadataLen(data.state)]
        ELSE OPAQUE]

\* pack_into_account: the state goes over the first bytes, the others stay.
PackFails(state, data) == data.len < serialized_size(state)
pack_into_account(state, data) ==
    [kind |-> "Loader", len |-> data.len, state |-> state,
     body |-> BodyFrom(MetadataLen(state), data)]

\* Mutant of CopyInto: the copy lands one byte too early.
CopyInto_OffByOne(body, offset, bytes) ==
    [i \in DOMAIN body |->
        IF i - offset + 1 \in DOMAIN bytes THEN bytes[i - offset + 1] ELSE body[i]]

\* bytes.copy_from_slice at `offset` of a body.
CopyInto(body, offset, bytes) ==
    [i \in DOMAIN body |->
        IF i - offset \in DOMAIN bytes THEN bytes[i - offset] ELSE body[i]]

-----------------------------------------------------------------------------
\* InitializeBuffer: accounts are the buffer and, if it is to have one, its
\* authority.  Data that is no state counts as Uninitialized.
InitializeBuffer(loaded, infos) ==
    LET data == data_of(loaded, infos[1])
        new  == Buffer(IF Len(infos) > 1 THEN infos[2].pubkey ELSE NoKey)
    IN  IF Len(infos) < 1 THEN Fail("NotEnoughAccountKeys", loaded)
        ELSE IF StateOf(data) # Uninitialized THEN Fail("AccountAlreadyInitialized", loaded)
        ELSE IF PackFails(new, data) THEN Fail("AccountDataTooSmall", loaded)
        ELSE Succeed(set_data(loaded, infos[1], pack_into_account(new, data)))

\* Write: accounts are the buffer and its authority.  The state is packed again
\* after the bytes are copied.
Write(offset, bytes, loaded, infos) ==
    LET data  == data_of(loaded, infos[1])
        state == StateOf(data)
        end   == size_of_buffer_metadata + offset + Len(bytes)
        written == [data EXCEPT !.body = CopyInto(@, offset, bytes)]
    IN  IF Len(infos) < 2 THEN Fail("NotEnoughAccountKeys", loaded)
        ELSE IF ~HasState(data) THEN Fail("InvalidAccountData", loaded)
        ELSE IF state.tag # "Buffer" THEN Fail("InvalidBufferAccount", loaded)
        ELSE IF state.authority_address = NoKey THEN Fail("ImmutableBuffer", loaded)
        ELSE IF state.authority_address # infos[2].pubkey THEN Fail("IncorrectAuthority", loaded)
        ELSE IF ~infos[2].is_signer THEN Fail("MissingRequiredSignature", loaded)
        ELSE IF end > data.len THEN Fail("AccountDataTooSmall", loaded)
        ELSE Succeed(set_data(loaded, infos[1], pack_into_account(state, written)))

\* Mutant of SetAuthority: any signer may set the authority.
SetAuthority_AnySigner(new_authority, loaded, infos) ==
    LET data  == data_of(loaded, infos[1])
        state == StateOf(data)
        new   == [state EXCEPT !.authority_address = new_authority]
    IN  IF Len(infos) < 2 THEN Fail("NotEnoughAccountKeys", loaded)
        ELSE IF ~infos[2].is_signer THEN Fail("MissingRequiredSignature", loaded)
        ELSE IF state.tag \notin {"Buffer", "ProgramData"} THEN Fail("InvalidArgument", loaded)
        ELSE Succeed(set_data(loaded, infos[1], pack_into_account(new, data)))

\* SetAuthority: accounts are the buffer or programdata account and its authority.
SetAuthority(new_authority, loaded, infos) ==
    LET data  == data_of(loaded, infos[1])
        state == StateOf(data)
        new   == [state EXCEPT !.authority_address = new_authority]
    IN  IF Len(infos) < 2 THEN Fail("NotEnoughAccountKeys", loaded)
        ELSE IF ~infos[2].is_signer THEN Fail("MissingRequiredSignature", loaded)
        ELSE IF ~HasState(data) THEN Fail("InvalidAccountData", loaded)
        ELSE IF state.tag \notin {"Buffer", "ProgramData"} THEN Fail("InvalidArgument", loaded)
        ELSE IF state.authority_address # infos[2].pubkey THEN Fail("IncorrectAuthority", loaded)
        ELSE IF PackFails(new, data) THEN Fail("AccountDataTooSmall", loaded)
        ELSE Succeed(set_data(loaded, infos[1], pack_into_account(new, data)))

\* Mutant of Drain: the account is emptied before its balance is read.
Drain_EmptiesFirst(loaded, from, to) ==
    LET emptied == set_data(set_lamports(loaded, from, 0), from, Empty)
    IN  set_lamports(emptied, to,
                     saturating_add(lamports(emptied, to), lamports(emptied, from)))

\* The recipient is credited, then the account is emptied.
Drain(loaded, from, to) ==
    LET credited == set_lamports(loaded, to,
                        saturating_add(lamports(loaded, to), lamports(loaded, from)))
    IN  set_data(set_lamports(credited, from, 0), from, Empty)

\* Close: accounts are the one to close, the recipient and a signer, which is not
\* compared with the authority of the account.
Close(loaded, infos) ==
    IF Len(infos) < 3 THEN Fail("NotEnoughAccountKeys", loaded)
    ELSE IF ~infos[3].is_signer THEN Fail("MissingRequiredSignature", loaded)
    ELSE Succeed(Drain(loaded, infos[1], infos[2]))

-----------------------------------------------------------------------------
parse_deploy_accounts(infos) ==
    [payer |-> infos[1], programdata |-> infos[2], program |-> infos[3], buffer |-> infos[4],
     rent |-> infos[5], clock |-> infos[6], system_program |-> infos[7], authority |-> infos[8]]

\* DeployWithMaxDataLen once the programdata account exists: its state, the copy
\* of the buffer, the program account, and the end of the buffer.
InstallProgram(ctx, code, loaded, info) ==
    LET state   == ProgramData(clock_slot, info.authority.pubkey)
        pointer == Program(info.programdata.pubkey)
        target  == data_of(loaded, info.programdata)
        packed  == pack_into_account(state, target)
        copied  == set_data(loaded, info.programdata,
                            [packed EXCEPT !.body = CopyInto(@, 0, code)])
        named   == set_data(copied, info.program,
                            pack_into_account(pointer, data_of(copied, info.program)))
        ready   == [named EXCEPT ![info.program.index].owner = ctx.program_id,
                                 ![info.program.index].executable = TRUE]
    IN  IF ~HasClock(data_of(loaded, info.clock)) THEN Fail("InvalidArgument", loaded)
        ELSE IF PackFails(state, target) THEN Fail("AccountDataTooSmall", loaded)
        \* both are borrowed for the copy
        ELSE IF info.buffer.index = info.programdata.index
             THEN Fail("AccountBorrowFailed", loaded)
        \* slicing the data of the programdata account
        ELSE IF target.len < size_of_programdata_metadata + Len(code) THEN Fail("panic", loaded)
        ELSE IF PackFails(pointer, data_of(copied, info.program))
             THEN Fail("AccountDataTooSmall", loaded)
        ELSE Succeed(Drain(ready, info.buffer, info.payer))

\* DeployWithMaxDataLen: accounts as in parse_deploy_accounts.
DeployWithMaxDataLen(ctx, max_data_len, loaded, infos) ==
    LET info   == parse_deploy_accounts(infos)
        buffer == data_of(loaded, info.buffer)
        code   == BodyFrom(size_of_buffer_metadata, buffer)
        programdata_len  == saturating_add(max_data_len, size_of_programdata_metadata)
        required_payment == saturating_sub(minimum_balance(programdata_len),
                                           lamports(loaded, info.programdata))
        create_account_ix ==
            System!create_account_instruction(info.payer.pubkey, info.programdata.pubkey,
                required_payment, programdata_len, ctx.program_id)
        created == System!invoke(ctx, create_account_ix, loaded,
                                 <<info.payer, info.programdata, info.system_program>>)
    IN  IF Len(infos) < 8 THEN Fail("NotEnoughAccountKeys", loaded)
        ELSE IF ~info.authority.is_signer THEN Fail("MissingRequiredSignature", loaded)
        ELSE IF ~HasRent(data_of(loaded, info.rent)) THEN Fail("InvalidArgument", loaded)
        ELSE IF buffer.len < size_of_buffer_metadata THEN Fail("BufferAccountTooSmall", loaded)
        ELSE IF max_data_len < Len(code) THEN Fail("MaxDataLengthTooSmall", loaded)
        ELSE IF created.result # "Ok" THEN created
        ELSE InstallProgram(ctx, code, created.loaded, info)

\* Upgrade is not implemented.
Upgrade(loaded) == Fail("InternalError", loaded)

entrypoint(ctx, loaded, infos) ==
    LET data == ctx.instruction_data
        arg  == data.args
    IN  CASE DecodesPrefix(data, 0, <<>>)         -> InitializeBuffer(loaded, infos)
          [] DecodesPrefix(data, 1, <<"u32", "bytes">>)
                                                  -> Write(arg[1], arg[2], loaded, infos)
          [] DecodesPrefix(data, 2, <<"u64">>)    -> DeployWithMaxDataLen(ctx, arg[1], loaded, infos)
          [] DecodesPrefix(data, 3, <<>>)         -> Upgrade(loaded)
          [] DecodesPrefix(data, 4, <<"option">>) -> SetAuthority(arg[1], loaded, infos)
          [] DecodesPrefix(data, 5, <<>>)         -> Close(loaded, infos)
          [] OTHER                                -> Fail("InvalidInstructionData", loaded)
=============================================================================
