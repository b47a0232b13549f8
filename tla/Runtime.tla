------------------------------- MODULE Runtime -------------------------------
(***************************************************************************)
(* What programs are written against: accounts, the AccountInfos of an     *)
(* instruction, errors (src/src/runtime.rs, src/src/accounts.rs), and the  *)
(* bincode encodings of instruction data and account data.                 *)
(*                                                                         *)
(* `loaded` is the sequence of accounts of the transaction; `infos` the    *)
(* AccountInfos of one instruction, each with the position of its account  *)
(* in `loaded`.  Two infos may share one account.                          *)
(***************************************************************************)
EXTENDS U64, Sequences, SequencesExt

CONSTANTS SYSTEM_PROGRAM_ID, TOKEN_PROGRAM_ID, BPF_LOADER_UPGRADEABLE_PROGRAM_ID

\* The ids of src/src/programs/ids.rs.
ASSUME ProgramIdsDiffer ==
    /\ SYSTEM_PROGRAM_ID # TOKEN_PROGRAM_ID
    /\ SYSTEM_PROGRAM_ID # BPF_LOADER_UPGRADEABLE_PROGRAM_ID
    /\ TOKEN_PROGRAM_ID # BPF_LOADER_UPGRADEABLE_PROGRAM_ID

-----------------------------------------------------------------------------
\* Instruction data is the number of an enum variant and its fields with their
\* types: two encodings are the same bytes only if all of these agree.
Data(variant, kinds, args) == [variant |-> variant, kinds |-> kinds, args |-> args]

\* bincode::options().with_fixint_encoding().deserialize: bytes left over are an error.
Decodes(data, variant, kinds) == data.variant = variant /\ data.kinds = kinds

\* bincode::deserialize: bytes left over are ignored.
DecodesPrefix(data, variant, kinds) == data.variant = variant /\ IsPrefix(kinds, data.kinds)

-----------------------------------------------------------------------------
\* Account data is told apart by what it holds; `len` is its length in bytes.
Zeros(n) == [kind |-> "Zeros", len |-> n]
Empty == Zeros(0)

\* The sysvars Rent (17 bytes) and Clock (40 bytes).  No program writes one, so an
\* account of that size holds zeros: no rent is ever due, and the slot is 0.
IsRent(data)  == data = Zeros(17)
HasRent(data) == data.kind = "Zeros" /\ data.len >= 17
HasClock(data) == data.kind = "Zeros" /\ data.len >= 40
minimum_balance(len) == 0
clock_slot == 0

-----------------------------------------------------------------------------
\* Account::default() with the owner load_and_verify_accounts gives it.
DefaultAccount ==
    [lamports |-> 0, owner |-> SYSTEM_PROGRAM_ID, data |-> Empty, executable |-> FALSE]

\* A program returns an error, or "Ok", and the accounts as it left them.
Fail(error, loaded) == [result |-> error, loaded |-> loaded]
Succeed(loaded)     == [result |-> "Ok", loaded |-> loaded]

\* AccountInfo.  Borrows last for one call, so that none fails; the loader's copy of a
\* buffer, which borrows two accounts at once, is the exception.
lamports(loaded, info) == loaded[info.index].lamports
data_of(loaded, info)  == loaded[info.index].data
set_lamports(loaded, info, n) == [loaded EXCEPT ![info.index].lamports = n]
set_data(loaded, info, data) == [loaded EXCEPT ![info.index].data = data]
set_owner(loaded, info, owner) == [loaded EXCEPT ![info.index].owner = owner]
=============================================================================
