---------------------------- MODULE BankExecution ----------------------------
(***************************************************************************)
(* What Bank does with one transaction (src/src/bank.rs): load its         *)
(* accounts, run its instructions on them one after the other, and put     *)
(* every loaded account into an OverlayStore (src/src/accounts.rs), to be  *)
(* flushed into the account store when the transaction is committed.       *)
(*                                                                         *)
(* A store is a function on the keys that have an account.                 *)
(***************************************************************************)
EXTENDS Transactions, Runtime

System == INSTANCE SystemProgram
Token  == INSTANCE TokenProgram
Loader == INSTANCE BpfLoaderProgram

\* store.load(key), or the default account.
Load(store, key) == IF key \in DOMAIN store THEN store[key] ELSE DefaultAccount

\* store.store(key, account).
Store(store, key, account) ==
    [k \in DOMAIN store \cup {key} |-> IF k = key THEN account ELSE store[k]]

\* position(|k| k == key): the first one, 0 if the key is not listed.
Position(keys, key) == SelectInSeq(keys, LAMBDA k : k = key)

\* Mutant of InfosOk: one account may be borrowed mutably twice.
InfosOk_NoBorrowCheck(ix, keys) ==
    \A i \in DOMAIN ix.accounts : Position(keys, ix.accounts[i].pubkey) # 0

\* prepare_account_infos: every account is listed in the transaction and no
\* account is borrowed mutably twice by one instruction.
InfosOk(ix, keys) ==
    /\ \A i \in DOMAIN ix.accounts : Position(keys, ix.accounts[i].pubkey) # 0
    /\ \A i, j \in DOMAIN ix.accounts :
          /\ i # j
          /\ ix.accounts[i].is_writable
          /\ ix.accounts[j].is_writable
          => ix.accounts[i].pubkey # ix.accounts[j].pubkey

prepare_account_infos(ix, keys) ==
    [i \in DOMAIN ix.accounts |->
        [index       |-> Position(keys, ix.accounts[i].pubkey),
         pubkey      |-> ix.accounts[i].pubkey,
         is_signer   |-> ix.accounts[i].is_signer,
         is_writable |-> ix.accounts[i].is_writable]]

\* InvokeContext::new; logs and the compute meter, which no native program uses, are
\* left out.
NewContext(ix) == [program_id |-> ix.program_id, instruction_data |-> ix.data]

\* NativeProgramExecutor.
NativePrograms == {SYSTEM_PROGRAM_ID, TOKEN_PROGRAM_ID, BPF_LOADER_UPGRADEABLE_PROGRAM_ID}
native_execute(ix, ctx, loaded, infos) ==
    CASE ix.program_id = SYSTEM_PROGRAM_ID -> System!entrypoint(ctx, loaded, infos)
      [] ix.program_id = TOKEN_PROGRAM_ID  -> Token!entrypoint(ctx, loaded, infos)
      [] ix.program_id = BPF_LOADER_UPGRADEABLE_PROGRAM_ID
                                           -> Loader!entrypoint(ctx, loaded, infos)

\* RbpfProgramExecutor::execute.  Deployment leaves the loader's state in a program
\* account, and no program can put an ELF file into an executable account, so that
\* from_elf fails whatever the program cache holds.
rbpf_execute(loaded) == Fail("InternalError", loaded)

\* ChainedProgramExecutor::execute: a native program, else the first account of the
\* instruction that has the program's key.
execute(ix, ctx, loaded, infos) ==
    LET n == SelectInSeq(infos, LAMBDA info : info.pubkey = ix.program_id)
        account == loaded[infos[n].index]
    IN  IF ix.program_id \in NativePrograms THEN native_execute(ix, ctx, loaded, infos)
        ELSE IF n = 0 THEN Fail("AccountNotFound", loaded)
        ELSE IF ~account.executable THEN Fail("AccountNotExecutable", loaded)
        ELSE IF account.owner # BPF_LOADER_UPGRADEABLE_PROGRAM_ID
             THEN Fail("AccountOwnerMismatch", loaded)
        ELSE rbpf_execute(loaded)

\* execute_instructions: the first error ends the transaction.
execute_instructions(tx, loaded) ==
    LET step(state, ix) ==
            IF state.result # "Ok" THEN state
            ELSE IF ~InfosOk(ix, tx.account_keys) THEN Fail("InternalError", state.loaded)
            ELSE execute(ix, NewContext(ix), state.loaded,
                         prepare_account_infos(ix, tx.account_keys))
    IN  FoldLeft(step, Succeed(loaded), tx.instructions)

\* Mutant of overlay_of: only the first account is put into the overlay.
overlay_of_FirstOnly(tx, loaded) == [key \in {tx.account_keys[1]} |-> loaded[1]]

\* The dirty map: all loaded accounts are stored, in order, so the last position
\* of a key listed twice wins.
overlay_of(tx, loaded) ==
    [key \in ToSet(tx.account_keys) |->
        loaded[SelectLastInSeq(tx.account_keys, LAMBDA k : k = key)]]

-----------------------------------------------------------------------------
Lamports(store) == SumFunction([key \in DOMAIN store |-> store[key].lamports])

\* A transaction run alone on a store: its result and the store after it.
RunAlone(tx, store) ==
    LET loaded == [i \in DOMAIN tx.account_keys |-> Load(store, tx.account_keys[i])]
        done   == execute_instructions(tx, loaded)
        dirty  == overlay_of(tx, done.loaded)
    IN  [result |-> done.result,
         store  |-> [key \in DOMAIN store \cup DOMAIN dirty |->
                        IF key \in DOMAIN dirty THEN dirty[key] ELSE store[key]]]

\* A transaction that succeeds on these accounts changes only those that some
\* instruction marks is_writable.  Nothing in the code sees to this: no native program
\* reads the flag.
ChangesOnlyWritable(tx, loaded) ==
    LET done == execute_instructions(tx, loaded)
    IN  done.result = "Ok" =>
            \A n \in DOMAIN tx.account_keys :
                tx.account_keys[n] \notin extract_sets(tx).write_set => done.loaded[n] = loaded[n]

-----------------------------------------------------------------------------
\* What lamports are conserved for.  The shapes are those of the Rust types; the rest
\* is up to the clients, nothing in the code sees to it.

IsAccount(account) ==
    /\ account = [lamports |-> account.lamports, owner |-> account.owner,
                  data |-> account.data, executable |-> account.executable]
    /\ account.lamports \in 0..U64_MAX

\* A store, or the accounts of a transaction.
AreAccounts(store) ==
    /\ store = [key \in DOMAIN store |-> store[key]] /\ IsFiniteSet(DOMAIN store)
    /\ \A key \in DOMAIN store : IsAccount(store[key])

\* The u64 arguments of an instruction are that.
U64Args(data) ==
    \A i \in DOMAIN data.kinds : data.kinds[i] = "u64" => data.args[i] \in 0..U64_MAX

HasAccounts(ix) == Len(ix.accounts) \in Nat /\ DOMAIN ix.accounts = 1..Len(ix.accounts)
WellFormedTx(tx) ==
    /\ HasInstructions(tx)
    /\ Len(tx.account_keys) \in Nat /\ DOMAIN tx.account_keys = 1..Len(tx.account_keys)
    /\ \A k \in 1..Len(tx.instructions) :
          HasAccounts(tx.instructions[k]) /\ U64Args(tx.instructions[k].data)

OneToOne(h, n) == \A i, j \in 1..n : h[i] = h[j] => i = j

\* No key is listed twice.  Each position gets a copy of the account of its own: the
\* instructions work on the first, and the last one is stored.
ListsOnce(tx) == OneToOne(tx.account_keys, Len(tx.account_keys))

\* Deploy and Close name the account they drain, and the one that gets its lamports,
\* as writable, so that InfosOk keeps the two apart: an account drained into itself
\* loses what it had.
MarksDrained(ix) ==
    ix.program_id = BPF_LOADER_UPGRADEABLE_PROGRAM_ID =>
        /\ ix.data.variant = 2 /\ Len(ix.accounts) >= 4 =>
              ix.accounts[1].is_writable /\ ix.accounts[4].is_writable
        /\ ix.data.variant = 5 /\ Len(ix.accounts) >= 2 =>
              ix.accounts[1].is_writable /\ ix.accounts[2].is_writable

Lossless(tx) ==
    /\ WellFormedTx(tx) /\ ListsOnce(tx)
    /\ \A k \in 1..Len(tx.instructions) : MarksDrained(tx.instructions[k])

\* All the lamports there are fit a u64, so that no balance saturates.
IsGenesis(store) == AreAccounts(store) /\ Lamports(store) <= U64_MAX
=============================================================================
