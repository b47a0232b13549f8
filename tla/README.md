# Verification of tiny-solana

TLA+ modules, TLC runs and TLAPS proofs about the node in `src/src/`: the
transaction pipeline of the banking stage, the scheduler, the account locks, the
cost tracker, bank execution with the system, token and loader programs, the life
of banks, and the proof-of-history service. `PROJECT.json` maps every definition to the source
lines it models and lists runs, mutants, findings, hazards and theorems. The
repository has no tests; the references are the code and `src/readme.md`.

## The system

| component | state | operations | depends on |
|---|---|---|---|
| main loop (`main.rs`) | tx channel, exit flag | poll, drain a batch, exit, join the PoH thread | banking stage, PoH |
| RPC (`rpc/`) | none of its own | `send_transaction` enqueues; the others read | tx channel, bank |
| banking stage (`banking_stage.rs`) | locals of `process_batch`, shared tracker, lock table, bank | verify, schedule, admit, lock, execute, record, collect, commit, requeue | everything below |
| scheduler (`scheduler.rs`) | locals | `extract_sets`, `schedule` | – |
| account locks (`account_locks.rs`) | `write_locks`, `read_locks` counts | `try_lock_accounts_for_group`, drop of a guard | – |
| cost model (`cost_model.rs`) | `block_cost`, cost per writable account | `would_fit`, `add_cost`, `subtract_cost`, `reset` | – |
| bank (`bank.rs`) | frozen flag, freeze lock count, finalized hash, blockhash queue | execute a transaction, `freeze`, `new_from_parent`, preflight rules | account store, runtime |
| account stores (`accounts.rs`, `committer.rs`) | accounts; overlay of one transaction | load, store, flush, `hash_accounts` | – |
| runtime (`runtime.rs`) | loaded accounts of one instruction, executor cache | dispatch to native or BPF program, CPI | programs |
| programs (`programs/`) | account data | system, token and BPF loader instructions | runtime |
| recorder and PoH (`tx_recorder.rs`, `poh.rs`) | record channel, hash chain, tick and slot counters | send a group's hash; record, hash, tick | – |

A client's transaction goes RPC → channel → batch → groups → locks → parallel
execution into overlays → hash to PoH → flush → release. A group that is refused
its locks goes back to the channel.

What is hard here:

* members of a group run in parallel, load and flush account by account, and the
  store has no transactions: correctness rests on scheduler, locks and flush order;
* a group can end in many ways (committed, nothing admitted, locks refused, members
  failed, PoH gone, a panic of a program or of the recorder), and a batch before that by a
  panic of the verification or the shutdown of the runtime; each must give back the guards
  and leave every submission in one place;
* `freeze` and the freeze lock are a count and a flag that are not read together;
* the tracker is charged at admission and refunded later;
* PoH has records, ticks and slot boundaries that meet in any order;
* programs work on shared copies of accounts that one instruction may name twice,
  check different things in different instructions, and call each other.

What makes each part correct: no two groups at work share a written account and no
lock outlives its guard (locks); each transaction in one group, groups that are safe
to run in parallel (scheduler); the accounts change as by a serial execution
(banking stage as a whole); charges equal what was committed (tracker); a child
extends a finished parent, a finished bank stays as it is, and its hash stands for its
accounts (bank); records are in the chain once, in order, where their entry says (PoH);
lamports and tokens are moved and never made by accident, and what is initialized or
made immutable stays so (programs).

## Modules

| module | models |
|---|---|
| `AccountLocks` | the lock table; a call is one step because the code holds the table's lock throughout |
| `Schedule`, `Scheduler` | `schedule` as a function (used by the banking stage) and as the loop of the code; `ComputesSchedule` proves they agree |
| `Transactions` | key sets, signature verification and its panic, retryable errors; a signature is the key that made it |
| `U64`, `CostModel` | wrapping u64 arithmetic over a small maximum; `calculate_cost` and the tracker |
| `Runtime` | accounts, the infos of an instruction, errors, encodings of instruction and account data |
| `SystemProgram` | Transfer, CreateAccount, Assign; the instructions built for it and `invoke` |
| `TokenProgram` | Mint, Transfer, SetAuthority, InitializeMint, InitializeAccount |
| `BpfLoaderProgram` | InitializeBuffer, Write, DeployWithMaxDataLen, Upgrade, SetAuthority, Close |
| `BankExecution` | load, dispatch to the three native programs or the BPF executor, instruction sequence, overlay of one transaction |
| `ProgramLedger` | any sequence of transactions on the native programs, one whole transaction a step |
| `SerialLedger` | abstract specification: submissions are applied whole, one at a time, at most once, or discarded; what makes a submission valid and what running it does are its parameters |
| `BankingStage` | queue, loops of `main`, `process_batch` step by step; implements `SerialLedger` |
| `RootHash` | `all_accounts` and `hash_accounts`: the Merkle root of a store |
| `Bank` | freeze, children, blockhash queue, freeze lock, what getLatestBlockhash promises; uses `RootHash` |
| `PohService` | `PohRecorder` and the thread's loop |
| `AccountLocksProofs`, `SchedulerProofs`, `PohServiceProofs`, `BankProofs` | theorems about the module of that name |
| `OperatorProofs` | the operators, for every input: what `Those` and `ScheduleOf` return, sums over finite sets, what each instruction of the native programs does to lamports, that a transaction conserves them |
| `BankingStageProofs` | the local variables of one loop; the loops, the queue, the records and the locks together; the cost tracker of a single loop |
| `LedgerProofs` | the refinement of `SerialLedger`, and the lamports of the pipeline |
| `ProgramLedgerProofs` | the native programs over any sequence of transactions: what every instruction does to the store, what accounts hold, the supply of a mint, deployments |
| `MC*` | instances for TLC |

How `BankingStage` corresponds to the code. `pc[w]` is the place of a loop and
`job[w]` the local variables of its `process_batch`. A step is what happens
between two accesses to shared state: receiving one transaction, `would_fit`,
`add_cost`, the lock call, loading one account, flushing one account. A refused group
is taken back member by member, the refund (`RollBackCost`) before the send
(`Requeue`), so that another loop may run the first member while the last one still
waits here. The loop over the results of a group (`CollectResults`) is one step: none of the
errors execution can return is retryable, so nothing is sent there, and all it shares with
other loops is the tracker, which it lowers; exactness of the tracker is claimed for one loop. A
transaction is a record with the fields of the Rust struct; `sent`, `fate` and
`recorded` are histories. The tracker, the lock table and the store are shared
by the loops. `Unwind` is what Rust's drops do on an early return or a panic. Where the
code panics decides how far it goes: in the blocking task of the verification it is an error of
`process_batch`, and the loop goes on with the next batch; in a program
(`ExecutePanics`, while other members of the group are anywhere in theirs) or in the
recorder it ends the loop's task. A program panics on a `CreateAccount` of more than
isize::MAX bytes, and on a deployment whose program data came out too short.

`main` starts one loop. `process_batch` takes `&self` and works on shared,
locked state, and the channel's receiver can be cloned, so the lock table exists
for several loops; the runs with two workers check that use of it. The cost
tracker is not fit for it (its test and its charge are two steps, and `reset` clears
everybody's charges), so `TrackerIsOfCommitted` and `LimitsKept` are stated for
one loop.

`BankingStage` has no `is_frozen`: the running node makes one bank and never
freezes it. Freezing is in `Bank`, where a group is one transaction. The store there is
a set of accounts, its root hash is computed by `RootHash`, over the accounts in any
order the iterator may give them, and a digest is what it was made from.

How the programs correspond to the code. A program is an operator from the context,
the accounts of the transaction and the infos of the instruction to a result and the
accounts after it; its tests come in the order of the code. An info holds the position
of its account, so two infos may share one, as two `AccountInfo`s share an `Rc`.
Instruction data is an enum variant with the types of its fields and their values, so
that "decodes as" is decided as bincode decides it: the system and token programs
refuse bytes left over, the loader ignores them. Account data is tagged with what it
holds and has its length in bytes; the loader's accounts also have their bytes after
the metadata. A deployment copies from byte 37 whatever the account holds (`BodyFrom`): the
bytes of a body, zeros of an account that was never written, and `OPAQUE` where the
model does not say what the bytes are (a state, token data). `CreateAccount` panics above
isize::MAX bytes; a smaller allocation is taken to succeed, though memory may end before that.
Data the token program wrote is no state to the loader, and the other way round, which is more
than the code says: it decodes the first bytes, whatever they are. The two workloads of
`MCProgramLedger` share only the faucet and the sysvar accounts, so no run gets there; the
theorems about an account that both programs write are theorems about this reading. The node has no sysvar
accounts, so clients create them; they hold zeros, rent is never
due and the slot is 0. `HasRent`, `HasClock` and `IsRent` accept zeros only, where the code takes any
bytes that decode.

`ProgramLedger` takes a transaction as one step because `BankingStage` implements
`SerialLedger`: the run on the pipeline shows that the accounts change by whole
transactions one at a time, and this module asks what long sequences of them can do.

A BPF program never runs. Deployment leaves the loader's state in the program account,
where `RbpfProgramExecutor` looks for an ELF file, and no instruction can write one
there, so `from_elf` fails (`rbpf_execute`). The virtual machine, its parameter buffers
and its cache lie behind that point.

Assumptions that come from outside the code: single operations of DashMap, RocksDB,
crossbeam channels and parking_lot locks are atomic; atomics are sequentially
consistent; hash functions do not collide; a tokio task that panics drops its locals
and ends its future. The code asks for less than sequential consistency:
`is_frozen` is loaded with Relaxed ordering, so on a weakly ordered machine a group
that starts after a freeze may still read the old flag, which `OnlyEarlyGroupsCommit`
does not cover. The exit flag is Relaxed too; a late reading of it is one of the
interleavings.

## Runs

| run | question | bounds |
|---|---|---|
| `account_locks` | exclusion, table = live guards, refusals have a live cause | 2 keys, 3 callers, every group of up to 2 transactions: a key with two readers and a third caller |
| `scheduler` | each once, parallel-safe groups, no needless delay, agreement with `ScheduleOf`, termination | every batch of up to 3 transactions over 2 keys: overtaking and a chain of three groups |
| `banking_one` | serializability, conservation, truthful results, exact tracker, guards | 1 loop, 3 submissions out of 11 kinds, batches of 2: a full batch and one left over, every error, every panic (verification, program, recorder), limits met |
| `banking_two` | serializability, retries, recording before commit, guards | 2 loops, 3 submissions of a writer and a reader of the same account and of the three transactions that make verification, program and recorder panic: 1.3 million states |
| `banking_live` | every submission settles or the node exits | 2 loops, 2 submissions, fair |
| `bank` | children extend finished parents, queue = recent ancestors, blockhashes live as long as promised, hashes stand for states, freeze is final | 4 banks, 2 workers, 1 forking thread, queue of depth 2, so that hashes leave the queue; stores of two and of three accounts, an even and an odd level of the tree |
| `programs` | supply = balances, lamports moved only, nothing initialized twice, immutability, whole deployments | 21 transactions on two mints and three token accounts, or 29 on two buffers and a program, each sent any number of times, creations included; 3 lamports; amounts 100 and 60 with U64_MAX = 255, so that supplies and balances saturate; buffers of one and two bytes |
| `poh` | slot height, paid ticks, entries in place, nothing lost, eventually mixed in | 3 hashes per tick, 2 ticks per slot, batches of 2, 4 records, 5 ticks: batches do not divide ticks and slot boundaries are crossed twice |
| `over_limit` | violated: the readme's requeue of a transaction over the cost limit | as `banking_one` |
| `lost_update` | violated: conservation, with two transactions of one group of which one lists a key the other writes | 1 loop, 2 submissions |
| `freeze_race` | violated: no freeze during execution | 1 worker, 1 forking thread, 2 banks |
| `cpi` | violated: a well-formed instruction decodes | as `programs` |

What they show:

* The accounts change as by a serial execution (`Serializable` is the refinement
  `BankingStage ⇒ SerialLedger`; an overlay counts from the moment its flush begins,
  and no one who could load a half-flushed account holds its lock). A reader may
  share a group with a *later* writer of the key. Its overlay stores the value
  it read, and it is flushed first, so this is harmless only because of the flush
  order. The mutant that reverses that order breaks the property.
* This holds for transactions that obey two disciplines, and the code enforces neither.
  A key that a transaction lists and no instruction names is written by no
  transaction (`UnnamedKeysUnwritten`). Without it an update is lost
  (`lost_update`): `process_single_transaction` stores every listed account, while
  scheduler and locks only know the named ones. In the trace A sends lamports to the system
  program's key and C sends some to D, in a transaction built by the client, which lists that
  key. They are in one group; the second has loaded the key before the first is
  flushed, and its flush puts the old balance back. And a transaction changes only accounts
  it marks writable (`ChangesOnlyWritable`): no native program looks at the flag.
  The transactions of the runs obey both (`MCTxDisciplined`, which TLC evaluates).
* `LimitsKept`: the block limit holds; an account's own limit is not
  compared for the first transaction that writes it, so that one may exceed it
  alone. The property says exactly this.
* A transaction over the block limit gets its error and is dropped, where the
  readme's diagram sends it back to the queue (`over_limit`).
* `freeze` can set the flag while a group executes (`freeze_race`);
  `OnlyEarlyGroupsCommit` says which groups can still change the accounts then.
* A blockhash is accepted by every descendant up to the `lastValidBlockHeight` that
  getLatestBlockhash gave with it, and its entry is gone from later ones
  (`ValidAsLongAsPromised`): the age limit and the eviction from the queue meet at the
  same slot, so that `BlockhashExpired` is never returned. The genesis bank is the
  exception. Its child enters a second hash with slot 0, so its own hash is evicted one
  slot earlier than RPC says.
* The root hash does not depend on the order of the store and differs for different
  stores (`HashIdentifiesState`; the assumption `RootsDiffer` of `MCBank`, which TLC
  evaluates at the start of the bank's runs, has every store of up to five accounts).
* `SupplyIsSum` holds below U64_MAX, where supply and balances saturate each by itself.
  A transfer from an account to itself would create tokens, because the second of two
  stale copies wins; the test for double mutable borrows in `prepare_account_infos` is
  all that stands against it, as the mutant without it shows.
* `CreateAccount` replaces the data of any account that signs, so a creation that is sent
  again wipes a mint, a token balance or an immutable buffer. Nothing in the code
  prevents it, and the workloads do it. The properties say so: `SupplyIsSum` is claimed as
  long as no account that held data was created again (the history `recreated`), and
  `InitializedOnce` and `ImmutableForever` have as their only exceptions the
  transactions that create that very account, hand it to the loader (for a mint or a token
  account) or deploy a program over it. The last one is real too: Deploy looks at neither the owner nor the
  state of the account named as the program, and `LongDeploy(1, BUF2, PROG)` goes over an
  immutable buffer, from an account that is no buffer.
* The metas of the workload are the documented ones (`MarksDrained`, `MarksWritten`); the
  code does not insist on them.
* Cross-program invocation hands the caller's context to the callee (`cpi`).
  SetAuthority of the token program always fails: the system program reads its bytes
  as a CreateAccount that is too short. It would change the owner of the account and not
  the authority in its data in any case. DeployWithMaxDataLen fails too when it is encoded as
  documented. The loader ignores what follows `max_data_len`; with a key and a size
  after it the same bytes are a CreateAccount for the system program, and the deployment
  goes through. `LongDeploy` in `MCProgramLedger` is this encoding, and the properties
  about deployment rest on it.
* `ImmutableForever` speaks of writing and of authority. Closing is open to any signer:
  Close does not compare the authority (a TODO in the source), and the property allows it.

The readme says only successful transactions are recorded; the code hashes the
whole group, failed members included. The model follows the code, and
`CommittedWasRecorded` says what that gives.

Deadlock is checked everywhere but in `poh` (the thread ends, or MaxTicks is
reached). A terminated node and a returned `schedule` are explicit stuttering steps.

**Fairness.** `FairSpec` of `BankingStage` has weak fairness of each loop, a tokio
task that never blocks for good, and of `main` setting the exit flag once a loop has
ended (its `select!` waits for exactly that). In `Scheduler` and `PohService` it is
weak fairness of the one thread. Nothing is assumed of clients or of ctrl-c.

**Bounds.** `Workload` is finite and lamports run out, which bounds `ProgramLedger`. `MaxSubmissions`, `BATCH_SIZE_LIMIT`, `MaxBanks`, `MaxRecords`,
`MaxTicks`, `MaxBatch` and `U64_MAX` are named in the modules. The cost constants
are small numbers in which every sum that can be over a limit is.

## Proofs

All are about `Spec` for arbitrary constants, and rest on the named assumptions of the
modules. Those are: callers, workers and loops are finite sets; the parameters of PoH and
the depth of the blockhash queue are positive; `NoHash` is not a hash; a store of `Bank` is
finite and has one account for a key (`StoresKeyed`); `InitAccounts` is
a function; transactions list and name keys; the program ids of `programs/ids.rs`
differ. TLC evaluates them at the start of the runs. What the code does not see to, and a
theorem needs, is a hypothesis of that theorem: `OneForker` and `OneWorker` (the node has
one of each), `Discipline` (what `Serial` needs of transactions), `Costed` (a transaction
has what `calculate_cost` counts), `LosslessTxs`, `LosslessClients`, `TidyClients`,
`ClientsApart`, `DeployingClients` (below), and `TypedTxs` (clients send values of the Rust types, and the node
starts with such accounts). The workloads of the runs satisfy all but the first two, and TLC
evaluates that too (`MCTxDisciplined`, `MCTxLossless`, `MCClientsDisciplined`).

* **Account locks.** `Inv == TypeOK /\ TableMatchesGuards /\ Exclusion` is
  inductive. `Exclusion` alone is not: the call looks at the table, so one has to
  know that the table is what the guards say. Read counts are cardinalities of the
  set of readers, so locking and dropping add and remove one caller of a finite
  set. `MutualExclusion`, `NoLeakedLock` and `NoStaleRefusal` follow.
* **Scheduler.** The inductive invariant adds three facts about the pass in
  progress to the properties: the group's write set is the union of its members'
  sets, members are taken in increasing order before what is still to be
  visited, and what a pass has left conflicts with the group. `ScheduledOnce`,
  `ParallelGroupsAreSafe` and `NoNeedlessDelay` hold for batches of any length;
  `EveryPassTakesOne` is the fact the loop's termination rests on.
  `ScheduleGroups` says the same of the function `ScheduleOf`, and `ComputesSchedule`
  that the loop returns what the function does. Its invariant, `FollowsSchedule`, puts
  the loop, at every moment, where the recursion is after as many passes and visits.
* **PoH.** `Inv == TypeOK /\ HeightAhead /\ TicksArePaidFor`. The argument is
  arithmetic: the tick count lies in the slot's window of `ticks_per_slot` ticks, it
  is a multiple of `ticks_per_slot` only at the window's end, and there the slot
  and the height move together. So `record` never returns `MaxHeightReached`. On this
  rest `EntriesInChain` and `NoRecordLost`: the chain is only ever extended, and what was
  mixed in followed by what waits in the channel is what was sent, in order.
* **Bank.** `Types` has the freeze count of a bank equal to the number of groups that
  hold it. `LateGroupsRefused` and `FrozenStaysFinal` need no more, and hold for any number of
  forking threads. `ChildrenExtendFrozenParents` and `PromisesKept` are proved for one
  (`OneForker`); with two the second may build its child before the hash of the parent is
  stored. `LineInv` is the invariant: how far the forking thread is tells what its parent
  is, a frozen bank without a hash is the one being finalized, and every bank but the
  first is the child of a final one. Both properties then follow by induction along the
  line of ancestors: the queue is its newest part, and an entry's age is its place in it.
  `HashesIdentify` needs of the banks only that each hash was made from the store in the history
  (`Sealing`); the rest is about the tree. A sorted sequence is told by its set, whatever order
  the digests came in (`OneInOrder`). A pair tells its halves, so a level tells the one
  below if one knows its length; and that is known, because the digests of a level differ, so that
  a last pair of two equal halves can only come from an odd level (`NextInjective`). Two trees
  of different height would have a leaf at the place of a pair (`DescentsMeet`).
* **One loop.** The first part of `BankingStageProofs` has the invariant of the locals of
  `process_batch` (`LoopOk`): no position of the batch is in two groups, or in a group to
  come and in the one in hand; what is still to be dealt with has neither result nor fate;
  the result of the rest is its fate. Each kind of step (a position concluded, a group
  collected, a group sent back to the queue) is a lemma that mentions no action.
* **Banking stage.** `Inv` joins the loops with the queue and the records: no submission is
  in two of these places. One lemma per action. `PendingOnce`, `ResultsTrue` and
  `RecordedFirst` follow, for any number of loops, transactions and accounts, and all
  the ways out of `process_batch`, panics of a program among them. While a refused group is sent
  back, the members already sent are the queue's and the rest the loop's (`Held`). `UsesLocks` shows that the pipeline implements
  `AccountLocks`, so that `MutualExclusion` holds of its loops (`LoopsExclude`) and
  `GuardsReturned` follows.
* **Serializability.** `Serial`: the pipeline implements `SerialLedger`. The
  ledger of the refinement is the store with all flushes that have begun laid over it.
  `LedgerInv` says that what a member of a group has loaded is what the ledger holds, and what
  it computed is what running it now would give. That stays so
  because its group's locks keep other loops' writers away, and the schedule keeps earlier
  members of its own group off what it touches. Then beginning a flush applies one
  transaction, and every other step stutters, submits or discards.
  The theorem assumes `Discipline`, the two disciplines above, for every state of the accounts.
  `TransfersSerial` shows that the transfers of the client program satisfy it
  (from and to keys other than the system program's own), so the hypothesis is not empty.
* **Cost tracker.** `LimitsHold` and `TrackerExact`, for one loop. `TrackerIsOfCommitted`
  says nothing while a group is in hand, so the invariant (`SoloInv`) does: the tracker is
  the cost of the payers, those committed in this batch and the members admitted to the
  group in hand, for the block and for each account they write. `would_fit` is still true
  when `add_cost` charges because nobody else is there; a charge that fits neither wraps nor
  passes a limit; and a failed member's refund does not wrap below zero, because it paid.
  One loop is never refused its locks, for the table is empty whenever it calls
  (`GuardsOnlyInGroup`). Sums go by `SumFunction`: the
  lemmas about them (`SumChanges`, `SumMoves`, `SumSplits`, `SumUnion`) are derived from the
  community modules' fold over a set, unrolled.
* **Lamports.** `OperatorProofs` says instruction by instruction what happens to the
  accounts (`InstructionDone`): nothing, new data, a transfer between two infos, an account
  drained into another, or a deployment, which is a transfer and two changes of data. With
  infos that share an account, and saturation at U64_MAX, only this much is true: the sum over the
  accounts stays if no balance can reach U64_MAX and an account is not drained into itself.
  The first follows from the sum itself (`IsGenesis`: all lamports there are fit a u64).
  The second is the rule about two mutable borrows in `prepare_account_infos`, but it looks
  only at accounts marked writable. `LosslessRun` is the result for a whole transaction;
  both theorems called `LamportsTheorem` use it: for any sequence of transactions on the programs
  in `ProgramLedgerProofs`, and in `LedgerProofs`, through `Serial`, for the pipeline, where
  lamports of a half-flushed overlay count as they will be.
* **Types of the pipeline.** `BankingTypes`, for any number of loops and without `Discipline`:
  whatever an instruction drains or credits, accounts stay accounts (`ExecTyped`, from the same
  `InstructionDone`). The invariant, `TypedInv`, follows the accounts on their way: in the
  store, in what a thread has loaded, in the members that wait to be committed, and in the overlay
  being flushed. That the guards are counted by a natural comes from `GuardsReturned`.
* **Native programs.** `Settled` is the invariant of `ProgramLedger`: an account holds what the
  instructions that name it allow (`StoreOk`: zeros, a loader's state and bytes, or, only where token instructions
  write, a mint or a token account; and what is not the loader's there is the token program's). `Supplied` adds, for `SupplyTheorem` alone and as long as nothing is
  created again, that every token account names an initialized mint and the supply
  of a mint below U64_MAX is the sum of its accounts (`SupplyOk`). A transaction works on
  copies, so the proof looks at the store *as the transaction sees it* (`View`): the accounts
  loaded so far laid over the ledger, which is the new ledger at the end. Each instruction is then
  a relation between two views, `SystemAt`, `TokenAt` or `LoaderAt`, that says which keys it writes
  and what (`StepIsInstruction` derives it from the code's operators, copies, infos, CPI and
  all). Each of these keeps `StoreOk` and `SupplyOk`, and data only moves on (`LaterAt`): a mint
  keeps its authority and its supply never shrinks, a token account its mint and owner, an
  immutable buffer everything until it is closed. The accounts that the transaction creates are
  left out of that, a mint or token account also where a loader instruction writes, an
  immutable one where a program is deployed; those are the exceptions of `InitializedOnce` and
  `ImmutableForever`. `RunLeaves` is the result
  for a transaction, and `TypeTheorem`, `SupplyTheorem`, `InitializedOnceTheorem` and
  `ImmutableTheorem` follow. A mint and a transfer move one summand or two of the sum; a transfer
  to oneself is the case where the two are one (`MoveSupply`). `DeployedTheorem` adds that a
  deployment is a transaction of its own (`DeployingClients`): otherwise the same transaction
  can close the new program again, or refill the buffer.
  What clients have to do, because the code does not see to it, are hypotheses. `TidyClients`:
  accounts for tokens are given to the token program (`TokenOwned`), what is written is marked
  writable (`MarksWritten`, else two infos of one account part ways), keys and bytes are such, and
  the first accounts hold no data. Nothing in it forbids to create an account again, to close or
  deploy over any account, or to name one account in instructions of both programs.
  `ClientsApart`, which `SupplyTheorem` alone needs: token accounts are no accounts of the loader,
  whose Close or Deploy would wipe a balance; no token instruction writes the system program's
  own key, which is what the mint field of an account that was never initialized reads as; and
  one transaction does not create an account twice, for the history `recreated` looks at what an account
  held before the transaction.

Four things came out of proof attempts. The group invariant is not symmetric: a member may
write what an *earlier* one has read, so "members of a group do not conflict" is
false; TLC refuted the first version of `LedgerInv` for that. And the history `fate` used to count a
transaction as abandoned that was back in the queue when a later group of the same
batch failed; `Unsettled` now leaves what was sent back alone. Lamports are not conserved for
every transaction a client can send, and the hypothesis `Lossless` names the two ways: a
key listed twice in `account_keys` is loaded twice, instructions work on the first copy,
and the last, stale one is stored; and Close, or Deploy, whose metas name the drained account
and the recipient as the same account and not writable, sets its balance to zero. (With a
writable meta it is refused.) Both are listed with the hazards. And what the programs
promise ends at CreateAccount, Close and Deploy: the first replaces the data of any account that
signs, Close does not ask whose account it empties, and Deploy overwrites any account named as the
program. The exceptions in `InitializedOnce`, `ImmutableForever` and `SupplyIsSum`, and
`ClientsApart`, are what the proofs could not do without.

**Induction.** The induction rules of the library cannot be used here; the proofs use
the least-number principle for sets of naturals (`SmallestElement`, `StrongInduction`)
instead, which follows from the well-foundedness of `<`. Folds and recursive functions are
unrolled into the sequence of their intermediate values (`FoldExists`, `ThoseSteps`,
`PassSteps`, `ScheduleSteps`, `AncestorsExist`), and what they compute is proved about
that sequence.

Only model-checked: liveness (`EventuallySettled`, `EventuallyMixed`, `Terminates`), which
this prover does not do. Every invariant and action property of a passing run is stated by a
theorem, under the hypotheses above.

## Not modelled

The BPF virtual machine (solana_rbpf), its syscalls, parameter buffers, compute meter
and program cache: nothing the programs can leave in an account gets past `from_elf`.
The overlay's own `all_accounts` and root hash, which the node never calls. Handlers of
RPC that read one account or return a fixed value. Lock statistics and metrics: counters
nobody reads. PoH pacing by sleep. Types and program ids: keys, hashes and signatures are
model values. The command line tools apart from the shape of the client's transfer.
`PROJECT.json` gives the reason for each.

## Plan

Done: locks, scheduler, cost tracker, the three native programs and CPI, bank execution,
banking stage and its abstract ledger, root hash and bank life cycle, PoH; the proofs
above.

Next: `Bank` with two forking threads, where a child can be built on the grandparent's hash
(the hazard at `bank.rs:110`, which no property covers); and `freeze` reading the store account by
account: `FreezeFinalize` takes it as it is at one moment, while the iteration over a DashMap can
meet the flush of a group that still holds the bank.

## Running

    tlc -workers 2 -config MCBankingOne.cfg MCBankingStage
    tlapm AccountLocksProofs.tla

Each run takes under four minutes. The proofs of `OperatorProofs`, `BankingStageProofs`,
`LedgerProofs` and `ProgramLedgerProofs` take about twenty minutes each, the others a few minutes.
