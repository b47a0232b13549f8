---------------------------- MODULE BankingStage ----------------------------
(***************************************************************************)
(* The transaction pipeline: the queue fed by the RPC server, the banking  *)
(* loop of src/src/main.rs, and BankingStage::process_batch                *)
(* (src/src/banking_stage.rs) with the parts it drives: the scheduler, the *)
(* cost tracker, the account locks, the bank's execution, the recorder and *)
(* the committer.                                                          *)
(*                                                                         *)
(* main.rs starts one banking loop; process_batch takes &self and shared   *)
(* state only, so Worker may hold several loops over the same BankingStage *)
(* and the same receiver.                                                  *)
(***************************************************************************)
EXTENDS BankExecution, CostModel, Schedule

CONSTANTS Worker,             \* banking loops
          Pubkey,             \* account addresses
          Tx,                 \* transactions clients send
          blockhash_queue,    \* the hashes in the bank's queue
          InitAccounts,       \* the store when the node starts
          BATCH_SIZE_LIMIT,
          MaxSubmissions      \* bound: transactions accepted by the RPC server

\* Transactions name accounts, in the list of keys and in the instructions.
ASSUME BankingConstants ==
    /\ IsFiniteSet(Worker)
    /\ BATCH_SIZE_LIMIT \in Nat
    /\ \A tx \in Tx : /\ tx.account_keys \in Seq(Pubkey)
                      /\ \A meta \in Metas(tx) : meta.pubkey \in Pubkey

ASSUME InitAccountsIsStore ==
    InitAccounts = [key \in DOMAIN InitAccounts |-> InitAccounts[key]]

VARIABLES
    sent,               \* history: every transaction the RPC server enqueued
    fate,               \* history: what became of each of them
    recorded,           \* history: the groups whose hash went to the PoH service
    channel,            \* tx_sender / tx_receiver: positions in `sent`
    exit,               \* the exit flag of main
    poh_alive,          \* the PoH thread still holds its receiver
    accounts,           \* the account store
    cost_tracker,
    write_locks, read_locks, holding, guard,   \* account_locks and its guards
    freeze_lock_count,  \* of the bank
    pc,                 \* where each loop is
    job                 \* the local variables of each loop's process_batch

lockVars == <<write_locks, read_locks, holding, guard>>
vars == <<sent, fate, recorded, channel, exit, poh_alive, accounts, cost_tracker,
          lockVars, freeze_lock_count, pc, job>>

Locks == INSTANCE AccountLocks WITH Caller <- Worker, Group <- {}

EmptyMap == [key \in {} |-> 0]

\* batch: the transactions; results: final_results; groups: scheduled_groups still
\* to do; to_admit and admitted: the current group before and after admission;
\* loaded: the accounts of each transaction in execution; outcome: its result;
\* overlays: transactions whose overlay is to be flushed; flushing: what is left
\* of the overlay being flushed.
EmptyJob == [batch |-> <<>>, results |-> <<>>, groups |-> <<>>,
             to_admit |-> <<>>, admitted |-> <<>>,
             loaded |-> EmptyMap, outcome |-> EmptyMap,
             overlays |-> <<>>, flushing |-> EmptyMap]

TxAt(w, i) == sent[job[w].batch[i]]       \* the i-th transaction of the batch
CostAt(w, i) == calculate_cost(TxAt(w, i))
Ids(w, indices) == {job[w].batch[i] : i \in indices}
\* The positions of the batch that are this loop's to settle: what it sent back to
\* the queue is not, any more.
Held(w) == {i \in DOMAIN job[w].batch :
               job[w].results = <<>> \/ job[w].results[i] # "AccountInUse"}
Unsettled(w) == {id \in Ids(w, Held(w)) : fate[id] = "Pending"}
Settle(ids, how) == [id \in DOMAIN fate |-> IF id \in ids THEN how ELSE fate[id]]

Init ==
    /\ sent = <<>> /\ fate = <<>> /\ recorded = <<>> /\ channel = <<>>
    /\ exit = FALSE /\ poh_alive = TRUE
    /\ accounts = InitAccounts
    /\ cost_tracker = NewTracker
    /\ Locks!Init
    /\ freeze_lock_count = 0
    /\ pc = [w \in Worker |-> "head"]
    /\ job = [w \in Worker |-> EmptyJob]

-----------------------------------------------------------------------------
\* The rest of the node.

\* main has returned: its select! ended and the PoH thread was joined.
MainReturned == exit /\ ~poh_alive

\* handle_send_transaction.  Preflight simulation may refuse a transaction, which
\* changes nothing, and skip_preflight lets any transaction through.  send fails
\* once every receiver is gone.
SendTransaction(tx) ==
    /\ Len(sent) < MaxSubmissions
    /\ ~MainReturned
    /\ \E w \in Worker : pc[w] # "stopped"
    /\ sent' = Append(sent, tx)
    /\ fate' = Append(fate, "Pending")
    /\ channel' = Append(channel, Len(sent) + 1)
    /\ UNCHANGED <<recorded, exit, poh_alive, accounts, cost_tracker, lockVars,
                   freeze_lock_count, pc, job>>

\* ctrl-c, the end of the RPC server or of a banking loop: main sets the flag.
Exit ==
    /\ ~exit
    /\ exit' = TRUE
    /\ UNCHANGED <<sent, fate, recorded, channel, poh_alive, accounts, cost_tracker,
                   lockVars, freeze_lock_count, pc, job>>

\* The PoH thread sees the flag, or that no sender is left, and drops its receiver.
PohStops ==
    /\ poh_alive
    /\ exit \/ \A w \in Worker : pc[w] = "stopped"
    /\ poh_alive' = FALSE
    /\ UNCHANGED <<sent, fate, recorded, channel, exit, accounts, cost_tracker,
                   lockVars, freeze_lock_count, pc, job>>

-----------------------------------------------------------------------------
\* The banking loop of main.

Stop(w) ==
    /\ pc[w] = "head" /\ exit
    /\ pc' = [pc EXCEPT ![w] = "stopped"]
    /\ UNCHANGED <<sent, fate, recorded, channel, exit, poh_alive, accounts,
                   cost_tracker, lockVars, freeze_lock_count, job>>

\* The flag is not set and there is something to receive (otherwise the loop
\* sleeps and looks again).
Poll(w) ==
    /\ pc[w] = "head" /\ ~exit /\ channel # <<>>
    /\ pc' = [pc EXCEPT ![w] = "recv"]
    /\ UNCHANGED <<sent, fate, recorded, channel, exit, poh_alive, accounts,
                   cost_tracker, lockVars, freeze_lock_count, job>>

\* Mutant of Receive: one transaction more than BATCH_SIZE_LIMIT.
Receive_OneTooMany(w) ==
    /\ pc[w] = "recv"
    /\ Len(job[w].batch) <= BATCH_SIZE_LIMIT
    /\ channel # <<>>
    /\ channel' = Tail(channel)
    /\ job' = [job EXCEPT ![w].batch = Append(@, Head(channel))]
    /\ UNCHANGED <<sent, fate, recorded, exit, poh_alive, accounts, cost_tracker,
                   lockVars, freeze_lock_count, pc>>

Receive(w) ==
    /\ pc[w] = "recv"
    /\ Len(job[w].batch) < BATCH_SIZE_LIMIT
    /\ channel # <<>>
    /\ channel' = Tail(channel)
    /\ job' = [job EXCEPT ![w].batch = Append(@, Head(channel))]
    /\ UNCHANGED <<sent, fate, recorded, exit, poh_alive, accounts, cost_tracker,
                   lockVars, freeze_lock_count, pc>>

\* try_recv found nothing, or the batch is full.  An empty batch is not processed.
ReceiveEnds(w) ==
    /\ pc[w] = "recv"
    /\ channel = <<>> \/ Len(job[w].batch) = BATCH_SIZE_LIMIT
    /\ pc' = [pc EXCEPT ![w] = IF job[w].batch = <<>> THEN "head" ELSE "verify"]
    /\ UNCHANGED <<sent, fate, recorded, channel, exit, poh_alive, accounts,
                   cost_tracker, lockVars, freeze_lock_count, job>>

-----------------------------------------------------------------------------
\* process_batch: verification and scheduling.

\* A panic in the blocking task is an Err of process_batch: the batch is lost.
VerifyPanics(w) ==
    /\ pc[w] = "verify"
    /\ \E i \in DOMAIN job[w].batch : verify_panics(TxAt(w, i))
    /\ fate' = Settle(ToSet(job[w].batch), "Aborted")
    /\ pc' = [pc EXCEPT ![w] = "head"]
    /\ job' = [job EXCEPT ![w] = EmptyJob]
    /\ UNCHANGED <<sent, recorded, channel, exit, poh_alive, accounts, cost_tracker,
                   lockVars, freeze_lock_count>>

\* The runtime is shut down while the loop awaits the blocking task.
Cancelled(w) ==
    /\ pc[w] = "verify" /\ MainReturned
    /\ fate' = Settle(ToSet(job[w].batch), "Aborted")
    /\ pc' = [pc EXCEPT ![w] = "stopped"]
    /\ job' = [job EXCEPT ![w] = EmptyJob]
    /\ UNCHANGED <<sent, recorded, channel, exit, poh_alive, accounts, cost_tracker,
                   lockVars, freeze_lock_count>>

\* Transactions with an invalid signature are dropped, the others grouped.  The
\* singletons bind a value once.
VerifyAndSchedule(w) ==
    /\ pc[w] = "verify"
    /\ \A i \in DOMAIN job[w].batch : ~verify_panics(TxAt(w, i))
    /\ LET indices  == [i \in DOMAIN job[w].batch |-> i]
           valid    == {i \in DOMAIN indices : verify_signatures_sync(TxAt(w, i))}
       IN  /\ \E to_schedule \in {Those(indices, valid)} :
              \E sets \in {[n \in DOMAIN to_schedule |-> extract_sets(TxAt(w, to_schedule[n]))]} :
              \E groups \in {ScheduleOf(sets)} :
                 job' = [job EXCEPT
                           ![w].results = [i \in DOMAIN indices |->
                               IF i \in valid THEN "None" ELSE "InvalidSignature"],
                           ![w].groups = [g \in DOMAIN groups |->
                               [n \in DOMAIN groups[g] |-> to_schedule[groups[g][n]]]]]
           /\ fate' = Settle(Ids(w, DOMAIN indices \ valid), "InvalidSignature")
    /\ pc' = [pc EXCEPT ![w] = "group"]
    /\ UNCHANGED <<sent, recorded, channel, exit, poh_alive, accounts, cost_tracker,
                   lockVars, freeze_lock_count>>

\* The head of the loop over the groups.
NextGroup(w) ==
    /\ pc[w] = "group" /\ job[w].groups # <<>>
    /\ job' = [job EXCEPT ![w].to_admit = Head(job[w].groups), ![w].groups = Tail(@),
                          ![w].admitted = <<>>]
    /\ pc' = [pc EXCEPT ![w] = "admit"]
    /\ UNCHANGED <<sent, fate, recorded, channel, exit, poh_alive, accounts,
                   cost_tracker, lockVars, freeze_lock_count>>

\* After the last group the tracker is reset and process_batch returns Ok.
FinishBatch(w) ==
    /\ pc[w] = "group" /\ job[w].groups = <<>>
    /\ cost_tracker' = NewTracker
    /\ pc' = [pc EXCEPT ![w] = "head"]
    /\ job' = [job EXCEPT ![w] = EmptyJob]
    /\ UNCHANGED <<sent, fate, recorded, channel, exit, poh_alive, accounts,
                   lockVars, freeze_lock_count>>

-----------------------------------------------------------------------------
\* process_batch: admission of one group.

WouldFit(w) ==
    /\ pc[w] = "admit" /\ job[w].to_admit # <<>>
    /\ would_fit(cost_tracker, CostAt(w, Head(job[w].to_admit)))
    /\ pc' = [pc EXCEPT ![w] = "add"]
    /\ UNCHANGED <<sent, fate, recorded, channel, exit, poh_alive, accounts,
                   cost_tracker, lockVars, freeze_lock_count, job>>

\* Mutant of WouldNotFit: the transaction is passed over without an error.
WouldNotFit_Silent(w) ==
    /\ pc[w] = "admit" /\ job[w].to_admit # <<>>
    /\ LET i == Head(job[w].to_admit)
       IN  /\ ~would_fit(cost_tracker, CostAt(w, i))
           /\ job' = [job EXCEPT ![w].to_admit = Tail(@)]
           /\ fate' = Settle(Ids(w, {i}), "WouldExceedMaxBlockCostLimit")
    /\ UNCHANGED <<sent, recorded, channel, exit, poh_alive, accounts, cost_tracker,
                   lockVars, freeze_lock_count, pc>>

\* The transaction gets its error and is not sent back to the queue.
WouldNotFit(w) ==
    /\ pc[w] = "admit" /\ job[w].to_admit # <<>>
    /\ LET i == Head(job[w].to_admit)
       IN  /\ ~would_fit(cost_tracker, CostAt(w, i))
           /\ job' = [job EXCEPT ![w].to_admit = Tail(@),
                                 ![w].results[i] = "WouldExceedMaxBlockCostLimit"]
           /\ fate' = Settle(Ids(w, {i}), "WouldExceedMaxBlockCostLimit")
    /\ UNCHANGED <<sent, recorded, channel, exit, poh_alive, accounts, cost_tracker,
                   lockVars, freeze_lock_count, pc>>

AddCost(w) ==
    /\ pc[w] = "add"
    /\ LET i == Head(job[w].to_admit)
       IN  /\ cost_tracker' = add_cost(cost_tracker, CostAt(w, i))
           /\ job' = [job EXCEPT ![w].to_admit = Tail(@),
                                 ![w].admitted = Append(@, i)]
    /\ pc' = [pc EXCEPT ![w] = "admit"]
    /\ UNCHANGED <<sent, fate, recorded, channel, exit, poh_alive, accounts,
                   lockVars, freeze_lock_count>>

\* A group of which nothing was admitted is skipped.
AdmissionEnds(w) ==
    /\ pc[w] = "admit" /\ job[w].to_admit = <<>>
    /\ pc' = [pc EXCEPT ![w] = IF job[w].admitted = <<>> THEN "group" ELSE "lock"]
    /\ UNCHANGED <<sent, fate, recorded, channel, exit, poh_alive, accounts,
                   cost_tracker, lockVars, freeze_lock_count, job>>

-----------------------------------------------------------------------------
\* process_batch: locks, execution, recording and commit of one group.

Members(w) == ToSet(job[w].admitted)
GroupSets(w) == {extract_sets(TxAt(w, i)) : i \in Members(w)}

\* The tracker after the costs of these members are taken back.
Refund(w, indices) ==
    FoldLeft(LAMBDA t, i : subtract_cost(t, CostAt(w, i)), cost_tracker, indices)

\* try_lock_accounts_for_group succeeds; acquire_freeze_lock follows.
LockAccounts(w) ==
    /\ pc[w] = "lock"
    /\ Locks!TryLockOk(w, GroupSets(w))
    /\ freeze_lock_count' = freeze_lock_count + 1
    /\ pc' = [pc EXCEPT ![w] = "execute"]
    /\ job' = [job EXCEPT ![w].loaded = [i \in Members(w) |-> <<>>],
                          ![w].outcome = [i \in Members(w) |-> "Running"]]
    /\ UNCHANGED <<sent, fate, recorded, channel, exit, poh_alive, accounts, cost_tracker>>

\* try_lock_accounts_for_group is refused with AccountInUse.
AccountsInUse(w) ==
    /\ pc[w] = "lock"
    /\ Locks!TryLockErr(w, GroupSets(w))
    /\ pc' = [pc EXCEPT ![w] = "refused"]
    /\ UNCHANGED <<sent, fate, recorded, channel, exit, poh_alive, accounts, cost_tracker,
                   freeze_lock_count, job>>

\* One refused member after the other: its cost is taken back, ...
RollBackCost(w) ==
    /\ pc[w] = "refused"
    /\ cost_tracker' = subtract_cost(cost_tracker, CostAt(w, Head(job[w].admitted)))
    /\ pc' = [pc EXCEPT ![w] = "requeue"]
    /\ UNCHANGED <<sent, fate, recorded, channel, exit, poh_alive, accounts, lockVars,
                   freeze_lock_count, job>>

\* Mutant of Requeue: the refused transaction is not sent to the queue again.
Requeue_Forgotten(w) ==
    /\ pc[w] = "requeue"
    /\ LET i == Head(job[w].admitted)
       IN  job' = [job EXCEPT ![w].admitted = Tail(@), ![w].results[i] = "AccountInUse"]
    /\ pc' = [pc EXCEPT ![w] = IF Tail(job[w].admitted) = <<>> THEN "group" ELSE "refused"]
    /\ UNCHANGED <<sent, fate, recorded, channel, exit, poh_alive, accounts, cost_tracker,
                   lockVars, freeze_lock_count>>

\* ... and it is sent to the queue again.
Requeue(w) ==
    /\ pc[w] = "requeue"
    /\ LET i == Head(job[w].admitted)
       IN  /\ job' = [job EXCEPT ![w].admitted = Tail(@), ![w].results[i] = "AccountInUse"]
           /\ channel' = Append(channel, job[w].batch[i])
    /\ pc' = [pc EXCEPT ![w] = IF Tail(job[w].admitted) = <<>> THEN "group" ELSE "refused"]
    /\ UNCHANGED <<sent, fate, recorded, exit, poh_alive, accounts, cost_tracker, lockVars,
                   freeze_lock_count>>

\* process_single_transaction of member i, in parallel with the other members:
\* check_preflight_rules, ...
PreflightFails(w, i) ==
    /\ pc[w] = "execute" /\ job[w].outcome[i] = "Running"
    /\ TxAt(w, i).recent_blockhash \notin blockhash_queue
    /\ job' = [job EXCEPT ![w].outcome[i] = "BlockhashNotFound"]
    /\ UNCHANGED <<sent, fate, recorded, channel, exit, poh_alive, accounts,
                   cost_tracker, lockVars, freeze_lock_count, pc>>

\* ... load_and_verify_accounts, one key after the other, ...
LoadAccount(w, i) ==
    /\ pc[w] = "execute" /\ job[w].outcome[i] = "Running"
    /\ TxAt(w, i).recent_blockhash \in blockhash_queue
    /\ LET n == Len(job[w].loaded[i]) + 1
       IN  /\ n <= Len(TxAt(w, i).account_keys)
           /\ job' = [job EXCEPT ![w].loaded[i] =
                         Append(@, Load(accounts, TxAt(w, i).account_keys[n]))]
    /\ UNCHANGED <<sent, fate, recorded, channel, exit, poh_alive, accounts,
                   cost_tracker, lockVars, freeze_lock_count, pc>>

\* ... execute_instructions, and the overlay.
Execute(w, i) ==
    /\ pc[w] = "execute" /\ job[w].outcome[i] = "Running"
    /\ TxAt(w, i).recent_blockhash \in blockhash_queue
    /\ Len(job[w].loaded[i]) = Len(TxAt(w, i).account_keys)
    /\ LET done == execute_instructions(TxAt(w, i), job[w].loaded[i])
       IN  /\ done.result # "panic"
           /\ job' = [job EXCEPT
                     ![w].loaded[i] = done.loaded,
                     ![w].outcome[i] = IF done.result = "Ok" THEN "Ok" ELSE "ProgramError"]
    /\ UNCHANGED <<sent, fate, recorded, channel, exit, poh_alive, accounts,
                   cost_tracker, lockVars, freeze_lock_count, pc>>

\* Mutant of Unwind: the bank is left held, as if only the normal way out let go.
Unwind_KeepsFreezeLock(w, where) ==
    /\ Locks!DropGuard(w)
    /\ fate' = Settle(Unsettled(w), "Aborted")
    /\ pc' = [pc EXCEPT ![w] = where]
    /\ job' = [job EXCEPT ![w] = EmptyJob]
    /\ UNCHANGED <<sent, recorded, channel, exit, poh_alive, accounts, cost_tracker,
                   freeze_lock_count>>

\* Leaving process_batch from within a group: both guards are dropped and nothing
\* else is undone.
Unwind(w, where) ==
    /\ Locks!DropGuard(w)
    /\ freeze_lock_count' = freeze_lock_count - 1
    /\ fate' = Settle(Unsettled(w), "Aborted")
    /\ pc' = [pc EXCEPT ![w] = where]
    /\ job' = [job EXCEPT ![w] = EmptyJob]
    /\ UNCHANGED <<sent, recorded, channel, exit, poh_alive, accounts, cost_tracker>>

\* A program panics: par_iter hands the panic on, which ends the loop's task.  What the
\* other members still do before it arrives is seen by nobody.
ExecutePanics(w, i) ==
    /\ pc[w] = "execute" /\ job[w].outcome[i] = "Running"
    /\ TxAt(w, i).recent_blockhash \in blockhash_queue
    /\ Len(job[w].loaded[i]) = Len(TxAt(w, i).account_keys)
    /\ execute_instructions(TxAt(w, i), job[w].loaded[i]).result = "panic"
    /\ Unwind(w, "stopped")

ExecutionEnded(w) ==
    pc[w] = "execute" /\ \A i \in Members(w) : job[w].outcome[i] # "Running"

\* The hash of the group, failed members included, goes to the PoH thread.
Record(w) ==
    /\ ExecutionEnded(w)
    /\ \A i \in Members(w) : has_first_signature(TxAt(w, i))
    /\ poh_alive
    /\ recorded' = Append(recorded, [n \in DOMAIN job[w].admitted |->
                                        job[w].batch[job[w].admitted[n]]])
    /\ pc' = [pc EXCEPT ![w] = "collect"]
    /\ UNCHANGED <<sent, fate, channel, exit, poh_alive, accounts, cost_tracker,
                   lockVars, freeze_lock_count, job>>

\* Mutant of RecordFails: the error is swallowed and the group goes on to commit.
RecordFails_Ignored(w) ==
    /\ ExecutionEnded(w)
    /\ \A i \in Members(w) : has_first_signature(TxAt(w, i))
    /\ ~poh_alive
    /\ pc' = [pc EXCEPT ![w] = "collect"]
    /\ UNCHANGED <<sent, fate, recorded, channel, exit, poh_alive, accounts,
                   cost_tracker, lockVars, freeze_lock_count, job>>

\* SendError: process_batch returns Err.
RecordFails(w) ==
    /\ ExecutionEnded(w)
    /\ \A i \in Members(w) : has_first_signature(TxAt(w, i))
    /\ ~poh_alive
    /\ Unwind(w, "head")

\* A member without a signature panics the recorder, which ends the loop's task.
RecordPanics(w) ==
    /\ ExecutionEnded(w)
    /\ \E i \in Members(w) : ~has_first_signature(TxAt(w, i))
    /\ Unwind(w, "stopped")

\* The loop over group_results, in one step: nothing a member can end with here is
\* retryable, so it shares the tracker alone, which it only lowers.
CollectResults(w) ==
    /\ pc[w] = "collect"
    /\ LET outcome   == job[w].outcome
           succeeded == {i \in Members(w) : outcome[i] = "Ok"}
           failed    == Those(job[w].admitted, Members(w) \ succeeded)
           retryable == Those(failed, {i \in Members(w) : is_retryable(outcome[i])})
       IN  /\ cost_tracker' = Refund(w, failed)
           /\ channel' = channel \o [n \in DOMAIN retryable |-> job[w].batch[retryable[n]]]
           /\ job' = [job EXCEPT
                        ![w].results = [i \in DOMAIN @ |->
                            IF i \in ToSet(failed) THEN outcome[i] ELSE @[i]],
                        ![w].overlays = Those(job[w].admitted, succeeded)]
           /\ fate' = [id \in DOMAIN fate |->
                         IF \E i \in ToSet(failed) \ ToSet(retryable) : job[w].batch[i] = id
                         THEN outcome[CHOOSE i \in ToSet(failed) : job[w].batch[i] = id]
                         ELSE fate[id]]
    /\ pc' = [pc EXCEPT ![w] = "commit"]
    /\ UNCHANGED <<sent, recorded, exit, poh_alive, accounts, lockVars, freeze_lock_count>>

\* Mutant of BeginFlush: the overlays are flushed in the opposite order.
BeginFlush_LastFirst(w) ==
    /\ pc[w] = "commit" /\ job[w].overlays # <<>> /\ DOMAIN job[w].flushing = {}
    /\ LET i == Last(job[w].overlays)
       IN  /\ job' = [job EXCEPT ![w].overlays = Front(@),
                                 ![w].flushing = overlay_of(TxAt(w, i), job[w].loaded[i])]
           /\ fate' = Settle(Ids(w, {i}), "Committed")
    /\ UNCHANGED <<sent, recorded, channel, exit, poh_alive, accounts, cost_tracker,
                   lockVars, freeze_lock_count, pc>>

\* commit_overlays: the overlays are flushed one after the other, ...
BeginFlush(w) ==
    /\ pc[w] = "commit" /\ job[w].overlays # <<>> /\ DOMAIN job[w].flushing = {}
    /\ LET i == Head(job[w].overlays)
       IN  /\ job' = [job EXCEPT ![w].overlays = Tail(@),
                                 ![w].flushing = overlay_of(TxAt(w, i), job[w].loaded[i])]
           /\ fate' = Settle(Ids(w, {i}), "Committed")
    /\ UNCHANGED <<sent, recorded, channel, exit, poh_alive, accounts, cost_tracker,
                   lockVars, freeze_lock_count, pc>>

\* ... key by key, in the order of the hash map.
FlushAccount(w, key) ==
    /\ pc[w] = "commit" /\ key \in DOMAIN job[w].flushing
    /\ accounts' = Store(accounts, key, job[w].flushing[key])
    /\ job' = [job EXCEPT ![w].flushing =
                  [k \in DOMAIN @ \ {key} |-> @[k]]]
    /\ UNCHANGED <<sent, fate, recorded, channel, exit, poh_alive, cost_tracker,
                   lockVars, freeze_lock_count, pc>>

\* drop(lock_guard); drop(freeze_lock).
ReleaseGroup(w) ==
    /\ pc[w] = "commit" /\ job[w].overlays = <<>> /\ DOMAIN job[w].flushing = {}
    /\ Locks!DropGuard(w)
    /\ freeze_lock_count' = freeze_lock_count - 1
    /\ pc' = [pc EXCEPT ![w] = "group"]
    /\ job' = [job EXCEPT ![w].loaded = EmptyMap, ![w].outcome = EmptyMap,
                          ![w].admitted = <<>>]
    /\ UNCHANGED <<sent, fate, recorded, channel, exit, poh_alive, accounts, cost_tracker>>

-----------------------------------------------------------------------------
WorkerStep(w) ==
    \/ Stop(w) \/ Poll(w) \/ Receive(w) \/ ReceiveEnds(w)
    \/ VerifyPanics(w) \/ Cancelled(w) \/ VerifyAndSchedule(w)
    \/ NextGroup(w) \/ FinishBatch(w)
    \/ WouldFit(w) \/ WouldNotFit(w) \/ AddCost(w) \/ AdmissionEnds(w)
    \/ LockAccounts(w) \/ AccountsInUse(w) \/ RollBackCost(w) \/ Requeue(w)
    \/ \E i \in DOMAIN job[w].outcome :
          PreflightFails(w, i) \/ LoadAccount(w, i) \/ Execute(w, i) \/ ExecutePanics(w, i)
    \/ Record(w) \/ RecordFails(w) \/ RecordPanics(w) \/ CollectResults(w)
    \/ BeginFlush(w)
    \/ \E key \in DOMAIN job[w].flushing : FlushAccount(w, key)
    \/ ReleaseGroup(w)

\* Everything has stopped.
Terminated ==
    /\ MainReturned
    /\ \A w \in Worker : pc[w] = "stopped"
    /\ UNCHANGED vars

Next ==
    \/ \E tx \in Tx : SendTransaction(tx)
    \/ Exit
    \/ PohStops
    \/ \E w \in Worker : WorkerStep(w)
    \/ Terminated

Spec == Init /\ [][Next]_vars

\* Each loop is a task the runtime keeps polling, and main reacts to the end of one.
FairSpec ==
    /\ Spec
    /\ \A w \in Worker : WF_vars(WorkerStep(w))
    /\ WF_vars(Exit /\ \E w \in Worker : pc[w] = "stopped")

-----------------------------------------------------------------------------
Fates == {"Pending", "Committed", "Aborted", "InvalidSignature", "BlockhashNotFound",
          "ProgramError", "WouldExceedMaxBlockCostLimit"}
Places == {"head", "recv", "verify", "group", "admit", "add", "lock", "refused",
           "requeue", "execute", "collect", "commit", "stopped"}

\* Types: lamports and costs stay in the range of u64, and a batch within its limit.
TypeOK ==
    /\ Len(fate) = Len(sent)
    /\ ToSet(fate) \subseteq Fates
    /\ ToSet(channel) \subseteq DOMAIN sent
    /\ DOMAIN accounts \subseteq Pubkey
    /\ \A key \in DOMAIN accounts : accounts[key].lamports \in 0..U64_MAX
    /\ cost_tracker.block_cost \in 0..U64_MAX
    /\ freeze_lock_count \in Nat
    /\ \A w \in Worker : pc[w] \in Places /\ Len(job[w].batch) <= BATCH_SIZE_LIMIT

\* The account state as a whole: an overlay counts from the moment its flush begins.
LedgerOf ==
    LET flushing(key) == {w \in Worker : key \in DOMAIN job[w].flushing}
    IN  [key \in DOMAIN accounts \cup UNION {DOMAIN job[w].flushing : w \in Worker} |->
            IF flushing(key) = {} THEN accounts[key]
            ELSE job[CHOOSE w \in flushing(key) : TRUE].flushing[key]]

Ledger == INSTANCE SerialLedger
    WITH ledger <- LedgerOf, pending <- {id \in DOMAIN fate : fate[id] = "Pending"}

\* Batching, grouping, parallel execution, key-by-key commit and retries are not
\* visible in the accounts: they change as if committed transactions ran one at a
\* time, each whole and at most once, and nothing else changed them.
Serializable == Ledger!Spec

\* No interleaving of loads and flushes creates or destroys lamports.
LamportsConserved == Lamports(LedgerOf) = Lamports(InitAccounts)

\* How often a submission sits in the queue or in a batch that has to settle it.
Copies(id) ==
    Cardinality({n \in DOMAIN channel : channel[n] = id})
      + Cardinality({p \in Worker \X (1..BATCH_SIZE_LIMIT) :
                        p[2] \in Held(p[1]) /\ job[p[1]].batch[p[2]] = id})

\* A transaction that is neither committed nor given an error is in exactly one
\* place, on every path out of process_batch: it is not forgotten and not doubled.
PendingExactlyOnce ==
    \A id \in DOMAIN fate :
        /\ fate[id] = "Pending" => Copies(id) = 1
        /\ Copies(id) <= 1

\* When process_batch is about to return, its results tell the truth: None is a
\* transaction that is in the accounts, and an error one that is not.
ResultsTellFate ==
    \A w \in Worker :
        pc[w] = "group" /\ job[w].groups = <<>> =>
            \A i \in DOMAIN job[w].results :
                job[w].results[i] # "AccountInUse" =>
                    fate[job[w].batch[i]] =
                        IF job[w].results[i] = "None" THEN "Committed" ELSE job[w].results[i]

\* Nothing reaches the accounts before the group it ran in was given to PoH, and
\* no transaction is given to PoH twice.
CommittedWasRecorded ==
    /\ \A id \in DOMAIN fate :
          fate[id] = "Committed" => \E r \in DOMAIN recorded : id \in ToSet(recorded[r])
    /\ \A r, q \in DOMAIN recorded :
          r # q => ToSet(recorded[r]) \cap ToSet(recorded[q]) = {}

\* Every way out of a group, errors and panics included, gives back its locks and
\* its hold on the bank.
InGroup == {w \in Worker : pc[w] \in {"execute", "collect", "commit"}}
GuardsOnlyInGroup ==
    /\ holding = InGroup
    /\ freeze_lock_count = Cardinality(InGroup)
    /\ InGroup = {} => write_locks = {} /\ DOMAIN read_locks = {}

SumOfCosts(w, indices) == SumFunction([i \in indices |-> CostAt(w, i).sum])

\* With one loop the tracker is exact between groups: it holds the costs of what
\* this batch has committed, per block and per written account, and nothing of a
\* failed, refused or earlier transaction.
TrackerIsOfCommitted ==
    \A w \in Worker :
        /\ pc[w] = "group" =>
              LET committed == {i \in DOMAIN job[w].batch : fate[job[w].batch[i]] = "Committed"}
                  writers(key) == {i \in committed : key \in CostAt(w, i).writable_accounts}
                  by == cost_tracker.cost_by_writable_accounts
              IN  /\ cost_tracker.block_cost = SumOfCosts(w, committed)
                  /\ \A key \in Pubkey :
                        SumOfCosts(w, writers(key)) = IF key \in DOMAIN by THEN by[key] ELSE 0
        /\ pc[w] \in {"recv", "verify"} => cost_tracker = NewTracker

\* With one loop no batch exceeds the block limit, and an account exceeds its own
\* limit only through one single transaction, the first to write it: would_fit does
\* not compare an account that has no entry yet.
LimitsKept ==
    /\ cost_tracker.block_cost <= block_cost_limit
    /\ \A key \in DOMAIN cost_tracker.cost_by_writable_accounts :
          LET charged == cost_tracker.cost_by_writable_accounts[key]
          IN  charged > account_cost_limit =>
                \E tx \in Tx : LET cost == calculate_cost(tx)
                              IN  key \in cost.writable_accounts /\ charged = cost.sum

\* Every transaction in the queue is committed or gets an error, unless the node
\* is told to exit: nothing is retried forever or left behind.
EventuallySettled ==
    \A id \in 1..MaxSubmissions :
        (id \in DOMAIN fate /\ fate[id] = "Pending")
            ~> (exit \/ (id \in DOMAIN fate /\ fate[id] # "Pending"))

\* readme.md on a transaction over the cost limit: "BankingStage->>TxQueue:
\* re-queue(tx)".  When process_batch returns, what its results call over the limit
\* is in the queue again (with one loop nobody else can have taken it).
OverLimitIsRequeued ==
    \A w \in Worker :
        pc[w] = "group" /\ job[w].groups = <<>> =>
            \A i \in DOMAIN job[w].results :
                job[w].results[i] = "WouldExceedMaxBlockCostLimit"
                    => job[w].batch[i] \in ToSet(channel)
=============================================================================
