------------------------------ MODULE CostModel ------------------------------
(***************************************************************************)
(* The cost model and the cost tracker (src/src/cost_model.rs).            *)
(*                                                                         *)
(* A cost is [sum, writable_accounts].  A tracker is [block_cost,          *)
(* cost_by_writable_accounts], the latter a function on the keys that have *)
(* an entry.  Counters are u64: atomics wrap, saturating_add does not.     *)
(***************************************************************************)
EXTENDS Transactions, U64, FiniteSets

CONSTANTS SIGNATURE_COST, WRITE_LOCK_UNITS, INSTRUCTION_DATA_BYTES_COST,
          BUILTIN_PROGRAM_COST, BPF_PROGRAM_COST,
          BuiltinPrograms,     \* CostModel::builtin_programs
          block_cost_limit, account_cost_limit

ASSUME CostConstants ==
    /\ {SIGNATURE_COST, WRITE_LOCK_UNITS, INSTRUCTION_DATA_BYTES_COST,
        BUILTIN_PROGRAM_COST, BPF_PROGRAM_COST,
        block_cost_limit, account_cost_limit} \subseteq Nat
    /\ block_cost_limit < U64_MAX
    /\ account_cost_limit < U64_MAX

ProgramCost(ix) ==
    IF ix.program_id \in BuiltinPrograms THEN BUILTIN_PROGRAM_COST ELSE BPF_PROGRAM_COST

\* calculate_cost and TransactionCost::sum.
calculate_cost(tx) ==
    LET data_and_execution ==
            FoldLeft(LAMBDA n, ix : n + ix.data_len * INSTRUCTION_DATA_BYTES_COST
                                      + ProgramCost(ix), 0, tx.instructions)
        write_set == extract_sets(tx).write_set
    IN  [sum |-> saturating_add(Len(tx.signatures) * SIGNATURE_COST
                                  + Cardinality(write_set) * WRITE_LOCK_UNITS,
                                data_and_execution),
         writable_accounts |-> write_set]

NewTracker == [block_cost |-> 0, cost_by_writable_accounts |-> [key \in {} |-> 0]]

\* Mutant of would_fit: the limits are compared with the cost so far only.
would_fit_IgnoresNew(tracker, cost) ==
    /\ tracker.block_cost <= block_cost_limit
    /\ \A key \in cost.writable_accounts \cap DOMAIN tracker.cost_by_writable_accounts :
          tracker.cost_by_writable_accounts[key] <= account_cost_limit

\* would_fit(cost).is_ok().  An account without an entry is not compared.
would_fit(tracker, cost) ==
    /\ saturating_add(tracker.block_cost, cost.sum) <= block_cost_limit
    /\ \A key \in cost.writable_accounts \cap DOMAIN tracker.cost_by_writable_accounts :
          saturating_add(tracker.cost_by_writable_accounts[key], cost.sum) <= account_cost_limit

add_cost(tracker, cost) ==
    LET by == tracker.cost_by_writable_accounts
    IN  [block_cost |-> wrapping_add(tracker.block_cost, cost.sum),
         cost_by_writable_accounts |->
            [key \in DOMAIN by \cup cost.writable_accounts |->
                LET old == IF key \in DOMAIN by THEN by[key] ELSE 0
                IN  IF key \in cost.writable_accounts THEN wrapping_add(old, cost.sum) ELSE old]]

\* Mutant of subtract_cost: the accounts keep the charge.
subtract_cost_BlockOnly(tracker, cost) ==
    [tracker EXCEPT !.block_cost = wrapping_sub(@, cost.sum)]

\* An entry that is missing stays missing; one that reaches zero stays.
subtract_cost(tracker, cost) ==
    LET by == tracker.cost_by_writable_accounts
    IN  [block_cost |-> wrapping_sub(tracker.block_cost, cost.sum),
         cost_by_writable_accounts |->
            [key \in DOMAIN by |->
                IF key \in cost.writable_accounts
                THEN wrapping_sub(by[key], cost.sum) ELSE by[key]]]

-----------------------------------------------------------------------------
\* What calculate_cost can count.
HasCost(tx) ==
    /\ HasInstructions(tx) /\ Len(tx.signatures) \in Nat
    /\ IsFiniteSet(extract_sets(tx).write_set)
    /\ \A k \in 1..Len(tx.instructions) : tx.instructions[k].data_len \in Nat
=============================================================================
