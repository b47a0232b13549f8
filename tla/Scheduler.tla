------------------------------ MODULE Scheduler ------------------------------
(***************************************************************************)
(* TransactionScheduler::schedule (src/src/scheduler.rs): the split of a   *)
(* batch into groups whose members run in parallel.                        *)
(*                                                                         *)
(* The state machine follows the loop: one pass over the remaining indices *)
(* (BTreeSet::retain, ascending) makes one group.  Module Schedule         *)
(* holds the comparison it makes, and its result as a function.  Indices   *)
(* start at 1 here and at 0 in the code.                                   *)
(***************************************************************************)
EXTENDS Schedule

CONSTANTS Pubkey,   \* account addresses
          Batch     \* the inputs: sequences of TransactionSets

TransactionSets == [read_set: SUBSET Pubkey, write_set: SUBSET Pubkey]

ASSUME BatchIsSeq == Batch \subseteq Seq(TransactionSets)

VARIABLES tx_sets,                  \* the extracted sets, one per transaction
          remaining_tx_indices,     \* not yet in a group
          to_visit,                 \* what the current retain has still to visit
          current_group_indices,
          current_group_write_set,
          scheduled_groups,
          pc                        \* "retain" or "done"

vars == <<tx_sets, remaining_tx_indices, to_visit, current_group_indices,
          current_group_write_set, scheduled_groups, pc>>

-----------------------------------------------------------------------------
Init ==
    /\ tx_sets \in Batch
    /\ remaining_tx_indices = DOMAIN tx_sets
    /\ to_visit = DOMAIN tx_sets
    /\ current_group_indices = <<>>
    /\ current_group_write_set = {}
    /\ scheduled_groups = <<>>
    /\ pc = IF tx_sets = <<>> THEN "done" ELSE "retain"

\* i is the index the retain closure is called with.
Visits(i) == pc = "retain" /\ i \in to_visit /\ \A j \in to_visit : i <= j

\* Mutant of Take: the writes of the transaction just taken are not remembered.
Take_ForgetsWrites(i) ==
    /\ Visits(i)
    /\ ~Conflicts(tx_sets[i], current_group_write_set)
    /\ current_group_indices' = Append(current_group_indices, i)
    /\ current_group_write_set' = tx_sets[i].write_set
    /\ remaining_tx_indices' = remaining_tx_indices \ {i}
    /\ to_visit' = to_visit \ {i}
    /\ UNCHANGED <<tx_sets, scheduled_groups, pc>>

\* Mutant of Take: what the transaction reads is held against later ones too.
Take_KeepsReads(i) ==
    /\ Visits(i)
    /\ ~Conflicts(tx_sets[i], current_group_write_set)
    /\ current_group_indices' = Append(current_group_indices, i)
    /\ current_group_write_set' = current_group_write_set \cup Touched(tx_sets[i])
    /\ remaining_tx_indices' = remaining_tx_indices \ {i}
    /\ to_visit' = to_visit \ {i}
    /\ UNCHANGED <<tx_sets, scheduled_groups, pc>>

\* The closure returns false: i joins the group and leaves remaining_tx_indices.
Take(i) ==
    /\ Visits(i)
    /\ ~Conflicts(tx_sets[i], current_group_write_set)
    /\ current_group_indices' = Append(current_group_indices, i)
    /\ current_group_write_set' = current_group_write_set \cup tx_sets[i].write_set
    /\ remaining_tx_indices' = remaining_tx_indices \ {i}
    /\ to_visit' = to_visit \ {i}
    /\ UNCHANGED <<tx_sets, scheduled_groups, pc>>

\* Mutant of Keep: a conflicting index is visited but falls out of the set.
Keep_Drops(i) ==
    /\ Visits(i)
    /\ Conflicts(tx_sets[i], current_group_write_set)
    /\ to_visit' = to_visit \ {i}
    /\ remaining_tx_indices' = remaining_tx_indices \ {i}
    /\ UNCHANGED <<tx_sets, current_group_indices, current_group_write_set,
                   scheduled_groups, pc>>

\* The closure returns true: i waits for a later pass.
Keep(i) ==
    /\ Visits(i)
    /\ Conflicts(tx_sets[i], current_group_write_set)
    /\ to_visit' = to_visit \ {i}
    /\ UNCHANGED <<tx_sets, remaining_tx_indices, current_group_indices,
                   current_group_write_set, scheduled_groups, pc>>

\* Mutant of EndPass: the write set of the closed group is carried over.
EndPass_KeepsWrites ==
    /\ pc = "retain"
    /\ to_visit = {}
    /\ scheduled_groups' = IF current_group_indices = <<>> THEN scheduled_groups
                           ELSE Append(scheduled_groups, current_group_indices)
    /\ current_group_indices' = <<>>
    /\ to_visit' = remaining_tx_indices
    /\ pc' = IF remaining_tx_indices = {} THEN "done" ELSE "retain"
    /\ UNCHANGED <<tx_sets, remaining_tx_indices, current_group_write_set>>

\* Mutant of EndPass: the next pass starts over with every index of the batch.
EndPass_RestartsAll ==
    /\ pc = "retain"
    /\ to_visit = {}
    /\ scheduled_groups' = IF current_group_indices = <<>> THEN scheduled_groups
                           ELSE Append(scheduled_groups, current_group_indices)
    /\ current_group_indices' = <<>>
    /\ current_group_write_set' = {}
    /\ to_visit' = DOMAIN tx_sets
    /\ pc' = IF remaining_tx_indices = {} THEN "done" ELSE "retain"
    /\ UNCHANGED <<tx_sets, remaining_tx_indices>>

\* The end of the loop body and the test of the while: the group is pushed
\* unless it is empty, and a new pass starts while indices remain.
EndPass ==
    /\ pc = "retain"
    /\ to_visit = {}
    /\ scheduled_groups' = IF current_group_indices = <<>> THEN scheduled_groups
                           ELSE Append(scheduled_groups, current_group_indices)
    /\ current_group_indices' = <<>>
    /\ current_group_write_set' = {}
    /\ to_visit' = remaining_tx_indices
    /\ pc' = IF remaining_tx_indices = {} THEN "done" ELSE "retain"
    /\ UNCHANGED <<tx_sets, remaining_tx_indices>>

\* schedule has returned.
Returned == pc = "done" /\ UNCHANGED vars

Next ==
    \/ \E i \in to_visit : Take(i) \/ Keep(i)
    \/ EndPass
    \/ Returned

Spec == Init /\ [][Next]_vars

\* One thread runs the loop to its end.
FairSpec == Spec /\ WF_vars(Next)

-----------------------------------------------------------------------------
\* The groups made so far, the open one included.
Groups == Append(scheduled_groups, current_group_indices)

\* Types: groups hold indices of the batch, and a pass visits waiting indices only.
TypeOK ==
    /\ tx_sets \in Seq(TransactionSets)
    /\ remaining_tx_indices \subseteq DOMAIN tx_sets
    /\ to_visit \subseteq remaining_tx_indices
    /\ current_group_indices \in Seq(DOMAIN tx_sets)
    /\ current_group_write_set \subseteq Pubkey
    /\ scheduled_groups \in Seq(Seq(DOMAIN tx_sets))
    /\ pc \in {"retain", "done"}

\* No transaction is lost and none is scheduled twice: every index is either
\* still waiting or in exactly one place of one group.
EachOnce ==
    /\ \A i \in DOMAIN tx_sets :
          \/ i \in remaining_tx_indices
          \/ \E g \in DOMAIN Groups : \E p \in DOMAIN Groups[g] : Groups[g][p] = i
    /\ \A g \in DOMAIN Groups : \A p \in DOMAIN Groups[g] :
          /\ Groups[g][p] \notin remaining_tx_indices
          /\ \A h \in DOMAIN Groups : \A q \in DOMAIN Groups[h] :
                Groups[g][p] = Groups[h][q] => g = h /\ p = q

\* Members of a group may run in parallel and be committed in group order: no
\* member reads or writes what a member before it writes.  (A member may write
\* what a member before it reads.)
GroupsConflictFree ==
    \A g \in DOMAIN Groups : \A q \in DOMAIN Groups[g] : \A p \in 1..(q - 1) :
        Touched(tx_sets[Groups[g][q]]) \cap tx_sets[Groups[g][p]].write_set = {}

\* Some member of the group comes before i in the batch and writes a key i names.
BlockedBy(sets, i, group) ==
    \E p \in DOMAIN group :
        /\ group[p] < i
        /\ Conflicts(sets[i], sets[group[p]].write_set)

\* A transaction waits only for a reason: every group before its own blocks it.
DelayedOnlyByConflict ==
    \A h \in DOMAIN scheduled_groups :
        /\ \A i \in remaining_tx_indices : BlockedBy(tx_sets, i, Groups[h])
        /\ \A g \in (h + 1)..Len(Groups) : \A p \in DOMAIN Groups[g] :
              BlockedBy(tx_sets, Groups[g][p], Groups[h])

\* The loop computes ScheduleOf, the function the banking stage uses.
ReturnsScheduleOf == pc = "done" => scheduled_groups = ScheduleOf(tx_sets)

\* The loop ends: every pass removes at least one index.
Terminates == <>(pc = "done")
=============================================================================
