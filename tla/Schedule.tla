------------------------------ MODULE Schedule ------------------------------
(***************************************************************************)
(* TransactionScheduler::schedule (src/src/scheduler.rs) as a function of  *)
(* the read and write sets of a batch.  Module Scheduler is its loop, step *)
(* by step, and shows that the loop computes this function.                *)
(***************************************************************************)
EXTENDS Naturals, Sequences, SequencesExt

\* The elements of a sequence that are in a set, in their order.
Those(seq, set) ==
    FoldLeft(LAMBDA those, x : IF x \in set THEN Append(those, x) ELSE those, <<>>, seq)

\* The keys a transaction names, read or written.
Touched(sets) == sets.read_set \cup sets.write_set

\* Mutant of Conflicts: reads are not compared with the group's writes.
Conflicts_WritesOnly(sets, group_write_set) ==
    sets.write_set \cap group_write_set # {}

\* read_conflict || write_conflict, against the writes of the open group.
Conflicts(sets, group_write_set) == Touched(sets) \cap group_write_set # {}

\* The retain closure called with index i, on the open group.
Visit(sets, remaining, open, i) ==
    IF i \notin remaining \/ Conflicts(sets[i], open.write_set) THEN open
    ELSE [indices   |-> Append(open.indices, i),
          write_set |-> open.write_set \cup sets[i].write_set]

\* One pass over the remaining indices, in ascending order: the group it makes.
EmptyGroup == [indices |-> <<>>, write_set |-> {}]
Pass(sets, remaining) ==
    FoldLeftDomain(LAMBDA open, i : Visit(sets, remaining, open, i), EmptyGroup, sets).indices

\* The body of the while loop.
NextGroupOf(sets, state) ==
    IF state.remaining = {} THEN state
    ELSE LET group == Pass(sets, state.remaining)
         IN  [remaining |-> state.remaining \ ToSet(group),
              groups    |-> Append(state.groups, group)]

\* The groups schedule returns for the sets of a batch, as a function of them: a pass
\* takes at least one index, so there are at most as many passes as indices.
ScheduleOf(sets) ==
    LET after[k \in 0..Len(sets)] ==
            IF k = 0 THEN [remaining |-> DOMAIN sets, groups |-> <<>>]
            ELSE NextGroupOf(sets, after[k - 1])
    IN  after[Len(sets)].groups
=============================================================================
