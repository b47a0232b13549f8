--------------------------- MODULE SchedulerProofs ---------------------------
(***************************************************************************)
(* Proofs about Scheduler, for every set of keys and every batch.  The     *)
(* properties about groups are not inductive by themselves: the loop       *)
(* compares a transaction with current_group_write_set, so one has to know *)
(* that this set is what the members of the open group write, and that the *)
(* indices the pass left behind conflict with one of those members.        *)
(***************************************************************************)
EXTENDS Scheduler, OperatorProofs, TLAPS

\* current_group_write_set is the union of the write sets of the open group.
WriteSetOfGroup ==
    current_group_write_set =
        UNION {tx_sets[current_group_indices[p]].write_set :
                  p \in DOMAIN current_group_indices}

\* retain visits in ascending order: the members of the open group come before
\* everything the pass has still to visit.
TakenBefore ==
    \A p \in DOMAIN current_group_indices : \A j \in to_visit :
        current_group_indices[p] < j

\* What the pass has visited and left behind conflicts with an earlier member.
KeptConflicts ==
    \A i \in remaining_tx_indices \ to_visit : BlockedBy(tx_sets, i, current_group_indices)

Inv ==
    /\ TypeOK
    /\ EachOnce
    /\ GroupsConflictFree
    /\ DelayedOnlyByConflict
    /\ WriteSetOfGroup
    /\ TakenBefore
    /\ KeptConflicts

\* The closed groups and the open one, as one sequence.
LEMMA GroupsShape ==
    ASSUME TypeOK
    PROVE  /\ Groups \in Seq(Seq(DOMAIN tx_sets))
           /\ Len(Groups) = Len(scheduled_groups) + 1
           /\ DOMAIN Groups = 1..(Len(scheduled_groups) + 1)
           /\ DOMAIN scheduled_groups = 1..Len(scheduled_groups)
           /\ Len(scheduled_groups) \in Nat
           /\ \A g \in DOMAIN scheduled_groups : Groups[g] = scheduled_groups[g]
           /\ Groups[Len(scheduled_groups) + 1] = current_group_indices
BY DEF TypeOK, Groups

LEMMA InitInv == Init => Inv
<1> SUFFICES ASSUME Init PROVE Inv
  OBVIOUS
<1>1. TypeOK
  BY BatchIsSeq DEF Init, TypeOK
<1>2. /\ DOMAIN Groups = {1}
      /\ Groups[1] = <<>>
  BY DEF Init, Groups
<1>3. EachOnce
  BY <1>2 DEF Init, EachOnce
<1>4. GroupsConflictFree
  BY <1>2 DEF GroupsConflictFree
<1>5. DelayedOnlyByConflict
  BY DEF Init, DelayedOnlyByConflict
<1>6. WriteSetOfGroup /\ TakenBefore /\ KeptConflicts
  BY DEF Init, WriteSetOfGroup, TakenBefore, KeptConflicts
<1> QED
  BY <1>1, <1>3, <1>4, <1>5, <1>6 DEF Inv

\* The closure takes an index into the open group.
LEMMA TakeInv ==
    ASSUME Inv, NEW i \in to_visit, Take(i)
    PROVE  Inv'
<1> DEFINE n == Len(scheduled_groups) + 1
           m == Len(current_group_indices) + 1
<1>0. /\ TypeOK /\ EachOnce /\ GroupsConflictFree /\ DelayedOnlyByConflict
      /\ WriteSetOfGroup /\ TakenBefore /\ KeptConflicts
  BY DEF Inv
<1>1. /\ i \in remaining_tx_indices
      /\ i \in DOMAIN tx_sets
      /\ \A j \in to_visit : i <= j
      /\ ~Conflicts(tx_sets[i], current_group_write_set)
      /\ current_group_indices' = Append(current_group_indices, i)
      /\ current_group_write_set' = current_group_write_set \cup tx_sets[i].write_set
      /\ remaining_tx_indices' = remaining_tx_indices \ {i}
      /\ to_visit' = to_visit \ {i}
      /\ tx_sets' = tx_sets
      /\ scheduled_groups' = scheduled_groups
      /\ pc' = pc
  BY <1>0 DEF Take, Visits, TypeOK
<1>2. /\ DOMAIN tx_sets = 1..Len(tx_sets)
      /\ Len(tx_sets) \in Nat
      /\ tx_sets[i] \in TransactionSets
  BY <1>0, <1>1 DEF TypeOK
<1>3. TypeOK'
  <2>1. current_group_indices' \in Seq(DOMAIN tx_sets)
    BY <1>0, <1>1 DEF TypeOK
  <2>2. current_group_write_set' \subseteq Pubkey
    BY <1>0, <1>1, <1>2 DEF TypeOK, TransactionSets
  <2> QED
    BY <1>0, <1>1, <2>1, <2>2 DEF TypeOK
<1>4. /\ m \in Nat \ {0}
      /\ DOMAIN current_group_indices = 1..(m - 1)
      /\ DOMAIN current_group_indices' = 1..m
      /\ \A p \in 1..(m - 1) : current_group_indices'[p] = current_group_indices[p]
      /\ current_group_indices'[m] = i
      /\ \A p \in 1..(m - 1) : current_group_indices[p] \in DOMAIN tx_sets
  BY <1>0, <1>1 DEF TypeOK
<1>5. /\ n \in Nat \ {0}
      /\ Len(Groups) = n
      /\ Len(Groups') = n
      /\ DOMAIN Groups = 1..n
      /\ DOMAIN Groups' = 1..n
      /\ DOMAIN scheduled_groups = 1..(n - 1)
      /\ \A g \in 1..(n - 1) : Groups[g] = scheduled_groups[g] /\ Groups'[g] = scheduled_groups[g]
      /\ Groups[n] = current_group_indices
      /\ Groups'[n] = current_group_indices'
  <2>1. Groups' = Append(scheduled_groups, current_group_indices')
    BY <1>1 DEF Groups
  <2> QED
    BY <1>0, <1>1, <1>3, <2>1, GroupsShape DEF TypeOK
<1> HIDE DEF n, m
<1>6. EachOnce'
  <2>1. ASSUME NEW j \in DOMAIN tx_sets, j \notin remaining_tx_indices'
        PROVE  \E g \in 1..n : \E p \in DOMAIN Groups'[g] : Groups'[g][p] = j
    <3>1. CASE j = i
      BY <1>4, <1>5, <3>1
    <3>2. CASE j # i
      <4>1. PICK g \in 1..n : \E p \in DOMAIN Groups[g] : Groups[g][p] = j
        BY <1>0, <1>1, <1>5, <2>1, <3>2 DEF EachOnce
      <4>2. CASE g = n
        BY <1>4, <1>5, <4>1, <4>2
      <4>3. CASE g # n
        BY <1>5, <4>1, <4>3
      <4> QED
        BY <4>2, <4>3
    <3> QED
      BY <3>1, <3>2
  <2>2. ASSUME NEW g \in 1..n, NEW p \in DOMAIN Groups'[g]
        PROVE  \/ g = n /\ p = m /\ Groups'[g][p] = i
               \/ p \in DOMAIN Groups[g] /\ Groups'[g][p] = Groups[g][p]
    BY <1>4, <1>5, <2>2
  <2>3. ASSUME NEW g \in 1..n, NEW p \in DOMAIN Groups[g]
        PROVE  Groups[g][p] \notin remaining_tx_indices /\ Groups[g][p] # i
    BY <1>0, <1>1, <1>5, <2>3 DEF EachOnce
  <2>4. ASSUME NEW g \in 1..n, NEW p \in DOMAIN Groups'[g],
               NEW h \in 1..n, NEW q \in DOMAIN Groups'[h],
               Groups'[g][p] = Groups'[h][q]
        PROVE  g = h /\ p = q
    <3>1. CASE p \in DOMAIN Groups[g] /\ q \in DOMAIN Groups[h]
      <4>1. Groups[g][p] = Groups[h][q]
        BY <2>2, <2>3, <2>4, <3>1
      <4> QED
        BY <1>0, <1>5, <3>1, <4>1 DEF EachOnce
    <3>2. CASE ~(p \in DOMAIN Groups[g] /\ q \in DOMAIN Groups[h])
      BY <2>2, <2>3, <2>4, <3>2
    <3> QED
      BY <3>1, <3>2
  <2>5. ASSUME NEW g \in 1..n, NEW p \in DOMAIN Groups'[g]
        PROVE  Groups'[g][p] \notin remaining_tx_indices'
    BY <1>1, <2>2, <2>3
  <2>6. \A j \in DOMAIN tx_sets :
           \/ j \in remaining_tx_indices'
           \/ \E g \in DOMAIN Groups' : \E p \in DOMAIN Groups'[g] : Groups'[g][p] = j
    BY <1>5, <2>1
  <2>7. \A g \in DOMAIN Groups' : \A p \in DOMAIN Groups'[g] :
           /\ Groups'[g][p] \notin remaining_tx_indices'
           /\ \A h \in DOMAIN Groups' : \A q \in DOMAIN Groups'[h] :
                 Groups'[g][p] = Groups'[h][q] => g = h /\ p = q
    BY <1>5, <2>4, <2>5
  <2>8. tx_sets' = tx_sets
    BY <1>1
  <2> QED
    BY <2>6, <2>7, <2>8 DEF EachOnce
<1>7. GroupsConflictFree'
  <2>1. ASSUME NEW g \in 1..n, NEW q \in DOMAIN Groups'[g], NEW p \in 1..(q - 1)
        PROVE  Touched(tx_sets[Groups'[g][q]]) \cap tx_sets[Groups'[g][p]].write_set = {}
    <3>1. CASE g # n
      BY <1>0, <1>5, <2>1, <3>1 DEF GroupsConflictFree
    <3>2. CASE g = n /\ q # m
      <4>1. q \in DOMAIN Groups[n] /\ p \in DOMAIN Groups[n]
        BY <1>4, <1>5, <2>1, <3>2
      <4>2. Groups'[n][q] = Groups[n][q] /\ Groups'[n][p] = Groups[n][p]
        BY <1>4, <1>5, <4>1
      <4> QED
        BY <1>0, <1>5, <3>2, <4>1, <4>2 DEF GroupsConflictFree
    <3>3. CASE g = n /\ q = m
      <4>1. /\ Groups'[n][q] = i
            /\ Groups'[n][p] = current_group_indices[p]
            /\ p \in DOMAIN current_group_indices
        BY <1>4, <1>5, <3>3
      <4>2. tx_sets[current_group_indices[p]].write_set \subseteq current_group_write_set
        BY <1>0, <4>1 DEF WriteSetOfGroup
      <4> QED
        BY <1>1, <3>3, <4>1, <4>2 DEF Conflicts
    <3> QED
      BY <3>1, <3>2, <3>3
  <2>2. tx_sets' = tx_sets
    BY <1>1
  <2>3. DOMAIN Groups' = 1..n
    BY <1>5
  <2> QED
    BY <2>1, <2>2, <2>3 DEF GroupsConflictFree
<1>8. DelayedOnlyByConflict'
  <2>1. tx_sets' = tx_sets /\ DOMAIN scheduled_groups' = 1..(n - 1) /\ Len(Groups') = n
    BY <1>1, <1>5
  <2>2. ASSUME NEW h \in 1..(n - 1)
        PROVE  Groups'[h] = Groups[h]
    BY <1>5
  <2>3. ASSUME NEW h \in 1..(n - 1), NEW j \in remaining_tx_indices
        PROVE  BlockedBy(tx_sets, j, Groups'[h])
    <3>1. BlockedBy(tx_sets, j, Groups[h])
      BY <1>0, <1>5 DEF DelayedOnlyByConflict
    <3> QED
      BY <2>1, <2>2, <3>1
  <2>4. ASSUME NEW h \in 1..(n - 1), NEW g \in (h + 1)..n, NEW p \in DOMAIN Groups'[g]
        PROVE  BlockedBy(tx_sets, Groups'[g][p], Groups'[h])
    <3>1. CASE Groups'[g][p] = i
      BY <1>1, <2>3, <3>1
    <3>2. CASE Groups'[g][p] # i
      <4>1. p \in DOMAIN Groups[g] /\ Groups'[g][p] = Groups[g][p]
        BY <1>4, <1>5, <2>4, <3>2
      <4>2. BlockedBy(tx_sets, Groups[g][p], Groups[h])
        BY <1>0, <1>5, <4>1 DEF DelayedOnlyByConflict
      <4> QED
        BY <2>1, <2>2, <4>1, <4>2
    <3> QED
      BY <3>1, <3>2
  <2> QED
    BY <1>1, <2>1, <2>3, <2>4 DEF DelayedOnlyByConflict
<1>9. WriteSetOfGroup'
  <2> SUFFICES current_group_write_set' =
                 UNION {tx_sets[current_group_indices'[p]].write_set : p \in 1..m}
    BY <1>1, <1>4 DEF WriteSetOfGroup
  <2>1. current_group_write_set =
          UNION {tx_sets[current_group_indices'[p]].write_set : p \in 1..(m - 1)}
    BY <1>0, <1>4 DEF WriteSetOfGroup
  <2>2. 1..m = 1..(m - 1) \cup {m}
    BY <1>4 DEF m
  <2> QED
    BY <1>1, <1>4, <2>1, <2>2
<1>10. TakenBefore'
  <2> SUFFICES ASSUME NEW p \in 1..m, NEW j \in to_visit \ {i}
               PROVE  current_group_indices'[p] < j
    BY <1>1, <1>4 DEF TakenBefore
  <2>1. i < j
    <3>1. j \in DOMAIN tx_sets
      BY <1>0 DEF TypeOK
    <3> QED
      BY <1>1, <1>2, <3>1
  <2> QED
    BY <1>0, <1>4, <2>1 DEF TakenBefore
<1>11. KeptConflicts'
  <2> SUFFICES ASSUME NEW j \in remaining_tx_indices \ to_visit
               PROVE  BlockedBy(tx_sets, j, current_group_indices')
    BY <1>1 DEF KeptConflicts
  <2>1. BlockedBy(tx_sets, j, current_group_indices)
    BY <1>0 DEF KeptConflicts
  <2>2. BlockedBy(tx_sets, j, Append(current_group_indices, i))
    BY <1>1, <1>4, <2>1 DEF BlockedBy
  <2> QED
    BY <1>1, <2>2
<1> QED
  BY <1>3, <1>6, <1>7, <1>8, <1>9, <1>10, <1>11 DEF Inv

\* The closure leaves an index for a later pass.
LEMMA KeepInv ==
    ASSUME Inv, NEW i \in to_visit, Keep(i)
    PROVE  Inv'
<1>0. /\ TypeOK /\ EachOnce /\ GroupsConflictFree /\ DelayedOnlyByConflict
      /\ WriteSetOfGroup /\ TakenBefore /\ KeptConflicts
  BY DEF Inv
<1>1. /\ Conflicts(tx_sets[i], current_group_write_set)
      /\ to_visit' = to_visit \ {i}
      /\ UNCHANGED <<tx_sets, remaining_tx_indices, current_group_indices,
                     current_group_write_set, scheduled_groups, pc>>
  BY DEF Keep
<1>2. Groups' = Groups
  BY <1>1 DEF Groups
<1>3. TypeOK'
  BY <1>0, <1>1 DEF TypeOK
<1>4. EachOnce' /\ GroupsConflictFree' /\ WriteSetOfGroup' /\ TakenBefore'
  BY <1>0, <1>1, <1>2
     DEF EachOnce, GroupsConflictFree, WriteSetOfGroup, TakenBefore, Touched
<1>5. DelayedOnlyByConflict'
  BY <1>0, <1>1, <1>2 DEF DelayedOnlyByConflict
<1>6. KeptConflicts'
  <2> SUFFICES ASSUME NEW j \in remaining_tx_indices \ to_visit'
               PROVE  BlockedBy(tx_sets, j, current_group_indices)
    BY <1>1 DEF KeptConflicts
  <2>1. CASE j # i
    BY <1>0, <1>1, <2>1 DEF KeptConflicts
  <2>2. CASE j = i
    <3>1. PICK p \in DOMAIN current_group_indices :
             Conflicts(tx_sets[i], tx_sets[current_group_indices[p]].write_set)
      BY <1>0, <1>1 DEF WriteSetOfGroup, Conflicts
    <3>2. current_group_indices[p] < i
      BY <1>0, <3>1 DEF TakenBefore
    <3> QED
      BY <2>2, <3>1, <3>2 DEF BlockedBy
  <2> QED
    BY <2>1, <2>2
<1> QED
  BY <1>3, <1>4, <1>5, <1>6 DEF Inv

\* The pass ends and its group is closed.
LEMMA EndPassInv ==
    ASSUME Inv, EndPass
    PROVE  Inv'
<1>0. /\ TypeOK /\ EachOnce /\ GroupsConflictFree /\ DelayedOnlyByConflict
      /\ WriteSetOfGroup /\ TakenBefore /\ KeptConflicts
  BY DEF Inv
<1> DEFINE n == Len(scheduled_groups) + 1
<1>1. /\ to_visit = {}
      /\ scheduled_groups' = IF current_group_indices = <<>> THEN scheduled_groups
                             ELSE Append(scheduled_groups, current_group_indices)
      /\ current_group_indices' = <<>>
      /\ current_group_write_set' = {}
      /\ to_visit' = remaining_tx_indices
      /\ remaining_tx_indices' = remaining_tx_indices
      /\ tx_sets' = tx_sets
      /\ pc' \in {"retain", "done"}
  BY DEF EndPass
<1>2. TypeOK'
  <2>1. CASE current_group_indices = <<>>
    BY <1>0, <1>1, <2>1 DEF TypeOK
  <2>2. CASE current_group_indices # <<>>
    <3>1. Append(scheduled_groups, current_group_indices) \in Seq(Seq(DOMAIN tx_sets))
      BY <1>0 DEF TypeOK
    <3> QED
      BY <1>0, <1>1, <2>2, <3>1 DEF TypeOK
  <2> QED
    BY <2>1, <2>2
<1>3. WriteSetOfGroup' /\ TakenBefore' /\ KeptConflicts'
  BY <1>1 DEF WriteSetOfGroup, TakenBefore, KeptConflicts
<1>4. CASE current_group_indices = <<>>
  <2>1. Groups' = Groups
    BY <1>1, <1>4 DEF Groups
  <2>2. EachOnce' /\ GroupsConflictFree'
    BY <1>0, <1>1, <2>1 DEF EachOnce, GroupsConflictFree, Touched
  <2>3. DelayedOnlyByConflict'
    BY <1>0, <1>1, <1>4, <2>1 DEF DelayedOnlyByConflict
  <2> QED
    BY <1>2, <1>3, <2>2, <2>3 DEF Inv
<1>5. CASE current_group_indices # <<>>
  <2>1. /\ n \in Nat \ {0}
        /\ DOMAIN Groups = 1..n
        /\ Groups[n] = current_group_indices
        /\ DOMAIN scheduled_groups = 1..(n - 1)
        /\ \A g \in 1..(n - 1) : Groups[g] = scheduled_groups[g]
        /\ Groups \in Seq(Seq(DOMAIN tx_sets))
        /\ Len(Groups) = n
    BY <1>0, GroupsShape
  <2>2. scheduled_groups' = Groups /\ Groups' = Append(Groups, <<>>)
    BY <1>1, <1>5 DEF Groups
  <2> HIDE DEF n
  <2>3. /\ DOMAIN Groups' = 1..(n + 1)
        /\ Len(Groups') = n + 1
        /\ \A g \in 1..n : Groups'[g] = Groups[g]
        /\ Groups'[n + 1] = <<>>
    BY <2>1, <2>2
  <2>4. EachOnce'
    <3>1. ASSUME NEW g \in 1..(n + 1), NEW p \in DOMAIN Groups'[g]
          PROVE  g \in 1..n /\ Groups'[g] = Groups[g] /\ p \in DOMAIN Groups[g]
      BY <2>1, <2>3, <3>1
    <3>2. \A j \in DOMAIN tx_sets :
             \/ j \in remaining_tx_indices
             \/ \E g \in 1..(n + 1) : \E p \in DOMAIN Groups'[g] : Groups'[g][p] = j
      BY <1>0, <2>1, <2>3 DEF EachOnce
    <3>3. ASSUME NEW g \in 1..(n + 1), NEW p \in DOMAIN Groups'[g]
          PROVE  Groups'[g][p] \notin remaining_tx_indices
      <4>1. g \in DOMAIN Groups /\ Groups'[g] = Groups[g] /\ p \in DOMAIN Groups[g]
        BY <2>1, <3>1
      <4> QED
        BY <1>0, <4>1 DEF EachOnce
    <3>4. ASSUME NEW g \in 1..(n + 1), NEW p \in DOMAIN Groups'[g],
                 NEW h \in 1..(n + 1), NEW q \in DOMAIN Groups'[h],
                 Groups'[g][p] = Groups'[h][q]
          PROVE  g = h /\ p = q
      <4>1. g \in DOMAIN Groups /\ Groups'[g] = Groups[g] /\ p \in DOMAIN Groups[g]
        BY <2>1, <3>1
      <4>2. h \in DOMAIN Groups /\ Groups'[h] = Groups[h] /\ q \in DOMAIN Groups[h]
        BY <2>1, <3>1
      <4> QED
        BY <1>0, <3>4, <4>1, <4>2 DEF EachOnce
    <3>5. tx_sets' = tx_sets /\ remaining_tx_indices' = remaining_tx_indices
      BY <1>1
    <3>6. DOMAIN Groups' = 1..(n + 1)
      BY <2>3
    <3> QED
      BY <3>2, <3>3, <3>4, <3>5, <3>6 DEF EachOnce
  <2>5. GroupsConflictFree'
    <3> SUFFICES ASSUME NEW g \in 1..(n + 1), NEW q \in DOMAIN Groups'[g], NEW p \in 1..(q - 1)
                 PROVE  Touched(tx_sets[Groups'[g][q]])
                          \cap tx_sets[Groups'[g][p]].write_set = {}
      BY <1>1, <2>3 DEF GroupsConflictFree, Touched
    <3>1. g \in 1..n /\ Groups'[g] = Groups[g]
      BY <2>1, <2>3
    <3> QED
      BY <1>0, <2>1, <3>1 DEF GroupsConflictFree
  <2>6. DelayedOnlyByConflict'
    <3>1. tx_sets' = tx_sets /\ DOMAIN scheduled_groups' = 1..n /\ Len(Groups') = n + 1
      BY <1>1, <2>1, <2>2, <2>3
    <3>2. ASSUME NEW h \in 1..n, NEW j \in remaining_tx_indices
          PROVE  BlockedBy(tx_sets, j, Groups'[h])
      <4>1. BlockedBy(tx_sets, j, Groups[h])
        <5>1. CASE h = n
          BY <1>0, <1>1, <2>1, <5>1 DEF KeptConflicts
        <5>2. CASE h # n
          <6>1. h \in DOMAIN scheduled_groups
            BY <2>1, <5>2
          <6> QED
            BY <1>0, <6>1 DEF DelayedOnlyByConflict
        <5> QED
          BY <5>1, <5>2
      <4> QED
        BY <2>3, <3>1, <4>1
    <3>3. ASSUME NEW h \in 1..n, NEW g \in (h + 1)..(n + 1), NEW p \in DOMAIN Groups'[g]
          PROVE  BlockedBy(tx_sets, Groups'[g][p], Groups'[h])
      <4>1. /\ g \in (h + 1)..n /\ h \in 1..(n - 1)
            /\ Groups'[g] = Groups[g] /\ Groups'[h] = Groups[h]
        <5>1. g # n + 1
          BY <2>3, <3>3
        <5>2. n \in Nat
          BY <2>1
        <5>3. g \in (h + 1)..n /\ h \in 1..(n - 1) /\ g \in 1..n
          BY <5>1, <5>2
        <5> QED
          BY <2>3, <5>3
      <4>2. BlockedBy(tx_sets, Groups[g][p], Groups[h])
        BY <1>0, <2>1, <3>3, <4>1 DEF DelayedOnlyByConflict
      <4> QED
        BY <3>1, <4>1, <4>2
    <3> QED
      BY <1>1, <3>1, <3>2, <3>3 DEF DelayedOnlyByConflict
  <2> QED
    BY <1>2, <1>3, <2>4, <2>5, <2>6 DEF Inv
<1> QED
  BY <1>4, <1>5

LEMMA NextInv == Inv /\ [Next]_vars => Inv'
<1> SUFFICES ASSUME Inv, [Next]_vars PROVE Inv'
  OBVIOUS
<1>1. ASSUME NEW i \in to_visit, Take(i) PROVE Inv'
  BY <1>1, TakeInv
<1>2. ASSUME NEW i \in to_visit, Keep(i) PROVE Inv'
  BY <1>2, KeepInv
<1>3. CASE EndPass
  BY <1>3, EndPassInv
<1>4. CASE UNCHANGED vars
  <2>1. /\ UNCHANGED <<tx_sets, remaining_tx_indices, to_visit, current_group_indices,
                       current_group_write_set, scheduled_groups, pc>>
        /\ Groups' = Groups
    BY <1>4 DEF vars, Groups
  <2>2. TypeOK' /\ EachOnce' /\ GroupsConflictFree' /\ WriteSetOfGroup' /\ TakenBefore'
    BY <2>1 DEF Inv, TypeOK, EachOnce, GroupsConflictFree, WriteSetOfGroup, TakenBefore, Touched
  <2>3. DelayedOnlyByConflict' /\ KeptConflicts'
    BY <2>1 DEF Inv, DelayedOnlyByConflict, KeptConflicts
  <2> QED
    BY <2>2, <2>3 DEF Inv
<1> QED
  BY <1>1, <1>2, <1>3, <1>4 DEF Next, Returned

\* The inductive invariant holds in every state of the loop.
THEOREM InvHolds == Spec => []Inv
BY InitInv, NextInv, PTL DEF Spec

\* The loop's variables keep their types.
THEOREM TypeCorrect == Spec => []TypeOK
<1>1. Inv => TypeOK
  BY DEF Inv
<1> QED
  BY <1>1, InvHolds, PTL

\* schedule neither loses nor duplicates a transaction, whatever the batch.
THEOREM ScheduledOnce == Spec => []EachOnce
<1>1. Inv => EachOnce
  BY DEF Inv
<1> QED
  BY <1>1, InvHolds, PTL

\* Members of one group never touch what an earlier member writes.
THEOREM ParallelGroupsAreSafe == Spec => []GroupsConflictFree
<1>1. Inv => GroupsConflictFree
  BY DEF Inv
<1> QED
  BY <1>1, InvHolds, PTL

\* A transaction is put off only behind an earlier one it conflicts with.
THEOREM NoNeedlessDelay == Spec => []DelayedOnlyByConflict
<1>1. Inv => DelayedOnlyByConflict
  BY DEF Inv
<1> QED
  BY <1>1, InvHolds, PTL

\* No pass of the loop is empty-handed: a pass that ends without a member has
\* nothing left to schedule.  This is what makes the while loop end.
THEOREM EveryPassTakesOne ==
    Spec => [](to_visit = {} /\ current_group_indices = <<>> => remaining_tx_indices = {})
<1>1. Inv => (to_visit = {} /\ current_group_indices = <<>> => remaining_tx_indices = {})
  BY DEF Inv, KeptConflicts, BlockedBy
<1> QED
  BY <1>1, InvHolds, PTL


-----------------------------------------------------------------------------
\* The loop computes ScheduleOf.

\* The indices that were waiting when the pass began.
AtStart == remaining_tx_indices \cup ToSet(current_group_indices)

OpenNow == [indices |-> current_group_indices, write_set |-> current_group_write_set]

\* The loop has made the groups that ScheduleOf makes in as many passes, and its open
\* group is that of the fold once it has gone past what the loop has visited.
FollowsSchedule ==
    /\ Len(scheduled_groups) \in 0..Len(tx_sets)
    /\ AfterPass(tx_sets)[Len(scheduled_groups)]
          = [remaining |-> AtStart, groups |-> scheduled_groups]
    /\ pc = "done" <=> AtStart = {}
    /\ \E k \in 0..Len(tx_sets) :
          /\ to_visit = {i \in AtStart : i > k}
          /\ OpenNow = OpenAfter(tx_sets, AtStart, Pubkey)[k]

\* At the start the function has made no pass.
LEMMA InitFollows == Init => FollowsSchedule
<1> SUFFICES ASSUME Init PROVE FollowsSchedule
  OBVIOUS
<1> DEFINE n == Len(tx_sets)
<1>1. tx_sets \in Seq(KeySets(Pubkey))
  BY BatchIsSeq DEF Init, TransactionSets, KeySets
<1>2. n \in Nat /\ DOMAIN tx_sets = 1..n
  BY <1>1
<1>3. AtStart = 1..n /\ scheduled_groups = <<>> /\ to_visit = 1..n
  BY <1>2 DEF Init, AtStart, ToSet
<1>4. AfterPass(tx_sets)[0] = [remaining |-> AtStart, groups |-> scheduled_groups]
  BY <1>1, <1>2, <1>3, AfterPassIs DEF PassByPass, FirstState
<1>5. OpenNow = OpenAfter(tx_sets, AtStart, Pubkey)[0]
  BY <1>1, OpenAfterIs DEF PassStepByStep, EmptyGroup, Init, OpenNow
<1>6. Len(scheduled_groups) = 0 /\ 0 \in 0..n /\ to_visit = {i \in AtStart : i > 0}
  BY <1>2, <1>3
<1>7. pc = "done" <=> AtStart = {}
  <2>1. tx_sets = <<>> <=> n = 0
    BY <1>1
  <2>2. n = 0 <=> 1..n = {}
    BY <1>2
  <2> QED
    BY <1>3, <2>1, <2>2 DEF Init
<1> QED
  BY <1>4, <1>5, <1>6, <1>7 DEF FollowsSchedule

\* The index a pass visits is the next one of the fold that is waiting.
LEMMA NextVisited ==
    ASSUME TypeOK, FollowsSchedule, NEW i \in to_visit, Visits(i)
    PROVE  /\ i \in 1..Len(tx_sets) /\ i \in remaining_tx_indices
           /\ to_visit \ {i} = {j \in AtStart : j > i}
           /\ OpenAfter(tx_sets, AtStart, Pubkey)[i]
                 = Visit(tx_sets, AtStart, OpenNow, i)
<1> DEFINE n == Len(tx_sets)
<1>1. tx_sets \in Seq(KeySets(Pubkey)) /\ n \in Nat /\ DOMAIN tx_sets = 1..n
  <2>1. tx_sets \in Seq(KeySets(Pubkey))
    BY DEF TypeOK, TransactionSets, KeySets
  <2> QED
    BY <2>1
<1>2. AtStart \subseteq 1..n /\ i \in 1..n /\ i \in remaining_tx_indices
  BY <1>1 DEF TypeOK, AtStart, ToSet
<1>3. PICK k \in 0..n : /\ to_visit = {j \in AtStart : j > k}
                        /\ OpenNow = OpenAfter(tx_sets, AtStart, Pubkey)[k]
  BY DEF FollowsSchedule
<1>4. PICK f : f = OpenAfter(tx_sets, AtStart, Pubkey)
  OBVIOUS
<1>5. f \in [0..n -> OpenGroup(n, Pubkey)] /\ PassStepByStep(f, tx_sets, AtStart)
  BY <1>1, <1>4, OpenAfterIs
<1>6. k < i /\ i \in AtStart /\ \A j \in to_visit : i <= j
  BY <1>3 DEF Visits
<1>7. i - 1 \in 0..n /\ k <= i - 1
  BY <1>1, <1>2, <1>6
<1>8. \A j \in 1..n : k < j /\ j <= i - 1 => j \notin AtStart
  BY <1>2, <1>3, <1>6
<1>9. f[i - 1] = f[k]
  BY <1>1, <1>5, <1>7, <1>8, PassSkips
<1>10. f[i] = Visit(tx_sets, AtStart, f[i - 1], i)
  BY <1>2, <1>5 DEF PassStepByStep
<1>11. to_visit \ {i} = {j \in AtStart : j > i}
  <2>1. i \in Nat /\ k \in Nat /\ \A j \in AtStart : j \in Nat
    BY <1>2, <1>3
  <2>2. ASSUME NEW j \in to_visit \ {i} PROVE j \in AtStart /\ j > i
    <3>1. j \in AtStart /\ i <= j /\ j # i /\ j \in Nat
      BY <1>3, <1>6, <2>1
    <3> QED
      BY <2>1, <3>1
  <2>3. ASSUME NEW j \in AtStart, j > i PROVE j \in to_visit \ {i}
    <3>1. j > k /\ j # i
      BY <1>6, <2>1, <2>3
    <3> QED
      BY <1>3, <3>1
  <2> QED
    BY <2>2, <2>3, Zenon
<1> QED
  BY <1>2, <1>3, <1>4, <1>9, <1>10, <1>11

\* A call of the closure is a step of the fold.
LEMMA VisitFollows ==
    ASSUME TypeOK, TypeOK', FollowsSchedule, NEW i \in to_visit, Take(i) \/ Keep(i)
    PROVE  FollowsSchedule'
<1> DEFINE n == Len(tx_sets)
<1>1. Visits(i) /\ UNCHANGED <<tx_sets, scheduled_groups, pc>> /\ to_visit' = to_visit \ {i}
  BY DEF Take, Keep
<1>2. /\ i \in 1..n /\ i \in remaining_tx_indices
      /\ to_visit \ {i} = {j \in AtStart : j > i}
      /\ OpenAfter(tx_sets, AtStart, Pubkey)[i] = Visit(tx_sets, AtStart, OpenNow, i)
  BY <1>1, NextVisited
<1>3. i \in AtStart
  BY <1>2 DEF AtStart
<1>4. AtStart' = AtStart /\ OpenNow' = Visit(tx_sets, AtStart, OpenNow, i)
  <2>1. CASE Take(i)
    <3>1. /\ ~Conflicts(tx_sets[i], current_group_write_set)
          /\ current_group_indices' = Append(current_group_indices, i)
          /\ current_group_write_set' = current_group_write_set \cup tx_sets[i].write_set
          /\ remaining_tx_indices' = remaining_tx_indices \ {i}
      BY <2>1 DEF Take
    <3>2. ToSet(Append(current_group_indices, i)) = ToSet(current_group_indices) \cup {i}
      <4>1. PICK t \in Seq(DOMAIN tx_sets) : t = current_group_indices
        BY DEF TypeOK
      <4>2. Append(t, i) \in Seq(DOMAIN tx_sets) /\ Len(Append(t, i)) = Len(t) + 1
            /\ Append(t, i)[Len(t) + 1] = i
            /\ \A p \in 1..Len(t) : Append(t, i)[p] = t[p]
        BY <4>1, <1>1 DEF TypeOK
      <4>3. \A p \in 1..(Len(t) + 1) : p \in 1..Len(t) \/ p = Len(t) + 1
        BY <4>1
      <4>4. Len(t) + 1 \in 1..(Len(t) + 1) /\ \A p \in 1..Len(t) : p \in 1..(Len(t) + 1)
        BY <4>1
      <4>5. DOMAIN t = 1..Len(t) /\ DOMAIN Append(t, i) = 1..(Len(t) + 1)
        BY <4>1, <4>2
      <4>6. ToSet(Append(t, i)) = ToSet(t) \cup {i}
        BY <4>2, <4>3, <4>4, <4>5 DEF ToSet
      <4> QED
        BY <4>1, <4>6
    <3>3. AtStart' = AtStart
      BY <1>2, <3>1, <3>2 DEF AtStart
    <3> QED
      BY <1>3, <3>1, <3>3 DEF OpenNow, Visit
  <2>2. CASE Keep(i)
    <3>1. /\ Conflicts(tx_sets[i], current_group_write_set)
          /\ UNCHANGED <<remaining_tx_indices, current_group_indices, current_group_write_set>>
      BY <2>2 DEF Keep
    <3> QED
      BY <3>1 DEF OpenNow, Visit, AtStart
  <2> QED
    BY <2>1, <2>2
<1>5. /\ i \in 0..Len(tx_sets)'
      /\ to_visit' = {j \in AtStart' : j > i}
      /\ OpenNow' = OpenAfter(tx_sets', AtStart', Pubkey)[i]
  BY <1>1, <1>2, <1>4
<1>6. /\ Len(scheduled_groups') \in 0..Len(tx_sets')
      /\ AfterPass(tx_sets')[Len(scheduled_groups')]
            = [remaining |-> AtStart', groups |-> scheduled_groups']
      /\ pc' = "done" <=> AtStart' = {}
  BY <1>1, <1>4 DEF FollowsSchedule
<1> QED
  BY <1>5, <1>6 DEF FollowsSchedule


\* A pass that has visited everything leaves what the next group of ScheduleOf is.
LEMMA EndPassFollows ==
    ASSUME Inv, FollowsSchedule, EndPass
    PROVE  FollowsSchedule'
<1> DEFINE n == Len(tx_sets)
           m == Len(scheduled_groups)
<1>1. tx_sets \in Seq(KeySets(Pubkey)) /\ n \in Nat /\ DOMAIN tx_sets = 1..n
  <2>1. tx_sets \in Seq(KeySets(Pubkey))
    BY DEF Inv, TypeOK, TransactionSets, KeySets
  <2> QED
    BY <2>1
<1>2. /\ scheduled_groups \in Seq(Seq(1..n)) /\ current_group_indices \in Seq(1..n)
      /\ remaining_tx_indices \in SUBSET (1..n) /\ m \in Nat
  BY <1>1 DEF Inv, TypeOK
<1>3. AtStart \in SUBSET (1..n)
  <2>1. \A p \in DOMAIN current_group_indices : current_group_indices[p] \in 1..n
    BY <1>2
  <2>2. ToSet(current_group_indices) \subseteq 1..n
    BY <2>1 DEF ToSet
  <2> QED
    BY <1>2, <2>2 DEF AtStart
<1>4. PICK k \in 0..n : /\ to_visit = {j \in AtStart : j > k}
                        /\ OpenNow = OpenAfter(tx_sets, AtStart, Pubkey)[k]
  BY DEF FollowsSchedule
<1>5. Pass(tx_sets, AtStart) = current_group_indices
  <2>1. PICK f : f = OpenAfter(tx_sets, AtStart, Pubkey)
    OBVIOUS
  <2>2. f \in [0..n -> OpenGroup(n, Pubkey)] /\ PassStepByStep(f, tx_sets, AtStart)
    BY <1>1, <2>1, OpenAfterIs
  <2>3. n \in 0..n /\ k <= n /\ \A j \in 1..n : k < j /\ j <= n => j \notin AtStart
    BY <1>1, <1>4 DEF EndPass
  <2>4. f[n] = f[k]
    BY <1>1, <2>2, <2>3, PassSkips
  <2> QED
    BY <1>4, <2>1, <2>2, <2>4 DEF PassStepByStep, OpenNow
<1>6. AtStart # {} /\ pc = "retain" /\ to_visit = {}
  BY DEF FollowsSchedule, EndPass
<1>7. current_group_indices # <<>>
  BY <1>1, <1>3, <1>5, <1>6, PassTakes
<1>8. PICK g : g = AfterPass(tx_sets)
  OBVIOUS
<1>9. g \in [0..n -> ScheduleState(n)] /\ PassByPass(g, tx_sets)
  BY <1>1, <1>8, AfterPassIs
<1>10. m \in 0..n /\ g[m] = [remaining |-> AtStart, groups |-> scheduled_groups]
  BY <1>8 DEF FollowsSchedule
<1>11. m + 1 \in 1..n
  <2>1. Cardinality(g[m].remaining) <= n - m
    BY <1>1, <1>9, <1>10, AfterPasses
  <2>2. IsFiniteSet(AtStart) /\ Cardinality(AtStart) \in Nat /\ Cardinality(AtStart) # 0
    <3>1. IsFiniteSet(1..n)
      BY <1>1, FS_Interval
    <3>2. IsFiniteSet(AtStart)
      BY <1>3, <3>1, FS_Subset
    <3> QED
      BY <1>6, <3>2, FS_CardinalityType, FS_EmptySet
  <2>3. Cardinality(AtStart) <= n - m
    BY <1>10, <2>1
  <2> QED
    BY <1>1, <1>10, <2>2, <2>3
<1>12. remaining_tx_indices \cap ToSet(current_group_indices) = {}
  <2>1. /\ m + 1 \in DOMAIN Groups /\ Groups[m + 1] = current_group_indices
    BY <1>2 DEF Groups
  <2> QED
    BY <2>1 DEF Inv, EachOnce, ToSet
<1>13. /\ AtStart \ ToSet(current_group_indices) = remaining_tx_indices
       /\ AtStart' = remaining_tx_indices
  <2>1. AtStart \ ToSet(current_group_indices) = remaining_tx_indices
    BY <1>12 DEF AtStart
  <2>2. ToSet(<<>>) = {}
    BY DEF ToSet
  <2> QED
    BY <2>1, <2>2 DEF AtStart, EndPass
<1>14. /\ scheduled_groups' = Append(scheduled_groups, current_group_indices)
       /\ tx_sets' = tx_sets /\ Len(scheduled_groups') = m + 1
  BY <1>2, <1>7 DEF EndPass
<1>15. g[m + 1] = [remaining |-> AtStart', groups |-> scheduled_groups']
  <2>1. m + 1 - 1 = m
    BY <1>2
  <2>2. g[m + 1] = NextGroupOf(tx_sets, g[m])
    BY <1>9, <1>11, <2>1 DEF PassByPass
  <2>3. g[m].remaining = AtStart /\ g[m].groups = scheduled_groups
    BY <1>10
  <2>4. g[m + 1] = [remaining |-> AtStart \ ToSet(Pass(tx_sets, AtStart)),
                    groups |-> Append(scheduled_groups, Pass(tx_sets, AtStart))]
    BY <1>6, <2>2, <2>3, Zenon DEF NextGroupOf
  <2> QED
    BY <1>5, <1>13, <1>14, <2>4, Zenon
<1>16. pc' = "done" <=> AtStart' = {}
  BY <1>13 DEF EndPass
<1>17. /\ 0 \in 0..n
       /\ to_visit' = {i \in AtStart' : i > 0}
       /\ OpenNow' = OpenAfter(tx_sets, AtStart', Pubkey)[0]
  <2>1. to_visit' = {i \in AtStart' : i > 0}
    <3>1. to_visit' = AtStart' /\ AtStart' \in SUBSET (1..n)
      BY <1>2, <1>13 DEF EndPass
    <3>2. \A i \in AtStart' : i > 0
      BY <1>1, <3>1
    <3> QED
      BY <3>1, <3>2, Zenon
  <2>2. OpenAfter(tx_sets, AtStart', Pubkey)[0] = EmptyGroup
    BY <1>1, OpenAfterIs DEF PassStepByStep
  <2>3. OpenNow' = EmptyGroup
    BY DEF OpenNow, EmptyGroup, EndPass
  <2> QED
    BY <1>1, <2>1, <2>2, <2>3
<1>18. m + 1 \in 0..n
  BY <1>1, <1>11
<1> QED
  BY <1>8, <1>14, <1>15, <1>16, <1>17, <1>18 DEF FollowsSchedule

\* Every step of the loop follows the function.
LEMMA NextFollows == Inv /\ Inv' /\ FollowsSchedule /\ [Next]_vars => FollowsSchedule'
<1> SUFFICES ASSUME Inv, Inv', FollowsSchedule, [Next]_vars PROVE FollowsSchedule'
  OBVIOUS
<1>1. CASE \E i \in to_visit : Take(i) \/ Keep(i)
  BY <1>1, VisitFollows DEF Inv
<1>2. CASE EndPass
  BY <1>2, EndPassFollows
<1>3. CASE UNCHANGED vars
  BY <1>3 DEF vars, FollowsSchedule, AtStart, OpenNow
<1> QED
  BY <1>1, <1>2, <1>3 DEF Next, Returned

\* At every moment the loop is where the recursion of ScheduleOf is after as many passes
\* and visits.
THEOREM FollowsHolds == Spec => []FollowsSchedule
<1>1. Inv /\ Inv' /\ FollowsSchedule /\ [Next]_vars => FollowsSchedule'
  BY NextFollows
<1> QED
  BY <1>1, InitFollows, InvHolds, PTL DEF Spec

\* When the loop of schedule is done its groups are those of ScheduleOf, the function
\* the banking stage uses in its place: for every batch, of every length.
THEOREM ComputesSchedule == Spec => []ReturnsScheduleOf
<1>1. Inv /\ FollowsSchedule => ReturnsScheduleOf
  <2> SUFFICES ASSUME Inv, FollowsSchedule, pc = "done"
               PROVE  scheduled_groups = ScheduleOf(tx_sets)
    BY DEF ReturnsScheduleOf
  <2>1. tx_sets \in Seq(KeySets(Pubkey))
    BY DEF Inv, TypeOK, TransactionSets, KeySets
  <2>2. PICK g : g = AfterPass(tx_sets)
    OBVIOUS
  <2>3. g \in [0..Len(tx_sets) -> ScheduleState(Len(tx_sets))] /\ PassByPass(g, tx_sets)
    BY <2>1, <2>2, AfterPassIs
  <2>4. /\ Len(scheduled_groups) \in 0..Len(tx_sets)
        /\ g[Len(scheduled_groups)] = [remaining |-> {}, groups |-> scheduled_groups]
    BY <2>2 DEF FollowsSchedule
  <2>5. g[Len(scheduled_groups)].remaining = {}
        /\ g[Len(scheduled_groups)].groups = scheduled_groups
    BY <2>4
  <2> QED
    BY <2>1, <2>3, <2>4, <2>5, ScheduleEnds
<1> QED
  BY <1>1, InvHolds, FollowsHolds, PTL
=============================================================================
