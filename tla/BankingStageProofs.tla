------------------------- MODULE BankingStageProofs -------------------------
(***************************************************************************)
(* The pipeline loses nothing, doubles nothing, tells the truth in its     *)
(* results, records before it commits, and gives back what it holds, with  *)
(* any number of loops, transactions and accounts.                         *)
(*                                                                         *)
(* The first part is about the local variables of one loop in              *)
(* process_batch (src/src/banking_stage.rs), seen through its place p, its *)
(* variables j and the fates f of the transactions, and shows that each of *)
(* its steps keeps what is true of them.  The second part puts the loops   *)
(* together with the queue and the records, which they all share.  The     *)
(* third is about the cost tracker: with one loop, what it has charged is  *)
(* the cost of what the batch has committed or holds in its open group.    *)
(***************************************************************************)
EXTENDS BankingStage, OperatorProofs, TLAPS

Fields(j) ==
    j = [batch |-> j.batch, results |-> j.results, groups |-> j.groups,
         to_admit |-> j.to_admit, admitted |-> j.admitted, loaded |-> j.loaded,
         outcome |-> j.outcome, overlays |-> j.overlays, flushing |-> j.flushing]

Results == {"None", "AccountInUse", "InvalidSignature", "BlockhashNotFound",
            "ProgramError", "WouldExceedMaxBlockCostLimit"}
Outcomes == {"Running", "Ok", "ProgramError", "BlockhashNotFound"}
AllFates == {"Pending", "Committed", "Aborted", "InvalidSignature", "BlockhashNotFound",
             "ProgramError", "WouldExceedMaxBlockCostLimit"}

HasGroup(p) == p \in {"admit", "add", "lock", "refused", "requeue", "execute", "collect"}
InProcess(p) == HasGroup(p) \/ p \in {"group", "commit"}

\* Positions of the batch that are this loop's to settle, and their transactions.
HeldIn(j) == {i \in DOMAIN j.batch : j.results = <<>> \/ j.results[i] # "AccountInUse"}
LiveIn(j) == {j.batch[i] : i \in HeldIn(j)}

\* Positions in the groups to come, in the group in hand, and in either.
Waiting(j) == UNION {ToSet(j.groups[g]) : g \in DOMAIN j.groups}
InHand(p, j) == IF HasGroup(p) THEN ToSet(j.to_admit) \cup ToSet(j.admitted)
                ELSE IF p = "commit" THEN ToSet(j.overlays) ELSE {}
Open(p, j) == Waiting(j) \cup InHand(p, j)

BatchOk(p, j, f) ==
    /\ j.batch \in Seq(DOMAIN f)
    /\ \A i, h \in HeldIn(j) : j.batch[i] = j.batch[h] => i = h
    /\ p \in {"head", "stopped"} => j.batch = <<>>
    /\ ~InProcess(p) => j.results = <<>>
    /\ p = "verify" => j.batch # <<>>
    /\ p \in {"recv", "verify"} => \A i \in DOMAIN j.batch : f[j.batch[i]] = "Pending"

\* No position is in two places of the groups to come, or in them and in hand.
Apart(groups) ==
    \A g, h \in DOMAIN groups : \A m \in DOMAIN groups[g], n \in DOMAIN groups[h] :
        groups[g][m] = groups[h][n] => g = h /\ m = n
GroupsOk(p, j) ==
    InProcess(p) =>
        /\ j.groups \in Seq(Seq(DOMAIN j.batch))
        /\ Apart(j.groups)
        /\ Waiting(j) \cap InHand(p, j) = {}

GroupOk(p, j) ==
    /\ HasGroup(p) =>
          /\ j.to_admit \in Seq(DOMAIN j.batch) /\ IsInjective(j.to_admit)
          /\ j.admitted \in Seq(DOMAIN j.batch) /\ IsInjective(j.admitted)
          /\ ToSet(j.to_admit) \cap ToSet(j.admitted) = {}
    /\ p \in {"lock", "refused", "requeue", "execute", "collect"} => j.to_admit = <<>>
    /\ p \in {"lock", "refused", "requeue"} => j.admitted # <<>>
    /\ p = "add" => j.to_admit # <<>>
    /\ p \in {"execute", "collect"} => j.outcome \in [ToSet(j.admitted) -> Outcomes]
    /\ p = "collect" => \A i \in ToSet(j.admitted) : j.outcome[i] # "Running"
    /\ p = "commit" => j.overlays \in Seq(DOMAIN j.batch) /\ IsInjective(j.overlays)

\* What is still to be dealt with has no result yet and no fate; the result of the
\* rest is its fate.
Told(j, i) == IF j.results[i] = "None" THEN "Committed" ELSE j.results[i]
ResultsOk(p, j, f) ==
    InProcess(p) =>
        /\ j.batch # <<>>
        /\ j.results \in [DOMAIN j.batch -> Results]
        /\ \A i \in Open(p, j) : j.results[i] = "None" /\ f[j.batch[i]] = "Pending"
        /\ \A i \in HeldIn(j) \ Open(p, j) : f[j.batch[i]] = Told(j, i)

LoopOk(p, j, f) ==
    Fields(j) /\ BatchOk(p, j, f) /\ GroupsOk(p, j) /\ GroupOk(p, j) /\ ResultsOk(p, j, f)

\* The transactions of a group between its record and its end.
Between(p, j) == {j.batch[i] : i \in IF p = "collect" THEN ToSet(j.admitted)
                                     ELSE IF p = "commit" THEN ToSet(j.overlays) ELSE {}}
\* The hands of a loop hold transactions the server accepted.
LEMMA LiveAreSent ==
    ASSUME NEW p, NEW j, NEW f, BatchOk(p, j, f)
    PROVE  LiveIn(j) \subseteq DOMAIN f
  <1>1. \A i \in DOMAIN j.batch : j.batch[i] \in DOMAIN f
    BY DEF BatchOk
  <1> QED
    BY <1>1 DEF LiveIn, HeldIn

\* What is open is in the loop's hands.
LEMMA OpenIsHeld ==
    ASSUME NEW p, NEW j, NEW f, LoopOk(p, j, f), InProcess(p)
    PROVE  Open(p, j) \subseteq HeldIn(j) /\ Open(p, j) \subseteq DOMAIN j.batch
  <1>1. Open(p, j) \subseteq DOMAIN j.batch
    <2>1. \A g \in DOMAIN j.groups : \A m \in DOMAIN j.groups[g] : j.groups[g][m] \in DOMAIN j.batch
      BY DEF LoopOk, GroupsOk
    <2>2. Waiting(j) \subseteq DOMAIN j.batch
      BY <2>1 DEF Waiting, ToSet
    <2>3. CASE HasGroup(p)
      <3>1. /\ \A m \in DOMAIN j.to_admit : j.to_admit[m] \in DOMAIN j.batch
            /\ \A m \in DOMAIN j.admitted : j.admitted[m] \in DOMAIN j.batch
        BY <2>3 DEF LoopOk, GroupOk
      <3> QED
        BY <2>2, <2>3, <3>1 DEF Open, InHand, ToSet
    <2>4. CASE ~HasGroup(p) /\ p = "commit"
      <3>1. \A m \in DOMAIN j.overlays : j.overlays[m] \in DOMAIN j.batch
        BY <2>4 DEF LoopOk, GroupOk
      <3> QED
        BY <2>2, <2>4, <3>1 DEF Open, InHand, ToSet
    <2> QED
      BY <2>2, <2>3, <2>4 DEF Open, InHand
  <1>2. \A i \in Open(p, j) : j.results[i] # "AccountInUse"
    BY DEF LoopOk, ResultsOk
  <1> QED
    BY <1>1, <1>2 DEF HeldIn

\* What is between its record and its end is in the loop's hands and has no fate.
LEMMA BetweenIsLive ==
    ASSUME NEW p, NEW j, NEW f, LoopOk(p, j, f)
    PROVE  /\ Between(p, j) \subseteq LiveIn(j)
           /\ \A id \in Between(p, j) : f[id] = "Pending"
  <1>1. CASE p = "collect"
    <2>1. InProcess(p) /\ ToSet(j.admitted) \subseteq Open(p, j)
      BY <1>1 DEF InProcess, HasGroup, Open, InHand
    <2>2. ToSet(j.admitted) \subseteq HeldIn(j)
      BY <2>1, OpenIsHeld
    <2> QED
      BY <1>1, <2>1, <2>2 DEF Between, LiveIn, LoopOk, ResultsOk
  <1>2. CASE p = "commit"
    <2>1. InProcess(p) /\ ToSet(j.overlays) \subseteq Open(p, j)
      BY <1>2 DEF InProcess, HasGroup, Open, InHand
    <2>2. ToSet(j.overlays) \subseteq HeldIn(j)
      BY <2>1, OpenIsHeld
    <2> QED
      BY <1>2, <2>1, <2>2 DEF Between, LiveIn, LoopOk, ResultsOk
  <1>3. CASE p # "collect" /\ p # "commit"
    BY <1>3 DEF Between
  <1> QED
    BY <1>1, <1>2, <1>3

\* Fates of transactions that are not in a loop's hands do not matter to it.
LEMMA LoopFrame ==
    ASSUME NEW p, NEW j, NEW f, LoopOk(p, j, f), NEW g,
           DOMAIN f \subseteq DOMAIN g, \A id \in LiveIn(j) : g[id] = f[id]
    PROVE  LoopOk(p, j, g)
  <1>1. BatchOk(p, j, g)
    <2>1. j.batch \in Seq(DOMAIN g)
      BY DEF LoopOk, BatchOk
    <2>2. ASSUME p \in {"recv", "verify"}, NEW i \in DOMAIN j.batch
          PROVE  g[j.batch[i]] = "Pending"
      <3>1. i \in HeldIn(j)
        BY <2>2 DEF LoopOk, BatchOk, HeldIn, InProcess, HasGroup
      <3> QED
        BY <2>2, <3>1 DEF LiveIn, LoopOk, BatchOk
    <2> QED
      BY <2>1, <2>2 DEF LoopOk, BatchOk
  <1>2. ResultsOk(p, j, g)
    <2> SUFFICES ASSUME InProcess(p) PROVE ResultsOk(p, j, g)
      BY DEF ResultsOk
    <2>1. Open(p, j) \subseteq HeldIn(j)
      BY OpenIsHeld
    <2>2. \A i \in HeldIn(j) : g[j.batch[i]] = f[j.batch[i]]
      BY DEF LiveIn
    <2> QED
      BY <2>1, <2>2 DEF LoopOk, ResultsOk
  <1> QED
    BY <1>1, <1>2 DEF LoopOk


\* A step of one loop that touches neither the queue nor the records: it may give a
\* fate to what it holds, it may let go of what has one, and it may commit what was
\* recorded.
Settles(p, j, f, p2, j2, f2) ==
    /\ f2 \in [DOMAIN f -> AllFates]
    /\ \A id \in DOMAIN f : f2[id] # f[id] =>
          /\ id \in LiveIn(j)
          /\ f2[id] # "Pending"
          /\ f2[id] = "Committed" => id \in Between(p, j)
    /\ LiveIn(j2) \subseteq LiveIn(j)
    /\ \A id \in LiveIn(j) \ LiveIn(j2) : f2[id] # "Pending"
    /\ Between(p2, j2) \subseteq Between(p, j)
    /\ \A id \in Between(p, j) \ Between(p2, j2) : f2[id] # "Pending"

\* The loops W at the places ps with the variables js share the queue ch: a
\* transaction without a fate is in the queue or in one loop's hands, never in two
\* places, and what is in the queue has no fate.
QueueOk(W, js, f, ch) ==
    /\ ch \in Seq(DOMAIN f) /\ IsInjective(ch)
    /\ \A n \in DOMAIN ch : f[ch[n]] = "Pending"
    /\ \A w \in W : LiveIn(js[w]) \cap ToSet(ch) = {}
    /\ \A v, w \in W : v # w => LiveIn(js[v]) \cap LiveIn(js[w]) = {}
    /\ \A id \in DOMAIN f :
          f[id] = "Pending" => id \in ToSet(ch) \/ \E w \in W : id \in LiveIn(js[w])

\* They share the records rec: what is committed was recorded, and what was recorded
\* has a fate or is on its way to one.
Recorded(rec, id) == \E r \in DOMAIN rec : id \in ToSet(rec[r])
RecordsOk(W, ps, js, f, rec) ==
    /\ rec \in Seq(Seq(DOMAIN f))
    /\ \A w \in W : \A id \in Between(ps[w], js[w]) : Recorded(rec, id)
    /\ \A id \in DOMAIN f :
          /\ f[id] = "Committed" => Recorded(rec, id)
          /\ f[id] = "Pending" /\ Recorded(rec, id) => \E w \in W : id \in Between(ps[w], js[w])
    /\ \A r, q \in DOMAIN rec : r # q => ToSet(rec[r]) \cap ToSet(rec[q]) = {}

PipelineOk(W, ps, js, f, ch, rec) ==
    /\ f \in [DOMAIN f -> AllFates]
    /\ \A w \in W : LoopOk(ps[w], js[w], f)
    /\ QueueOk(W, js, f, ch)
    /\ RecordsOk(W, ps, js, f, rec)

\* Only loop w moves.
OnlyMoves(w, W, ps, js, ps2, js2) == \A v \in W : v # w => ps2[v] = ps[v] /\ js2[v] = js[v]

\* One loop moves and settles only transactions in its own hands: the pipeline stays in order.
LEMMA LoopStep ==
    ASSUME NEW W, NEW ps, NEW js, NEW f, NEW ch, NEW rec, PipelineOk(W, ps, js, f, ch, rec),
           NEW w \in W, NEW ps2, NEW js2, OnlyMoves(w, W, ps, js, ps2, js2),
           NEW f2, LoopOk(ps2[w], js2[w], f2), Settles(ps[w], js[w], f, ps2[w], js2[w], f2)
    PROVE  PipelineOk(W, ps2, js2, f2, ch, rec)
  <1>1. \A v \in W : v # w => ps2[v] = ps[v] /\ js2[v] = js[v]
    BY DEF OnlyMoves
  <1>2. DOMAIN f2 = DOMAIN f /\ f2 \in [DOMAIN f2 -> AllFates]
    BY DEF Settles
  <1>4. \A v \in W : LiveIn(js2[v]) \subseteq LiveIn(js[v])
    BY <1>1 DEF Settles
  <1>5. \A id \in DOMAIN f : f2[id] # f[id] => id \in LiveIn(js[w]) /\ f2[id] # "Pending"
    BY DEF Settles
  <1>6. ASSUME NEW v \in W PROVE LoopOk(ps2[v], js2[v], f2)
    <2>1. CASE v = w
      BY <1>1, <2>1
    <2>2. CASE v # w
      <3>1. LoopOk(ps[v], js[v], f) /\ LiveIn(js[v]) \subseteq DOMAIN f
        BY LiveAreSent DEF PipelineOk, LoopOk
      <3>2. LiveIn(js[v]) \cap LiveIn(js[w]) = {}
        BY <2>2 DEF PipelineOk, QueueOk
      <3>3. \A id \in LiveIn(js[v]) : f2[id] = f[id]
        BY <1>5, <3>1, <3>2
      <3>4. LoopOk(ps[v], js[v], f2)
        BY <1>2, <3>1, <3>3, LoopFrame
      <3> QED
        BY <1>1, <2>2, <3>4
    <2> QED
      BY <2>1, <2>2
  <1>7. QueueOk(W, js2, f2, ch)
    <2>1. ch \in Seq(DOMAIN f2) /\ IsInjective(ch)
      BY <1>2 DEF PipelineOk, QueueOk
    <2>2. ASSUME NEW n \in DOMAIN ch PROVE f2[ch[n]] = "Pending"
      <3>1. ch[n] \in ToSet(ch) /\ ch[n] \in DOMAIN f /\ f[ch[n]] = "Pending"
        BY DEF PipelineOk, QueueOk, ToSet
      <3>2. ch[n] \notin LiveIn(js[w])
        BY <3>1 DEF PipelineOk, QueueOk
      <3> QED
        BY <1>5, <3>1, <3>2
    <2>3. \A v \in W : LiveIn(js2[v]) \cap ToSet(ch) = {}
      BY <1>4 DEF PipelineOk, QueueOk
    <2>4. \A v, u \in W : v # u => LiveIn(js2[v]) \cap LiveIn(js2[u]) = {}
      BY <1>4, Zenon DEF PipelineOk, QueueOk
    <2>5. ASSUME NEW id \in DOMAIN f, f2[id] = "Pending"
          PROVE  id \in ToSet(ch) \/ \E v \in W : id \in LiveIn(js2[v])
      <3>1. f[id] = "Pending"
        BY <1>5, <2>5
      <3>2. CASE id \in LiveIn(js[w])
        BY <1>1, <2>5, <3>2 DEF Settles
      <3>3. CASE id \notin LiveIn(js[w])
        BY <1>1, <3>1, <3>3 DEF PipelineOk, QueueOk
      <3> QED
        BY <3>2, <3>3
    <2> QED
      BY <1>2, <2>1, <2>2, <2>3, <2>4, <2>5, Zenon DEF QueueOk
  <1>8. RecordsOk(W, ps2, js2, f2, rec)
    <2>2. \A v \in W : Between(ps2[v], js2[v]) \subseteq Between(ps[v], js[v])
      BY <1>1 DEF Settles
    <2>3. \A v \in W : \A id \in Between(ps2[v], js2[v]) : Recorded(rec, id)
      BY <2>2 DEF PipelineOk, RecordsOk
    <2>4. ASSUME NEW id \in DOMAIN f, f2[id] = "Committed" PROVE Recorded(rec, id)
      <3>1. CASE f2[id] = f[id]
        BY <2>4, <3>1 DEF PipelineOk, RecordsOk
      <3>2. CASE f2[id] # f[id]
        BY <2>4, <3>2 DEF Settles, PipelineOk, RecordsOk
      <3> QED
        BY <3>1, <3>2
    <2>5. ASSUME NEW id \in DOMAIN f, f2[id] = "Pending", Recorded(rec, id)
          PROVE  \E v \in W : id \in Between(ps2[v], js2[v])
      <3>1. f[id] = "Pending"
        BY <1>5, <2>5
      <3>2. PICK v \in W : id \in Between(ps[v], js[v])
        BY <2>5, <3>1 DEF PipelineOk, RecordsOk
      <3>3. CASE v = w
        BY <1>1, <2>5, <3>2, <3>3 DEF Settles
      <3>4. CASE v # w
        BY <1>1, <3>2, <3>4
      <3> QED
        BY <3>3, <3>4
    <2>6. /\ rec \in Seq(Seq(DOMAIN f2))
          /\ \A r, q \in DOMAIN rec :
                r # q => ToSet(rec[r]) \cap ToSet(rec[q]) = {}
      BY <1>2 DEF PipelineOk, RecordsOk
    <2>7. /\ \A v \in W : \A id \in Between(ps2[v], js2[v]) : Recorded(rec, id)
          /\ \A id \in DOMAIN f2 :
                /\ f2[id] = "Committed" => Recorded(rec, id)
                /\ f2[id] = "Pending" /\ Recorded(rec, id)
                      => \E v \in W : id \in Between(ps2[v], js2[v])
      BY <1>2, <2>3, <2>4, <2>5
    <2> QED
      BY <2>6, <2>7 DEF RecordsOk
  <1> QED
    BY <1>2, <1>6, <1>7, <1>8 DEF PipelineOk

-----------------------------------------------------------------------------
\* Steps that give no fate and put nothing back.

SameBatch(j, k) == k.batch = j.batch /\ k.results = j.results

\* A step that changes neither the batch nor a fate settles nothing.
LEMMA QuietSettles ==
    ASSUME NEW p, NEW j, NEW f, f \in [DOMAIN f -> AllFates], NEW q, NEW k, SameBatch(j, k),
           Between(q, k) = Between(p, j)
    PROVE  Settles(p, j, f, q, k, f)
  <1>1. HeldIn(k) = HeldIn(j)
    BY DEF SameBatch, HeldIn
  <1>2. LiveIn(k) = LiveIn(j)
    BY <1>1 DEF SameBatch, LiveIn
  <1> QED
    BY <1>2 DEF Settles

\* A step inside process_batch that leaves open what was open.
LEMMA QuietLoop ==
    ASSUME NEW p, NEW j, NEW f, LoopOk(p, j, f), NEW q, NEW k, SameBatch(j, k),
           InProcess(p), InProcess(q), Open(q, k) = Open(p, j),
           Fields(k), GroupsOk(q, k), GroupOk(q, k)
    PROVE  LoopOk(q, k, f)
  <1>1. HeldIn(k) = HeldIn(j)
    BY DEF SameBatch, HeldIn
  <1>2. BatchOk(q, k, f)
    BY <1>1 DEF LoopOk, BatchOk, SameBatch, InProcess, HasGroup
  <1>3. ResultsOk(q, k, f)
    BY <1>1 DEF LoopOk, ResultsOk, SameBatch, Told
  <1> QED
    BY <1>2, <1>3 DEF LoopOk

\* What Tail does to positions.
LEMMA TailOf ==
    ASSUME NEW S, NEW seq \in Seq(S), seq # <<>>
    PROVE  /\ Head(seq) = seq[1] /\ 1 \in DOMAIN seq /\ Tail(seq) \in Seq(S)
           /\ \A n \in DOMAIN Tail(seq) : n + 1 \in DOMAIN seq /\ Tail(seq)[n] = seq[n + 1]
           /\ \A n \in DOMAIN seq : n # 1 => n - 1 \in DOMAIN Tail(seq) /\ Tail(seq)[n - 1] = seq[n]
           /\ \A n \in DOMAIN Tail(seq) : n \in Nat
           /\ \A n \in DOMAIN seq : n \in Nat /\ n - 1 + 1 = n
  <1>1. /\ Len(seq) \in Nat /\ Len(seq) >= 1 /\ Head(seq) = seq[1] /\ Tail(seq) \in Seq(S)
        /\ Len(Tail(seq)) = Len(seq) - 1
        /\ \A n \in 1..(Len(seq) - 1) : Tail(seq)[n] = seq[n + 1]
        /\ DOMAIN seq = 1..Len(seq) /\ DOMAIN Tail(seq) = 1..(Len(seq) - 1)
    OBVIOUS
  <1>2. \A n \in 1..(Len(seq) - 1) : n + 1 \in 1..Len(seq) /\ n \in Nat
    BY <1>1
  <1>3. ASSUME NEW n \in 1..Len(seq), n # 1
        PROVE  n - 1 \in 1..(Len(seq) - 1) /\ Tail(seq)[n - 1] = seq[n]
    <2>1. n - 1 \in 1..(Len(seq) - 1) /\ n - 1 + 1 = n
      BY <1>1, <1>3
    <2> QED
      BY <1>1, <2>1
  <1>4. \A n \in 1..Len(seq) : n \in Nat /\ n - 1 + 1 = n
    BY <1>1
  <1>5. 1 \in 1..Len(seq)
    BY <1>1
  <1> QED
    BY <1>1, <1>2, <1>3, <1>4, <1>5

\* A sequence without repetitions and its tail.
LEMMA TailOnce ==
    ASSUME NEW S, NEW seq \in Seq(S), seq # <<>>, IsInjective(seq)
    PROVE  /\ IsInjective(Tail(seq)) /\ Head(seq) \notin ToSet(Tail(seq)) /\ Head(seq) \in S
           /\ ToSet(seq) = {Head(seq)} \cup ToSet(Tail(seq))
  <1>1. /\ Head(seq) = seq[1] /\ 1 \in DOMAIN seq /\ Tail(seq) \in Seq(S)
        /\ \A n \in DOMAIN Tail(seq) : n + 1 \in DOMAIN seq /\ Tail(seq)[n] = seq[n + 1]
        /\ \A n \in DOMAIN seq : n # 1 => n - 1 \in DOMAIN Tail(seq) /\ Tail(seq)[n - 1] = seq[n]
        /\ \A n \in DOMAIN Tail(seq) : n \in Nat
    BY TailOf, Zenon
  <1>2. PICK t : t = Tail(seq)
    BY Zenon
  <1>3. ASSUME NEW m \in DOMAIN t, NEW n \in DOMAIN t, t[m] = t[n] PROVE m = n
    <2>1. m + 1 = n + 1 /\ m \in Nat /\ n \in Nat
      BY <1>1, <1>2, <1>3 DEF IsInjective
    <2> QED
      BY <2>1
  <1>4. \A n \in DOMAIN t : t[n] # seq[1]
    <2>1. \A n \in DOMAIN t : n + 1 # 1
      BY <1>1, <1>2
    <2> QED
      BY <1>1, <1>2, <2>1 DEF IsInjective
  <1>5. seq[1] \in S
    BY <1>1
  <1>6. ToSet(seq) = {seq[1]} \cup ToSet(t)
    <2>1. ASSUME NEW n \in DOMAIN seq PROVE seq[n] \in {seq[1]} \cup ToSet(t)
      BY <1>1, <1>2, Zenon DEF ToSet
    <2>2. ASSUME NEW n \in DOMAIN t PROVE t[n] \in ToSet(seq)
      BY <1>1, <1>2 DEF ToSet
    <2>3. seq[1] \in ToSet(seq)
      BY <1>1 DEF ToSet
    <2> QED
      BY <2>1, <2>2, <2>3 DEF ToSet
  <1> QED
    BY <1>1, <1>2, <1>3, <1>4, <1>5, <1>6 DEF IsInjective, ToSet


-----------------------------------------------------------------------------
\* The steps of a loop, one by one.

\* Stop, Poll, ReceiveEnds: between batches.
LEMMA PlaceOk ==
    ASSUME NEW p, NEW j, NEW f, f \in [DOMAIN f -> AllFates], LoopOk(p, j, f),
           ~InProcess(p), NEW q, ~InProcess(q),
           q \in {"head", "stopped"} => j.batch = <<>>,
           q = "verify" => j.batch # <<>>,
           q \in {"recv", "verify"} => p \in {"recv", "verify"} \/ j.batch = <<>>
    PROVE  LoopOk(q, j, f) /\ Settles(p, j, f, q, j, f)
  <1>1. BatchOk(q, j, f)
    BY DEF LoopOk, BatchOk
  <1>2. GroupsOk(q, j) /\ GroupOk(q, j) /\ ResultsOk(q, j, f)
    BY DEF GroupsOk, GroupOk, ResultsOk, InProcess, HasGroup
  <1>3. Between(p, j) = {} /\ Between(q, j) = {}
    BY DEF Between, InProcess, HasGroup
  <1>4. Settles(p, j, f, q, j, f)
    BY <1>3, QuietSettles, Zenon DEF SameBatch
  <1> QED
    BY <1>1, <1>2, <1>4 DEF LoopOk

\* FinishBatch, VerifyPanics, Cancelled, ExecutePanics, RecordFails, RecordPanics: the
\* way out of process_batch, with a fate for everything the loop still has in its hands.
LEMMA LeaveOk ==
    ASSUME NEW p, NEW j, NEW f, LoopOk(p, j, f),
           NEW q \in {"head", "stopped"}, NEW k, Fields(k), k.batch = <<>>, k.results = <<>>,
           NEW f2 \in [DOMAIN f -> AllFates],
           \A id \in DOMAIN f : f2[id] # f[id] => id \in LiveIn(j) /\ f2[id] = "Aborted",
           \A id \in LiveIn(j) : f2[id] # "Pending"
    PROVE  LoopOk(q, k, f2) /\ Settles(p, j, f, q, k, f2)
  <1>1. HeldIn(k) = {} /\ LiveIn(k) = {} /\ Between(q, k) = {}
    BY DEF HeldIn, LiveIn, Between
  <1>2. ~InProcess(q) /\ ~HasGroup(q) /\ q \notin {"lock", "refused", "requeue", "execute", "collect",
                                                   "commit", "add", "verify", "recv"}
    BY DEF InProcess, HasGroup
  <1>3. BatchOk(q, k, f2)
    BY <1>1, <1>2 DEF BatchOk
  <1>4. GroupsOk(q, k) /\ GroupOk(q, k) /\ ResultsOk(q, k, f2)
    BY <1>2 DEF GroupsOk, GroupOk, ResultsOk
  <1>5. Between(p, j) \subseteq LiveIn(j)
    BY BetweenIsLive
  <1>6. Settles(p, j, f, q, k, f2)
    BY <1>1, <1>5 DEF Settles
  <1> QED
    BY <1>3, <1>4, <1>6 DEF LoopOk

\* At the end of the loop over the groups everything has its fate.
LEMMA AllSettled ==
    ASSUME NEW j, NEW f, LoopOk("group", j, f), j.groups = <<>>
    PROVE  /\ \A id \in LiveIn(j) : f[id] # "Pending"
           /\ \A i \in HeldIn(j) : f[j.batch[i]] = Told(j, i)
  <1>1. InProcess("group") /\ Open("group", j) = {}
    BY DEF InProcess, HasGroup, Open, InHand, Waiting
  <1>2. \A i \in HeldIn(j) : f[j.batch[i]] = Told(j, i)
    BY <1>1 DEF LoopOk, ResultsOk
  <1>3. \A i \in HeldIn(j) : Told(j, i) # "Pending"
    BY <1>1 DEF LoopOk, ResultsOk, Told, Results, HeldIn
  <1> QED
    BY <1>2, <1>3 DEF LiveIn

\* NextGroup: the first group to come is taken in hand.
LEMMA NextGroupOk ==
    ASSUME NEW j, NEW f, f \in [DOMAIN f -> AllFates], LoopOk("group", j, f), j.groups # <<>>,
           NEW k, Fields(k), SameBatch(j, k), k.to_admit = Head(j.groups),
           k.groups = Tail(j.groups), k.admitted = <<>>
    PROVE  LoopOk("admit", k, f) /\ Settles("group", j, f, "admit", k, f)
  <1> DEFINE D == DOMAIN j.batch
  <1>1. /\ j.groups \in Seq(Seq(D)) /\ k.batch = j.batch
        /\ \A g, h \in DOMAIN j.groups : \A m \in DOMAIN j.groups[g], n \in DOMAIN j.groups[h] :
              j.groups[g][m] = j.groups[h][n] => g = h /\ m = n
    BY DEF LoopOk, GroupsOk, Apart, InProcess, SameBatch
  <1>2. /\ Head(j.groups) = j.groups[1] /\ 1 \in DOMAIN j.groups /\ k.groups \in Seq(Seq(D))
        /\ \A n \in DOMAIN k.groups : n + 1 \in DOMAIN j.groups /\ k.groups[n] = j.groups[n + 1]
        /\ \A n \in DOMAIN j.groups :
              n # 1 => n - 1 \in DOMAIN k.groups /\ k.groups[n - 1] = j.groups[n]
        /\ \A n \in DOMAIN k.groups : n \in Nat
    <2>1. PICK S : S = Seq(D)
      OBVIOUS
    <2>2. j.groups \in Seq(S)
      BY <1>1, <2>1
    <2>3. PICK gs \in Seq(S) : gs = j.groups
      BY <2>2, Zenon
    <2>4. /\ Head(gs) = gs[1] /\ 1 \in DOMAIN gs /\ Tail(gs) \in Seq(S)
          /\ \A n \in DOMAIN Tail(gs) : n + 1 \in DOMAIN gs /\ Tail(gs)[n] = gs[n + 1]
          /\ \A n \in DOMAIN gs :
                n # 1 => n - 1 \in DOMAIN Tail(gs) /\ Tail(gs)[n - 1] = gs[n]
          /\ \A n \in DOMAIN Tail(gs) : n \in Nat
      BY <2>3, TailOf, Zenon
    <2> QED
      BY <2>1, <2>3, <2>4, Zenon
  <1>3. \A n \in DOMAIN k.groups : n + 1 # 1
    BY <1>2
  <1>4. k.to_admit \in Seq(D) /\ IsInjective(k.to_admit)
    <2>1. j.groups[1] \in Seq(D)
      BY <1>1, <1>2
    <2> QED
      BY <1>1, <1>2, <2>1 DEF IsInjective
  <1>5. ToSet(k.admitted) = {} /\ k.admitted \in Seq(D) /\ IsInjective(k.admitted)
    BY DEF ToSet, IsInjective
  <1>6. HasGroup("admit") /\ InHand("admit", k) = ToSet(k.to_admit) /\ InHand("group", j) = {}
    BY <1>5 DEF HasGroup, InHand
  <1>7. ASSUME NEW g \in DOMAIN k.groups, NEW h \in DOMAIN k.groups,
               NEW m \in DOMAIN k.groups[g], NEW n \in DOMAIN k.groups[h],
               k.groups[g][m] = k.groups[h][n]
        PROVE  g = h /\ m = n
    <2>1. g + 1 = h + 1 /\ m = n
      BY <1>1, <1>2, <1>7
    <2>2. g \in Nat /\ h \in Nat
      BY <1>2
    <2> QED
      BY <2>1, <2>2
  <1>8. Waiting(k) \cap ToSet(k.to_admit) = {}
    <2>1. \A g \in DOMAIN k.groups : \A m \in DOMAIN k.groups[g], n \in DOMAIN k.to_admit :
             k.groups[g][m] # k.to_admit[n]
      BY <1>1, <1>2, <1>3
    <2> QED
      BY <2>1 DEF Waiting, ToSet
  <1>9. Waiting(j) = Waiting(k) \cup ToSet(k.to_admit)
    <2>1. \A g \in DOMAIN j.groups : ToSet(j.groups[g]) \subseteq Waiting(k) \cup ToSet(k.to_admit)
      BY <1>2, Zenon DEF Waiting
    <2>2. \A g \in DOMAIN k.groups : ToSet(k.groups[g]) \subseteq Waiting(j)
      BY <1>2 DEF Waiting
    <2>3. ToSet(k.to_admit) \subseteq Waiting(j)
      BY <1>2 DEF Waiting
    <2> QED
      BY <2>1, <2>2, <2>3, Zenon DEF Waiting
  <1>10. GroupsOk("admit", k)
    BY <1>1, <1>2, <1>6, <1>7, <1>8, Zenon DEF GroupsOk, Apart
  <1>11. GroupOk("admit", k)
    BY <1>1, <1>4, <1>5 DEF GroupOk
  <1>12. Open("admit", k) = Open("group", j) /\ InProcess("admit") /\ InProcess("group")
    BY <1>6, <1>9 DEF Open, InProcess
  <1>13. LoopOk("admit", k, f)
    BY <1>10, <1>11, <1>12, QuietLoop
  <1>14. Between("group", j) = {} /\ Between("admit", k) = {}
    BY DEF Between
  <1> QED
    BY <1>13, <1>14, QuietSettles, Zenon


\* WouldFit, AdmissionEnds when something was admitted, AccountsInUse and RollBackCost.
LEMMA OnwardOk ==
    ASSUME NEW p \in {"admit", "lock", "refused"}, NEW j, NEW f, f \in [DOMAIN f -> AllFates],
           LoopOk(p, j, f), NEW q \in {"add", "lock", "refused", "requeue"},
           q = "add" => j.to_admit # <<>>,
           q # "add" => j.to_admit = <<>> /\ j.admitted # <<>>
    PROVE  LoopOk(q, j, f) /\ Settles(p, j, f, q, j, f)
  <1>1. HasGroup(p) /\ HasGroup(q) /\ InProcess(p) /\ InProcess(q)
    BY DEF HasGroup, InProcess
  <1>2. InHand(q, j) = InHand(p, j)
    BY <1>1 DEF InHand
  <1>3. GroupsOk(q, j) /\ Open(q, j) = Open(p, j)
    BY <1>1, <1>2 DEF LoopOk, GroupsOk, Open
  <1>4. GroupOk(q, j)
    BY <1>1 DEF LoopOk, GroupOk
  <1>5. LoopOk(q, j, f)
    BY <1>1, <1>3, <1>4, QuietLoop DEF SameBatch, LoopOk
  <1>6. Between(p, j) = {} /\ Between(q, j) = {}
    BY DEF Between
  <1> QED
    BY <1>5, <1>6, QuietSettles, Zenon DEF SameBatch

\* AdmissionEnds when nothing was admitted.
LEMMA SkipOk ==
    ASSUME NEW j, NEW f, f \in [DOMAIN f -> AllFates], LoopOk("admit", j, f),
           j.to_admit = <<>>, j.admitted = <<>>
    PROVE  LoopOk("group", j, f) /\ Settles("admit", j, f, "group", j, f)
  <1>1. HasGroup("admit") /\ InProcess("admit") /\ InProcess("group") /\ ~HasGroup("group")
    BY DEF HasGroup, InProcess
  <1>2. InHand("group", j) = {} /\ InHand("admit", j) = {}
    BY <1>1 DEF InHand, ToSet
  <1>3. GroupsOk("group", j) /\ Open("group", j) = Open("admit", j)
    BY <1>1, <1>2 DEF LoopOk, GroupsOk, Open
  <1>4. GroupOk("group", j)
    BY <1>1 DEF GroupOk
  <1>5. LoopOk("group", j, f)
    BY <1>1, <1>3, <1>4, QuietLoop DEF SameBatch, LoopOk
  <1>6. Between("admit", j) = {} /\ Between("group", j) = {}
    BY DEF Between
  <1> QED
    BY <1>5, <1>6, QuietSettles, Zenon DEF SameBatch

\* Appending a new element to a sequence without repetitions.
LEMMA AppendOnce ==
    ASSUME NEW S, NEW seq \in Seq(S), IsInjective(seq), NEW x \in S, x \notin ToSet(seq)
    PROVE  /\ Append(seq, x) \in Seq(S) /\ IsInjective(Append(seq, x))
           /\ ToSet(Append(seq, x)) = ToSet(seq) \cup {x}
  <1>1. PICK t : t = Append(seq, x)
    BY Zenon
  <1>2. /\ t \in Seq(S) /\ DOMAIN t = 1..(Len(seq) + 1) /\ t[Len(seq) + 1] = x
        /\ \A n \in 1..Len(seq) : t[n] = seq[n]
        /\ DOMAIN seq = 1..Len(seq) /\ Len(seq) \in Nat
    BY <1>1
  <1>3. \A n \in 1..(Len(seq) + 1) : n \in 1..Len(seq) \/ n = Len(seq) + 1
    BY <1>2
  <1>4. \A n \in 1..Len(seq) : n \in 1..(Len(seq) + 1)
    BY <1>2
  <1>5. Len(seq) + 1 \in 1..(Len(seq) + 1)
    BY <1>2
  <1>6. \A n \in DOMAIN seq : seq[n] # x
    BY DEF ToSet
  <1>7. IsInjective(t)
    BY <1>2, <1>3, <1>6 DEF IsInjective
  <1>8. ToSet(t) = ToSet(seq) \cup {x}
    BY <1>2, <1>3, <1>4, <1>5 DEF ToSet
  <1> QED
    BY <1>1, <1>2, <1>7, <1>8

\* AddCost: the transaction passes to the admitted.
LEMMA AddOk ==
    ASSUME NEW j, NEW f, f \in [DOMAIN f -> AllFates], LoopOk("add", j, f),
           NEW k, Fields(k), SameBatch(j, k), k.groups = j.groups,
           k.to_admit = Tail(j.to_admit), k.admitted = Append(j.admitted, Head(j.to_admit))
    PROVE  LoopOk("admit", k, f) /\ Settles("add", j, f, "admit", k, f)
  <1> DEFINE D == DOMAIN j.batch
             i == Head(j.to_admit)
  <1>1. HasGroup("admit") /\ HasGroup("add") /\ InProcess("admit") /\ InProcess("add")
    BY DEF HasGroup, InProcess
  <1>2. /\ j.to_admit \in Seq(D) /\ IsInjective(j.to_admit) /\ j.to_admit # <<>>
        /\ j.admitted \in Seq(D) /\ IsInjective(j.admitted)
        /\ ToSet(j.to_admit) \cap ToSet(j.admitted) = {}
        /\ k.batch = j.batch
    BY <1>1 DEF LoopOk, GroupOk, SameBatch
  <1>3. /\ IsInjective(k.to_admit) /\ i \notin ToSet(k.to_admit) /\ i \in D
        /\ ToSet(j.to_admit) = {i} \cup ToSet(k.to_admit) /\ k.to_admit \in Seq(D)
    <2>1. PICK S, t : S = D /\ t = j.to_admit
      OBVIOUS
    <2>2. t \in Seq(S) /\ IsInjective(t) /\ t # <<>>
      BY <1>2, <2>1
    <2>3. /\ IsInjective(Tail(t)) /\ Head(t) \notin ToSet(Tail(t)) /\ Head(t) \in S
          /\ ToSet(t) = {Head(t)} \cup ToSet(Tail(t))
      BY <2>2, TailOnce
    <2>4. Tail(t) \in Seq(S)
      BY <2>2
    <2> QED
      BY <2>1, <2>3, <2>4, Zenon
  <1>4. i \notin ToSet(j.admitted)
    BY <1>2, <1>3
  <1> HIDE DEF i
  <1>5. k.admitted = Append(j.admitted, i)
    BY DEF i
  <1>6. /\ k.admitted \in Seq(D) /\ IsInjective(k.admitted)
        /\ ToSet(k.admitted) = ToSet(j.admitted) \cup {i}
    <2>1. PICK S, t : S = D /\ t = j.admitted
      OBVIOUS
    <2>2. t \in Seq(S) /\ IsInjective(t) /\ i \in S /\ i \notin ToSet(t)
      BY <1>2, <1>3, <1>4, <2>1
    <2>3. /\ Append(t, i) \in Seq(S) /\ IsInjective(Append(t, i))
          /\ ToSet(Append(t, i)) = ToSet(t) \cup {i}
      BY <2>2, AppendOnce
    <2> QED
      BY <1>5, <2>1, <2>3, Zenon
  <1>7. InHand("admit", k) = InHand("add", j)
    BY <1>1, <1>3, <1>6 DEF InHand
  <1>8. ToSet(k.to_admit) \cap ToSet(k.admitted) = {}
    BY <1>2, <1>3, <1>6
  <1>9. GroupOk("admit", k)
    BY <1>2, <1>3, <1>6, <1>8 DEF GroupOk
  <1>10. Waiting(k) = Waiting(j)
    BY DEF Waiting
  <1>11. GroupsOk("admit", k) /\ Open("admit", k) = Open("add", j)
    BY <1>1, <1>2, <1>7, <1>10 DEF LoopOk, GroupsOk, Open
  <1>12. LoopOk("admit", k, f)
    BY <1>1, <1>9, <1>11, QuietLoop
  <1>13. Between("add", j) = {} /\ Between("admit", k) = {}
    BY DEF Between
  <1> QED
    BY <1>12, <1>13, QuietSettles, Zenon

\* LockAccounts, and the steps of a member's execution: the group stays in hand.
LEMMA RunningOk ==
    ASSUME NEW p \in {"lock", "execute"}, NEW j, NEW f, f \in [DOMAIN f -> AllFates],
           LoopOk(p, j, f), NEW k, Fields(k), SameBatch(j, k), k.groups = j.groups,
           k.to_admit = j.to_admit, k.admitted = j.admitted,
           k.outcome \in [ToSet(j.admitted) -> Outcomes]
    PROVE  LoopOk("execute", k, f) /\ Settles(p, j, f, "execute", k, f)
  <1>1. HasGroup("execute") /\ HasGroup(p) /\ InProcess("execute") /\ InProcess(p)
    BY DEF HasGroup, InProcess
  <1>2. InHand("execute", k) = InHand(p, j) /\ Waiting(k) = Waiting(j) /\ k.batch = j.batch
    BY <1>1 DEF InHand, Waiting, SameBatch
  <1>3. GroupsOk("execute", k) /\ Open("execute", k) = Open(p, j)
    BY <1>1, <1>2 DEF LoopOk, GroupsOk, Open
  <1>4. GroupOk("execute", k)
    BY <1>1, <1>2 DEF LoopOk, GroupOk
  <1>5. LoopOk("execute", k, f)
    BY <1>1, <1>3, <1>4, QuietLoop
  <1>6. Between(p, j) = {} /\ Between("execute", k) = {}
    BY DEF Between
  <1> QED
    BY <1>5, <1>6, QuietSettles

\* FlushAccount.
LEMMA FlushOk ==
    ASSUME NEW j, NEW f, f \in [DOMAIN f -> AllFates], LoopOk("commit", j, f),
           NEW k, Fields(k), SameBatch(j, k), k.groups = j.groups, k.overlays = j.overlays
    PROVE  LoopOk("commit", k, f) /\ Settles("commit", j, f, "commit", k, f)
  <1>1. ~HasGroup("commit") /\ InProcess("commit")
    BY DEF HasGroup, InProcess
  <1>2. InHand("commit", k) = InHand("commit", j) /\ Waiting(k) = Waiting(j) /\ k.batch = j.batch
    BY <1>1 DEF InHand, Waiting, SameBatch
  <1>3. GroupsOk("commit", k) /\ Open("commit", k) = Open("commit", j)
    BY <1>1, <1>2 DEF LoopOk, GroupsOk, Open
  <1>4. GroupOk("commit", k)
    BY <1>1, <1>2 DEF LoopOk, GroupOk
  <1>5. LoopOk("commit", k, f)
    BY <1>1, <1>3, <1>4, QuietLoop
  <1>6. Between("commit", j) = Between("commit", k)
    BY <1>2 DEF Between
  <1> QED
    BY <1>5, <1>6, QuietSettles

\* ReleaseGroup.
LEMMA ReleaseOk ==
    ASSUME NEW j, NEW f, f \in [DOMAIN f -> AllFates], LoopOk("commit", j, f), j.overlays = <<>>,
           NEW k, Fields(k), SameBatch(j, k), k.groups = j.groups
    PROVE  LoopOk("group", k, f) /\ Settles("commit", j, f, "group", k, f)
  <1>1. ~HasGroup("commit") /\ InProcess("commit") /\ ~HasGroup("group") /\ InProcess("group")
    BY DEF HasGroup, InProcess
  <1>2. InHand("group", k) = {} /\ InHand("commit", j) = {} /\ Waiting(k) = Waiting(j)
    BY <1>1 DEF InHand, Waiting, ToSet
  <1>3. GroupsOk("group", k) /\ Open("group", k) = Open("commit", j)
    BY <1>1, <1>2 DEF LoopOk, GroupsOk, Open, SameBatch
  <1>4. GroupOk("group", k)
    BY <1>1 DEF GroupOk
  <1>5. LoopOk("group", k, f)
    BY <1>1, <1>3, <1>4, QuietLoop
  <1>6. Between("commit", j) = {} /\ Between("group", k) = {}
    BY DEF Between, ToSet
  <1> QED
    BY <1>5, <1>6, QuietSettles, Zenon


\* A step inside process_batch that gives their results and fates to the positions F.
Concludes(F, p, j, f, q, k, f2) ==
    /\ k.batch = j.batch
    /\ F \subseteq Open(p, j) /\ Open(q, k) = Open(p, j) \ F
    /\ k.results \in [DOMAIN j.batch -> Results]
    /\ \A i \in DOMAIN j.batch \ F : k.results[i] = j.results[i]
    /\ \A i \in F : k.results[i] # "AccountInUse" /\ f2[j.batch[i]] = Told(k, i)
    /\ f2 \in [DOMAIN f -> AllFates]
    /\ \A id \in DOMAIN f : id \notin {j.batch[i] : i \in F} => f2[id] = f[id]
    /\ \A i \in F : Told(k, i) = "Committed" => j.batch[i] \in Between(p, j)
    /\ Between(q, k) \subseteq Between(p, j)
    /\ Between(p, j) \subseteq Between(q, k) \cup {j.batch[i] : i \in F}

\* Positions that leave the open ones get their result and the fate it tells.
LEMMA ConcludesOk ==
    ASSUME NEW F, NEW p, NEW j, NEW f, LoopOk(p, j, f), InProcess(p),
           NEW q, NEW k, InProcess(q), Fields(k), GroupsOk(q, k), GroupOk(q, k),
           NEW f2, Concludes(F, p, j, f, q, k, f2)
    PROVE  LoopOk(q, k, f2) /\ Settles(p, j, f, q, k, f2)
  <1>1. /\ k.batch = j.batch /\ DOMAIN f2 = DOMAIN f /\ j.batch # <<>> /\ j.batch \in Seq(DOMAIN f)
        /\ j.results \in [DOMAIN j.batch -> Results] /\ k.results \in [DOMAIN j.batch -> Results]
    BY DEF Concludes, LoopOk, ResultsOk, BatchOk
  <1>2. j.results # <<>> /\ k.results # <<>>
    <2>1. DOMAIN j.batch # {}
      BY <1>1
    <2> QED
      BY <1>1, <2>1
  <1>3. Open(p, j) \subseteq HeldIn(j) /\ F \subseteq HeldIn(j)
    BY OpenIsHeld DEF Concludes
  <1>4. HeldIn(k) = HeldIn(j)
    BY <1>1, <1>2, <1>3 DEF HeldIn, Concludes
  <1>5. LiveIn(k) = LiveIn(j)
    BY <1>1, <1>4 DEF LiveIn
  <1>6. \A i, h \in HeldIn(j) : j.batch[i] = j.batch[h] => i = h
    BY DEF LoopOk, BatchOk
  <1>7. \A i \in HeldIn(j) : j.batch[i] \in DOMAIN f
    BY <1>1 DEF HeldIn
  <1>8. \A i \in HeldIn(j) \ F : f2[j.batch[i]] = f[j.batch[i]]
    BY <1>3, <1>6, <1>7 DEF Concludes
  <1>9. BatchOk(q, k, f2)
    BY <1>1, <1>4, <1>6 DEF BatchOk, InProcess, HasGroup
  <1>10. ASSUME NEW i \in Open(q, k) PROVE k.results[i] = "None" /\ f2[k.batch[i]] = "Pending"
    <2>1. i \in Open(p, j) /\ i \notin F /\ i \in HeldIn(j) /\ i \in DOMAIN j.batch
      BY <1>3, <1>10 DEF Concludes, HeldIn
    <2>2. j.results[i] = "None" /\ f[j.batch[i]] = "Pending"
      BY <2>1 DEF LoopOk, ResultsOk
    <2> QED
      BY <1>1, <1>8, <2>1, <2>2 DEF Concludes
  <1>11. ASSUME NEW i \in HeldIn(k) \ Open(q, k) PROVE f2[k.batch[i]] = Told(k, i)
    <2>1. CASE i \in F
      BY <1>1, <2>1 DEF Concludes
    <2>2. CASE i \notin F
      <3>1. i \in HeldIn(j) \ Open(p, j) /\ i \in DOMAIN j.batch \ F
        BY <1>4, <1>11, <2>2 DEF Concludes, HeldIn
      <3>2. f[j.batch[i]] = Told(j, i) /\ k.results[i] = j.results[i]
        BY <3>1 DEF LoopOk, ResultsOk, Concludes
      <3> QED
        BY <1>1, <1>8, <3>1, <3>2 DEF Told
    <2> QED
      BY <2>1, <2>2
  <1>12. ResultsOk(q, k, f2)
    BY <1>1, <1>10, <1>11 DEF ResultsOk
  <1>13. \A i \in F : f2[j.batch[i]] # "Pending"
    <2>1. \A i \in F : k.results[i] \in Results
      BY <1>1, <1>3 DEF HeldIn
    <2> QED
      BY <2>1 DEF Concludes, Told, Results
  <1>14. Settles(p, j, f, q, k, f2)
    <2>1. ASSUME NEW id \in DOMAIN f, f2[id] # f[id]
          PROVE  /\ id \in LiveIn(j) /\ f2[id] # "Pending"
                 /\ f2[id] = "Committed" => id \in Between(p, j)
      <3>1. PICK i \in F : id = j.batch[i]
        BY <2>1 DEF Concludes
      <3> QED
        BY <1>3, <1>13, <3>1 DEF LiveIn, Concludes
    <2>2. \A id \in Between(p, j) \ Between(q, k) : f2[id] # "Pending"
      BY <1>13 DEF Concludes
    <2> QED
      BY <1>5, <2>1, <2>2 DEF Settles, Concludes
  <1> QED
    BY <1>9, <1>12, <1>14 DEF LoopOk

\* WouldNotFit: the transaction gets its error and leaves the group.
LEMMA RefuseOk ==
    ASSUME NEW j, NEW f, f \in [DOMAIN f -> AllFates], LoopOk("admit", j, f), j.to_admit # <<>>,
           NEW i, i = Head(j.to_admit),
           NEW k, Fields(k), k.batch = j.batch, k.groups = j.groups, k.admitted = j.admitted,
           k.to_admit = Tail(j.to_admit),
           k.results = [j.results EXCEPT ![i] = "WouldExceedMaxBlockCostLimit"],
           NEW f2, f2 = [id \in DOMAIN f |-> IF id \in {j.batch[i]}
                                             THEN "WouldExceedMaxBlockCostLimit" ELSE f[id]]
    PROVE  LoopOk("admit", k, f2) /\ Settles("admit", j, f, "admit", k, f2)
  <1> DEFINE D == DOMAIN j.batch
  <1>1. HasGroup("admit") /\ InProcess("admit")
    BY DEF HasGroup, InProcess
  <1>2. /\ j.to_admit \in Seq(D) /\ IsInjective(j.to_admit)
        /\ j.admitted \in Seq(D) /\ IsInjective(j.admitted)
        /\ ToSet(j.to_admit) \cap ToSet(j.admitted) = {}
        /\ j.results \in [D -> Results]
    BY <1>1 DEF LoopOk, GroupOk, ResultsOk
  <1>3. /\ IsInjective(k.to_admit) /\ i \notin ToSet(k.to_admit) /\ i \in D
        /\ ToSet(j.to_admit) = {i} \cup ToSet(k.to_admit) /\ k.to_admit \in Seq(D)
    <2>1. PICK S, t : S = D /\ t = j.to_admit
      OBVIOUS
    <2>2. t \in Seq(S) /\ IsInjective(t) /\ t # <<>>
      BY <1>2, <2>1
    <2>3. /\ IsInjective(Tail(t)) /\ Head(t) \notin ToSet(Tail(t)) /\ Head(t) \in S
          /\ ToSet(t) = {Head(t)} \cup ToSet(Tail(t))
      BY <2>2, TailOnce
    <2>4. Tail(t) \in Seq(S)
      BY <2>2
    <2> QED
      BY <2>1, <2>3, <2>4, Zenon
  <1>4. GroupOk("admit", k)
    BY <1>2, <1>3 DEF GroupOk
  <1>5. /\ InHand("admit", k) = InHand("admit", j) \ {i} /\ i \in InHand("admit", j)
        /\ Waiting(k) = Waiting(j)
    BY <1>1, <1>2, <1>3 DEF InHand, Waiting
  <1>6. Waiting(j) \cap InHand("admit", j) = {}
    BY <1>1 DEF LoopOk, GroupsOk
  <1>7. GroupsOk("admit", k)
    BY <1>1, <1>5, <1>6 DEF LoopOk, GroupsOk
  <1>8. Open("admit", k) = Open("admit", j) \ {i} /\ i \in Open("admit", j)
    BY <1>5, <1>6 DEF Open
  <1>9. k.results \in [D -> Results] /\ k.results[i] = "WouldExceedMaxBlockCostLimit"
        /\ \A h \in D \ {i} : k.results[h] = j.results[h]
    BY <1>2, <1>3 DEF Results
  <1>10. Told(k, i) = "WouldExceedMaxBlockCostLimit"
    BY <1>9 DEF Told
  <1>11. j.batch[i] \in DOMAIN f
    BY <1>3 DEF LoopOk, BatchOk
  <1>12. f2 \in [DOMAIN f -> AllFates] /\ f2[j.batch[i]] = "WouldExceedMaxBlockCostLimit"
         /\ \A id \in DOMAIN f : id # j.batch[i] => f2[id] = f[id]
    BY <1>11 DEF AllFates
  <1>13. Between("admit", j) = {} /\ Between("admit", k) = {}
    BY DEF Between
  <1>14. Concludes({i}, "admit", j, f, "admit", k, f2)
    BY <1>8, <1>9, <1>10, <1>12, <1>13 DEF Concludes
  <1> QED
    BY <1>1, <1>4, <1>7, <1>14, ConcludesOk

\* BeginFlush: the overlay of the transaction is being committed.
LEMMA BeginFlushOk ==
    ASSUME NEW j, NEW f, f \in [DOMAIN f -> AllFates], LoopOk("commit", j, f), j.overlays # <<>>,
           NEW i, i = Head(j.overlays),
           NEW k, Fields(k), SameBatch(j, k), k.groups = j.groups, k.overlays = Tail(j.overlays),
           NEW f2, f2 = [id \in DOMAIN f |-> IF id \in {j.batch[i]} THEN "Committed" ELSE f[id]]
    PROVE  LoopOk("commit", k, f2) /\ Settles("commit", j, f, "commit", k, f2)
  <1> DEFINE D == DOMAIN j.batch
  <1>1. ~HasGroup("commit") /\ InProcess("commit")
    BY DEF HasGroup, InProcess
  <1>2. /\ j.overlays \in Seq(D) /\ IsInjective(j.overlays)
        /\ j.results \in [D -> Results] /\ k.batch = j.batch /\ k.results = j.results
    BY <1>1 DEF LoopOk, GroupOk, ResultsOk, SameBatch
  <1>3. /\ IsInjective(k.overlays) /\ i \notin ToSet(k.overlays) /\ i \in D
        /\ ToSet(j.overlays) = {i} \cup ToSet(k.overlays) /\ k.overlays \in Seq(D)
    <2>1. PICK S, t : S = D /\ t = j.overlays
      OBVIOUS
    <2>2. t \in Seq(S) /\ IsInjective(t) /\ t # <<>>
      BY <1>2, <2>1
    <2>3. /\ IsInjective(Tail(t)) /\ Head(t) \notin ToSet(Tail(t)) /\ Head(t) \in S
          /\ ToSet(t) = {Head(t)} \cup ToSet(Tail(t))
      BY <2>2, TailOnce
    <2>4. Tail(t) \in Seq(S)
      BY <2>2
    <2> QED
      BY <2>1, <2>3, <2>4, Zenon
  <1>4. GroupOk("commit", k)
    BY <1>1, <1>2, <1>3 DEF GroupOk
  <1>5. /\ InHand("commit", k) = InHand("commit", j) \ {i} /\ i \in InHand("commit", j)
        /\ Waiting(k) = Waiting(j)
    BY <1>1, <1>3 DEF InHand, Waiting
  <1>6. Waiting(j) \cap InHand("commit", j) = {}
    BY <1>1 DEF LoopOk, GroupsOk
  <1>7. GroupsOk("commit", k)
    BY <1>1, <1>2, <1>5, <1>6 DEF LoopOk, GroupsOk
  <1>8. Open("commit", k) = Open("commit", j) \ {i} /\ i \in Open("commit", j)
    BY <1>5, <1>6 DEF Open
  <1>9. j.results[i] = "None"
    BY <1>1, <1>8 DEF LoopOk, ResultsOk
  <1>10. Told(k, i) = "Committed"
    BY <1>2, <1>9 DEF Told
  <1>11. j.batch[i] \in DOMAIN f
    BY <1>3 DEF LoopOk, BatchOk
  <1>12. f2 \in [DOMAIN f -> AllFates] /\ f2[j.batch[i]] = "Committed"
         /\ \A id \in DOMAIN f : id # j.batch[i] => f2[id] = f[id]
    BY <1>11 DEF AllFates
  <1>13. /\ Between("commit", k) \subseteq Between("commit", j)
         /\ Between("commit", j) \subseteq Between("commit", k) \cup {j.batch[i]}
         /\ j.batch[i] \in Between("commit", j)
    BY <1>2, <1>3 DEF Between
  <1>14. Concludes({i}, "commit", j, f, "commit", k, f2)
    BY <1>2, <1>8, <1>9, <1>10, <1>12, <1>13 DEF Concludes
  <1> QED
    BY <1>1, <1>4, <1>7, <1>14, ConcludesOk


\* CollectResults: the failed members F get their errors, the others are committed next.
Collected(j, F) ==
    [i \in DOMAIN j.results |-> IF i \in F THEN j.outcome[i] ELSE j.results[i]]
FatesCollected(j, f, failed, final) ==
    [id \in DOMAIN f |-> IF \E i \in final : j.batch[i] = id
                         THEN j.outcome[CHOOSE i \in failed : j.batch[i] = id] ELSE f[id]]

\* Collecting the results of a group: failures get their fate, the others are to commit.
LEMMA CollectOk ==
    ASSUME NEW j, NEW f, f \in [DOMAIN f -> AllFates], LoopOk("collect", j, f),
           NEW F, F = {i \in ToSet(j.admitted) : j.outcome[i] # "Ok"},
           NEW k, Fields(k), k.batch = j.batch, k.groups = j.groups,
           k.results = Collected(j, F), k.overlays = Those(j.admitted, ToSet(j.admitted) \ F),
           NEW f2, f2 = FatesCollected(j, f, F, F)
    PROVE  LoopOk("commit", k, f2) /\ Settles("collect", j, f, "commit", k, f2)
  <1> USE DEF Collected, FatesCollected
  <1> DEFINE D == DOMAIN j.batch
             M == ToSet(j.admitted)
  <1>1. /\ HasGroup("collect") /\ InProcess("collect")
        /\ ~HasGroup("commit") /\ InProcess("commit")
    BY DEF HasGroup, InProcess
  <1>2. /\ j.admitted \in Seq(D) /\ IsInjective(j.admitted) /\ j.to_admit = <<>>
        /\ j.results \in [D -> Results]
    BY <1>1 DEF LoopOk, GroupOk, ResultsOk
  <1>3. \A i \in F : j.outcome[i] \in {"ProgramError", "BlockhashNotFound"}
    BY DEF LoopOk, GroupOk, Outcomes
  <1>4. /\ k.overlays \in Seq(D) /\ IsInjective(k.overlays) /\ ToSet(k.overlays) = M \ F
    <2>1. PICK S, t, G : S = D /\ t = j.admitted /\ G = M \ F
      OBVIOUS
    <2>2. t \in Seq(S) /\ IsInjective(t) /\ ToSet(t) \cap G = G
      BY <1>2, <2>1
    <2>3. /\ Those(t, G) \in Seq(S) /\ ToSet(Those(t, G)) = ToSet(t) \cap G
          /\ IsInjective(Those(t, G))
      BY <2>2, ThoseAre
    <2> QED
      BY <2>1, <2>2, <2>3, Zenon
  <1>5. InHand("collect", j) = M /\ InHand("commit", k) = M \ F /\ Waiting(k) = Waiting(j)
    <2>1. ToSet(<<>>) = {}
      BY DEF ToSet
    <2> QED
      BY <1>1, <1>2, <1>4, <2>1 DEF InHand, Waiting
  <1>6. Waiting(j) \cap M = {}
    BY <1>1, <1>5 DEF LoopOk, GroupsOk
  <1>7. GroupOk("commit", k)
    BY <1>1, <1>4 DEF GroupOk
  <1>8. GroupsOk("commit", k)
    BY <1>1, <1>5, <1>6 DEF LoopOk, GroupsOk
  <1>9. F \subseteq M /\ F \subseteq Open("collect", j)
        /\ Open("commit", k) = Open("collect", j) \ F
    BY <1>5, <1>6 DEF Open
  <1>10. Open("collect", j) \subseteq HeldIn(j) /\ Open("collect", j) \subseteq D
    BY <1>1, OpenIsHeld
  <1>11. /\ k.results \in [D -> Results] /\ \A i \in D \ F : k.results[i] = j.results[i]
         /\ \A i \in F : k.results[i] = j.outcome[i]
    BY <1>2, <1>3, <1>9, <1>10 DEF Results
  <1>12. \A i \in F : Told(k, i) = j.outcome[i]
    BY <1>3, <1>11 DEF Told
  <1>13. ASSUME NEW i \in F PROVE j.batch[i] \in DOMAIN f /\ f2[j.batch[i]] = j.outcome[i]
    <2>1. i \in HeldIn(j) /\ j.batch[i] \in DOMAIN f
      BY <1>9, <1>10 DEF LoopOk, BatchOk
    <2>2. \A h \in F : j.batch[h] = j.batch[i] => h = i
      BY <1>9, <1>10, <2>1 DEF LoopOk, BatchOk
    <2>3. (CHOOSE h \in F : j.batch[h] = j.batch[i]) = i
      BY <2>2
    <2> QED
      BY <2>1, <2>3, Zenon
  <1>14. f2 \in [DOMAIN f -> AllFates]
    <2>1. ASSUME NEW id \in DOMAIN f, \E i \in F : j.batch[i] = id PROVE f2[id] \in AllFates
      BY <1>3, <1>13, <2>1 DEF AllFates
    <2>2. ASSUME NEW id \in DOMAIN f, ~\E i \in F : j.batch[i] = id PROVE f2[id] \in AllFates
      BY <2>2
    <2> QED
      BY <2>1, <2>2
  <1>15. \A id \in DOMAIN f : id \notin {j.batch[i] : i \in F} => f2[id] = f[id]
    OBVIOUS
  <1>16. /\ Between("commit", k) \subseteq Between("collect", j)
         /\ Between("collect", j) \subseteq Between("commit", k) \cup {j.batch[i] : i \in F}
    BY <1>4 DEF Between
  <1>17. Concludes(F, "collect", j, f, "commit", k, f2)
    <2>1. \A i \in F : k.results[i] # "AccountInUse" /\ f2[j.batch[i]] = Told(k, i)
                       /\ Told(k, i) # "Committed"
      <3> TAKE i \in F
      <3>1. Told(k, i) = j.outcome[i] /\ f2[j.batch[i]] = j.outcome[i] /\ k.results[i] = j.outcome[i]
        BY <1>11, <1>12, <1>13, Zenon
      <3>2. j.outcome[i] \in {"ProgramError", "BlockhashNotFound"}
        BY <1>3
      <3> QED
        BY <3>1, <3>2
    <2> QED
      BY <1>9, <1>11, <1>14, <1>15, <1>16, <2>1, Zenon DEF Concludes
  <1> QED
    BY <1>1, <1>7, <1>8, <1>17, ConcludesOk

\* A function on an initial segment is a sequence.
LEMMA FunctionIsSeq ==
    ASSUME NEW n \in Nat, NEW S, NEW t \in [1..n -> S]
    PROVE  t \in Seq(S)
  <1>1. Seq(S) = UNION {[1..m -> S] : m \in Nat}
    BY SeqDef
  <1> QED
    BY <1>1, Zenon

\* The positions of a batch, in order.
LEMMA IdentitySeq ==
    ASSUME NEW n \in Nat, NEW t, t = [i \in 1..n |-> i]
    PROVE  t \in Seq(1..n) /\ IsInjective(t) /\ ToSet(t) = 1..n
  <1>1. t \in [1..n -> 1..n] /\ DOMAIN t = 1..n /\ \A i \in 1..n : t[i] = i
    OBVIOUS
  <1>2. t \in Seq(1..n)
    BY <1>1, FunctionIsSeq
  <1>3. ToSet(t) = 1..n
    BY <1>1 DEF ToSet
  <1> QED
    BY <1>1, <1>2, <1>3 DEF IsInjective

\* The groups of schedule, in terms of the positions of the batch.
Regroup(t, groups) == [g \in DOMAIN groups |-> [n \in DOMAIN groups[g] |-> t[groups[g][n]]]]

\* The groups of ScheduleOf, in terms of positions in the batch.
LEMMA RegroupShape ==
    ASSUME NEW D, NEW t \in Seq(D), NEW G \in Seq(Seq(1..Len(t)))
    PROVE  /\ Regroup(t, G) \in Seq(Seq(D)) /\ DOMAIN Regroup(t, G) = DOMAIN G
           /\ \A g \in DOMAIN G :
                 /\ DOMAIN Regroup(t, G)[g] = DOMAIN G[g]
                 /\ \A n \in DOMAIN G[g] : Regroup(t, G)[g][n] = t[G[g][n]] /\ G[g][n] \in 1..Len(t)
  <1>1. \A g \in DOMAIN G : G[g] \in Seq(1..Len(t))
    OBVIOUS
  <1>2. \A g \in DOMAIN G : \A n \in DOMAIN G[g] : G[g][n] \in 1..Len(t)
    BY <1>1
  <1>3. /\ DOMAIN Regroup(t, G) = DOMAIN G
        /\ \A g \in DOMAIN G : Regroup(t, G)[g] = [n \in DOMAIN G[g] |-> t[G[g][n]]]
    BY DEF Regroup
  <1>4. ASSUME NEW g \in DOMAIN G
        PROVE  [n \in DOMAIN G[g] |-> t[G[g][n]]] \in Seq(D)
    <2>1. Len(G[g]) \in Nat /\ DOMAIN G[g] = 1..Len(G[g])
      BY <1>1
    <2>2. \A n \in 1..Len(G[g]) : t[G[g][n]] \in D
      BY <1>2, <2>1
    <2> QED
      BY <2>1, <2>2
  <1>5. Regroup(t, G) \in Seq(Seq(D))
    <2>1. PICK S : S = Seq(D)
      OBVIOUS
    <2>2. Len(G) \in Nat /\ DOMAIN G = 1..Len(G)
      OBVIOUS
    <2>3. \A g \in 1..Len(G) : [n \in DOMAIN G[g] |-> t[G[g][n]]] \in S
      BY <1>4, <2>1, <2>2, Zenon
    <2>4. Regroup(t, G) \in [1..Len(G) -> S]
      BY <2>2, <2>3 DEF Regroup
    <2>5. Regroup(t, G) \in Seq(S)
      BY <2>2, <2>4, FunctionIsSeq, Zenon
    <2> QED
      BY <2>1, <2>5
  <1> QED
    BY <1>2, <1>3, <1>5

\* They have each scheduled position once.
LEMMA RegroupOnce ==
    ASSUME NEW D, NEW t \in Seq(D), IsInjective(t), NEW G \in Seq(Seq(1..Len(t))),
           EachOnceIn(Len(t), {}, G), NEW gs, gs = Regroup(t, G)
    PROVE  /\ Apart(gs)
           /\ UNION {ToSet(gs[g]) : g \in DOMAIN gs} = ToSet(t)
  <1>1. /\ DOMAIN gs = DOMAIN G
        /\ \A g \in DOMAIN G :
              /\ DOMAIN gs[g] = DOMAIN G[g]
              /\ \A n \in DOMAIN G[g] : gs[g][n] = t[G[g][n]] /\ G[g][n] \in 1..Len(t)
    BY RegroupShape
  <1>2. DOMAIN t = 1..Len(t)
    OBVIOUS
  <1>3. ASSUME NEW g \in DOMAIN G, NEW h \in DOMAIN G,
               NEW m \in DOMAIN G[g], NEW n \in DOMAIN G[h], gs[g][m] = gs[h][n]
        PROVE  g = h /\ m = n
    <2>1. G[g][m] = G[h][n]
      BY <1>1, <1>2, <1>3 DEF IsInjective
    <2> QED
      BY <2>1 DEF EachOnceIn
  <1>4. ASSUME NEW g \in DOMAIN G PROVE ToSet(gs[g]) \subseteq ToSet(t)
    BY <1>1, <1>2 DEF ToSet
  <1>5. ASSUME NEW x \in ToSet(t) PROVE \E g \in DOMAIN G : x \in ToSet(gs[g])
    <2>1. PICK n \in 1..Len(t) : t[n] = x
      BY <1>2 DEF ToSet
    <2>2. PICK g \in DOMAIN G : n \in ToSet(G[g])
      BY DEF EachOnceIn
    <2>3. PICK m \in DOMAIN G[g] : G[g][m] = n
      BY <2>2 DEF ToSet
    <2>4. x \in ToSet(gs[g])
      BY <1>1, <2>1, <2>3 DEF ToSet
    <2> QED
      BY <2>4
  <1>6. UNION {ToSet(gs[g]) : g \in DOMAIN gs} = ToSet(t)
    BY <1>1, <1>4, <1>5
  <1> QED
    BY <1>1, <1>3, <1>6 DEF Apart

\* VerifyAndSchedule.  The positions in to_schedule are grouped by schedule, the
\* others have an invalid signature.
\* What verification makes of the results and the fates.
Positions(j) == [i \in DOMAIN j.batch |-> i]
Verified(j, valid) ==
    [i \in DOMAIN j.batch |-> IF i \in valid THEN "None" ELSE "InvalidSignature"]
FatesVerified(j, f, valid) ==
    [id \in DOMAIN f |-> IF id \in {j.batch[i] : i \in DOMAIN j.batch \ valid}
                         THEN "InvalidSignature" ELSE f[id]]

\* Verification and scheduling: what has a bad signature gets its fate, and each other
\* position is in one group.
LEMMA ScheduleOk ==
    ASSUME NEW j, NEW f, f \in [DOMAIN f -> AllFates], LoopOk("verify", j, f),
           NEW valid \in SUBSET (DOMAIN j.batch),
           NEW to_schedule, to_schedule = Those(Positions(j), valid),
           NEW Key, NEW sets \in Seq(KeySets(Key)), Len(sets) = Len(to_schedule),
           NEW k, Fields(k), k.batch = j.batch, k.results = Verified(j, valid),
           k.groups = Regroup(to_schedule, ScheduleOf(sets)),
           NEW f2, f2 = FatesVerified(j, f, valid)
    PROVE  LoopOk("group", k, f2) /\ Settles("verify", j, f, "group", k, f2)
  <1> USE DEF Positions, Verified, FatesVerified
  <1> DEFINE D == DOMAIN j.batch
             N == Len(to_schedule)
             G == ScheduleOf(sets)
  <1>1. /\ ~HasGroup("verify") /\ ~InProcess("verify")
        /\ ~HasGroup("group") /\ InProcess("group")
    BY DEF HasGroup, InProcess
  <1>2. /\ j.batch \in Seq(DOMAIN f) /\ j.batch # <<>> /\ j.results = <<>>
        /\ \A i, h \in HeldIn(j) : j.batch[i] = j.batch[h] => i = h
        /\ \A i \in D : f[j.batch[i]] = "Pending" /\ j.batch[i] \in DOMAIN f
    <2>1. j.batch \in Seq(DOMAIN f) /\ j.batch # <<>> /\ j.results = <<>>
      BY <1>1 DEF LoopOk, BatchOk
    <2>2. \A i \in D : j.batch[i] \in DOMAIN f
      BY <2>1
    <2> QED
      BY <2>1, <2>2 DEF LoopOk, BatchOk
  <1>3. /\ to_schedule \in Seq(D) /\ IsInjective(to_schedule) /\ ToSet(to_schedule) = valid
    <2>1. PICK t, S : t = [i \in D |-> i] /\ S = D
      OBVIOUS
    <2>2. D = 1..Len(j.batch) /\ Len(j.batch) \in Nat
      BY <1>2
    <2>3. t \in Seq(S) /\ IsInjective(t) /\ ToSet(t) = S
      BY <2>1, <2>2, IdentitySeq, Zenon
    <2>4. /\ Those(t, valid) \in Seq(S) /\ ToSet(Those(t, valid)) = ToSet(t) \cap valid
          /\ IsInjective(Those(t, valid))
      BY <2>3, ThoseAre
    <2>5. ToSet(t) \cap valid = valid
      BY <2>1, <2>3
    <2> QED
      BY <2>1, <2>4, <2>5, Zenon
  <1>4. N \in Nat /\ DOMAIN to_schedule = 1..N /\ \A n \in 1..N : to_schedule[n] \in D
    BY <1>3
  <1>5. G \in Seq(Seq(1..N)) /\ EachOnceIn(N, {}, G)
    BY ScheduleGroups
  <1>6. /\ k.groups \in Seq(Seq(D))
        /\ Apart(k.groups)
        /\ Waiting(k) = valid
    <2>1. PICK t, H, gs, S : t = to_schedule /\ H = G /\ gs = k.groups /\ S = D
      BY Zenon
    <2>2. t \in Seq(S) /\ IsInjective(t) /\ H \in Seq(Seq(1..Len(t))) /\ EachOnceIn(Len(t), {}, H)
          /\ gs = Regroup(t, H)
      BY <1>3, <1>5, <2>1, Zenon
    <2>3. /\ gs \in Seq(Seq(S))
          /\ Apart(gs)
          /\ UNION {ToSet(gs[g]) : g \in DOMAIN gs} = ToSet(t)
      BY <2>2, RegroupShape, RegroupOnce
    <2>4. k.groups \in Seq(Seq(D))
      BY <2>1, <2>3, Zenon
    <2>5. Apart(k.groups)
      BY <2>1, <2>3, Zenon
    <2>6. Waiting(k) = UNION {ToSet(gs[g]) : g \in DOMAIN gs}
      BY <2>1, Zenon DEF Waiting
    <2> QED
      BY <1>3, <2>1, <2>3, <2>4, <2>5, <2>6, Zenon
  <1>12. InHand("group", k) = {} /\ Open("group", k) = valid
    BY <1>1, <1>6 DEF InHand, Open
  <1>13. GroupsOk("group", k)
    BY <1>6, <1>12 DEF GroupsOk
  <1>14. GroupOk("group", k)
    BY <1>1 DEF GroupOk
  <1>15. /\ k.results \in [D -> Results]
         /\ \A i \in valid : k.results[i] = "None"
         /\ \A i \in D \ valid : k.results[i] = "InvalidSignature"
    BY DEF Results
  <1>16. HeldIn(k) = D /\ HeldIn(j) = D
    BY <1>2, <1>15 DEF HeldIn
  <1>17. LiveIn(k) = LiveIn(j) /\ LiveIn(j) = {j.batch[i] : i \in D}
    BY <1>16 DEF LiveIn
  <1>18. /\ f2 \in [DOMAIN f -> AllFates]
         /\ \A i \in D \ valid : f2[j.batch[i]] = "InvalidSignature"
         /\ \A i \in valid : f2[j.batch[i]] = f[j.batch[i]]
    <2>1. f2 \in [DOMAIN f -> AllFates]
      BY DEF AllFates
    <2>2. \A i \in D \ valid : f2[j.batch[i]] = "InvalidSignature"
      BY <1>2
    <2>3. \A i \in valid : f2[j.batch[i]] = f[j.batch[i]]
      BY <1>2, <1>16
    <2> QED
      BY <2>1, <2>2, <2>3
  <1>19. BatchOk("group", k, f2)
    BY <1>1, <1>2, <1>16, <1>18 DEF BatchOk
  <1>20. ResultsOk("group", k, f2)
    BY <1>2, <1>12, <1>15, <1>16, <1>18 DEF ResultsOk, Told
  <1>21. Settles("verify", j, f, "group", k, f2)
    <2>1. Between("verify", j) = {} /\ Between("group", k) = {}
      BY DEF Between
    <2>2. \A id \in DOMAIN f : f2[id] # f[id] => id \in LiveIn(j) /\ f2[id] = "InvalidSignature"
      BY <1>17
    <2> QED
      BY <1>17, <1>18, <2>1, <2>2 DEF Settles
  <1> QED
    BY <1>13, <1>14, <1>19, <1>20, <1>21 DEF LoopOk


-----------------------------------------------------------------------------
\* The steps that change the queue or the records.

\* SendTransaction, with n transactions sent so far.
FatesOf(n, f) == n \in Nat /\ f \in [1..n -> AllFates]
Sends(n, f, f2, ch, ch2) == f2 = Append(f, "Pending") /\ ch2 = Append(ch, n + 1)

\* A submission puts a new transaction into the queue.
LEMMA SendStep ==
    ASSUME NEW W, NEW ps, NEW js, NEW f, NEW ch, NEW rec, PipelineOk(W, ps, js, f, ch, rec),
           NEW n, FatesOf(n, f), NEW f2, NEW ch2, Sends(n, f, f2, ch, ch2)
    PROVE  PipelineOk(W, ps, js, f2, ch2, rec) /\ FatesOf(n + 1, f2)
  <1> SUFFICES PipelineOk(W, ps, js, f2, ch2, rec) /\ f2 \in [1..(n + 1) -> AllFates]
    BY DEF FatesOf
  <1> USE DEF FatesOf, Sends
  <1>1. /\ f2 \in [1..(n + 1) -> AllFates] /\ f2[n + 1] = "Pending"
        /\ \A id \in 1..n : f2[id] = f[id]
    <2>1. f \in Seq(AllFates)
      BY FunctionIsSeq
    <2>2. Len(f) = n
      OBVIOUS
    <2>3. "Pending" \in AllFates
      BY DEF AllFates
    <2>4. /\ f2 \in Seq(AllFates) /\ Len(f2) = n + 1 /\ f2[n + 1] = "Pending"
          /\ \A id \in 1..n : f2[id] = f[id]
      BY <2>1, <2>2, <2>3
    <2>5. f2 \in [1..Len(f2) -> AllFates]
      BY <2>4, LenProperties, Zenon
    <2> QED
      BY <2>4, <2>5
  <1>2. /\ \A id \in 1..n : id \in 1..(n + 1) /\ id # n + 1
        /\ \A id \in 1..(n + 1) : id \in 1..n \/ id = n + 1
        /\ n + 1 \in 1..(n + 1) /\ DOMAIN f = 1..n /\ DOMAIN f2 = 1..(n + 1)
    BY <1>1
  <1>3. ASSUME NEW w \in W PROVE LoopOk(ps[w], js[w], f) /\ LiveIn(js[w]) \subseteq 1..n
    BY <1>2, LiveAreSent DEF PipelineOk, LoopOk
  <1>4. \A w \in W : LoopOk(ps[w], js[w], f2)
    <2> TAKE w \in W
    <2>1. DOMAIN f \subseteq DOMAIN f2 /\ \A id \in LiveIn(js[w]) : f2[id] = f[id]
      BY <1>1, <1>2, <1>3
    <2> QED
      BY <1>3, <2>1, LoopFrame, Zenon
  <1>5. ch \in Seq(1..n) /\ IsInjective(ch) /\ \A m \in DOMAIN ch : f[ch[m]] = "Pending"
    BY <1>2 DEF PipelineOk, QueueOk
  <1>6. ch2 \in Seq(1..(n + 1)) /\ IsInjective(ch2) /\ ToSet(ch2) = ToSet(ch) \cup {n + 1}
    <2>1. PICK S : S = 1..(n + 1)
      OBVIOUS
    <2>2. ch \in Seq(S) /\ n + 1 \in S
      BY <1>2, <1>5, <2>1
    <2>3. \A m \in DOMAIN ch : ch[m] \in 1..n
      BY <1>5
    <2>4. n + 1 \notin ToSet(ch)
      BY <1>2, <2>3 DEF ToSet
    <2> QED
      BY <1>5, <2>1, <2>2, <2>4, AppendOnce
  <1>7. ToSet(ch) \subseteq 1..n
    BY <1>5 DEF ToSet
  <1>8. QueueOk(W, js, f2, ch2)
    <2>1. \A m \in DOMAIN ch2 : f2[ch2[m]] = "Pending"
      <3>1. \A x \in ToSet(ch) : x \in 1..n /\ f[x] = "Pending"
        BY <1>5, <1>7 DEF ToSet
      <3>2. \A x \in ToSet(ch2) : f2[x] = "Pending"
        BY <1>1, <1>6, <3>1
      <3> QED
        BY <3>2, Zenon DEF ToSet
    <2>2. \A w \in W : LiveIn(js[w]) \cap ToSet(ch2) = {}
      BY <1>2, <1>3, <1>6 DEF PipelineOk, QueueOk
    <2>3. \A v, w \in W : v # w => LiveIn(js[v]) \cap LiveIn(js[w]) = {}
      BY Zenon DEF PipelineOk, QueueOk
    <2>4. ASSUME NEW id \in 1..(n + 1), f2[id] = "Pending"
          PROVE  id \in ToSet(ch2) \/ \E w \in W : id \in LiveIn(js[w])
      <3>1. CASE id \in 1..n
        <4>1. f[id] = "Pending"
          BY <1>1, <2>4, <3>1
        <4> QED
          BY <1>2, <1>6, <3>1, <4>1, Zenon DEF PipelineOk, QueueOk
      <3>2. CASE id = n + 1
        BY <1>6, <3>2
      <3> QED
        BY <1>2, <3>1, <3>2
    <2> QED
      BY <1>2, <1>6, <2>1, <2>2, <2>3, <2>4, Zenon DEF QueueOk
  <1>9. RecordsOk(W, ps, js, f2, rec)
    <2>1. rec \in Seq(Seq(1..n))
      BY <1>2 DEF PipelineOk, RecordsOk
    <2>2. rec \in Seq(Seq(1..(n + 1)))
      <3>1. Seq(1..n) \subseteq Seq(1..(n + 1))
        BY <1>2
      <3> QED
        BY <2>1, <3>1
    <2>3. ~Recorded(rec, n + 1)
      <3>1. \A r \in DOMAIN rec : rec[r] \in Seq(1..n)
        BY <2>1
      <3>2. \A r \in DOMAIN rec : \A m \in DOMAIN rec[r] : rec[r][m] \in 1..n
        BY <3>1
      <3> QED
        BY <1>2, <3>2 DEF Recorded, ToSet
    <2>4. ASSUME NEW id \in 1..(n + 1)
          PROVE  /\ f2[id] = "Committed" => Recorded(rec, id)
                 /\ f2[id] = "Pending" /\ Recorded(rec, id)
                       => \E w \in W : id \in Between(ps[w], js[w])
      <3>1. CASE id \in 1..n
        BY <1>1, <1>2, <3>1 DEF PipelineOk, RecordsOk
      <3>2. CASE id = n + 1
        BY <1>1, <2>3, <3>2
      <3> QED
        BY <1>2, <3>1, <3>2
    <2> QED
      BY <1>2, <2>2, <2>4 DEF PipelineOk, RecordsOk
  <1> QED
    BY <1>1, <1>2, <1>4, <1>8, <1>9 DEF PipelineOk

\* Receive: the head of the queue passes into the hands of a loop.
LEMMA ReceiveStep ==
    ASSUME NEW W, NEW ps, NEW js, NEW f, NEW ch, NEW rec, PipelineOk(W, ps, js, f, ch, rec),
           NEW w \in W, ps[w] = "recv", ch # <<>>,
           NEW js2, OnlyMoves(w, W, ps, js, ps, js2), Fields(js2[w]),
           js2[w].batch = Append(js[w].batch, Head(ch)), js2[w].results = js[w].results
    PROVE  PipelineOk(W, ps, js2, f, Tail(ch), rec)
  <1> DEFINE j == js[w]
             k == js2[w]
             x == Head(ch)
  <1>1. \A v \in W : v # w => js2[v] = js[v]
    BY DEF OnlyMoves
  <1>2. /\ ch \in Seq(DOMAIN f) /\ IsInjective(ch)
        /\ \A n \in DOMAIN ch : f[ch[n]] = "Pending"
    BY DEF PipelineOk, QueueOk
  <1>3. /\ IsInjective(Tail(ch)) /\ x \notin ToSet(Tail(ch)) /\ x \in DOMAIN f
        /\ ToSet(ch) = {x} \cup ToSet(Tail(ch)) /\ Tail(ch) \in Seq(DOMAIN f)
    <2>1. PICK S : S = DOMAIN f
      OBVIOUS
    <2>2. ch \in Seq(S)
      BY <1>2, <2>1
    <2>3. /\ IsInjective(Tail(ch)) /\ Head(ch) \notin ToSet(Tail(ch)) /\ Head(ch) \in S
          /\ ToSet(ch) = {Head(ch)} \cup ToSet(Tail(ch))
      BY <1>2, <2>2, TailOnce
    <2>4. Tail(ch) \in Seq(S)
      BY <2>2
    <2> QED
      BY <2>1, <2>3, <2>4
  <1>4. f[x] = "Pending" /\ \A y \in ToSet(Tail(ch)) : f[y] = "Pending"
    <2>1. \A y \in ToSet(ch) : f[y] = "Pending"
      BY <1>2 DEF ToSet
    <2> QED
      BY <1>3, <2>1
  <1>5. /\ j.batch \in Seq(DOMAIN f) /\ j.results = <<>> /\ HeldIn(j) = DOMAIN j.batch
        /\ \A i \in DOMAIN j.batch : f[j.batch[i]] = "Pending"
    <2>1. LoopOk("recv", j, f)
      BY DEF PipelineOk
    <2> QED
      BY <2>1 DEF LoopOk, BatchOk, InProcess, HasGroup, HeldIn
  <1>6. LiveIn(j) = ToSet(j.batch) /\ IsInjective(j.batch)
    BY <1>5 DEF LiveIn, ToSet, IsInjective, PipelineOk, LoopOk, BatchOk
  <1>7. x \notin LiveIn(j)
    BY <1>3 DEF PipelineOk, QueueOk
  <1> HIDE DEF x
  <1>8. /\ k.batch \in Seq(DOMAIN f) /\ IsInjective(k.batch) /\ ToSet(k.batch) = LiveIn(j) \cup {x}
    <2>1. PICK S, t : S = DOMAIN f /\ t = j.batch
      OBVIOUS
    <2>2. t \in Seq(S) /\ IsInjective(t) /\ x \in S /\ x \notin ToSet(t)
      BY <1>3, <1>5, <1>6, <1>7, <2>1
    <2>3. /\ Append(t, x) \in Seq(S) /\ IsInjective(Append(t, x))
          /\ ToSet(Append(t, x)) = ToSet(t) \cup {x}
      BY <2>2, AppendOnce
    <2>4. k.batch = Append(t, x)
      BY <2>1 DEF x
    <2> QED
      BY <1>6, <2>1, <2>3, <2>4
  <1>9. HeldIn(k) = DOMAIN k.batch /\ LiveIn(k) = LiveIn(j) \cup {x}
    <2>1. HeldIn(k) = DOMAIN k.batch
      BY <1>5 DEF HeldIn
    <2> QED
      BY <1>8, <2>1, Zenon DEF LiveIn, ToSet
  <1>10. LoopOk("recv", k, f)
    <2>1. \A i \in DOMAIN k.batch : f[k.batch[i]] = "Pending"
      <3>1. \A y \in LiveIn(j) : f[y] = "Pending"
        BY <1>5, <1>6 DEF ToSet
      <3>2. \A y \in ToSet(k.batch) : f[y] = "Pending"
        BY <1>4, <1>8, <3>1
      <3> QED
        BY <3>2 DEF ToSet
    <2>2. ~InProcess("recv") /\ ~HasGroup("recv")
      BY DEF InProcess, HasGroup
    <2>3. BatchOk("recv", k, f)
      BY <1>5, <1>8, <1>9, <2>1, <2>2, Zenon DEF BatchOk, IsInjective
    <2>4. GroupsOk("recv", k) /\ GroupOk("recv", k) /\ ResultsOk("recv", k, f)
      BY <2>2 DEF GroupsOk, GroupOk, ResultsOk
    <2> QED
      BY <2>3, <2>4 DEF LoopOk
  <1>11. \A v \in W : LoopOk(ps[v], js2[v], f)
    BY <1>1, <1>10 DEF PipelineOk
  <1>12. QueueOk(W, js2, f, Tail(ch))
    <2>1. \A n \in DOMAIN Tail(ch) : f[Tail(ch)[n]] = "Pending"
      BY <1>4 DEF ToSet
    <2>2. \A v \in W : v # w => x \notin LiveIn(js2[v])
      BY <1>1, <1>3 DEF PipelineOk, QueueOk
    <2>3. \A v \in W : LiveIn(js2[v]) \cap ToSet(Tail(ch)) = {}
      BY <1>1, <1>3, <1>9 DEF PipelineOk, QueueOk
    <2>4. ASSUME NEW u \in W, NEW v \in W, u # v PROVE LiveIn(js2[u]) \cap LiveIn(js2[v]) = {}
      <3>1. LiveIn(js[u]) \cap LiveIn(js[v]) = {}
        BY <2>4, Zenon DEF PipelineOk, QueueOk
      <3>2. CASE u # w /\ v # w
        BY <1>1, <3>1, <3>2
      <3>3. CASE u = w
        BY <1>1, <1>9, <2>2, <2>4, <3>1, <3>3
      <3>4. CASE v = w
        BY <1>1, <1>9, <2>2, <2>4, <3>1, <3>4
      <3> QED
        BY <3>2, <3>3, <3>4
    <2>5. ASSUME NEW id \in DOMAIN f, f[id] = "Pending"
          PROVE  id \in ToSet(Tail(ch)) \/ \E v \in W : id \in LiveIn(js2[v])
      <3>1. id \in ToSet(ch) \/ \E v \in W : id \in LiveIn(js[v])
        BY <2>5 DEF PipelineOk, QueueOk
      <3>2. \A v \in W : LiveIn(js[v]) \subseteq LiveIn(js2[v])
        BY <1>1, <1>9
      <3>3. x \in LiveIn(js2[w])
        BY <1>9
      <3> QED
        BY <1>3, <3>1, <3>2, <3>3, Zenon
    <2> QED
      BY <1>3, <2>1, <2>3, <2>4, <2>5, Zenon DEF QueueOk
  <1>13. \A v \in W : Between(ps[v], js2[v]) = Between(ps[v], js[v])
    <2>1. Between("recv", j) = {} /\ Between("recv", k) = {}
      BY DEF Between
    <2> QED
      BY <1>1, <2>1, Zenon
  <1>14. RecordsOk(W, ps, js2, f, rec)
    BY <1>13 DEF PipelineOk, RecordsOk
  <1> QED
    BY <1>11, <1>12, <1>14 DEF PipelineOk


\* The transactions of the admitted positions, in their order.
AdmittedIds(j) == [n \in DOMAIN j.admitted |-> j.batch[j.admitted[n]]]

\* The transactions of an admitted group are distinct, in hand and without fate.
LEMMA AdmittedIdsOk ==
    ASSUME NEW p, NEW j, NEW f, LoopOk(p, j, f), p \in {"lock", "execute"}
    PROVE  /\ AdmittedIds(j) \in Seq(DOMAIN f) /\ IsInjective(AdmittedIds(j))
           /\ ToSet(AdmittedIds(j)) = {j.batch[i] : i \in ToSet(j.admitted)}
           /\ ToSet(j.admitted) \subseteq Open(p, j) /\ ToSet(j.admitted) \subseteq HeldIn(j)
           /\ ToSet(AdmittedIds(j)) \subseteq LiveIn(j)
           /\ \A x \in ToSet(AdmittedIds(j)) : f[x] = "Pending"
  <1> DEFINE D == DOMAIN j.batch
  <1>1. HasGroup(p) /\ InProcess(p)
    BY DEF HasGroup, InProcess
  <1>2. j.admitted \in Seq(D) /\ IsInjective(j.admitted)
    BY <1>1 DEF LoopOk, GroupOk
  <1>3. ToSet(j.admitted) \subseteq Open(p, j)
    BY <1>1 DEF Open, InHand
  <1>4. ToSet(j.admitted) \subseteq HeldIn(j)
    BY <1>1, <1>3, OpenIsHeld
  <1>5. \A n \in DOMAIN j.admitted : j.admitted[n] \in HeldIn(j) /\ j.admitted[n] \in D
    BY <1>4 DEF ToSet, HeldIn
  <1>6. \A i \in D : j.batch[i] \in DOMAIN f
    BY DEF LoopOk, BatchOk
  <1>7. PICK t : t = AdmittedIds(j)
    OBVIOUS
  <1>8. DOMAIN t = DOMAIN j.admitted /\ \A n \in DOMAIN t : t[n] = j.batch[j.admitted[n]]
    BY <1>7 DEF AdmittedIds
  <1>9. t \in Seq(DOMAIN f)
    <2>1. DOMAIN j.admitted = 1..Len(j.admitted) /\ Len(j.admitted) \in Nat
      BY <1>2
    <2>2. t \in [1..Len(j.admitted) -> DOMAIN f]
      <3>1. t = [n \in 1..Len(j.admitted) |-> j.batch[j.admitted[n]]]
        BY <1>7, <2>1 DEF AdmittedIds
      <3>2. \A n \in 1..Len(j.admitted) : j.batch[j.admitted[n]] \in DOMAIN f
        BY <1>5, <1>6, <2>1
      <3> QED
        BY <3>1, <3>2
    <2> QED
      BY <2>1, <2>2, FunctionIsSeq
  <1>10. IsInjective(t)
    <2>1. \A i, h \in HeldIn(j) : j.batch[i] = j.batch[h] => i = h
      BY DEF LoopOk, BatchOk
    <2> QED
      BY <1>2, <1>5, <1>8, <2>1 DEF IsInjective
  <1>11. ToSet(t) = {j.batch[i] : i \in ToSet(j.admitted)}
    BY <1>8 DEF ToSet
  <1>12. ToSet(t) \subseteq LiveIn(j)
    BY <1>4, <1>11 DEF LiveIn
  <1>13. \A x \in ToSet(t) : f[x] = "Pending"
    BY <1>1, <1>3, <1>11 DEF LoopOk, ResultsOk
  <1> QED
    BY <1>3, <1>4, <1>7, <1>9, <1>10, <1>11, <1>12, <1>13

\* A sequence that is not empty has a position.
LEMMA HasPosition ==
    ASSUME NEW S, NEW b \in Seq(S), b # <<>>
    PROVE  DOMAIN b # {}
  <1>1. DOMAIN b = 1..Len(b) /\ Len(b) \in Nat
    OBVIOUS
  <1>2. Len(b) # 0
    OBVIOUS
  <1> QED
    BY <1>1, <1>2

\* A loop that lets go of the positions A lets go of their transactions.
IdsAt(j, A) == {j.batch[i] : i \in A}
LetsGo(j, k, A) == k.batch = j.batch /\ A \subseteq HeldIn(j) /\ HeldIn(k) = HeldIn(j) \ A
\* Giving positions away takes their transactions out of the loop's hands.
LEMMA LiveMinus ==
    ASSUME NEW p, NEW f, NEW j, BatchOk(p, j, f), NEW k, NEW A, LetsGo(j, k, A)
    PROVE  \A x : x \in LiveIn(k) <=> x \in LiveIn(j) /\ x \notin IdsAt(j, A)
  <1> USE DEF LetsGo
  <1> DEFINE back == IdsAt(j, A)
  <1>0. \A i, h \in HeldIn(j) : j.batch[i] = j.batch[h] => i = h
    BY DEF BatchOk
  <1>1. ASSUME NEW x \in LiveIn(k) PROVE x \in LiveIn(j) \ back
    <2>1. PICK i \in HeldIn(k) : x = k.batch[i]
      BY <1>1 DEF LiveIn
    <2>2. i \in HeldIn(j) /\ i \notin A /\ x = j.batch[i]
      BY <2>1
    <2>3. \A h \in A : j.batch[h] # x
      BY <1>0, <2>2
    <2>4. x \notin back
      BY <2>3 DEF IdsAt
    <2>5. x \in LiveIn(j)
      BY <2>2 DEF LiveIn
    <2> QED
      BY <2>4, <2>5
  <1>2. ASSUME NEW x \in LiveIn(j), x \notin back PROVE x \in LiveIn(k)
    <2>1. PICK i \in HeldIn(j) : x = j.batch[i]
      BY <1>2 DEF LiveIn
    <2>2. i \notin A
      BY <1>2, <2>1 DEF IdsAt
    <2>3. i \in HeldIn(k) /\ x = k.batch[i]
      BY <2>1, <2>2
    <2> QED
      BY <2>3 DEF LiveIn
  <1> QED
    BY <1>1, <1>2

\* Requeue: the first of the refused goes from the hands of the loop back to the queue.
SentBack(j, k) ==
    /\ k.batch = j.batch /\ k.groups = j.groups /\ k.to_admit = j.to_admit
    /\ k.admitted = Tail(j.admitted)
    /\ k.results = [j.results EXCEPT ![Head(j.admitted)] = "AccountInUse"]

\* Of the loop: what is left of the refused group is in order.
LEMMA SentBackOk ==
    ASSUME NEW j, NEW f, f \in [DOMAIN f -> AllFates], LoopOk("requeue", j, f), NEW k, Fields(k),
           SentBack(j, k), NEW i, i = Head(j.admitted), NEW q \in {"group", "refused"},
           q = "group" <=> Tail(j.admitted) = <<>>
    PROVE  /\ LoopOk(q, k, f) /\ j.batch[i] \in LiveIn(j) /\ f[j.batch[i]] = "Pending"
           /\ \A x : x \in LiveIn(k) <=> x \in LiveIn(j) /\ x # j.batch[i]
  <1> USE DEF SentBack
  <1> DEFINE D == DOMAIN j.batch
  <1>1. HasGroup("requeue") /\ InProcess("requeue") /\ InProcess(q)
        /\ (HasGroup(q) <=> q = "refused")
    BY DEF HasGroup, InProcess
  <1>2. /\ j.admitted \in Seq(D) /\ IsInjective(j.admitted) /\ j.admitted # <<>>
        /\ j.to_admit = <<>>
    BY <1>1 DEF LoopOk, GroupOk
  <1>3. /\ IsInjective(k.admitted) /\ i \notin ToSet(k.admitted) /\ i \in D
        /\ ToSet(j.admitted) = {i} \cup ToSet(k.admitted) /\ k.admitted \in Seq(D)
    <2>1. PICK S, t : S = D /\ t = j.admitted
      OBVIOUS
    <2>2. t \in Seq(S) /\ IsInjective(t) /\ t # <<>>
      BY <1>2, <2>1
    <2>3. /\ IsInjective(Tail(t)) /\ Head(t) \notin ToSet(Tail(t)) /\ Head(t) \in S
          /\ ToSet(t) = {Head(t)} \cup ToSet(Tail(t))
      BY <2>2, TailOnce
    <2>4. Tail(t) \in Seq(S)
      BY <2>2
    <2> QED
      BY <2>1, <2>3, <2>4, Zenon
  <1>4. ToSet(<<>>) = {} /\ <<>> \in Seq(D) /\ IsInjective(<<>>)
    BY DEF ToSet, IsInjective
  <1>5. /\ InHand("requeue", j) = ToSet(j.admitted) /\ InHand(q, k) = ToSet(k.admitted)
        /\ Waiting(k) = Waiting(j)
    <2>1. Waiting(k) = Waiting(j)
      BY Zenon DEF Waiting
    <2>2. InHand("requeue", j) = ToSet(j.admitted)
      BY <1>1, <1>2, <1>4 DEF InHand
    <2>3. CASE q = "refused"
      <3>1. k.to_admit = <<>> /\ HasGroup(q)
        BY <1>1, <1>2, <2>3
      <3>2. InHand(q, k) = ToSet(k.admitted)
        BY <1>4, <3>1 DEF InHand
      <3> QED
        BY <2>1, <2>2, <3>2
    <2>4. CASE q = "group"
      <3>1. k.admitted = <<>> /\ ~HasGroup(q)
        BY <1>1, <2>4
      <3>2. ToSet(k.admitted) = {}
        BY <1>4, <3>1
      <3>3. InHand(q, k) = ToSet(k.admitted)
        BY <2>4, <3>1, <3>2 DEF InHand
      <3> QED
        BY <2>1, <2>2, <3>3
    <2> QED
      BY <2>3, <2>4
  <1>6. Waiting(j) \cap ToSet(j.admitted) = {}
    BY <1>1, <1>5 DEF LoopOk, GroupsOk
  <1>7. Open(q, k) = Open("requeue", j) \ {i} /\ i \in Open("requeue", j)
    BY <1>3, <1>5, <1>6 DEF Open
  <1>8. i \in HeldIn(j) /\ Open("requeue", j) \subseteq D
    BY <1>1, <1>7, OpenIsHeld
  <1>9. /\ j.results \in [D -> Results] /\ j.batch # <<>> /\ j.batch \in Seq(DOMAIN f)
        /\ f[j.batch[i]] = "Pending"
    BY <1>1, <1>7 DEF LoopOk, ResultsOk, BatchOk
  <1>10. /\ k.results \in [D -> Results] /\ k.results[i] = "AccountInUse"
         /\ \A h \in D \ {i} : k.results[h] = j.results[h]
    BY <1>3, <1>9 DEF Results
  <1>11. j.results # <<>> /\ k.results # <<>>
    BY <1>3, <1>9, <1>10
  <1>12. HeldIn(k) = HeldIn(j) \ {i}
    BY <1>10, <1>11 DEF HeldIn
  <1>13. BatchOk("requeue", j, f)
    BY DEF LoopOk
  <1>14. \A x : x \in LiveIn(k) <=> x \in LiveIn(j) /\ x # j.batch[i]
    <2>1. LetsGo(j, k, {i})
      BY <1>8, <1>12 DEF LetsGo
    <2>2. \A x : x \in LiveIn(k) <=> x \in LiveIn(j) /\ x \notin IdsAt(j, {i})
      BY <1>13, <2>1, LiveMinus, Zenon
    <2>3. IdsAt(j, {i}) = {j.batch[i]}
      BY DEF IdsAt
    <2> QED
      BY <2>2, <2>3
  <1>15. GroupsOk(q, k)
    BY <1>1, <1>3, <1>5, <1>6 DEF LoopOk, GroupsOk
  <1>16. GroupOk(q, k)
    BY <1>1, <1>2, <1>3, <1>4 DEF GroupOk
  <1>17. BatchOk(q, k, f)
    BY <1>1, <1>9, <1>12, <1>13 DEF BatchOk
  <1>18. \A h \in Open(q, k) : k.results[h] = "None" /\ f[k.batch[h]] = "Pending"
    BY <1>1, <1>7, <1>8, <1>10 DEF LoopOk, ResultsOk
  <1>19. ASSUME NEW h \in HeldIn(k) \ Open(q, k) PROVE f[k.batch[h]] = Told(k, h)
    <2>1. h \in HeldIn(j) \ Open("requeue", j) /\ h \in D \ {i}
      BY <1>7, <1>12 DEF HeldIn
    <2>2. f[j.batch[h]] = Told(j, h)
      BY <1>1, <2>1 DEF LoopOk, ResultsOk
    <2> QED
      BY <1>10, <2>1, <2>2 DEF Told
  <1>20. ResultsOk(q, k, f)
    BY <1>9, <1>10, <1>18, <1>19 DEF ResultsOk
  <1>21. LoopOk(q, k, f)
    BY <1>15, <1>16, <1>17, <1>20 DEF LoopOk
  <1>22. j.batch[i] \in LiveIn(j)
    BY <1>8 DEF LiveIn
  <1> QED
    BY <1>9, <1>14, <1>21, <1>22

\* From place p with variables j to place q with variables k, and from queue ch to ch2: the
\* first member left is sent back.
SendsOneBack(p, j, ch, q, k, ch2) ==
    /\ p = "requeue" /\ q \in {"group", "refused"}
    /\ (q = "group") <=> (Tail(j.admitted) = <<>>)
    /\ Fields(k) /\ SentBack(j, k)
    /\ ch2 = Append(ch, j.batch[Head(j.admitted)])

\* A member that was refused its locks goes from the loop's hands into the queue, once.
LEMMA RequeueStep ==
    ASSUME NEW W, NEW ps, NEW js, NEW f, NEW ch, NEW rec, PipelineOk(W, ps, js, f, ch, rec),
           NEW w \in W, NEW ps2, NEW js2, OnlyMoves(w, W, ps, js, ps2, js2), NEW ch2,
           SendsOneBack(ps[w], js[w], ch, ps2[w], js2[w], ch2)
    PROVE  PipelineOk(W, ps2, js2, f, ch2, rec)
  <1>0. PICK id : id = js[w].batch[Head(js[w].admitted)]
    OBVIOUS
  <1> USE <1>0 DEF SendsOneBack
  <1>1. \A v \in W : v # w => js2[v] = js[v] /\ ps2[v] = ps[v]
    BY DEF OnlyMoves
  <1>2. LoopOk("requeue", js[w], f) /\ f \in [DOMAIN f -> AllFates]
    BY DEF PipelineOk
  <1>3. /\ LoopOk(ps2[w], js2[w], f) /\ id \in LiveIn(js[w]) /\ f[id] = "Pending"
        /\ \A x : x \in LiveIn(js2[w]) <=> x \in LiveIn(js[w]) /\ x # id
    BY <1>2, SentBackOk
  <1>4. id \in DOMAIN f
    BY <1>2, <1>3, LiveAreSent DEF LoopOk
  <1>5. \A v \in W : LoopOk(ps2[v], js2[v], f)
    BY <1>1, <1>3 DEF PipelineOk
  <1>6. /\ ch2 \in Seq(DOMAIN f) /\ IsInjective(ch2) /\ ToSet(ch2) = ToSet(ch) \cup {id}
    <2>1. ch \in Seq(DOMAIN f) /\ IsInjective(ch) /\ id \notin ToSet(ch)
      BY <1>3 DEF PipelineOk, QueueOk
    <2> QED
      BY <1>4, <2>1, AppendOnce
  <1>7. QueueOk(W, js2, f, ch2)
    <2>1. \A n \in DOMAIN ch2 : f[ch2[n]] = "Pending"
      <3>1. \A x \in ToSet(ch) : f[x] = "Pending"
        BY DEF PipelineOk, QueueOk, ToSet
      <3>2. \A x \in ToSet(ch2) : f[x] = "Pending"
        BY <1>3, <1>6, <3>1
      <3> QED
        BY <3>2 DEF ToSet
    <2>2. \A v \in W : LiveIn(js2[v]) \subseteq LiveIn(js[v])
      BY <1>1, <1>3
    <2>3. ASSUME NEW v \in W PROVE id \notin LiveIn(js2[v])
      <3>1. CASE v = w
        BY <1>3, <3>1
      <3>2. CASE v # w
        <4>1. LiveIn(js[w]) \cap LiveIn(js[v]) = {}
          BY <3>2 DEF PipelineOk, QueueOk
        <4> QED
          BY <1>1, <1>3, <3>2, <4>1
      <3> QED
        BY <3>1, <3>2
    <2>4. ASSUME NEW v \in W PROVE LiveIn(js2[v]) \cap ToSet(ch2) = {}
      <3>1. LiveIn(js[v]) \cap ToSet(ch) = {}
        BY Zenon DEF PipelineOk, QueueOk
      <3>2. LiveIn(js2[v]) \subseteq LiveIn(js[v]) /\ id \notin LiveIn(js2[v])
        BY <2>2, <2>3
      <3> QED
        BY <1>6, <3>1, <3>2
    <2>5. \A u, v \in W : u # v => LiveIn(js2[u]) \cap LiveIn(js2[v]) = {}
      BY <2>2, Zenon DEF PipelineOk, QueueOk
    <2>6. ASSUME NEW x \in DOMAIN f, f[x] = "Pending"
          PROVE  x \in ToSet(ch2) \/ \E v \in W : x \in LiveIn(js2[v])
      <3>1. x \in ToSet(ch) \/ \E v \in W : x \in LiveIn(js[v])
        BY <2>6 DEF PipelineOk, QueueOk
      <3>2. \A v \in W : LiveIn(js[v]) \subseteq LiveIn(js2[v]) \cup {id}
        BY <1>1, <1>3
      <3> QED
        BY <1>6, <3>1, <3>2
    <2> QED
      BY <1>6, <2>1, <2>4, <2>5, <2>6, Zenon DEF QueueOk
  <1>8. \A v \in W : Between(ps2[v], js2[v]) = Between(ps[v], js[v])
    <2>1. Between(ps[w], js[w]) = {} /\ Between(ps2[w], js2[w]) = {}
      BY DEF Between
    <2> QED
      BY <1>1, <2>1, Zenon
  <1>9. RecordsOk(W, ps2, js2, f, rec)
    BY <1>8 DEF PipelineOk, RecordsOk
  <1> QED
    BY <1>2, <1>5, <1>7, <1>9 DEF PipelineOk

\* Record: the admitted, which nobody has recorded, are recorded.
LEMMA RecordStep ==
    ASSUME NEW W, NEW ps, NEW js, NEW f, NEW ch, NEW rec, PipelineOk(W, ps, js, f, ch, rec),
           NEW w \in W, ps[w] = "execute", NEW ps2, ps2[w] = "collect",
           OnlyMoves(w, W, ps, js, ps2, js),
           \A i \in ToSet(js[w].admitted) : js[w].outcome[i] # "Running",
           NEW rec2, rec2 = Append(rec, AdmittedIds(js[w]))
    PROVE  PipelineOk(W, ps2, js, f, ch, rec2)
  <1> DEFINE j == js[w]
             A == ToSet(j.admitted)
             new == ToSet(AdmittedIds(j))
  <1>1. \A v \in W : v # w => ps2[v] = ps[v]
    BY DEF OnlyMoves
  <1>2. LoopOk("execute", j, f)
    BY DEF PipelineOk
  <1>3. /\ AdmittedIds(j) \in Seq(DOMAIN f) /\ new = {j.batch[i] : i \in A}
        /\ new \subseteq LiveIn(j) /\ \A x \in new : f[x] = "Pending"
    BY <1>2, AdmittedIdsOk
  <1>4. LoopOk("collect", j, f)
    <2>1. HasGroup("execute") /\ HasGroup("collect") /\ InProcess("execute") /\ InProcess("collect")
      BY DEF HasGroup, InProcess
    <2>2. InHand("collect", j) = InHand("execute", j) /\ Open("collect", j) = Open("execute", j)
      BY <2>1 DEF InHand, Open
    <2>3. GroupsOk("collect", j)
      BY <1>2, <2>1, <2>2 DEF LoopOk, GroupsOk
    <2>4. GroupOk("collect", j)
      BY <1>2, <2>1 DEF LoopOk, GroupOk
    <2> QED
      BY <1>2, <2>1, <2>2, <2>3, <2>4, QuietLoop DEF SameBatch, LoopOk
  <1>5. \A v \in W : LoopOk(ps2[v], js[v], f)
    BY <1>1, <1>4 DEF PipelineOk
  <1>6. Between("execute", j) = {} /\ Between("collect", j) = new
    BY <1>3 DEF Between
  <1>7. \A v \in W : v # w => Between(ps2[v], js[v]) = Between(ps[v], js[v])
    BY <1>1
  <1>8. /\ rec \in Seq(Seq(DOMAIN f)) /\ rec2 \in Seq(Seq(DOMAIN f))
        /\ DOMAIN rec = 1..Len(rec) /\ DOMAIN rec2 = 1..(Len(rec) + 1) /\ Len(rec) \in Nat
        /\ rec2[Len(rec) + 1] = AdmittedIds(j) /\ \A r \in 1..Len(rec) : rec2[r] = rec[r]
    <2>1. PICK S, t : S = Seq(DOMAIN f) /\ t = AdmittedIds(j)
      OBVIOUS
    <2>2. rec \in Seq(S) /\ t \in S
      BY <1>3, <2>1 DEF PipelineOk, RecordsOk
    <2>3. /\ Append(rec, t) \in Seq(S) /\ DOMAIN rec = 1..Len(rec) /\ Len(rec) \in Nat
          /\ DOMAIN Append(rec, t) = 1..(Len(rec) + 1)
          /\ Append(rec, t)[Len(rec) + 1] = t
          /\ \A r \in 1..Len(rec) : Append(rec, t)[r] = rec[r]
      BY <2>2
    <2> QED
      BY <2>1, <2>2, <2>3, Zenon
  <1>9. /\ \A r \in 1..Len(rec) : r \in 1..(Len(rec) + 1)
        /\ \A r \in 1..(Len(rec) + 1) : r \in 1..Len(rec) \/ r = Len(rec) + 1
        /\ Len(rec) + 1 \in 1..(Len(rec) + 1)
    BY <1>8
  <1>10. \A id : Recorded(rec2, id) <=> Recorded(rec, id) \/ id \in new
    BY <1>8, <1>9, Zenon DEF Recorded
  <1>11. \A id \in new : ~Recorded(rec, id)
    <2> SUFFICES ASSUME NEW id \in new, Recorded(rec, id) PROVE FALSE
      OBVIOUS
    <2>1. id \in DOMAIN f /\ f[id] = "Pending"
      BY <1>2, <1>3, LiveAreSent DEF LoopOk
    <2>2. PICK v \in W : id \in Between(ps[v], js[v])
      BY <2>1 DEF PipelineOk, RecordsOk
    <2>3. v # w
      BY <1>6, <2>2
    <2>4. id \in LiveIn(js[v])
      BY <2>2, BetweenIsLive DEF PipelineOk
    <2> QED
      BY <1>3, <2>3, <2>4, Zenon DEF PipelineOk, QueueOk
  <1>12. \A r \in 1..Len(rec) : ToSet(rec[r]) \cap new = {}
    BY <1>8, <1>11 DEF Recorded
  <1>13. ASSUME NEW r \in DOMAIN rec2, NEW q \in DOMAIN rec2, r # q
         PROVE  ToSet(rec2[r]) \cap ToSet(rec2[q]) = {}
    <2>1. CASE r \in 1..Len(rec) /\ q \in 1..Len(rec)
      BY <1>8, <1>13, <2>1 DEF PipelineOk, RecordsOk
    <2>2. CASE r \in 1..Len(rec) /\ q = Len(rec) + 1
      BY <1>8, <1>12, <2>2
    <2>3. CASE q \in 1..Len(rec) /\ r = Len(rec) + 1
      BY <1>8, <1>12, <2>3
    <2> QED
      BY <1>8, <1>9, <1>13, <2>1, <2>2, <2>3, Zenon
  <1>14. RecordsOk(W, ps2, js, f, rec2)
    <2>1. \A v \in W : \A id \in Between(ps2[v], js[v]) : Recorded(rec2, id)
      BY <1>6, <1>7, <1>10 DEF PipelineOk, RecordsOk
    <2>2. \A id \in DOMAIN f : f[id] = "Committed" => Recorded(rec2, id)
      BY <1>10 DEF PipelineOk, RecordsOk
    <2>3. ASSUME NEW id \in DOMAIN f, f[id] = "Pending", Recorded(rec2, id)
          PROVE  \E v \in W : id \in Between(ps2[v], js[v])
      <3>1. CASE id \in new
        BY <1>6, <3>1
      <3>2. CASE Recorded(rec, id)
        <4>1. PICK v \in W : id \in Between(ps[v], js[v])
          BY <2>3, <3>2 DEF PipelineOk, RecordsOk
        <4>2. v # w
          BY <1>6, <4>1
        <4> QED
          BY <1>7, <4>1, <4>2
      <3> QED
        BY <1>10, <2>3, <3>1, <3>2
    <2> QED
      BY <1>8, <1>13, <2>1, <2>2, <2>3, Zenon DEF RecordsOk
  <1> QED
    BY <1>5, <1>14 DEF PipelineOk

-----------------------------------------------------------------------------
\* What a step that assigns some of the local variables of a loop makes of them.

WithBatch(j, e) == [j EXCEPT !.batch = e]
\* What each assignment to the local variables leaves alone.
LEMMA AssignBatch ==
    ASSUME NEW j, Fields(j), NEW e
    PROVE  LET k == WithBatch(j, e)
           IN  Fields(k) /\ k.batch = e /\ k.results = j.results
  <1>1. PICK k : k = WithBatch(j, e)
    OBVIOUS
  <1>2. Fields(k) /\ k.batch = e /\ k.results = j.results
    BY <1>1 DEF Fields, WithBatch
  <1> QED
    BY <1>1, <1>2

WithSchedule(j, r, g) == [j EXCEPT !.results = r, !.groups = g]
LEMMA AssignSchedule ==
    ASSUME NEW j, Fields(j), NEW r, NEW g
    PROVE  LET k == WithSchedule(j, r, g)
           IN  Fields(k) /\ k.batch = j.batch /\ k.results = r /\ k.groups = g
  <1>1. PICK k : k = WithSchedule(j, r, g)
    OBVIOUS
  <1>2. Fields(k) /\ k.batch = j.batch /\ k.results = r /\ k.groups = g
    BY <1>1, Zenon DEF Fields, WithSchedule
  <1> QED
    BY <1>1, <1>2

WithGroup(j, t, g, a) == [j EXCEPT !.to_admit = t, !.groups = g, !.admitted = a]
LEMMA AssignGroup ==
    ASSUME NEW j, Fields(j), NEW t, NEW g, NEW a
    PROVE  LET k == WithGroup(j, t, g, a)
           IN  /\ Fields(k) /\ k.batch = j.batch /\ k.results = j.results
               /\ k.to_admit = t /\ k.groups = g /\ k.admitted = a
  <1>1. PICK k : k = WithGroup(j, t, g, a)
    OBVIOUS
  <1>2. /\ Fields(k) /\ k.batch = j.batch /\ k.results = j.results
        /\ k.to_admit = t /\ k.groups = g /\ k.admitted = a
    BY <1>1, Zenon DEF Fields, WithGroup
  <1> QED
    BY <1>1, <1>2

WithRefusal(j, t, r) == [j EXCEPT !.to_admit = t, !.results = r]
LEMMA AssignRefusal ==
    ASSUME NEW j, Fields(j), NEW t, NEW r
    PROVE  LET k == WithRefusal(j, t, r)
           IN  /\ Fields(k) /\ k.batch = j.batch /\ k.results = r /\ k.groups = j.groups
               /\ k.to_admit = t /\ k.admitted = j.admitted
  <1>1. PICK k : k = WithRefusal(j, t, r)
    OBVIOUS
  <1>2. /\ Fields(k) /\ k.batch = j.batch /\ k.results = r /\ k.groups = j.groups
        /\ k.to_admit = t /\ k.admitted = j.admitted
    BY <1>1, Zenon DEF Fields, WithRefusal
  <1> QED
    BY <1>1, <1>2

WithAdmission(j, t, a) == [j EXCEPT !.to_admit = t, !.admitted = a]
LEMMA AssignAdmission ==
    ASSUME NEW j, Fields(j), NEW t, NEW a
    PROVE  LET k == WithAdmission(j, t, a)
           IN  /\ Fields(k) /\ k.batch = j.batch /\ k.results = j.results /\ k.groups = j.groups
               /\ k.to_admit = t /\ k.admitted = a
  <1>1. PICK k : k = WithAdmission(j, t, a)
    OBVIOUS
  <1>2. /\ Fields(k) /\ k.batch = j.batch /\ k.results = j.results /\ k.groups = j.groups
        /\ k.to_admit = t /\ k.admitted = a
    BY <1>1, Zenon DEF Fields, WithAdmission
  <1> QED
    BY <1>1, <1>2

WithRunning(j, l, o) == [j EXCEPT !.loaded = l, !.outcome = o]
LEMMA AssignRunning ==
    ASSUME NEW j, Fields(j), NEW l, NEW o
    PROVE  LET k == WithRunning(j, l, o)
           IN  /\ Fields(k) /\ k.batch = j.batch /\ k.results = j.results /\ k.groups = j.groups
               /\ k.to_admit = j.to_admit /\ k.admitted = j.admitted /\ k.outcome = o
  <1>1. PICK k : k = WithRunning(j, l, o)
    OBVIOUS
  <1>2. /\ Fields(k) /\ k.batch = j.batch /\ k.results = j.results /\ k.groups = j.groups
        /\ k.to_admit = j.to_admit /\ k.admitted = j.admitted /\ k.outcome = o
    BY <1>1, Zenon DEF Fields, WithRunning
  <1> QED
    BY <1>1, <1>2

WithReturn(j, a, r) == [j EXCEPT !.admitted = a, !.results = r]
LEMMA AssignReturn ==
    ASSUME NEW j, Fields(j), NEW a, NEW r
    PROVE  LET k == WithReturn(j, a, r)
           IN  /\ Fields(k) /\ k.batch = j.batch /\ k.results = r /\ k.groups = j.groups
               /\ k.to_admit = j.to_admit /\ k.admitted = a
  <1>1. PICK k : k = WithReturn(j, a, r)
    OBVIOUS
  <1>2. /\ Fields(k) /\ k.batch = j.batch /\ k.results = r /\ k.groups = j.groups
        /\ k.to_admit = j.to_admit /\ k.admitted = a
    BY <1>1, Zenon DEF Fields, WithReturn
  <1> QED
    BY <1>1, <1>2

WithOverlays(j, r, o) == [j EXCEPT !.results = r, !.overlays = o]
LEMMA AssignOverlays ==
    ASSUME NEW j, Fields(j), NEW r, NEW o
    PROVE  LET k == WithOverlays(j, r, o)
           IN  /\ Fields(k) /\ k.batch = j.batch /\ k.results = r /\ k.groups = j.groups
               /\ k.overlays = o
  <1>1. PICK k : k = WithOverlays(j, r, o)
    OBVIOUS
  <1>2. /\ Fields(k) /\ k.batch = j.batch /\ k.results = r /\ k.groups = j.groups
        /\ k.overlays = o
    BY <1>1, Zenon DEF Fields, WithOverlays
  <1> QED
    BY <1>1, <1>2

WithFlush(j, o, f) == [j EXCEPT !.overlays = o, !.flushing = f]
LEMMA AssignFlush ==
    ASSUME NEW j, Fields(j), NEW o, NEW f
    PROVE  LET k == WithFlush(j, o, f)
           IN  /\ Fields(k) /\ k.batch = j.batch /\ k.results = j.results /\ k.groups = j.groups
               /\ k.overlays = o
  <1>1. PICK k : k = WithFlush(j, o, f)
    OBVIOUS
  <1>2. /\ Fields(k) /\ k.batch = j.batch /\ k.results = j.results /\ k.groups = j.groups
        /\ k.overlays = o
    BY <1>1, Zenon DEF Fields, WithFlush
  <1> QED
    BY <1>1, <1>2

WithNoGroup(j, l, o, a) == [j EXCEPT !.loaded = l, !.outcome = o, !.admitted = a]
LEMMA AssignNoGroup ==
    ASSUME NEW j, Fields(j), NEW l, NEW o, NEW a
    PROVE  LET k == WithNoGroup(j, l, o, a)
           IN  Fields(k) /\ k.batch = j.batch /\ k.results = j.results /\ k.groups = j.groups
  <1>1. PICK k : k = WithNoGroup(j, l, o, a)
    OBVIOUS
  <1>2. Fields(k) /\ k.batch = j.batch /\ k.results = j.results /\ k.groups = j.groups
    BY <1>1, Zenon DEF Fields, WithNoGroup
  <1> QED
    BY <1>1, <1>2

\* Assigning one of two variables keeps the other.
LEMMA AssignOne ==
    ASSUME NEW j, Fields(j), NEW e
    PROVE  /\ [j EXCEPT !.outcome = e] = WithRunning(j, j.loaded, e)
           /\ [j EXCEPT !.loaded = e] = WithRunning(j, e, j.outcome)
           /\ [j EXCEPT !.flushing = e] = WithFlush(j, j.overlays, e)
  <1>1. [j EXCEPT !.outcome = e] = WithRunning(j, j.loaded, e)
    BY Zenon DEF Fields, WithRunning
  <1>2. [j EXCEPT !.loaded = e] = WithRunning(j, e, j.outcome)
    BY Zenon DEF Fields, WithRunning
  <1>3. [j EXCEPT !.flushing = e] = WithFlush(j, j.overlays, e)
    BY Zenon DEF Fields, WithFlush
  <1> QED
    BY <1>1, <1>2, <1>3

\* Of the failed members none is retried, so none is sent to the queue.
LEMMA FailedNotRetried ==
    ASSUME NEW S, NEW admitted \in Seq(S), NEW F, F \subseteq ToSet(admitted),
           NEW R, F \cap R = {}
    PROVE  ToSet(Those(admitted, F)) = F /\ Those(Those(admitted, F), R) = <<>>
  <1>1. PICK t \in Seq(S) : t = Those(admitted, F)
    BY ThoseAre
  <1>2. ToSet(t) = F
    <2>1. ToSet(Those(admitted, F)) = ToSet(admitted) \cap F
      BY ThoseAre, Zenon
    <2> QED
      BY <1>1, <2>1
  <1>3. PICK u \in Seq(S) : u = Those(t, R)
    BY ThoseAre
  <1>4. ToSet(u) = {}
    BY <1>2, <1>3, ThoseAre
  <1>5. u = <<>>
    BY <1>4, HasPosition DEF ToSet
  <1> QED
    BY <1>1, <1>2, <1>3, <1>5

\* Requeueing nothing.
LEMMA NothingSentBack ==
    ASSUME NEW S, NEW ch \in Seq(S), NEW b, NEW t, t = <<>>
    PROVE  ch \o [n \in DOMAIN t |-> b[t[n]]] = ch
  <1>1. PICK none : none = [n \in DOMAIN t |-> b[t[n]]]
    OBVIOUS
  <1>2. none = <<>>
    BY <1>1
  <1>3. ch \o <<>> = ch
    OBVIOUS
  <1> QED
    BY <1>1, <1>2, <1>3, Zenon

-----------------------------------------------------------------------------
\* Where a transaction is: its positions in the queue, and in the batches of loops
\* that have to settle it.
InQueue(ch, id) == {n \in DOMAIN ch : ch[n] = id}
InBatches(W, B, js, id) ==
    {p \in W \X (1..B) : p[2] \in HeldIn(js[p[1]]) /\ js[p[1]].batch[p[2]] = id}

\* Counting two sets of which one at most has an element.
LEMMA Counted ==
    ASSUME NEW C, NEW P,
           \/ C = {} /\ P = {}
           \/ (\E x : C = {x}) /\ P = {}
           \/ C = {} /\ \E x : P = {x}
    PROVE  /\ Cardinality(C) + Cardinality(P) <= 1
           /\ C # {} \/ P # {} => Cardinality(C) + Cardinality(P) = 1
  <1>1. Cardinality({}) = 0 /\ \A x : Cardinality({x}) = 1
    BY FS_EmptySet, FS_Singleton, Zenon
  <1>2. CASE C = {} /\ P = {}
    BY <1>1, <1>2
  <1>3. CASE (\E x : C = {x}) /\ P = {}
    <2>1. Cardinality(C) = 1 /\ Cardinality(P) = 0
      BY <1>1, <1>3, Zenon
    <2> QED
      BY <2>1
  <1>4. CASE C = {} /\ \E x : P = {x}
    <2>1. Cardinality(C) = 0 /\ Cardinality(P) = 1
      BY <1>1, <1>4, Zenon
    <2> QED
      BY <2>1
  <1> QED
    BY <1>2, <1>3, <1>4, Zenon

\* The invariant, as a count of the places where a transaction is.
LEMMA OnePlace ==
    ASSUME NEW W, NEW ps, NEW js, NEW f, NEW ch, NEW rec, PipelineOk(W, ps, js, f, ch, rec),
           NEW B \in Nat, \A w \in W : Len(js[w].batch) <= B, NEW id \in DOMAIN f
    PROVE  LET copies == Cardinality(InQueue(ch, id)) + Cardinality(InBatches(W, B, js, id))
           IN  copies <= 1 /\ (f[id] = "Pending" => copies = 1)
  <1> DEFINE C == InQueue(ch, id)
             P == InBatches(W, B, js, id)
  <1>1. C = {} \/ \E n : C = {n}
    <2>1. \A m, n \in DOMAIN ch : ch[m] = ch[n] => m = n
      BY DEF PipelineOk, QueueOk, IsInjective
    <2>2. \A m, n \in C : m = n
      BY <2>1 DEF InQueue
    <2> QED
      BY <2>2, Zenon
  <1>2. C # {} => id \in ToSet(ch)
    BY DEF InQueue, ToSet
  <1>3. \A p \in P : id \in LiveIn(js[p[1]]) /\ p[1] \in W
    BY DEF InBatches, LiveIn
  <1>4. P = {} \/ \E p : P = {p}
    <2>1. ASSUME NEW p \in P, NEW q \in P PROVE p = q
      <3>1. p[1] = q[1]
        BY <1>3, Zenon DEF PipelineOk, QueueOk
      <3>2. \A i, h \in HeldIn(js[p[1]]) : js[p[1]].batch[i] = js[p[1]].batch[h] => i = h
        BY <1>3 DEF PipelineOk, LoopOk, BatchOk
      <3>3. p[2] = q[2]
        BY <3>1, <3>2 DEF InBatches
      <3> QED
        BY <3>1, <3>3 DEF InBatches
    <2> QED
      BY <2>1, Zenon
  <1>5. C = {} \/ P = {}
    BY <1>2, <1>3 DEF PipelineOk, QueueOk
  <1>6. ASSUME f[id] = "Pending" PROVE C # {} \/ P # {}
    <2>1. id \in ToSet(ch) \/ \E w \in W : id \in LiveIn(js[w])
      BY <1>6 DEF PipelineOk, QueueOk
    <2>2. CASE id \in ToSet(ch)
      BY <2>2 DEF InQueue, ToSet
    <2>3. ASSUME NEW w \in W, id \in LiveIn(js[w]) PROVE P # {}
      <3>1. PICK i \in HeldIn(js[w]) : id = js[w].batch[i]
        BY <2>3 DEF LiveIn
      <3>2. i \in DOMAIN js[w].batch /\ js[w].batch \in Seq(DOMAIN f)
        BY <3>1 DEF HeldIn, PipelineOk, LoopOk, BatchOk
      <3>3. i \in 1..Len(js[w].batch) /\ Len(js[w].batch) \in Nat
        BY <3>2
      <3>4. i \in 1..B
        BY <3>3
      <3>5. <<w, i>> \in W \X (1..B) /\ <<w, i>>[1] = w /\ <<w, i>>[2] = i
        BY <3>4
      <3>6. <<w, i>> \in P
        BY <3>1, <3>5 DEF InBatches
      <3> QED
        BY <3>6
    <2> QED
      BY <2>1, <2>2, <2>3
  <1>7. /\ Cardinality(C) + Cardinality(P) <= 1
        /\ C # {} \/ P # {} => Cardinality(C) + Cardinality(P) = 1
    BY <1>1, <1>4, <1>5, Counted, Zenon
  <1> QED
    BY <1>6, <1>7

-----------------------------------------------------------------------------
\* All the loops, the queue and the records.

Shape ==
    /\ sent \in Seq(Tx)
    /\ fate \in [1..Len(sent) -> Fates]
    /\ pc \in [Worker -> Places]
    /\ job = [w \in Worker |-> job[w]]
    /\ \A w \in Worker : Len(job[w].batch) <= BATCH_SIZE_LIMIT

Inv == Shape /\ PipelineOk(Worker, pc, job, fate, channel, recorded)

-----------------------------------------------------------------------------
\* What every step needs.

\* There is one fate for each transaction sent.
LEMMA LengthType ==
    ASSUME Shape
    PROVE  Len(sent) \in Nat /\ DOMAIN fate = 1..Len(sent) /\ DOMAIN sent = 1..Len(sent)
BY DEF Shape

\* Only loop w moves, to place p2 with variables j2.
Moves(w, p2, j2) ==
    /\ pc' = [pc EXCEPT ![w] = p2]
    /\ job' = [job EXCEPT ![w] = j2]

\* A step of one loop changes its own place and variables only.
LEMMA MovesOne ==
    ASSUME Shape, NEW w \in Worker, NEW p2 \in Places, NEW j2, Moves(w, p2, j2)
    PROVE  /\ pc' \in [Worker -> Places] /\ job' = [v \in Worker |-> job'[v]]
           /\ pc'[w] = p2 /\ job'[w] = j2
           /\ \A v \in Worker : v # w => pc'[v] = pc[v] /\ job'[v] = job[v]
  <1>1. job = [v \in Worker |-> job[v]] /\ pc \in [Worker -> Places]
    BY DEF Shape
  <1>2. pc' \in [Worker -> Places] /\ pc'[w] = p2 /\ \A v \in Worker : v # w => pc'[v] = pc[v]
    BY <1>1 DEF Moves
  <1>3. DOMAIN job = Worker
    BY <1>1
  <1>4. job' = [v \in Worker |-> IF v = w THEN j2 ELSE job[v]]
    BY <1>3, Zenon DEF Moves
  <1> QED
    BY <1>2, <1>4

\* What the invariant says of one loop.
LEMMA LoopHere ==
    ASSUME Inv, NEW w \in Worker
    PROVE  /\ LoopOk(pc[w], job[w], fate) /\ Fields(job[w])
           /\ fate \in [DOMAIN fate -> AllFates]
           /\ job = [v \in Worker |-> job[v]] /\ pc \in [Worker -> Places] /\ pc[w] \in Places
           /\ Len(job[w].batch) <= BATCH_SIZE_LIMIT
  <1>1. LoopOk(pc[w], job[w], fate)
    BY DEF Inv, PipelineOk
  <1> QED
    BY <1>1 DEF Inv, Shape, PipelineOk, LoopOk

\* A step of one loop that leaves the queue and the records alone.
LEMMA OneLoop ==
    ASSUME Inv, NEW w \in Worker, NEW p2 \in Places, NEW j2, Moves(w, p2, j2),
           Len(j2.batch) <= BATCH_SIZE_LIMIT,
           LoopOk(p2, j2, fate'), Settles(pc[w], job[w], fate, p2, j2, fate'),
           UNCHANGED <<sent, channel, recorded>>
    PROVE  Inv'
  <1>1. /\ pc' \in [Worker -> Places] /\ job' = [v \in Worker |-> job'[v]]
        /\ pc'[w] = p2 /\ job'[w] = j2
        /\ \A v \in Worker : v # w => pc'[v] = pc[v] /\ job'[v] = job[v]
    BY MovesOne DEF Inv
  <1>2. OnlyMoves(w, Worker, pc, job, pc', job')
    BY <1>1 DEF OnlyMoves
  <1>3. PipelineOk(Worker, pc', job', fate', channel, recorded)
    BY <1>1, <1>2, LoopStep DEF Inv
  <1>4. fate' \in [1..Len(sent) -> Fates]
    <2>1. DOMAIN fate = 1..Len(sent) /\ AllFates = Fates
      BY LengthType DEF Inv, AllFates, Fates
    <2> QED
      BY <2>1 DEF Settles
  <1>5. \A v \in Worker : Len(job'[v].batch) <= BATCH_SIZE_LIMIT
    BY <1>1 DEF Inv, Shape
  <1>6. Shape'
    BY <1>1, <1>4, <1>5 DEF Inv, Shape
  <1> QED
    BY <1>3, <1>6 DEF Inv

\* A step of one loop that leaves its variables alone, and the fates.
LEMMA OneLoopPlace ==
    ASSUME Inv, NEW w \in Worker, NEW p2 \in Places, pc' = [pc EXCEPT ![w] = p2],
           UNCHANGED <<job, fate, sent, channel, recorded>>,
           LoopOk(p2, job[w], fate), Settles(pc[w], job[w], fate, p2, job[w], fate)
    PROVE  Inv'
  <1>1. Moves(w, p2, job[w])
    BY LoopHere DEF Moves
  <1> QED
    BY <1>1, LoopHere, OneLoop

-----------------------------------------------------------------------------
\* The loop of main.

\* One lemma per action of a loop: the action keeps Inv.  What it does to the loop's
\* variables is a lemma of the first part.
LEMMA StopKeeps ==
    ASSUME Inv, NEW w \in Worker, Stop(w)
    PROVE  Inv'
  <1>1. LoopOk("stopped", job[w], fate) /\ Settles("head", job[w], fate, "stopped", job[w], fate)
    <2>1. LoopOk("head", job[w], fate) /\ job[w].batch = <<>>
      BY LoopHere DEF Stop, LoopOk, BatchOk
    <2> QED
      BY <2>1, LoopHere, PlaceOk DEF InProcess, HasGroup
  <1> QED
    BY <1>1, OneLoopPlace, Zenon DEF Stop, Places

LEMMA PollKeeps ==
    ASSUME Inv, NEW w \in Worker, Poll(w)
    PROVE  Inv'
  <1>1. LoopOk("recv", job[w], fate) /\ Settles("head", job[w], fate, "recv", job[w], fate)
    <2>1. LoopOk("head", job[w], fate) /\ job[w].batch = <<>>
      BY LoopHere DEF Poll, LoopOk, BatchOk
    <2> QED
      BY <2>1, LoopHere, PlaceOk DEF InProcess, HasGroup
  <1> QED
    BY <1>1, OneLoopPlace, Zenon DEF Poll, Places

LEMMA ReceiveEndsKeeps ==
    ASSUME Inv, NEW w \in Worker, ReceiveEnds(w)
    PROVE  Inv'
  <1> DEFINE q == IF job[w].batch = <<>> THEN "head" ELSE "verify"
  <1>1. LoopOk("recv", job[w], fate)
    BY LoopHere DEF ReceiveEnds
  <1>2. LoopOk(q, job[w], fate) /\ Settles("recv", job[w], fate, q, job[w], fate)
    BY <1>1, LoopHere, PlaceOk DEF InProcess, HasGroup
  <1> QED
    BY <1>2, OneLoopPlace, Zenon DEF ReceiveEnds, Places

LEMMA ReceiveKeeps ==
    ASSUME Inv, NEW w \in Worker, Receive(w)
    PROVE  Inv'
  <1> DEFINE j == job[w]
             k == WithBatch(j, Append(j.batch, Head(channel)))
  <1>1. Fields(j) /\ LoopOk("recv", j, fate) /\ job = [v \in Worker |-> job[v]]
    BY LoopHere DEF Receive
  <1>2. Moves(w, pc[w], k)
    <2>1. job' = [job EXCEPT ![w] = k]
      BY <1>1 DEF Receive, WithBatch
    <2> QED
      BY <2>1, LoopHere, Zenon DEF Moves, Receive
  <1>3. Fields(k) /\ k.batch = Append(j.batch, Head(channel)) /\ k.results = j.results
    BY <1>1, AssignBatch, Zenon
  <1>4. /\ job' = [v \in Worker |-> job'[v]] /\ job'[w] = k
        /\ \A v \in Worker : v # w => job'[v] = job[v]
    BY <1>2, LoopHere, MovesOne DEF Inv
  <1>5. OnlyMoves(w, Worker, pc, job, pc, job')
    BY <1>4 DEF OnlyMoves
  <1>6. PipelineOk(Worker, pc, job', fate, Tail(channel), recorded)
    <2>1. pc[w] = "recv" /\ channel # <<>>
      BY DEF Receive
    <2> QED
      BY <1>3, <1>4, <1>5, <2>1, ReceiveStep DEF Inv
  <1>7. Len(k.batch) <= BATCH_SIZE_LIMIT
    <2>1. PICK S, b, x : S = DOMAIN fate /\ b = j.batch /\ x = Head(channel)
      OBVIOUS
    <2>2. b \in Seq(S) /\ Len(b) < BATCH_SIZE_LIMIT
      BY <1>1, <2>1 DEF LoopOk, BatchOk, Receive
    <2>3. Len(Append(b, x)) <= BATCH_SIZE_LIMIT
      BY <2>2, BankingConstants
    <2> QED
      BY <1>3, <2>1, <2>3, Zenon
  <1>8. \A v \in Worker : Len(job'[v].batch) <= BATCH_SIZE_LIMIT
    BY <1>4, <1>7 DEF Inv, Shape
  <1>9. Shape'
    BY <1>4, <1>8 DEF Inv, Shape, Receive
  <1> QED
    BY <1>6, <1>9 DEF Inv, Receive

-----------------------------------------------------------------------------
\* Ways out of process_batch.

\* The loop drops its variables; what it held and had no fate is aborted.
LEMMA LeaveKeeps ==
    ASSUME Inv, NEW w \in Worker, NEW q \in {"head", "stopped"}, Moves(w, q, EmptyJob),
           NEW ids, ids \subseteq LiveIn(job[w]),
           \A id \in LiveIn(job[w]) : fate[id] = "Pending" => id \in ids,
           fate' = Settle(ids, "Aborted"), UNCHANGED <<sent, channel, recorded>>
    PROVE  Inv'
  <1> DEFINE j == job[w]
  <1>1. LoopOk(pc[w], j, fate) /\ fate \in [DOMAIN fate -> AllFates]
    BY LoopHere
  <1>2. /\ fate' \in [DOMAIN fate -> AllFates]
        /\ \A id \in DOMAIN fate : fate'[id] # fate[id] => id \in LiveIn(j) /\ fate'[id] = "Aborted"
        /\ \A id \in LiveIn(j) : fate'[id] # "Pending"
    <2>1. LiveIn(j) \subseteq DOMAIN fate
      BY <1>1, LiveAreSent DEF LoopOk
    <2> QED
      BY <1>1, <2>1 DEF Settle, AllFates
  <1>3. /\ Fields(EmptyJob) /\ EmptyJob.batch = <<>> /\ EmptyJob.results = <<>>
        /\ Len(EmptyJob.batch) <= BATCH_SIZE_LIMIT
    BY BankingConstants DEF Fields, EmptyJob
  <1>4. LoopOk(q, EmptyJob, fate') /\ Settles(pc[w], j, fate, q, EmptyJob, fate')
    BY <1>1, <1>2, <1>3, LeaveOk
  <1>5. q \in Places
    BY DEF Places
  <1> QED
    BY <1>3, <1>4, <1>5, OneLoop

\* Before the results exist the whole batch is in the loop's hands.
LEMMA VerifyingHoldsAll ==
    ASSUME Inv, NEW w \in Worker, pc[w] = "verify"
    PROVE  LiveIn(job[w]) = ToSet(job[w].batch)
  <1>1. job[w].results = <<>>
    BY LoopHere, Zenon DEF LoopOk, BatchOk, InProcess, HasGroup
  <1> QED
    BY <1>1 DEF LiveIn, HeldIn, ToSet

LEMMA VerifyPanicsKeeps ==
    ASSUME Inv, NEW w \in Worker, VerifyPanics(w)
    PROVE  Inv'
  <1>1. Moves(w, "head", EmptyJob)
    BY DEF Moves, VerifyPanics
  <1> QED
    BY <1>1, VerifyingHoldsAll, LeaveKeeps DEF VerifyPanics

LEMMA CancelledKeeps ==
    ASSUME Inv, NEW w \in Worker, Cancelled(w)
    PROVE  Inv'
  <1>1. Moves(w, "stopped", EmptyJob)
    BY DEF Moves, Cancelled
  <1> QED
    BY <1>1, VerifyingHoldsAll, LeaveKeeps DEF Cancelled

LEMMA UnwindKeeps ==
    ASSUME Inv, NEW w \in Worker, NEW q \in {"head", "stopped"}, Unwind(w, q)
    PROVE  Inv'
  <1>1. Moves(w, q, EmptyJob)
    BY DEF Moves, Unwind
  <1>2. Ids(w, Held(w)) = LiveIn(job[w])
    BY DEF Ids, Held, LiveIn, HeldIn
  <1>3. /\ Unsettled(w) \subseteq LiveIn(job[w])
        /\ \A id \in LiveIn(job[w]) : fate[id] = "Pending" => id \in Unsettled(w)
    BY <1>2 DEF Unsettled
  <1> QED
    BY <1>1, <1>3, LeaveKeeps DEF Unwind

LEMMA FinishBatchKeeps ==
    ASSUME Inv, NEW w \in Worker, FinishBatch(w)
    PROVE  Inv'
  <1>1. Moves(w, "head", EmptyJob)
    BY DEF Moves, FinishBatch
  <1>2. \A id \in LiveIn(job[w]) : fate[id] # "Pending"
    BY LoopHere, AllSettled DEF FinishBatch
  <1>3. fate' = Settle({}, "Aborted")
    BY LoopHere DEF Settle, FinishBatch
  <1> QED
    BY <1>1, <1>2, <1>3, LeaveKeeps DEF FinishBatch

-----------------------------------------------------------------------------
\* One group after the other, and its admission.

LEMMA HeadOfGroupsKeeps ==
    ASSUME Inv, NEW w \in Worker, NextGroup(w)
    PROVE  Inv'
  <1> DEFINE j == job[w]
             k == WithGroup(j, Head(j.groups), Tail(j.groups), <<>>)
  <1>1. /\ Fields(j) /\ LoopOk("group", j, fate) /\ job = [v \in Worker |-> job[v]]
        /\ j.groups # <<>>
    BY LoopHere DEF NextGroup
  <1>2. Moves(w, "admit", k)
    BY <1>1, Zenon DEF Moves, NextGroup, WithGroup
  <1>3. /\ Fields(k) /\ k.batch = j.batch /\ k.results = j.results
        /\ k.to_admit = Head(j.groups) /\ k.groups = Tail(j.groups) /\ k.admitted = <<>>
    BY <1>1, AssignGroup
  <1>4. LoopOk("admit", k, fate) /\ Settles("group", j, fate, "admit", k, fate)
    BY <1>1, <1>3, LoopHere, NextGroupOk DEF SameBatch
  <1> QED
    BY <1>2, <1>3, <1>4, LoopHere, OneLoop DEF NextGroup, Places

LEMMA WouldFitKeeps ==
    ASSUME Inv, NEW w \in Worker, WouldFit(w)
    PROVE  Inv'
  <1>1. LoopOk("admit", job[w], fate) /\ job[w].to_admit # <<>>
    BY LoopHere DEF WouldFit
  <1>2. LoopOk("add", job[w], fate) /\ Settles("admit", job[w], fate, "add", job[w], fate)
    BY <1>1, LoopHere, OnwardOk
  <1> QED
    BY <1>2, OneLoopPlace, Zenon DEF WouldFit, Places

LEMMA WouldNotFitKeeps ==
    ASSUME Inv, NEW w \in Worker, WouldNotFit(w)
    PROVE  Inv'
  <1> DEFINE j == job[w]
             i == Head(j.to_admit)
             r == [j.results EXCEPT ![i] = "WouldExceedMaxBlockCostLimit"]
             k == WithRefusal(j, Tail(j.to_admit), r)
  <1>1. /\ Fields(j) /\ LoopOk("admit", j, fate) /\ job = [v \in Worker |-> job[v]]
        /\ j.to_admit # <<>>
    BY LoopHere DEF WouldNotFit
  <1>2. Moves(w, "admit", k)
    <2>1. job' = [job EXCEPT ![w] = k]
      BY <1>1, Zenon DEF WouldNotFit, WithRefusal
    <2> QED
      BY <2>1, LoopHere, Zenon DEF Moves, WouldNotFit
  <1>3. /\ Fields(k) /\ k.batch = j.batch /\ k.results = r /\ k.groups = j.groups
        /\ k.to_admit = Tail(j.to_admit) /\ k.admitted = j.admitted
    BY <1>1, AssignRefusal
  <1>4. fate' = [id \in DOMAIN fate |-> IF id \in {j.batch[i]}
                                        THEN "WouldExceedMaxBlockCostLimit" ELSE fate[id]]
    BY DEF WouldNotFit, Settle, Ids
  <1>5. LoopOk("admit", k, fate') /\ Settles("admit", j, fate, "admit", k, fate')
    BY <1>1, <1>3, <1>4, LoopHere, RefuseOk
  <1> QED
    BY <1>2, <1>3, <1>5, LoopHere, OneLoop, Zenon DEF WouldNotFit, Places

LEMMA AddCostKeeps ==
    ASSUME Inv, NEW w \in Worker, AddCost(w)
    PROVE  Inv'
  <1> DEFINE j == job[w]
             k == WithAdmission(j, Tail(j.to_admit), Append(j.admitted, Head(j.to_admit)))
  <1>1. Fields(j) /\ LoopOk("add", j, fate) /\ job = [v \in Worker |-> job[v]]
    BY LoopHere DEF AddCost
  <1>2. Moves(w, "admit", k)
    BY <1>1, Zenon DEF Moves, AddCost, WithAdmission
  <1>3. /\ Fields(k) /\ k.batch = j.batch /\ k.results = j.results /\ k.groups = j.groups
        /\ k.to_admit = Tail(j.to_admit) /\ k.admitted = Append(j.admitted, Head(j.to_admit))
    <2>1. PICK t, a : t = Tail(j.to_admit) /\ a = Append(j.admitted, Head(j.to_admit))
      BY Zenon
    <2>2. LET m == WithAdmission(j, t, a)
          IN  /\ Fields(m) /\ m.batch = j.batch /\ m.results = j.results /\ m.groups = j.groups
              /\ m.to_admit = t /\ m.admitted = a
      BY <1>1, AssignAdmission
    <2> QED
      BY <2>1, <2>2, Zenon
  <1>4. LoopOk("admit", k, fate) /\ Settles("add", j, fate, "admit", k, fate)
    BY <1>1, <1>3, LoopHere, AddOk DEF SameBatch
  <1> QED
    BY <1>2, <1>3, <1>4, LoopHere, OneLoop, Zenon DEF AddCost, Places

LEMMA AdmissionEndsKeeps ==
    ASSUME Inv, NEW w \in Worker, AdmissionEnds(w)
    PROVE  Inv'
  <1> DEFINE q == IF job[w].admitted = <<>> THEN "group" ELSE "lock"
  <1>1. LoopOk("admit", job[w], fate) /\ job[w].to_admit = <<>>
    BY LoopHere DEF AdmissionEnds
  <1>2. LoopOk(q, job[w], fate) /\ Settles("admit", job[w], fate, q, job[w], fate)
    BY <1>1, LoopHere, OnwardOk, SkipOk
  <1> QED
    BY <1>2, OneLoopPlace, Zenon DEF AdmissionEnds, Places

-----------------------------------------------------------------------------
\* Execution of a group.

LEMMA LockAccountsKeeps ==
    ASSUME Inv, NEW w \in Worker, LockAccounts(w)
    PROVE  Inv'
  <1> DEFINE j == job[w]
             o == [i \in Members(w) |-> "Running"]
             k == WithRunning(j, [i \in Members(w) |-> <<>>], o)
  <1>1. Fields(j) /\ LoopOk("lock", j, fate) /\ job = [v \in Worker |-> job[v]]
    BY LoopHere DEF LockAccounts
  <1>2. Moves(w, "execute", k)
    BY <1>1, Zenon DEF Moves, LockAccounts, WithRunning
  <1>3. /\ Fields(k) /\ k.batch = j.batch /\ k.results = j.results /\ k.groups = j.groups
        /\ k.to_admit = j.to_admit /\ k.admitted = j.admitted /\ k.outcome = o
    BY <1>1, AssignRunning
  <1>4. k.outcome \in [ToSet(j.admitted) -> Outcomes]
    BY <1>3 DEF Members, Outcomes
  <1>5. LoopOk("execute", k, fate) /\ Settles("lock", j, fate, "execute", k, fate)
    BY <1>1, <1>3, <1>4, LoopHere, RunningOk DEF SameBatch
  <1> QED
    BY <1>2, <1>3, <1>5, LoopHere, OneLoop DEF LockAccounts, Places

\* Each of the members' own steps changes what is loaded and the outcome.
LEMMA MemberKeeps ==
    ASSUME Inv, NEW w \in Worker, pc[w] = "execute", NEW l, NEW o,
           job' = [job EXCEPT ![w] = WithRunning(job[w], l, o)],
           o \in [DOMAIN job[w].outcome -> Outcomes],
           UNCHANGED <<pc, fate, sent, channel, recorded>>
    PROVE  Inv'
  <1> DEFINE j == job[w]
             k == WithRunning(j, l, o)
  <1>1. Fields(j) /\ LoopOk("execute", j, fate)
    BY LoopHere
  <1>2. Moves(w, "execute", k)
    BY LoopHere DEF Moves
  <1>3. /\ Fields(k) /\ k.batch = j.batch /\ k.results = j.results /\ k.groups = j.groups
        /\ k.to_admit = j.to_admit /\ k.admitted = j.admitted /\ k.outcome = o
    BY <1>1, AssignRunning
  <1>4. k.outcome \in [ToSet(j.admitted) -> Outcomes]
    BY <1>1, <1>3 DEF LoopOk, GroupOk
  <1>5. LoopOk("execute", k, fate) /\ Settles("execute", j, fate, "execute", k, fate)
    BY <1>1, <1>3, <1>4, LoopHere, RunningOk DEF SameBatch
  <1> QED
    BY <1>2, <1>3, <1>5, LoopHere, OneLoop DEF Places

LEMMA PreflightFailsKeeps ==
    ASSUME Inv, NEW w \in Worker, NEW i \in DOMAIN job[w].outcome, PreflightFails(w, i)
    PROVE  Inv'
  <1> DEFINE j == job[w]
             o == [j.outcome EXCEPT ![i] = "BlockhashNotFound"]
  <1>1. Fields(j) /\ LoopOk("execute", j, fate) /\ job = [v \in Worker |-> job[v]]
    BY LoopHere DEF PreflightFails
  <1>2. job' = [job EXCEPT ![w] = [j EXCEPT !.outcome = o]]
    BY <1>1 DEF PreflightFails
  <1>3. o \in [DOMAIN j.outcome -> Outcomes]
    BY <1>1 DEF LoopOk, GroupOk, Outcomes
  <1> QED
    <2>1. job' = [job EXCEPT ![w] = WithRunning(j, j.loaded, o)]
      BY <1>1, <1>2, AssignOne, Zenon
    <2>2. pc[w] = "execute" /\ UNCHANGED <<pc, fate, sent, channel, recorded>>
      BY DEF PreflightFails
    <2> QED
      BY <1>3, <2>1, <2>2, MemberKeeps, Zenon

LEMMA LoadAccountKeeps ==
    ASSUME Inv, NEW w \in Worker, NEW i \in DOMAIN job[w].outcome, LoadAccount(w, i)
    PROVE  Inv'
  <1> DEFINE j == job[w]
  <1>1. Fields(j) /\ LoopOk("execute", j, fate) /\ job = [v \in Worker |-> job[v]]
    BY LoopHere DEF LoadAccount
  <1>2. PICK l : job' = [job EXCEPT ![w] = [j EXCEPT !.loaded = l]]
    <2>1. PICK e : job' = [job EXCEPT ![w].loaded[i] = e]
      BY Zenon DEF LoadAccount
    <2> QED
      BY <1>1, <2>1, Zenon
  <1>3. j.outcome \in [DOMAIN j.outcome -> Outcomes]
    BY <1>1 DEF LoopOk, GroupOk
  <1> QED
    <2>1. job' = [job EXCEPT ![w] = WithRunning(j, l, j.outcome)]
      BY <1>1, <1>2, AssignOne, Zenon
    <2>2. pc[w] = "execute" /\ UNCHANGED <<pc, fate, sent, channel, recorded>>
      BY DEF LoadAccount
    <2> QED
      BY <1>3, <2>1, <2>2, MemberKeeps, Zenon

LEMMA ExecuteKeeps ==
    ASSUME Inv, NEW w \in Worker, NEW i \in DOMAIN job[w].outcome, Execute(w, i)
    PROVE  Inv'
  <1> DEFINE j == job[w]
  <1>1. Fields(j) /\ LoopOk("execute", j, fate) /\ job = [v \in Worker |-> job[v]]
    BY LoopHere DEF Execute
  <1>2. PICK l, o : /\ job' = [job EXCEPT ![w] = WithRunning(j, l, o)]
                    /\ o \in [DOMAIN j.outcome -> Outcomes]
    <2>1. PICK e, r : job' = [job EXCEPT ![w].loaded[i] = e, ![w].outcome[i] = r] /\ r \in Outcomes
      BY Zenon DEF Execute, Outcomes
    <2>2. [j.outcome EXCEPT ![i] = r] \in [DOMAIN j.outcome -> Outcomes]
      BY <1>1, <2>1 DEF LoopOk, GroupOk
    <2>3. job' = [job EXCEPT ![w] = WithRunning(j, [j.loaded EXCEPT ![i] = e],
                                                [j.outcome EXCEPT ![i] = r])]
      BY <1>1, <2>1, Zenon DEF WithRunning
    <2> QED
      BY <2>2, <2>3, Zenon
  <1> QED
    BY <1>2, MemberKeeps, Zenon DEF Execute

LEMMA RecordKeeps ==
    ASSUME Inv, NEW w \in Worker, Record(w)
    PROVE  Inv'
  <1>1. /\ pc[w] = "execute" /\ \A i \in ToSet(job[w].admitted) : job[w].outcome[i] # "Running"
        /\ recorded' = Append(recorded, AdmittedIds(job[w]))
    BY DEF Record, ExecutionEnded, Members, AdmittedIds
  <1>2. pc' \in [Worker -> Places] /\ pc'[w] = "collect" /\ \A v \in Worker : v # w => pc'[v] = pc[v]
    BY LoopHere DEF Record, Places
  <1>3. OnlyMoves(w, Worker, pc, job, pc', job)
    BY <1>2 DEF OnlyMoves
  <1>4. PipelineOk(Worker, pc', job, fate, channel, recorded')
    BY <1>1, <1>2, <1>3, RecordStep, Zenon DEF Inv
  <1> QED
    BY <1>2, <1>4 DEF Inv, Shape, Record

LEMMA AccountsInUseKeeps ==
    ASSUME Inv, NEW w \in Worker, AccountsInUse(w)
    PROVE  Inv'
  <1>1. LoopOk("lock", job[w], fate) /\ fate \in [DOMAIN fate -> AllFates]
    BY LoopHere DEF AccountsInUse
  <1>2. job[w].to_admit = <<>> /\ job[w].admitted # <<>>
    BY <1>1 DEF LoopOk, GroupOk
  <1>3. /\ LoopOk("refused", job[w], fate)
        /\ Settles("lock", job[w], fate, "refused", job[w], fate)
    BY <1>1, <1>2, OnwardOk
  <1> QED
    BY <1>3, OneLoopPlace, Zenon DEF AccountsInUse, Places

LEMMA RollBackCostKeeps ==
    ASSUME Inv, NEW w \in Worker, RollBackCost(w)
    PROVE  Inv'
  <1>1. LoopOk("refused", job[w], fate) /\ fate \in [DOMAIN fate -> AllFates]
    BY LoopHere DEF RollBackCost
  <1>2. job[w].to_admit = <<>> /\ job[w].admitted # <<>>
    BY <1>1 DEF LoopOk, GroupOk
  <1>3. /\ LoopOk("requeue", job[w], fate)
        /\ Settles("refused", job[w], fate, "requeue", job[w], fate)
    BY <1>1, <1>2, OnwardOk
  <1> QED
    BY <1>3, OneLoopPlace, Zenon DEF RollBackCost, Places

\* What Requeue assigns.
LEMMA RequeueAssigns ==
    ASSUME Inv, NEW w \in Worker, Requeue(w)
    PROVE  \E q, k :
              /\ q \in {"group", "refused"}
              /\ Moves(w, q, k) /\ Fields(k) /\ SentBack(job[w], k)
              /\ q = "group" <=> Tail(job[w].admitted) = <<>>
              /\ k = WithReturn(job[w], Tail(job[w].admitted),
                               [job[w].results EXCEPT ![Head(job[w].admitted)] = "AccountInUse"])
  <1> DEFINE j == job[w]
             q == IF Tail(j.admitted) = <<>> THEN "group" ELSE "refused"
  <1>1. Fields(j) /\ job = [v \in Worker |-> job[v]] /\ pc \in [Worker -> Places]
    BY LoopHere
  <1>2. PICK a, r : a = Tail(j.admitted) /\ r = [j.results EXCEPT ![Head(j.admitted)] = "AccountInUse"]
    BY Zenon
  <1>3. PICK k : k = WithReturn(j, a, r)
    BY Zenon
  <1>4. /\ Fields(k) /\ k.batch = j.batch /\ k.results = r /\ k.groups = j.groups
        /\ k.to_admit = j.to_admit /\ k.admitted = a
    BY <1>1, <1>3, AssignReturn
  <1>5. SentBack(j, k)
    BY <1>2, <1>4 DEF SentBack
  <1>6. job' = [job EXCEPT ![w] = k]
    BY <1>1, <1>2, <1>3, Zenon DEF Requeue, WithReturn
  <1>7. Moves(w, q, k)
    BY <1>6, Zenon DEF Moves, Requeue
  <1>8. q \in {"group", "refused"} /\ (q = "group" <=> Tail(job[w].admitted) = <<>>)
    OBVIOUS
  <1>9. k = WithReturn(job[w], Tail(job[w].admitted),
                       [job[w].results EXCEPT ![Head(job[w].admitted)] = "AccountInUse"])
    BY <1>2, <1>3
  <1>10. PICK p : p = q
    BY Zenon
  <1>11. p \in {"group", "refused"} /\ (p = "group" <=> Tail(job[w].admitted) = <<>>)
    BY <1>8, <1>10
  <1>12. Moves(w, p, k) /\ Fields(k) /\ SentBack(job[w], k)
    BY <1>4, <1>5, <1>7, <1>10, Zenon
  <1> QED
    BY <1>9, <1>11, <1>12

LEMMA RequeueKeeps ==
    ASSUME Inv, NEW w \in Worker, Requeue(w)
    PROVE  Inv'
  <1>1. PICK q, k :
           /\ q \in {"group", "refused"}
           /\ Moves(w, q, k) /\ Fields(k) /\ SentBack(job[w], k)
           /\ q = "group" <=> Tail(job[w].admitted) = <<>>
           /\ k = WithReturn(job[w], Tail(job[w].admitted),
                            [job[w].results EXCEPT ![Head(job[w].admitted)] = "AccountInUse"])
    BY RequeueAssigns, Zenon
  <1>2. /\ pc' \in [Worker -> Places] /\ job' = [v \in Worker |-> job'[v]]
        /\ pc'[w] = q /\ job'[w] = k
        /\ \A v \in Worker : v # w => pc'[v] = pc[v] /\ job'[v] = job[v]
    BY <1>1, MovesOne DEF Inv, Places
  <1>3. OnlyMoves(w, Worker, pc, job, pc', job')
    BY <1>2 DEF OnlyMoves
  <1>4. PICK id : id = job[w].batch[Head(job[w].admitted)]
    BY Zenon
  <1>5. pc[w] = "requeue" /\ channel' = Append(channel, id)
    BY <1>4 DEF Requeue
  <1>6. PICK ps2, js2, ch2 : ps2 = pc' /\ js2 = job' /\ ch2 = channel'
    OBVIOUS
  <1>7. PipelineOk(Worker, ps2, js2, fate, ch2, recorded)
    <2>1. PipelineOk(Worker, pc, job, fate, channel, recorded)
      BY Zenon DEF Inv
    <2>2. OnlyMoves(w, Worker, pc, job, ps2, js2)
      BY <1>3, <1>6, Zenon
    <2>3. SendsOneBack(pc[w], job[w], channel, ps2[w], js2[w], ch2)
      BY <1>1, <1>2, <1>4, <1>5, <1>6 DEF SendsOneBack
    <2> QED
      BY <2>1, <2>2, <2>3, RequeueStep, Zenon
  <1>8. Shape'
    BY <1>1, <1>2 DEF Inv, Shape, Requeue, SentBack
  <1> QED
    BY <1>6, <1>7, <1>8, Zenon DEF Inv, Requeue

-----------------------------------------------------------------------------
\* The end of a group.

LEMMA BeginFlushKeeps ==
    ASSUME Inv, NEW w \in Worker, BeginFlush(w)
    PROVE  Inv'
  <1> DEFINE j == job[w]
             i == Head(j.overlays)
  <1>1. /\ Fields(j) /\ LoopOk("commit", j, fate) /\ job = [v \in Worker |-> job[v]]
        /\ j.overlays # <<>>
    BY LoopHere DEF BeginFlush
  <1>2. PICK o, e : o = Tail(j.overlays) /\ e = overlay_of(TxAt(w, i), j.loaded[i])
    BY Zenon
  <1> DEFINE k == WithFlush(j, o, e)
  <1>3. Moves(w, "commit", k)
    <2>1. job' = [job EXCEPT ![w] = k]
      BY <1>1, <1>2, Zenon DEF BeginFlush, WithFlush
    <2> QED
      BY <2>1, LoopHere, Zenon DEF Moves, BeginFlush
  <1>4. /\ Fields(k) /\ k.batch = j.batch /\ k.results = j.results /\ k.groups = j.groups
        /\ k.overlays = o
    BY <1>1, AssignFlush
  <1>5. fate' = [id \in DOMAIN fate |-> IF id \in {j.batch[i]} THEN "Committed" ELSE fate[id]]
    BY DEF BeginFlush, Settle, Ids
  <1>6. LoopOk("commit", k, fate') /\ Settles("commit", j, fate, "commit", k, fate')
    <2>1. /\ fate \in [DOMAIN fate -> AllFates] /\ SameBatch(j, k)
          /\ k.overlays = Tail(j.overlays)
      BY <1>2, <1>4, LoopHere, Zenon DEF SameBatch
    <2>2. PICK f2 : f2 = fate'
      OBVIOUS
    <2>3. LoopOk("commit", k, f2) /\ Settles("commit", j, fate, "commit", k, f2)
      BY <1>1, <1>4, <1>5, <2>1, <2>2, BeginFlushOk
    <2> QED
      BY <2>2, <2>3, Zenon
  <1>7. pc[w] = "commit" /\ UNCHANGED <<sent, channel, recorded>>
    BY DEF BeginFlush
  <1>8. Len(k.batch) <= BATCH_SIZE_LIMIT /\ "commit" \in Places
    BY <1>4, LoopHere DEF Places
  <1> QED
    BY <1>3, <1>6, <1>7, <1>8, OneLoop, Zenon

LEMMA FlushAccountKeeps ==
    ASSUME Inv, NEW w \in Worker, NEW key, FlushAccount(w, key)
    PROVE  Inv'
  <1> DEFINE j == job[w]
  <1>1. Fields(j) /\ LoopOk("commit", j, fate) /\ job = [v \in Worker |-> job[v]]
    BY LoopHere DEF FlushAccount
  <1>2. PICK e : job' = [job EXCEPT ![w].flushing = e]
    BY Zenon DEF FlushAccount
  <1> DEFINE k == WithFlush(j, j.overlays, e)
  <1>3. Moves(w, "commit", k)
    <2>1. job' = [job EXCEPT ![w] = [j EXCEPT !.flushing = e]]
      BY <1>1, <1>2
    <2>2. [j EXCEPT !.flushing = e] = k
      BY <1>1, AssignOne, Zenon
    <2>3. pc' = [pc EXCEPT ![w] = "commit"]
      BY LoopHere DEF FlushAccount
    <2> QED
      BY <2>1, <2>2, <2>3, Zenon DEF Moves
  <1>4. /\ Fields(k) /\ k.batch = j.batch /\ k.results = j.results /\ k.groups = j.groups
        /\ k.overlays = j.overlays
    BY <1>1, AssignFlush
  <1>5. LoopOk("commit", k, fate) /\ Settles("commit", j, fate, "commit", k, fate)
    BY <1>1, <1>4, LoopHere, FlushOk DEF SameBatch
  <1>6. pc[w] = "commit" /\ UNCHANGED <<fate, sent, channel, recorded>>
    BY DEF FlushAccount
  <1>7. Len(k.batch) <= BATCH_SIZE_LIMIT /\ "commit" \in Places
    BY <1>4, LoopHere DEF Places
  <1> QED
    BY <1>3, <1>5, <1>6, <1>7, OneLoop, Zenon

LEMMA ReleaseGroupKeeps ==
    ASSUME Inv, NEW w \in Worker, ReleaseGroup(w)
    PROVE  Inv'
  <1> DEFINE j == job[w]
             k == WithNoGroup(j, EmptyMap, EmptyMap, <<>>)
  <1>1. /\ Fields(j) /\ LoopOk("commit", j, fate) /\ job = [v \in Worker |-> job[v]]
        /\ j.overlays = <<>>
    BY LoopHere DEF ReleaseGroup
  <1>2. Moves(w, "group", k)
    BY <1>1, Zenon DEF Moves, ReleaseGroup, WithNoGroup
  <1>3. Fields(k) /\ k.batch = j.batch /\ k.results = j.results /\ k.groups = j.groups
    BY <1>1, AssignNoGroup
  <1>4. LoopOk("group", k, fate) /\ Settles("commit", j, fate, "group", k, fate)
    BY <1>1, <1>3, LoopHere, ReleaseOk DEF SameBatch
  <1>5. pc[w] = "commit" /\ UNCHANGED <<fate, sent, channel, recorded>>
    BY DEF ReleaseGroup
  <1>6. Len(k.batch) <= BATCH_SIZE_LIMIT /\ "group" \in Places
    BY <1>3, LoopHere DEF Places
  <1> QED
    BY <1>2, <1>4, <1>5, <1>6, OneLoop, Zenon

LEMMA SendTransactionKeeps ==
    ASSUME Inv, NEW tx \in Tx, SendTransaction(tx)
    PROVE  Inv'
  <1>1. FatesOf(Len(sent), fate) /\ AllFates = Fates
    BY LengthType DEF Inv, Shape, FatesOf, AllFates, Fates
  <1>2. PipelineOk(Worker, pc, job, fate', channel', recorded) /\ FatesOf(Len(sent) + 1, fate')
    <2>1. Sends(Len(sent), fate, fate', channel, channel')
      BY DEF SendTransaction, Sends
    <2> QED
      BY <1>1, <2>1, SendStep, Zenon DEF Inv
  <1>3. sent' \in Seq(Tx) /\ Len(sent') = Len(sent) + 1
    BY DEF Inv, Shape, SendTransaction
  <1>4. fate' \in [1..Len(sent') -> Fates]
    BY <1>1, <1>2, <1>3 DEF FatesOf
  <1>5. Shape'
    BY <1>3, <1>4 DEF Inv, Shape, SendTransaction
  <1> QED
    BY <1>2, <1>5 DEF Inv, SendTransaction

\* Nothing that fails is retried, so nothing is sent back, whatever failed.
LEMMA CollectResultsIs ==
    ASSUME Inv, NEW w \in Worker, CollectResults(w)
    PROVE  \E F : /\ F = {i \in ToSet(job[w].admitted) : job[w].outcome[i] # "Ok"}
                 /\ channel' = channel
                 /\ fate' = FatesCollected(job[w], fate, F, F)
                 /\ Moves(w, "commit", WithOverlays(job[w], Collected(job[w], F),
                              Those(job[w].admitted, ToSet(job[w].admitted) \ F)))
  <1> DEFINE j == job[w]
             A == ToSet(j.admitted)
             R == {i \in A : is_retryable(j.outcome[i])}
  <1>1. /\ Fields(j) /\ LoopOk("collect", j, fate) /\ job = [v \in Worker |-> job[v]]
        /\ j.admitted \in Seq(DOMAIN j.batch) /\ j.outcome \in [A -> Outcomes]
        /\ \A i \in A : j.outcome[i] # "Running"
    <2>1. LoopOk("collect", j, fate)
      BY LoopHere, Zenon DEF CollectResults
    <2>2. GroupOk("collect", j) /\ HasGroup("collect")
      BY <2>1, Zenon DEF LoopOk, HasGroup
    <2> QED
      BY <2>1, <2>2, LoopHere DEF GroupOk
  <1>2. PICK succeeded, failed, retryable, F :
            /\ succeeded = {i \in A : j.outcome[i] = "Ok"}
            /\ failed = Those(j.admitted, A \ succeeded)
            /\ retryable = Those(failed, R)
            /\ F = {i \in A : j.outcome[i] # "Ok"}
    BY Zenon
  <1>3. A \ succeeded = F /\ succeeded = A \ F
    BY <1>2
  <1>4. ToSet(failed) = F /\ retryable = <<>>
    <2>1. F \subseteq A /\ F \cap R = {}
      BY <1>1, <1>2 DEF Outcomes, is_retryable
    <2>2. failed = Those(j.admitted, F)
      BY <1>2, <1>3, Zenon
    <2>3. ToSet(Those(j.admitted, F)) = F /\ Those(Those(j.admitted, F), R) = <<>>
      BY <1>1, <2>1, FailedNotRetried, Zenon
    <2> QED
      BY <1>2, <2>2, <2>3, Zenon
  <1>5. channel' = channel
    <2>1. channel \in Seq(DOMAIN fate)
      BY DEF Inv, PipelineOk, QueueOk
    <2>2. channel' = channel \o [n \in DOMAIN retryable |-> j.batch[retryable[n]]]
      BY <1>2, Zenon DEF CollectResults, Members
    <2> QED
      BY <1>4, <2>1, <2>2, NothingSentBack, Zenon
  <1>6. PICK r, o : r = Collected(j, F) /\ o = Those(j.admitted, A \ F)
    OBVIOUS
  <1> DEFINE k == WithOverlays(j, r, o)
  <1>7. Moves(w, "commit", k)
    <2>1. PICK a : a = ToSet(failed)
      OBVIOUS
    <2>2. job' = [job EXCEPT ![w].results = [i \in DOMAIN @ |->
                                 IF i \in a THEN j.outcome[i] ELSE @[i]],
                             ![w].overlays = Those(j.admitted, succeeded)]
      BY <1>2, <2>1, Zenon DEF CollectResults, Members
    <2>3. r = [i \in DOMAIN j.results |-> IF i \in a THEN j.outcome[i] ELSE j.results[i]]
      BY <1>4, <1>6, <2>1, Zenon DEF Collected
    <2>4. job' = [job EXCEPT ![w].results = r, ![w].overlays = o]
      BY <1>3, <1>6, <2>2, <2>3, Zenon
    <2>5. job' = [job EXCEPT ![w] = k]
      BY <1>1, <2>4, Zenon DEF WithOverlays
    <2> QED
      BY <2>5, Zenon DEF Moves, CollectResults
  <1>8. fate' = FatesCollected(j, fate, F, F)
    <2> DEFINE s == {i \in A : j.outcome[i] = "Ok"}
               t == Those(j.admitted, A \ s)
               u == Those(t, R)
    <2>1. fate' = FatesCollected(j, fate, ToSet(t), ToSet(t) \ ToSet(u))
      BY Zenon DEF CollectResults, Members, FatesCollected
    <2>2. failed = t /\ retryable = u
      BY <1>2, Zenon
    <2>3. fate' = FatesCollected(j, fate, ToSet(failed), ToSet(failed) \ ToSet(retryable))
      BY <2>1, <2>2, Zenon
    <2>4. ToSet(failed) \ ToSet(retryable) = F
      BY <1>4 DEF ToSet
    <2> QED
      BY <1>4, <2>3, <2>4, Zenon
  <1>9. Moves(w, "commit", WithOverlays(j, Collected(j, F), Those(j.admitted, ToSet(j.admitted) \ F)))
    BY <1>6, <1>7, Zenon
  <1> QED
    BY <1>2, <1>5, <1>8, <1>9, Zenon

LEMMA CollectResultsKeeps ==
    ASSUME Inv, NEW w \in Worker, CollectResults(w)
    PROVE  Inv'
  <1> DEFINE j == job[w]
             A == ToSet(j.admitted)
  <1>1. /\ Fields(j) /\ LoopOk("collect", j, fate) /\ fate \in [DOMAIN fate -> AllFates]
        /\ pc[w] = "collect" /\ UNCHANGED <<sent, recorded>>
    BY LoopHere, Zenon DEF CollectResults
  <1>2. PICK F : /\ F = {i \in A : j.outcome[i] # "Ok"}
                 /\ channel' = channel
                 /\ fate' = FatesCollected(j, fate, F, F)
                 /\ Moves(w, "commit", WithOverlays(j, Collected(j, F), Those(j.admitted, A \ F)))
    BY CollectResultsIs, Zenon
  <1>3. PICK r, o : r = Collected(j, F) /\ o = Those(j.admitted, A \ F)
    OBVIOUS
  <1> DEFINE k == WithOverlays(j, r, o)
  <1>4. Fields(k) /\ k.batch = j.batch /\ k.results = r /\ k.groups = j.groups /\ k.overlays = o
    BY <1>1, AssignOverlays
  <1>5. k.results = Collected(j, F) /\ k.overlays = Those(j.admitted, ToSet(j.admitted) \ F)
    BY <1>3, <1>4, Zenon
  <1>6. LoopOk("commit", k, fate') /\ Settles("collect", j, fate, "commit", k, fate')
    BY <1>1, <1>2, <1>4, <1>5, CollectOk, Zenon
  <1>7. Len(k.batch) <= BATCH_SIZE_LIMIT /\ "commit" \in Places
    BY <1>4, LoopHere DEF Places
  <1>8. Moves(w, "commit", k)
    BY <1>2, <1>3, Zenon
  <1> QED
    BY <1>1, <1>2, <1>6, <1>7, <1>8, OneLoop, Zenon

\* The keys of a transaction are accounts.
LEMMA SetsOfTx ==
    ASSUME NEW tx \in Tx
    PROVE  extract_sets(tx) \in KeySets(Pubkey)
  <1>1. \A meta \in Metas(tx) : meta.pubkey \in Pubkey
    BY BankingConstants
  <1> QED
    BY <1>1 DEF extract_sets, KeySets

\* A position of the batch is a transaction that was sent.
LEMMA BatchIsSent ==
    ASSUME Inv, NEW w \in Worker, NEW i \in DOMAIN job[w].batch
    PROVE  TxAt(w, i) \in Tx
  <1>1. job[w].batch \in Seq(DOMAIN fate)
    BY LoopHere DEF LoopOk, BatchOk
  <1>2. job[w].batch[i] \in DOMAIN sent
    BY <1>1, LengthType DEF Inv
  <1> QED
    BY <1>2 DEF TxAt, Inv, Shape

\* The positions with valid signatures and their key sets, from which the groups come.
LEMMA VerifyAndScheduleIs ==
    ASSUME Inv, NEW w \in Worker, VerifyAndSchedule(w)
    PROVE  \E valid, t, sets :
              /\ valid = {i \in DOMAIN job[w].batch : verify_signatures_sync(TxAt(w, i))}
              /\ t = Those(Positions(job[w]), valid) /\ t \in Seq(DOMAIN job[w].batch)
              /\ sets = [n \in DOMAIN t |-> extract_sets(TxAt(w, t[n]))]
              /\ sets \in Seq(KeySets(Pubkey)) /\ Len(sets) = Len(t)
              /\ fate' = FatesVerified(job[w], fate, valid)
              /\ Moves(w, "group", WithSchedule(job[w], Verified(job[w], valid),
                                                Regroup(t, ScheduleOf(sets))))
  <1> DEFINE j == job[w]
             D == DOMAIN j.batch
             indices == [i \in D |-> i]
             keys(n) == extract_sets(TxAt(w, n))
  <1>1. Fields(j) /\ LoopOk("verify", j, fate) /\ job = [v \in Worker |-> job[v]]
    BY LoopHere DEF VerifyAndSchedule
  <1>2. PICK valid, t, sets :
            /\ valid = {i \in DOMAIN indices : verify_signatures_sync(TxAt(w, i))}
            /\ t = Those(indices, valid)
            /\ sets = [n \in DOMAIN t |-> keys(t[n])]
    BY Zenon
  <1>3. DOMAIN indices = D /\ valid \in SUBSET D
    BY <1>2
  <1>4. t \in Seq(D)
    <2>1. PICK n \in Nat : D = 1..n
      BY <1>1 DEF LoopOk, BatchOk
    <2>2. indices \in Seq(D)
      BY <2>1, IdentitySeq, Zenon
    <2> QED
      BY <1>2, <2>2, ThoseAre, Zenon
  <1>5. sets \in Seq(KeySets(Pubkey)) /\ Len(sets) = Len(t)
    <2>1. PICK N, K : N = Len(t) /\ K = KeySets(Pubkey)
      BY Zenon
    <2>2. N \in Nat /\ DOMAIN t = 1..N /\ \A n \in 1..N : t[n] \in D
      BY <1>4, <2>1
    <2>3. \A n \in 1..N : keys(t[n]) \in K
      BY <2>1, <2>2, BatchIsSent, SetsOfTx
    <2>4. sets \in [1..N -> K]
      BY <1>2, <2>2, <2>3, Zenon
    <2>5. sets \in Seq(K)
      BY <2>2, <2>4, FunctionIsSeq, Zenon
    <2>6. Len(sets) = N
      BY <2>2, <2>4, <2>5
    <2> QED
      BY <2>1, <2>5, <2>6, Zenon
  <1>6. PICK r, g : r = Verified(j, valid) /\ g = Regroup(t, ScheduleOf(sets))
    OBVIOUS
  <1> DEFINE k == WithSchedule(j, r, g)
  <1>7. job' = [job EXCEPT ![w].results = r, ![w].groups = g] /\ fate' = FatesVerified(j, fate, valid)
    <2> DEFINE u == {i \in DOMAIN indices : verify_signatures_sync(TxAt(w, i))}
               to_schedule == Those(indices, u)
               s == [n \in DOMAIN to_schedule |-> keys(to_schedule[n])]
               results == [i \in DOMAIN indices |->
                              IF i \in u THEN "None" ELSE "InvalidSignature"]
    <2>1. job' = [job EXCEPT ![w].results = results,
                             ![w].groups = Regroup(to_schedule, ScheduleOf(s))]
      <3>1. \E to_schedule_ \in {to_schedule} :
            \E sets_ \in {[n \in DOMAIN to_schedule_ |-> keys(to_schedule_[n])]} :
            \E groups \in {ScheduleOf(sets_)} :
               job' = [job EXCEPT ![w].results = results,
                                  ![w].groups = Regroup(to_schedule_, groups)]
        BY Zenon DEF VerifyAndSchedule, Regroup
      <3> HIDE DEF to_schedule, results, keys
      <3>2. \E sets_ \in {s} :
            \E groups \in {ScheduleOf(sets_)} :
               job' = [job EXCEPT ![w].results = results,
                                  ![w].groups = Regroup(to_schedule, groups)]
        BY <3>1, Zenon
      <3> HIDE DEF s
      <3> QED
        BY <3>2, Zenon
    <2>2. fate' = Settle(Ids(w, DOMAIN indices \ u), "InvalidSignature")
      BY Zenon DEF VerifyAndSchedule
    <2>3. u = valid /\ to_schedule = t /\ s = sets
      BY <1>2, Zenon
    <2>4. r = results
      BY <1>2, <1>3, <1>6, Zenon DEF Verified
    <2>5. job' = [job EXCEPT ![w].results = r, ![w].groups = g]
      BY <1>6, <2>1, <2>3, <2>4, Zenon
    <2>6. fate' = Settle(Ids(w, D \ valid), "InvalidSignature")
      BY <1>3, <2>2, <2>3, Zenon
    <2> QED
      BY <2>5, <2>6, Zenon DEF Settle, Ids, FatesVerified
  <1>8. Moves(w, "group", k)
    <2>1. job' = [job EXCEPT ![w] = k]
      BY <1>1, <1>7, Zenon DEF WithSchedule
    <2> QED
      BY <2>1, Zenon DEF Moves, VerifyAndSchedule
  <1>9. t = Those(Positions(j), valid) /\ valid = {i \in DOMAIN j.batch : verify_signatures_sync(TxAt(w, i))}
    BY <1>2, <1>3, Zenon DEF Positions
  <1>10. Moves(w, "group", WithSchedule(j, Verified(j, valid), Regroup(t, ScheduleOf(sets))))
    BY <1>6, <1>8, Zenon
  <1> QED
    BY <1>2, <1>4, <1>5, <1>7, <1>9, <1>10, Zenon

LEMMA VerifyAndScheduleKeeps ==
    ASSUME Inv, NEW w \in Worker, VerifyAndSchedule(w)
    PROVE  Inv'
  <1> DEFINE j == job[w]
             D == DOMAIN j.batch
  <1>1. Fields(j) /\ LoopOk("verify", j, fate) /\ fate \in [DOMAIN fate -> AllFates]
    BY LoopHere DEF VerifyAndSchedule
  <1>2. PICK valid, t, sets :
            /\ valid = {i \in D : verify_signatures_sync(TxAt(w, i))}
            /\ t = Those(Positions(j), valid)
            /\ sets \in Seq(KeySets(Pubkey)) /\ Len(sets) = Len(t)
            /\ fate' = FatesVerified(j, fate, valid)
            /\ Moves(w, "group", WithSchedule(j, Verified(j, valid), Regroup(t, ScheduleOf(sets))))
    BY VerifyAndScheduleIs, Zenon
  <1>3. PICK r, g : r = Verified(j, valid) /\ g = Regroup(t, ScheduleOf(sets))
    OBVIOUS
  <1> DEFINE k == WithSchedule(j, r, g)
  <1>4. Fields(k) /\ k.batch = j.batch /\ k.results = r /\ k.groups = g
    BY <1>1, AssignSchedule
  <1>5. valid \in SUBSET D
    BY <1>2
  <1>6. k.results = Verified(j, valid) /\ k.groups = Regroup(t, ScheduleOf(sets))
    BY <1>3, <1>4, Zenon
  <1>7. LoopOk("group", k, fate') /\ Settles("verify", j, fate, "group", k, fate')
    BY <1>1, <1>2, <1>4, <1>5, <1>6, ScheduleOk
  <1>8. pc[w] = "verify" /\ UNCHANGED <<sent, channel, recorded>>
    BY Zenon DEF VerifyAndSchedule
  <1>9. Len(k.batch) <= BATCH_SIZE_LIMIT /\ "group" \in Places
    BY <1>4, LoopHere DEF Places
  <1>10. Moves(w, "group", k)
    BY <1>2, <1>3, Zenon
  <1> QED
    BY <1>7, <1>8, <1>9, <1>10, OneLoop, Zenon

-----------------------------------------------------------------------------
\* The invariant.

LEMMA InitInv ==
    ASSUME Init
    PROVE  Inv
  <1>1. /\ sent = <<>> /\ fate = <<>> /\ channel = <<>> /\ recorded = <<>>
        /\ DOMAIN fate = {}
        /\ pc = [w \in Worker |-> "head"] /\ job = [w \in Worker |-> EmptyJob]
    BY DEF Init
  <1>2. Fields(EmptyJob) /\ EmptyJob.batch = <<>> /\ EmptyJob.results = <<>>
    BY DEF Fields, EmptyJob
  <1>3. LoopOk("head", EmptyJob, fate) /\ LiveIn(EmptyJob) = {} /\ Between("head", EmptyJob) = {}
    <2>1. HeldIn(EmptyJob) = {}
      BY <1>2 DEF HeldIn
    <2>2. BatchOk("head", EmptyJob, fate)
      BY <1>2, <2>1 DEF BatchOk
    <2>3. ~InProcess("head") /\ ~HasGroup("head")
      BY DEF InProcess, HasGroup
    <2>4. GroupsOk("head", EmptyJob) /\ GroupOk("head", EmptyJob) /\ ResultsOk("head", EmptyJob, fate)
      BY <2>3 DEF GroupsOk, GroupOk, ResultsOk
    <2> QED
      BY <1>2, <2>1, <2>2, <2>4 DEF LoopOk, LiveIn, Between
  <1>4. QueueOk(Worker, job, fate, channel)
    BY <1>1, <1>3 DEF QueueOk, IsInjective
  <1>5. RecordsOk(Worker, pc, job, fate, recorded)
    BY <1>1, <1>3 DEF RecordsOk
  <1>6. PipelineOk(Worker, pc, job, fate, channel, recorded)
    BY <1>1, <1>3, <1>4, <1>5 DEF PipelineOk
  <1>7. Shape
    <2>1. sent \in Seq(Tx) /\ Len(sent) = 0 /\ fate \in [1..Len(sent) -> Fates]
      BY <1>1
    <2>2. pc \in [Worker -> Places] /\ job = [w \in Worker |-> job[w]]
      BY <1>1 DEF Places
    <2>3. \A w \in Worker : Len(job[w].batch) <= BATCH_SIZE_LIMIT
      BY <1>1, <1>2, BankingConstants
    <2> QED
      BY <2>1, <2>2, <2>3 DEF Shape
  <1> QED
    BY <1>6, <1>7 DEF Inv

LEMMA WorkerStepKeeps ==
    ASSUME Inv, NEW w \in Worker, WorkerStep(w)
    PROVE  Inv'
  <1>1. CASE \E i \in DOMAIN job[w].outcome :
                PreflightFails(w, i) \/ LoadAccount(w, i) \/ Execute(w, i) \/ ExecutePanics(w, i)
    BY <1>1, PreflightFailsKeeps, LoadAccountKeeps, ExecuteKeeps, UnwindKeeps, Zenon DEF ExecutePanics
  <1>2. CASE \E key \in DOMAIN job[w].flushing : FlushAccount(w, key)
    BY <1>2, FlushAccountKeeps, Zenon
  <1>3. CASE RecordFails(w)
    BY <1>3, UnwindKeeps, Zenon DEF RecordFails
  <1>4. CASE RecordPanics(w)
    BY <1>4, UnwindKeeps, Zenon DEF RecordPanics
  <1>5. CASE Stop(w) \/ Poll(w) \/ Receive(w) \/ ReceiveEnds(w)
    BY <1>5, StopKeeps, PollKeeps, ReceiveKeeps, ReceiveEndsKeeps, Zenon
  <1>6. CASE VerifyPanics(w) \/ Cancelled(w) \/ VerifyAndSchedule(w)
    BY <1>6, VerifyPanicsKeeps, CancelledKeeps, VerifyAndScheduleKeeps, Zenon
  <1>7. CASE NextGroup(w) \/ FinishBatch(w)
    BY <1>7, HeadOfGroupsKeeps, FinishBatchKeeps, Zenon
  <1>8. CASE WouldFit(w) \/ WouldNotFit(w) \/ AddCost(w) \/ AdmissionEnds(w)
    BY <1>8, WouldFitKeeps, WouldNotFitKeeps, AddCostKeeps, AdmissionEndsKeeps, Zenon
  <1>9. CASE LockAccounts(w) \/ AccountsInUse(w) \/ RollBackCost(w) \/ Requeue(w)
    BY <1>9, LockAccountsKeeps, AccountsInUseKeeps, RollBackCostKeeps, RequeueKeeps, Zenon
  <1>10. CASE Record(w) \/ CollectResults(w)
    BY <1>10, RecordKeeps, CollectResultsKeeps, Zenon
  <1>11. CASE BeginFlush(w) \/ ReleaseGroup(w)
    BY <1>11, BeginFlushKeeps, ReleaseGroupKeeps, Zenon
  <1> QED
    BY <1>1, <1>2, <1>3, <1>4, <1>5, <1>6, <1>7, <1>8, <1>9, <1>10, <1>11, Zenon DEF WorkerStep

LEMMA NextInv ==
    ASSUME Inv, [Next]_vars
    PROVE  Inv'
  <1>1. CASE \E tx \in Tx : SendTransaction(tx)
    BY <1>1, SendTransactionKeeps, Zenon
  <1>2. CASE \E w \in Worker : WorkerStep(w)
    BY <1>2, WorkerStepKeeps, Zenon
  <1>3. CASE Exit \/ PohStops \/ Terminated \/ UNCHANGED vars
    <2>1. UNCHANGED <<sent, fate, recorded, channel, pc, job>>
      BY <1>3 DEF Exit, PohStops, Terminated, vars
    <2> QED
      BY <2>1 DEF Inv, Shape
  <1> QED
    BY <1>1, <1>2, <1>3, Zenon DEF Next

\* In every reachable state each loop's local variables agree with its place and with
\* the fates, and the queue and the records with all of them.
THEOREM InvHolds == Spec => []Inv
  <1> QED
    BY InitInv, NextInv, PTL DEF Spec

-----------------------------------------------------------------------------
\* What process_batch promises.

\* Whatever the loops do, and however process_batch ends, a transaction without a
\* fate is in the queue or in the hands of one loop, once, and none is there twice.
THEOREM PendingOnce == Spec => []PendingExactlyOnce
  <1>1. ASSUME Inv PROVE PendingExactlyOnce
    <2> SUFFICES ASSUME NEW id \in DOMAIN fate
                 PROVE  (fate[id] = "Pending" => Copies(id) = 1) /\ Copies(id) <= 1
      BY DEF PendingExactlyOnce
    <2>1. Copies(id) = Cardinality(InQueue(channel, id))
                         + Cardinality(InBatches(Worker, BATCH_SIZE_LIMIT, job, id))
      BY Zenon DEF Copies, InQueue, InBatches, Held, HeldIn
    <2>2. \A w \in Worker : Len(job[w].batch) <= BATCH_SIZE_LIMIT
      BY <1>1 DEF Inv, Shape
    <2>3. BATCH_SIZE_LIMIT \in Nat /\ PipelineOk(Worker, pc, job, fate, channel, recorded)
      BY <1>1, BankingConstants DEF Inv
    <2> QED
      BY <2>1, <2>2, <2>3, OnePlace
  <1> QED
    BY <1>1, InvHolds, PTL

\* When process_batch returns, each of its results is what became of the transaction.
THEOREM ResultsTrue == Spec => []ResultsTellFate
  <1>1. ASSUME Inv PROVE ResultsTellFate
    <2> SUFFICES ASSUME NEW w \in Worker, pc[w] = "group", job[w].groups = <<>>,
                        NEW i \in DOMAIN job[w].results, job[w].results[i] # "AccountInUse"
                 PROVE  fate[job[w].batch[i]] = Told(job[w], i)
      BY DEF ResultsTellFate, Told
    <2>1. LoopOk("group", job[w], fate)
      BY <1>1, LoopHere
    <2>2. InProcess("group")
      BY DEF InProcess
    <2>3. job[w].results \in [DOMAIN job[w].batch -> Results]
      BY <2>1, <2>2 DEF LoopOk, ResultsOk
    <2>4. i \in HeldIn(job[w])
      BY <2>3 DEF HeldIn
    <2> QED
      BY <2>1, <2>4, AllSettled
  <1> QED
    BY <1>1, InvHolds, PTL

\* What is in the accounts was given to PoH before, and nothing was given to it twice.
THEOREM RecordedFirst == Spec => []CommittedWasRecorded
  <1>1. ASSUME Inv PROVE CommittedWasRecorded
    BY <1>1 DEF Inv, PipelineOk, RecordsOk, Recorded, CommittedWasRecorded
  <1> QED
    BY <1>1, InvHolds, PTL

-----------------------------------------------------------------------------
\* The locks.  The loops are the callers of AccountLocks, and any set of the key sets
\* of transactions is a group they may ask for.

LP == INSTANCE AccountLocksProofs WITH Caller <- Worker, Group <- SUBSET KeySets(Pubkey)

Keeps ==
    /\ UNCHANGED <<write_locks, read_locks, holding, guard, freeze_lock_count>>
    /\ InGroup' = InGroup
Takes(w) ==
    /\ LP!TryLockOk(w, GroupSets(w)) /\ freeze_lock_count' = freeze_lock_count + 1
    /\ w \notin InGroup /\ InGroup' = InGroup \cup {w}
    /\ GroupSets(w) \in SUBSET KeySets(Pubkey)
GivesBack(w) ==
    /\ LP!DropGuard(w) /\ freeze_lock_count' = freeze_lock_count - 1
    /\ w \in InGroup /\ InGroup' = InGroup \ {w}

\* Which loops are in a group after one has moved.
LEMMA GroupAfter ==
    ASSUME Inv, NEW w \in Worker, NEW p2, pc' = [pc EXCEPT ![w] = p2]
    PROVE  InGroup' = IF p2 \in {"execute", "collect", "commit"} THEN InGroup \cup {w}
                      ELSE InGroup \ {w}
  <1>1. \A v \in Worker : pc'[v] = IF v = w THEN p2 ELSE pc[v]
    BY LoopHere
  <1> QED
    BY <1>1 DEF InGroup

LEMMA GroupIsKeySets ==
    ASSUME Inv, NEW w \in Worker, pc[w] = "lock"
    PROVE  GroupSets(w) \in SUBSET KeySets(Pubkey)
  <1>1. HasGroup("lock")
    BY DEF HasGroup
  <1>2. job[w].admitted \in Seq(DOMAIN job[w].batch)
    BY <1>1, LoopHere DEF LoopOk, GroupOk
  <1>3. \A i \in Members(w) : i \in DOMAIN job[w].batch
    BY <1>2 DEF Members, ToSet
  <1> QED
    BY <1>3, BatchIsSent, SetsOfTx DEF GroupSets

\* The pipeline's call of the lock table is that of AccountLocks.
LEMMA TakesLocks ==
    ASSUME Inv, NEW w \in Worker, LockAccounts(w)
    PROVE  Takes(w)
  <1>1. InGroup' = InGroup \cup {w}
    BY GroupAfter, Zenon DEF LockAccounts
  <1>2. w \notin InGroup
    BY DEF InGroup, LockAccounts
  <1>3. LP!TryLockOk(w, GroupSets(w))
    BY DEF LockAccounts, Locks!TryLockOk, LP!TryLockOk, Locks!InUse, LP!InUse,
           Locks!write_keys_to_lock, LP!write_keys_to_lock,
           Locks!read_keys_to_lock, LP!read_keys_to_lock, Locks!CountReads, LP!CountReads
  <1>4. GroupSets(w) \in SUBSET KeySets(Pubkey)
    BY GroupIsKeySets DEF LockAccounts
  <1> QED
    BY <1>1, <1>2, <1>3, <1>4 DEF Takes, LockAccounts

LEMMA DropsLocks ==
    ASSUME NEW w \in Worker, Locks!DropGuard(w)
    PROVE  LP!DropGuard(w)
BY DEF Locks!DropGuard, LP!DropGuard, Locks!UncountReads, LP!UncountReads,
       Locks!EmptyGuard, LP!EmptyGuard

\* The ways out of a group drop the guard and the hold on the bank.
LEMMA LeavesGroup ==
    ASSUME Inv, NEW w \in Worker,
           \/ RecordFails(w) \/ RecordPanics(w) \/ ReleaseGroup(w)
           \/ \E i \in DOMAIN job[w].outcome : ExecutePanics(w, i)
    PROVE  GivesBack(w)
  <1>1. /\ Locks!DropGuard(w) /\ freeze_lock_count' = freeze_lock_count - 1
        /\ pc[w] \in {"execute", "commit"}
        /\ \E q \in {"head", "stopped", "group"} : pc' = [pc EXCEPT ![w] = q]
    BY Zenon DEF RecordFails, RecordPanics, ExecutePanics, ReleaseGroup, ExecutionEnded, Unwind
  <1>2. InGroup' = InGroup \ {w}
    BY <1>1, GroupAfter, Zenon
  <1>3. w \in InGroup
    BY <1>1 DEF InGroup
  <1> QED
    BY <1>1, <1>2, <1>3, DropsLocks, Zenon DEF GivesBack


\* Steps that do not touch the locks.
LEMMA SamePlace ==
    ASSUME UNCHANGED <<write_locks, read_locks, holding, guard, freeze_lock_count, pc>>
    PROVE  Keeps
BY DEF Keeps, InGroup

LEMMA OtherPlace ==
    ASSUME Inv, NEW w \in Worker, NEW p2, pc' = [pc EXCEPT ![w] = p2],
           UNCHANGED <<write_locks, read_locks, holding, guard, freeze_lock_count>>,
           p2 \in {"execute", "collect", "commit"} <=> w \in InGroup
    PROVE  Keeps
  <1>1. InGroup' = IF p2 \in {"execute", "collect", "commit"} THEN InGroup \cup {w}
                   ELSE InGroup \ {w}
    BY GroupAfter, Zenon
  <1> QED
    BY <1>1 DEF Keeps

\* So every step of a loop takes a guard, gives one back or leaves them alone.
LEMMA LeavesLocksAlone ==
    ASSUME Inv, NEW w \in Worker, WorkerStep(w)
    PROVE  Keeps \/ Takes(w) \/ GivesBack(w)
  <1>1. CASE \E i \in DOMAIN job[w].outcome : PreflightFails(w, i) \/ LoadAccount(w, i) \/ Execute(w, i)
    <2>1. UNCHANGED <<write_locks, read_locks, holding, guard, freeze_lock_count, pc>>
      BY <1>1, Zenon DEF PreflightFails, LoadAccount, Execute, lockVars
    <2> QED BY <2>1, SamePlace
  <1>2. CASE \E key \in DOMAIN job[w].flushing : FlushAccount(w, key)
    <2>1. UNCHANGED <<write_locks, read_locks, holding, guard, freeze_lock_count, pc>>
      BY <1>2, Zenon DEF FlushAccount, lockVars
    <2> QED BY <2>1, SamePlace
  <1>3. CASE \/ RecordFails(w) \/ RecordPanics(w) \/ ReleaseGroup(w)
             \/ \E i \in DOMAIN job[w].outcome : ExecutePanics(w, i)
    BY <1>3, LeavesGroup
  <1>4. CASE LockAccounts(w)
    BY <1>4, TakesLocks
  <1>5. CASE Receive(w) \/ WouldNotFit(w) \/ BeginFlush(w)
    <2>1. UNCHANGED <<write_locks, read_locks, holding, guard, freeze_lock_count, pc>>
      BY <1>5, Zenon DEF Receive, WouldNotFit, BeginFlush, lockVars
    <2> QED BY <2>1, SamePlace
  <1>6. CASE Stop(w) \/ Poll(w) \/ ReceiveEnds(w)
    <2>1. PICK p2 : /\ pc' = [pc EXCEPT ![w] = p2] /\ p2 \in {"stopped", "recv", "head", "verify"}
                    /\ pc[w] \in {"head", "recv"}
                    /\ UNCHANGED <<write_locks, read_locks, holding, guard, freeze_lock_count>>
      BY <1>6 DEF Stop, Poll, ReceiveEnds, lockVars
    <2>2. w \notin InGroup
      BY <2>1 DEF InGroup
    <2> QED BY <2>1, <2>2, OtherPlace, Zenon
  <1>7. CASE VerifyPanics(w) \/ Cancelled(w) \/ VerifyAndSchedule(w)
    <2>1. PICK p2 : /\ pc' = [pc EXCEPT ![w] = p2] /\ p2 \in {"stopped", "head", "group"}
                    /\ pc[w] = "verify"
                    /\ UNCHANGED <<write_locks, read_locks, holding, guard, freeze_lock_count>>
      BY <1>7, Zenon DEF VerifyPanics, Cancelled, VerifyAndSchedule, lockVars
    <2>2. w \notin InGroup
      BY <2>1 DEF InGroup
    <2> QED BY <2>1, <2>2, OtherPlace, Zenon
  <1>8. CASE NextGroup(w) \/ FinishBatch(w)
    <2>1. PICK p2 : /\ pc' = [pc EXCEPT ![w] = p2] /\ p2 \in {"admit", "head"}
                    /\ pc[w] = "group"
                    /\ UNCHANGED <<write_locks, read_locks, holding, guard, freeze_lock_count>>
      BY <1>8, Zenon DEF NextGroup, FinishBatch, lockVars
    <2>2. w \notin InGroup
      BY <2>1 DEF InGroup
    <2> QED BY <2>1, <2>2, OtherPlace, Zenon
  <1>9. CASE WouldFit(w) \/ AddCost(w) \/ AdmissionEnds(w)
    <2>1. PICK p2 : /\ pc' = [pc EXCEPT ![w] = p2] /\ p2 \in {"add", "admit", "group", "lock"}
                    /\ pc[w] \in {"admit", "add"}
                    /\ UNCHANGED <<write_locks, read_locks, holding, guard, freeze_lock_count>>
      BY <1>9, Zenon DEF WouldFit, AddCost, AdmissionEnds, lockVars
    <2>2. w \notin InGroup
      BY <2>1 DEF InGroup
    <2> QED BY <2>1, <2>2, OtherPlace, Zenon
  <1>10. CASE AccountsInUse(w) \/ RollBackCost(w) \/ Requeue(w)
    <2>1. PICK p2 : /\ pc' = [pc EXCEPT ![w] = p2] /\ p2 \in {"group", "refused", "requeue"}
                    /\ pc[w] \in {"lock", "refused", "requeue"}
                    /\ UNCHANGED <<write_locks, read_locks, holding, guard, freeze_lock_count>>
      BY <1>10, Zenon DEF AccountsInUse, RollBackCost, Requeue, Locks!TryLockErr, Locks!vars,
                          lockVars
    <2>2. w \notin InGroup
      BY <2>1 DEF InGroup
    <2> QED BY <2>1, <2>2, OtherPlace, Zenon
  <1>11. CASE Record(w) \/ CollectResults(w)
    <2>1. PICK p2 : /\ pc' = [pc EXCEPT ![w] = p2] /\ p2 \in {"collect", "commit"}
                    /\ pc[w] \in {"execute", "collect"}
                    /\ UNCHANGED <<write_locks, read_locks, holding, guard, freeze_lock_count>>
      BY <1>11, Zenon DEF Record, ExecutionEnded, CollectResults, lockVars
    <2>2. w \in InGroup
      BY <2>1 DEF InGroup
    <2> QED BY <2>1, <2>2, OtherPlace, Zenon
  <1> QED
    BY <1>1, <1>2, <1>3, <1>4, <1>5, <1>6, <1>7, <1>8, <1>9, <1>10, <1>11, Zenon DEF WorkerStep


LEMMA StepAndLocks ==
    ASSUME Inv, [Next]_vars
    PROVE  Keeps \/ \E w \in Worker : Takes(w) \/ GivesBack(w)
  <1>1. CASE \E w \in Worker : WorkerStep(w)
    BY <1>1, LeavesLocksAlone, Zenon
  <1>2. CASE (\E tx \in Tx : SendTransaction(tx)) \/ Exit \/ PohStops \/ Terminated \/ UNCHANGED vars
    <2>1. UNCHANGED <<write_locks, read_locks, holding, guard, freeze_lock_count, pc>>
      BY <1>2, Zenon DEF SendTransaction, Exit, PohStops, Terminated, vars, lockVars
    <2> QED
      BY <2>1, SamePlace
  <1> QED
    BY <1>1, <1>2, Zenon DEF Next

\* The assumptions of AccountLocks, of these callers and groups.
LEMMA LockAssumptions ==
    /\ IsFiniteSet(Worker)
    /\ SUBSET KeySets(Pubkey) \subseteq SUBSET LP!TxSets
BY BankingConstants DEF KeySets, LP!TxSets

\* The pipeline's own part of it: who holds a guard is who is in a group.
Guards == holding = InGroup /\ freeze_lock_count = Cardinality(InGroup)

\* The loops in a group can be counted.
LEMMA InGroupFinite ==
    /\ IsFiniteSet(InGroup) /\ Cardinality(InGroup) \in Nat
    /\ \A w \in Worker \ InGroup : Cardinality(InGroup \cup {w}) = Cardinality(InGroup) + 1
    /\ \A w \in InGroup : Cardinality(InGroup \ {w}) = Cardinality(InGroup) - 1
  <1>1. InGroup \subseteq Worker /\ IsFiniteSet(Worker)
    BY BankingConstants DEF InGroup
  <1>2. IsFiniteSet(InGroup) /\ Cardinality(InGroup) \in Nat
    BY <1>1, FS_Subset, FS_CardinalityType
  <1> QED
    BY <1>2, FS_AddElement, FS_RemoveElement

\* A loop holds a guard, and the bank, exactly while it is in a group.
LEMMA GuardsStep ==
    ASSUME Guards, Inv, [Next]_vars
    PROVE  Guards'
  <1>1. CASE Keeps
    BY <1>1 DEF Keeps, Guards
  <1>2. ASSUME NEW w \in Worker, Takes(w) PROVE Guards'
    <2>1. holding' = holding \cup {w} /\ freeze_lock_count' = freeze_lock_count + 1
          /\ w \notin InGroup /\ InGroup' = InGroup \cup {w}
      BY <1>2, Zenon DEF Takes, LP!TryLockOk
    <2> QED
      BY <2>1, InGroupFinite DEF Guards
  <1>3. ASSUME NEW w \in Worker, GivesBack(w) PROVE Guards'
    <2>1. holding' = holding \ {w} /\ freeze_lock_count' = freeze_lock_count - 1
          /\ w \in InGroup /\ InGroup' = InGroup \ {w}
      BY <1>3, Zenon DEF GivesBack, LP!DropGuard
    <2> QED
      BY <2>1, InGroupFinite DEF Guards
  <1> QED
    BY <1>1, <1>2, <1>3, StepAndLocks, Zenon


\* At the start nothing is locked.
LEMMA LockInit == Init => LP!Init /\ Guards
  <1> SUFFICES ASSUME Init PROVE LP!Init /\ Guards
    OBVIOUS
  <1>1. LP!Init
    BY DEF Init, Locks!Init, LP!Init, Locks!EmptyGuard, LP!EmptyGuard
  <1>2. InGroup = {}
    BY DEF Init, InGroup
  <1>3. holding = {} /\ freeze_lock_count = 0
    BY DEF Init, Locks!Init
  <1> QED
    BY <1>1, <1>2, <1>3, FS_EmptySet DEF Guards

\* Every step of the pipeline is a step of AccountLocks, or none.
LEMMA LockStep ==
    ASSUME Inv, [Next]_vars
    PROVE  [LP!Next]_(LP!vars)
  <1>1. CASE Keeps
    BY <1>1 DEF Keeps, LP!vars
  <1>2. ASSUME NEW w \in Worker, Takes(w) PROVE LP!Next
    BY <1>2, Zenon DEF Takes, LP!Next
  <1>3. ASSUME NEW w \in Worker, GivesBack(w) PROVE LP!Next
    BY <1>3, Zenon DEF GivesBack, LP!Next
  <1> QED
    BY <1>1, <1>2, <1>3, StepAndLocks, Zenon


\* The pipeline implements AccountLocks: its loops touch the table and the guards only
\* by calls of try_lock_accounts_for_group and by dropping what a call gave them.
THEOREM UsesLocks == Spec => LP!Spec
  <1> QED
    BY LockInit, LockStep, InvHolds, PTL DEF Spec, LP!Spec

\* What AccountLocks proves of its callers therefore holds of the loops.
LEMMA LockTable == Spec => []LP!Inv
  <1>1. LP!IsFiniteSet(Worker)
    BY LockAssumptions DEF IsFiniteSet, LP!IsFiniteSet
  <1>2. SUBSET KeySets(Pubkey) \subseteq SUBSET LP!TxSets
    BY LockAssumptions
  <1>3. LP!Spec => []LP!Inv
    BY <1>1, <1>2, LP!InvHolds, PTL
  <1> QED
    BY <1>3, UsesLocks, PTL

\* Two loops are never in a group with an account one of them writes.
THEOREM LoopsExclude == Spec => []LP!Exclusion
  <1>1. LP!Inv => LP!Exclusion
    BY DEF LP!Inv
  <1> QED
    BY <1>1, LockTable, PTL

\* Guards holds in every reachable state.
LEMMA GuardsHold == Spec => []Guards
  <1> QED
    BY LockInit, GuardsStep, InvHolds, PTL DEF Spec

\* Every way out of a group gives back its locks and its hold on the bank, and when no
\* loop is in a group the table is empty.
THEOREM GuardsReturned == Spec => []GuardsOnlyInGroup
  <1>1. ASSUME Guards, LP!Inv PROVE GuardsOnlyInGroup
    <2>1. ASSUME InGroup = {} PROVE write_locks = {} /\ DOMAIN read_locks = {}
      <3>1. \A w \in Worker : guard[w] = LP!EmptyGuard
        BY <1>1, <2>1 DEF Guards, LP!Inv, LP!TableMatchesGuards
      <3>2. \A w \in Worker : guard[w].write_locks = {} /\ guard[w].read_locks = {}
        BY <3>1 DEF LP!EmptyGuard
      <3>3. /\ write_locks = UNION {guard[w].write_locks : w \in Worker}
            /\ DOMAIN read_locks = UNION {guard[w].read_locks : w \in Worker}
        BY <1>1 DEF LP!Inv, LP!TableMatchesGuards
      <3> QED
        BY <3>2, <3>3
    <2> QED
      BY <1>1, <2>1 DEF Guards, GuardsOnlyInGroup
  <1> QED
    BY <1>1, GuardsHold, LockTable, PTL

-----------------------------------------------------------------------------
\* The cost tracker of a pipeline with one loop.

\* A u64 counter does not wrap while what is added fits, or what is taken off is there.
LEMMA WrapAdd ==
    ASSUME NEW a \in Nat, NEW b \in Nat, a + b <= U64_MAX
    PROVE  wrapping_add(a, b) = a + b
  BY U64Assumption DEF wrapping_add

LEMMA WrapSub ==
    ASSUME NEW a \in 0..U64_MAX, NEW b \in 0..a
    PROVE  wrapping_sub(a, b) = a - b
  <1>1. PICK q, m : q = a - b /\ m = U64_MAX + 1
    OBVIOUS
  <1>2. q \in Nat /\ m \in Nat /\ q < m /\ m > 0 /\ a + U64_MAX + 1 - b = q + m
    BY <1>1, U64Assumption
  <1>3. (q + m) % m = q
    BY <1>2
  <1> QED
    BY <1>1, <1>2, <1>3 DEF wrapping_sub

\* Of the positions C, those whose cost is charged to an account; v[i] is the cost of
\* position i and W[i] what it writes.
Payers(W, C, key) == {i \in C : key \in W[i]}

\* One sum of charges, when a payer leaves.
LEMMA PayerLeaves ==
    ASSUME NEW P, IsFiniteSet(P), NEW v, \A m \in P : v[m] \in Nat, NEW i \in P,
           NEW s, s = SumFunctionOnSet(v, P), NEW limit \in Nat,
           s <= limit \/ \E m \in P : s = v[m],
           NEW r, r = SumFunctionOnSet(v, P \ {i})
    PROVE  /\ s \in Nat /\ r \in Nat /\ v[i] <= s /\ r = s - v[i]
           /\ r <= limit \/ \E m \in P \ {i} : r = v[m]
  <1>1. IsFiniteSet(P \ {i})
    BY FS_RemoveElement
  <1>2. s \in Nat /\ r \in Nat /\ s = v[i] + r /\ v[i] \in Nat
    BY <1>1, SumSplits, SumNat
  <1>3. CASE s <= limit
    BY <1>2, <1>3
  <1>4. CASE \E m \in P : s = v[m]
    <2>1. PICK m \in P : s = v[m]
      BY <1>4
    <2>2. CASE m = i
      BY <1>2, <2>1, <2>2
    <2>3. CASE m # i
      <3>1. v[m] <= r /\ v[m] \in Nat
        BY <1>1, <1>2, <2>3, SumBounds
      <3>2. r = v[m] /\ m \in P \ {i}
        BY <1>2, <2>1, <2>3, <3>1
      <3> QED
        BY <1>2, <3>2
    <2> QED
      BY <2>2, <2>3
  <1> QED
    BY <1>2, <1>3, <1>4

\* ... and when one joins.
LEMMA PayerJoins ==
    ASSUME NEW P, IsFiniteSet(P), NEW v, \A m \in P : v[m] \in Nat, NEW i, i \notin P, v[i] \in Nat
    PROVE  /\ SumFunctionOnSet(v, P) \in Nat
           /\ SumFunctionOnSet(v, P \cup {i}) = SumFunctionOnSet(v, P) + v[i]
  <1>1. PICK Q : Q = P \cup {i}
    OBVIOUS
  <1>2. IsFiniteSet(Q) /\ i \in Q /\ Q \ {i} = P /\ \A m \in Q : v[m] \in Nat
    BY <1>1, FS_AddElement
  <1>3. SumFunctionOnSet(v, Q) = v[i] + SumFunctionOnSet(v, P) /\ SumFunctionOnSet(v, P) \in Nat
    BY <1>2, SumSplits, SumNat
  <1> QED
    BY <1>1, <1>3

\* The tracker holds the costs of the positions C, of the block and of every account, and
\* is within its limits, but for an account with one payer.
EntriesOk(by, v, W, C) ==
    /\ by = [key \in DOMAIN by |-> by[key]]
    /\ \A i \in C : W[i] \subseteq DOMAIN by
    /\ \A key \in DOMAIN by :
          /\ by[key] = SumFunctionOnSet(v, Payers(W, C, key))
          /\ by[key] <= account_cost_limit \/ \E i \in Payers(W, C, key) : by[key] = v[i]
Charged(t, v, W, C) ==
    /\ IsFiniteSet(C) /\ \A i \in C : v[i] \in 0..U64_MAX
    /\ t.block_cost = SumFunctionOnSet(v, C) /\ t.block_cost <= block_cost_limit
    /\ EntriesOk(t.cost_by_writable_accounts, v, W, C)

\* What that says of one number.
LEMMA ChargedBounds ==
    ASSUME NEW t, NEW v, NEW W, NEW C, Charged(t, v, W, C)
    PROVE  /\ t.block_cost \in 0..U64_MAX
           /\ \A key : IsFiniteSet(Payers(W, C, key))
           /\ \A key \in DOMAIN t.cost_by_writable_accounts :
                 t.cost_by_writable_accounts[key] \in 0..U64_MAX
  <1>1. IsFiniteSet(C) /\ \A i \in C : v[i] \in Nat /\ v[i] \in 0..U64_MAX
    BY U64Assumption DEF Charged
  <1>2. ASSUME NEW key PROVE IsFiniteSet(Payers(W, C, key))
    <2>1. PICK P : P = Payers(W, C, key)
      OBVIOUS
    <2>2. P \subseteq C
      BY <2>1 DEF Payers
    <2> QED
      BY <1>1, <2>1, <2>2, FS_Subset
  <1>3. t.block_cost \in Nat
    BY <1>1, SumNat DEF Charged
  <1>4. block_cost_limit \in Nat /\ block_cost_limit < U64_MAX /\ account_cost_limit \in Nat
        /\ account_cost_limit < U64_MAX
    BY CostConstants
  <1>5. ASSUME NEW key \in DOMAIN t.cost_by_writable_accounts
        PROVE  t.cost_by_writable_accounts[key] \in 0..U64_MAX
    <2>1. PICK P, s : P = Payers(W, C, key) /\ s = t.cost_by_writable_accounts[key]
      OBVIOUS
    <2>2. s = SumFunctionOnSet(v, P) /\ (s <= account_cost_limit \/ \E i \in P : s = v[i])
      BY <2>1 DEF Charged, EntriesOk
    <2>3. P \subseteq C
      BY <2>1 DEF Payers
    <2>4. s \in Nat
      BY <1>1, <1>2, <2>1, <2>2, <2>3, SumNat
    <2> QED
      BY <1>1, <1>4, <2>1, <2>2, <2>3, <2>4, U64Assumption
  <1> QED
    BY <1>2, <1>3, <1>4, <1>5, U64Assumption DEF Charged

\* A transaction that fits is charged.
LEMMA AddCharges ==
    ASSUME NEW t, NEW v, NEW W, NEW C, Charged(t, v, W, C), NEW i, i \notin C,
           v[i] \in 0..U64_MAX,
           NEW cost, cost.sum = v[i], cost.writable_accounts = W[i], would_fit(t, cost),
           NEW u, u = add_cost(t, cost), NEW T, T = C \cup {i}
    PROVE  Charged(u, v, W, T)
  <1>1. PICK by, new : by = t.cost_by_writable_accounts /\ new = u.cost_by_writable_accounts
    OBVIOUS
  <1>2. /\ u.block_cost = wrapping_add(t.block_cost, v[i])
        /\ new = [key \in DOMAIN by \cup W[i] |->
                     LET old == IF key \in DOMAIN by THEN by[key] ELSE 0
                     IN  IF key \in W[i] THEN wrapping_add(old, v[i]) ELSE old]
    BY <1>1 DEF add_cost
  <1>3. /\ block_cost_limit \in Nat /\ block_cost_limit < U64_MAX /\ account_cost_limit \in Nat
        /\ account_cost_limit < U64_MAX /\ U64_MAX \in Nat
    BY CostConstants, U64Assumption
  <1>4. /\ IsFiniteSet(C) /\ \A m \in C : v[m] \in 0..U64_MAX /\ v[m] \in Nat
        /\ v[i] \in Nat
    BY <1>3 DEF Charged
  <1>5. IsFiniteSet(T) /\ \A m \in T : v[m] \in 0..U64_MAX
    BY <1>4, FS_AddElement
  <1>6. u.block_cost = SumFunctionOnSet(v, T) /\ u.block_cost <= block_cost_limit
    <2>1. PICK s : s = t.block_cost
      OBVIOUS
    <2>2. s \in Nat /\ s = SumFunctionOnSet(v, C) /\ SumFunctionOnSet(v, T) = s + v[i]
      BY <1>4, <2>1, PayerJoins DEF Charged
    <2>3. saturating_add(s, v[i]) <= block_cost_limit
      BY <2>1 DEF would_fit
    <2>4. s + v[i] <= block_cost_limit
      BY <1>3, <1>4, <2>2, <2>3 DEF saturating_add
    <2>5. wrapping_add(s, v[i]) = s + v[i]
      BY <1>3, <1>4, <2>2, <2>4, WrapAdd
    <2> QED
      BY <1>2, <2>1, <2>2, <2>4, <2>5
  <1>7. EntriesOk(by, v, W, C)
    BY <1>1 DEF Charged
  <1>8. DOMAIN new = DOMAIN by \cup W[i] /\ new = [key \in DOMAIN new |-> new[key]]
    BY <1>2, Zenon
  <1>9. \A m \in T : W[m] \subseteq DOMAIN new
    BY <1>7, <1>8 DEF EntriesOk
  <1>10. ASSUME NEW key \in DOMAIN new
         PROVE  /\ new[key] = SumFunctionOnSet(v, Payers(W, T, key))
                /\ new[key] <= account_cost_limit \/ \E m \in Payers(W, T, key) : new[key] = v[m]
    <2>1. PICK P, Q, old : /\ P = Payers(W, C, key) /\ Q = Payers(W, T, key)
                           /\ old = IF key \in DOMAIN by THEN by[key] ELSE 0
      OBVIOUS
    <2>2. new[key] = IF key \in W[i] THEN wrapping_add(old, v[i]) ELSE old
      BY <1>2, <1>8, <2>1
    <2>3. IsFiniteSet(P) /\ i \notin P /\ P \subseteq C /\ \A m \in P : v[m] \in Nat
      <3>1. IsFiniteSet(P)
        BY <2>1, ChargedBounds
      <3> QED
        BY <1>4, <2>1, <3>1 DEF Payers
    <2>4. /\ old = SumFunctionOnSet(v, P)
          /\ old <= account_cost_limit \/ \E m \in P : old = v[m]
      <3>1. CASE key \in DOMAIN by
        BY <1>7, <2>1, <3>1 DEF EntriesOk
      <3>2. CASE key \notin DOMAIN by
        <4>1. P = {}
          BY <1>7, <2>1, <3>2 DEF Payers, EntriesOk
        <4> QED
          BY <1>3, <2>1, <3>2, <4>1, SumEmpty
      <3> QED
        BY <3>1, <3>2
    <2>5. CASE key \notin W[i]
      <3>1. Q = P
        BY <2>1, <2>5 DEF Payers
      <3> QED
        BY <2>1, <2>2, <2>4, <2>5, <3>1
    <2>6. CASE key \in W[i]
      <3>1. Q = P \cup {i}
        BY <2>1, <2>6 DEF Payers
      <3>2. old \in Nat /\ SumFunctionOnSet(v, Q) = old + v[i]
        BY <1>4, <2>3, <2>4, <3>1, PayerJoins
      <3>3. CASE key \in DOMAIN by
        <4>1. saturating_add(old, v[i]) <= account_cost_limit
          BY <1>1, <2>1, <2>6, <3>3 DEF would_fit
        <4>2. old + v[i] <= account_cost_limit
          BY <1>3, <1>4, <3>2, <4>1 DEF saturating_add
        <4>3. wrapping_add(old, v[i]) = old + v[i]
          BY <1>3, <1>4, <3>2, <4>2, WrapAdd
        <4> QED
          BY <2>1, <2>2, <2>6, <3>2, <4>2, <4>3
      <3>4. CASE key \notin DOMAIN by
        <4>1. old = 0 /\ i \in Q
          BY <2>1, <3>1, <3>4
        <4>2. wrapping_add(old, v[i]) = old + v[i]
          BY <1>4, <3>2, <4>1, WrapAdd
        <4>3. new[key] = v[i]
          BY <1>4, <2>2, <2>6, <4>1, <4>2
        <4> QED
          BY <1>4, <2>1, <3>2, <4>1, <4>3
      <3> QED
        BY <3>3, <3>4
    <2> QED
      BY <2>5, <2>6
  <1>11. EntriesOk(new, v, W, T)
    BY <1>8, <1>9, <1>10 DEF EntriesOk
  <1> QED
    BY <1>1, <1>5, <1>6, <1>11 DEF Charged

\* A transaction whose cost is taken back is not charged any more.
LEMMA SubtractCharges ==
    ASSUME NEW t, NEW v, NEW W, NEW C, Charged(t, v, W, C), NEW i \in C,
           NEW cost, cost.sum = v[i], cost.writable_accounts = W[i],
           NEW u, u = subtract_cost(t, cost), NEW T, T = C \ {i}
    PROVE  Charged(u, v, W, T)
  <1>1. PICK by, new : by = t.cost_by_writable_accounts /\ new = u.cost_by_writable_accounts
    OBVIOUS
  <1>2. /\ u.block_cost = wrapping_sub(t.block_cost, v[i])
        /\ new = [key \in DOMAIN by |->
                     IF key \in W[i] THEN wrapping_sub(by[key], v[i]) ELSE by[key]]
    BY <1>1 DEF subtract_cost
  <1>3. /\ block_cost_limit \in Nat /\ account_cost_limit \in Nat /\ U64_MAX \in Nat
    BY CostConstants, U64Assumption
  <1>4. IsFiniteSet(C) /\ \A m \in C : v[m] \in 0..U64_MAX /\ v[m] \in Nat
    BY <1>3 DEF Charged
  <1>5. IsFiniteSet(T) /\ \A m \in T : v[m] \in 0..U64_MAX
    BY <1>4, FS_RemoveElement
  <1>6. u.block_cost = SumFunctionOnSet(v, T) /\ u.block_cost <= block_cost_limit
    <2>1. PICK s, r : s = t.block_cost /\ r = SumFunctionOnSet(v, T)
      OBVIOUS
    <2>2. s = SumFunctionOnSet(v, C) /\ s <= block_cost_limit /\ s \in 0..U64_MAX
      BY <2>1, ChargedBounds DEF Charged
    <2>3. r \in Nat /\ v[i] <= s /\ r = s - v[i] /\ v[i] \in Nat
      BY <1>3, <1>4, <2>1, <2>2, PayerLeaves
    <2>4. wrapping_sub(s, v[i]) = r
      BY <2>2, <2>3, WrapSub
    <2> QED
      BY <1>2, <1>3, <2>1, <2>2, <2>3, <2>4
  <1>7. EntriesOk(by, v, W, C)
    BY <1>1 DEF Charged
  <1>8. DOMAIN new = DOMAIN by /\ new = [key \in DOMAIN new |-> new[key]]
    BY <1>2, Zenon
  <1>9. \A m \in T : W[m] \subseteq DOMAIN new
    BY <1>7, <1>8 DEF EntriesOk
  <1>10. ASSUME NEW key \in DOMAIN new
         PROVE  /\ new[key] = SumFunctionOnSet(v, Payers(W, T, key))
                /\ new[key] <= account_cost_limit \/ \E m \in Payers(W, T, key) : new[key] = v[m]
    <2>1. PICK P, Q, old : P = Payers(W, C, key) /\ Q = Payers(W, T, key) /\ old = by[key]
      OBVIOUS
    <2>2. new[key] = IF key \in W[i] THEN wrapping_sub(old, v[i]) ELSE old
      BY <1>2, <1>8, <2>1
    <2>3. IsFiniteSet(P) /\ P \subseteq C /\ \A m \in P : v[m] \in Nat
      <3>1. IsFiniteSet(P)
        BY <2>1, ChargedBounds
      <3> QED
        BY <1>4, <2>1, <3>1 DEF Payers
    <2>4. /\ old = SumFunctionOnSet(v, P) /\ old \in 0..U64_MAX
          /\ old <= account_cost_limit \/ \E m \in P : old = v[m]
      BY <1>1, <1>7, <1>8, <2>1, ChargedBounds DEF EntriesOk
    <2>5. CASE key \notin W[i]
      <3>1. Q = P
        BY <2>1, <2>5 DEF Payers
      <3> QED
        BY <2>1, <2>2, <2>4, <2>5, <3>1
    <2>6. CASE key \in W[i]
      <3>1. Q = P \ {i} /\ i \in P
        BY <2>1, <2>6 DEF Payers
      <3>2. PICK r : r = SumFunctionOnSet(v, Q)
        OBVIOUS
      <3>3. /\ r \in Nat /\ v[i] <= old /\ r = old - v[i]
            /\ r <= account_cost_limit \/ \E m \in Q : r = v[m]
        BY <1>3, <2>3, <2>4, <3>1, <3>2, PayerLeaves
      <3>4. wrapping_sub(old, v[i]) = r
        BY <2>3, <2>4, <3>1, <3>3, WrapSub
      <3> QED
        BY <2>1, <2>2, <2>6, <3>2, <3>3, <3>4
    <2> QED
      BY <2>5, <2>6
  <1>11. EntriesOk(new, v, W, T)
    BY <1>8, <1>9, <1>10 DEF EntriesOk
  <1> QED
    BY <1>1, <1>5, <1>6, <1>11 DEF Charged

\* What one instruction adds to the cost of a transaction, ...
CostStep(n, ix) == n + ix.data_len * INSTRUCTION_DATA_BYTES_COST + ProgramCost(ix)
CostOfInstructions(tx) ==
    FoldLeft(LAMBDA n, ix : n + ix.data_len * INSTRUCTION_DATA_BYTES_COST
                              + ProgramCost(ix), 0, tx.instructions)

\* ... and st[k] what the first k of them do.
CostStepByStep(st, tx) ==
    /\ st[0] = 0
    /\ \A k \in 1..Len(tx.instructions) : st[k] = CostStep(st[k - 1], tx.instructions[k])
    /\ CostOfInstructions(tx) = st[Len(tx.instructions)]

\* The cost is a fold: there is a value after every instruction.
LEMMA CostSteps ==
    ASSUME NEW tx, HasInstructions(tx)
    PROVE  \E st : CostStepByStep(st, tx)
  <1> DEFINE n == Len(tx.instructions)
             base == 0
             Turn(a, s) == IF s = {} THEN base
                           ELSE CostStep(a[s \ {Max(s)}], tx.instructions[Max(s)])
             Is(a, k) == a = [s \in SUBSET (1..k) |-> Turn(a, s)]
             E(k) == \E a : Is(a, k)
             Z == {k \in 1..n : E(k)}
  <1>1. n \in Nat /\ DOMAIN tx.instructions = 1..n
    BY DEF HasInstructions
  <1>2. CostOfInstructions(tx) = (CHOOSE a : Is(a, n))[1..n]
    <2>1. CostOfInstructions(tx) =
            (CHOOSE a : a = [s \in SUBSET (DOMAIN tx.instructions) |-> Turn(a, s)])[DOMAIN tx.instructions]
      BY Zenon DEF CostOfInstructions, FoldLeft, MapThenFoldSet, CostStep
    <2> HIDE DEF Turn
    <2> QED
      BY <1>1, <2>1
  <1>3. E(0)
    <2> DEFINE a == [s \in SUBSET (1..0) |-> base]
    <2>1. \A s \in SUBSET (1..0) : s = {}
      OBVIOUS
    <2>2. a = [s \in SUBSET (1..0) |-> Turn(a, s)]
      BY <2>1, Zenon
    <2> QED
      BY <2>2, Zenon
  <1>4. ASSUME NEW k \in 1..n, E(k - 1) PROVE E(k)
    <2>1. PICK a : a = [s \in SUBSET (1..(k - 1)) |-> Turn(a, s)]
      BY <1>4, Zenon
    <2> DEFINE b == [s \in SUBSET (1..k) |-> Turn(a, s)]
    <2>2. ASSUME NEW s \in SUBSET (1..k)
          PROVE  s # {} => s \ {Max(s)} \in SUBSET (1..(k - 1))
      <3>1. k \in Nat
        BY <1>1
      <3>2. s # {} => Max(s) \in s /\ \A y \in s : y <= Max(s)
        BY <3>1, MaxOfPositions
      <3> SUFFICES ASSUME s # {} PROVE s \ {Max(s)} \in SUBSET (1..(k - 1))
        OBVIOUS
      <3>3. PICK m : m = Max(s)
        OBVIOUS
      <3>4. m \in 1..k /\ \A y \in s : y \in 1..k /\ y <= m
        BY <3>2, <3>3
      <3>5. \A y \in s \ {m} : y \in 1..(k - 1)
        BY <1>1, <3>4
      <3> QED
        BY <3>3, <3>5
    <2>3. \A s \in SUBSET (1..(k - 1)) : s \in SUBSET (1..k)
      BY <1>1
    <2>4. \A s \in SUBSET (1..(k - 1)) : b[s] = a[s]
      BY <2>1, <2>3, Zenon
    <2>5. ASSUME NEW s \in SUBSET (1..k) PROVE Turn(a, s) = Turn(b, s)
      <3>1. CASE s = {}
        BY <3>1
      <3>2. CASE s # {}
        <4>1. b[s \ {Max(s)}] = a[s \ {Max(s)}]
          BY <2>2, <2>4, <3>2, Zenon
        <4> QED
          BY <4>1, Zenon
      <3> QED
        BY <3>1, <3>2
    <2>6. b = [s \in SUBSET (1..k) |-> Turn(b, s)]
      <3>1. PICK c : c = b
        OBVIOUS
      <3>2. \A s \in SUBSET (1..k) : Turn(a, s) = Turn(c, s)
        BY <2>5, <3>1, Zenon
      <3>3. c = [s \in SUBSET (1..k) |-> Turn(a, s)]
        BY <3>1, Zenon
      <3> HIDE DEF Turn, b
      <3>4. c = [s \in SUBSET (1..k) |-> Turn(c, s)]
        BY <3>2, <3>3, Zenon
      <3> QED
        BY <3>1, <3>4, Zenon
    <2> HIDE DEF b, Turn
    <2> QED
      BY <2>6, Zenon
  <1> HIDE DEF E
  <1>5. ASSUME NEW k \in 1..n, \A m \in 1..n : m < k => m \in Z
        PROVE  k \in Z
    <2>1. E(k - 1)
      <3>1. CASE k = 1
        BY <1>3, <3>1
      <3>2. CASE k # 1
        <4>1. k - 1 \in 1..n /\ k - 1 < k
          BY <1>1, <3>2
        <4> QED
          BY <1>5, <4>1
      <3> QED
        BY <3>1, <3>2
    <2> QED
      BY <1>4, <2>1
  <1>6. Z = 1..n
    <2>1. Z \in SUBSET (1..n)
      OBVIOUS
    <2> HIDE DEF Z, n
    <2> QED
      BY <1>1, <1>5, <2>1, StrongInduction
  <1>7. E(n)
    <2>1. CASE n = 0
      BY <1>3, <2>1
    <2>2. CASE n # 0
      <3>1. n \in Z
        BY <1>1, <1>6, <2>2
      <3> QED
        BY <3>1
    <2> QED
      BY <2>1, <2>2
  <1>8. PICK a : Is(a, n) /\ CostOfInstructions(tx) = a[1..n]
    <2>1. PICK a : a = CHOOSE b : Is(b, n)
      OBVIOUS
    <2>2. \E b : Is(b, n)
      BY <1>7, Zenon DEF E
    <2> HIDE DEF Is
    <2>3. Is(a, n)
      BY <2>1, <2>2, Zenon
    <2> QED
      BY <1>2, <2>1, <2>3, Zenon
  <1>9. a[1..0] = base
    <2>1. 1..0 = {}
      OBVIOUS
    <2>2. a[{}] = base
      BY <1>8, Zenon
    <2> QED
      BY <2>1, <2>2
  <1>10. ASSUME NEW k \in 1..n PROVE a[1..k] = CostStep(a[1..(k - 1)], tx.instructions[k])
    <2>1. /\ 1..k \in SUBSET (1..n) /\ 1..k # {}
          /\ Max(1..k) = k
          /\ (1..k) \ {k} = 1..(k - 1)
      BY <1>1, MaxOfPrefix
    <2>2. a[1..k] = Turn(a, 1..k)
      BY <1>8, <2>1, Zenon
    <2> QED
      BY <2>1, <2>2, Zenon
  <1> DEFINE st == [k \in 0..n |-> a[1..k]]
  <1>11. st[0] = base /\ st[n] = CostOfInstructions(tx)
    <2>1. st[0] = a[1..0] /\ st[n] = a[1..n]
      BY <1>1
    <2> HIDE DEF st
    <2> QED
      BY <1>8, <1>9, <2>1
  <1>12. ASSUME NEW k \in 1..n PROVE st[k] = CostStep(st[k - 1], tx.instructions[k])
    <2>1. st[k] = a[1..k] /\ st[k - 1] = a[1..(k - 1)]
      BY <1>1
    <2> HIDE DEF st
    <2> QED
      BY <1>10, <2>1
  <1> HIDE DEF st
  <1> QED
    BY <1>11, <1>12, Zenon DEF CostStepByStep

\* A cost is a u64.
LEMMA CostIsU64 ==
    ASSUME NEW tx, HasCost(tx)
    PROVE  /\ calculate_cost(tx).sum \in 0..U64_MAX
           /\ calculate_cost(tx).writable_accounts = extract_sets(tx).write_set
  <1>1. PICK st : CostStepByStep(st, tx)
    BY CostSteps DEF HasCost
  <1>2. PICK n : n = Len(tx.instructions)
    OBVIOUS
  <1> DEFINE P(k) == st[k] \in Nat
             Z == {k \in 1..n : P(k)}
  <1>3. n \in Nat /\ P(0)
    BY <1>1, <1>2 DEF CostStepByStep, HasCost, HasInstructions
  <1>4. ASSUME NEW k \in 1..n, P(k - 1) PROVE P(k)
    <2>1. PICK ix, x : ix = tx.instructions[k] /\ x = st[k - 1]
      OBVIOUS
    <2>2. ix.data_len \in Nat /\ x \in Nat /\ st[k] = CostStep(x, ix)
      BY <1>1, <1>2, <1>4, <2>1 DEF HasCost, CostStepByStep
    <2>3. INSTRUCTION_DATA_BYTES_COST \in Nat /\ ProgramCost(ix) \in Nat
      BY CostConstants DEF ProgramCost
    <2>4. ix.data_len * INSTRUCTION_DATA_BYTES_COST \in Nat
      BY <2>2, <2>3
    <2> QED
      BY <2>2, <2>3, <2>4 DEF CostStep
  <1> HIDE DEF P
  <1>5. ASSUME NEW k \in 1..n, \A m \in 1..n : m < k => m \in Z
        PROVE  k \in Z
    <2>1. P(k - 1)
      <3>1. CASE k = 1
        BY <1>3, <3>1
      <3>2. CASE k # 1
        <4>1. k - 1 \in 1..n /\ k - 1 < k
          BY <1>3, <3>2
        <4> QED
          BY <1>5, <4>1
      <3> QED
        BY <3>1, <3>2
    <2> QED
      BY <1>4, <2>1
  <1>6. Z = 1..n
    <2>1. Z \in SUBSET (1..n)
      OBVIOUS
    <2> HIDE DEF Z
    <2> QED
      BY <1>3, <1>5, <2>1, StrongInduction
  <1>7. P(n)
    <2>1. CASE n = 0
      BY <1>3, <2>1
    <2>2. CASE n # 0
      <3>1. n \in Z
        BY <1>3, <1>6, <2>2
      <3> QED
        BY <3>1
    <2> QED
      BY <2>1, <2>2
  <1>8. CostOfInstructions(tx) \in Nat
    BY <1>1, <1>2, <1>7 DEF P, CostStepByStep
  <1>9. PICK a : a = Len(tx.signatures) * SIGNATURE_COST
                       + Cardinality(extract_sets(tx).write_set) * WRITE_LOCK_UNITS
    OBVIOUS
  <1>10. a \in Nat
    <2>1. PICK x, y : x = Len(tx.signatures) /\ y = Cardinality(extract_sets(tx).write_set)
      OBVIOUS
    <2>2. x \in Nat /\ y \in Nat
      BY <2>1, FS_CardinalityType DEF HasCost
    <2>3. SIGNATURE_COST \in Nat /\ WRITE_LOCK_UNITS \in Nat
      BY CostConstants
    <2>4. x * SIGNATURE_COST \in Nat /\ y * WRITE_LOCK_UNITS \in Nat
      BY <2>2, <2>3
    <2> QED
      BY <1>9, <2>1, <2>4
  <1>11. PICK b, W : b = CostOfInstructions(tx) /\ W = extract_sets(tx).write_set
    OBVIOUS
  <1>12. calculate_cost(tx) = [sum |-> saturating_add(a, b), writable_accounts |-> W]
    BY <1>9, <1>11, Zenon DEF calculate_cost, CostOfInstructions
  <1>13. saturating_add(a, b) \in 0..U64_MAX
    BY <1>8, <1>10, <1>11, U64Assumption DEF saturating_add
  <1> QED
    BY <1>11, <1>12, <1>13

\* What the transactions of a batch cost, and whom they charge.
Spent(j, s) == [i \in DOMAIN j.batch |-> calculate_cost(s[j.batch[i]]).sum]
Written(j, s) == [i \in DOMAIN j.batch |-> calculate_cost(s[j.batch[i]]).writable_accounts]

\* The positions the tracker is charged for: what was committed, and the group in hand
\* as far as it is admitted and has not failed.
Committed(j, f) == {i \in DOMAIN j.batch : f[j.batch[i]] = "Committed"}
InGroupNow(p, j) == IF HasGroup(p) THEN ToSet(j.admitted)
                    ELSE IF p = "commit" THEN ToSet(j.overlays) ELSE {}
Paid(p, j, f) == Committed(j, f) \cup InGroupNow(p, j)

TrackerOk(p, j, f, s, t) ==
    InProcess(p) => /\ HeldIn(j) = DOMAIN j.batch
                    /\ Charged(t, Spent(j, s), Written(j, s), Paid(p, j, f))

\* Nothing is charged before the first transaction is admitted.
LEMMA NothingCharged ==
    ASSUME NEW v, NEW W
    PROVE  Charged(NewTracker, v, W, {})
  <1>1. PICK by : by = [key \in {} |-> 0]
    BY Zenon
  <1>2. DOMAIN by = {} /\ by = [key \in DOMAIN by |-> by[key]]
    BY <1>1
  <1>3. EntriesOk(by, v, W, {})
    BY <1>2 DEF EntriesOk
  <1>4. SumFunctionOnSet(v, {}) = 0 /\ IsFiniteSet({})
    BY SumEmpty, FS_EmptySet
  <1>5. NewTracker.block_cost = 0 /\ NewTracker.cost_by_writable_accounts = by
    BY <1>1, Zenon DEF NewTracker
  <1> QED
    BY <1>3, <1>4, <1>5, CostConstants DEF Charged

\* A step that leaves the batch, who holds it and who pays alone.
LEMMA SamePayers ==
    ASSUME NEW p, NEW j, NEW f, NEW s, NEW t, TrackerOk(p, j, f, s, t), InProcess(p),
           NEW q, NEW k, NEW g, k.batch = j.batch, HeldIn(k) = HeldIn(j),
           Paid(q, k, g) = Paid(p, j, f)
    PROVE  TrackerOk(q, k, g, s, t)
  <1>1. Spent(k, s) = Spent(j, s) /\ Written(k, s) = Written(j, s)
    BY Zenon DEF Spent, Written
  <1> QED
    BY <1>1, Zenon DEF TrackerOk

\* st[k] is the tracker when the costs of the first k of `indices` are taken back.
RefundStepByStep(st, w, indices) ==
    /\ st[0] = cost_tracker
    /\ \A k \in 1..Len(indices) : st[k] = subtract_cost(st[k - 1], CostAt(w, indices[k]))
    /\ Refund(w, indices) = st[Len(indices)]

\* The refund is a fold: there is a tracker after every member.
LEMMA RefundSteps ==
    ASSUME NEW w, NEW S, NEW indices \in Seq(S)
    PROVE  \E st : RefundStepByStep(st, w, indices)
  <1> DEFINE n == Len(indices)
             base == cost_tracker
             Turn(a, s) == IF s = {} THEN base
                           ELSE subtract_cost(a[s \ {Max(s)}], CostAt(w, indices[Max(s)]))
             Is(a, k) == a = [s \in SUBSET (1..k) |-> Turn(a, s)]
             E(k) == \E a : Is(a, k)
             Z == {k \in 1..n : E(k)}
  <1>1. n \in Nat /\ DOMAIN indices = 1..n
    OBVIOUS
  <1>2. Refund(w, indices) = (CHOOSE a : Is(a, n))[1..n]
    <2>1. Refund(w, indices) =
            (CHOOSE a : a = [s \in SUBSET (DOMAIN indices) |-> Turn(a, s)])[DOMAIN indices]
      BY Zenon DEF Refund, FoldLeft, MapThenFoldSet
    <2> HIDE DEF Turn
    <2> QED
      BY <1>1, <2>1
  <1>3. E(0)
    <2> DEFINE a == [s \in SUBSET (1..0) |-> base]
    <2>1. \A s \in SUBSET (1..0) : s = {}
      OBVIOUS
    <2>2. a = [s \in SUBSET (1..0) |-> Turn(a, s)]
      BY <2>1, Zenon
    <2> QED
      BY <2>2, Zenon
  <1>4. ASSUME NEW k \in 1..n, E(k - 1) PROVE E(k)
    <2>1. PICK a : a = [s \in SUBSET (1..(k - 1)) |-> Turn(a, s)]
      BY <1>4, Zenon
    <2> DEFINE b == [s \in SUBSET (1..k) |-> Turn(a, s)]
    <2>2. ASSUME NEW s \in SUBSET (1..k)
          PROVE  s # {} => s \ {Max(s)} \in SUBSET (1..(k - 1))
      <3>1. k \in Nat
        BY <1>1
      <3>2. s # {} => Max(s) \in s /\ \A y \in s : y <= Max(s)
        BY <3>1, MaxOfPositions
      <3> SUFFICES ASSUME s # {} PROVE s \ {Max(s)} \in SUBSET (1..(k - 1))
        OBVIOUS
      <3>3. PICK m : m = Max(s)
        OBVIOUS
      <3>4. m \in 1..k /\ \A y \in s : y \in 1..k /\ y <= m
        BY <3>2, <3>3
      <3>5. \A y \in s \ {m} : y \in 1..(k - 1)
        BY <1>1, <3>4
      <3> QED
        BY <3>3, <3>5
    <2>3. \A s \in SUBSET (1..(k - 1)) : s \in SUBSET (1..k)
      BY <1>1
    <2>4. \A s \in SUBSET (1..(k - 1)) : b[s] = a[s]
      BY <2>1, <2>3, Zenon
    <2>5. ASSUME NEW s \in SUBSET (1..k) PROVE Turn(a, s) = Turn(b, s)
      <3>1. CASE s = {}
        BY <3>1
      <3>2. CASE s # {}
        <4>1. b[s \ {Max(s)}] = a[s \ {Max(s)}]
          BY <2>2, <2>4, <3>2, Zenon
        <4> QED
          BY <4>1, Zenon
      <3> QED
        BY <3>1, <3>2
    <2>6. b = [s \in SUBSET (1..k) |-> Turn(b, s)]
      <3>1. PICK c : c = b
        OBVIOUS
      <3>2. \A s \in SUBSET (1..k) : Turn(a, s) = Turn(c, s)
        BY <2>5, <3>1, Zenon
      <3>3. c = [s \in SUBSET (1..k) |-> Turn(a, s)]
        BY <3>1, Zenon
      <3> HIDE DEF Turn, b
      <3>4. c = [s \in SUBSET (1..k) |-> Turn(c, s)]
        BY <3>2, <3>3, Zenon
      <3> QED
        BY <3>1, <3>4, Zenon
    <2> HIDE DEF b, Turn
    <2> QED
      BY <2>6, Zenon
  <1> HIDE DEF E
  <1>5. ASSUME NEW k \in 1..n, \A m \in 1..n : m < k => m \in Z
        PROVE  k \in Z
    <2>1. E(k - 1)
      <3>1. CASE k = 1
        BY <1>3, <3>1
      <3>2. CASE k # 1
        <4>1. k - 1 \in 1..n /\ k - 1 < k
          BY <1>1, <3>2
        <4> QED
          BY <1>5, <4>1
      <3> QED
        BY <3>1, <3>2
    <2> QED
      BY <1>4, <2>1
  <1>6. Z = 1..n
    <2>1. Z \in SUBSET (1..n)
      OBVIOUS
    <2> HIDE DEF Z, n
    <2> QED
      BY <1>1, <1>5, <2>1, StrongInduction
  <1>7. E(n)
    <2>1. CASE n = 0
      BY <1>3, <2>1
    <2>2. CASE n # 0
      <3>1. n \in Z
        BY <1>1, <1>6, <2>2
      <3> QED
        BY <3>1
    <2> QED
      BY <2>1, <2>2
  <1>8. PICK a : Is(a, n) /\ Refund(w, indices) = a[1..n]
    <2>1. PICK a : a = CHOOSE b : Is(b, n)
      OBVIOUS
    <2>2. \E b : Is(b, n)
      BY <1>7, Zenon DEF E
    <2> HIDE DEF Is
    <2>3. Is(a, n)
      BY <2>1, <2>2, Zenon
    <2> QED
      BY <1>2, <2>1, <2>3, Zenon
  <1>9. a[1..0] = base
    <2>1. 1..0 = {}
      OBVIOUS
    <2>2. a[{}] = base
      BY <1>8, Zenon
    <2> QED
      BY <2>1, <2>2
  <1>10. ASSUME NEW k \in 1..n PROVE a[1..k] = subtract_cost(a[1..(k - 1)], CostAt(w, indices[k]))
    <2>1. /\ 1..k \in SUBSET (1..n) /\ 1..k # {}
          /\ Max(1..k) = k
          /\ (1..k) \ {k} = 1..(k - 1)
      BY <1>1, MaxOfPrefix
    <2>2. a[1..k] = Turn(a, 1..k)
      BY <1>8, <2>1, Zenon
    <2> QED
      BY <2>1, <2>2, Zenon
  <1> DEFINE st == [k \in 0..n |-> a[1..k]]
  <1>11. st[0] = base /\ st[n] = Refund(w, indices)
    <2>1. st[0] = a[1..0] /\ st[n] = a[1..n]
      BY <1>1
    <2> HIDE DEF st
    <2> QED
      BY <1>8, <1>9, <2>1
  <1>12. ASSUME NEW k \in 1..n PROVE st[k] = subtract_cost(st[k - 1], CostAt(w, indices[k]))
    <2>1. st[k] = a[1..k] /\ st[k - 1] = a[1..(k - 1)]
      BY <1>1
    <2> HIDE DEF st
    <2> QED
      BY <1>10, <2>1
  <1> HIDE DEF st
  <1> QED
    BY <1>11, <1>12, Zenon DEF RefundStepByStep


\* Members that have paid and get their costs back have not paid any more.
LEMMA RefundCharges ==
    ASSUME NEW w, NEW v, NEW W, NEW C, Charged(cost_tracker, v, W, C),
           NEW indices \in Seq(C), IsInjective(indices),
           \A i \in C : CostAt(w, i).sum = v[i] /\ CostAt(w, i).writable_accounts = W[i],
           NEW T, T = C \ ToSet(indices)
    PROVE  Charged(Refund(w, indices), v, W, T)
  <1>1. PICK st : RefundStepByStep(st, w, indices)
    BY RefundSteps
  <1>2. PICK n : n = Len(indices)
    OBVIOUS
  <1> DEFINE First(k) == {indices[m] : m \in 1..k}
             P(k) == Charged(st[k], v, W, C \ First(k))
             Z == {k \in 1..n : P(k)}
  <1>3. /\ n \in Nat /\ DOMAIN indices = 1..n
        /\ \A m \in 1..n : indices[m] \in C
        /\ \A l, m \in 1..n : indices[l] = indices[m] => l = m
    BY <1>2 DEF IsInjective
  <1>4. P(0)
    <2>1. C \ First(0) = C
      OBVIOUS
    <2> QED
      BY <1>1, <2>1, Zenon DEF RefundStepByStep
  <1>5. ASSUME NEW k \in 1..n, P(k - 1) PROVE P(k)
    <2>1. PICK i, A, B, c : /\ i = indices[k] /\ A = C \ First(k - 1) /\ B = C \ First(k)
                            /\ c = CostAt(w, i)
      OBVIOUS
    <2>2. i \in A
      BY <1>3, <2>1
    <2>3. B = A \ {i}
      <3>1. First(k) = First(k - 1) \cup {i}
        BY <1>3, <2>1
      <3> HIDE DEF First
      <3> QED
        BY <2>1, <3>1
    <2>4. c.sum = v[i] /\ c.writable_accounts = W[i]
      BY <1>3, <2>1
    <2>5. Charged(st[k - 1], v, W, A) /\ st[k] = subtract_cost(st[k - 1], c)
      BY <1>1, <1>2, <1>5, <2>1, Zenon DEF RefundStepByStep
    <2>6. PICK a, b : a = st[k - 1] /\ b = st[k]
      OBVIOUS
    <2>7. Charged(b, v, W, B)
      <3>1. Charged(a, v, W, A) /\ b = subtract_cost(a, c)
        BY <2>5, <2>6, Zenon
      <3> QED
        BY <2>2, <2>3, <2>4, <3>1, SubtractCharges
    <2> QED
      BY <2>1, <2>6, <2>7, Zenon
  <1>6. P(n)
    <2>1. ASSUME n # 0 PROVE n \in Z
      <3> HIDE DEF P
      <3>1. \A k \in 1..n : (k = 1 \/ k - 1 \in Z) => k \in Z
        <4> SUFFICES ASSUME NEW k \in 1..n, k = 1 \/ k - 1 \in Z PROVE k \in Z
          OBVIOUS
        <4>1. P(k - 1)
          <5>1. CASE k = 1
            BY <1>4, <5>1
          <5>2. CASE k - 1 \in Z
            BY <5>2 DEF Z
          <5> QED
            BY <5>1, <5>2
        <4> QED
          BY <1>5, <4>1 DEF Z
      <3>2. Z \in SUBSET (1..n)
        BY DEF Z
      <3> HIDE DEF Z
      <3>3. Z = 1..n
        BY <1>3, <2>1, <3>1, <3>2, StrongInduction
      <3> QED
        BY <1>3, <2>1, <3>3
    <2> QED
      BY <1>4, <2>1 DEF Z
  <1>7. T = C \ First(n)
    BY <1>3 DEF ToSet
  <1> QED
    BY <1>1, <1>2, <1>6, <1>7, Zenon DEF RefundStepByStep

-----------------------------------------------------------------------------
\* The steps of one loop, as changes of its variables.

\* What is to come is not committed.
LEMMA OpenIsNotCommitted ==
    ASSUME NEW p, NEW j, NEW f, LoopOk(p, j, f), InProcess(p), NEW i \in Open(p, j)
    PROVE  i \in DOMAIN j.batch /\ f[j.batch[i]] = "Pending" /\ i \notin Committed(j, f)
  <1>1. i \in DOMAIN j.batch
    BY OpenIsHeld
  <1>2. f[j.batch[i]] = "Pending"
    BY DEF LoopOk, ResultsOk
  <1> QED
    BY <1>1, <1>2 DEF Committed

\* The first of a group that has something to admit is to come, and has not paid.
LEMMA FirstHasNotPaid ==
    ASSUME NEW p \in {"admit", "add"}, NEW j, NEW f, LoopOk(p, j, f), j.to_admit # <<>>,
           NEW i, i = Head(j.to_admit)
    PROVE  i \in Open(p, j) /\ i \in DOMAIN j.batch /\ i \notin Paid(p, j, f)
  <1>1. HasGroup(p) /\ InProcess(p)
    BY DEF HasGroup, InProcess
  <1>2. /\ j.to_admit \in Seq(DOMAIN j.batch) /\ IsInjective(j.to_admit)
        /\ ToSet(j.to_admit) \cap ToSet(j.admitted) = {}
    BY <1>1 DEF LoopOk, GroupOk
  <1>3. i \in ToSet(j.to_admit)
    BY <1>2, TailOnce
  <1>4. i \in Open(p, j)
    BY <1>1, <1>3 DEF Open, InHand
  <1>5. i \in DOMAIN j.batch /\ i \notin Committed(j, f)
    BY <1>1, <1>4, OpenIsNotCommitted
  <1>6. i \notin ToSet(j.admitted)
    BY <1>2, <1>3
  <1> QED
    BY <1>1, <1>4, <1>5, <1>6 DEF Paid, InGroupNow

\* A transaction that is admitted pays.
LEMMA AdmittedPays ==
    ASSUME NEW j, NEW f, LoopOk("add", j, f), NEW s, NEW t, TrackerOk("add", j, f, s, t),
           NEW i, i = Head(j.to_admit), NEW cost, cost = calculate_cost(s[j.batch[i]]),
           cost.sum \in 0..U64_MAX, would_fit(t, cost),
           NEW u, u = add_cost(t, cost),
           NEW k, k.batch = j.batch, k.results = j.results, k.admitted = Append(j.admitted, i)
    PROVE  TrackerOk("admit", k, f, s, u)
  <1>1. HasGroup("add") /\ InProcess("add") /\ HasGroup("admit") /\ InProcess("admit")
    BY DEF HasGroup, InProcess
  <1>2. /\ j.to_admit \in Seq(DOMAIN j.batch) /\ j.to_admit # <<>>
        /\ j.admitted \in Seq(DOMAIN j.batch) /\ IsInjective(j.admitted)
    BY <1>1 DEF LoopOk, GroupOk
  <1>3. PICK C, v, W : C = Paid("add", j, f) /\ v = Spent(j, s) /\ W = Written(j, s)
    OBVIOUS
  <1>4. i \in DOMAIN j.batch /\ i \notin C
    BY <1>2, <1>3, FirstHasNotPaid
  <1>5. v[i] = cost.sum /\ W[i] = cost.writable_accounts
    BY <1>3, <1>4 DEF Spent, Written
  <1>6. HeldIn(j) = DOMAIN j.batch /\ Charged(t, v, W, C)
    BY <1>1, <1>3, Zenon DEF TrackerOk
  <1>7. PICK T : T = C \cup {i}
    BY Zenon
  <1>8. Charged(u, v, W, T)
    BY <1>4, <1>5, <1>6, <1>7, AddCharges, Zenon
  <1>9. Paid("admit", k, f) = T
    <2>1. ToSet(k.admitted) = ToSet(j.admitted) \cup {i}
      <3>1. i \notin ToSet(j.admitted)
        BY <1>1, <1>3, <1>4 DEF Paid, InGroupNow
      <3> QED
        BY <1>2, <1>4, <3>1, AppendOnce
    <2>2. Committed(k, f) = Committed(j, f)
      BY DEF Committed
    <2> QED
      BY <1>1, <1>3, <1>7, <2>1, <2>2 DEF Paid, InGroupNow
  <1>10. HeldIn(k) = HeldIn(j) /\ Spent(k, s) = v /\ Written(k, s) = W
    BY <1>3, Zenon DEF HeldIn, Spent, Written
  <1> QED
    BY <1>6, <1>8, <1>9, <1>10, Zenon DEF TrackerOk

\* A transaction that does not fit does not pay.
LEMMA RefusedPaysNothing ==
    ASSUME NEW j, NEW f, LoopOk("admit", j, f), j.to_admit # <<>>,
           NEW s, NEW t, TrackerOk("admit", j, f, s, t), NEW i, i = Head(j.to_admit),
           NEW k, k.batch = j.batch, k.admitted = j.admitted,
           k.results = [j.results EXCEPT ![i] = "WouldExceedMaxBlockCostLimit"],
           NEW f2, f2 = [id \in DOMAIN f |-> IF id \in {j.batch[i]}
                                             THEN "WouldExceedMaxBlockCostLimit" ELSE f[id]]
    PROVE  TrackerOk("admit", k, f2, s, t)
  <1>1. HasGroup("admit") /\ InProcess("admit")
    BY DEF HasGroup, InProcess
  <1>2. i \in Open("admit", j)
    BY FirstHasNotPaid
  <1>3. i \in DOMAIN j.batch /\ f[j.batch[i]] = "Pending"
    BY <1>1, <1>2, OpenIsNotCommitted
  <1>4. j.batch \in Seq(DOMAIN f) /\ j.results \in [DOMAIN j.batch -> Results]
        /\ j.results[i] = "None" /\ j.batch # <<>>
    BY <1>1, <1>2 DEF LoopOk, BatchOk, ResultsOk
  <1>5. \A m \in DOMAIN j.batch : (f2[j.batch[m]] = "Committed" <=> f[j.batch[m]] = "Committed")
    BY <1>3, <1>4
  <1>6. Committed(k, f2) = Committed(j, f)
    BY <1>5 DEF Committed
  <1>7. HeldIn(k) = HeldIn(j)
    <2>1. k.results # <<>> /\ j.results # <<>>
      BY <1>3, <1>4
    <2> QED
      BY <1>3, <1>4, <2>1 DEF HeldIn
  <1>8. Paid("admit", k, f2) = Paid("admit", j, f)
    BY <1>6 DEF Paid, InGroupNow
  <1> QED
    BY <1>1, <1>7, <1>8, SamePayers

\* A member whose flush begins paid when it was admitted.
LEMMA FlushedHasPaid ==
    ASSUME NEW j, NEW f, LoopOk("commit", j, f), j.overlays # <<>>,
           NEW s, NEW t, TrackerOk("commit", j, f, s, t), NEW i, i = Head(j.overlays),
           NEW k, k.batch = j.batch, k.results = j.results, k.overlays = Tail(j.overlays),
           NEW f2, f2 = [id \in DOMAIN f |-> IF id \in {j.batch[i]} THEN "Committed" ELSE f[id]]
    PROVE  TrackerOk("commit", k, f2, s, t)
  <1>1. ~HasGroup("commit") /\ InProcess("commit")
    BY DEF HasGroup, InProcess
  <1>2. j.overlays \in Seq(DOMAIN j.batch) /\ IsInjective(j.overlays)
    BY DEF LoopOk, GroupOk
  <1>3. i \in DOMAIN j.batch /\ ToSet(j.overlays) = {i} \cup ToSet(Tail(j.overlays))
    BY <1>2, TailOnce
  <1>4. HeldIn(j) = DOMAIN j.batch
    BY <1>1 DEF TrackerOk
  <1>5. j.batch \in Seq(DOMAIN f) /\ \A m, n \in DOMAIN j.batch : j.batch[m] = j.batch[n] => m = n
    BY <1>4, Zenon DEF LoopOk, BatchOk
  <1>6. \A m \in DOMAIN j.batch : j.batch[m] \in DOMAIN f
    BY <1>5
  <1>7. Committed(k, f2) = Committed(j, f) \cup {i}
    BY <1>3, <1>5, <1>6 DEF Committed
  <1>8. Paid("commit", k, f2) = Paid("commit", j, f)
    BY <1>1, <1>3, <1>7 DEF Paid, InGroupNow
  <1>9. HeldIn(k) = HeldIn(j)
    BY DEF HeldIn
  <1> QED
    BY <1>1, <1>8, <1>9, SamePayers

\* Members that fail get their costs back, and the rest of the group goes on to commit.
LEMMA FailedIsRefunded ==
    ASSUME NEW w, NEW j, j = job[w], NEW f, LoopOk("collect", j, f),
           TrackerOk("collect", j, f, sent, cost_tracker),
           NEW F, F = {i \in ToSet(j.admitted) : j.outcome[i] # "Ok"},
           NEW k, k.batch = j.batch, k.results = Collected(j, F),
           k.overlays = Those(j.admitted, ToSet(j.admitted) \ F),
           NEW f2, f2 = FatesCollected(j, f, F, F),
           NEW u, u = Refund(w, Those(j.admitted, F))
    PROVE  TrackerOk("commit", k, f2, sent, u)
  <1>1. /\ HasGroup("collect") /\ InProcess("collect")
        /\ ~HasGroup("commit") /\ InProcess("commit")
    BY DEF HasGroup, InProcess
  <1>2. PICK D, M, C, v, W : /\ D = DOMAIN j.batch /\ M = ToSet(j.admitted)
                             /\ C = Paid("collect", j, f)
                             /\ v = Spent(j, sent) /\ W = Written(j, sent)
    BY Zenon
  <1>3. HeldIn(j) = D /\ Charged(cost_tracker, v, W, C)
    BY <1>1, <1>2, Zenon DEF TrackerOk
  <1>4. /\ j.admitted \in Seq(D) /\ IsInjective(j.admitted) /\ F \subseteq M
        /\ j.results \in [D -> Results] /\ j.batch # <<>> /\ j.batch \in Seq(DOMAIN f)
        /\ \A m, n \in D : j.batch[m] = j.batch[n] => m = n
    BY <1>1, <1>2, <1>3 DEF LoopOk, GroupOk, ResultsOk, BatchOk
  <1>5. \A i \in F : j.outcome[i] \in {"ProgramError", "BlockhashNotFound"}
    BY DEF LoopOk, GroupOk, Outcomes
  <1>6. \A i \in M : i \in D /\ f[j.batch[i]] = "Pending" /\ i \notin Committed(j, f)
    <2>1. M \subseteq Open("collect", j)
      BY <1>1, <1>2 DEF Open, InHand
    <2> QED
      BY <1>1, <1>2, <2>1, OpenIsNotCommitted
  <1>7. C = Committed(j, f) \cup M /\ Committed(j, f) \subseteq D
    BY <1>1, <1>2 DEF Paid, InGroupNow, Committed
  <1>8. Charged(u, v, W, C \ F)
    <2>1. PICK t : t = Those(j.admitted, F)
      OBVIOUS
    <2>2. t \in Seq(D) /\ ToSet(t) = F /\ IsInjective(t)
      <3>1. t \in Seq(D) /\ ToSet(t) = ToSet(j.admitted) \cap F /\ IsInjective(t)
        BY <1>4, <2>1, ThoseAre
      <3> QED
        BY <1>2, <1>4, <3>1
    <2>3. t \in Seq(C)
      <3>1. \A n \in DOMAIN t : t[n] \in C
        BY <1>4, <1>7, <2>2 DEF ToSet
      <3> QED
        BY <2>2, <3>1
    <2>4. \A i \in C : CostAt(w, i).sum = v[i] /\ CostAt(w, i).writable_accounts = W[i]
      <3>1. \A i \in C : i \in D
        BY <1>6, <1>7
      <3> QED
        BY <1>2, <3>1, Zenon DEF CostAt, TxAt, Spent, Written
    <2>5. PICK T : T = C \ F
      OBVIOUS
    <2>6. Charged(Refund(w, t), v, W, T)
      BY <1>3, <2>2, <2>3, <2>4, <2>5, RefundCharges
    <2> QED
      BY <2>1, <2>5, <2>6, Zenon
  <1>9. ASSUME NEW m \in D PROVE f2[j.batch[m]] = "Committed" <=> f[j.batch[m]] = "Committed"
    <2>1. j.batch[m] \in DOMAIN f
      BY <1>2, <1>4
    <2>2. CASE m \in F
      <3>1. \A i \in F : j.batch[i] = j.batch[m] => i = m
        BY <1>4, <1>6
      <3>2. (CHOOSE i \in F : j.batch[i] = j.batch[m]) = m
        BY <2>2, <3>1
      <3>3. f2[j.batch[m]] = j.outcome[m]
        BY <2>1, <2>2, <3>2 DEF FatesCollected
      <3>4. f2[j.batch[m]] # "Committed"
        BY <1>5, <2>2, <3>3
      <3> QED
        BY <1>4, <1>6, <2>2, <3>4
    <2>3. CASE m \notin F
      <3>1. ~\E i \in F : j.batch[i] = j.batch[m]
        BY <1>4, <1>6, <2>3
      <3> QED
        BY <2>1, <3>1 DEF FatesCollected
    <2> QED
      BY <2>2, <2>3
  <1>10. Committed(k, f2) = Committed(j, f)
    BY <1>2, <1>9, Zenon DEF Committed
  <1>11. ToSet(k.overlays) = M \ F
    <2>1. PICK G : G = M \ F
      OBVIOUS
    <2>2. ToSet(Those(j.admitted, G)) = ToSet(j.admitted) \cap G
      BY <1>4, ThoseAre
    <2> QED
      BY <1>2, <2>1, <2>2
  <1>12. Paid("commit", k, f2) = C \ F
    BY <1>1, <1>4, <1>6, <1>7, <1>10, <1>11, Zenon DEF Paid, InGroupNow
  <1>13. HeldIn(k) = DOMAIN k.batch
    <2>1. \A i \in D : j.results[i] # "AccountInUse"
      <3>1. j.results # <<>>
        BY <1>2, <1>4
      <3> QED
        BY <1>2, <1>3, <3>1 DEF HeldIn
    <2>2. \A i \in D : k.results[i] # "AccountInUse"
      BY <1>4, <1>5, <2>1 DEF Collected
    <2> QED
      BY <1>2, <2>2 DEF HeldIn
  <1>14. Spent(k, sent) = v /\ Written(k, sent) = W
    BY <1>2, Zenon DEF Spent, Written
  <1> QED
    BY <1>8, <1>12, <1>13, <1>14, Zenon DEF TrackerOk

-----------------------------------------------------------------------------
\* The pipeline with one loop.

\* The tracker is new when a batch is received, what was found to fit still fits when it
\* is added, the PoH thread is gone only when the loop has no further batch, and no group
\* is ever refused its locks.
SoloPlaces(w) ==
    /\ pc[w] = "add" => would_fit(cost_tracker, CostAt(w, Head(job[w].to_admit)))
    /\ pc[w] \in {"recv", "verify"} => cost_tracker = NewTracker
    /\ pc[w] = "head" => exit \/ cost_tracker = NewTracker
    /\ ~poh_alive => exit \/ pc[w] = "stopped"
    /\ pc[w] \notin {"refused", "requeue"}
SoloInv(w) == TrackerOk(pc[w], job[w], fate, sent, cost_tracker) /\ SoloPlaces(w)

Costed == \A tx \in Tx : HasCost(tx)

\* A loop outside process_batch has nothing to show for the tracker but its place.
LEMMA OutsideSolo ==
    ASSUME NEW w, pc'[w] \in {"head", "recv", "verify", "stopped"},
           pc'[w] \in {"recv", "verify"} => cost_tracker' = NewTracker,
           pc'[w] = "head" => exit' \/ cost_tracker' = NewTracker,
           ~poh_alive' => exit' \/ pc'[w] = "stopped"
    PROVE  SoloInv(w)'
  <1>1. ~InProcess(pc'[w])
    BY DEF InProcess, HasGroup
  <1>2. TrackerOk(pc'[w], job'[w], fate', sent', cost_tracker')
    BY <1>1 DEF TrackerOk
  <1>3. SoloPlaces(w)'
    BY DEF SoloPlaces
  <1> QED
    BY <1>2, <1>3, Zenon DEF SoloInv

\* Steps before and after process_batch, and the ways out of it.
LEMMA OutsideStep ==
    ASSUME Inv, NEW w \in Worker, SoloInv(w),
           \/ Stop(w) \/ Poll(w) \/ Receive(w) \/ ReceiveEnds(w) \/ VerifyPanics(w)
           \/ Cancelled(w) \/ FinishBatch(w) \/ RecordFails(w) \/ RecordPanics(w)
           \/ \E i \in DOMAIN job[w].outcome : ExecutePanics(w, i)
    PROVE  SoloInv(w)' /\ (cost_tracker' = cost_tracker \/ cost_tracker' = NewTracker)
  <1>1. /\ pc[w] \in {"recv", "verify"} => cost_tracker = NewTracker
        /\ pc[w] = "head" => exit \/ cost_tracker = NewTracker
        /\ ~poh_alive => exit \/ pc[w] = "stopped"
    BY DEF SoloInv, SoloPlaces
  <1>2. pc \in [Worker -> Places]
    BY LoopHere
  <1>3. CASE Stop(w)
    <2>1. pc'[w] = "stopped" /\ exit' = exit /\ exit /\ cost_tracker' = cost_tracker
      BY <1>2, <1>3 DEF Stop
    <2> QED
      BY <2>1, OutsideSolo
  <1>4. CASE Poll(w)
    <2>1. /\ pc[w] = "head" /\ ~exit /\ pc'[w] = "recv" /\ exit' = exit
          /\ poh_alive' = poh_alive /\ cost_tracker' = cost_tracker
      BY <1>2, <1>4 DEF Poll
    <2> QED
      BY <1>1, <2>1, OutsideSolo
  <1>5. CASE Receive(w) \/ ReceiveEnds(w)
    <2>1. /\ pc[w] = "recv" /\ pc'[w] \in {"recv", "head", "verify"} /\ exit' = exit
          /\ poh_alive' = poh_alive /\ cost_tracker' = cost_tracker
      BY <1>2, <1>5 DEF Receive, ReceiveEnds
    <2> QED
      BY <1>1, <2>1, OutsideSolo
  <1>6. CASE VerifyPanics(w) \/ Cancelled(w)
    <2>1. /\ pc[w] = "verify" /\ pc'[w] \in {"head", "stopped"} /\ exit' = exit
          /\ poh_alive' = poh_alive /\ cost_tracker' = cost_tracker
      BY <1>2, <1>6 DEF VerifyPanics, Cancelled
    <2> QED
      BY <1>1, <2>1, OutsideSolo
  <1>7. CASE FinishBatch(w)
    <2>1. /\ pc[w] = "group" /\ pc'[w] = "head" /\ exit' = exit
          /\ poh_alive' = poh_alive /\ cost_tracker' = NewTracker
      BY <1>2, <1>7 DEF FinishBatch
    <2> QED
      BY <1>1, <2>1, OutsideSolo
  <1>8. CASE RecordFails(w)
    <2>1. /\ pc[w] = "execute" /\ pc'[w] = "head" /\ exit' = exit /\ ~poh_alive
          /\ poh_alive' = poh_alive /\ cost_tracker' = cost_tracker
      BY <1>2, <1>8 DEF RecordFails, ExecutionEnded, Unwind
    <2> QED
      BY <1>1, <2>1, OutsideSolo
  <1>9. CASE RecordPanics(w)
    <2>1. /\ pc'[w] = "stopped" /\ cost_tracker' = cost_tracker
      BY <1>2, <1>9 DEF RecordPanics, Unwind
    <2> QED
      BY <2>1, OutsideSolo
  <1>10. CASE \E i \in DOMAIN job[w].outcome : ExecutePanics(w, i)
    <2>1. /\ pc'[w] = "stopped" /\ cost_tracker' = cost_tracker
      BY <1>2, <1>10 DEF ExecutePanics, Unwind
    <2> QED
      BY <2>1, OutsideSolo
  <1> QED
    BY <1>3, <1>4, <1>5, <1>6, <1>7, <1>8, <1>9, <1>10

\* Within process_batch the place says nothing more, but where a cost is to be added.
LEMMA InsidePlaces ==
    ASSUME NEW w, SoloPlaces(w), pc[w] # "stopped",
           pc'[w] \in {"group", "admit", "lock", "execute", "collect", "commit"},
           exit' = exit, poh_alive' = poh_alive
    PROVE  SoloPlaces(w)'
BY DEF SoloPlaces

\* A step from a place in process_batch, or into it, to another one.
LEMMA InsideSolo ==
    ASSUME Inv, NEW w \in Worker, SoloInv(w), pc[w] # "stopped",
           NEW p2 \in {"group", "admit", "lock", "execute", "collect", "commit"}, NEW k,
           Moves(w, p2, k), UNCHANGED <<sent, exit, poh_alive>>,
           TrackerOk(p2, k, fate', sent, cost_tracker')
    PROVE  SoloInv(w)'
  <1>1. p2 \in Places /\ Shape
    BY DEF Places, Inv
  <1>2. pc'[w] = p2 /\ job'[w] = k
    BY <1>1, MovesOne
  <1>3. SoloPlaces(w)'
    BY <1>2, InsidePlaces DEF SoloInv
  <1> QED
    BY <1>2, <1>3, Zenon DEF SoloInv

\* Taking the next group: nobody is admitted yet, so the same positions pay.
LEMMA TakeGroupSolo ==
    ASSUME Inv, NEW w \in Worker, SoloInv(w), NextGroup(w)
    PROVE  SoloInv(w)' /\ cost_tracker' = cost_tracker
  <1>1. PICK j, h, g : j = job[w] /\ h = Head(j.groups) /\ g = Tail(j.groups)
    OBVIOUS
  <1>2. Fields(j) /\ job = [v \in Worker |-> job[v]]
    BY <1>1, LoopHere
  <1>3. PICK e : e = <<>>
    OBVIOUS
  <1>4. PICK k : k = WithGroup(j, h, g, e)
    OBVIOUS
  <1>5. Moves(w, "admit", k)
    BY <1>1, <1>2, <1>3, <1>4, Zenon DEF Moves, NextGroup, WithGroup
  <1>6. k.batch = j.batch /\ k.results = j.results /\ k.admitted = <<>>
    BY <1>2, <1>3, <1>4, AssignGroup
  <1>7. /\ pc[w] = "group" /\ UNCHANGED <<fate, sent, exit, poh_alive, cost_tracker>>
    BY DEF NextGroup
  <1>8. TrackerOk("group", j, fate, sent, cost_tracker)
    BY <1>1, <1>7, Zenon DEF SoloInv
  <1>9. InProcess("group") /\ ~HasGroup("group") /\ HasGroup("admit")
    BY DEF InProcess, HasGroup
  <1>10. Paid("admit", k, fate) = Paid("group", j, fate)
    <2>1. Committed(k, fate) = Committed(j, fate)
      BY <1>6, Zenon DEF Committed
    <2>2. ToSet(<<>>) = {}
      BY DEF ToSet
    <2> QED
      BY <1>6, <1>9, <2>1, <2>2 DEF Paid, InGroupNow
  <1>11. HeldIn(k) = HeldIn(j)
    BY <1>6, Zenon DEF HeldIn
  <1>12. TrackerOk("admit", k, fate, sent, cost_tracker)
    BY <1>6, <1>8, <1>9, <1>10, <1>11, SamePayers
  <1> QED
    BY <1>5, <1>7, <1>12, InsideSolo

\* Steps that change only the place, within one group.
LEMMA OnwardSolo ==
    ASSUME Inv, NEW w \in Worker, SoloInv(w), AdmissionEnds(w) \/ Record(w)
    PROVE  SoloInv(w)' /\ cost_tracker' = cost_tracker
  <1>1. PICK j : j = job[w]
    OBVIOUS
  <1>2. PICK q : /\ pc' = [pc EXCEPT ![w] = q] /\ q \in {"group", "lock", "collect"}
                 /\ q = "group" => j.admitted = <<>>
                 /\ pc[w] \in {"admit", "execute"}
                 /\ UNCHANGED <<job, fate, sent, exit, poh_alive, cost_tracker>>
    BY <1>1 DEF AdmissionEnds, Record, ExecutionEnded
  <1>3. Moves(w, q, j)
    <2>1. job' = [job EXCEPT ![w] = j]
      BY <1>1, <1>2, LoopHere
    <2> QED
      BY <1>2, <2>1, Zenon DEF Moves
  <1>4. TrackerOk(pc[w], j, fate, sent, cost_tracker)
    BY <1>1, Zenon DEF SoloInv
  <1>5. InProcess(pc[w]) /\ HasGroup(pc[w])
    BY <1>2 DEF InProcess, HasGroup
  <1>6. Paid(q, j, fate) = Paid(pc[w], j, fate)
    <2>1. CASE q = "group"
      <3>1. ToSet(j.admitted) = {} /\ ~HasGroup("group")
        BY <1>2, <2>1 DEF ToSet, HasGroup
      <3> QED
        BY <1>5, <2>1, <3>1 DEF Paid, InGroupNow
    <2>2. CASE q # "group"
      BY <1>2, <1>5, <2>2 DEF Paid, InGroupNow, HasGroup
    <2> QED
      BY <2>1, <2>2
  <1>7. TrackerOk(q, j, fate, sent, cost_tracker)
    BY <1>4, <1>5, <1>6, SamePayers, Zenon
  <1> QED
    BY <1>2, <1>3, <1>7, InsideSolo

\* would_fit looks at the tracker that add_cost changes: nobody else is between.
LEMMA WouldFitSolo ==
    ASSUME Inv, NEW w \in Worker, SoloInv(w), WouldFit(w)
    PROVE  SoloInv(w)' /\ cost_tracker' = cost_tracker
  <1>1. /\ pc[w] = "admit" /\ pc'[w] = "add"
        /\ would_fit(cost_tracker, CostAt(w, Head(job[w].to_admit)))
        /\ UNCHANGED <<job, fate, sent, exit, poh_alive, cost_tracker>>
    BY LoopHere DEF WouldFit
  <1>2. TrackerOk("admit", job[w], fate, sent, cost_tracker)
    BY <1>1, Zenon DEF SoloInv
  <1>3. InProcess("admit") /\ HasGroup("admit") /\ HasGroup("add")
    BY DEF InProcess, HasGroup
  <1>4. Paid("add", job[w], fate) = Paid("admit", job[w], fate)
    BY <1>3 DEF Paid, InGroupNow
  <1>5. TrackerOk("add", job[w], fate, sent, cost_tracker)
    BY <1>2, <1>3, <1>4, SamePayers, Zenon
  <1>6. SoloPlaces(w)'
    <2>1. CostAt(w, Head(job[w].to_admit))' = CostAt(w, Head(job[w].to_admit))
      BY <1>1, Zenon DEF CostAt, TxAt
    <2>2. ~poh_alive => exit
      BY <1>1 DEF SoloInv, SoloPlaces
    <2> QED
      BY <1>1, <2>1, <2>2 DEF SoloPlaces
  <1> QED
    BY <1>1, <1>5, <1>6, Zenon DEF SoloInv

\* A transaction that does not fit is turned away before it is charged.
LEMMA WouldNotFitSolo ==
    ASSUME Inv, NEW w \in Worker, SoloInv(w), WouldNotFit(w)
    PROVE  SoloInv(w)' /\ cost_tracker' = cost_tracker
  <1>1. PICK j, i : j = job[w] /\ i = Head(j.to_admit)
    OBVIOUS
  <1>2. PICK r, t : r = [j.results EXCEPT ![i] = "WouldExceedMaxBlockCostLimit"] /\ t = Tail(j.to_admit)
    BY Zenon
  <1>3. PICK k : k = WithRefusal(j, t, r)
    OBVIOUS
  <1>4. Fields(j) /\ LoopOk("admit", j, fate) /\ job = [v \in Worker |-> job[v]]
        /\ j.to_admit # <<>> /\ pc[w] = "admit"
    BY <1>1, LoopHere DEF WouldNotFit
  <1>5. Moves(w, "admit", k)
    <2>1. job' = [job EXCEPT ![w] = k]
      BY <1>1, <1>2, <1>3, <1>4, Zenon DEF WouldNotFit, WithRefusal
    <2> QED
      BY <1>4, <2>1, LoopHere, Zenon DEF Moves, WouldNotFit
  <1>6. k.batch = j.batch /\ k.results = r /\ k.admitted = j.admitted
    BY <1>3, <1>4, AssignRefusal
  <1>7. PICK f2 : /\ f2 = fate'
                  /\ f2 = [id \in DOMAIN fate |-> IF id \in {j.batch[i]}
                                 THEN "WouldExceedMaxBlockCostLimit" ELSE fate[id]]
    BY <1>1 DEF WouldNotFit, Settle, Ids
  <1>8. UNCHANGED <<sent, exit, poh_alive, cost_tracker>>
    BY DEF WouldNotFit
  <1>9. TrackerOk("admit", j, fate, sent, cost_tracker)
    BY <1>1, <1>4, Zenon DEF SoloInv
  <1>10. TrackerOk("admit", k, f2, sent, cost_tracker)
    BY <1>1, <1>2, <1>4, <1>6, <1>7, <1>9, RefusedPaysNothing
  <1> QED
    BY <1>4, <1>5, <1>7, <1>8, <1>10, InsideSolo

\* The cost that is added is the one would_fit looked at.
LEMMA AddCostSolo ==
    ASSUME Inv, Costed, NEW w \in Worker, SoloInv(w), AddCost(w)
    PROVE  SoloInv(w)'
  <1>1. PICK j, i, cost : j = job[w] /\ i = Head(j.to_admit) /\ cost = CostAt(w, i)
    OBVIOUS
  <1>2. PICK t, a : t = Tail(j.to_admit) /\ a = Append(j.admitted, i)
    OBVIOUS
  <1>3. PICK k : k = WithAdmission(j, t, a)
    OBVIOUS
  <1>4. Fields(j) /\ LoopOk("add", j, fate) /\ job = [v \in Worker |-> job[v]] /\ pc[w] = "add"
    BY <1>1, LoopHere DEF AddCost
  <1>5. Moves(w, "admit", k)
    BY <1>1, <1>2, <1>3, <1>4, Zenon DEF Moves, AddCost, WithAdmission
  <1>6. k.batch = j.batch /\ k.results = j.results /\ k.admitted = Append(j.admitted, i)
    <2>1. k.batch = j.batch /\ k.results = j.results /\ k.admitted = a
      BY <1>3, <1>4, AssignAdmission
    <2> QED
      BY <1>2, <2>1, Zenon
  <1>7. UNCHANGED <<fate, sent, exit, poh_alive>> /\ cost_tracker' = add_cost(cost_tracker, cost)
    BY <1>1 DEF AddCost
  <1>8. would_fit(cost_tracker, cost) /\ TrackerOk("add", j, fate, sent, cost_tracker)
    BY <1>1, <1>4, Zenon DEF SoloInv, SoloPlaces
  <1>9. cost = calculate_cost(sent[j.batch[i]])
    BY <1>1, Zenon DEF CostAt, TxAt
  <1>10. cost.sum \in 0..U64_MAX
    <2>1. i \in DOMAIN j.batch
      <3>1. j.to_admit # <<>>
        BY <1>4 DEF LoopOk, GroupOk
      <3> QED
        BY <1>1, <1>4, <3>1, FirstHasNotPaid
    <2>2. TxAt(w, i) \in Tx
      BY <1>1, <2>1, BatchIsSent
    <2>3. HasCost(TxAt(w, i))
      BY <2>2 DEF Costed
    <2> QED
      BY <1>1, <2>3, CostIsU64 DEF CostAt
  <1>11. PICK u : u = cost_tracker'
    OBVIOUS
  <1>12. TrackerOk("admit", k, fate, sent, u)
    <2>1. u = add_cost(cost_tracker, cost)
      BY <1>7, <1>11, Zenon
    <2> QED
      BY <1>1, <1>4, <1>6, <1>8, <1>9, <1>10, <2>1, AdmittedPays
  <1> QED
    BY <1>4, <1>5, <1>7, <1>11, <1>12, InsideSolo

\* The lock call and the members' own steps change what is loaded and the outcomes.
LEMMA RunningSolo ==
    ASSUME Inv, NEW w \in Worker, SoloInv(w), pc[w] \in {"lock", "execute"}, NEW l, NEW o,
           NEW k, k = WithRunning(job[w], l, o), Moves(w, "execute", k),
           UNCHANGED <<fate, sent, exit, poh_alive, cost_tracker>>
    PROVE  SoloInv(w)'
  <1>1. PICK j, p : j = job[w] /\ p = pc[w]
    OBVIOUS
  <1>2. Fields(j)
    BY <1>1, LoopHere
  <1>3. k.batch = j.batch /\ k.results = j.results /\ k.admitted = j.admitted
    BY <1>1, <1>2, AssignRunning
  <1>4. TrackerOk(p, j, fate, sent, cost_tracker)
    BY <1>1, Zenon DEF SoloInv
  <1>5. InProcess(p) /\ HasGroup(p) /\ HasGroup("execute")
    BY <1>1 DEF InProcess, HasGroup
  <1>6. Paid("execute", k, fate) = Paid(p, j, fate)
    <2>1. Committed(k, fate) = Committed(j, fate)
      BY <1>3, Zenon DEF Committed
    <2> QED
      BY <1>3, <1>5, <2>1 DEF Paid, InGroupNow
  <1>7. HeldIn(k) = HeldIn(j)
    BY <1>3, Zenon DEF HeldIn
  <1>8. TrackerOk("execute", k, fate, sent, cost_tracker)
    BY <1>3, <1>4, <1>5, <1>6, <1>7, SamePayers
  <1> QED
    BY <1>8, InsideSolo

\* The lock call finds an empty table and lets the whole group through: none is refused,
\* so none is refunded here.
LEMMA LockAccountsSolo ==
    ASSUME Inv, NEW w \in Worker, SoloInv(w), LockAccounts(w)
    PROVE  SoloInv(w)' /\ cost_tracker' = cost_tracker
  <1>1. PICK l, o : l = [i \in Members(w) |-> <<>>] /\ o = [i \in Members(w) |-> "Running"]
    BY Zenon
  <1>2. PICK k : k = WithRunning(job[w], l, o)
    OBVIOUS
  <1>3. Moves(w, "execute", k)
    BY <1>1, <1>2, LoopHere, Zenon DEF Moves, LockAccounts, WithRunning
  <1>4. pc[w] = "lock" /\ UNCHANGED <<fate, sent, exit, poh_alive, cost_tracker>>
    BY DEF LockAccounts
  <1> QED
    BY <1>2, <1>3, <1>4, RunningSolo

\* Running a member touches neither the tracker nor the fates.
LEMMA MemberSolo ==
    ASSUME Inv, NEW w \in Worker, SoloInv(w), NEW i \in DOMAIN job[w].outcome,
           PreflightFails(w, i) \/ LoadAccount(w, i) \/ Execute(w, i)
    PROVE  SoloInv(w)' /\ cost_tracker' = cost_tracker
  <1>1. /\ pc[w] = "execute" /\ UNCHANGED <<pc, fate, sent, exit, poh_alive, cost_tracker>>
    BY Zenon DEF PreflightFails, LoadAccount, Execute
  <1>2. PICK j : j = job[w]
    OBVIOUS
  <1>3. Fields(j) /\ job = [v \in Worker |-> job[v]]
    BY <1>2, LoopHere
  <1>4. \E l, o : job' = [job EXCEPT ![w] = WithRunning(j, l, o)]
    <2>1. CASE PreflightFails(w, i)
      <3>1. PICK o : job' = [job EXCEPT ![w] = [j EXCEPT !.outcome = o]]
        BY <1>2, <1>3, <2>1, Zenon DEF PreflightFails
      <3>2. [j EXCEPT !.outcome = o] = WithRunning(j, j.loaded, o)
        BY <1>3, AssignOne
      <3> QED
        BY <3>1, <3>2, Zenon
    <2>2. CASE LoadAccount(w, i)
      <3>1. PICK e : job' = [job EXCEPT ![w].loaded[i] = e]
        BY <2>2, Zenon DEF LoadAccount
      <3>2. PICK l : job' = [job EXCEPT ![w] = [j EXCEPT !.loaded = l]]
        BY <1>2, <1>3, <3>1, Zenon
      <3>3. [j EXCEPT !.loaded = l] = WithRunning(j, l, j.outcome)
        BY <1>3, AssignOne
      <3> QED
        BY <3>2, <3>3, Zenon
    <2>3. CASE Execute(w, i)
      <3>1. PICK e, r : job' = [job EXCEPT ![w].loaded[i] = e, ![w].outcome[i] = r]
        BY <2>3, Zenon DEF Execute
      <3>2. job' = [job EXCEPT ![w] = WithRunning(j, [j.loaded EXCEPT ![i] = e],
                                                  [j.outcome EXCEPT ![i] = r])]
        BY <1>2, <1>3, <3>1, Zenon DEF WithRunning
      <3> QED
        BY <3>2, Zenon
    <2> QED
      BY <2>1, <2>2, <2>3
  <1>5. PICK l, o : job' = [job EXCEPT ![w] = WithRunning(j, l, o)]
    BY <1>4
  <1>6. PICK k : k = WithRunning(j, l, o)
    OBVIOUS
  <1>7. Moves(w, "execute", k)
    <2>1. pc' = [pc EXCEPT ![w] = "execute"]
      BY <1>1, LoopHere
    <2> QED
      BY <1>5, <1>6, <2>1, Zenon DEF Moves
  <1> QED
    BY <1>1, <1>2, <1>6, <1>7, RunningSolo

\* A new batch: nothing of it is committed, nothing is charged.
LEMMA VerifyAndScheduleSolo ==
    ASSUME Inv, NEW w \in Worker, SoloInv(w), VerifyAndSchedule(w)
    PROVE  SoloInv(w)' /\ cost_tracker' = cost_tracker
  <1>1. /\ pc[w] = "verify" /\ UNCHANGED <<sent, exit, poh_alive, cost_tracker>>
    BY Zenon DEF VerifyAndSchedule
  <1>2. cost_tracker = NewTracker
    BY <1>1 DEF SoloInv, SoloPlaces
  <1>3. PICK j : j = job[w]
    OBVIOUS
  <1>4. PICK valid, g : /\ fate' = FatesVerified(j, fate, valid)
                        /\ Moves(w, "group", WithSchedule(j, Verified(j, valid), g))
    BY <1>3, VerifyAndScheduleIs, Zenon
  <1>5. PICK r, f2 : r = Verified(j, valid) /\ f2 = fate'
    OBVIOUS
  <1>6. PICK k : k = WithSchedule(j, r, g)
    OBVIOUS
  <1>7. Moves(w, "group", k)
    BY <1>4, <1>5, <1>6, Zenon
  <1>8. Fields(j) /\ LoopOk("verify", j, fate)
    BY <1>1, <1>3, LoopHere
  <1>9. k.batch = j.batch /\ k.results = r
    BY <1>6, <1>8, AssignSchedule
  <1>10. \A i \in DOMAIN j.batch : j.batch[i] \in DOMAIN fate /\ fate[j.batch[i]] = "Pending"
    BY <1>8 DEF LoopOk, BatchOk
  <1>11. Committed(k, f2) = {}
    <2>1. \A i \in DOMAIN j.batch : f2[j.batch[i]] # "Committed"
      BY <1>4, <1>5, <1>10 DEF FatesVerified
    <2> QED
      BY <1>9, <2>1 DEF Committed
  <1>12. HeldIn(k) = DOMAIN k.batch
    <2>1. \A i \in DOMAIN j.batch : r[i] # "AccountInUse"
      BY <1>5 DEF Verified
    <2> QED
      BY <1>9, <2>1 DEF HeldIn
  <1>13. Paid("group", k, f2) = {}
    BY <1>11 DEF Paid, InGroupNow, HasGroup
  <1>14. TrackerOk("group", k, f2, sent, cost_tracker)
    BY <1>2, <1>12, <1>13, NothingCharged, Zenon DEF TrackerOk
  <1> QED
    BY <1>1, <1>5, <1>7, <1>14, InsideSolo

\* A member that failed is refunded and stops paying; the others wait for their flush.
LEMMA CollectResultsSolo ==
    ASSUME Inv, NEW w \in Worker, SoloInv(w), CollectResults(w)
    PROVE  SoloInv(w)'
  <1>1. PICK j : j = job[w]
    OBVIOUS
  <1>2. PICK F : /\ F = {i \in ToSet(j.admitted) : j.outcome[i] # "Ok"}
                 /\ fate' = FatesCollected(j, fate, F, F)
                 /\ Moves(w, "commit", WithOverlays(j, Collected(j, F),
                               Those(j.admitted, ToSet(j.admitted) \ F)))
    BY <1>1, CollectResultsIs, Zenon
  <1>3. PICK r, o, f2 : /\ r = Collected(j, F) /\ o = Those(j.admitted, ToSet(j.admitted) \ F)
                        /\ f2 = fate'
    OBVIOUS
  <1>4. PICK k : k = WithOverlays(j, r, o)
    OBVIOUS
  <1>5. Moves(w, "commit", k)
    BY <1>2, <1>3, <1>4, Zenon
  <1>6. pc[w] = "collect" /\ UNCHANGED <<sent, exit, poh_alive>>
    BY Zenon DEF CollectResults
  <1>7. Fields(j) /\ LoopOk("collect", j, fate)
    BY <1>1, <1>6, LoopHere
  <1>8. k.batch = j.batch /\ k.results = r /\ k.overlays = o
    BY <1>4, <1>7, AssignOverlays
  <1>9. TrackerOk("collect", j, fate, sent, cost_tracker)
    BY <1>1, <1>6, Zenon DEF SoloInv
  <1>10. PICK u : u = cost_tracker'
    OBVIOUS
  <1>11. u = Refund(w, Those(j.admitted, F))
    <2>1. PICK M, G : M = ToSet(j.admitted) /\ G = {i \in M : j.outcome[i] = "Ok"}
      BY Zenon
    <2>2. cost_tracker' = Refund(w, Those(j.admitted, M \ G))
      BY <1>1, <2>1, Zenon DEF CollectResults, Members
    <2>3. M \ G = F
      BY <1>2, <2>1
    <2> QED
      BY <1>10, <2>2, <2>3, Zenon
  <1>12. TrackerOk("commit", k, f2, sent, u)
    BY <1>1, <1>2, <1>3, <1>7, <1>8, <1>9, <1>11, FailedIsRefunded
  <1> QED
    BY <1>3, <1>5, <1>6, <1>10, <1>12, InsideSolo

\* Committing a record: its members paid as the group in hand, and pay as committed.
LEMMA BeginFlushSolo ==
    ASSUME Inv, NEW w \in Worker, SoloInv(w), BeginFlush(w)
    PROVE  SoloInv(w)' /\ cost_tracker' = cost_tracker
  <1>1. PICK j, i : j = job[w] /\ i = Head(j.overlays)
    OBVIOUS
  <1>2. PICK o, e : o = Tail(j.overlays) /\ e = overlay_of(TxAt(w, i), j.loaded[i])
    OBVIOUS
  <1>3. PICK k : k = WithFlush(j, o, e)
    OBVIOUS
  <1>4. /\ pc[w] = "commit" /\ j.overlays # <<>>
        /\ UNCHANGED <<sent, exit, poh_alive, cost_tracker>>
    BY <1>1 DEF BeginFlush
  <1>5. Fields(j) /\ LoopOk("commit", j, fate) /\ job = [v \in Worker |-> job[v]]
    BY <1>1, <1>4, LoopHere
  <1>6. Moves(w, "commit", k)
    <2>1. job' = [job EXCEPT ![w] = k]
      BY <1>1, <1>2, <1>3, <1>5, Zenon DEF BeginFlush, WithFlush
    <2> QED
      BY <1>4, <2>1, LoopHere, Zenon DEF Moves, BeginFlush
  <1>7. k.batch = j.batch /\ k.results = j.results /\ k.overlays = o
    BY <1>3, <1>5, AssignFlush
  <1>8. PICK f2 : /\ f2 = fate'
                  /\ f2 = [id \in DOMAIN fate |-> IF id \in {j.batch[i]} THEN "Committed" ELSE fate[id]]
    BY <1>1 DEF BeginFlush, Settle, Ids
  <1>9. TrackerOk("commit", j, fate, sent, cost_tracker)
    BY <1>1, <1>4, Zenon DEF SoloInv
  <1>10. TrackerOk("commit", k, f2, sent, cost_tracker)
    BY <1>1, <1>2, <1>4, <1>5, <1>7, <1>8, <1>9, FlushedHasPaid
  <1> QED
    BY <1>4, <1>6, <1>8, <1>10, InsideSolo

\* Writing an account back touches neither the tracker nor the fates.
LEMMA FlushAccountSolo ==
    ASSUME Inv, NEW w \in Worker, SoloInv(w), NEW key, FlushAccount(w, key)
    PROVE  SoloInv(w)' /\ cost_tracker' = cost_tracker
  <1>1. PICK j : j = job[w]
    OBVIOUS
  <1>2. pc[w] = "commit" /\ UNCHANGED <<pc, fate, sent, exit, poh_alive, cost_tracker>>
    BY DEF FlushAccount
  <1>3. Fields(j) /\ job = [v \in Worker |-> job[v]]
    BY <1>1, LoopHere
  <1>4. PICK e : job' = [job EXCEPT ![w].flushing = e]
    BY Zenon DEF FlushAccount
  <1>5. PICK k : k = WithFlush(j, j.overlays, e)
    OBVIOUS
  <1>6. Moves(w, "commit", k)
    <2>1. job' = [job EXCEPT ![w] = [j EXCEPT !.flushing = e]]
      BY <1>1, <1>3, <1>4
    <2>2. [j EXCEPT !.flushing = e] = WithFlush(j, j.overlays, e)
      BY <1>3, AssignOne
    <2>3. pc' = [pc EXCEPT ![w] = "commit"]
      BY <1>2, LoopHere
    <2> QED
      BY <1>5, <2>1, <2>2, <2>3, Zenon DEF Moves
  <1>7. k.batch = j.batch /\ k.results = j.results /\ k.overlays = j.overlays
    BY <1>3, <1>5, AssignFlush
  <1>8. TrackerOk("commit", j, fate, sent, cost_tracker)
    BY <1>1, <1>2, Zenon DEF SoloInv
  <1>9. Paid("commit", k, fate) = Paid("commit", j, fate) /\ HeldIn(k) = HeldIn(j)
    BY <1>7 DEF Paid, InGroupNow, HasGroup, Committed, HeldIn
  <1>10. InProcess("commit")
    BY DEF InProcess
  <1>11. TrackerOk("commit", k, fate, sent, cost_tracker)
    BY <1>7, <1>8, <1>9, <1>10, SamePayers
  <1> QED
    BY <1>2, <1>6, <1>11, InsideSolo

\* Giving the locks back touches neither the tracker nor the fates.
LEMMA ReleaseGroupSolo ==
    ASSUME Inv, NEW w \in Worker, SoloInv(w), ReleaseGroup(w)
    PROVE  SoloInv(w)' /\ cost_tracker' = cost_tracker
  <1>1. PICK j : j = job[w]
    OBVIOUS
  <1>2. /\ pc[w] = "commit" /\ j.overlays = <<>>
        /\ UNCHANGED <<fate, sent, exit, poh_alive, cost_tracker>>
    BY <1>1 DEF ReleaseGroup
  <1>3. Fields(j) /\ job = [v \in Worker |-> job[v]]
    BY <1>1, LoopHere
  <1>4. PICK l, a : l = EmptyMap /\ a = <<>>
    OBVIOUS
  <1>5. PICK k : k = WithNoGroup(j, l, l, a)
    OBVIOUS
  <1>6. Moves(w, "group", k)
    BY <1>1, <1>3, <1>4, <1>5, Zenon DEF Moves, ReleaseGroup, WithNoGroup
  <1>7. k.batch = j.batch /\ k.results = j.results
    BY <1>3, <1>5, AssignNoGroup
  <1>8. TrackerOk("commit", j, fate, sent, cost_tracker)
    BY <1>1, <1>2, Zenon DEF SoloInv
  <1>9. Committed(k, fate) = Committed(j, fate) /\ HeldIn(k) = HeldIn(j)
    BY <1>7, Zenon DEF Committed, HeldIn
  <1>10. InProcess("commit") /\ ~HasGroup("group") /\ ~HasGroup("commit") /\ ToSet(<<>>) = {}
    BY DEF InProcess, HasGroup, ToSet
  <1>11. Paid("group", k, fate) = Paid("commit", j, fate)
    BY <1>2, <1>9, <1>10 DEF Paid, InGroupNow
  <1>12. TrackerOk("group", k, fate, sent, cost_tracker)
    BY <1>7, <1>8, <1>9, <1>10, <1>11, SamePayers
  <1> QED
    BY <1>2, <1>6, <1>12, InsideSolo

\* One loop is never refused: at the lock call no guard is alive and the table is empty.
LEMMA NeverRefused ==
    ASSUME NEW w, Worker = {w}, GuardsOnlyInGroup
    PROVE  ~AccountsInUse(w)
  <1> SUFFICES ASSUME AccountsInUse(w) PROVE FALSE
    OBVIOUS
  <1>1. pc[w] = "lock" /\ Locks!InUse(GroupSets(w))
    BY Zenon DEF AccountsInUse, Locks!TryLockErr
  <1>2. InGroup = {}
    BY <1>1 DEF InGroup
  <1>3. write_locks = {} /\ DOMAIN read_locks = {}
    BY <1>2 DEF GuardsOnlyInGroup
  <1> QED
    BY <1>1, <1>3, Zenon DEF Locks!InUse

\* The limits, of any tracker.
LimitsOf(t) ==
    /\ t.block_cost <= block_cost_limit
    /\ \A key \in DOMAIN t.cost_by_writable_accounts :
          LET charged == t.cost_by_writable_accounts[key]
          IN  charged > account_cost_limit =>
                \E tx \in Tx : LET cost == calculate_cost(tx)
                              IN  key \in cost.writable_accounts /\ charged = cost.sum

\* A new tracker is within every limit.
LEMMA NewTrackerInLimits == LimitsOf(NewTracker)
  <1>1. NewTracker.block_cost = 0 /\ DOMAIN NewTracker.cost_by_writable_accounts = {}
    BY DEF NewTracker
  <1> QED
    BY <1>1, CostConstants DEF LimitsOf

\* A tracker that is charged for members of a batch is within them.
LEMMA ChargedInLimits ==
    ASSUME NEW s \in Seq(Tx), NEW f, DOMAIN f = 1..Len(s), NEW p, NEW j, LoopOk(p, j, f),
           InProcess(p), NEW t, TrackerOk(p, j, f, s, t)
    PROVE  LimitsOf(t)
  <1>1. PICK C, v, W : C = Paid(p, j, f) /\ v = Spent(j, s) /\ W = Written(j, s)
    BY Zenon
  <1>2. Charged(t, v, W, C)
    BY <1>1, Zenon DEF TrackerOk
  <1>3. ASSUME NEW i \in C PROVE i \in DOMAIN j.batch /\ s[j.batch[i]] \in Tx
    <2>1. i \in DOMAIN j.batch
      <3>1. CASE i \in Committed(j, f)
        BY <3>1 DEF Committed
      <3>2. CASE i \in InGroupNow(p, j)
        <4>1. i \in InHand(p, j)
          BY <3>2 DEF InGroupNow, InHand
        <4> QED
          BY <4>1, OpenIsHeld DEF Open
      <3> QED
        BY <1>1, <1>3, <3>1, <3>2 DEF Paid
    <2>2. j.batch \in Seq(1..Len(s))
      BY Zenon DEF LoopOk, BatchOk
    <2> QED
      BY <2>1, <2>2
  <1>4. PICK by : by = t.cost_by_writable_accounts
    OBVIOUS
  <1>5. t.block_cost <= block_cost_limit /\ EntriesOk(by, v, W, C)
    BY <1>2, <1>4, Zenon DEF Charged
  <1>6. \A key \in DOMAIN by : by[key] <= account_cost_limit \/ \E i \in Payers(W, C, key) : by[key] = v[i]
    BY <1>5, Zenon DEF EntriesOk
  <1>7. ASSUME NEW key \in DOMAIN by, by[key] > account_cost_limit
        PROVE  \E tx \in Tx : key \in calculate_cost(tx).writable_accounts
                              /\ by[key] = calculate_cost(tx).sum
    <2>1. /\ by[key] \in 0..U64_MAX /\ account_cost_limit \in Nat
      BY <1>2, <1>4, ChargedBounds, CostConstants
    <2>2. ~(by[key] <= account_cost_limit)
      BY <1>7, <2>1, U64Assumption
    <2>3. PICK i \in C : key \in W[i] /\ by[key] = v[i]
      BY <1>6, <2>2 DEF Payers
    <2>4. i \in DOMAIN j.batch /\ s[j.batch[i]] \in Tx
      BY <1>3
    <2>5. /\ v[i] = calculate_cost(s[j.batch[i]]).sum
          /\ W[i] = calculate_cost(s[j.batch[i]]).writable_accounts
      BY <1>1, <2>4, Zenon DEF Spent, Written
    <2> QED
      BY <2>3, <2>4, <2>5, Zenon
  <1> QED
    BY <1>4, <1>5, <1>7, Zenon DEF LimitsOf

\* The rest of the node does not touch the tracker, and what it sends is not in a batch.
LEMMA NodeSolo ==
    ASSUME Inv, NEW w \in Worker, Worker = {w}, SoloInv(w),
           \/ \E tx \in Tx : SendTransaction(tx)
           \/ Exit \/ PohStops \/ Terminated \/ UNCHANGED vars
    PROVE  SoloInv(w)' /\ cost_tracker' = cost_tracker
  <1>1. CASE Exit \/ PohStops \/ Terminated \/ UNCHANGED vars
    <2>1. /\ UNCHANGED <<pc, job, fate, sent, cost_tracker>>
          /\ exit => exit'
          /\ poh_alive' = poh_alive \/ exit' \/ pc'[w] = "stopped"
      BY <1>1 DEF Exit, PohStops, Terminated, vars
    <2>2. TrackerOk(pc[w], job[w], fate, sent, cost_tracker)' /\ CostAt(w, Head(job[w].to_admit))' = CostAt(w, Head(job[w].to_admit))
      BY <2>1, Zenon DEF SoloInv, CostAt, TxAt
    <2>3. SoloPlaces(w)'
      BY <2>1, <2>2 DEF SoloInv, SoloPlaces
    <2> QED
      BY <2>1, <2>2, <2>3, Zenon DEF SoloInv
  <1>2. ASSUME NEW tx \in Tx, SendTransaction(tx) PROVE SoloInv(w)' /\ cost_tracker' = cost_tracker
    <2>1. /\ UNCHANGED <<pc, job, cost_tracker, exit, poh_alive>>
          /\ sent' = Append(sent, tx) /\ fate' = Append(fate, "Pending")
      BY <1>2 DEF SendTransaction
    <2>2. PICK j, p, s2, f2 : j = job[w] /\ p = pc[w] /\ s2 = sent' /\ f2 = fate'
      OBVIOUS
    <2>3. \A id \in 1..Len(sent) : s2[id] = sent[id] /\ f2[id] = fate[id]
      <3>1. sent \in Seq(Tx) /\ fate \in Seq(Fates) /\ Len(fate) = Len(sent)
        BY DEF Inv, Shape
      <3> QED
        BY <2>1, <2>2, <3>1
    <2>4. LoopOk(p, j, fate) /\ j.batch \in Seq(1..Len(sent))
      <3>1. LoopOk(p, j, fate) /\ DOMAIN fate = 1..Len(sent)
        BY <2>2, LoopHere, LengthType DEF Inv
      <3> QED
        BY <3>1 DEF LoopOk, BatchOk
    <2>5. \A i \in DOMAIN j.batch : s2[j.batch[i]] = sent[j.batch[i]] /\ f2[j.batch[i]] = fate[j.batch[i]]
      BY <2>3, <2>4
    <2>6. Spent(j, s2) = Spent(j, sent) /\ Written(j, s2) = Written(j, sent)
      BY <2>5, Zenon DEF Spent, Written
    <2>7. Paid(p, j, f2) = Paid(p, j, fate)
      <3>1. Committed(j, f2) = Committed(j, fate)
        BY <2>5 DEF Committed
      <3> QED
        BY <3>1, Zenon DEF Paid
    <2>8. TrackerOk(p, j, f2, s2, cost_tracker)
      BY <2>2, <2>6, <2>7, Zenon DEF SoloInv, TrackerOk
    <2>9. SoloPlaces(w)'
      <3>1. ASSUME p = "add"
            PROVE  CostAt(w, Head(job[w].to_admit))' = CostAt(w, Head(job[w].to_admit))
        <4>1. PICK i : i = Head(j.to_admit)
          OBVIOUS
        <4>2. i \in DOMAIN j.batch
          <5>1. j.to_admit # <<>>
            BY <2>4, <3>1 DEF LoopOk, GroupOk
          <5> QED
            BY <2>4, <3>1, <4>1, <5>1, FirstHasNotPaid
        <4>3. s2[j.batch[i]] = sent[j.batch[i]]
          BY <2>5, <4>2
        <4> QED
          BY <2>1, <2>2, <4>1, <4>3, Zenon DEF CostAt, TxAt
      <3> QED
        BY <2>1, <2>2, <3>1 DEF SoloInv, SoloPlaces
    <2> QED
      BY <2>1, <2>2, <2>8, <2>9, Zenon DEF SoloInv
  <1> QED
    BY <1>1, <1>2, Zenon

\* One action after the other.
LEMMA WorkerSolo ==
    ASSUME Inv, Costed, NEW w \in Worker, Worker = {w}, GuardsOnlyInGroup, SoloInv(w), WorkerStep(w)
    PROVE  /\ SoloInv(w)'
           /\ cost_tracker' \in {cost_tracker, NewTracker} \/ InProcess(pc'[w])
  <1>1. CASE \/ Stop(w) \/ Poll(w) \/ Receive(w) \/ ReceiveEnds(w) \/ VerifyPanics(w)
             \/ Cancelled(w) \/ FinishBatch(w) \/ RecordFails(w) \/ RecordPanics(w)
             \/ \E i \in DOMAIN job[w].outcome : ExecutePanics(w, i)
    BY <1>1, OutsideStep
  <1>2. CASE VerifyAndSchedule(w) \/ NextGroup(w) \/ WouldFit(w) \/ WouldNotFit(w)
    BY <1>2, VerifyAndScheduleSolo, TakeGroupSolo, WouldFitSolo, WouldNotFitSolo
  <1>3. CASE AdmissionEnds(w) \/ Record(w) \/ LockAccounts(w)
    BY <1>3, OnwardSolo, LockAccountsSolo
  <1>4. CASE AddCost(w)
    <2>1. pc'[w] = "admit"
      BY <1>4, LoopHere DEF AddCost
    <2> QED
      BY <1>4, <2>1, AddCostSolo DEF InProcess, HasGroup
  <1>5. CASE CollectResults(w)
    <2>1. pc'[w] = "commit"
      BY <1>5, LoopHere, Zenon DEF CollectResults
    <2> QED
      BY <1>5, <2>1, CollectResultsSolo DEF InProcess, HasGroup
  <1>6. CASE \E i \in DOMAIN job[w].outcome : PreflightFails(w, i) \/ LoadAccount(w, i) \/ Execute(w, i)
    BY <1>6, MemberSolo
  <1>7. CASE BeginFlush(w) \/ ReleaseGroup(w)
    BY <1>7, BeginFlushSolo, ReleaseGroupSolo
  <1>8. CASE \E key \in DOMAIN job[w].flushing : FlushAccount(w, key)
    BY <1>8, FlushAccountSolo
  <1>9. ~AccountsInUse(w)
    BY NeverRefused
  <1>10. ~RollBackCost(w) /\ ~Requeue(w)
    BY DEF SoloInv, SoloPlaces, RollBackCost, Requeue
  <1> QED
    BY <1>1, <1>2, <1>3, <1>4, <1>5, <1>6, <1>7, <1>8, <1>9, <1>10, Zenon DEF WorkerStep

\* Every step of the only loop, and every step of the rest of the program, keeps the
\* invariant of the tracker.
LEMMA SoloStep ==
    ASSUME Inv, Inv', Costed, NEW w, Worker = {w}, GuardsOnlyInGroup, SoloInv(w), LimitsKept,
           [Next]_vars
    PROVE  SoloInv(w)' /\ LimitsKept'
  <1>1. /\ SoloInv(w)'
        /\ cost_tracker' \in {cost_tracker, NewTracker} \/ InProcess(pc'[w])
    <2>1. CASE \E v \in Worker : WorkerStep(v)
      BY <2>1, WorkerSolo
    <2>2. CASE (\E tx \in Tx : SendTransaction(tx)) \/ Exit \/ PohStops \/ Terminated \/ UNCHANGED vars
      BY <2>2, NodeSolo
    <2> QED
      BY <2>1, <2>2, Zenon DEF Next
  <1>2. PICK p, j, f, s, t : p = pc'[w] /\ j = job'[w] /\ f = fate' /\ s = sent' /\ t = cost_tracker'
    OBVIOUS
  <1>3. LimitsOf(t)
    <2>1. CASE t = cost_tracker
      BY <2>1, Zenon DEF LimitsKept, LimitsOf
    <2>2. CASE t = NewTracker
      BY <2>2, NewTrackerInLimits
    <2>3. CASE InProcess(p)
      <3>1. TrackerOk(p, j, f, s, t)
        BY <1>1, <1>2, Zenon DEF SoloInv
      <3>2. s \in Seq(Tx) /\ DOMAIN f = 1..Len(s)
        BY <1>2 DEF Inv, Shape
      <3>3. LoopOk(p, j, f)
        BY <1>2, Zenon DEF Inv, PipelineOk
      <3> QED
        BY <2>3, <3>1, <3>2, <3>3, ChargedInLimits
    <2> QED
      BY <1>1, <1>2, <2>1, <2>2, <2>3
  <1>4. LimitsKept'
    BY <1>2, <1>3, Zenon DEF LimitsKept, LimitsOf
  <1> QED
    BY <1>1, <1>4

\* main starts one banking loop.
OneWorker == \E w : Worker = {w}

\* It holds at the start: nothing is charged and nobody has committed.
LEMMA SoloInit ==
    ASSUME NEW w, Worker = {w}, Init
    PROVE  SoloInv(w) /\ LimitsKept
  <1>1. pc[w] = "head" /\ cost_tracker = NewTracker /\ poh_alive
    BY DEF Init
  <1>2. SoloInv(w)
    BY <1>1 DEF SoloInv, SoloPlaces, TrackerOk, InProcess, HasGroup
  <1>3. LimitsKept
    BY <1>1, NewTrackerInLimits, Zenon DEF LimitsKept, LimitsOf
  <1> QED
    BY <1>2, <1>3

\* With one loop no batch exceeds the block limit, and an account exceeds its own only
\* through the one transaction that writes it first, whatever is refused, fails, panics or
\* is refunded in between.
THEOREM LimitsHold ==
    ASSUME OneWorker, Costed
    PROVE  Spec => []LimitsKept
  <1>1. PICK w : Worker = {w}
    BY DEF OneWorker
  <1>2. Init => SoloInv(w) /\ LimitsKept
    BY <1>1, SoloInit
  <1>3. /\ Inv /\ Inv' /\ GuardsOnlyInGroup /\ SoloInv(w) /\ LimitsKept /\ [Next]_vars
        => SoloInv(w)' /\ LimitsKept'
    BY <1>1, SoloStep
  <1> QED
    BY <1>2, <1>3, InvHolds, GuardsReturned, PTL DEF Spec

TrackerHolds(w, C, by) ==
    /\ cost_tracker.block_cost = SumOfCosts(w, C)
    /\ \A key : SumOfCosts(w, {i \in C : key \in CostAt(w, i).writable_accounts})
                  = IF key \in DOMAIN by THEN by[key] ELSE 0

\* Between groups the tracker holds the costs of what the batch has committed.
LEMMA ChargedIsCommitted ==
    ASSUME NEW w, SoloInv(w), pc[w] = "group", NEW C, C = Committed(job[w], fate),
           NEW by, by = cost_tracker.cost_by_writable_accounts
    PROVE  TrackerHolds(w, C, by)
  <1>1. PICK j, v, W : j = job[w] /\ v = Spent(j, sent) /\ W = Written(j, sent)
    BY Zenon
  <1>2. Charged(cost_tracker, v, W, C)
    <2>1. InProcess("group") /\ Paid("group", j, fate) = C
      BY <1>1 DEF Paid, InGroupNow, InProcess, HasGroup
    <2> QED
      BY <1>1, <2>1, Zenon DEF SoloInv, TrackerOk
  <1>3. \A i \in C : CostAt(w, i).sum = v[i] /\ CostAt(w, i).writable_accounts = W[i]
    <2>1. \A i \in C : i \in DOMAIN j.batch
      BY <1>1 DEF Committed
    <2> QED
      BY <1>1, <2>1, Zenon DEF CostAt, TxAt, Spent, Written
  <1>4. ASSUME NEW P, P \subseteq C
        PROVE  SumOfCosts(w, P) = SumFunctionOnSet(v, P)
    <2>1. IsFiniteSet(P)
      BY <1>2, <1>4, FS_Subset DEF Charged
    <2>2. PICK c : c = [i \in P |-> CostAt(w, i).sum]
      BY Zenon
    <2>3. DOMAIN c = P /\ \A i \in P : c[i] = v[i]
      BY <1>3, <1>4, <2>2
    <2>4. SumFunctionOnSet(c, P) = SumFunctionOnSet(v, P)
      BY <2>1, <2>3, SumSame
    <2> QED
      BY <2>2, <2>3, <2>4, Zenon DEF SumOfCosts, SumFunction
  <1>5. cost_tracker.block_cost = SumOfCosts(w, C)
    BY <1>2, <1>4, Zenon DEF Charged
  <1>6. EntriesOk(by, v, W, C)
    BY <1>2, Zenon DEF Charged
  <1>7. ASSUME NEW key
        PROVE  SumOfCosts(w, {i \in C : key \in CostAt(w, i).writable_accounts})
                 = IF key \in DOMAIN by THEN by[key] ELSE 0
    <2>1. PICK P : P = Payers(W, C, key)
      OBVIOUS
    <2>2. P \subseteq C /\ {i \in C : key \in CostAt(w, i).writable_accounts} = P
      BY <1>3, <2>1 DEF Payers
    <2>3. SumOfCosts(w, P) = SumFunctionOnSet(v, P)
      BY <1>4, <2>2
    <2>4. CASE key \in DOMAIN by
      BY <1>6, <2>1, <2>2, <2>3, <2>4, Zenon DEF EntriesOk
    <2>5. CASE key \notin DOMAIN by
      <3>1. P = {}
        BY <1>6, <2>1, <2>5 DEF EntriesOk, Payers
      <3> QED
        BY <2>2, <2>3, <2>5, <3>1, SumEmpty, Zenon
    <2> QED
      BY <2>4, <2>5
  <1> QED
    BY <1>5, <1>7, Zenon DEF TrackerHolds

\* With one loop the tracker is exact between groups, per block and per written account:
\* what failed is refunded in full, what committed is charged once.
THEOREM TrackerExact ==
    ASSUME OneWorker, Costed
    PROVE  Spec => []TrackerIsOfCommitted
  <1>1. PICK w : Worker = {w}
    BY DEF OneWorker
  <1>2. Init => SoloInv(w) /\ LimitsKept
    BY <1>1, SoloInit
  <1>3. /\ Inv /\ Inv' /\ GuardsOnlyInGroup /\ SoloInv(w) /\ LimitsKept /\ [Next]_vars
        => SoloInv(w)' /\ LimitsKept'
    BY <1>1, SoloStep
  <1>4. SoloInv(w) => TrackerIsOfCommitted
    <2> SUFFICES ASSUME SoloInv(w) PROVE TrackerIsOfCommitted
      OBVIOUS
    <2>1. pc[w] \in {"recv", "verify"} => cost_tracker = NewTracker
      BY DEF SoloInv, SoloPlaces
    <2>2. ASSUME pc[w] = "group"
          PROVE  LET committed == {i \in DOMAIN job[w].batch : fate[job[w].batch[i]] = "Committed"}
                     writers(key) == {i \in committed : key \in CostAt(w, i).writable_accounts}
                     by == cost_tracker.cost_by_writable_accounts
                 IN  /\ cost_tracker.block_cost = SumOfCosts(w, committed)
                     /\ \A key \in Pubkey :
                           SumOfCosts(w, writers(key)) = IF key \in DOMAIN by THEN by[key] ELSE 0
      <3>1. PICK C, by : /\ C = Committed(job[w], fate)
                         /\ by = cost_tracker.cost_by_writable_accounts
        OBVIOUS
      <3>2. TrackerHolds(w, C, by)
        BY <2>2, <3>1, ChargedIsCommitted
      <3>3. C = {i \in DOMAIN job[w].batch : fate[job[w].batch[i]] = "Committed"}
        BY <3>1 DEF Committed
      <3> QED
        BY <3>1, <3>2, <3>3, Zenon DEF TrackerHolds
    <2> QED
      BY <1>1, <2>1, <2>2, Zenon DEF TrackerIsOfCommitted
  <1> QED
    BY <1>2, <1>3, <1>4, InvHolds, GuardsReturned, PTL DEF Spec

=============================================================================
