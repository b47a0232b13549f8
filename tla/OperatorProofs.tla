--------------------------- MODULE OperatorProofs ---------------------------
(***************************************************************************)
(* Facts about the operators the specifications are built from, for every  *)
(* input: what Those and ScheduleOf return, sums over finite sets, what    *)
(* each instruction of the native programs does to the accounts, and that  *)
(* a transaction conserves lamports.  Folds and recursive functions are    *)
(* unrolled into the sequence of their intermediate values, about which    *)
(* the proofs go by induction.                                             *)
(***************************************************************************)
EXTENDS Schedule, BankExecution, SequenceTheorems, FiniteSetTheorems,
        WellFoundedInduction, TLAPS

\* A non-empty set of naturals has a smallest element.
LEMMA SmallestElement ==
    ASSUME NEW S \in SUBSET Nat, S # {}
    PROVE  \E x \in S : \A y \in S : x <= y
  <1> DEFINE R == OpToRel(<, Nat)
  <1>1. IsWellFoundedOn(R, Nat)
    BY NatLessThanWellFounded, Zenon
  <1>2. R = {p \in Nat \X Nat : p[1] < p[2]}
    BY DEF OpToRel
  <1> HIDE DEF R
  <1>3. PICK x \in S : \A y \in S : ~(<<y, x>> \in R)
    BY <1>1, WFMin, Zenon
  <1>4. \A y \in S : ~(y < x)
    BY <1>2, <1>3, Zenon
  <1> QED
    BY <1>4

\* Induction over the positive naturals, for a set: what holds for n if it holds for
\* all smaller numbers holds for all.
LEMMA StrongInduction ==
    ASSUME NEW N \in Nat, NEW S \in SUBSET (1..N),
           \A n \in 1..N : (\A m \in 1..N : m < n => m \in S) => n \in S
    PROVE  S = 1..N
  <1> DEFINE T == (1..N) \ S
  <1> SUFFICES ASSUME T # {} PROVE FALSE
    BY Zenon
  <1>1. T \in SUBSET Nat
    OBVIOUS
  <1> HIDE DEF T
  <1>2. PICK n \in T : \A m \in T : n <= m
    BY <1>1, SmallestElement
  <1>3. n \in 1..N /\ n \notin S
    BY DEF T
  <1>4. ASSUME NEW m \in 1..N, m < n PROVE m \in S
    <2>1. m \notin T
      BY <1>2, <1>3, <1>4
    <2> QED
      BY <2>1 DEF T
  <1> QED
    BY <1>3, <1>4

\* Max of a set of positions.
LEMMA MaxOfPositions ==
    ASSUME NEW n \in Nat, NEW s \in SUBSET (1..n), s # {}
    PROVE  Max(s) \in s /\ \A y \in s : y <= Max(s)
  <1> DEFINE T == {n - x : x \in s}
  <1>0. \A x \in s : x \in 1..n /\ n - x \in Nat
    OBVIOUS
  <1>1. T \in SUBSET Nat /\ T # {}
    BY <1>0, Zenon
  <1>2. PICK t \in T : \A u \in T : t <= u
    BY <1>1, SmallestElement, Zenon
  <1>3. PICK x \in s : t = n - x
    OBVIOUS
  <1>4. \A y \in s : n - y \in T
    OBVIOUS
  <1>5. ASSUME NEW y \in s PROVE x >= y
    <2>1. n - x <= n - y
      BY <1>2, <1>3, <1>4, Zenon
    <2> QED
      BY <1>0, <2>1
  <1> QED
    BY <1>5, Zenon DEF Max

\* The last of the first k positions.
LEMMA MaxOfPrefix ==
    ASSUME NEW n \in Nat, NEW k \in 1..n
    PROVE  /\ 1..k \in SUBSET (1..n) /\ 1..k # {}
           /\ Max(1..k) = k
           /\ (1..k) \ {k} = 1..(k - 1)
  <1>1. 1..k \in SUBSET (1..n) /\ 1..k # {} /\ k \in 1..k
    OBVIOUS
  <1>2. Max(1..k) \in 1..k /\ \A y \in 1..k : y <= Max(1..k)
    BY <1>1, MaxOfPositions, Zenon
  <1>3. (1..k) \ {k} = 1..(k - 1)
    OBVIOUS
  <1> QED
    BY <1>1, <1>2, <1>3

\* f is the recursion of MapThenFoldSet from the left, over the positions 1..n.
FoldOf(f, n, base, g) ==
    \A s \in SUBSET (1..n) : f[s] = IF s = {} THEN base ELSE g[<<f[s \ {Max(s)}], Max(s)>>]

\* It is well founded.
LEMMA FoldExists ==
    ASSUME NEW n \in Nat, NEW V, NEW base \in V, NEW g \in [V \X (1..n) -> V]
    PROVE  \E f \in [SUBSET (1..n) -> V] : FoldOf(f, n, base, g)
  <1> DEFINE Folds(f, k) == \A s \in SUBSET (1..k) :
                 f[s] = IF s = {} THEN base ELSE g[<<f[s \ {Max(s)}], Max(s)>>]
             E(k) == \E f \in [SUBSET (1..k) -> V] : Folds(f, k)
             S == {k \in 1..n : E(k)}
  <1>1. E(0)
    <2>1. SUBSET (1..0) = {{}}
      OBVIOUS
    <2> DEFINE f == [s \in SUBSET (1..0) |-> base]
    <2>2. f \in [SUBSET (1..0) -> V] /\ Folds(f, 0)
      BY <2>1
    <2> QED
      BY <2>2, Zenon
  <1>2. ASSUME NEW k \in 1..n, E(k - 1) PROVE E(k)
    <2>1. PICK f \in [SUBSET (1..(k - 1)) -> V] : Folds(f, k - 1)
      BY <1>2, Zenon
    <2> DEFINE h == [s \in SUBSET (1..k) |-> IF k \notin s THEN f[s] ELSE g[<<f[s \ {k}], k>>]]
    <2>2. ASSUME NEW s \in SUBSET (1..k)
          PROVE  /\ k \notin s => s \in SUBSET (1..(k - 1))
                 /\ s \ {k} \in SUBSET (1..(k - 1))
                 /\ s # {} => Max(s) \in s /\ \A y \in s : y <= Max(s)
      <3>0. k \in Nat
        OBVIOUS
      <3>1. s # {} => Max(s) \in s /\ \A y \in s : y <= Max(s)
        BY <3>0, MaxOfPositions, Zenon
      <3> QED
        BY <3>1
    <2>3. h \in [SUBSET (1..k) -> V]
      <3> SUFFICES ASSUME NEW s \in SUBSET (1..k)
                   PROVE  (IF k \notin s THEN f[s] ELSE g[<<f[s \ {k}], k>>]) \in V
        OBVIOUS
      <3>1. CASE k \notin s
        BY <2>2, <3>1
      <3>2. CASE k \in s
        <4>1. f[s \ {k}] \in V
          BY <2>2
        <4> QED
          BY <3>2, <4>1
      <3> QED
        BY <3>1, <3>2
    <2>4. ASSUME NEW s \in SUBSET (1..k)
          PROVE  h[s] = IF s = {} THEN base ELSE g[<<h[s \ {Max(s)}], Max(s)>>]
      <3>1. CASE k \in s
        <4>1. Max(s) = k
          <5>1. Max(s) \in 1..k /\ k <= Max(s)
            BY <2>2, <3>1, Zenon
          <5> QED
            BY <5>1
        <4>2. h[s \ {k}] = f[s \ {k}]
          OBVIOUS
        <4> QED
          BY <3>1, <4>1, <4>2
      <3>2. CASE k \notin s
        <4>1. h[s] = f[s] /\ s \in SUBSET (1..(k - 1))
          BY <2>2, <3>2
        <4>2. h[s \ {Max(s)}] = f[s \ {Max(s)}]
          BY <3>2, Zenon
        <4>3. f[s] = IF s = {} THEN base ELSE g[<<f[s \ {Max(s)}], Max(s)>>]
          BY <2>1, <4>1
        <4> QED
          BY <4>1, <4>2, <4>3
      <3> QED
        BY <3>1, <3>2
    <2> HIDE DEF h
    <2> QED
      BY <2>3, <2>4, Zenon
  <1> HIDE DEF E
  <1>3. ASSUME NEW k \in 1..n, \A m \in 1..n : m < k => m \in S
        PROVE  k \in S
    <2>1. E(k - 1)
      <3>1. CASE k = 1
        BY <1>1, <3>1
      <3>2. CASE k # 1
        <4>1. k - 1 \in 1..n /\ k - 1 < k
          BY <3>2
        <4> QED
          BY <1>3, <4>1
      <3> QED
        BY <3>1, <3>2
    <2> QED
      BY <1>2, <2>1
  <1>4. S = 1..n
    <2>1. S \in SUBSET (1..n)
      OBVIOUS
    <2> HIDE DEF S
    <2> QED
      BY <1>3, <2>1, StrongInduction
  <1>5. E(n)
    <2>1. CASE n = 0
      BY <1>1, <2>1
    <2>2. CASE n # 0
      <3>1. n \in S
        BY <1>4, <2>2
      <3> QED
        BY <3>1
    <2> QED
      BY <2>1, <2>2
  <1> QED
    BY <1>5, Zenon DEF E, FoldOf


-----------------------------------------------------------------------------
\* Those, element by element.
ThoseStepByStep(f, seq, set) ==
    /\ f[0] = <<>>
    /\ \A k \in 1..Len(seq) :
          f[k] = IF seq[k] \in set THEN Append(f[k - 1], seq[k]) ELSE f[k - 1]
    /\ Those(seq, set) = f[Len(seq)]

\* The fold of Those, step by step.
LEMMA ThoseSteps ==
    ASSUME NEW S, NEW seq \in Seq(S), NEW set
    PROVE  \E f \in [0..Len(seq) -> Seq(S)] : ThoseStepByStep(f, seq, set)
  <1> DEFINE n == Len(seq)
             V == Seq(S)
             op(those, x) == IF x \in set THEN Append(those, x) ELSE those
             Is(iter) == iter = [s \in SUBSET (1..n) |->
                 IF s = {} THEN <<>> ELSE op(iter[s \ {Max(s)}], seq[Max(s)])]
             g == [p \in V \X (1..n) |-> op(p[1], seq[p[2]])]
  <1>1. n \in Nat /\ DOMAIN seq = 1..n /\ <<>> \in V
    OBVIOUS
  <1>2. Those(seq, set) = (CHOOSE iter : Is(iter))[1..n]
    BY <1>1 DEF Those, FoldLeft, MapThenFoldSet
  <1>3. g \in [V \X (1..n) -> V]
    OBVIOUS
  <1>4. PICK f \in [SUBSET (1..n) -> V] : \A s \in SUBSET (1..n) :
           f[s] = IF s = {} THEN <<>> ELSE g[<<f[s \ {Max(s)}], Max(s)>>]
    <2>1. PICK base : base = <<>>
      OBVIOUS
    <2> HIDE DEF n, V, g
    <2>2. base \in V
      BY <1>1, <2>1
    <2>3. \E f \in [SUBSET (1..n) -> V] : FoldOf(f, n, base, g)
      BY <1>1, <1>3, <2>2, FoldExists, Zenon
    <2> QED
      BY <2>1, <2>3, Zenon DEF FoldOf
  <1>5. ASSUME NEW s \in SUBSET (1..n)
        PROVE  f[s] = IF s = {} THEN <<>> ELSE op(f[s \ {Max(s)}], seq[Max(s)])
    <2>1. s # {} => Max(s) \in 1..n
      BY <1>1, MaxOfPositions, Zenon
    <2>2. f[s \ {Max(s)}] \in V
      BY Zenon
    <2> QED
      BY <1>4, <2>1, <2>2, Zenon
  <1>6. Is(f)
    BY <1>5, Zenon
  <1>7. PICK iter : Is(iter) /\ Those(seq, set) = iter[1..n]
    <2> HIDE DEF Is
    <2> QED
      BY <1>2, <1>6, Zenon
  <1>8. /\ iter[{}] = <<>>
        /\ \A s \in SUBSET (1..n) : s # {} => iter[s] = op(iter[s \ {Max(s)}], seq[Max(s)])
    BY <1>7, Zenon
  <1> HIDE DEF Is, op
  <1>9. ASSUME NEW k \in 1..n PROVE iter[1..k] = op(iter[1..(k - 1)], seq[k])
    <2>1. /\ 1..k \in SUBSET (1..n) /\ 1..k # {}
          /\ Max(1..k) = k
          /\ (1..k) \ {k} = 1..(k - 1)
      BY <1>1, MaxOfPrefix
    <2>2. iter[1..k] = op(iter[(1..k) \ {Max(1..k)}], seq[Max(1..k)])
      BY <1>8, <2>1, Zenon
    <2> QED
      BY <2>1, <2>2, Zenon
  <1>10. iter[1..0] = <<>>
    <2>1. 1..0 = {}
      OBVIOUS
    <2> QED
      BY <1>8, <2>1
  <1> DEFINE h == [k \in 0..n |-> iter[1..k]]
             B == {k \in 1..n : h[k] \in V}
  <1>11. ASSUME NEW k \in 1..n PROVE h[k] = op(h[k - 1], seq[k])
    <2>1. k \in 0..n /\ k - 1 \in 0..n
      BY <1>1
    <2> QED
      BY <1>9, <2>1
  <1>12. h[0] = <<>>
    BY <1>1, <1>10
  <1> HIDE DEF h
  <1>13. B = 1..n
    <2>1. ASSUME NEW k \in 1..n, \A m \in 1..n : m < k => m \in B
          PROVE  k \in B
      <3>1. h[k - 1] \in V
        <4>1. CASE k = 1
          <5>1. k - 1 = 0
            BY <4>1
          <5> QED
            BY <1>1, <1>12, <5>1, Zenon
        <4>2. CASE k # 1
          BY <2>1, <4>2
        <4> QED
          BY <4>1, <4>2
      <3>2. op(h[k - 1], seq[k]) \in V
        BY <3>1 DEF op
      <3> QED
        BY <1>11, <3>2
    <2>2. B \in SUBSET (1..n)
      OBVIOUS
    <2> HIDE DEF B
    <2> QED
      BY <1>1, <2>1, <2>2, StrongInduction, Zenon
  <1>14. \A k \in 0..n : h[k] \in V
    <2> SUFFICES ASSUME NEW k \in 0..n PROVE h[k] \in V
      OBVIOUS
    <2>1. CASE k = 0
      BY <1>1, <1>12, <2>1, Zenon
    <2>2. CASE k # 0
      BY <1>13, <2>2
    <2> QED
      BY <2>1, <2>2
  <1>15. h \in [0..n -> V] /\ h[n] = Those(seq, set)
    BY <1>1, <1>7, <1>14 DEF h
  <1> QED
    BY <1>11, <1>12, <1>15 DEF op, ThoseStepByStep


\* e tells, for each element of t, where it comes from among the first k of seq.
Picks(t, seq, set, k, e) ==
    /\ e \in [1..Len(t) -> 1..k]
    /\ \A i, j \in 1..Len(t) : i < j => e[i] < e[j]
    /\ \A i \in 1..Len(t) : t[i] = seq[e[i]] /\ seq[e[i]] \in set
    /\ \A x \in 1..k : seq[x] \in set => \E i \in 1..Len(t) : e[i] = x

\* Those keeps the order and leaves out nothing.
LEMMA ThosePicks ==
    ASSUME NEW S, NEW seq \in Seq(S), NEW set
    PROVE  /\ Those(seq, set) \in Seq(S)
           /\ \E e : Picks(Those(seq, set), seq, set, Len(seq), e)
  <1> DEFINE n == Len(seq)
  <1>0. PICK f \in [0..n -> Seq(S)] : ThoseStepByStep(f, seq, set)
    BY ThoseSteps, Zenon
  <1>1. /\ f[0] = <<>>
        /\ \A k \in 1..n :
              f[k] = IF seq[k] \in set THEN Append(f[k - 1], seq[k]) ELSE f[k - 1]
        /\ Those(seq, set) = f[n]
    BY <1>0 DEF ThoseStepByStep
  <1>2. n \in Nat /\ \A k \in 1..n : seq[k] \in S
    OBVIOUS
  <1> HIDE DEF n
  <1> DEFINE P(k) == \E e : Picks(f[k], seq, set, k, e)
             G == {k \in 1..n : P(k)}
  <1>3. P(0)
    <2> DEFINE e == [i \in 1..0 |-> 0]
    <2>1. Len(f[0]) = 0
      BY <1>1
    <2>2. Picks(f[0], seq, set, 0, e)
      BY <2>1 DEF Picks
    <2> QED
      BY <2>2
  <1>4. ASSUME NEW k \in 1..n, P(k - 1) PROVE P(k)
    <2>0. k - 1 \in 0..n /\ k \in 0..n /\ k \in Nat
      BY <1>2
    <2>1. PICK t \in Seq(S) : t = f[k - 1]
      BY <1>1, <2>0
    <2>2. PICK d : Picks(t, seq, set, k - 1, d)
      BY <1>4, <2>1
    <2>3. Len(t) \in Nat
      BY <2>1
    <2>4. /\ d \in [1..Len(t) -> 1..(k - 1)]
          /\ \A i, j \in 1..Len(t) : i < j => d[i] < d[j]
          /\ \A i \in 1..Len(t) : t[i] = seq[d[i]] /\ seq[d[i]] \in set
          /\ \A x \in 1..(k - 1) : seq[x] \in set => \E i \in 1..Len(t) : d[i] = x
      BY <2>2 DEF Picks
    <2>5. CASE seq[k] \notin set
      <3>1. f[k] = t
        BY <1>1, <2>1, <2>5
      <3>2. d \in [1..Len(t) -> 1..k]
        BY <2>0, <2>4
      <3>3. \A x \in 1..k : seq[x] \in set => \E i \in 1..Len(t) : d[i] = x
        <4> SUFFICES ASSUME NEW x \in 1..k, seq[x] \in set
                     PROVE  \E i \in 1..Len(t) : d[i] = x
          OBVIOUS
        <4>1. x \in 1..(k - 1)
          BY <2>0, <2>5
        <4> QED
          BY <2>4, <4>1
      <3> QED
        BY <2>4, <3>1, <3>2, <3>3 DEF Picks
    <2>6. CASE seq[k] \in set
      <3> DEFINE e == [i \in 1..(Len(t) + 1) |-> IF i = Len(t) + 1 THEN k ELSE d[i]]
      <3>0. PICK x \in S : x = seq[k]
        BY <1>2
      <3>1. PICK u \in Seq(S) : u = Append(t, x)
        <4>1. Append(t, x) \in Seq(S)
          OBVIOUS
        <4> QED
          BY <4>1, Zenon
      <3>2. /\ f[k] = u /\ Len(u) = Len(t) + 1 /\ u[Len(t) + 1] = seq[k]
            /\ \A i \in 1..Len(t) : u[i] = t[i]
        <4>1. f[k] = u
          BY <1>1, <2>1, <2>6, <3>0, <3>1, Zenon
        <4> QED
          BY <2>1, <3>0, <3>1, <4>1
      <3>3. /\ e[Len(t) + 1] = k
            /\ \A i \in 1..Len(t) : i # Len(t) + 1 /\ i \in 1..(Len(t) + 1) /\ e[i] = d[i]
        BY <2>3
      <3>4. e \in [1..Len(u) -> 1..k]
        <4>1. ASSUME NEW i \in 1..Len(t) PROVE d[i] \in 1..k
          <5>1. d[i] \in 1..(k - 1)
            BY <2>4, Zenon
          <5> QED
            BY <2>0, <5>1
        <4> QED
          BY <2>0, <2>3, <3>2, <4>1
      <3>5. \A i \in 1..Len(u) : i = Len(t) + 1 \/ i \in 1..Len(t)
        BY <2>3, <3>2
      <3> HIDE DEF e
      <3>6. ASSUME NEW i \in 1..Len(u), NEW j \in 1..Len(u), i < j PROVE e[i] < e[j]
        <4>1. i \in 1..Len(t)
          BY <2>3, <3>2, <3>6
        <4>2. d[i] \in 1..(k - 1)
          BY <2>4, <4>1, Zenon
        <4>3. CASE j = Len(t) + 1
          BY <2>0, <3>3, <4>1, <4>2, <4>3
        <4>4. CASE j \in 1..Len(t)
          BY <2>4, <3>3, <3>6, <4>1, <4>4
        <4> QED
          BY <3>5, <4>3, <4>4
      <3>7. ASSUME NEW i \in 1..Len(u) PROVE u[i] = seq[e[i]] /\ seq[e[i]] \in set
        BY <2>4, <2>6, <3>2, <3>3, <3>5
      <3>8. ASSUME NEW y \in 1..k, seq[y] \in set PROVE \E i \in 1..Len(u) : e[i] = y
        <4>1. CASE y = k
          BY <2>3, <3>2, <3>3, <4>1
        <4>2. CASE y # k
          <5>1. y \in 1..(k - 1)
            BY <2>0, <4>2
          <5>2. PICK i \in 1..Len(t) : d[i] = y
            BY <2>4, <3>8, <5>1
          <5>3. i \in 1..Len(u) /\ e[i] = y
            BY <2>3, <3>2, <3>3, <5>2
          <5> QED
            BY <5>3
        <4> QED
          BY <4>1, <4>2
      <3>9. Picks(u, seq, set, k, e)
        BY <3>4, <3>6, <3>7, <3>8 DEF Picks
      <3> QED
        BY <3>2, <3>9
    <2> QED
      BY <2>5, <2>6
  <1> HIDE DEF P
  <1>5. ASSUME NEW k \in 1..n, \A m \in 1..n : m < k => m \in G
        PROVE  k \in G
    <2>1. P(k - 1)
      <3>1. CASE k = 1
        <4>1. k - 1 = 0
          BY <3>1
        <4> QED
          BY <1>3, <4>1
      <3>2. CASE k # 1
        <4>1. k - 1 \in 1..n /\ k - 1 < k
          BY <1>2, <3>2
        <4> QED
          BY <1>5, <4>1
      <3> QED
        BY <3>1, <3>2
    <2> QED
      BY <1>4, <2>1
  <1>6. G = 1..n
    <2>1. G \in SUBSET (1..n)
      OBVIOUS
    <2> HIDE DEF G
    <2> QED
      BY <1>2, <1>5, <2>1, StrongInduction, Zenon
  <1>7. P(n)
    <2>1. CASE n = 0
      BY <1>3, <2>1
    <2>2. CASE n # 0
      <3>0. n \in 1..n
        BY <1>2, <2>2
      <3>1. n \in G
        BY <1>6, <3>0
      <3> QED
        BY <3>1
    <2> QED
      BY <2>1, <2>2
  <1> QED
    BY <1>1, <1>2, <1>7 DEF P, n

\* The elements of Those are those of the sequence that are in the set, each as often.
LEMMA ThoseAre ==
    ASSUME NEW S, NEW seq \in Seq(S), NEW set
    PROVE  /\ Those(seq, set) \in Seq(S)
           /\ ToSet(Those(seq, set)) = ToSet(seq) \cap set
           /\ IsInjective(seq) => IsInjective(Those(seq, set))
  <1>1. PICK t \in Seq(S) : t = Those(seq, set)
    BY ThosePicks
  <1>2. PICK e : Picks(t, seq, set, Len(seq), e)
    BY <1>1, ThosePicks
  <1>3. /\ e \in [1..Len(t) -> 1..Len(seq)]
        /\ \A i, j \in 1..Len(t) : i < j => e[i] < e[j]
        /\ \A i \in 1..Len(t) : t[i] = seq[e[i]] /\ seq[e[i]] \in set
        /\ \A x \in 1..Len(seq) : seq[x] \in set => \E i \in 1..Len(t) : e[i] = x
    BY <1>2, Zenon DEF Picks
  <1>4. ToSet(t) \subseteq ToSet(seq) \cap set
    BY <1>3 DEF ToSet
  <1>5. ToSet(seq) \cap set \subseteq ToSet(t)
    <2> SUFFICES ASSUME NEW x \in 1..Len(seq), seq[x] \in set
                 PROVE  \E i \in 1..Len(t) : t[i] = seq[x]
      BY DEF ToSet
    <2>1. PICK i \in 1..Len(t) : e[i] = x
      BY <1>3
    <2> QED
      BY <1>3, <2>1
  <1>6. ASSUME IsInjective(seq) PROVE IsInjective(t)
    <2> SUFFICES ASSUME NEW i \in 1..Len(t), NEW j \in 1..Len(t), t[i] = t[j]
                 PROVE  i = j
      BY DEF IsInjective
    <2>1. e[i] \in 1..Len(seq) /\ e[j] \in 1..Len(seq) /\ seq[e[i]] = seq[e[j]]
      BY <1>3, Zenon
    <2>2. e[i] = e[j]
      BY <1>6, <2>1 DEF IsInjective
    <2>3. ~(i < j) /\ ~(j < i)
      BY <1>3, <2>1, <2>2
    <2> QED
      BY <2>3
  <1> QED
    BY <1>1, <1>4, <1>5, <1>6


-----------------------------------------------------------------------------
\* One pass of the scheduler.

KeySets(Key) == [read_set: SUBSET Key, write_set: SUBSET Key]
OpenGroup(n, Key) == [indices: Seq(1..n), write_set: SUBSET Key]

\* A visit leaves an open group.
LEMMA VisitTyped ==
    ASSUME NEW Key, NEW sets \in Seq(KeySets(Key)), NEW remaining,
           NEW open \in OpenGroup(Len(sets), Key), NEW i \in 1..Len(sets)
    PROVE  Visit(sets, remaining, open, i) \in OpenGroup(Len(sets), Key)
  <1>1. sets[i] \in KeySets(Key)
    OBVIOUS
  <1>2. /\ open.indices \in Seq(1..Len(sets)) /\ open.write_set \in SUBSET Key
        /\ sets[i].write_set \in SUBSET Key
    BY <1>1 DEF OpenGroup, KeySets
  <1>3. Append(open.indices, i) \in Seq(1..Len(sets))
    BY <1>2
  <1>4. open.write_set \cup sets[i].write_set \in SUBSET Key
    BY <1>2
  <1> QED
    BY <1>3, <1>4 DEF Visit, OpenGroup

\* A pass, index by index.
PassStepByStep(f, sets, remaining) ==
    /\ f[0] = EmptyGroup
    /\ \A k \in 1..Len(sets) : f[k] = Visit(sets, remaining, f[k - 1], k)
    /\ Pass(sets, remaining) = f[Len(sets)].indices

\* The fold of a pass, step by step.
LEMMA PassSteps ==
    ASSUME NEW Key, NEW sets \in Seq(KeySets(Key)), NEW remaining
    PROVE  \E f \in [0..Len(sets) -> OpenGroup(Len(sets), Key)] :
              PassStepByStep(f, sets, remaining)
  <1> DEFINE n == Len(sets)
             V == OpenGroup(n, Key)
             op(open, i) == Visit(sets, remaining, open, i)
             Is(iter) == iter = [s \in SUBSET (1..n) |->
                 IF s = {} THEN EmptyGroup ELSE op(iter[s \ {Max(s)}], [i \in 1..n |-> i][Max(s)])]
             g == [p \in V \X (1..n) |-> op(p[1], p[2])]
  <1>1. n \in Nat /\ DOMAIN sets = 1..n /\ EmptyGroup \in V
    BY DEF EmptyGroup, OpenGroup
  <1>2. Pass(sets, remaining) = (CHOOSE iter : Is(iter))[1..n].indices
    BY <1>1 DEF Pass, FoldLeftDomain, FoldLeft, MapThenFoldSet
  <1>3. g \in [V \X (1..n) -> V]
    <2>1. ASSUME NEW p \in V \X (1..n) PROVE op(p[1], p[2]) \in V
      BY VisitTyped
    <2> HIDE DEF V, n, op
    <2> QED
      BY <2>1
  <1>4. PICK f \in [SUBSET (1..n) -> V] : FoldOf(f, n, EmptyGroup, g)
    <2> HIDE DEF n, V, g
    <2> QED
      BY <1>1, <1>3, FoldExists, Zenon
  <1> HIDE DEF op, V
  <1>5. ASSUME NEW s \in SUBSET (1..n)
        PROVE  f[s] = IF s = {} THEN EmptyGroup
                      ELSE op(f[s \ {Max(s)}], [i \in 1..n |-> i][Max(s)])
    <2>1. s # {} => Max(s) \in 1..n
      BY <1>1, MaxOfPositions, Zenon
    <2>2. f[s \ {Max(s)}] \in V
      BY Zenon
    <2> QED
      BY <1>4, <2>1, <2>2, Zenon DEF FoldOf
  <1>6. Is(f)
    BY <1>5, Zenon
  <1>7. PICK iter : Is(iter) /\ Pass(sets, remaining) = iter[1..n].indices
    <2> HIDE DEF Is
    <2> QED
      BY <1>2, <1>6, Zenon
  <1>8. /\ iter[{}] = EmptyGroup
        /\ \A s \in SUBSET (1..n) : s # {} =>
              iter[s] = op(iter[s \ {Max(s)}], [i \in 1..n |-> i][Max(s)])
    BY <1>7, Zenon
  <1> HIDE DEF Is
  <1>9. ASSUME NEW k \in 1..n PROVE iter[1..k] = op(iter[1..(k - 1)], k)
    <2>1. /\ 1..k \in SUBSET (1..n) /\ 1..k # {}
          /\ Max(1..k) = k
          /\ (1..k) \ {k} = 1..(k - 1)
      BY <1>1, MaxOfPrefix
    <2>2. iter[1..k] = op(iter[(1..k) \ {Max(1..k)}], [i \in 1..n |-> i][Max(1..k)])
      BY <1>8, <2>1, Zenon
    <2> QED
      BY <2>1, <2>2, Zenon
  <1>10. iter[1..0] = EmptyGroup
    <2>1. 1..0 = {}
      OBVIOUS
    <2> QED
      BY <1>8, <2>1
  <1> DEFINE h == [k \in 0..n |-> iter[1..k]]
             B == {k \in 1..n : h[k] \in V}
  <1>11. ASSUME NEW k \in 1..n PROVE h[k] = op(h[k - 1], k)
    <2>1. k \in 0..n /\ k - 1 \in 0..n
      BY <1>1
    <2> QED
      BY <1>9, <2>1
  <1>12. h[0] = EmptyGroup
    BY <1>1, <1>10
  <1> HIDE DEF h
  <1>13. B = 1..n
    <2>1. ASSUME NEW k \in 1..n, \A m \in 1..n : m < k => m \in B
          PROVE  k \in B
      <3>1. h[k - 1] \in V
        <4>1. CASE k = 1
          <5>1. k - 1 = 0
            BY <4>1
          <5> QED
            BY <1>1, <1>12, <5>1
        <4>2. CASE k # 1
          BY <2>1, <4>2
        <4> QED
          BY <4>1, <4>2
      <3>2. op(h[k - 1], k) \in V
        BY <3>1, VisitTyped DEF op, V
      <3> QED
        BY <1>11, <3>2
    <2>2. B \in SUBSET (1..n)
      OBVIOUS
    <2> HIDE DEF B
    <2> QED
      BY <1>1, <2>1, <2>2, StrongInduction, Zenon
  <1>14. \A k \in 0..n : h[k] \in V
    <2> SUFFICES ASSUME NEW k \in 0..n PROVE h[k] \in V
      OBVIOUS
    <2>1. CASE k = 0
      BY <1>1, <1>12, <2>1
    <2>2. CASE k # 0
      BY <1>13, <2>2
    <2> QED
      BY <2>1, <2>2
  <1>15. h \in [0..n -> V] /\ h[n].indices = Pass(sets, remaining)
    BY <1>1, <1>7, <1>14 DEF h
  <1> QED
    BY <1>11, <1>12, <1>15 DEF op, V, PassStepByStep


\* Some member of the group comes before i in the batch and writes a key i names.
Behind(sets, i, group) ==
    \E p \in DOMAIN group : group[p] < i /\ Conflicts(sets[i], sets[group[p]].write_set)

\* What a pass has made of the indices up to k.
GroupSoFar(sets, remaining, group, k) ==
    /\ \A p \in DOMAIN group : group[p] \in remaining /\ group[p] <= k
    /\ \A p, q \in DOMAIN group : p < q => group[p] < group[q]
    /\ \A p, q \in DOMAIN group :
          p < q => Touched(sets[group[q]]) \cap sets[group[p]].write_set = {}
    /\ \A i \in remaining : i <= k => (i \in ToSet(group) \/ Behind(sets, i, group))

WritesOf(sets, group) == UNION {sets[group[p]].write_set : p \in DOMAIN group}

\* A visit takes the index, or passes it over because it conflicts with the group.
LEMMA VisitKeeps ==
    ASSUME NEW Key, NEW sets \in Seq(KeySets(Key)), NEW remaining \in SUBSET (1..Len(sets)),
           NEW open \in OpenGroup(Len(sets), Key), NEW k \in 1..Len(sets),
           GroupSoFar(sets, remaining, open.indices, k - 1),
           open.write_set = WritesOf(sets, open.indices)
    PROVE  LET new == Visit(sets, remaining, open, k)
           IN  /\ GroupSoFar(sets, remaining, new.indices, k)
               /\ new.write_set = WritesOf(sets, new.indices)
  <1> DEFINE new == Visit(sets, remaining, open, k)
  <1>1. PICK t \in Seq(1..Len(sets)) : t = open.indices
    BY DEF OpenGroup
  <1>2. /\ \A p \in 1..Len(t) : t[p] \in remaining /\ t[p] <= k - 1
        /\ \A p, q \in 1..Len(t) : p < q => t[p] < t[q]
        /\ \A p, q \in 1..Len(t) : p < q => Touched(sets[t[q]]) \cap sets[t[p]].write_set = {}
        /\ \A i \in remaining : i <= k - 1 => (i \in ToSet(t) \/ Behind(sets, i, t))
    BY <1>1 DEF GroupSoFar
  <1>3. open.write_set = WritesOf(sets, t) /\ DOMAIN t = 1..Len(t) /\ Len(t) \in Nat
    BY <1>1
  <1>4. \A i \in remaining : i \in Nat /\ (i <= k => i = k \/ i <= k - 1)
    OBVIOUS
  <1>5. CASE k \notin remaining
    <2>1. new = open
      BY <1>5 DEF Visit
    <2>2. GroupSoFar(sets, remaining, t, k)
      BY <1>2, <1>3, <1>4, <1>5 DEF GroupSoFar
    <2> QED
      BY <1>1, <1>3, <2>1, <2>2
  <1>6. CASE k \in remaining /\ Conflicts(sets[k], open.write_set)
    <2>1. new = open
      BY <1>6 DEF Visit
    <2>2. PICK p \in 1..Len(t) : Conflicts(sets[k], sets[t[p]].write_set)
      <3>1. PICK key : key \in Touched(sets[k]) /\ key \in WritesOf(sets, t)
        BY <1>3, <1>6 DEF Conflicts
      <3>2. PICK p \in 1..Len(t) : key \in sets[t[p]].write_set
        BY <1>3, <3>1 DEF WritesOf
      <3> QED
        BY <3>1, <3>2 DEF Conflicts
    <2>3. t[p] < k
      BY <1>2
    <2>4. Behind(sets, k, t)
      BY <1>3, <2>2, <2>3, Zenon DEF Behind
    <2>5. GroupSoFar(sets, remaining, t, k)
      BY <1>2, <1>3, <1>4, <2>4 DEF GroupSoFar
    <2> QED
      BY <1>1, <1>3, <2>1, <2>5
  <1>7. CASE k \in remaining /\ ~Conflicts(sets[k], open.write_set)
    <2>1. PICK u \in Seq(1..Len(sets)) : u = Append(t, k)
      <3>1. Append(t, k) \in Seq(1..Len(sets))
        OBVIOUS
      <3> QED
        BY <3>1, Zenon
    <2>2. /\ Len(u) = Len(t) + 1 /\ DOMAIN u = 1..Len(u) /\ u[Len(t) + 1] = k
          /\ \A p \in 1..Len(t) : u[p] = t[p]
      BY <2>1
    <2>3. \A p \in 1..Len(u) : p \in 1..Len(t) \/ p = Len(t) + 1
      BY <1>3, <2>2
    <2>4. /\ new.indices = u
          /\ new.write_set = open.write_set \cup sets[k].write_set
      BY <1>1, <1>7, <2>1 DEF Visit
    <2>5. new.write_set = WritesOf(sets, u)
      <3>1. WritesOf(sets, u) = WritesOf(sets, t) \cup sets[k].write_set
        <4>1. Len(t) + 1 \in 1..Len(u) /\ \A p \in 1..Len(t) : p \in 1..Len(u)
          BY <1>3, <2>2
        <4> QED
          BY <1>3, <2>2, <2>3, <4>1, Zenon DEF WritesOf
      <3> QED
        BY <1>3, <2>4, <3>1
    <2>6. \A p \in 1..Len(u) : u[p] \in remaining /\ u[p] <= k
      <3> SUFFICES ASSUME NEW p \in 1..Len(u) PROVE u[p] \in remaining /\ u[p] <= k
        OBVIOUS
      <3>1. CASE p = Len(t) + 1
        BY <1>7, <2>2, <3>1
      <3>2. CASE p \in 1..Len(t)
        <4>1. u[p] \in remaining /\ u[p] <= k - 1
          BY <1>2, <2>2, <3>2, Zenon
        <4> QED
          BY <1>4, <4>1
      <3> QED
        BY <2>3, <3>1, <3>2
    <2>7. \A p, q \in 1..Len(u) : p < q => p \in 1..Len(t)
      BY <1>3, <2>2
    <2>8. ASSUME NEW p \in 1..Len(u), NEW q \in 1..Len(u), p < q
          PROVE  u[p] < u[q] /\ Touched(sets[u[q]]) \cap sets[u[p]].write_set = {}
      <3>1. p \in 1..Len(t) /\ u[p] = t[p] /\ t[p] <= k - 1 /\ t[p] \in Nat
        BY <1>2, <1>4, <2>2, <2>7, <2>8, Zenon
      <3>2. CASE q \in 1..Len(t)
        BY <1>2, <2>2, <2>8, <3>1, <3>2, Zenon
      <3>3. CASE q = Len(t) + 1
        <4>1. u[q] = k /\ u[p] < k
          BY <2>2, <3>1, <3>3
        <4>2. sets[t[p]].write_set \subseteq open.write_set
          BY <1>3, <3>1, Zenon DEF WritesOf
        <4>3. Touched(sets[k]) \cap open.write_set = {}
          BY <1>7 DEF Conflicts
        <4> QED
          BY <3>1, <4>1, <4>2, <4>3, Zenon
      <3> QED
        BY <2>3, <3>2, <3>3
    <2>9. ASSUME NEW i \in remaining, i <= k
          PROVE  i \in ToSet(u) \/ Behind(sets, i, u)
      <3>0. Len(t) + 1 \in 1..Len(u) /\ \A p \in 1..Len(t) : p \in 1..Len(u)
        BY <1>3, <2>2
      <3>1. CASE i = k
        BY <2>2, <3>0, <3>1, Zenon DEF ToSet
      <3>2. CASE i \in ToSet(t)
        BY <1>3, <2>2, <3>0, <3>2 DEF ToSet
      <3>3. CASE Behind(sets, i, t)
        BY <1>3, <2>2, <3>0, <3>3, Zenon DEF Behind
      <3> QED
        BY <1>2, <1>4, <2>9, <3>1, <3>2, <3>3
    <2>10. GroupSoFar(sets, remaining, u, k)
      BY <2>2, <2>6, <2>8, <2>9, Zenon DEF GroupSoFar
    <2> QED
      BY <2>4, <2>5, <2>10
  <1> QED
    BY <1>5, <1>6, <1>7

\* What one pass makes of the remaining indices: a conflict-free group of some of
\* them, in their order, behind which every other one has to wait.
LEMMA PassGroup ==
    ASSUME NEW Key, NEW sets \in Seq(KeySets(Key)), NEW remaining \in SUBSET (1..Len(sets))
    PROVE  /\ Pass(sets, remaining) \in Seq(1..Len(sets))
           /\ GroupSoFar(sets, remaining, Pass(sets, remaining), Len(sets))
  <1> DEFINE n == Len(sets)
  <1>1. PICK f \in [0..n -> OpenGroup(n, Key)] : PassStepByStep(f, sets, remaining)
    BY PassSteps, Zenon
  <1>2. /\ f[0] = EmptyGroup
        /\ \A k \in 1..n : f[k] = Visit(sets, remaining, f[k - 1], k)
        /\ Pass(sets, remaining) = f[n].indices
    BY <1>1 DEF PassStepByStep
  <1>3. n \in Nat
    OBVIOUS
  <1> DEFINE P(k) == /\ GroupSoFar(sets, remaining, f[k].indices, k)
                     /\ f[k].write_set = WritesOf(sets, f[k].indices)
             G == {k \in 1..n : P(k)}
  <1>4. P(0)
    <2>1. f[0].indices = <<>> /\ f[0].write_set = {}
      BY <1>2 DEF EmptyGroup
    <2>2. \A i \in remaining : ~(i <= 0)
      OBVIOUS
    <2>3. GroupSoFar(sets, remaining, <<>>, 0)
      BY <2>2 DEF GroupSoFar
    <2>4. WritesOf(sets, <<>>) = {}
      BY DEF WritesOf
    <2> QED
      BY <2>1, <2>3, <2>4
  <1>5. ASSUME NEW k \in 1..n, P(k - 1) PROVE P(k)
    <2>1. PICK open \in OpenGroup(n, Key) : open = f[k - 1]
      BY <1>1, <1>3
    <2>2. f[k] = Visit(sets, remaining, open, k)
      BY <1>2, <2>1
    <2>3. GroupSoFar(sets, remaining, open.indices, k - 1)
          /\ open.write_set = WritesOf(sets, open.indices)
      BY <1>5, <2>1
    <2> QED
      BY <2>2, <2>3, VisitKeeps
  <1> HIDE DEF P
  <1>6. ASSUME NEW k \in 1..n, \A m \in 1..n : m < k => m \in G
        PROVE  k \in G
    <2>1. P(k - 1)
      <3>1. CASE k = 1
        <4>1. k - 1 = 0
          BY <3>1
        <4> QED
          BY <1>4, <4>1
      <3>2. CASE k # 1
        <4>1. k - 1 \in 1..n /\ k - 1 < k
          BY <1>3, <3>2
        <4> QED
          BY <1>6, <4>1
      <3> QED
        BY <3>1, <3>2
    <2> QED
      BY <1>5, <2>1
  <1>7. G = 1..n
    <2>1. G \in SUBSET (1..n)
      OBVIOUS
    <2> HIDE DEF G
    <2> QED
      BY <1>3, <1>6, <2>1, StrongInduction, Zenon
  <1>8. P(n)
    <2>1. CASE n = 0
      BY <1>4, <2>1
    <2>2. CASE n # 0
      <3>0. n \in 1..n
        BY <1>3, <2>2
      <3>1. n \in G
        BY <1>7, <3>0
      <3> QED
        BY <3>1
    <2> QED
      BY <2>1, <2>2
  <1>9. f[n] \in OpenGroup(n, Key)
    BY <1>3
  <1> QED
    BY <1>2, <1>8, <1>9 DEF P, OpenGroup


-----------------------------------------------------------------------------
\* The groups of a batch.

ScheduleState(n) == [remaining: SUBSET (1..n), groups: Seq(Seq(1..n))]

\* Every index of the batch is waiting or in exactly one place of one group.
EachOnceIn(n, remaining, groups) ==
    /\ \A i \in 1..n : \/ i \in remaining
                       \/ \E g \in DOMAIN groups : i \in ToSet(groups[g])
    /\ \A g \in DOMAIN groups : \A p \in DOMAIN groups[g] :
          /\ groups[g][p] \notin remaining
          /\ \A h \in DOMAIN groups : \A q \in DOMAIN groups[h] :
                groups[g][p] = groups[h][q] => g = h /\ p = q

\* The members of a group are in order, and none touches what one before it writes.
ConflictFreeIn(sets, groups) ==
    \A g \in DOMAIN groups : \A p, q \in DOMAIN groups[g] :
        p < q => /\ groups[g][p] < groups[g][q]
                 /\ Touched(sets[groups[g][q]]) \cap sets[groups[g][p]].write_set = {}

\* A transaction waits behind one it conflicts with, in every group before its own.
DelayedIn(sets, remaining, groups) ==
    \A h \in DOMAIN groups :
        /\ groups[h] # <<>>
        /\ \A i \in remaining : Behind(sets, i, groups[h])
        /\ \A g \in DOMAIN groups : \A p \in DOMAIN groups[g] :
              h < g => Behind(sets, groups[g][p], groups[h])

ScheduledSoFar(sets, state) ==
    /\ EachOnceIn(Len(sets), state.remaining, state.groups)
    /\ ConflictFreeIn(sets, state.groups)
    /\ DelayedIn(sets, state.remaining, state.groups)

\* A pass leaves fewer indices and one more group.
LEMMA NextGroupTyped ==
    ASSUME NEW Key, NEW sets \in Seq(KeySets(Key)), NEW state \in ScheduleState(Len(sets))
    PROVE  NextGroupOf(sets, state) \in ScheduleState(Len(sets))
  <1>1. PICK group : group = Pass(sets, state.remaining)
    OBVIOUS
  <1>2. state.remaining \in SUBSET (1..Len(sets)) /\ state.groups \in Seq(Seq(1..Len(sets)))
    BY DEF ScheduleState
  <1>3. group \in Seq(1..Len(sets))
    BY <1>1, <1>2, PassGroup
  <1>4. Append(state.groups, group) \in Seq(Seq(1..Len(sets)))
    BY <1>2, <1>3
  <1>5. state.remaining \ ToSet(group) \in SUBSET (1..Len(sets))
    BY <1>2
  <1> QED
    BY <1>1, <1>4, <1>5 DEF NextGroupOf, ScheduleState

\* A pass over what remains takes at least one index: nothing can be in the way of
\* the first.
LEMMA PassTakes ==
    ASSUME NEW Key, NEW sets \in Seq(KeySets(Key)),
           NEW remaining \in SUBSET (1..Len(sets)), remaining # {}
    PROVE  \E p \in DOMAIN Pass(sets, remaining) : Pass(sets, remaining)[p] \in remaining
  <1> DEFINE group == Pass(sets, remaining)
  <1>1. group \in Seq(1..Len(sets)) /\ GroupSoFar(sets, remaining, group, Len(sets))
    BY PassGroup
  <1> HIDE DEF group
  <1>2. PICK i \in remaining : i <= Len(sets)
    <2>1. PICK i \in remaining : TRUE
      BY Zenon
    <2>2. i \in 1..Len(sets)
      OBVIOUS
    <2> QED
      BY <2>2
  <1>3. \E p \in DOMAIN group : TRUE
    BY <1>1, <1>2 DEF GroupSoFar, ToSet, Behind
  <1> QED
    BY <1>1, <1>3 DEF group, GroupSoFar

\* After it the groups and what remains still have each index once, without conflict.
LEMMA NextGroupKeeps ==
    ASSUME NEW Key, NEW sets \in Seq(KeySets(Key)), NEW state \in ScheduleState(Len(sets)),
           ScheduledSoFar(sets, state), state.remaining # {}
    PROVE  ScheduledSoFar(sets, NextGroupOf(sets, state))
  <1> DEFINE n == Len(sets)
  <1>1. PICK R, G : R = state.remaining /\ G = state.groups
    OBVIOUS
  <1>2. R \in SUBSET (1..n) /\ G \in Seq(Seq(1..n)) /\ R # {}
    BY <1>1 DEF ScheduleState
  <1>3. PICK group : group = Pass(sets, R)
    OBVIOUS
  <1>4. group \in Seq(1..n) /\ GroupSoFar(sets, R, group, n)
    BY <1>2, <1>3, PassGroup
  <1>5. /\ \A p \in DOMAIN group : group[p] \in R
        /\ \A p, q \in DOMAIN group : p < q => group[p] < group[q]
        /\ \A p, q \in DOMAIN group :
              p < q => Touched(sets[group[q]]) \cap sets[group[p]].write_set = {}
        /\ \A i \in R : i \in ToSet(group) \/ Behind(sets, i, group)
    <2>1. \A i \in R : i <= n
      BY <1>2
    <2> QED
      BY <1>4, <2>1 DEF GroupSoFar
  <1>6. group # <<>>
    <2>1. \E p \in DOMAIN group : group[p] \in R
      BY <1>2, <1>3, PassTakes
    <2> QED
      BY <2>1
  <1>7. PICK H \in Seq(Seq(1..n)) : H = Append(G, group)
    <2>1. Append(G, group) \in Seq(Seq(1..n))
      BY <1>2, <1>4
    <2> QED
      BY <2>1, Zenon
  <1>8. PICK m \in Nat : m = Len(G)
    BY <1>2
  <1>9. /\ DOMAIN G = 1..m /\ DOMAIN H = 1..(m + 1) /\ H[m + 1] = group
        /\ \A g \in 1..m : H[g] = G[g] /\ g \in 1..(m + 1)
        /\ \A g \in 1..(m + 1) : g \in 1..m \/ g = m + 1
        /\ m + 1 \in 1..(m + 1) /\ m + 1 \notin 1..m
    BY <1>2, <1>4, <1>7, <1>8
  <1>10. PICK Q : Q = R \ ToSet(group)
    BY Zenon
  <1>11. NextGroupOf(sets, state) = [remaining |-> Q, groups |-> H]
    BY <1>1, <1>2, <1>3, <1>7, <1>10 DEF NextGroupOf
  <1>12. EachOnceIn(n, R, G) /\ ConflictFreeIn(sets, G) /\ DelayedIn(sets, R, G)
    BY <1>1 DEF ScheduledSoFar
  <1>13. \A p \in DOMAIN group : group[p] \in ToSet(group)
    BY DEF ToSet
  <1> HIDE DEF n
  <1>14. EachOnceIn(n, Q, H)
    <2>1. ASSUME NEW i \in 1..n
          PROVE  i \in Q \/ \E g \in DOMAIN H : i \in ToSet(H[g])
      <3>1. CASE i \in R
        BY <1>9, <1>10, <3>1
      <3>2. CASE i \notin R
        <4>1. PICK g \in 1..m : i \in ToSet(G[g])
          BY <1>9, <1>12, <3>2 DEF EachOnceIn
        <4> QED
          BY <1>9, <4>1, Zenon
      <3> QED
        BY <3>1, <3>2
    <2>2. ASSUME NEW g \in 1..m, NEW p \in DOMAIN G[g]
          PROVE  /\ G[g][p] \notin R
                 /\ \A h \in 1..m : \A q \in DOMAIN G[h] :
                       G[g][p] = G[h][q] => g = h /\ p = q
      <3>1. EachOnceIn(n, R, G) /\ DOMAIN G = 1..m
        BY <1>9, <1>12
      <3>2. G[g][p] \notin R
        BY <3>1 DEF EachOnceIn
      <3>3. ASSUME NEW h \in 1..m, NEW q \in DOMAIN G[h], G[g][p] = G[h][q]
            PROVE  g = h /\ p = q
        BY <3>1, <3>3 DEF EachOnceIn
      <3> QED
        BY <3>2, <3>3
    <2>3. ASSUME NEW g \in DOMAIN H, NEW p \in DOMAIN H[g]
          PROVE  H[g][p] \notin Q
      <3>1. CASE g \in 1..m
        BY <1>9, <1>10, <2>2, <3>1
      <3>2. CASE g = m + 1
        BY <1>9, <1>10, <1>13, <3>2
      <3> QED
        BY <1>9, <3>1, <3>2
    <2>4. ASSUME NEW g \in DOMAIN H, NEW p \in DOMAIN H[g],
                 NEW h \in DOMAIN H, NEW q \in DOMAIN H[h], H[g][p] = H[h][q]
          PROVE  g = h /\ p = q
      <3>1. CASE g \in 1..m /\ h \in 1..m
        BY <1>9, <2>2, <2>4, <3>1
      <3>2. CASE g \in 1..m /\ h = m + 1
        BY <1>5, <1>9, <2>2, <2>4, <3>2
      <3>3. CASE g = m + 1 /\ h \in 1..m
        BY <1>5, <1>9, <2>2, <2>4, <3>3
      <3>4. CASE g = m + 1 /\ h = m + 1
        <4>1. p \in DOMAIN group /\ q \in DOMAIN group /\ group[p] = group[q]
          BY <1>9, <2>4, <3>4
        <4>2. p \in Nat /\ q \in Nat /\ group[p] \in Nat /\ group[q] \in Nat
          <5>1. group[p] \in 1..n /\ group[q] \in 1..n
            BY <1>2, <1>5, <4>1, Zenon
          <5>2. DOMAIN group = 1..Len(group)
            BY <1>4
          <5> QED
            BY <4>1, <5>1, <5>2
        <4>3. ~(p < q) /\ ~(q < p)
          BY <1>5, <4>1, <4>2
        <4> QED
          BY <3>4, <4>2, <4>3
      <3> QED
        BY <1>9, <3>1, <3>2, <3>3, <3>4, Zenon
    <2> QED
      BY <2>1, <2>3, <2>4 DEF EachOnceIn
  <1>15. ConflictFreeIn(sets, H)
    <2> SUFFICES ASSUME NEW g \in 1..(m + 1), NEW p \in DOMAIN H[g], NEW q \in DOMAIN H[g], p < q
                 PROVE  /\ H[g][p] < H[g][q]
                        /\ Touched(sets[H[g][q]]) \cap sets[H[g][p]].write_set = {}
      BY <1>9 DEF ConflictFreeIn
    <2>1. CASE g \in 1..m
      BY <1>9, <1>12, <2>1, Zenon DEF ConflictFreeIn
    <2>2. CASE g = m + 1
      BY <1>5, <1>9, <2>2
    <2> QED
      BY <1>9, <2>1, <2>2
  <1>16. DelayedIn(sets, Q, H)
    <2>1. ASSUME NEW h \in 1..m
          PROVE  /\ G[h] # <<>>
                 /\ \A i \in R : Behind(sets, i, G[h])
                 /\ \A g \in 1..m : \A p \in DOMAIN G[g] :
                       h < g => Behind(sets, G[g][p], G[h])
      BY <1>9, <1>12, Zenon DEF DelayedIn
    <2>2. ASSUME NEW h \in 1..(m + 1)
          PROVE  /\ H[h] # <<>>
                 /\ \A i \in Q : Behind(sets, i, H[h])
      <3>1. CASE h \in 1..m
        BY <1>9, <1>10, <2>1, <3>1
      <3>2. CASE h = m + 1
        BY <1>5, <1>6, <1>9, <1>10, <3>2
      <3> QED
        BY <1>9, <3>1, <3>2
    <2>3. ASSUME NEW h \in 1..(m + 1), NEW g \in 1..(m + 1), NEW p \in DOMAIN H[g], h < g
          PROVE  Behind(sets, H[g][p], H[h])
      <3>1. h \in 1..m
        BY <1>8, <2>3
      <3>2. CASE g \in 1..m
        BY <1>9, <2>1, <2>3, <3>1, <3>2
      <3>3. CASE g = m + 1
        <4>1. H[g][p] \in R
          BY <1>5, <1>9, <3>3
        <4> QED
          BY <1>9, <2>1, <3>1, <4>1
      <3> QED
        BY <1>9, <3>2, <3>3
    <2> QED
      BY <1>9, <2>2, <2>3 DEF DelayedIn
  <1> QED
    BY <1>11, <1>14, <1>15, <1>16 DEF ScheduledSoFar, n


\* The loop of schedule, pass by pass.
FirstState(sets) == [remaining |-> DOMAIN sets, groups |-> <<>>]
PassByPass(f, sets) ==
    /\ f[0] = FirstState(sets)
    /\ \A k \in 1..Len(sets) : f[k] = NextGroupOf(sets, f[k - 1])
    /\ ScheduleOf(sets) = f[Len(sets)].groups

\* The recursion of ScheduleOf, pass by pass.
LEMMA ScheduleSteps ==
    ASSUME NEW Key, NEW sets \in Seq(KeySets(Key))
    PROVE  \E f \in [0..Len(sets) -> ScheduleState(Len(sets))] : PassByPass(f, sets)
  <1> DEFINE n == Len(sets)
             V == ScheduleState(n)
             op(state) == NextGroupOf(sets, state)
             Is(after) == after = [k \in 0..n |-> IF k = 0 THEN FirstState(sets)
                                                  ELSE op(after[k - 1])]
             g == [p \in V \X (1..n) |-> op(p[1])]
  <1>1. n \in Nat /\ DOMAIN sets = 1..n
    OBVIOUS
  <1>2. FirstState(sets) \in V
    BY <1>1 DEF FirstState, ScheduleState
  <1>3. ScheduleOf(sets) = (CHOOSE after : Is(after))[n].groups
    BY DEF ScheduleOf, FirstState
  <1>4. \A state \in V : op(state) \in V
    BY NextGroupTyped
  <1> HIDE DEF V, op
  <1>5. g \in [V \X (1..n) -> V]
    BY <1>4
  <1>6. PICK f \in [SUBSET (1..n) -> V] : FoldOf(f, n, FirstState(sets), g)
    <2> HIDE DEF n, g
    <2> QED
      BY <1>1, <1>2, <1>5, FoldExists, Zenon
  <1> DEFINE h == [k \in 0..n |-> f[1..k]]
  <1>7. \A k \in 0..n : 1..k \in SUBSET (1..n)
    BY <1>1
  <1>8. h \in [0..n -> V]
    BY <1>7
  <1>9. h[0] = FirstState(sets)
    <2>1. 1..0 = {}
      OBVIOUS
    <2>2. {} \in SUBSET (1..n)
      OBVIOUS
    <2>3. f[{}] = FirstState(sets)
      BY <1>6, <2>2, Zenon DEF FoldOf
    <2>4. h[0] = f[1..0]
      BY <1>1
    <2> QED
      BY <2>1, <2>3, <2>4
  <1>10. ASSUME NEW k \in 1..n PROVE h[k] = op(h[k - 1])
    <2>1. /\ 1..k \in SUBSET (1..n) /\ 1..k # {}
          /\ Max(1..k) = k
          /\ (1..k) \ {k} = 1..(k - 1)
      BY <1>1, MaxOfPrefix
    <2>2. f[1..k] = g[<<f[(1..k) \ {Max(1..k)}], Max(1..k)>>]
      BY <1>6, <2>1, Zenon DEF FoldOf
    <2>3. k \in 0..n /\ k - 1 \in 0..n /\ f[1..(k - 1)] \in V
      BY <1>1, <1>7
    <2>4. f[1..k] = op(f[1..(k - 1)])
      BY <2>1, <2>2, <2>3, Zenon
    <2> QED
      BY <2>3, <2>4
  <1> HIDE DEF h
  <1>11. Is(h)
    <2>1. ASSUME NEW k \in 0..n PROVE h[k] = IF k = 0 THEN FirstState(sets) ELSE op(h[k - 1])
      <3>1. k = 0 \/ k \in 1..n
        BY <1>1
      <3> QED
        BY <1>9, <1>10, <3>1
    <2>2. h = [k \in 0..n |-> h[k]]
      BY <1>8
    <2> QED
      BY <2>1, <2>2, Zenon
  <1>12. PICK after : Is(after) /\ ScheduleOf(sets) = after[n].groups
    <2> HIDE DEF Is
    <2> QED
      BY <1>3, <1>11, Zenon
  <1>13. /\ after = [k \in 0..n |-> after[k]]
         /\ after[0] = FirstState(sets)
         /\ \A k \in 1..n : k \in 0..n /\ after[k] = op(after[k - 1])
    <2>1. \A k \in 0..n : after[k] = IF k = 0 THEN FirstState(sets) ELSE op(after[k - 1])
      BY <1>12
    <2>2. 0 \in 0..n /\ \A k \in 1..n : k \in 0..n /\ k # 0
      BY <1>1
    <2>3. DOMAIN after = 0..n /\ after = [k \in 0..n |-> after[k]]
      BY <1>12
    <2> QED
      BY <2>1, <2>2, <2>3
  <1> HIDE DEF Is
  <1> DEFINE B == {k \in 1..n : after[k] \in V}
  <1>14. B = 1..n
    <2>1. ASSUME NEW k \in 1..n, \A m \in 1..n : m < k => m \in B
          PROVE  k \in B
      <3>1. after[k - 1] \in V
        <4>1. CASE k = 1
          <5>1. k - 1 = 0
            BY <4>1
          <5> QED
            BY <1>2, <1>13, <5>1
        <4>2. CASE k # 1
          BY <2>1, <4>2
        <4> QED
          BY <4>1, <4>2
      <3> QED
        BY <1>4, <1>13, <3>1, Zenon
    <2>2. B \in SUBSET (1..n)
      OBVIOUS
    <2> HIDE DEF B
    <2> QED
      BY <1>1, <2>1, <2>2, StrongInduction, Zenon
  <1>15. \A k \in 0..n : after[k] \in V
    <2> SUFFICES ASSUME NEW k \in 0..n PROVE after[k] \in V
      OBVIOUS
    <2>1. CASE k = 0
      BY <1>2, <1>13, <2>1
    <2>2. CASE k # 0
      BY <1>14, <2>2
    <2> QED
      BY <2>1, <2>2
  <1>16. after \in [0..n -> V]
    BY <1>13, <1>15
  <1> QED
    BY <1>12, <1>13, <1>16, Zenon DEF op, V, PassByPass

\* There are n positions up to n.
LEMMA CardOfPositions ==
    ASSUME NEW n \in Nat
    PROVE  Cardinality(1..n) = n
  <1>1. PICK a \in Int, b \in Int : a = 1 /\ b = n
    OBVIOUS
  <1>2. Cardinality(a..b) = IF a > b THEN 0 ELSE b - a + 1
    BY FS_Interval
  <1> QED
    BY <1>1, <1>2

\* After k passes.
LEMMA AfterPasses ==
    ASSUME NEW Key, NEW sets \in Seq(KeySets(Key)),
           NEW f \in [0..Len(sets) -> ScheduleState(Len(sets))], PassByPass(f, sets),
           NEW k \in 0..Len(sets)
    PROVE  /\ ScheduledSoFar(sets, f[k])
           /\ Cardinality(f[k].remaining) <= Len(sets) - k
  <1> DEFINE n == Len(sets)
             P(j) == /\ ScheduledSoFar(sets, f[j])
                     /\ Cardinality(f[j].remaining) <= n - j
             G == {j \in 1..n : P(j)}
  <1>1. n \in Nat /\ DOMAIN sets = 1..n
    OBVIOUS
  <1>2. /\ f[0] = FirstState(sets)
        /\ \A j \in 1..n : f[j] = NextGroupOf(sets, f[j - 1])
    BY DEF PassByPass
  <1>3. P(0)
    <2>1. f[0].remaining = 1..n /\ f[0].groups = <<>>
      BY <1>1, <1>2 DEF FirstState
    <2>2. Cardinality(1..n) = n
      BY <1>1, CardOfPositions
    <2>3. ScheduledSoFar(sets, f[0])
      BY <2>1 DEF ScheduledSoFar, EachOnceIn, ConflictFreeIn, DelayedIn
    <2> QED
      BY <1>1, <2>1, <2>2, <2>3
  <1>4. ASSUME NEW j \in 1..n, P(j - 1) PROVE P(j)
    <2>1. PICK s \in ScheduleState(n) : s = f[j - 1]
      BY <1>1
    <2>2. PICK R : R = s.remaining
      OBVIOUS
    <2>3. R \in SUBSET (1..n) /\ IsFiniteSet(R) /\ Cardinality(R) \in Nat
      <3>1. R \in SUBSET (1..n)
        BY <2>2 DEF ScheduleState
      <3>2. IsFiniteSet(1..n)
        BY <1>1, FS_Interval
      <3> QED
        BY <3>1, <3>2, FS_Subset, FS_CardinalityType
    <2>4. /\ f[j] = NextGroupOf(sets, s) /\ ScheduledSoFar(sets, s)
          /\ Cardinality(R) <= n - (j - 1)
      BY <1>2, <1>4, <2>1, <2>2
    <2>5. CASE R = {}
      <3>1. f[j] = s
        BY <2>2, <2>4, <2>5 DEF NextGroupOf
      <3>2. Cardinality(R) = 0 /\ 0 <= n - j
        BY <1>1, <2>5, FS_EmptySet
      <3> QED
        BY <2>2, <2>4, <3>1, <3>2
    <2>6. CASE R # {}
      <3>1. ScheduledSoFar(sets, f[j])
        BY <2>2, <2>4, <2>6, NextGroupKeeps
      <3>2. PICK group : group = Pass(sets, R)
        OBVIOUS
      <3>3. f[j].remaining = R \ ToSet(group)
        BY <2>2, <2>4, <2>6, <3>2 DEF NextGroupOf
      <3>4. PICK p \in DOMAIN group : group[p] \in R
        BY <2>3, <2>6, <3>2, PassTakes
      <3>5. PICK x : x = group[p]
        OBVIOUS
      <3>6. R \ ToSet(group) \subseteq R \ {x} /\ x \in R
        BY <3>4, <3>5 DEF ToSet
      <3>7. Cardinality(R \ {x}) = Cardinality(R) - 1 /\ IsFiniteSet(R \ {x})
        BY <2>3, <3>6, FS_RemoveElement
      <3>8. Cardinality(R \ ToSet(group)) <= Cardinality(R \ {x})
            /\ Cardinality(R \ ToSet(group)) \in Nat
        BY <3>6, <3>7, FS_Subset, FS_CardinalityType
      <3> QED
        BY <1>1, <2>3, <2>4, <3>1, <3>3, <3>7, <3>8
    <2> QED
      BY <2>5, <2>6
  <1> HIDE DEF P
  <1>5. ASSUME NEW j \in 1..n, \A m \in 1..n : m < j => m \in G
        PROVE  j \in G
    <2>1. P(j - 1)
      <3>1. CASE j = 1
        <4>1. j - 1 = 0
          BY <3>1
        <4> QED
          BY <1>3, <4>1
      <3>2. CASE j # 1
        <4>1. j - 1 \in 1..n /\ j - 1 < j
          BY <1>1, <3>2
        <4> QED
          BY <1>5, <4>1
      <3> QED
        BY <3>1, <3>2
    <2> QED
      BY <1>4, <2>1
  <1>6. G = 1..n
    <2>1. G \in SUBSET (1..n)
      OBVIOUS
    <2> HIDE DEF G
    <2> QED
      BY <1>1, <1>5, <2>1, StrongInduction, Zenon
  <1>7. P(k)
    <2>1. CASE k = 0
      BY <1>3, <2>1
    <2>2. CASE k # 0
      <3>0. k \in 1..n
        BY <1>1, <2>2
      <3>1. k \in G
        BY <1>6, <3>0
      <3> QED
        BY <3>1
    <2> QED
      BY <2>1, <2>2
  <1> QED
    BY <1>7 DEF P

\* What process_batch relies on: schedule puts every transaction of the batch into
\* exactly one place of one group, no member of a group touches what a member before
\* it writes, and a transaction is in a later group only behind one it conflicts with.
THEOREM ScheduleGroups ==
    ASSUME NEW Key, NEW sets \in Seq(KeySets(Key))
    PROVE  /\ ScheduleOf(sets) \in Seq(Seq(1..Len(sets)))
           /\ EachOnceIn(Len(sets), {}, ScheduleOf(sets))
           /\ ConflictFreeIn(sets, ScheduleOf(sets))
           /\ DelayedIn(sets, {}, ScheduleOf(sets))
  <1> DEFINE n == Len(sets)
  <1>1. PICK f \in [0..n -> ScheduleState(n)] : PassByPass(f, sets)
    BY ScheduleSteps
  <1>2. n \in Nat /\ n \in 0..n
    OBVIOUS
  <1>3. ScheduleOf(sets) = f[n].groups
    BY <1>1 DEF PassByPass
  <1>4. ScheduledSoFar(sets, f[n]) /\ Cardinality(f[n].remaining) <= n - n
    BY <1>1, <1>2, AfterPasses
  <1>5. f[n].remaining \in SUBSET (1..n) /\ f[n].groups \in Seq(Seq(1..n))
    <2>1. f[n] \in ScheduleState(n)
      BY <1>2
    <2> QED
      BY <2>1 DEF ScheduleState
  <1>6. f[n].remaining = {}
    <2>1. IsFiniteSet(1..n)
      BY <1>2, FS_Interval
    <2>2. IsFiniteSet(f[n].remaining) /\ Cardinality(f[n].remaining) \in Nat
      BY <1>5, <2>1, FS_Subset, FS_CardinalityType
    <2>3. Cardinality(f[n].remaining) = 0
      BY <1>2, <1>4, <2>2
    <2> QED
      BY <2>2, <2>3, FS_EmptySet
  <1> QED
    BY <1>3, <1>4, <1>5, <1>6 DEF ScheduledSoFar


-----------------------------------------------------------------------------
\* What the loop, which looks only at the waiting indices, has to do with the fold,
\* which runs over all.

\* Indices that are not waiting do not change the open group.
LEMMA PassSkips ==
    ASSUME NEW Key, NEW sets \in Seq(KeySets(Key)), NEW remaining,
           NEW f \in [0..Len(sets) -> OpenGroup(Len(sets), Key)],
           PassStepByStep(f, sets, remaining),
           NEW k \in 0..Len(sets), NEW i \in 0..Len(sets), k <= i,
           \A j \in 1..Len(sets) : k < j /\ j <= i => j \notin remaining
    PROVE  f[i] = f[k]
  <1> DEFINE n == Len(sets)
             G == {j \in 1..n : k <= j /\ j <= i => f[j] = f[k]}
  <1>1. n \in Nat
    OBVIOUS
  <1>2. \A j \in 1..n : f[j] = Visit(sets, remaining, f[j - 1], j)
    BY DEF PassStepByStep
  <1>3. ASSUME NEW j \in 1..n, \A m \in 1..n : m < j => m \in G
        PROVE  j \in G
    <2> SUFFICES ASSUME k <= j, j <= i PROVE f[j] = f[k]
      OBVIOUS
    <2>1. CASE k < j
      <3>1. f[j] = f[j - 1]
        BY <1>2, <2>1, Zenon DEF Visit
      <3>2. f[j - 1] = f[k]
        <4>1. CASE k = j - 1
          BY <4>1
        <4>2. CASE k # j - 1
          <5>1. j - 1 \in 1..n /\ j - 1 < j /\ k <= j - 1 /\ j - 1 <= i
            BY <1>1, <2>1, <4>2
          <5> QED
            BY <1>3, <5>1
        <4> QED
          BY <4>1, <4>2
      <3> QED
        BY <3>1, <3>2
    <2>2. CASE k = j
      BY <2>2
    <2> QED
      BY <1>1, <2>1, <2>2
  <1>4. G = 1..n
    <2>1. G \in SUBSET (1..n)
      OBVIOUS
    <2> HIDE DEF G
    <2> QED
      BY <1>1, <1>3, <2>1, StrongInduction, Zenon
  <1>5. CASE i = 0
    BY <1>1, <1>5
  <1>6. CASE i # 0
    <2>1. i \in G
      BY <1>1, <1>4, <1>6
    <2> QED
      BY <1>1, <2>1
  <1> QED
    BY <1>5, <1>6

\* Once nothing remains, the groups are final.
LEMMA ScheduleEnds ==
    ASSUME NEW Key, NEW sets \in Seq(KeySets(Key)),
           NEW f \in [0..Len(sets) -> ScheduleState(Len(sets))], PassByPass(f, sets),
           NEW k \in 0..Len(sets), f[k].remaining = {}
    PROVE  ScheduleOf(sets) = f[k].groups
  <1> DEFINE n == Len(sets)
             G == {j \in 1..n : k <= j => f[j] = f[k]}
  <1>1. n \in Nat
    OBVIOUS
  <1>2. \A j \in 1..n : f[j] = NextGroupOf(sets, f[j - 1])
    BY DEF PassByPass
  <1>3. ASSUME NEW j \in 1..n, \A m \in 1..n : m < j => m \in G
        PROVE  j \in G
    <2> SUFFICES ASSUME k <= j PROVE f[j] = f[k]
      OBVIOUS
    <2>1. CASE k < j
      <3>1. f[j - 1] = f[k]
        <4>1. CASE k = j - 1
          BY <4>1
        <4>2. CASE k # j - 1
          <5>1. j - 1 \in 1..n /\ j - 1 < j /\ k <= j - 1
            BY <1>1, <2>1, <4>2
          <5> QED
            BY <1>3, <5>1
        <4> QED
          BY <4>1, <4>2
      <3>2. f[j] = NextGroupOf(sets, f[k])
        BY <1>2, <3>1
      <3> QED
        BY <3>2 DEF NextGroupOf
    <2>2. CASE k = j
      BY <2>2
    <2> QED
      BY <1>1, <2>1, <2>2
  <1>4. G = 1..n
    <2>1. G \in SUBSET (1..n)
      OBVIOUS
    <2> HIDE DEF G
    <2> QED
      BY <1>1, <1>3, <2>1, StrongInduction, Zenon
  <1>5. f[n] = f[k]
    <2>1. CASE n = 0
      BY <1>1, <2>1
    <2>2. CASE n # 0
      <3>1. n \in G
        BY <1>1, <1>4, <2>2
      <3> QED
        BY <1>1, <3>1
    <2> QED
      BY <2>1, <2>2
  <1> QED
    BY <1>5 DEF PassByPass

\* The intermediate values, by name.
OpenAfter(sets, remaining, Key) ==
    CHOOSE f \in [0..Len(sets) -> OpenGroup(Len(sets), Key)] : PassStepByStep(f, sets, remaining)
AfterPass(sets) ==
    CHOOSE f \in [0..Len(sets) -> ScheduleState(Len(sets))] : PassByPass(f, sets)

\* The values of the fold and of the recursion, by name.
LEMMA OpenAfterIs ==
    ASSUME NEW Key, NEW sets \in Seq(KeySets(Key)), NEW remaining
    PROVE  /\ OpenAfter(sets, remaining, Key) \in [0..Len(sets) -> OpenGroup(Len(sets), Key)]
           /\ PassStepByStep(OpenAfter(sets, remaining, Key), sets, remaining)
  BY PassSteps, Zenon DEF OpenAfter

\* The state of the schedule after every pass.
LEMMA AfterPassIs ==
    ASSUME NEW Key, NEW sets \in Seq(KeySets(Key))
    PROVE  /\ AfterPass(sets) \in [0..Len(sets) -> ScheduleState(Len(sets))]
           /\ PassByPass(AfterPass(sets), sets)
  BY ScheduleSteps DEF AfterPass

-----------------------------------------------------------------------------
\* Sums over finite sets.

\* sum is the recursion of SumFunctionOnSet, over the subsets of S.
SumOf(sum, f, S) ==
    sum = [s \in SUBSET S |->
              IF s = {} THEN 0
              ELSE f[CHOOSE x \in s : TRUE] + sum[s \ {CHOOSE x \in s : TRUE}]]

\* Two such recursions agree where the functions they sum do.
LEMMA SumsAgree ==
    ASSUME NEW S, NEW T, NEW f, NEW g, NEW a, NEW b,
           SumOf(a, f, S), SumOf(b, g, T),
           NEW U, IsFiniteSet(U), U \subseteq S, U \subseteq T,
           \A x \in U : f[x] = g[x]
    PROVE  a[U] = b[U]
  <1> DEFINE N == Cardinality(U)
             Same(n) == \A s \in SUBSET U : Cardinality(s) = n => a[s] = b[s]
             Z == {n \in 1..N : Same(n)}
  <1>1. N \in Nat
    BY FS_CardinalityType
  <1>2. a[{}] = 0 /\ b[{}] = 0
    BY DEF SumOf
  <1>3. ASSUME NEW s \in SUBSET U
        PROVE  IsFiniteSet(s) /\ Cardinality(s) \in 0..N /\ (Cardinality(s) = 0 => s = {})
    <2>1. IsFiniteSet(s) /\ Cardinality(s) <= N
      BY FS_Subset
    <2>2. Cardinality(s) \in Nat
      BY <2>1, FS_CardinalityType
    <2>3. Cardinality(s) = 0 => s = {}
      BY <2>1, FS_EmptySet
    <2> QED
      BY <1>1, <2>1, <2>2, <2>3
  <1>4. ASSUME NEW n \in 1..N, \A m \in 1..N : m < n => m \in Z
        PROVE  n \in Z
    <2> SUFFICES ASSUME NEW s \in SUBSET U, Cardinality(s) = n
                 PROVE  a[s] = b[s]
      OBVIOUS
    <2>1. s # {}
      BY <1>1, FS_EmptySet
    <2>2. PICK x : x = CHOOSE y \in s : TRUE
      OBVIOUS
    <2>3. x \in s
      BY <2>1, <2>2
    <2>4. PICK r : r = s \ {x}
      BY Zenon
    <2>5. r \in SUBSET U /\ Cardinality(r) = n - 1
      BY <1>3, <2>3, <2>4, FS_RemoveElement, Zenon
    <2>6. a[r] = b[r]
      <3>1. CASE n = 1
        BY <1>2, <1>3, <2>5, <3>1
      <3>2. CASE n # 1
        BY <1>1, <1>4, <2>5, <3>2
      <3> QED
        BY <3>1, <3>2
    <2>7. a[s] = f[x] + a[r]
      <3>1. s \in SUBSET S
        OBVIOUS
      <3>2. a[s] = IF s = {} THEN 0
                   ELSE f[CHOOSE y \in s : TRUE] + a[s \ {CHOOSE y \in s : TRUE}]
        BY <3>1, Zenon DEF SumOf
      <3> QED
        BY <2>1, <2>2, <2>4, <3>2, Zenon
    <2>8. b[s] = g[x] + b[r]
      <3>1. s \in SUBSET T
        OBVIOUS
      <3>2. b[s] = IF s = {} THEN 0
                   ELSE g[CHOOSE y \in s : TRUE] + b[s \ {CHOOSE y \in s : TRUE}]
        BY <3>1, Zenon DEF SumOf
      <3> QED
        BY <2>1, <2>2, <2>4, <3>2, Zenon
    <2> QED
      BY <2>3, <2>6, <2>7, <2>8
  <1>5. Z = 1..N
    <2> HIDE DEF Z, N
    <2>1. Z \in SUBSET (1..N)
      BY DEF Z
    <2> QED
      BY <1>1, <1>4, <2>1, StrongInduction
  <1>6. CASE U = {}
    BY <1>2, <1>6
  <1>7. CASE U # {}
    BY <1>1, <1>3, <1>5, <1>7
  <1> QED
    BY <1>6, <1>7

\* The recursion is well founded on a finite set.
LEMMA SumExists ==
    ASSUME NEW S, IsFiniteSet(S), NEW f
    PROVE  \E sum : SumOf(sum, f, S)
  <1> DEFINE N == Cardinality(S)
             Small(n) == {s \in SUBSET S : Cardinality(s) <= n}
             Next(a, s) == IF s = {} THEN 0
                           ELSE f[CHOOSE x \in s : TRUE] + a[s \ {CHOOSE x \in s : TRUE}]
             E(n) == \E a : a = [s \in Small(n) |-> Next(a, s)]
             Z == {n \in 1..N : E(n)}
  <1>1. N \in Nat
    BY FS_CardinalityType
  <1>2. ASSUME NEW s \in SUBSET S
        PROVE  IsFiniteSet(s) /\ Cardinality(s) \in 0..N /\ (Cardinality(s) = 0 => s = {})
    <2>1. IsFiniteSet(s) /\ Cardinality(s) <= N
      BY FS_Subset
    <2>2. Cardinality(s) \in Nat
      BY <2>1, FS_CardinalityType
    <2>3. Cardinality(s) = 0 => s = {}
      BY <2>1, FS_EmptySet
    <2> QED
      BY <1>1, <2>1, <2>2, <2>3
  <1>3. ASSUME NEW n \in Nat, NEW s \in Small(n), s # {}
        PROVE  n # 0 /\ s \ {CHOOSE x \in s : TRUE} \in Small(n - 1)
    <2>1. PICK x : x = CHOOSE y \in s : TRUE
      OBVIOUS
    <2>2. s \in SUBSET S /\ x \in s /\ Cardinality(s) <= n
      BY <1>3, <2>1
    <2>3. Cardinality(s \ {x}) = Cardinality(s) - 1
      BY <1>2, <2>2, FS_RemoveElement
    <2>4. n # 0 /\ s \ {x} \in Small(n - 1)
      BY <1>2, <1>3, <2>2, <2>3
    <2> QED
      BY <2>1, <2>4, Zenon
  <1>4. E(0)
    <2> DEFINE a == [s \in Small(0) |-> 0]
    <2>1. \A s \in Small(0) : s = {}
      BY <1>2
    <2>2. a = [s \in Small(0) |-> Next(a, s)]
      BY <2>1, Zenon
    <2> QED
      BY <2>2, Zenon
  <1>5. ASSUME NEW n \in 1..N, E(n - 1) PROVE E(n)
    <2>1. PICK a : a = [s \in Small(n - 1) |-> Next(a, s)]
      BY <1>5, Zenon
    <2> DEFINE b == [s \in Small(n) |-> Next(a, s)]
    <2>2. Small(n - 1) \subseteq Small(n)
      BY <1>1, <1>2
    <2>3. \A s \in Small(n - 1) : b[s] = a[s]
      BY <2>1, <2>2, Zenon
    <2>4. ASSUME NEW s \in Small(n) PROVE Next(a, s) = Next(b, s)
      <3>1. CASE s = {}
        BY <3>1
      <3>2. CASE s # {}
        <4>1. s \ {CHOOSE x \in s : TRUE} \in Small(n - 1)
          BY <1>1, <1>3, <3>2
        <4>2. b[s \ {CHOOSE x \in s : TRUE}] = a[s \ {CHOOSE x \in s : TRUE}]
          BY <2>3, <4>1, Zenon
        <4> QED
          BY <4>2, Zenon
      <3> QED
        BY <3>1, <3>2
    <2>5. b = [s \in Small(n) |-> Next(b, s)]
      <3>1. PICK c : c = b
        BY Zenon
      <3>2. \A s \in Small(n) : Next(a, s) = Next(c, s)
        BY <2>4, <3>1, Zenon
      <3>3. c = [s \in Small(n) |-> Next(a, s)]
        BY <3>1, Zenon
      <3> HIDE DEF Small, Next, b
      <3>4. c = [s \in Small(n) |-> Next(c, s)]
        BY <3>2, <3>3, Zenon
      <3> QED
        BY <3>1, <3>4, Zenon
    <2> HIDE DEF b, Next, Small
    <2> QED
      BY <2>5, Zenon
  <1> HIDE DEF E
  <1>6. ASSUME NEW n \in 1..N, \A m \in 1..N : m < n => m \in Z
        PROVE  n \in Z
    <2>1. E(n - 1)
      <3>1. CASE n = 1
        BY <1>4, <3>1
      <3>2. CASE n # 1
        <4>1. n - 1 \in 1..N /\ n - 1 < n
          BY <1>1, <3>2
        <4> QED
          BY <1>6, <4>1
      <3> QED
        BY <3>1, <3>2
    <2> QED
      BY <1>5, <2>1
  <1>7. Z = 1..N
    <2> HIDE DEF Z, N
    <2>1. Z \in SUBSET (1..N)
      BY DEF Z
    <2> QED
      BY <1>1, <1>6, <2>1, StrongInduction
  <1>8. E(N)
    <2>1. CASE N = 0
      BY <1>4, <2>1
    <2>2. CASE N # 0
      BY <1>1, <1>7, <2>2
    <2> QED
      BY <2>1, <2>2
  <1>9. Small(N) = SUBSET S
    BY <1>1, <1>2
  <1> QED
    BY <1>8, <1>9, Zenon DEF E, SumOf

\* SumFunctionOnSet is that recursion.
LEMMA SumIs ==
    ASSUME NEW S, IsFiniteSet(S), NEW f
    PROVE  \E sum : SumOf(sum, f, S) /\ SumFunctionOnSet(f, S) = sum[S]
  <1>1. \E sum : SumOf(sum, f, S)
    BY SumExists
  <1>2. PICK sum : sum = CHOOSE a : SumOf(a, f, S)
    OBVIOUS
  <1>3. SumOf(sum, f, S)
    BY <1>1, <1>2, Zenon
  <1>4. SumFunctionOnSet(f, S) = sum[S]
    BY <1>2, Zenon DEF SumFunctionOnSet, FoldFunctionOnSet, MapThenFoldSet, SumOf
  <1> QED
    BY <1>3, <1>4

-----------------------------------------------------------------------------
\* The sum over nothing.
LEMMA SumEmpty ==
    ASSUME NEW f
    PROVE  SumFunctionOnSet(f, {}) = 0
  <1>1. PICK sum : SumOf(sum, f, {}) /\ SumFunctionOnSet(f, {}) = sum[{}]
    BY SumIs, FS_EmptySet
  <1> QED
    BY <1>1 DEF SumOf

\* A sum depends on its summands only.
LEMMA SumSame ==
    ASSUME NEW S, IsFiniteSet(S), NEW f, NEW g, \A x \in S : f[x] = g[x]
    PROVE  SumFunctionOnSet(f, S) = SumFunctionOnSet(g, S)
  <1>1. PICK a : SumOf(a, f, S) /\ SumFunctionOnSet(f, S) = a[S]
    BY SumIs
  <1>2. PICK b : SumOf(b, g, S) /\ SumFunctionOnSet(g, S) = b[S]
    BY SumIs
  <1>3. a[S] = b[S]
    BY <1>1, <1>2, SumsAgree
  <1> QED
    BY <1>1, <1>2, <1>3

\* The element the recursion takes first.
LEMMA SumFirst ==
    ASSUME NEW S, IsFiniteSet(S), S # {}, NEW f
    PROVE  \E x \in S : SumFunctionOnSet(f, S) = f[x] + SumFunctionOnSet(f, S \ {x})
  <1>1. PICK x : x = CHOOSE y \in S : TRUE
    OBVIOUS
  <1>2. x \in S
    BY <1>1
  <1>3. PICK T : T = S \ {x}
    BY Zenon
  <1>4. IsFiniteSet(T) /\ T \subseteq S
    BY <1>2, <1>3, FS_RemoveElement
  <1>5. PICK a : SumOf(a, f, S) /\ SumFunctionOnSet(f, S) = a[S]
    BY SumIs
  <1>6. PICK b : SumOf(b, f, T) /\ SumFunctionOnSet(f, T) = b[T]
    BY <1>4, SumIs
  <1>7. a[T] = b[T]
    BY <1>4, <1>5, <1>6, SumsAgree
  <1>8. a[S] = f[x] + a[T]
    BY <1>1, <1>3, <1>5, Zenon DEF SumOf
  <1> QED
    BY <1>2, <1>3, <1>5, <1>6, <1>7, <1>8

\* For natural summands any element may be taken out.
LEMMA SumSplits ==
    ASSUME NEW S, IsFiniteSet(S), NEW f, \A x \in S : f[x] \in Nat
    PROVE  /\ SumFunctionOnSet(f, S) \in Nat
           /\ \A x \in S : SumFunctionOnSet(f, S) = f[x] + SumFunctionOnSet(f, S \ {x})
  <1> DEFINE N == Cardinality(S)
             Sum(T) == SumFunctionOnSet(f, T)
             Good(T) == Sum(T) \in Nat /\ \A x \in T : Sum(T) = f[x] + Sum(T \ {x})
             Z == {n \in 1..N : \A T \in SUBSET S : Cardinality(T) = n => Good(T)}
  <1>1. N \in Nat
    BY FS_CardinalityType
  <1>2. Good({})
    BY SumEmpty
  <1>3. ASSUME NEW T \in SUBSET S
        PROVE  IsFiniteSet(T) /\ Cardinality(T) \in 0..N /\ (Cardinality(T) = 0 => T = {})
    <2>1. IsFiniteSet(T) /\ Cardinality(T) <= N
      BY FS_Subset
    <2>2. Cardinality(T) \in Nat
      BY <2>1, FS_CardinalityType
    <2>3. Cardinality(T) = 0 => T = {}
      BY <2>1, FS_EmptySet
    <2> QED
      BY <1>1, <2>1, <2>2, <2>3
  <1>4. ASSUME NEW n \in 1..N, \A m \in 1..N : m < n => m \in Z
        PROVE  n \in Z
    <2> SUFFICES ASSUME NEW T \in SUBSET S, Cardinality(T) = n
                 PROVE  Good(T)
      OBVIOUS
    <2>0. IsFiniteSet(T) /\ T # {}
      BY <1>1, <1>3, FS_EmptySet
    <2>1. PICK x \in T : Sum(T) = f[x] + Sum(T \ {x})
      BY <2>0, SumFirst
    <2>2. ASSUME NEW y \in T PROVE Good(T \ {y})
      <3>1. PICK R : R = T \ {y}
        BY Zenon
      <3>2. R \in SUBSET S /\ Cardinality(R) = n - 1
        BY <2>0, <2>2, <3>1, FS_RemoveElement, Zenon
      <3> HIDE DEF Good
      <3>3. CASE n = 1
        BY <1>2, <1>3, <3>1, <3>2, <3>3
      <3>4. CASE n # 1
        <4>1. n - 1 \in 1..N /\ n - 1 < n
          BY <1>1, <3>4
        <4> QED
          BY <1>4, <3>1, <3>2, <4>1
      <3> QED
        BY <3>3, <3>4
    <2>3. Sum(T) \in Nat
      BY <2>1, <2>2
    <2>4. ASSUME NEW y \in T, y # x PROVE Sum(T) = f[y] + Sum(T \ {y})
      <3>1. PICK A, B, C : A = T \ {x} /\ B = T \ {y} /\ C = A \ {y}
        BY Zenon
      <3>2. C = B \ {x} /\ y \in A /\ x \in B
        BY <2>4, <3>1
      <3>3. Sum(A) = f[y] + Sum(C)
        <4>1. Good(A)
          BY <2>2, <3>1, Zenon
        <4> QED
          BY <3>1, <3>2, <4>1
      <3>4. Sum(B) = f[x] + Sum(C) /\ Sum(B) \in Nat
        <4>1. Good(B)
          BY <2>2, <3>1, Zenon
        <4> QED
          BY <3>2, <4>1
      <3>5. Sum(A) \in Nat /\ f[x] \in Nat /\ f[y] \in Nat /\ Sum(T) = f[x] + Sum(A)
        BY <2>1, <2>2, <3>1
      <3>6. Sum(C) \in Nat
        <4>1. C \in SUBSET S /\ IsFiniteSet(C) /\ IsFiniteSet(A)
          BY <1>3, <3>1
        <4>2. Cardinality(A) = n - 1 /\ Cardinality(C) = n - 2
          BY <2>0, <3>1, <3>2, <4>1, FS_RemoveElement
        <4>3. CASE n - 2 = 0
          BY <1>2, <1>3, <4>1, <4>2, <4>3
        <4>4. CASE n - 2 # 0
          <5>0. Cardinality(C) \in Nat
            BY <1>3, <4>1
          <5>1. n - 2 \in 1..N /\ n - 2 < n
            BY <1>1, <4>2, <4>4, <5>0
          <5> QED
            BY <1>4, <4>1, <4>2, <5>1
        <4> QED
          BY <4>3, <4>4
      <3> HIDE DEF Sum
      <3> QED
        BY <3>1, <3>3, <3>4, <3>5, <3>6
    <2> HIDE DEF Sum
    <2> QED
      BY <2>1, <2>3, <2>4
  <1>5. Z = 1..N
    <2> HIDE DEF Z, N
    <2>1. Z \in SUBSET (1..N)
      BY DEF Z
    <2> QED
      BY <1>1, <1>4, <2>1, StrongInduction
  <1>6. Good(S)
    <2> HIDE DEF Good
    <2>1. CASE S = {}
      BY <1>2, <2>1
    <2>2. CASE S # {}
      BY <1>1, <1>3, <1>5, <2>2
    <2> QED
      BY <2>1, <2>2
  <1> QED
    BY <1>6

\* A sum of naturals is one.
LEMMA SumNat ==
    ASSUME NEW S, IsFiniteSet(S), NEW f, \A x \in S : f[x] \in Nat
    PROVE  SumFunctionOnSet(f, S) \in Nat
  BY SumSplits

\* One summand changes.
LEMMA SumChanges ==
    ASSUME NEW S, IsFiniteSet(S), NEW f, NEW g, NEW x \in S,
           \A y \in S : f[y] \in Nat /\ g[y] \in Nat,
           \A y \in S \ {x} : f[y] = g[y]
    PROVE  SumFunctionOnSet(g, S) + f[x] = SumFunctionOnSet(f, S) + g[x]
  <1>1. PICK T : T = S \ {x}
    BY Zenon
  <1>2. IsFiniteSet(T)
    BY <1>1, FS_RemoveElement
  <1>3. SumFunctionOnSet(f, T) = SumFunctionOnSet(g, T)
    BY <1>1, <1>2, SumSame
  <1>4. SumFunctionOnSet(f, T) \in Nat
    BY <1>1, <1>2, SumNat
  <1>5. SumFunctionOnSet(f, S) = f[x] + SumFunctionOnSet(f, T)
    BY <1>1, SumSplits
  <1>6. SumFunctionOnSet(g, S) = g[x] + SumFunctionOnSet(g, T)
    BY <1>1, SumSplits
  <1> QED
    BY <1>3, <1>4, <1>5, <1>6

\* Two summands change and their sum does not.
LEMMA SumMoves ==
    ASSUME NEW S, IsFiniteSet(S), NEW f, NEW g, NEW x \in S, NEW y \in S, x # y,
           \A z \in S : f[z] \in Nat /\ g[z] \in Nat,
           \A z \in S \ {x, y} : f[z] = g[z],
           f[x] + f[y] = g[x] + g[y]
    PROVE  SumFunctionOnSet(g, S) = SumFunctionOnSet(f, S)
  <1>1. PICK T : T = S \ {x}
    BY Zenon
  <1>2. IsFiniteSet(T) /\ y \in T
    BY <1>1, FS_RemoveElement
  <1>3. SumFunctionOnSet(g, T) + f[y] = SumFunctionOnSet(f, T) + g[y]
    BY <1>1, <1>2, SumChanges
  <1>4. SumFunctionOnSet(f, T) \in Nat /\ SumFunctionOnSet(g, T) \in Nat
    BY <1>1, <1>2, SumNat
  <1>5. SumFunctionOnSet(f, S) = f[x] + SumFunctionOnSet(f, T)
    BY <1>1, SumSplits
  <1>6. SumFunctionOnSet(g, S) = g[x] + SumFunctionOnSet(g, T)
    BY <1>1, SumSplits
  <1> QED
    BY <1>3, <1>4, <1>5, <1>6

\* One and two summands are no more than the sum.
LEMMA SumBounds ==
    ASSUME NEW S, IsFiniteSet(S), NEW f, \A x \in S : f[x] \in Nat
    PROVE  /\ \A x \in S : f[x] <= SumFunctionOnSet(f, S)
           /\ \A x, y \in S : x # y => f[x] + f[y] <= SumFunctionOnSet(f, S)
  <1>1. ASSUME NEW x \in S
        PROVE  /\ IsFiniteSet(S \ {x}) /\ SumFunctionOnSet(f, S \ {x}) \in Nat
               /\ SumFunctionOnSet(f, S) = f[x] + SumFunctionOnSet(f, S \ {x})
    <2>1. PICK T : T = S \ {x}
      BY Zenon
    <2>2. IsFiniteSet(T)
      BY <2>1, FS_RemoveElement
    <2> QED
      BY <2>1, <2>2, SumSplits, SumNat
  <1>2. ASSUME NEW x \in S, NEW y \in S, x # y PROVE f[x] + f[y] <= SumFunctionOnSet(f, S)
    <2>1. PICK T : T = S \ {x}
      BY Zenon
    <2>2. IsFiniteSet(T) /\ y \in T
      BY <1>1, <1>2, <2>1
    <2>3. SumFunctionOnSet(f, T) = f[y] + SumFunctionOnSet(f, T \ {y})
      BY <2>1, <2>2, SumSplits
    <2>4. SumFunctionOnSet(f, T \ {y}) \in Nat
      <3>1. PICK R : R = T \ {y}
        BY Zenon
      <3>2. IsFiniteSet(R)
        BY <2>2, <3>1, FS_RemoveElement
      <3> QED
        BY <2>1, <3>1, <3>2, SumNat
    <2> QED
      BY <1>1, <2>1, <2>3, <2>4
  <1>3. ASSUME NEW x \in S PROVE f[x] <= SumFunctionOnSet(f, S)
    <2>1. PICK a, b : a = SumFunctionOnSet(f, S) /\ b = SumFunctionOnSet(f, S \ {x})
      BY Zenon
    <2>2. a = f[x] + b /\ b \in Nat /\ f[x] \in Nat
      BY <1>1, <2>1
    <2> QED
      BY <2>1, <2>2
  <1> QED
    BY <1>2, <1>3, Zenon

\* Two disjoint sets.
LEMMA SumUnion ==
    ASSUME NEW S, IsFiniteSet(S), NEW T \in SUBSET S, NEW f, \A x \in S : f[x] \in Nat
    PROVE  SumFunctionOnSet(f, S) = SumFunctionOnSet(f, T) + SumFunctionOnSet(f, S \ T)
  <1> DEFINE N == Cardinality(S)
             Sum(R) == SumFunctionOnSet(f, R)
             Good(R) == Sum(S) = Sum(R) + Sum(S \ R)
             Z == {n \in 1..N : \A R \in SUBSET S : Cardinality(R) = n => Good(R)}
  <1>1. N \in Nat
    BY FS_CardinalityType
  <1>2. ASSUME NEW R \in SUBSET S
        PROVE  /\ IsFiniteSet(R) /\ Cardinality(R) \in 0..N /\ (Cardinality(R) = 0 => R = {})
               /\ Sum(R) \in Nat
    <2>1. IsFiniteSet(R) /\ Cardinality(R) <= N
      BY FS_Subset
    <2>2. Cardinality(R) \in Nat
      BY <2>1, FS_CardinalityType
    <2>3. Cardinality(R) = 0 => R = {}
      BY <2>1, FS_EmptySet
    <2>4. Sum(R) \in Nat
      BY <2>1, SumNat
    <2> QED
      BY <1>1, <2>1, <2>2, <2>3, <2>4
  <1>3. Good({})
    <2>1. S \ {} = S /\ S \in SUBSET S
      OBVIOUS
    <2> QED
      BY <1>2, <2>1, SumEmpty
  <1>4. ASSUME NEW n \in 1..N, \A m \in 1..N : m < n => m \in Z
        PROVE  n \in Z
    <2> SUFFICES ASSUME NEW R \in SUBSET S, Cardinality(R) = n
                 PROVE  Good(R)
      OBVIOUS
    <2>0. IsFiniteSet(R) /\ R # {}
      BY <1>1, <1>2, FS_EmptySet
    <2>1. PICK x : x \in R
      BY <2>0
    <2>2. PICK Q, P, B : Q = R \ {x} /\ P = S \ R /\ B = S \ Q
      BY Zenon
    <2>3. Q \in SUBSET S /\ P \in SUBSET S /\ B \in SUBSET S /\ x \in B /\ P = B \ {x}
      BY <2>1, <2>2
    <2>4. Cardinality(Q) = n - 1
      BY <2>0, <2>1, <2>2, FS_RemoveElement, Zenon
    <2>5. Good(Q)
      <3> HIDE DEF Good
      <3>3. CASE n = 1
        BY <1>2, <1>3, <2>3, <2>4, <3>3
      <3>4. CASE n # 1
        <4>1. n - 1 \in 1..N /\ n - 1 < n
          BY <1>1, <3>4
        <4> QED
          BY <1>4, <2>3, <2>4, <4>1
      <3> QED
        BY <3>3, <3>4
    <2>6. Sum(R) = f[x] + Sum(Q)
      BY <2>0, <2>1, <2>2, SumSplits
    <2>7. Sum(B) = f[x] + Sum(P)
      BY <1>2, <2>3, SumSplits
    <2>8. Sum(S) = Sum(Q) + Sum(B)
      BY <2>2, <2>5
    <2>9. Sum(Q) \in Nat /\ Sum(P) \in Nat /\ f[x] \in Nat
      BY <1>2, <2>1, <2>3
    <2> HIDE DEF Sum
    <2> QED
      BY <2>2, <2>6, <2>7, <2>8, <2>9
  <1>5. Z = 1..N
    <2> HIDE DEF Z, N
    <2>1. Z \in SUBSET (1..N)
      BY DEF Z
    <2> QED
      BY <1>1, <1>4, <2>1, StrongInduction
  <1>6. Good(T)
    <2> HIDE DEF Good
    <2>1. CASE T = {}
      BY <1>3, <2>1
    <2>2. CASE T # {}
      BY <1>1, <1>2, <1>5, <2>2
    <2> QED
      BY <2>1, <2>2
  <1> QED
    BY <1>6

\* Summands that are zero do not count.
LEMMA SumZero ==
    ASSUME NEW S, IsFiniteSet(S), NEW f, \A x \in S : f[x] = 0
    PROVE  SumFunctionOnSet(f, S) = 0
  <1> DEFINE N == Cardinality(S)
             Z == {n \in 1..N : \A R \in SUBSET S : Cardinality(R) = n => SumFunctionOnSet(f, R) = 0}
  <1>1. N \in Nat
    BY FS_CardinalityType
  <1>2. ASSUME NEW R \in SUBSET S
        PROVE  IsFiniteSet(R) /\ Cardinality(R) \in 0..N /\ (Cardinality(R) = 0 => R = {})
    <2>1. IsFiniteSet(R) /\ Cardinality(R) <= N
      BY FS_Subset
    <2>2. Cardinality(R) \in Nat
      BY <2>1, FS_CardinalityType
    <2>3. Cardinality(R) = 0 => R = {}
      BY <2>1, FS_EmptySet
    <2> QED
      BY <1>1, <2>1, <2>2, <2>3
  <1>3. ASSUME NEW n \in 1..N, \A m \in 1..N : m < n => m \in Z
        PROVE  n \in Z
    <2> SUFFICES ASSUME NEW R \in SUBSET S, Cardinality(R) = n
                 PROVE  SumFunctionOnSet(f, R) = 0
      OBVIOUS
    <2>0. IsFiniteSet(R) /\ R # {}
      BY <1>1, <1>2, FS_EmptySet
    <2>1. PICK x : x \in R
      BY <2>0
    <2>2. PICK Q : Q = R \ {x}
      BY Zenon
    <2>3. Q \in SUBSET S /\ Cardinality(Q) = n - 1
      BY <2>0, <2>1, <2>2, FS_RemoveElement, Zenon
    <2>4. SumFunctionOnSet(f, Q) = 0
      <3>1. CASE n = 1
        BY <1>2, <2>3, <3>1, SumEmpty
      <3>2. CASE n # 1
        <4>1. n - 1 \in 1..N /\ n - 1 < n
          BY <1>1, <3>2
        <4> QED
          BY <1>3, <2>3, <4>1
      <3> QED
        BY <3>1, <3>2
    <2>5. SumFunctionOnSet(f, R) = f[x] + SumFunctionOnSet(f, Q)
      BY <2>0, <2>1, <2>2, SumSplits
    <2> QED
      BY <2>1, <2>4, <2>5
  <1>4. Z = 1..N
    <2> HIDE DEF Z, N
    <2>1. Z \in SUBSET (1..N)
      BY DEF Z
    <2> QED
      BY <1>1, <1>3, <2>1, StrongInduction
  <1> QED
    <2>1. CASE S = {}
      BY <2>1, SumEmpty
    <2>2. CASE S # {}
      BY <1>1, <1>2, <1>4, <2>2
    <2> QED
      BY <2>1, <2>2

-----------------------------------------------------------------------------
\* What the native programs do to the accounts.

\* G is F but for the account at x.
OnlyAt(x, F, G) ==
    /\ AreAccounts(G) /\ DOMAIN G = DOMAIN F
    /\ \A m \in DOMAIN F \ {x} : G[m] = F[m]

\* What set_lamports changes.
LEMMA SetLamports ==
    ASSUME NEW F, AreAccounts(F), NEW info, NEW x \in DOMAIN F, x = info.index,
           NEW n \in 0..U64_MAX, NEW G, G = set_lamports(F, info, n)
    PROVE  /\ OnlyAt(x, F, G) /\ G[x].lamports = n /\ G[x].owner = F[x].owner
           /\ G[x].data = F[x].data /\ G[x].executable = F[x].executable
  <1>2. G = [F EXCEPT ![x].lamports = n]
    BY Zenon DEF set_lamports
  <1>3. x \in DOMAIN F /\ IsAccount(F[x])
    BY DEF AreAccounts
  <1>4. PICK a : a = F[x]
    OBVIOUS
  <1>5. PICK b : b = [lamports |-> n, owner |-> a.owner, data |-> a.data, executable |-> a.executable]
    BY Zenon
  <1>6. [a EXCEPT !.lamports = n] = b
    BY <1>3, <1>4, <1>5 DEF IsAccount
  <1>7. DOMAIN G = DOMAIN F /\ G[x] = b /\ (\A m \in DOMAIN F \ {x} : G[m] = F[m])
        /\ G = [m \in DOMAIN G |-> G[m]]
    BY <1>2, <1>3, <1>4, <1>6, Zenon
  <1>8. IsAccount(b) /\ b.lamports = n /\ b.owner = a.owner /\ b.data = a.data /\ b.executable = a.executable
    BY <1>5 DEF IsAccount
  <1>9. OnlyAt(x, F, G)
    BY <1>3, <1>7, <1>8 DEF OnlyAt, AreAccounts
  <1> QED
    BY <1>4, <1>7, <1>8, <1>9

\* What set_data changes.
LEMMA SetData ==
    ASSUME NEW F, AreAccounts(F), NEW info, NEW x \in DOMAIN F, x = info.index,
           NEW d, NEW G, G = set_data(F, info, d)
    PROVE  /\ OnlyAt(x, F, G) /\ G[x].lamports = F[x].lamports /\ G[x].owner = F[x].owner
           /\ G[x].data = d /\ G[x].executable = F[x].executable
  <1>2. G = [F EXCEPT ![x].data = d]
    BY Zenon DEF set_data
  <1>3. x \in DOMAIN F /\ IsAccount(F[x])
    BY DEF AreAccounts
  <1>4. PICK a : a = F[x]
    OBVIOUS
  <1>5. PICK b : b = [lamports |-> a.lamports, owner |-> a.owner, data |-> d, executable |-> a.executable]
    BY Zenon
  <1>6. [a EXCEPT !.data = d] = b
    BY <1>3, <1>4, <1>5 DEF IsAccount
  <1>7. DOMAIN G = DOMAIN F /\ G[x] = b /\ (\A m \in DOMAIN F \ {x} : G[m] = F[m])
        /\ G = [m \in DOMAIN G |-> G[m]]
    BY <1>2, <1>3, <1>4, <1>6, Zenon
  <1>8. IsAccount(b) /\ b.lamports = a.lamports /\ b.owner = a.owner /\ b.data = d /\ b.executable = a.executable
    BY <1>3, <1>4, <1>5 DEF IsAccount
  <1>9. OnlyAt(x, F, G)
    BY <1>3, <1>7, <1>8 DEF OnlyAt, AreAccounts
  <1> QED
    BY <1>4, <1>7, <1>8, <1>9

\* What set_owner changes.
LEMMA SetOwner ==
    ASSUME NEW F, AreAccounts(F), NEW info, NEW x \in DOMAIN F, x = info.index,
           NEW o, NEW G, G = set_owner(F, info, o)
    PROVE  /\ OnlyAt(x, F, G) /\ G[x].lamports = F[x].lamports /\ G[x].owner = o
           /\ G[x].data = F[x].data /\ G[x].executable = F[x].executable
  <1>2. G = [F EXCEPT ![x].owner = o]
    BY Zenon DEF set_owner
  <1>3. x \in DOMAIN F /\ IsAccount(F[x])
    BY DEF AreAccounts
  <1>4. PICK a : a = F[x]
    OBVIOUS
  <1>5. PICK b : b = [lamports |-> a.lamports, owner |-> o, data |-> a.data, executable |-> a.executable]
    BY Zenon
  <1>6. [a EXCEPT !.owner = o] = b
    BY <1>3, <1>4, <1>5 DEF IsAccount
  <1>7. DOMAIN G = DOMAIN F /\ G[x] = b /\ (\A m \in DOMAIN F \ {x} : G[m] = F[m])
        /\ G = [m \in DOMAIN G |-> G[m]]
    BY <1>2, <1>3, <1>4, <1>6, Zenon
  <1>8. IsAccount(b) /\ b.lamports = a.lamports /\ b.owner = o /\ b.data = a.data /\ b.executable = a.executable
    BY <1>3, <1>4, <1>5 DEF IsAccount
  <1>9. OnlyAt(x, F, G)
    BY <1>3, <1>7, <1>8 DEF OnlyAt, AreAccounts
  <1> QED
    BY <1>4, <1>7, <1>8, <1>9

-----------------------------------------------------------------------------
\* Lamports are neither made nor lost, unless there are more of them than a u64 holds.
Conserves(F, G) ==
    /\ AreAccounts(G) /\ DOMAIN G = DOMAIN F
    /\ Lamports(F) <= U64_MAX => Lamports(G) = Lamports(F)

\* Conservation goes on from step to step.
LEMMA ConservesTwice ==
    ASSUME NEW F, NEW G, NEW H, Conserves(F, G), Conserves(G, H)
    PROVE  Conserves(F, H)
  BY DEF Conserves

\* The balances, as a function to be summed.
Balances(F) == [m \in DOMAIN F |-> F[m].lamports]

\* Lamports is the sum of the balances.
LEMMA LamportsIs ==
    ASSUME NEW F, AreAccounts(F)
    PROVE  /\ Lamports(F) = SumFunctionOnSet(Balances(F), DOMAIN F)
           /\ \A m \in DOMAIN F : Balances(F)[m] = F[m].lamports /\ F[m].lamports \in 0..U64_MAX
           /\ \A m \in DOMAIN F : Balances(F)[m] \in Nat
  <1>1. DOMAIN Balances(F) = DOMAIN F /\ \A m \in DOMAIN F : Balances(F)[m] = F[m].lamports
    BY DEF Balances
  <1>2. Lamports(F) = SumFunctionOnSet(Balances(F), DOMAIN F)
    BY <1>1, Zenon DEF Lamports, SumFunction, Balances
  <1>3. \A m \in DOMAIN F : F[m].lamports \in 0..U64_MAX
    BY DEF AreAccounts, IsAccount
  <1>4. \A m \in DOMAIN F : F[m].lamports \in Nat
    BY <1>3, U64Assumption
  <1> QED
    BY <1>1, <1>2, <1>3, <1>4

\* Accounts with the balances of others hold as many lamports.
LEMMA SameBalances ==
    ASSUME NEW F, NEW G, AreAccounts(F), AreAccounts(G), DOMAIN G = DOMAIN F,
           \A m \in DOMAIN F : G[m].lamports = F[m].lamports
    PROVE  Conserves(F, G)
  <1>1. PICK S, f, g : S = DOMAIN F /\ f = Balances(F) /\ g = Balances(G)
    BY Zenon
  <1>2. /\ Lamports(F) = SumFunctionOnSet(f, S) /\ Lamports(G) = SumFunctionOnSet(g, S)
        /\ \A m \in S : f[m] = F[m].lamports /\ g[m] = G[m].lamports
    BY <1>1, LamportsIs
  <1>3. SumFunctionOnSet(f, S) = SumFunctionOnSet(g, S)
    <2>1. IsFiniteSet(S) /\ \A m \in S : f[m] = g[m]
      BY <1>1, <1>2 DEF AreAccounts
    <2> QED
      BY <2>1, SumSame
  <1> QED
    BY <1>2, <1>3 DEF Conserves

\* n lamports go from one account to another.
LEMMA ShiftConserves ==
    ASSUME NEW F, NEW G, AreAccounts(F), AreAccounts(G), DOMAIN G = DOMAIN F,
           NEW x \in DOMAIN F, NEW y \in DOMAIN F, x # y, NEW n \in 0..F[x].lamports,
           G[x].lamports = F[x].lamports - n,
           G[y].lamports = saturating_add(F[y].lamports, n),
           \A m \in DOMAIN F \ {x, y} : G[m].lamports = F[m].lamports
    PROVE  Conserves(F, G)
  <1> SUFFICES ASSUME Lamports(F) <= U64_MAX PROVE Lamports(G) = Lamports(F)
    BY DEF Conserves
  <1>1. PICK S, f, g : S = DOMAIN F /\ f = Balances(F) /\ g = Balances(G)
    BY Zenon
  <1>2. /\ Lamports(F) = SumFunctionOnSet(f, S) /\ Lamports(G) = SumFunctionOnSet(g, S)
        /\ \A m \in S : f[m] = F[m].lamports /\ g[m] = G[m].lamports
        /\ \A m \in S : f[m] \in Nat /\ g[m] \in Nat
    BY <1>1, LamportsIs
  <1>3. IsFiniteSet(S) /\ x \in S /\ y \in S
    BY <1>1 DEF AreAccounts
  <1>4. f[x] + f[y] <= SumFunctionOnSet(f, S)
    BY <1>2, <1>3, SumBounds
  <1>5. f[y] + n <= U64_MAX
    <2>1. f[x] \in Nat /\ f[y] \in Nat /\ n \in 0..f[x] /\ SumFunctionOnSet(f, S) <= U64_MAX
      BY <1>2, <1>3
    <2>2. SumFunctionOnSet(f, S) \in Nat
      BY <1>2, <1>3, SumNat
    <2> QED
      BY <1>4, <2>1, <2>2, U64Assumption
  <1>6. f[x] + f[y] = g[x] + g[y]
    <2>1. g[x] = f[x] - n /\ g[y] = saturating_add(f[y], n)
      BY <1>2, <1>3
    <2>2. f[x] \in Nat /\ f[y] \in Nat /\ n \in 0..f[x]
      BY <1>2, <1>3
    <2> QED
      BY <1>5, <2>1, <2>2, U64Assumption DEF saturating_add
  <1>7. \A m \in S \ {x, y} : f[m] = g[m]
    BY <1>1, <1>2
  <1>8. SumFunctionOnSet(g, S) = SumFunctionOnSet(f, S)
    BY <1>2, <1>3, <1>6, <1>7, SumMoves
  <1> QED
    BY <1>2, <1>8

\* Only the balances change.
OnlyBalances(F, G) ==
    \A m \in DOMAIN F : /\ G[m].data = F[m].data /\ G[m].owner = F[m].owner
                        /\ G[m].executable = F[m].executable

\* The operators of the programs are those of Runtime.
LEMMA SystemOps ==
    ASSUME NEW F, NEW info, NEW v, NEW w
    PROVE  /\ System!set_lamports(F, info, v) = set_lamports(F, info, v)
           /\ System!set_data(F, info, v) = set_data(F, info, v)
           /\ System!set_owner(F, info, v) = set_owner(F, info, v)
           /\ System!lamports(F, info) = lamports(F, info)
           /\ System!saturating_add(v, w) = saturating_add(v, w)
           /\ System!saturating_sub(v, w) = saturating_sub(v, w)
  BY Zenon DEF System!set_lamports, set_lamports, System!set_data, set_data,
               System!set_owner, set_owner, System!lamports, lamports,
               System!saturating_add, saturating_add, System!saturating_sub, saturating_sub

\* move_lamports of the system program conserves lamports, also between an account
\* and itself.
LEMMA MoveConserves ==
    ASSUME NEW F, AreAccounts(F), NEW from, NEW to, from.index \in DOMAIN F, to.index \in DOMAIN F,
           NEW n \in 0..lamports(F, from)
    PROVE  LET G == System!move_lamports(F, from, to, n)
           IN  Conserves(F, G) /\ OnlyBalances(F, G)
  <1>1. PICK x, y : x = from.index /\ y = to.index
    BY Zenon
  <1>2. x \in DOMAIN F /\ y \in DOMAIN F /\ n \in 0..F[x].lamports
    BY <1>1 DEF lamports
  <1>3. F[x].lamports \in 0..U64_MAX /\ F[y].lamports \in 0..U64_MAX
    BY <1>2 DEF AreAccounts, IsAccount
  <1>4. PICK a : a = saturating_sub(F[x].lamports, n)
    OBVIOUS
  <1>5. a = F[x].lamports - n /\ a \in 0..U64_MAX
    BY <1>2, <1>3, <1>4, U64Assumption DEF saturating_sub
  <1>6. PICK D : D = set_lamports(F, from, a)
    OBVIOUS
  <1>7. /\ OnlyAt(x, F, D) /\ D[x].lamports = a /\ D[x].owner = F[x].owner
        /\ D[x].data = F[x].data /\ D[x].executable = F[x].executable
    BY <1>1, <1>2, <1>5, <1>6, SetLamports
  <1>8. PICK b : b = saturating_add(D[y].lamports, n)
    OBVIOUS
  <1>9. AreAccounts(D) /\ DOMAIN D = DOMAIN F /\ D[y].lamports \in 0..U64_MAX
    BY <1>2, <1>7 DEF OnlyAt, AreAccounts, IsAccount
  <1>10. b \in 0..U64_MAX
    BY <1>2, <1>3, <1>8, <1>9, U64Assumption DEF saturating_add
  <1>11. PICK G : G = set_lamports(D, to, b)
    OBVIOUS
  <1>12. /\ OnlyAt(y, D, G) /\ G[y].lamports = b /\ G[y].owner = D[y].owner
         /\ G[y].data = D[y].data /\ G[y].executable = D[y].executable
    BY <1>1, <1>2, <1>9, <1>10, <1>11, SetLamports
  <1>13. System!move_lamports(F, from, to, n) = G
    <2>1. System!lamports(F, from) = F[x].lamports /\ System!lamports(D, to) = D[y].lamports
      BY <1>1, Zenon DEF System!lamports
    <2>2. System!saturating_sub(F[x].lamports, n) = a /\ System!saturating_add(D[y].lamports, n) = b
      BY <1>4, <1>8, SystemOps, Zenon
    <2>3. System!set_lamports(F, from, a) = D /\ System!set_lamports(D, to, b) = G
      BY <1>6, <1>11, SystemOps, Zenon
    <2> QED
      BY <2>1, <2>2, <2>3, Zenon DEF System!move_lamports
  <1>14. AreAccounts(G) /\ DOMAIN G = DOMAIN F
    BY <1>7, <1>12 DEF OnlyAt
  <1>15. OnlyBalances(F, G)
    BY <1>2, <1>7, <1>12 DEF OnlyAt, OnlyBalances
  <1>16. CASE x = y
    <2>1. b = F[x].lamports
      BY <1>2, <1>3, <1>5, <1>7, <1>8, <1>16, U64Assumption DEF saturating_add
    <2>2. \A m \in DOMAIN F : G[m].lamports = F[m].lamports
      BY <1>7, <1>12, <1>16, <2>1 DEF OnlyAt
    <2> QED
      BY <1>13, <1>14, <1>15, <2>2, SameBalances
  <1>17. CASE x # y
    <2>1. D[y] = F[y] /\ G[x] = D[x] /\ \A m \in DOMAIN F \ {x, y} : G[m] = F[m]
      BY <1>2, <1>7, <1>12, <1>17 DEF OnlyAt
    <2>2. Conserves(F, G)
      BY <1>2, <1>5, <1>7, <1>8, <1>12, <1>14, <1>17, <2>1, ShiftConserves
    <2> QED
      BY <1>13, <1>15, <2>2
  <1> QED
    BY <1>16, <1>17

-----------------------------------------------------------------------------
\* The AccountInfos of an instruction: each is of one of the accounts.
AreInfos(F, infos) ==
    /\ Len(infos) \in Nat /\ DOMAIN infos = 1..Len(infos)
    /\ \A i \in 1..Len(infos) : infos[i].index \in DOMAIN F

\* Everything but the balance stays as it was, except at x.
KeptBut(x, F, G) ==
    \A m \in DOMAIN F \ {x} : /\ G[m].data = F[m].data /\ G[m].owner = F[m].owner
                              /\ G[m].executable = F[m].executable

\* Transfer of the system program changes balances only, and conserves lamports.
LEMMA SystemTransfer ==
    ASSUME NEW F, AreAccounts(F), NEW infos, AreInfos(F, infos), NEW n \in 0..U64_MAX,
           NEW done, done = System!Transfer(n, F, infos), done.result = "Ok"
    PROVE  Conserves(F, done.loaded) /\ OnlyBalances(F, done.loaded)
  <1>1. PICK from, to : from = infos[1] /\ to = infos[2]
    OBVIOUS
  <1>2. PICK M : M = System!move_lamports(F, from, to, n)
    OBVIOUS
  <1>3. Len(infos) >= 2 /\ ~(lamports(F, from) < n) /\ done.loaded = M
    BY <1>1, <1>2 DEF System!Transfer, System!Fail, System!Succeed, System!lamports, lamports, AreInfos
  <1>4. from.index \in DOMAIN F /\ to.index \in DOMAIN F
    BY <1>1, <1>3 DEF AreInfos
  <1>5. n \in 0..lamports(F, from)
    BY <1>3, <1>4, U64Assumption DEF lamports, AreAccounts, IsAccount
  <1>6. Conserves(F, M) /\ OnlyBalances(F, M)
    BY <1>2, <1>4, <1>5, MoveConserves
  <1> QED
    BY <1>3, <1>6

\* Assign changes one owner.
LEMMA SystemAssign ==
    ASSUME NEW F, AreAccounts(F), NEW infos, AreInfos(F, infos), NEW o,
           NEW done, done = System!Assign(o, F, infos), done.result = "Ok"
    PROVE  /\ Len(infos) >= 1 /\ Conserves(F, done.loaded) /\ OnlyAt(infos[1].index, F, done.loaded)
           /\ done.loaded[infos[1].index].data = F[infos[1].index].data
           /\ done.loaded[infos[1].index].executable = F[infos[1].index].executable
           /\ done.loaded[infos[1].index].owner = o
  <1>1. PICK i, x, G : i = infos[1] /\ x = i.index /\ G = set_owner(F, i, o)
    OBVIOUS
  <1>2. Len(infos) >= 1 /\ done.loaded = G
    BY <1>1, SystemOps DEF System!Assign, System!Fail, System!Succeed, AreInfos
  <1>3. x \in DOMAIN F
    BY <1>1, <1>2 DEF AreInfos
  <1>4. /\ OnlyAt(x, F, G) /\ G[x].lamports = F[x].lamports /\ G[x].owner = o
        /\ G[x].data = F[x].data /\ G[x].executable = F[x].executable
    BY <1>1, <1>3, SetOwner
  <1>5. \A m \in DOMAIN F : G[m].lamports = F[m].lamports
    BY <1>3, <1>4 DEF OnlyAt
  <1>6. Conserves(F, G)
    BY <1>4, <1>5, SameBalances DEF OnlyAt
  <1> QED
    BY <1>1, <1>2, <1>4, <1>6

\* The account at x is a new one, of `space` zeroes and with owner o.
MadeAt(x, space, o, F, G) ==
    /\ x \in DOMAIN F /\ KeptBut(x, F, G)
    /\ G[x].data = Zeros(space) /\ G[x].owner = o /\ G[x].executable = F[x].executable

\* CreateAccount moves lamports and makes the new account.
LEMMA SystemCreate ==
    ASSUME NEW F, AreAccounts(F), NEW infos, AreInfos(F, infos), NEW n \in 0..U64_MAX, NEW space, NEW o,
           NEW done, done = System!CreateAccount(n, space, o, F, infos), done.result = "Ok",
           NEW x, x = infos[2].index, NEW G, G = done.loaded
    PROVE  Len(infos) >= 2 /\ Conserves(F, G) /\ MadeAt(x, space, o, F, G)
  <1>1. PICK from, to : from = infos[1] /\ to = infos[2]
    OBVIOUS
  <1>2. PICK M : M = System!move_lamports(F, from, to, n)
    OBVIOUS
  <1>3. PICK D : D = set_data(M, to, Zeros(space))
    OBVIOUS
  <1>4. PICK H : H = set_owner(D, to, o)
    OBVIOUS
  <1>5. System!set_data(M, to, System!Zeros(space)) = D /\ System!set_owner(D, to, o) = H
    BY <1>3, <1>4, SystemOps DEF System!Zeros, Zeros
  <1>6. Len(infos) >= 2 /\ ~(lamports(F, from) < n) /\ done.loaded = H
    BY <1>1, <1>2, <1>5 DEF System!CreateAccount, System!Fail, System!Succeed, System!lamports, lamports, AreInfos
  <1>7. from.index \in DOMAIN F /\ to.index \in DOMAIN F /\ x = to.index
    BY <1>1, <1>6 DEF AreInfos
  <1>8. n \in 0..lamports(F, from)
    BY <1>6, <1>7, U64Assumption DEF lamports, AreAccounts, IsAccount
  <1>9. Conserves(F, M) /\ OnlyBalances(F, M)
    BY <1>2, <1>7, <1>8, MoveConserves
  <1>10. AreAccounts(M) /\ DOMAIN M = DOMAIN F
    BY <1>9 DEF Conserves
  <1>11. /\ OnlyAt(x, M, D) /\ D[x].lamports = M[x].lamports /\ D[x].owner = M[x].owner
         /\ D[x].data = Zeros(space) /\ D[x].executable = M[x].executable
    BY <1>3, <1>7, <1>10, SetData
  <1>12. AreAccounts(D) /\ DOMAIN D = DOMAIN F
    BY <1>10, <1>11 DEF OnlyAt
  <1>13. /\ OnlyAt(x, D, H) /\ H[x].lamports = D[x].lamports /\ H[x].owner = o
         /\ H[x].data = D[x].data /\ H[x].executable = D[x].executable
    BY <1>4, <1>7, <1>12, SetOwner
  <1>14. DOMAIN H = DOMAIN F /\ AreAccounts(H) /\ \A m \in DOMAIN F \ {x} : H[m] = M[m]
    BY <1>10, <1>11, <1>12, <1>13 DEF OnlyAt
  <1>15. \A m \in DOMAIN M : H[m].lamports = M[m].lamports
    BY <1>7, <1>10, <1>11, <1>13, <1>14
  <1>16. Conserves(M, H)
    BY <1>10, <1>14, <1>15, SameBalances
  <1>17. Conserves(F, H)
    BY <1>9, <1>16, ConservesTwice
  <1>18. KeptBut(x, F, H)
    BY <1>9, <1>14 DEF KeptBut, OnlyBalances
  <1>19. H[x].executable = F[x].executable
    BY <1>7, <1>9, <1>11, <1>13 DEF OnlyBalances
  <1> QED
    BY <1>6, <1>7, <1>11, <1>13, <1>17, <1>18, <1>19 DEF MadeAt

\* What a system instruction that succeeds leaves of the accounts, but for balances.
SystemDone(data, infos, F, G) ==
    \/ /\ Decodes(data, 0, <<"u64">>)
       /\ OnlyBalances(F, G)
    \/ /\ Decodes(data, 1, <<"pubkey">>) /\ Len(infos) >= 1
       /\ OnlyAt(infos[1].index, F, G)
       /\ G[infos[1].index].data = F[infos[1].index].data
       /\ G[infos[1].index].executable = F[infos[1].index].executable
       /\ G[infos[1].index].owner = data.args[1]
    \/ /\ Decodes(data, 2, <<"u64", "u64", "pubkey">>) /\ Len(infos) >= 2
       /\ MadeAt(infos[2].index, data.args[2], data.args[3], F, G)

\* Every instruction of the system program that succeeds does one of these.
LEMMA SystemInstruction ==
    ASSUME NEW ctx, NEW data, data = ctx.instruction_data, U64Args(data),
           NEW F, AreAccounts(F), NEW infos, AreInfos(F, infos),
           NEW done, done = System!entrypoint(ctx, F, infos), done.result = "Ok"
    PROVE  Conserves(F, done.loaded) /\ SystemDone(data, infos, F, done.loaded)
  <1>1. PICK arg, G : arg = data.args /\ G = done.loaded
    OBVIOUS
  <1>2. CASE Decodes(data, 0, <<"u64">>)
    <2>1. done = System!Transfer(arg[1], F, infos)
      BY <1>1, <1>2, SMT DEF System!entrypoint, System!Decodes, Decodes
    <2>2. arg[1] \in 0..U64_MAX
      BY <1>1, <1>2 DEF U64Args, Decodes
    <2>3. Conserves(F, G) /\ OnlyBalances(F, G)
      BY <1>1, <2>1, <2>2, SystemTransfer
    <2> QED
      BY <1>1, <1>2, <2>3 DEF SystemDone
  <1>3. CASE Decodes(data, 1, <<"pubkey">>)
    <2>1. done = System!Assign(arg[1], F, infos)
      BY <1>1, <1>3, SMT DEF System!entrypoint, System!Decodes, Decodes
    <2>2. /\ Len(infos) >= 1 /\ Conserves(F, G) /\ OnlyAt(infos[1].index, F, G)
          /\ G[infos[1].index].data = F[infos[1].index].data
          /\ G[infos[1].index].executable = F[infos[1].index].executable
          /\ G[infos[1].index].owner = arg[1]
      BY <1>1, <2>1, SystemAssign
    <2> QED
      BY <1>1, <1>3, <2>2 DEF SystemDone
  <1>4. CASE Decodes(data, 2, <<"u64", "u64", "pubkey">>)
    <2>1. done = System!CreateAccount(arg[1], arg[2], arg[3], F, infos)
      BY <1>1, <1>4, SMT DEF System!entrypoint, System!Decodes, Decodes
    <2>2. arg[1] \in 0..U64_MAX
      BY <1>1, <1>4 DEF U64Args, Decodes
    <2>3. PICK x, n, space, o : x = infos[2].index /\ n = arg[1] /\ space = arg[2] /\ o = arg[3]
      OBVIOUS
    <2>31. n \in 0..U64_MAX /\ done = System!CreateAccount(n, space, o, F, infos)
      BY <2>1, <2>2, <2>3
    <2>4. Len(infos) >= 2 /\ Conserves(F, G) /\ MadeAt(x, space, o, F, G)
      BY <1>1, <2>3, <2>31, SystemCreate
    <2> QED
      BY <1>1, <1>4, <2>3, <2>4 DEF SystemDone
  <1>5. CASE ~Decodes(data, 0, <<"u64">>) /\ ~Decodes(data, 1, <<"pubkey">>)
             /\ ~Decodes(data, 2, <<"u64", "u64", "pubkey">>)
    <2>1. done = System!Fail("InvalidInstructionData", F)
      BY <1>5, SMT DEF System!entrypoint, System!Decodes, Decodes
    <2> QED
      BY <2>1 DEF System!Fail
  <1> QED
    BY <1>2, <1>3, <1>4, <1>5

-----------------------------------------------------------------------------
\* Nothing but data is written.
OnlyData(F, G) ==
    /\ AreAccounts(G) /\ DOMAIN G = DOMAIN F
    /\ \A m \in DOMAIN F : /\ G[m].lamports = F[m].lamports /\ G[m].owner = F[m].owner
                           /\ G[m].executable = F[m].executable

\* The data of one account is written.
DataAt(x, d, F, G) == OnlyData(F, G) /\ OnlyAt(x, F, G) /\ G[x].data = d

\* set_data, in terms of DataAt.
LEMMA SetDataAt ==
    ASSUME NEW F, AreAccounts(F), NEW info, NEW x \in DOMAIN F, x = info.index, NEW d,
           NEW G, G = set_data(F, info, d)
    PROVE  DataAt(x, d, F, G)
  <1>1. /\ OnlyAt(x, F, G) /\ G[x].lamports = F[x].lamports /\ G[x].owner = F[x].owner
        /\ G[x].data = d /\ G[x].executable = F[x].executable
    BY SetData
  <1> QED
    BY <1>1 DEF DataAt, OnlyData, OnlyAt

\* Where only data changes, lamports stay.
LEMMA OnlyDataConserves ==
    ASSUME NEW F, AreAccounts(F), NEW G, OnlyData(F, G)
    PROVE  Conserves(F, G)
  BY SameBalances DEF OnlyData

\* OnlyData goes on from step to step.
LEMMA OnlyDataTwice ==
    ASSUME NEW F, NEW G, NEW H, OnlyData(F, G), OnlyData(G, H)
    PROVE  OnlyData(F, H)
  BY DEF OnlyData

\* The operators the token program uses are those of Runtime.
LEMMA TokenOps ==
    ASSUME NEW F, NEW info, NEW v, NEW w
    PROVE  /\ Token!set_data(F, info, v) = set_data(F, info, v)
           /\ Token!data_of(F, info) = data_of(F, info)
           /\ Token!lamports(F, info) = lamports(F, info)
           /\ Token!saturating_add(v, w) = saturating_add(v, w)
           /\ Token!saturating_sub(v, w) = saturating_sub(v, w)
  BY Zenon DEF Token!set_data, set_data, Token!data_of, data_of, Token!lamports, lamports,
               Token!saturating_add, saturating_add, Token!saturating_sub, saturating_sub

-----------------------------------------------------------------------------
\* What the token program makes of the data of a mint and of token accounts.
MintedMore(d, n) == [Token!UnpackMint(d) EXCEPT !.supply = saturating_add(@, n)]
Credited(d, n) == [Token!UnpackTokenAccount(d) EXCEPT !.amount = saturating_add(@, n)]
Debited(d, n) == [Token!UnpackTokenAccount(d) EXCEPT !.amount = saturating_sub(@, n)]

\* Two accounts are written one after the other, both with data made from F.
DataAtTwo(x, d, y, e, F, G) == \E H : DataAt(x, d, F, H) /\ DataAt(y, e, H, G)

MintDone(x, y, key, n, F, G) ==
    /\ x \in DOMAIN F /\ y \in DOMAIN F
    /\ Token!IsMint(F[x].data) /\ Token!IsTokenAccount(F[y].data)
    /\ Token!UnpackTokenAccount(F[y].data).mint = key
    /\ DataAtTwo(x, MintedMore(F[x].data, n), y, Credited(F[y].data, n), F, G)

MoveDone(x, y, n, F, G) ==
    /\ x \in DOMAIN F /\ y \in DOMAIN F
    /\ Token!IsTokenAccount(F[x].data) /\ Token!IsTokenAccount(F[y].data)
    /\ Token!UnpackTokenAccount(F[x].data).mint = Token!UnpackTokenAccount(F[y].data).mint
    /\ ~(Token!UnpackTokenAccount(F[x].data).amount < n)
    /\ DataAtTwo(x, Debited(F[x].data, n), y, Credited(F[y].data, n), F, G)

InitMintDone(x, authority, F, G) ==
    /\ x \in DOMAIN F
    /\ Token!IsMint(F[x].data) /\ ~Token!UnpackMint(F[x].data).is_initialized
    /\ DataAt(x, Token!MintState(authority, 0, TRUE), F, G)

InitAccountDone(x, y, mint, owner, F, G) ==
    /\ x \in DOMAIN F /\ y \in DOMAIN F
    /\ Token!IsTokenAccount(F[x].data) /\ ~Token!UnpackTokenAccount(F[x].data).is_initialized
    /\ Token!IsMint(F[y].data) /\ Token!UnpackMint(F[y].data).is_initialized
    /\ DataAt(x, Token!TokenAccount(mint, owner, 0, TRUE), F, G)

\* Two accounts written one after the other.
LEMMA SetDataTwo ==
    ASSUME NEW F, AreAccounts(F), NEW from, NEW x \in DOMAIN F, x = from.index,
           NEW to, NEW y \in DOMAIN F, y = to.index, NEW d, NEW e,
           NEW G, G = set_data(set_data(F, from, d), to, e)
    PROVE  DataAtTwo(x, d, y, e, F, G)
  <1>1. PICK H : H = set_data(F, from, d)
    OBVIOUS
  <1>2. DataAt(x, d, F, H)
    BY <1>1, SetDataAt
  <1>3. AreAccounts(H) /\ y \in DOMAIN H /\ G = set_data(H, to, e)
    BY <1>1, <1>2 DEF DataAt, OnlyData
  <1>4. DataAt(y, e, H, G)
    BY <1>3, SetDataAt
  <1> QED
    BY <1>2, <1>4, Zenon DEF DataAtTwo

\* MintTo of the token program.
LEMMA TokenMint ==
    ASSUME NEW F, AreAccounts(F), NEW infos, AreInfos(F, infos), NEW n,
           NEW done, done = Token!Mint(n, F, infos), done.result = "Ok",
           NEW x, x = infos[2].index, NEW y, y = infos[3].index
    PROVE  Len(infos) >= 3 /\ MintDone(x, y, infos[2].pubkey, n, F, done.loaded)
  <1>1. PICK from, to : from = infos[2] /\ to = infos[3]
    OBVIOUS
  <1>2. PICK d, e : d = F[x].data /\ e = F[y].data
    OBVIOUS
  <1>3. PICK G : G = set_data(set_data(F, from, MintedMore(d, n)), to, Credited(e, n))
    OBVIOUS
  <1>4. Token!data_of(F, from) = d /\ Token!data_of(F, to) = e
    BY <1>1, <1>2, Zenon DEF Token!data_of
  <1>5. /\ [Token!UnpackMint(d) EXCEPT !.supply = Token!saturating_add(@, n)] = MintedMore(d, n)
        /\ [Token!UnpackTokenAccount(e) EXCEPT !.amount = Token!saturating_add(@, n)] = Credited(e, n)
    BY Zenon DEF MintedMore, Credited, Token!saturating_add, saturating_add
  <1>6. Token!set_data(Token!set_data(F, from, MintedMore(d, n)), to, Credited(e, n)) = G
    BY <1>3, TokenOps, Zenon
  <1>7. done = IF Len(infos) < 3 THEN Token!Fail("NotEnoughAccountKeys", F)
               ELSE IF ~infos[1].is_signer THEN Token!Fail("MissingRequiredSignature", F)
               ELSE IF ~Token!IsMint(d) THEN Token!Fail("InvalidAccountData", F)
               ELSE IF Token!UnpackMint(d).mint_authority # infos[1].pubkey
                    THEN Token!Fail("AuthorityMismatch", F)
               ELSE IF ~Token!IsTokenAccount(e) THEN Token!Fail("InvalidAccountData", F)
               ELSE IF Token!UnpackTokenAccount(e).mint # from.pubkey
                    THEN Token!Fail("TokenAccountMintMismatch", F)
               ELSE Token!Succeed(G)
    BY <1>1, <1>4, <1>5, <1>6, Zenon DEF Token!Mint
  <1>8. \A error \in {"NotEnoughAccountKeys", "MissingRequiredSignature", "InvalidAccountData",
                      "AuthorityMismatch", "TokenAccountMintMismatch"} :
            Token!Fail(error, F).result # "Ok"
    BY DEF Token!Fail
  <1>9. /\ ~(Len(infos) < 3) /\ Token!IsMint(d) /\ Token!IsTokenAccount(e)
        /\ Token!UnpackTokenAccount(e).mint = from.pubkey /\ done = Token!Succeed(G)
    BY <1>7, <1>8
  <1>10. done.loaded = G /\ Len(infos) >= 3
    BY <1>9 DEF Token!Succeed, AreInfos
  <1>11. x \in DOMAIN F /\ y \in DOMAIN F
    BY <1>10 DEF AreInfos
  <1>12. DataAtTwo(x, MintedMore(d, n), y, Credited(e, n), F, G)
    BY <1>1, <1>3, <1>11, SetDataTwo
  <1> QED
    BY <1>1, <1>2, <1>9, <1>10, <1>11, <1>12, Zenon DEF MintDone

\* Transfer of the token program.
LEMMA TokenTransfer ==
    ASSUME NEW F, AreAccounts(F), NEW infos, AreInfos(F, infos), NEW n,
           NEW done, done = Token!Transfer(n, F, infos), done.result = "Ok",
           NEW x, x = infos[2].index, NEW y, y = infos[3].index
    PROVE  Len(infos) >= 3 /\ MoveDone(x, y, n, F, done.loaded)
  <1>1. PICK from, to : from = infos[2] /\ to = infos[3]
    OBVIOUS
  <1>2. PICK d, e : d = F[x].data /\ e = F[y].data
    OBVIOUS
  <1>3. PICK G : G = set_data(set_data(F, from, Debited(d, n)), to, Credited(e, n))
    OBVIOUS
  <1>4. Token!data_of(F, from) = d /\ Token!data_of(F, to) = e
    BY <1>1, <1>2, Zenon DEF Token!data_of
  <1>5. /\ [Token!UnpackTokenAccount(d) EXCEPT !.amount = Token!saturating_sub(@, n)] = Debited(d, n)
        /\ [Token!UnpackTokenAccount(e) EXCEPT !.amount = Token!saturating_add(@, n)] = Credited(e, n)
    BY Zenon DEF Debited, Credited, Token!saturating_add, saturating_add,
                 Token!saturating_sub, saturating_sub
  <1>6. Token!MoveTokens(F, from, to, n) = G
    <2>1. Token!set_data(Token!set_data(F, from, Debited(d, n)), to, Credited(e, n)) = G
      BY <1>3, TokenOps, Zenon
    <2> QED
      BY <1>4, <1>5, <2>1, Zenon DEF Token!MoveTokens
  <1>7. done = IF Len(infos) < 3 THEN Token!Fail("NotEnoughAccountKeys", F)
               ELSE IF ~infos[1].is_signer THEN Token!Fail("MissingRequiredSignature", F)
               ELSE IF ~Token!IsTokenAccount(d) THEN Token!Fail("InvalidAccountData", F)
               ELSE IF Token!UnpackTokenAccount(d).owner # infos[1].pubkey
                    THEN Token!Fail("SourceNotOwnedBySigner", F)
               ELSE IF ~Token!IsTokenAccount(e) THEN Token!Fail("InvalidAccountData", F)
               ELSE IF Token!UnpackTokenAccount(d).mint # Token!UnpackTokenAccount(e).mint
                    THEN Token!Fail("MintMismatch", F)
               ELSE IF Token!UnpackTokenAccount(d).amount < n
                    THEN Token!Fail("InsufficientFunds", F)
               ELSE Token!Succeed(G)
    BY <1>1, <1>4, <1>6, Zenon DEF Token!Transfer
  <1>8. \A error \in {"NotEnoughAccountKeys", "MissingRequiredSignature", "InvalidAccountData",
                      "SourceNotOwnedBySigner", "MintMismatch", "InsufficientFunds"} :
            Token!Fail(error, F).result # "Ok"
    BY DEF Token!Fail
  <1>9. /\ ~(Len(infos) < 3) /\ Token!IsTokenAccount(d) /\ Token!IsTokenAccount(e)
        /\ Token!UnpackTokenAccount(d).mint = Token!UnpackTokenAccount(e).mint
        /\ ~(Token!UnpackTokenAccount(d).amount < n) /\ done = Token!Succeed(G)
    BY <1>7, <1>8
  <1>10. done.loaded = G /\ Len(infos) >= 3
    BY <1>9 DEF Token!Succeed, AreInfos
  <1>11. x \in DOMAIN F /\ y \in DOMAIN F
    BY <1>10 DEF AreInfos
  <1>12. DataAtTwo(x, Debited(d, n), y, Credited(e, n), F, G)
    BY <1>1, <1>3, <1>11, SetDataTwo
  <1> QED
    BY <1>1, <1>2, <1>9, <1>10, <1>11, <1>12, Zenon DEF MoveDone

\* InitializeMint of the token program.
LEMMA TokenInitMint ==
    ASSUME NEW F, AreAccounts(F), NEW infos, AreInfos(F, infos), NEW authority,
           NEW done, done = Token!InitializeMint(authority, F, infos), done.result = "Ok",
           NEW x, x = infos[1].index
    PROVE  Len(infos) >= 2 /\ InitMintDone(x, authority, F, done.loaded)
  <1>1. PICK info, d, G, r : /\ info = infos[1] /\ d = F[x].data
                             /\ G = set_data(F, info, Token!MintState(authority, 0, TRUE))
                             /\ r = infos[2]
    BY Zenon
  <1>2. /\ Token!data_of(F, info) = d
        /\ Token!set_data(F, info, Token!MintState(authority, 0, TRUE)) = G
    BY <1>1, TokenOps, Zenon DEF Token!data_of
  <1>3. done = IF Len(infos) < 2 THEN Token!Fail("NotEnoughAccountKeys", F)
               ELSE IF ~Token!IsRent(Token!data_of(F, r)) THEN Token!Fail("InternalError", F)
               ELSE IF ~Token!IsMint(d) THEN Token!Fail("InvalidAccountData", F)
               ELSE IF Token!UnpackMint(d).is_initialized THEN Token!Fail("AlreadyInitialized", F)
               ELSE IF Token!lamports(F, info) < Token!minimum_balance(d.len)
                    THEN Token!Fail("NotRentExempt", F)
               ELSE Token!Succeed(G)
    BY <1>1, <1>2, Zenon DEF Token!InitializeMint
  <1>4. \A error \in {"NotEnoughAccountKeys", "InternalError", "InvalidAccountData",
                      "AlreadyInitialized", "NotRentExempt"} : Token!Fail(error, F).result # "Ok"
    BY DEF Token!Fail
  <1>5. /\ ~(Len(infos) < 2) /\ Token!IsMint(d) /\ ~Token!UnpackMint(d).is_initialized
        /\ done = Token!Succeed(G)
    BY <1>3, <1>4
  <1>6. done.loaded = G /\ Len(infos) >= 2
    BY <1>5 DEF Token!Succeed, AreInfos
  <1>7. x \in DOMAIN F
    BY <1>6 DEF AreInfos
  <1>8. DataAt(x, Token!MintState(authority, 0, TRUE), F, G)
    BY <1>1, <1>7, SetDataAt, Zenon
  <1> QED
    BY <1>1, <1>5, <1>6, <1>7, <1>8, Zenon DEF InitMintDone

\* InitializeAccount of the token program.
LEMMA TokenInitAccount ==
    ASSUME NEW F, AreAccounts(F), NEW infos, AreInfos(F, infos),
           NEW done, done = Token!InitializeAccount(F, infos), done.result = "Ok",
           NEW x, x = infos[1].index, NEW y, y = infos[2].index
    PROVE  Len(infos) >= 4 /\ InitAccountDone(x, y, infos[2].pubkey, infos[3].pubkey, F, done.loaded)
  <1>1. PICK info, mint, d, e, new, G, r :
            /\ info = infos[1] /\ mint = infos[2] /\ d = F[x].data /\ e = F[y].data
            /\ new = Token!TokenAccount(infos[2].pubkey, infos[3].pubkey, 0, TRUE)
            /\ G = set_data(F, info, new) /\ r = infos[4]
    BY Zenon
  <1>2. Token!data_of(F, info) = d /\ Token!data_of(F, mint) = e /\ Token!set_data(F, info, new) = G
    BY <1>1, TokenOps, Zenon DEF Token!data_of
  <1>3. done = IF Len(infos) < 4 THEN Token!Fail("NotEnoughAccountKeys", F)
               ELSE IF ~Token!IsRent(Token!data_of(F, r)) THEN Token!Fail("InternalError", F)
               ELSE IF ~Token!IsTokenAccount(d) THEN Token!Fail("InvalidAccountData", F)
               ELSE IF Token!UnpackTokenAccount(d).is_initialized
                    THEN Token!Fail("AlreadyInitialized", F)
               ELSE IF Token!lamports(F, info) < Token!minimum_balance(d.len)
                    THEN Token!Fail("NotRentExempt", F)
               ELSE IF ~Token!IsMint(e) THEN Token!Fail("InvalidAccountData", F)
               ELSE IF ~Token!UnpackMint(e).is_initialized THEN Token!Fail("MintNotInitialized", F)
               ELSE Token!Succeed(G)
    BY <1>1, <1>2, Zenon DEF Token!InitializeAccount
  <1>4. \A error \in {"NotEnoughAccountKeys", "InternalError", "InvalidAccountData",
                      "AlreadyInitialized", "NotRentExempt", "MintNotInitialized"} :
            Token!Fail(error, F).result # "Ok"
    BY DEF Token!Fail
  <1>5. /\ ~(Len(infos) < 4) /\ Token!IsTokenAccount(d)
        /\ ~Token!UnpackTokenAccount(d).is_initialized
        /\ Token!IsMint(e) /\ Token!UnpackMint(e).is_initialized /\ done = Token!Succeed(G)
    BY <1>3, <1>4
  <1>6. done.loaded = G /\ Len(infos) >= 4
    BY <1>5 DEF Token!Succeed, AreInfos
  <1>7. x \in DOMAIN F /\ y \in DOMAIN F
    BY <1>6 DEF AreInfos
  <1>8. DataAt(x, new, F, G)
    BY <1>1, <1>7, SetDataAt, Zenon
  <1> QED
    BY <1>1, <1>5, <1>6, <1>7, <1>8, Zenon DEF InitAccountDone

\* The system program is handed the data of SetAuthority, which it does not decode.
LEMMA TokenSetAuthority ==
    ASSUME NEW ctx, ctx.instruction_data.variant = 2, ctx.instruction_data.kinds = <<"pubkey">>,
           NEW F, NEW infos, NEW new_authority
    PROVE  Token!SetAuthority(ctx, new_authority, F, infos).result # "Ok"
  <1>1. PICK ix, i : /\ ix = Token!System!create_assign_instruction(infos[1].pubkey, new_authority)
                     /\ i = <<infos[1]>>
    BY Zenon
  <1>2. ix.program_id = SYSTEM_PROGRAM_ID
    BY <1>1 DEF Token!System!create_assign_instruction
  <1>3. Token!System!entrypoint(ctx, F, i) = Token!System!Fail("InvalidInstructionData", F)
    BY SMT DEF Token!System!entrypoint, Token!System!Decodes
  <1>4. Token!System!invoke(ctx, ix, F, i).result # "Ok"
    BY <1>2, <1>3 DEF Token!System!invoke, Token!System!Fail
  <1>5. \A error \in {"NotEnoughAccountKeys", "MissingRequiredSignature"} :
            Token!Fail(error, F).result # "Ok"
    BY DEF Token!Fail
  <1>6. Token!SetAuthority(ctx, new_authority, F, infos) \in
            {Token!Fail("NotEnoughAccountKeys", F), Token!Fail("MissingRequiredSignature", F),
             Token!System!invoke(ctx, ix, F, i)}
    BY <1>1, Zenon DEF Token!SetAuthority
  <1> QED
    BY <1>4, <1>5, <1>6, Zenon

\* What a token instruction that succeeds does.
TokenDone(data, infos, F, G) ==
    \/ /\ Decodes(data, 0, <<"u64">>) /\ Len(infos) >= 3
       /\ MintDone(infos[2].index, infos[3].index, infos[2].pubkey, data.args[1], F, G)
    \/ /\ Decodes(data, 1, <<"u64">>) /\ Len(infos) >= 3
       /\ MoveDone(infos[2].index, infos[3].index, data.args[1], F, G)
    \/ /\ Decodes(data, 3, <<"u8", "pubkey">>) /\ Len(infos) >= 2
       /\ InitMintDone(infos[1].index, data.args[2], F, G)
    \/ /\ Decodes(data, 4, <<>>) /\ Len(infos) >= 4
       /\ InitAccountDone(infos[1].index, infos[2].index, infos[2].pubkey, infos[3].pubkey, F, G)

\* Every instruction of the token program that succeeds does one of these.
LEMMA TokenInstruction ==
    ASSUME NEW ctx, NEW data, data = ctx.instruction_data,
           NEW F, AreAccounts(F), NEW infos, AreInfos(F, infos),
           NEW done, done = Token!entrypoint(ctx, F, infos), done.result = "Ok"
    PROVE  OnlyData(F, done.loaded) /\ TokenDone(data, infos, F, done.loaded)
  <1>1. PICK arg, G, x, y, z : /\ arg = data.args /\ G = done.loaded /\ x = infos[1].index
                               /\ y = infos[2].index /\ z = infos[3].index
    OBVIOUS
  <1>2. CASE Decodes(data, 0, <<"u64">>)
    <2>1. done = Token!Mint(arg[1], F, infos)
      BY <1>1, <1>2, SMT DEF Token!entrypoint, Token!Decodes, Decodes
    <2>2. Len(infos) >= 3 /\ MintDone(y, z, infos[2].pubkey, arg[1], F, G)
      BY <1>1, <2>1, TokenMint
    <2>3. OnlyData(F, G)
      BY <2>2, OnlyDataTwice DEF MintDone, DataAtTwo, DataAt
    <2> QED
      BY <1>1, <1>2, <2>2, <2>3 DEF TokenDone
  <1>3. CASE Decodes(data, 1, <<"u64">>)
    <2>1. done = Token!Transfer(arg[1], F, infos)
      BY <1>1, <1>3, SMT DEF Token!entrypoint, Token!Decodes, Decodes
    <2>2. Len(infos) >= 3 /\ MoveDone(y, z, arg[1], F, G)
      BY <1>1, <2>1, TokenTransfer
    <2>3. OnlyData(F, G)
      BY <2>2, OnlyDataTwice DEF MoveDone, DataAtTwo, DataAt
    <2> QED
      BY <1>1, <1>3, <2>2, <2>3 DEF TokenDone
  <1>4. CASE Decodes(data, 2, <<"pubkey">>)
    <2>1. done = Token!SetAuthority(ctx, arg[1], F, infos)
      BY <1>1, <1>4, SMT DEF Token!entrypoint, Token!Decodes, Decodes
    <2> QED
      BY <1>4, <2>1, TokenSetAuthority DEF Decodes
  <1>5. CASE Decodes(data, 3, <<"u8", "pubkey">>)
    <2>1. done = Token!InitializeMint(arg[2], F, infos)
      BY <1>1, <1>5, SMT DEF Token!entrypoint, Token!Decodes, Decodes
    <2>2. Len(infos) >= 2 /\ InitMintDone(x, arg[2], F, G)
      BY <1>1, <2>1, TokenInitMint
    <2>3. OnlyData(F, G)
      BY <2>2 DEF InitMintDone, DataAt
    <2> QED
      BY <1>1, <1>5, <2>2, <2>3 DEF TokenDone
  <1>6. CASE Decodes(data, 4, <<>>)
    <2>1. done = Token!InitializeAccount(F, infos)
      BY <1>1, <1>6, SMT DEF Token!entrypoint, Token!Decodes, Decodes
    <2>2. Len(infos) >= 4 /\ InitAccountDone(x, y, infos[2].pubkey, infos[3].pubkey, F, G)
      BY <1>1, <2>1, TokenInitAccount
    <2>3. OnlyData(F, G)
      BY <2>2 DEF InitAccountDone, DataAt
    <2> QED
      BY <1>1, <1>6, <2>2, <2>3 DEF TokenDone
  <1>7. CASE /\ ~Decodes(data, 0, <<"u64">>) /\ ~Decodes(data, 1, <<"u64">>)
             /\ ~Decodes(data, 2, <<"pubkey">>) /\ ~Decodes(data, 3, <<"u8", "pubkey">>)
             /\ ~Decodes(data, 4, <<>>)
    <2>1. done = Token!Fail("InvalidInstructionData", F)
      BY <1>7, SMT DEF Token!entrypoint, Token!Decodes, Decodes
    <2> QED
      BY <2>1 DEF Token!Fail
  <1> QED
    BY <1>2, <1>3, <1>4, <1>5, <1>6, <1>7

-----------------------------------------------------------------------------
\* The operators the loader uses are those of Runtime.
LEMMA LoaderOps ==
    ASSUME NEW F, NEW info, NEW v, NEW w
    PROVE  /\ Loader!set_lamports(F, info, v) = set_lamports(F, info, v)
           /\ Loader!set_data(F, info, v) = set_data(F, info, v)
           /\ Loader!lamports(F, info) = lamports(F, info)
           /\ Loader!saturating_add(v, w) = saturating_add(v, w)
           /\ Loader!saturating_sub(v, w) = saturating_sub(v, w)
           /\ Loader!Empty = Empty
  BY Zenon DEF Loader!set_lamports, set_lamports, Loader!set_data, set_data,
               Loader!lamports, lamports, Loader!saturating_add, saturating_add,
               Loader!saturating_sub, saturating_sub, Loader!Empty, Empty, Loader!Zeros, Zeros

\* The account at x is emptied and its lamports go to y.
DrainedTo(x, y, F, G) ==
    /\ x \in DOMAIN F /\ y \in DOMAIN F /\ AreAccounts(G) /\ DOMAIN G = DOMAIN F
    /\ KeptBut(x, F, G)
    /\ G[x].data = Empty /\ G[x].owner = F[x].owner /\ G[x].executable = F[x].executable
    /\ G[x].lamports = 0
    /\ x # y => Conserves(F, G)

\* Draining an account into another one conserves lamports; into itself, it loses them.
LEMMA LoaderDrain ==
    ASSUME NEW F, AreAccounts(F), NEW from, NEW x \in DOMAIN F, x = from.index,
           NEW to, NEW y \in DOMAIN F, y = to.index, NEW G, G = Loader!Drain(F, from, to)
    PROVE  DrainedTo(x, y, F, G)
  <1>1. PICK b : b = saturating_add(F[y].lamports, F[x].lamports)
    OBVIOUS
  <1>2. F[x].lamports \in 0..U64_MAX /\ F[y].lamports \in 0..U64_MAX
    BY DEF AreAccounts, IsAccount
  <1>3. b \in 0..U64_MAX /\ 0 \in 0..U64_MAX
    BY <1>1, <1>2, U64Assumption DEF saturating_add
  <1>4. PICK C : C = set_lamports(F, to, b)
    OBVIOUS
  <1>5. /\ OnlyAt(y, F, C) /\ C[y].lamports = b /\ C[y].owner = F[y].owner
        /\ C[y].data = F[y].data /\ C[y].executable = F[y].executable
    BY <1>3, <1>4, SetLamports
  <1>6. AreAccounts(C) /\ DOMAIN C = DOMAIN F
    BY <1>5 DEF OnlyAt
  <1>7. PICK D : D = set_lamports(C, from, 0)
    OBVIOUS
  <1>8. /\ OnlyAt(x, C, D) /\ D[x].lamports = 0 /\ D[x].owner = C[x].owner
        /\ D[x].data = C[x].data /\ D[x].executable = C[x].executable
    BY <1>3, <1>6, <1>7, SetLamports
  <1>9. AreAccounts(D) /\ DOMAIN D = DOMAIN F
    BY <1>6, <1>8 DEF OnlyAt
  <1>10. PICK H : H = set_data(D, from, Empty)
    OBVIOUS
  <1>11. /\ OnlyAt(x, D, H) /\ H[x].lamports = D[x].lamports /\ H[x].owner = D[x].owner
         /\ H[x].data = Empty /\ H[x].executable = D[x].executable
    BY <1>9, <1>10, SetData
  <1>12. G = H
    <2>1. Loader!lamports(F, to) = F[y].lamports /\ Loader!lamports(F, from) = F[x].lamports
      BY Zenon DEF Loader!lamports
    <2>2. Loader!saturating_add(F[y].lamports, F[x].lamports) = b
      BY <1>1, LoaderOps, Zenon
    <2>3. Loader!set_lamports(F, to, b) = C /\ Loader!set_lamports(C, from, 0) = D
      BY <1>4, <1>7, LoaderOps, Zenon
    <2>4. Loader!set_data(D, from, Loader!Empty) = H
      BY <1>10, LoaderOps, Zenon
    <2> QED
      BY <2>1, <2>2, <2>3, <2>4, Zenon DEF Loader!Drain
  <1>13. AreAccounts(H) /\ DOMAIN H = DOMAIN F
    BY <1>9, <1>11 DEF OnlyAt
  <1>14. KeptBut(x, F, H) /\ H[x].data = Empty /\ H[x].owner = F[x].owner
         /\ H[x].executable = F[x].executable /\ H[x].lamports = 0
    BY <1>5, <1>6, <1>8, <1>9, <1>11 DEF OnlyAt, KeptBut
  <1>15. ASSUME x # y PROVE Conserves(F, H)
    <2>1. PICK n : n = F[x].lamports
      OBVIOUS
    <2>2. n \in 0..F[x].lamports /\ H[x].lamports = F[x].lamports - n
      BY <1>2, <1>14, <2>1, U64Assumption
    <2>3. H[y].lamports = saturating_add(F[y].lamports, n)
      BY <1>1, <1>5, <1>6, <1>8, <1>9, <1>11, <1>15, <2>1 DEF OnlyAt
    <2>4. \A m \in DOMAIN F \ {x, y} : H[m].lamports = F[m].lamports
      BY <1>5, <1>6, <1>8, <1>9, <1>11 DEF OnlyAt
    <2> QED
      BY <1>13, <1>15, <2>2, <2>3, <2>4, ShiftConserves
  <1> QED
    BY <1>12, <1>13, <1>14, <1>15 DEF DrainedTo

-----------------------------------------------------------------------------
\* What the loader's instructions do when they succeed.
InitBufferDone(x, new, F, G) ==
    /\ x \in DOMAIN F
    /\ Loader!StateOf(F[x].data) = Loader!Uninitialized
    /\ ~Loader!PackFails(new, F[x].data)
    /\ DataAt(x, Loader!pack_into_account(new, F[x].data), F, G)

\* The data of a buffer into which bytes were copied.
Rewritten(d, offset, bytes) ==
    Loader!pack_into_account(Loader!StateOf(d),
                             [d EXCEPT !.body = Loader!CopyInto(@, offset, bytes)])

WriteDone(x, offset, bytes, F, G) ==
    /\ x \in DOMAIN F
    /\ Loader!HasState(F[x].data) /\ Loader!StateOf(F[x].data).tag = "Buffer"
    /\ Loader!StateOf(F[x].data).authority_address # Loader!NoKey
    /\ ~(Loader!size_of_buffer_metadata + offset + Len(bytes) > F[x].data.len)
    /\ DataAt(x, Rewritten(F[x].data, offset, bytes), F, G)

\* The state of a buffer or a program's data with another authority.
WithAuthority(d, key) == [Loader!StateOf(d) EXCEPT !.authority_address = key]

SetAuthorityDone(x, old, new, F, G) ==
    /\ x \in DOMAIN F
    /\ Loader!HasState(F[x].data) /\ Loader!StateOf(F[x].data).tag \in {"Buffer", "ProgramData"}
    /\ Loader!StateOf(F[x].data).authority_address = old
    /\ ~Loader!PackFails(WithAuthority(F[x].data, new), F[x].data)
    /\ DataAt(x, Loader!pack_into_account(WithAuthority(F[x].data, new), F[x].data), F, G)

\* InitializeBuffer of the loader.
LEMMA LoaderInitBuffer ==
    ASSUME NEW F, AreAccounts(F), NEW infos, AreInfos(F, infos),
           NEW done, done = Loader!InitializeBuffer(F, infos), done.result = "Ok",
           NEW x, x = infos[1].index,
           NEW new, new = Loader!Buffer(IF Len(infos) > 1 THEN infos[2].pubkey ELSE Loader!NoKey)
    PROVE  Len(infos) >= 1 /\ InitBufferDone(x, new, F, done.loaded)
  <1>1. PICK info, d, G : /\ info = infos[1] /\ d = F[x].data
                          /\ G = set_data(F, info, Loader!pack_into_account(new, d))
    OBVIOUS
  <1>2. /\ Loader!data_of(F, info) = d
        /\ Loader!set_data(F, info, Loader!pack_into_account(new, d)) = G
    BY <1>1, LoaderOps, Zenon DEF Loader!data_of
  <1>3. done = IF Len(infos) < 1 THEN Loader!Fail("NotEnoughAccountKeys", F)
               ELSE IF Loader!StateOf(d) # Loader!Uninitialized
                    THEN Loader!Fail("AccountAlreadyInitialized", F)
               ELSE IF Loader!PackFails(new, d) THEN Loader!Fail("AccountDataTooSmall", F)
               ELSE Loader!Succeed(G)
    BY <1>1, <1>2, Zenon DEF Loader!InitializeBuffer
  <1>4. \A error \in {"NotEnoughAccountKeys", "AccountAlreadyInitialized", "AccountDataTooSmall"} :
            Loader!Fail(error, F).result # "Ok"
    BY DEF Loader!Fail
  <1>5. /\ ~(Len(infos) < 1) /\ Loader!StateOf(d) = Loader!Uninitialized
        /\ ~Loader!PackFails(new, d) /\ done = Loader!Succeed(G)
    BY <1>3, <1>4
  <1>6. done.loaded = G /\ Len(infos) >= 1
    BY <1>5 DEF Loader!Succeed, AreInfos
  <1>7. x \in DOMAIN F
    BY <1>6 DEF AreInfos
  <1>8. DataAt(x, Loader!pack_into_account(new, d), F, G)
    BY <1>1, <1>7, SetDataAt
  <1> QED
    BY <1>1, <1>5, <1>6, <1>7, <1>8, Zenon DEF InitBufferDone

\* Write of the loader.
LEMMA LoaderWrite ==
    ASSUME NEW F, AreAccounts(F), NEW infos, AreInfos(F, infos), NEW offset, NEW bytes,
           NEW done, done = Loader!Write(offset, bytes, F, infos), done.result = "Ok",
           NEW x, x = infos[1].index
    PROVE  Len(infos) >= 2 /\ WriteDone(x, offset, bytes, F, done.loaded)
  <1>1. PICK info, d, G : /\ info = infos[1] /\ d = F[x].data
                          /\ G = set_data(F, info, Rewritten(d, offset, bytes))
    OBVIOUS
  <1>2. PICK state, end : /\ state = Loader!StateOf(d)
                          /\ end = Loader!size_of_buffer_metadata + offset + Len(bytes)
    OBVIOUS
  <1>3. /\ Loader!data_of(F, info) = d
        /\ Loader!set_data(F, info, Rewritten(d, offset, bytes)) = G
    BY <1>1, LoaderOps, Zenon DEF Loader!data_of
  <1>4. Loader!pack_into_account(Loader!StateOf(d),
            [d EXCEPT !.body = Loader!CopyInto(@, offset, bytes)]) = Rewritten(d, offset, bytes)
    BY Zenon DEF Rewritten
  <1>5. done = IF Len(infos) < 2 THEN Loader!Fail("NotEnoughAccountKeys", F)
               ELSE IF ~Loader!HasState(d) THEN Loader!Fail("InvalidAccountData", F)
               ELSE IF state.tag # "Buffer" THEN Loader!Fail("InvalidBufferAccount", F)
               ELSE IF state.authority_address = Loader!NoKey THEN Loader!Fail("ImmutableBuffer", F)
               ELSE IF state.authority_address # infos[2].pubkey
                    THEN Loader!Fail("IncorrectAuthority", F)
               ELSE IF ~infos[2].is_signer THEN Loader!Fail("MissingRequiredSignature", F)
               ELSE IF end > d.len THEN Loader!Fail("AccountDataTooSmall", F)
               ELSE Loader!Succeed(G)
    BY <1>1, <1>2, <1>3, <1>4, Zenon DEF Loader!Write
  <1>6. \A error \in {"NotEnoughAccountKeys", "InvalidAccountData", "InvalidBufferAccount",
                      "ImmutableBuffer", "IncorrectAuthority", "MissingRequiredSignature",
                      "AccountDataTooSmall"} : Loader!Fail(error, F).result # "Ok"
    BY DEF Loader!Fail
  <1>7. /\ ~(Len(infos) < 2) /\ Loader!HasState(d) /\ state.tag = "Buffer"
        /\ state.authority_address # Loader!NoKey /\ ~(end > d.len) /\ done = Loader!Succeed(G)
    BY <1>5, <1>6
  <1>8. done.loaded = G /\ Len(infos) >= 2
    BY <1>7 DEF Loader!Succeed, AreInfos
  <1>9. x \in DOMAIN F
    BY <1>8 DEF AreInfos
  <1>10. DataAt(x, Rewritten(d, offset, bytes), F, G)
    BY <1>1, <1>9, SetDataAt
  <1> QED
    BY <1>1, <1>2, <1>7, <1>8, <1>9, <1>10, Zenon DEF WriteDone

\* SetAuthority of the loader.
LEMMA LoaderSetAuthority ==
    ASSUME NEW F, AreAccounts(F), NEW infos, AreInfos(F, infos), NEW new_authority,
           NEW done, done = Loader!SetAuthority(new_authority, F, infos), done.result = "Ok",
           NEW x, x = infos[1].index
    PROVE  /\ Len(infos) >= 2
           /\ SetAuthorityDone(x, infos[2].pubkey, new_authority, F, done.loaded)
  <1>1. PICK info, d, new, G : /\ info = infos[1] /\ d = F[x].data
                               /\ new = WithAuthority(d, new_authority)
                               /\ G = set_data(F, info, Loader!pack_into_account(new, d))
    OBVIOUS
  <1>2. PICK state : state = Loader!StateOf(d)
    OBVIOUS
  <1>3. /\ Loader!data_of(F, info) = d
        /\ Loader!set_data(F, info, Loader!pack_into_account(new, d)) = G
    BY <1>1, LoaderOps, Zenon DEF Loader!data_of
  <1>4. [Loader!StateOf(d) EXCEPT !.authority_address = new_authority] = new
    BY <1>1, Zenon DEF WithAuthority
  <1>5. done = IF Len(infos) < 2 THEN Loader!Fail("NotEnoughAccountKeys", F)
               ELSE IF ~infos[2].is_signer THEN Loader!Fail("MissingRequiredSignature", F)
               ELSE IF ~Loader!HasState(d) THEN Loader!Fail("InvalidAccountData", F)
               ELSE IF state.tag \notin {"Buffer", "ProgramData"} THEN Loader!Fail("InvalidArgument", F)
               ELSE IF state.authority_address # infos[2].pubkey
                    THEN Loader!Fail("IncorrectAuthority", F)
               ELSE IF Loader!PackFails(new, d) THEN Loader!Fail("AccountDataTooSmall", F)
               ELSE Loader!Succeed(G)
    BY <1>1, <1>2, <1>3, <1>4, ZenonT(60) DEF Loader!SetAuthority
  <1>6. \A error \in {"NotEnoughAccountKeys", "MissingRequiredSignature", "InvalidAccountData",
                      "InvalidArgument", "IncorrectAuthority", "AccountDataTooSmall"} :
            Loader!Fail(error, F).result # "Ok"
    BY DEF Loader!Fail
  <1>7. /\ ~(Len(infos) < 2) /\ Loader!HasState(d) /\ state.tag \in {"Buffer", "ProgramData"}
        /\ state.authority_address = infos[2].pubkey /\ ~Loader!PackFails(new, d)
        /\ done = Loader!Succeed(G)
    BY <1>5, <1>6
  <1>8. done.loaded = G /\ Len(infos) >= 2
    BY <1>7 DEF Loader!Succeed, AreInfos
  <1>9. x \in DOMAIN F
    BY <1>8 DEF AreInfos
  <1>10. DataAt(x, Loader!pack_into_account(new, d), F, G)
    BY <1>1, <1>9, SetDataAt
  <1> QED
    BY <1>1, <1>2, <1>7, <1>8, <1>9, <1>10, Zenon DEF SetAuthorityDone

\* Close of the loader.
LEMMA LoaderClose ==
    ASSUME NEW F, AreAccounts(F), NEW infos, AreInfos(F, infos),
           NEW done, done = Loader!Close(F, infos), done.result = "Ok"
    PROVE  Len(infos) >= 3 /\ DrainedTo(infos[1].index, infos[2].index, F, done.loaded)
  <1>1. PICK from, to, x, y : /\ from = infos[1] /\ to = infos[2]
                              /\ x = from.index /\ y = to.index
    OBVIOUS
  <1>2. PICK G : G = Loader!Drain(F, from, to)
    OBVIOUS
  <1>3. Len(infos) >= 3 /\ done.loaded = G
    BY <1>1, <1>2 DEF Loader!Close, Loader!Fail, Loader!Succeed, AreInfos
  <1>4. x \in DOMAIN F /\ y \in DOMAIN F
    BY <1>1, <1>3 DEF AreInfos
  <1>5. DrainedTo(x, y, F, G)
    BY <1>1, <1>2, <1>4, LoaderDrain
  <1> QED
    BY <1>1, <1>3, <1>5

\* The loader's system program is the one transactions call.
LEMMA LoaderCalls ==
    ASSUME NEW ctx, NEW F, NEW infos
    PROVE  Loader!System!entrypoint(ctx, F, infos) = System!entrypoint(ctx, F, infos)
  <1>1. Loader!System!ISIZE_MAX = System!ISIZE_MAX
    BY Zenon DEF Loader!System!ISIZE_MAX, System!ISIZE_MAX
  <1>2. /\ \A err, l : Loader!System!Fail(err, l) = System!Fail(err, l)
        /\ \A l : Loader!System!Succeed(l) = System!Succeed(l)
    BY Zenon DEF Loader!System!Fail, System!Fail, Loader!System!Succeed, System!Succeed
  <1>3. /\ \A l, info : Loader!System!lamports(l, info) = System!lamports(l, info)
        /\ \A l, info, o : Loader!System!set_owner(l, info, o) = System!set_owner(l, info, o)
        /\ \A l, info, d : Loader!System!set_data(l, info, d) = System!set_data(l, info, d)
        /\ \A n : Loader!System!Zeros(n) = System!Zeros(n)
    BY Zenon DEF Loader!System!lamports, System!lamports, Loader!System!set_owner, System!set_owner,
                 Loader!System!set_data, System!set_data, Loader!System!Zeros, System!Zeros
  <1>4. /\ \A m, n : Loader!System!saturating_add(m, n) = System!saturating_add(m, n)
        /\ \A m, n : Loader!System!saturating_sub(m, n) = System!saturating_sub(m, n)
        /\ \A l, info, n : Loader!System!set_lamports(l, info, n) = System!set_lamports(l, info, n)
    BY Zenon DEF Loader!System!set_lamports, System!set_lamports,
                 Loader!System!saturating_add, System!saturating_add,
                 Loader!System!saturating_sub, System!saturating_sub
  <1>5. \A l, a, b, n : Loader!System!move_lamports(l, a, b, n) = System!move_lamports(l, a, b, n)
    BY <1>3, <1>4, Zenon DEF Loader!System!move_lamports, System!move_lamports
  <1>6. \A n : Loader!System!Transfer(n, F, infos) = System!Transfer(n, F, infos)
    BY <1>2, <1>3, <1>5, Zenon DEF Loader!System!Transfer, System!Transfer
  <1>7. \A o : Loader!System!Assign(o, F, infos) = System!Assign(o, F, infos)
    BY <1>2, <1>3, Zenon DEF Loader!System!Assign, System!Assign
  <1>8. ASSUME NEW n, NEW space, NEW o
        PROVE  Loader!System!CreateAccount(n, space, o, F, infos)
                   = System!CreateAccount(n, space, o, F, infos)
    BY <1>1, <1>2, <1>3, <1>5, Zenon DEF Loader!System!CreateAccount, System!CreateAccount
  <1> QED
    BY <1>6, <1>7, <1>8, <1>2, Zenon
       DEF Loader!System!entrypoint, System!entrypoint, Loader!System!Decodes, System!Decodes

\* The data of an account into which a program was copied.
Deployed(authority, d, code) ==
    [Loader!pack_into_account(Loader!ProgramData(0, authority), d)
        EXCEPT !.body = Loader!CopyInto(@, 0, code)]

\* The account at x becomes an executable one of o's.
Executable(x, o, F, G) ==
    /\ OnlyAt(x, F, G) /\ G[x].lamports = F[x].lamports /\ G[x].data = F[x].data
    /\ G[x].owner = o /\ G[x].executable = TRUE

\* A program is installed: a is the payer, p the programdata account, q the program's
\* and b the buffer.
InstallDone(a, p, q, b, key, authority, owner, code, F, G) ==
    \E I, J, K :
        /\ DataAt(p, Deployed(authority, F[p].data, code), F, I)
        /\ ~Loader!PackFails(Loader!Program(key), I[q].data)
        /\ DataAt(q, Loader!pack_into_account(Loader!Program(key), I[q].data), I, J)
        /\ Executable(q, owner, J, K)
        /\ DrainedTo(b, a, K, G)

\* The steps of InstallProgram.
CopiedBy(F, info, code) ==
    Loader!set_data(F, info.programdata,
        [Loader!pack_into_account(Loader!ProgramData(Loader!clock_slot, info.authority.pubkey),
                                  Loader!data_of(F, info.programdata))
            EXCEPT !.body = Loader!CopyInto(@, 0, code)])
NamedBy(I, info) ==
    Loader!set_data(I, info.program,
        Loader!pack_into_account(Loader!Program(info.programdata.pubkey),
                                 Loader!data_of(I, info.program)))
ReadyBy(J, x, o) == [J EXCEPT ![x].owner = o, ![x].executable = TRUE]

\* The account of a deployed program.
LEMMA SetExecutable ==
    ASSUME NEW F, AreAccounts(F), NEW x \in DOMAIN F, NEW o, NEW G, G = ReadyBy(F, x, o)
    PROVE  Executable(x, o, F, G)
  <1>0. PICK t : t = TRUE
    OBVIOUS
  <1>1. PICK a, b, c : /\ a = F[x]
                       /\ b = [lamports |-> a.lamports, owner |-> o, data |-> a.data, executable |-> a.executable]
                       /\ c = [lamports |-> a.lamports, owner |-> o, data |-> a.data, executable |-> t]
    BY Zenon
  <1>2. IsAccount(a)
    BY <1>1 DEF AreAccounts
  <1>3. [a EXCEPT !.owner = o] = b
    BY <1>1, <1>2 DEF IsAccount
  <1>4. [b EXCEPT !.executable = t] = c
    <2>1. IsAccount(b) /\ b.lamports = a.lamports /\ b.owner = o /\ b.data = a.data
      BY <1>1, <1>2 DEF IsAccount
    <2> QED
      BY <1>1, <2>1 DEF IsAccount
  <1>5. PICK H : H = [F EXCEPT ![x].owner = o]
    BY Zenon
  <1>6. G = [H EXCEPT ![x].executable = t]
    BY <1>0, <1>5, Zenon DEF ReadyBy
  <1>7. DOMAIN H = DOMAIN F /\ H[x] = b /\ (\A m \in DOMAIN F \ {x} : H[m] = F[m])
    BY <1>1, <1>3, <1>5, Zenon
  <1>8. DOMAIN G = DOMAIN F /\ G[x] = c /\ (\A m \in DOMAIN F \ {x} : G[m] = H[m])
        /\ G = [m \in DOMAIN G |-> G[m]]
    BY <1>4, <1>6, <1>7, Zenon
  <1>9. IsAccount(c) /\ c.lamports = a.lamports /\ c.owner = o /\ c.data = a.data /\ c.executable = t
    BY <1>1, <1>2 DEF IsAccount
  <1>10. OnlyAt(x, F, G)
    BY <1>7, <1>8, <1>9 DEF OnlyAt, AreAccounts
  <1> QED
    BY <1>0, <1>1, <1>8, <1>9, <1>10, Zenon DEF Executable

\* The part of DeployWithMaxDataLen that follows the creation of the account.
LEMMA LoaderInstall ==
    ASSUME NEW F, AreAccounts(F), NEW ctx, NEW code, NEW info,
           NEW a \in DOMAIN F, a = info.payer.index, NEW p \in DOMAIN F, p = info.programdata.index,
           NEW q \in DOMAIN F, q = info.program.index, NEW b \in DOMAIN F, b = info.buffer.index,
           NEW done, done = Loader!InstallProgram(ctx, code, F, info), done.result = "Ok"
    PROVE  /\ b # p
           /\ ~Loader!PackFails(Loader!ProgramData(0, info.authority.pubkey), F[p].data)
           /\ ~(F[p].data.len < Loader!size_of_programdata_metadata + Len(code))
           /\ InstallDone(a, p, q, b, info.programdata.pubkey, info.authority.pubkey, ctx.program_id,
                          code, F, done.loaded)
  <1>1. PICK auth, key, owner : /\ auth = info.authority.pubkey /\ key = info.programdata.pubkey
                                /\ owner = ctx.program_id
    OBVIOUS
  <1>2. PICK state, target, pointer : /\ state = Loader!ProgramData(0, auth) /\ target = F[p].data
                                      /\ pointer = Loader!Program(key)
    OBVIOUS
  <1>3. PICK I : I = set_data(F, info.programdata, Deployed(auth, target, code))
    OBVIOUS
  <1>4. DataAt(p, Deployed(auth, target, code), F, I)
    BY <1>3, SetDataAt
  <1>5. AreAccounts(I) /\ DOMAIN I = DOMAIN F
    BY <1>4 DEF DataAt, OnlyData
  <1>6. PICK e : e = Loader!pack_into_account(pointer, I[q].data)
    OBVIOUS
  <1>7. PICK J : J = set_data(I, info.program, e)
    OBVIOUS
  <1>8. DataAt(q, e, I, J)
    BY <1>5, <1>7, SetDataAt
  <1>9. AreAccounts(J) /\ DOMAIN J = DOMAIN F
    BY <1>5, <1>8 DEF DataAt, OnlyData
  <1>10. PICK K : K = ReadyBy(J, q, owner)
    OBVIOUS
  <1>11. Executable(q, owner, J, K)
    BY <1>9, <1>10, SetExecutable
  <1>12. AreAccounts(K) /\ DOMAIN K = DOMAIN F
    BY <1>9, <1>11 DEF Executable, OnlyAt
  <1>13. PICK G : G = Loader!Drain(K, info.buffer, info.payer)
    OBVIOUS
  <1>14. DrainedTo(b, a, K, G)
    BY <1>12, <1>13, LoaderDrain
  <1>15. /\ Loader!data_of(F, info.programdata) = target
         /\ Loader!ProgramData(Loader!clock_slot, info.authority.pubkey) = state
         /\ Loader!data_of(I, info.program) = I[q].data
    BY <1>1, <1>2, Zenon DEF Loader!data_of, Loader!clock_slot
  <1>16. [Loader!pack_into_account(state, target) EXCEPT !.body = Loader!CopyInto(@, 0, code)]
            = Deployed(auth, target, code)
    BY <1>2, Zenon DEF Deployed
  <1>17. /\ Loader!set_data(F, info.programdata, Deployed(auth, target, code)) = I
         /\ Loader!set_data(I, info.program, e) = J
    BY <1>3, <1>7, LoaderOps, Zenon
  <1>18. PICK clock, len : /\ clock = Loader!data_of(F, info.clock)
                           /\ len = Loader!size_of_programdata_metadata + Len(code)
    OBVIOUS
  <1>19. done = IF ~Loader!HasClock(clock) THEN Loader!Fail("InvalidArgument", F)
                ELSE IF Loader!PackFails(state, target) THEN Loader!Fail("AccountDataTooSmall", F)
                ELSE IF b = p THEN Loader!Fail("AccountBorrowFailed", F)
                ELSE IF target.len < len THEN Loader!Fail("panic", F)
                ELSE IF Loader!PackFails(pointer, I[q].data) THEN Loader!Fail("AccountDataTooSmall", F)
                ELSE Loader!Succeed(G)
    <2>1. CopiedBy(F, info, code) = I
      <3>1. Loader!set_data(F, info.programdata,
                [Loader!pack_into_account(state, target) EXCEPT !.body = Loader!CopyInto(@, 0, code)]) = I
        BY <1>16, <1>17, Zenon
      <3> QED
        BY <1>15, <3>1, Zenon DEF CopiedBy
    <2>2. NamedBy(I, info) = J
      BY <1>1, <1>2, <1>6, <1>15, <1>17, Zenon DEF NamedBy
    <2>3. done = IF ~Loader!HasClock(Loader!data_of(F, info.clock)) THEN Loader!Fail("InvalidArgument", F)
                 ELSE IF Loader!PackFails(Loader!ProgramData(Loader!clock_slot, info.authority.pubkey),
                                          Loader!data_of(F, info.programdata))
                      THEN Loader!Fail("AccountDataTooSmall", F)
                 ELSE IF info.buffer.index = info.programdata.index
                      THEN Loader!Fail("AccountBorrowFailed", F)
                 ELSE IF Loader!data_of(F, info.programdata).len
                            < Loader!size_of_programdata_metadata + Len(code)
                      THEN Loader!Fail("panic", F)
                 ELSE IF Loader!PackFails(Loader!Program(info.programdata.pubkey),
                                          Loader!data_of(CopiedBy(F, info, code), info.program))
                      THEN Loader!Fail("AccountDataTooSmall", F)
                 ELSE Loader!Succeed(Loader!Drain(ReadyBy(NamedBy(CopiedBy(F, info, code), info),
                                                          info.program.index, ctx.program_id),
                                                  info.buffer, info.payer))
      BY Zenon DEF Loader!InstallProgram, CopiedBy, NamedBy, ReadyBy
    <2>4. Loader!Drain(ReadyBy(NamedBy(CopiedBy(F, info, code), info), info.program.index, ctx.program_id),
                       info.buffer, info.payer) = G
      BY <1>1, <1>10, <1>13, <2>1, <2>2, Zenon
    <2>5. Loader!PackFails(Loader!Program(info.programdata.pubkey),
                           Loader!data_of(CopiedBy(F, info, code), info.program))
            <=> Loader!PackFails(pointer, I[q].data)
      BY <1>1, <1>2, <1>15, <2>1, Zenon
    <2> QED
      BY <1>15, <1>18, <2>3, <2>4, <2>5
  <1>20. \A error \in {"InvalidArgument", "AccountDataTooSmall", "AccountBorrowFailed", "panic"} :
            Loader!Fail(error, F).result # "Ok"
    BY DEF Loader!Fail
  <1>21. /\ b # p /\ ~Loader!PackFails(state, target) /\ ~(target.len < len)
         /\ ~Loader!PackFails(pointer, I[q].data) /\ done = Loader!Succeed(G)
    BY <1>19, <1>20
  <1>22. done.loaded = G
    BY <1>21 DEF Loader!Succeed
  <1>23. InstallDone(a, p, q, b, key, auth, owner, code, F, G)
    BY <1>2, <1>4, <1>6, <1>8, <1>11, <1>14, <1>21, Zenon DEF InstallDone
  <1> QED
    BY <1>1, <1>2, <1>18, <1>21, <1>22, <1>23, Zenon

\* That part conserves lamports when the buffer and the payer are two accounts.
LEMMA InstallConserves ==
    ASSUME NEW F, AreAccounts(F), NEW a, NEW p, NEW q, NEW b, NEW key, NEW authority, NEW owner, NEW code,
           NEW G, InstallDone(a, p, q, b, key, authority, owner, code, F, G)
    PROVE  AreAccounts(G) /\ DOMAIN G = DOMAIN F /\ (a # b => Conserves(F, G))
  <1>1. PICK I, J, K :
        /\ DataAt(p, Deployed(authority, F[p].data, code), F, I)
        /\ DataAt(q, Loader!pack_into_account(Loader!Program(key), I[q].data), I, J)
        /\ Executable(q, owner, J, K)
        /\ DrainedTo(b, a, K, G)
    BY Zenon DEF InstallDone
  <1>2. OnlyData(F, I) /\ OnlyData(I, J)
    BY <1>1 DEF DataAt
  <1>3. AreAccounts(K) /\ DOMAIN K = DOMAIN F /\ \A m \in DOMAIN F : K[m].lamports = F[m].lamports
    BY <1>1, <1>2 DEF Executable, OnlyAt, OnlyData
  <1>4. Conserves(F, K)
    BY <1>3, SameBalances
  <1>5. a # b => Conserves(K, G)
    BY <1>1 DEF DrainedTo
  <1> QED
    BY <1>1, <1>3, <1>4, <1>5, ConservesTwice DEF DrainedTo

\* DeployWithMaxDataLen: the programdata account is made, then the program is installed.
DeployDone(data, infos, owner, F, G) ==
    \E C, code :
        /\ Conserves(F, C)
        /\ MadeAt(infos[2].index, data.args[2], data.args[3], F, C)
        /\ infos[4].index # infos[2].index
        /\ code = Loader!BodyFrom(Loader!size_of_buffer_metadata, F[infos[4].index].data)
        /\ ~(F[infos[4].index].data.len < Loader!size_of_buffer_metadata)
        /\ ~Loader!PackFails(Loader!ProgramData(0, infos[8].pubkey), C[infos[2].index].data)
        /\ ~(C[infos[2].index].data.len < Loader!size_of_programdata_metadata + Len(code))
        /\ InstallDone(infos[1].index, infos[2].index, infos[3].index, infos[4].index,
                       infos[2].pubkey, infos[8].pubkey, owner, code, C, G)

\* DeployWithMaxDataLen of the loader.
LEMMA LoaderDeploy ==
    ASSUME NEW ctx, NEW data, data = ctx.instruction_data, U64Args(data), DecodesPrefix(data, 2, <<"u64">>),
           NEW F, AreAccounts(F), NEW infos, AreInfos(F, infos), NEW n,
           NEW done, done = Loader!DeployWithMaxDataLen(ctx, n, F, infos), done.result = "Ok"
    PROVE  /\ Len(infos) >= 8 /\ Decodes(data, 2, <<"u64", "u64", "pubkey">>)
           /\ DeployDone(data, infos, ctx.program_id, F, done.loaded)
  <1>1. PICK info : info = Loader!parse_deploy_accounts(infos)
    OBVIOUS
  <1>2. /\ info.payer = infos[1] /\ info.programdata = infos[2] /\ info.program = infos[3]
        /\ info.buffer = infos[4] /\ info.authority = infos[8]
    BY <1>1 DEF Loader!parse_deploy_accounts
  <1>3. PICK three : three = <<info.payer, info.programdata, info.system_program>>
    BY Zenon
  <1>4. PICK ix :
            ix = Loader!System!create_account_instruction(info.payer.pubkey, info.programdata.pubkey,
                    Loader!saturating_sub(
                        Loader!minimum_balance(
                            Loader!saturating_add(n, Loader!size_of_programdata_metadata)),
                        Loader!lamports(F, info.programdata)),
                    Loader!saturating_add(n, Loader!size_of_programdata_metadata), ctx.program_id)
    OBVIOUS
  <1>5. PICK made : made = Loader!System!invoke(ctx, ix, F, three)
    OBVIOUS
  <1>6. PICK buffer : buffer = Loader!data_of(F, info.buffer)
    OBVIOUS
  <1>7. PICK code : code = Loader!BodyFrom(Loader!size_of_buffer_metadata, buffer)
    OBVIOUS
  <1>8. PICK end : end = Loader!InstallProgram(ctx, code, made.loaded, info)
    OBVIOUS
  <1>9. done = IF Len(infos) < 8 THEN Loader!Fail("NotEnoughAccountKeys", F)
               ELSE IF ~info.authority.is_signer THEN Loader!Fail("MissingRequiredSignature", F)
               ELSE IF ~Loader!HasRent(Loader!data_of(F, info.rent)) THEN Loader!Fail("InvalidArgument", F)
               ELSE IF buffer.len < Loader!size_of_buffer_metadata
                    THEN Loader!Fail("BufferAccountTooSmall", F)
               ELSE IF n < Len(code) THEN Loader!Fail("MaxDataLengthTooSmall", F)
               ELSE IF made.result # "Ok" THEN made
               ELSE end
    BY <1>1, <1>3, <1>4, <1>5, <1>6, <1>7, <1>8, ZenonT(60) DEF Loader!DeployWithMaxDataLen
  <1>10. \A error \in {"NotEnoughAccountKeys", "MissingRequiredSignature", "InvalidArgument",
                       "BufferAccountTooSmall", "MaxDataLengthTooSmall"} :
            Loader!Fail(error, F).result # "Ok"
    BY DEF Loader!Fail
  <1>11. /\ ~(Len(infos) < 8) /\ ~(buffer.len < Loader!size_of_buffer_metadata)
         /\ made.result = "Ok" /\ done = end
    BY <1>9, <1>10
  <1>12. Len(infos) >= 8
    BY <1>11 DEF AreInfos
  <1>13. /\ info.payer.index \in DOMAIN F /\ info.programdata.index \in DOMAIN F
         /\ info.program.index \in DOMAIN F /\ info.buffer.index \in DOMAIN F
         /\ info.system_program.index \in DOMAIN F
    BY <1>1, <1>2, <1>12 DEF AreInfos, Loader!parse_deploy_accounts
  <1>14. AreInfos(F, three)
    BY <1>3, <1>13 DEF AreInfos
  <1>15. made = System!entrypoint(ctx, F, three)
    <2>1. ix.program_id = SYSTEM_PROGRAM_ID
      BY <1>4 DEF Loader!System!create_account_instruction
    <2> QED
      BY <1>5, <2>1, LoaderCalls DEF Loader!System!invoke
  <1>16. PICK C : C = made.loaded
    OBVIOUS
  <1>17. Conserves(F, C) /\ SystemDone(data, three, F, C)
    BY <1>11, <1>14, <1>15, <1>16, SystemInstruction
  <1>18. data.variant = 2
    BY DEF DecodesPrefix
  <1>19. /\ Decodes(data, 2, <<"u64", "u64", "pubkey">>)
         /\ MadeAt(three[2].index, data.args[2], data.args[3], F, C)
    BY <1>17, <1>18 DEF SystemDone, Decodes
  <1>20. three[2] = infos[2]
    BY <1>2, <1>3
  <1>21. AreAccounts(C) /\ DOMAIN C = DOMAIN F
    BY <1>17 DEF Conserves
  <1>22. PICK a, p, q, b : /\ a = info.payer.index /\ p = info.programdata.index
                           /\ q = info.program.index /\ b = info.buffer.index
    OBVIOUS
  <1>23. /\ b # p
         /\ ~Loader!PackFails(Loader!ProgramData(0, info.authority.pubkey), C[p].data)
         /\ ~(C[p].data.len < Loader!size_of_programdata_metadata + Len(code))
         /\ InstallDone(a, p, q, b, info.programdata.pubkey, info.authority.pubkey, ctx.program_id,
                        code, C, done.loaded)
    <2>1. end = Loader!InstallProgram(ctx, code, C, info) /\ end.result = "Ok"
      BY <1>8, <1>11, <1>16
    <2>2. a \in DOMAIN C /\ p \in DOMAIN C /\ q \in DOMAIN C /\ b \in DOMAIN C
      BY <1>13, <1>21, <1>22
    <2> QED
      BY <1>11, <1>21, <1>22, <2>1, <2>2, LoaderInstall
  <1>24. code = Loader!BodyFrom(Loader!size_of_buffer_metadata, F[b].data) /\ buffer = F[b].data
    BY <1>6, <1>7, <1>22 DEF Loader!data_of
  <1>25. DeployDone(data, infos, ctx.program_id, F, done.loaded)
    BY <1>2, <1>11, <1>17, <1>19, <1>20, <1>22, <1>23, <1>24, Zenon DEF DeployDone
  <1> QED
    BY <1>12, <1>19, <1>25

\* What a loader instruction that succeeds does.
LoaderDone(data, infos, owner, F, G) ==
    \/ /\ data.variant = 0 /\ Len(infos) >= 1
       /\ InitBufferDone(infos[1].index,
              Loader!Buffer(IF Len(infos) > 1 THEN infos[2].pubkey ELSE Loader!NoKey), F, G)
    \/ /\ data.variant = 1 /\ Len(infos) >= 2
       /\ WriteDone(infos[1].index, data.args[1], data.args[2], F, G)
    \/ /\ Decodes(data, 2, <<"u64", "u64", "pubkey">>) /\ Len(infos) >= 8
       /\ DeployDone(data, infos, owner, F, G)
    \/ /\ data.variant = 4 /\ Len(infos) >= 2
       /\ SetAuthorityDone(infos[1].index, infos[2].pubkey, data.args[1], F, G)
    \/ /\ data.variant = 5 /\ Len(infos) >= 3
       /\ DrainedTo(infos[1].index, infos[2].index, F, G)

\* Every instruction of the loader that succeeds does one of these.
LEMMA LoaderInstruction ==
    ASSUME NEW ctx, NEW data, data = ctx.instruction_data, U64Args(data),
           NEW F, AreAccounts(F), NEW infos, AreInfos(F, infos),
           NEW done, done = Loader!entrypoint(ctx, F, infos), done.result = "Ok"
    PROVE  LoaderDone(data, infos, ctx.program_id, F, done.loaded)
  <1>1. PICK arg, G, x : arg = data.args /\ G = done.loaded /\ x = infos[1].index
    OBVIOUS
  <1>2. \A v, kinds : /\ Loader!DecodesPrefix(data, v, kinds) <=> DecodesPrefix(data, v, kinds)
                      /\ DecodesPrefix(data, v, kinds) => data.variant = v
    BY Zenon DEF Loader!DecodesPrefix, DecodesPrefix, Loader!IsPrefix, IsPrefix
  <1>3. CASE DecodesPrefix(data, 0, <<>>)
    <2>1. done = Loader!InitializeBuffer(F, infos)
      BY <1>1, <1>2, <1>3, SMT DEF Loader!entrypoint
    <2>2. PICK new : new = Loader!Buffer(IF Len(infos) > 1 THEN infos[2].pubkey ELSE Loader!NoKey)
      OBVIOUS
    <2>3. Len(infos) >= 1 /\ InitBufferDone(x, new, F, G)
      BY <1>1, <2>1, <2>2, LoaderInitBuffer
    <2> QED
      BY <1>1, <1>2, <1>3, <2>2, <2>3, Zenon DEF LoaderDone
  <1>4. CASE DecodesPrefix(data, 1, <<"u32", "bytes">>)
    <2>1. done = Loader!Write(arg[1], arg[2], F, infos)
      BY <1>1, <1>2, <1>4, SMT DEF Loader!entrypoint
    <2>2. Len(infos) >= 2 /\ WriteDone(x, arg[1], arg[2], F, G)
      BY <1>1, <2>1, LoaderWrite
    <2> QED
      BY <1>1, <1>2, <1>4, <2>2, Zenon DEF LoaderDone
  <1>5. CASE DecodesPrefix(data, 2, <<"u64">>)
    <2>1. done = Loader!DeployWithMaxDataLen(ctx, arg[1], F, infos)
      BY <1>1, <1>2, <1>5, SMT DEF Loader!entrypoint
    <2>2. /\ Len(infos) >= 8 /\ Decodes(data, 2, <<"u64", "u64", "pubkey">>)
          /\ DeployDone(data, infos, ctx.program_id, F, G)
      BY <1>1, <1>5, <2>1, LoaderDeploy
    <2> QED
      BY <1>1, <2>2, Zenon DEF LoaderDone
  <1>6. CASE DecodesPrefix(data, 3, <<>>)
    <2>1. done = Loader!Upgrade(F)
      BY <1>1, <1>2, <1>6, SMT DEF Loader!entrypoint
    <2> QED
      BY <2>1 DEF Loader!Upgrade, Loader!Fail
  <1>7. CASE DecodesPrefix(data, 4, <<"option">>)
    <2>1. done = Loader!SetAuthority(arg[1], F, infos)
      BY <1>1, <1>2, <1>7, SMT DEF Loader!entrypoint
    <2>2. Len(infos) >= 2 /\ SetAuthorityDone(x, infos[2].pubkey, arg[1], F, G)
      BY <1>1, <2>1, LoaderSetAuthority
    <2> QED
      BY <1>1, <1>2, <1>7, <2>2, Zenon DEF LoaderDone
  <1>8. CASE DecodesPrefix(data, 5, <<>>)
    <2>1. done = Loader!Close(F, infos)
      BY <1>1, <1>2, <1>8, SMT DEF Loader!entrypoint
    <2>2. Len(infos) >= 3 /\ DrainedTo(infos[1].index, infos[2].index, F, G)
      BY <1>1, <2>1, LoaderClose
    <2> QED
      BY <1>1, <1>2, <1>8, <2>2, Zenon DEF LoaderDone
  <1>9. CASE /\ ~DecodesPrefix(data, 0, <<>>) /\ ~DecodesPrefix(data, 1, <<"u32", "bytes">>)
             /\ ~DecodesPrefix(data, 2, <<"u64">>) /\ ~DecodesPrefix(data, 3, <<>>)
             /\ ~DecodesPrefix(data, 4, <<"option">>) /\ ~DecodesPrefix(data, 5, <<>>)
    <2>1. done = Loader!Fail("InvalidInstructionData", F)
      BY <1>2, <1>9, SMT DEF Loader!entrypoint
    <2> QED
      BY <2>1 DEF Loader!Fail
  <1> QED
    BY <1>3, <1>4, <1>5, <1>6, <1>7, <1>8, <1>9

-----------------------------------------------------------------------------
\* What a transaction does.

\* One instruction, as execute_instructions takes it.
ExecStep(tx, state, ix) ==
    IF state.result # "Ok" THEN state
    ELSE IF ~InfosOk(ix, tx.account_keys) THEN Fail("InternalError", state.loaded)
    ELSE execute(ix, NewContext(ix), state.loaded, prepare_account_infos(ix, tx.account_keys))

\* st[k] is the result and the accounts after the first k instructions.
ExecStepByStep(st, tx, F) ==
    /\ st[0] = Succeed(F)
    /\ \A k \in 1..Len(tx.instructions) : st[k] = ExecStep(tx, st[k - 1], tx.instructions[k])
    /\ execute_instructions(tx, F) = st[Len(tx.instructions)]


\* execute_instructions is a fold: there are results after every instruction.
LEMMA ExecSteps ==
    ASSUME NEW tx, HasInstructions(tx), NEW F
    PROVE  \E st : ExecStepByStep(st, tx, F)
  <1> DEFINE n == Len(tx.instructions)
             base == Succeed(F)
             Next(a, s) == IF s = {} THEN base
                           ELSE ExecStep(tx, a[s \ {Max(s)}], tx.instructions[Max(s)])
             Is(a, k) == a = [s \in SUBSET (1..k) |-> Next(a, s)]
             E(k) == \E a : Is(a, k)
             Z == {k \in 1..n : E(k)}
  <1>1. n \in Nat /\ DOMAIN tx.instructions = 1..n
    BY DEF HasInstructions
  <1>2. execute_instructions(tx, F) = (CHOOSE a : Is(a, n))[1..n]
    <2>1. execute_instructions(tx, F) =
            (CHOOSE a : a = [s \in SUBSET (DOMAIN tx.instructions) |-> Next(a, s)])[DOMAIN tx.instructions]
      BY Zenon DEF execute_instructions, FoldLeft, MapThenFoldSet, ExecStep
    <2> HIDE DEF Next
    <2> QED
      BY <1>1, <2>1
  <1>3. E(0)
    <2> DEFINE a == [s \in SUBSET (1..0) |-> base]
    <2>1. \A s \in SUBSET (1..0) : s = {}
      OBVIOUS
    <2>2. a = [s \in SUBSET (1..0) |-> Next(a, s)]
      BY <2>1, Zenon
    <2> QED
      BY <2>2, Zenon
  <1>4. ASSUME NEW k \in 1..n, E(k - 1) PROVE E(k)
    <2>1. PICK a : a = [s \in SUBSET (1..(k - 1)) |-> Next(a, s)]
      BY <1>4, Zenon
    <2> DEFINE b == [s \in SUBSET (1..k) |-> Next(a, s)]
    <2>2. ASSUME NEW s \in SUBSET (1..k)
          PROVE  s # {} => s \ {Max(s)} \in SUBSET (1..(k - 1))
      <3>1. k \in Nat
        BY <1>1
      <3>2. s # {} => Max(s) \in s /\ \A y \in s : y <= Max(s)
        BY <3>1, MaxOfPositions, Zenon
      <3> SUFFICES ASSUME s # {} PROVE s \ {Max(s)} \in SUBSET (1..(k - 1))
        OBVIOUS
      <3>3. PICK m : m = Max(s)
        OBVIOUS
      <3>4. m \in 1..k /\ \A y \in s : y \in 1..k /\ y <= m
        BY <3>2, <3>3, Zenon
      <3>5. \A y \in s \ {m} : y \in 1..(k - 1)
        BY <1>1, <3>4
      <3> QED
        BY <3>3, <3>5, Zenon
    <2>3. \A s \in SUBSET (1..(k - 1)) : s \in SUBSET (1..k)
      BY <1>1
    <2>4. \A s \in SUBSET (1..(k - 1)) : b[s] = a[s]
      BY <2>1, <2>3, Zenon
    <2>5. ASSUME NEW s \in SUBSET (1..k) PROVE Next(a, s) = Next(b, s)
      <3>1. CASE s = {}
        BY <3>1
      <3>2. CASE s # {}
        <4>1. b[s \ {Max(s)}] = a[s \ {Max(s)}]
          BY <2>2, <2>4, <3>2, Zenon
        <4> QED
          BY <4>1, Zenon
      <3> QED
        BY <3>1, <3>2, Zenon
    <2>6. b = [s \in SUBSET (1..k) |-> Next(b, s)]
      <3>1. PICK c : c = b
        BY Zenon
      <3>2. \A s \in SUBSET (1..k) : Next(a, s) = Next(c, s)
        BY <2>5, <3>1, Zenon
      <3>3. c = [s \in SUBSET (1..k) |-> Next(a, s)]
        BY <3>1, Zenon
      <3> HIDE DEF Next, b
      <3>4. c = [s \in SUBSET (1..k) |-> Next(c, s)]
        BY <3>2, <3>3, Zenon
      <3> QED
        BY <3>1, <3>4, Zenon
    <2> HIDE DEF b, Next
    <2> QED
      BY <2>6, Zenon
  <1> HIDE DEF E
  <1>5. ASSUME NEW k \in 1..n, \A m \in 1..n : m < k => m \in Z
        PROVE  k \in Z
    <2>1. E(k - 1)
      <3>1. CASE k = 1
        BY <1>3, <3>1
      <3>2. CASE k # 1
        <4>1. k - 1 \in 1..n /\ k - 1 < k
          BY <1>1, <3>2
        <4> QED
          BY <1>5, <4>1
      <3> QED
        BY <3>1, <3>2
    <2> QED
      BY <1>4, <2>1
  <1>6. Z = 1..n
    <2>1. Z \in SUBSET (1..n)
      OBVIOUS
    <2> HIDE DEF Z, n
    <2> QED
      BY <1>1, <1>5, <2>1, StrongInduction
  <1>7. E(n)
    <2>1. CASE n = 0
      BY <1>3, <2>1
    <2>2. CASE n # 0
      <3>1. n \in Z
        BY <1>1, <1>6, <2>2
      <3> QED
        BY <3>1
    <2> QED
      BY <2>1, <2>2
  <1>8. PICK a : Is(a, n) /\ execute_instructions(tx, F) = a[1..n]
    <2>1. PICK a : a = CHOOSE b : Is(b, n)
      BY Zenon
    <2>2. \E b : Is(b, n)
      BY <1>7, Zenon DEF E
    <2> HIDE DEF Is
    <2>3. Is(a, n)
      BY <2>1, <2>2, Zenon
    <2> QED
      BY <1>2, <2>1, <2>3, Zenon
  <1>9. a[1..0] = base
    <2>1. 1..0 = {}
      OBVIOUS
    <2>2. a[{}] = base
      BY <1>8, Zenon
    <2> QED
      BY <2>1, <2>2
  <1>10. ASSUME NEW k \in 1..n PROVE a[1..k] = ExecStep(tx, a[1..(k - 1)], tx.instructions[k])
    <2>1. /\ 1..k \in SUBSET (1..n) /\ 1..k # {}
          /\ Max(1..k) = k
          /\ (1..k) \ {k} = 1..(k - 1)
      BY <1>1, MaxOfPrefix
    <2>2. a[1..k] = Next(a, 1..k)
      BY <1>8, <2>1, Zenon
    <2> QED
      BY <2>1, <2>2, Zenon
  <1> DEFINE st == [k \in 0..n |-> a[1..k]]
  <1>11. st[0] = base /\ st[n] = execute_instructions(tx, F)
    <2>1. st[0] = a[1..0] /\ st[n] = a[1..n]
      BY <1>1
    <2> HIDE DEF st
    <2> QED
      BY <1>8, <1>9, <2>1
  <1>12. ASSUME NEW k \in 1..n PROVE st[k] = ExecStep(tx, st[k - 1], tx.instructions[k])
    <2>1. st[k] = a[1..k] /\ st[k - 1] = a[1..(k - 1)]
      BY <1>1
    <2> HIDE DEF st
    <2> QED
      BY <1>10, <2>1
  <1> HIDE DEF st
  <1> QED
    BY <1>11, <1>12, Zenon DEF ExecStepByStep

-----------------------------------------------------------------------------

\* Position finds the key.
LEMMA PositionIs ==
    ASSUME NEW keys, Len(keys) \in Nat, NEW key, Position(keys, key) # 0
    PROVE  Position(keys, key) \in 1..Len(keys) /\ keys[Position(keys, key)] = key
  <1> DEFINE I == {i \in 1..Len(keys) : keys[i] = key}
  <1>1. Position(keys, key) = IF I # {} THEN Min(I) ELSE 0
    BY Zenon DEF Position, SelectInSeq
  <1>2. I \in SUBSET Nat /\ I # {}
    BY <1>1
  <1>3. Min(I) \in I
    <2> HIDE DEF I
    <2>1. \E x \in I : \A y \in I : x <= y
      BY <1>2, SmallestElement
    <2> QED
      BY <2>1, Zenon DEF Min
  <1>4. Position(keys, key) \in I
    BY <1>1, <1>2, <1>3, Zenon
  <1> QED
    BY <1>4

\* Two infos that are both writable are not of one account.
MarkedApart(ix, infos) ==
    \A i, j \in 1..Len(infos) :
        /\ i # j
        /\ ix.accounts[i].is_writable /\ ix.accounts[j].is_writable
        => infos[i].index # infos[j].index

\* The infos of an instruction: their accounts are those of the keys it names.
LEMMA PreparedInfos ==
    ASSUME NEW ix, HasAccounts(ix), NEW keys, Len(keys) \in Nat, InfosOk(ix, keys),
           NEW F, DOMAIN F = 1..Len(keys),
           NEW infos, infos = prepare_account_infos(ix, keys)
    PROVE  /\ AreInfos(F, infos) /\ Len(infos) = Len(ix.accounts)
           /\ \A i \in 1..Len(infos) :
                 /\ infos[i].pubkey = ix.accounts[i].pubkey
                 /\ infos[i].index \in 1..Len(keys) /\ keys[infos[i].index] = infos[i].pubkey
                 /\ infos[i].index = Position(keys, infos[i].pubkey)
           /\ MarkedApart(ix, infos)
  <1>1. PICK n : n = Len(ix.accounts)
    BY Zenon
  <1>2. n \in Nat /\ DOMAIN ix.accounts = 1..n
    BY <1>1 DEF HasAccounts
  <1>3. DOMAIN infos = 1..n
    BY <1>2 DEF prepare_account_infos
  <1>4. \A i \in 1..n : /\ infos[i].index = Position(keys, ix.accounts[i].pubkey)
                        /\ infos[i].pubkey = ix.accounts[i].pubkey
    BY <1>2 DEF prepare_account_infos
  <1>5. Len(infos) = n
    <2>1. infos = [i \in 1..n |-> infos[i]]
      BY <1>2, Zenon DEF prepare_account_infos
    <2> QED
      BY <1>2, <2>1
  <1>6. \A i \in 1..n : Position(keys, ix.accounts[i].pubkey) # 0
    BY <1>2 DEF InfosOk
  <1>7. \A i \in 1..n : /\ infos[i].index \in 1..Len(keys) /\ keys[infos[i].index] = infos[i].pubkey
    BY <1>4, <1>6, PositionIs
  <1>8. \A i, j \in 1..n : /\ i # j
                           /\ ix.accounts[i].is_writable /\ ix.accounts[j].is_writable
                           => ix.accounts[i].pubkey # ix.accounts[j].pubkey
    BY <1>2, Zenon DEF InfosOk
  <1>9. \A i, j \in 1..n : /\ i # j
                           /\ ix.accounts[i].is_writable /\ ix.accounts[j].is_writable
                           => infos[i].index # infos[j].index
    <2>1. ASSUME NEW i \in 1..n, NEW j \in 1..n, infos[i].index = infos[j].index
          PROVE  ix.accounts[i].pubkey = ix.accounts[j].pubkey
      BY <1>4, <1>7, <2>1
    <2> QED
      BY <1>8, <2>1, Zenon
  <1>10. AreInfos(F, infos)
    BY <1>2, <1>3, <1>5, <1>7 DEF AreInfos
  <1> QED
    BY <1>1, <1>4, <1>5, <1>7, <1>9, <1>10 DEF MarkedApart

\* What an instruction that succeeds did.
InstructionDone(ix, infos, F, G) ==
    \/ /\ ix.program_id = SYSTEM_PROGRAM_ID
       /\ Conserves(F, G) /\ SystemDone(ix.data, infos, F, G)
    \/ /\ ix.program_id = TOKEN_PROGRAM_ID
       /\ OnlyData(F, G) /\ TokenDone(ix.data, infos, F, G)
    \/ /\ ix.program_id = BPF_LOADER_UPGRADEABLE_PROGRAM_ID
       /\ LoaderDone(ix.data, infos, BPF_LOADER_UPGRADEABLE_PROGRAM_ID, F, G)

\* An instruction that succeeds is one of a native program.
LEMMA ExecuteDone ==
    ASSUME NEW ix, U64Args(ix.data), NEW F, AreAccounts(F), NEW infos, AreInfos(F, infos),
           NEW done, done = execute(ix, NewContext(ix), F, infos), done.result = "Ok"
    PROVE  InstructionDone(ix, infos, F, done.loaded)
  <1>1. PICK ctx, data, G : ctx = NewContext(ix) /\ data = ix.data /\ G = done.loaded
    OBVIOUS
  <1>2. ctx.instruction_data = data /\ ctx.program_id = ix.program_id /\ U64Args(data)
    BY <1>1 DEF NewContext
  <1>3. CASE ix.program_id = SYSTEM_PROGRAM_ID
    <2>1. done = System!entrypoint(ctx, F, infos)
      BY <1>1, <1>3, ProgramIdsDiffer DEF execute, native_execute, NativePrograms
    <2>2. Conserves(F, G) /\ SystemDone(data, infos, F, G)
      BY <1>1, <1>2, <2>1, SystemInstruction
    <2> QED
      BY <1>1, <1>3, <2>2 DEF InstructionDone
  <1>4. CASE ix.program_id = TOKEN_PROGRAM_ID
    <2>1. done = Token!entrypoint(ctx, F, infos)
      BY <1>1, <1>4, ProgramIdsDiffer DEF execute, native_execute, NativePrograms
    <2>2. OnlyData(F, G) /\ TokenDone(data, infos, F, G)
      BY <1>1, <1>2, <2>1, TokenInstruction
    <2> QED
      BY <1>1, <1>4, <2>2 DEF InstructionDone
  <1>5. CASE ix.program_id = BPF_LOADER_UPGRADEABLE_PROGRAM_ID
    <2>1. done = Loader!entrypoint(ctx, F, infos)
      BY <1>1, <1>5, ProgramIdsDiffer DEF execute, native_execute, NativePrograms
    <2>2. LoaderDone(data, infos, ctx.program_id, F, G)
      BY <1>1, <1>2, <2>1, LoaderInstruction
    <2> QED
      BY <1>1, <1>2, <1>5, <2>2 DEF InstructionDone
  <1>6. CASE ix.program_id \notin NativePrograms
    <2>1. done \in {Fail("AccountNotFound", F), Fail("AccountNotExecutable", F),
                    Fail("AccountOwnerMismatch", F), Fail("InternalError", F)}
      BY <1>6, Zenon DEF execute, rbpf_execute
    <2>2. \A error \in {"AccountNotFound", "AccountNotExecutable", "AccountOwnerMismatch",
                        "InternalError"} : Fail(error, F).result # "Ok"
      BY DEF Fail
    <2> QED
      BY <2>1, <2>2
  <1> QED
    BY <1>3, <1>4, <1>5, <1>6 DEF NativePrograms

-----------------------------------------------------------------------------

\* An instruction that marks what it drains conserves lamports.
LEMMA DoneConserves ==
    ASSUME NEW ix, MarksDrained(ix), NEW F, AreAccounts(F),
           NEW infos, AreInfos(F, infos), Len(infos) = Len(ix.accounts),
           MarkedApart(ix, infos),
           NEW G, InstructionDone(ix, infos, F, G)
    PROVE  Conserves(F, G)
  <1>1. CASE Conserves(F, G)
    BY <1>1
  <1>2. CASE OnlyData(F, G)
    BY <1>2, OnlyDataConserves
  <1>3. ASSUME NEW x, NEW d, DataAt(x, d, F, G) PROVE OnlyData(F, G)
    BY <1>3 DEF DataAt
  <1>4. CASE /\ ix.program_id = BPF_LOADER_UPGRADEABLE_PROGRAM_ID
             /\ LoaderDone(ix.data, infos, BPF_LOADER_UPGRADEABLE_PROGRAM_ID, F, G)
    <2>1. Len(infos) \in Nat
      BY DEF AreInfos
    <2>2. CASE Decodes(ix.data, 2, <<"u64", "u64", "pubkey">>) /\ Len(infos) >= 8
               /\ DeployDone(ix.data, infos, BPF_LOADER_UPGRADEABLE_PROGRAM_ID, F, G)
      <3>1. infos[1].index # infos[4].index
        BY <1>4, <2>1, <2>2 DEF MarksDrained, Decodes, MarkedApart
      <3>2. PICK C, code : /\ Conserves(F, C)
               /\ InstallDone(infos[1].index, infos[2].index, infos[3].index, infos[4].index,
                       infos[2].pubkey, infos[8].pubkey, BPF_LOADER_UPGRADEABLE_PROGRAM_ID, code, C, G)
        BY <2>2, Zenon DEF DeployDone
      <3>3. AreAccounts(C)
        BY <3>2 DEF Conserves
      <3>4. Conserves(C, G)
        BY <3>1, <3>2, <3>3, InstallConserves
      <3> QED
        BY <3>2, <3>4, ConservesTwice
    <2>3. CASE /\ ix.data.variant = 5 /\ Len(infos) >= 3
               /\ DrainedTo(infos[1].index, infos[2].index, F, G)
      <3>1. infos[1].index # infos[2].index
        BY <1>4, <2>1, <2>3 DEF MarksDrained, MarkedApart
      <3> QED
        BY <2>3, <3>1 DEF DrainedTo
    <2>4. CASE \E x, d : DataAt(x, d, F, G)
      BY <1>2, <1>3, <2>4
    <2> QED
      BY <1>4, <2>2, <2>3, <2>4, Zenon DEF LoaderDone, InitBufferDone, WriteDone, SetAuthorityDone
  <1> QED
    BY <1>1, <1>2, <1>4 DEF InstructionDone


\* One instruction of a transaction.
LEMMA StepDone ==
    ASSUME NEW tx, WellFormedTx(tx), NEW k \in 1..Len(tx.instructions),
           NEW ix, ix = tx.instructions[k], NEW state, NEW next, next = ExecStep(tx, state, ix),
           next.result = "Ok",
           NEW F, F = state.loaded, AreAccounts(F), DOMAIN F = DOMAIN tx.account_keys,
           NEW infos, infos = prepare_account_infos(ix, tx.account_keys)
    PROVE  /\ state.result = "Ok" /\ InfosOk(ix, tx.account_keys)
           /\ AreInfos(F, infos) /\ Len(infos) = Len(ix.accounts)
           /\ InstructionDone(ix, infos, F, next.loaded)
  <1>1. state.result = "Ok"
    BY Zenon DEF ExecStep
  <1>2. Fail("InternalError", F).result # "Ok"
    BY DEF Fail
  <1>3. InfosOk(ix, tx.account_keys) /\ next = execute(ix, NewContext(ix), F, infos)
    BY <1>1, <1>2, Zenon DEF ExecStep
  <1>4. PICK keys : keys = tx.account_keys
    OBVIOUS
  <1>5. HasAccounts(ix) /\ U64Args(ix.data) /\ Len(keys) \in Nat /\ DOMAIN F = 1..Len(keys)
    BY <1>4 DEF WellFormedTx
  <1>6. AreInfos(F, infos) /\ Len(infos) = Len(ix.accounts)
    BY <1>3, <1>4, <1>5, PreparedInfos
  <1>7. InstructionDone(ix, infos, F, next.loaded)
    BY <1>3, <1>5, <1>6, ExecuteDone
  <1> QED
    BY <1>1, <1>3, <1>6, <1>7

\* So does one step of a transaction.
LEMMA StepConserves ==
    ASSUME NEW tx, WellFormedTx(tx), NEW k \in 1..Len(tx.instructions),
           NEW ix, ix = tx.instructions[k], MarksDrained(ix),
           NEW state, NEW next, next = ExecStep(tx, state, ix), next.result = "Ok",
           AreAccounts(state.loaded), DOMAIN state.loaded = DOMAIN tx.account_keys
    PROVE  state.result = "Ok" /\ Conserves(state.loaded, next.loaded)
  <1>1. PICK F, infos, keys : /\ F = state.loaded /\ keys = tx.account_keys
                              /\ infos = prepare_account_infos(ix, keys)
    OBVIOUS
  <1>2. /\ state.result = "Ok" /\ InfosOk(ix, keys)
        /\ AreInfos(F, infos) /\ Len(infos) = Len(ix.accounts)
        /\ InstructionDone(ix, infos, F, next.loaded)
    BY <1>1, StepDone
  <1>3. HasAccounts(ix) /\ Len(keys) \in Nat /\ DOMAIN F = 1..Len(keys)
    BY <1>1 DEF WellFormedTx
  <1>4. MarkedApart(ix, infos)
    BY <1>1, <1>2, <1>3, PreparedInfos
  <1>5. Conserves(F, next.loaded)
    BY <1>1, <1>2, <1>4, DoneConserves
  <1> QED
    BY <1>1, <1>2, <1>5

\* The instructions of a transaction that succeeds leave the sum of its balances alone.
LEMMA ExecConserves ==
    ASSUME NEW tx, WellFormedTx(tx), \A k \in 1..Len(tx.instructions) : MarksDrained(tx.instructions[k]),
           NEW F, AreAccounts(F), DOMAIN F = DOMAIN tx.account_keys,
           NEW done, done = execute_instructions(tx, F), done.result = "Ok"
    PROVE  Conserves(F, done.loaded)
  <1>1. PICK n : n = Len(tx.instructions)
    OBVIOUS
  <1>2. n \in Nat /\ HasInstructions(tx)
    BY <1>1 DEF WellFormedTx, HasInstructions
  <1>3. PICK st : ExecStepByStep(st, tx, F)
    BY <1>2, ExecSteps
  <1>4. /\ st[0] = Succeed(F) /\ done = st[n]
        /\ \A k \in 1..n : st[k] = ExecStep(tx, st[k - 1], tx.instructions[k])
    BY <1>1, <1>3 DEF ExecStepByStep
  <1> DEFINE P(k) == st[k].result = "Ok" => Conserves(F, st[k].loaded)
             Z == {k \in 1..n : P(k)}
  <1>5. P(0)
    <2>1. st[0].loaded = F
      BY <1>4 DEF Succeed
    <2> QED
      BY <2>1 DEF Conserves
  <1>6. ASSUME NEW k \in 1..n, P(k - 1) PROVE P(k)
    <2> SUFFICES ASSUME st[k].result = "Ok" PROVE Conserves(F, st[k].loaded)
      OBVIOUS
    <2>1. PICK state, next, ix : state = st[k - 1] /\ next = st[k] /\ ix = tx.instructions[k]
      OBVIOUS
    <2>2. k \in 1..Len(tx.instructions) /\ next = ExecStep(tx, state, ix) /\ next.result = "Ok" /\ MarksDrained(ix)
      BY <1>1, <1>4, <2>1
    <2>3. state.result = "Ok"
      BY <2>2 DEF ExecStep
    <2>4. Conserves(F, state.loaded)
      BY <1>6, <2>1, <2>3
    <2>5. AreAccounts(state.loaded) /\ DOMAIN state.loaded = DOMAIN tx.account_keys
      BY <2>4 DEF Conserves
    <2>6. Conserves(state.loaded, next.loaded)
      BY <2>1, <2>2, <2>5, StepConserves
    <2> QED
      BY <2>1, <2>4, <2>6, ConservesTwice
  <1> HIDE DEF P
  <1>7. ASSUME NEW k \in 1..n, \A m \in 1..n : m < k => m \in Z
        PROVE  k \in Z
    <2>1. P(k - 1)
      <3>1. CASE k = 1
        BY <1>5, <3>1
      <3>2. CASE k # 1
        <4>1. k - 1 \in 1..n /\ k - 1 < k
          BY <1>2, <3>2
        <4> QED
          BY <1>7, <4>1
      <3> QED
        BY <3>1, <3>2
    <2> QED
      BY <1>6, <2>1
  <1>8. Z = 1..n
    <2>1. Z \in SUBSET (1..n)
      OBVIOUS
    <2> HIDE DEF Z
    <2> QED
      BY <1>2, <1>7, <2>1, StrongInduction
  <1>9. P(n)
    <2>1. CASE n = 0
      BY <1>5, <2>1
    <2>2. CASE n # 0
      <3>1. n \in Z
        BY <1>2, <1>8, <2>2
      <3> QED
        BY <3>1
    <2> QED
      BY <2>1, <2>2
  <1> QED
    BY <1>4, <1>9 DEF P

\* Whatever an instruction drains, accounts stay accounts.

\* What an instruction that succeeds leaves are accounts, those there were.
LEMMA DoneTyped ==
    ASSUME NEW ix, NEW F, AreAccounts(F), NEW infos, NEW G, InstructionDone(ix, infos, F, G)
    PROVE  AreAccounts(G) /\ DOMAIN G = DOMAIN F
  <1>1. CASE Conserves(F, G)
    BY <1>1 DEF Conserves
  <1>2. CASE OnlyData(F, G)
    BY <1>2 DEF OnlyData
  <1>3. ASSUME NEW x, NEW d, DataAt(x, d, F, G) PROVE OnlyData(F, G)
    BY <1>3 DEF DataAt
  <1>4. CASE LoaderDone(ix.data, infos, BPF_LOADER_UPGRADEABLE_PROGRAM_ID, F, G)
    <2>1. CASE DeployDone(ix.data, infos, BPF_LOADER_UPGRADEABLE_PROGRAM_ID, F, G)
      <3>1. PICK C, code : /\ Conserves(F, C)
               /\ InstallDone(infos[1].index, infos[2].index, infos[3].index, infos[4].index,
                       infos[2].pubkey, infos[8].pubkey, BPF_LOADER_UPGRADEABLE_PROGRAM_ID, code, C, G)
        BY <2>1, Zenon DEF DeployDone
      <3>2. AreAccounts(C) /\ DOMAIN C = DOMAIN F
        BY <3>1 DEF Conserves
      <3>3. AreAccounts(G) /\ DOMAIN G = DOMAIN C
        BY <3>1, <3>2, InstallConserves
      <3> QED
        BY <3>2, <3>3
    <2>2. CASE DrainedTo(infos[1].index, infos[2].index, F, G)
      BY <2>2 DEF DrainedTo
    <2>3. CASE \E x, d : DataAt(x, d, F, G)
      BY <1>2, <1>3, <2>3
    <2> QED
      BY <1>4, <2>1, <2>2, <2>3, Zenon DEF LoaderDone, InitBufferDone, WriteDone, SetAuthorityDone
  <1> QED
    BY <1>1, <1>2, <1>4 DEF InstructionDone

\* The accounts F of a transaction, when it has succeeded.
TypedOf(tx, F) == AreAccounts(F) /\ DOMAIN F = DOMAIN tx.account_keys

\* A transaction that succeeds leaves accounts, those it loaded.
LEMMA ExecTyped ==
    ASSUME NEW tx, WellFormedTx(tx), NEW F, TypedOf(tx, F),
           NEW done, done = execute_instructions(tx, F), done.result = "Ok"
    PROVE  TypedOf(tx, done.loaded)
  <1>1. PICK n : n = Len(tx.instructions)
    OBVIOUS
  <1>2. n \in Nat /\ HasInstructions(tx)
    BY <1>1 DEF WellFormedTx, HasInstructions
  <1>3. PICK st : ExecStepByStep(st, tx, F)
    BY <1>2, ExecSteps
  <1>4. /\ st[0] = Succeed(F) /\ done = st[n]
        /\ \A k \in 1..n : st[k] = ExecStep(tx, st[k - 1], tx.instructions[k])
    BY <1>1, <1>3 DEF ExecStepByStep
  <1> DEFINE P(k) == st[k].result = "Ok" => TypedOf(tx, st[k].loaded)
             Z == {k \in 1..n : P(k)}
  <1>5. P(0)
    <2>1. st[0].loaded = F
      BY <1>4 DEF Succeed
    <2> QED
      BY <2>1
  <1>6. ASSUME NEW k \in 1..n, P(k - 1) PROVE P(k)
    <2> SUFFICES ASSUME st[k].result = "Ok" PROVE TypedOf(tx, st[k].loaded)
      OBVIOUS
    <2>1. PICK state, next, ix, G, infos :
              /\ state = st[k - 1] /\ next = st[k] /\ ix = tx.instructions[k] /\ G = state.loaded
              /\ infos = prepare_account_infos(ix, tx.account_keys)
      OBVIOUS
    <2>2. k \in 1..Len(tx.instructions) /\ next = ExecStep(tx, state, ix) /\ next.result = "Ok"
      BY <1>1, <1>4, <2>1
    <2>3. state.result = "Ok"
      BY <2>2 DEF ExecStep
    <2>4. AreAccounts(G) /\ DOMAIN G = DOMAIN tx.account_keys
      BY <1>6, <2>1, <2>3 DEF TypedOf
    <2>5. InstructionDone(ix, infos, G, next.loaded)
      BY <2>1, <2>2, <2>4, StepDone
    <2>6. AreAccounts(next.loaded) /\ DOMAIN next.loaded = DOMAIN G
      BY <2>4, <2>5, DoneTyped
    <2> QED
      BY <2>1, <2>4, <2>6 DEF TypedOf
  <1> HIDE DEF P
  <1>7. ASSUME NEW k \in 1..n, \A m \in 1..n : m < k => m \in Z
        PROVE  k \in Z
    <2>1. P(k - 1)
      <3>1. CASE k = 1
        BY <1>5, <3>1
      <3>2. CASE k # 1
        <4>1. k - 1 \in 1..n /\ k - 1 < k
          BY <1>2, <3>2
        <4> QED
          BY <1>7, <4>1
      <3> QED
        BY <3>1, <3>2
    <2> QED
      BY <1>6, <2>1
  <1>8. Z = 1..n
    <2>1. Z \in SUBSET (1..n)
      OBVIOUS
    <2> HIDE DEF Z
    <2> QED
      BY <1>2, <1>7, <2>1, StrongInduction
  <1>9. P(n)
    <2>1. CASE n = 0
      BY <1>5, <2>1
    <2>2. CASE n # 0
      <3>1. n \in Z
        BY <1>2, <1>8, <2>2
      <3> QED
        BY <3>1
    <2> QED
      BY <2>1, <2>2
  <1> QED
    BY <1>4, <1>9 DEF P

-----------------------------------------------------------------------------
\* g is f along h on 1..n, and T is the image of h there.
Along(g, f, h, n) == \A i \in 1..n : g[i] = f[h[i]] /\ g[i] \in Nat
ImageIs(T, h, n) == T = {h[i] : i \in 1..n}

\* A sum over positions is one over the keys that are there.
LEMMA SumOfImage ==
    ASSUME NEW n \in Nat, NEW h, OneToOne(h, n), NEW f, NEW g, Along(g, f, h, n),
           NEW T, ImageIs(T, h, n)
    PROVE  SumFunctionOnSet(g, 1..n) = SumFunctionOnSet(f, T)
  <1> DEFINE I(k) == {h[i] : i \in 1..k}
             P(k) == /\ IsFiniteSet(I(k)) /\ IsFiniteSet(1..k)
                     /\ SumFunctionOnSet(g, 1..k) = SumFunctionOnSet(f, I(k))
             Z == {k \in 1..n : P(k)}
  <1>1. P(0)
    <2>1. 1..0 = {} /\ I(0) = {}
      OBVIOUS
    <2>2. SumFunctionOnSet(g, {}) = 0 /\ SumFunctionOnSet(f, {}) = 0
      BY SumEmpty
    <2>3. IsFiniteSet({})
      BY FS_EmptySet
    <2> QED
      BY <2>1, <2>2, <2>3
  <1>2. ASSUME NEW k \in 1..n, P(k - 1) PROVE P(k)
    <2>1. PICK A, B, x, y : A = 1..k /\ B = I(k) /\ x = k /\ y = h[k]
      BY Zenon
    <2>2. A = 1..(k - 1) \cup {x} /\ A \ {x} = 1..(k - 1) /\ x \in A
      BY <2>1
    <2>3. B = I(k - 1) \cup {y} /\ B \ {y} = I(k - 1) /\ y \in B
      <3>1. y \notin I(k - 1)
        BY <2>1 DEF OneToOne
      <3>2. B = I(k - 1) \cup {y}
        BY <2>1
      <3> QED
        BY <3>1, <3>2
    <2>4. IsFiniteSet(A) /\ IsFiniteSet(B)
      <3> HIDE DEF I
      <3> QED
        BY <1>2, <2>2, <2>3, FS_AddElement, Zenon
    <2>5. \A i \in A : g[i] \in Nat
      BY <2>1 DEF Along
    <2>6. \A z \in B : f[z] \in Nat
      BY <2>1 DEF Along
    <2>7. SumFunctionOnSet(g, A) = g[x] + SumFunctionOnSet(g, A \ {x})
      BY <2>2, <2>4, <2>5, SumSplits
    <2>8. SumFunctionOnSet(f, B) = f[y] + SumFunctionOnSet(f, B \ {y})
      BY <2>3, <2>4, <2>6, SumSplits
    <2>9. g[x] = f[y]
      BY <2>1 DEF Along
    <2>10. SumFunctionOnSet(g, A \ {x}) = SumFunctionOnSet(f, B \ {y})
      <3> HIDE DEF I
      <3> QED
        BY <1>2, <2>2, <2>3, Zenon
    <2>11. SumFunctionOnSet(g, A) = SumFunctionOnSet(f, B)
      BY <2>7, <2>8, <2>9, <2>10, Zenon
    <2> HIDE DEF I
    <2> QED
      BY <2>1, <2>4, <2>11
  <1> HIDE DEF P
  <1>3. ASSUME NEW k \in 1..n, \A m \in 1..n : m < k => m \in Z
        PROVE  k \in Z
    <2>1. P(k - 1)
      <3>1. CASE k = 1
        BY <1>1, <3>1
      <3>2. CASE k # 1
        <4>1. k - 1 \in 1..n /\ k - 1 < k
          BY <3>2
        <4> QED
          BY <1>3, <4>1
      <3> QED
        BY <3>1, <3>2
    <2> QED
      BY <1>2, <2>1
  <1>4. Z = 1..n
    <2>1. Z \in SUBSET (1..n)
      OBVIOUS
    <2> HIDE DEF Z
    <2> QED
      BY <1>3, <2>1, StrongInduction
  <1>5. P(n)
    <2>1. CASE n = 0
      BY <1>1, <2>1
    <2>2. CASE n # 0
      <3>1. n \in Z
        BY <1>4, <2>2
      <3> QED
        BY <3>1
    <2> QED
      BY <2>1, <2>2
  <1> QED
    BY <1>5 DEF P, ImageIs


\* The values of a sequence are finitely many.
LEMMA FinitePositions ==
    ASSUME NEW n \in Nat, NEW t
    PROVE  IsFiniteSet(1..n) /\ IsFiniteSet({t[i] : i \in 1..n})
  <1>1. IsFiniteSet(1..n)
    BY FS_Interval, 1 \in Int, n \in Int
  <1>2. PICK I, D, f : I = 1..n /\ D = {t[i] : i \in I} /\ f = [i \in I |-> t[i]]
    BY Zenon
  <1>3. f \in Surjection(I, D)
    BY <1>2 DEF Surjection
  <1>4. IsFiniteSet(D)
    BY <1>1, <1>2, <1>3, FS_Surjection
  <1> QED
    BY <1>1, <1>2, <1>4

\* The overlay of a transaction that ended with G: every listed key, with the account
\* at a position of that key.
OverlayIs(e, t, G) ==
    /\ DOMAIN e = {t[i] : i \in 1..Len(t)}
    /\ \A key \in DOMAIN e : \E i \in 1..Len(t) : t[i] = key /\ e[key] = G[i]

\* The overlay holds, for each key, the account at a position of that key.
LEMMA OverlayAt ==
    ASSUME NEW tx, Len(tx.account_keys) \in Nat, DOMAIN tx.account_keys = 1..Len(tx.account_keys),
           NEW G, NEW e, e = overlay_of(tx, G), NEW t, t = tx.account_keys
    PROVE  OverlayIs(e, t, G)
  <1>2. Len(t) \in Nat /\ ToSet(t) = {t[i] : i \in 1..Len(t)}
    BY DEF ToSet
  <1>3. e = [key \in ToSet(t) |-> G[SelectLastInSeq(t, LAMBDA k : k = key)]]
    BY Zenon DEF overlay_of
  <1>4. ASSUME NEW key \in ToSet(t)
        PROVE  \E i \in 1..Len(t) : t[i] = key /\ e[key] = G[i]
    <2> DEFINE S == {i \in 1..Len(t) : t[i] = key}
    <2>1. SelectLastInSeq(t, LAMBDA k : k = key) = IF S # {} THEN Max(S) ELSE 0
      BY Zenon DEF SelectLastInSeq
    <2>2. S # {} /\ S \in SUBSET (1..Len(t))
      BY <1>2
    <2>3. Max(S) \in S
      <3> HIDE DEF S
      <3> QED
        BY <1>2, <2>2, MaxOfPositions, Zenon
    <2>4. e[key] = G[Max(S)]
      BY <1>3, <2>1, <2>2, Zenon
    <2> QED
      BY <2>3, <2>4, Zenon
  <1>5. DOMAIN e = ToSet(t)
    BY <1>3, Zenon
  <1> QED
    BY <1>2, <1>4, <1>5 DEF OverlayIs

\* The accounts a transaction loads, and a store with an overlay on it.
Loaded(tx, L) == [i \in DOMAIN tx.account_keys |-> Load(L, tx.account_keys[i])]
Over(L, e) == [x \in DOMAIN L \cup DOMAIN e |-> IF x \in DOMAIN e THEN e[x] ELSE L[x]]

\* RunAlone without its LET.
LEMMA RunAloneIs ==
    ASSUME NEW tx, NEW L, NEW F, F = Loaded(tx, L), NEW done, done = execute_instructions(tx, F),
           NEW e, e = overlay_of(tx, done.loaded)
    PROVE  RunAlone(tx, L).result = done.result /\ RunAlone(tx, L).store = Over(L, e)
  <1>1. RunAlone(tx, L) = [result |-> done.result, store |-> Over(L, e)]
    BY Zenon DEF RunAlone, Loaded, Over
  <1> QED
    BY <1>1

\* What a transaction loads from a store of accounts is accounts.
LEMMA LoadedAccounts ==
    ASSUME NEW tx, WellFormedTx(tx), NEW L, AreAccounts(L), NEW F, F = Loaded(tx, L)
    PROVE  /\ AreAccounts(F) /\ DOMAIN F = DOMAIN tx.account_keys
           /\ \A i \in DOMAIN tx.account_keys : F[i] = Load(L, tx.account_keys[i])
  <1>0. IsAccount(DefaultAccount)
    BY U64Assumption DEF IsAccount, DefaultAccount
  <1>1. ASSUME NEW key PROVE IsAccount(Load(L, key))
    BY <1>0 DEF AreAccounts, Load
  <1>2. /\ DOMAIN F = DOMAIN tx.account_keys /\ F = [m \in DOMAIN F |-> F[m]]
        /\ \A i \in DOMAIN tx.account_keys : F[i] = Load(L, tx.account_keys[i])
    BY Zenon DEF Loaded
  <1>3. IsFiniteSet(DOMAIN tx.account_keys)
    BY FinitePositions, Zenon DEF WellFormedTx
  <1> QED
    BY <1>1, <1>2, <1>3 DEF AreAccounts

IsOver(S, L, e) ==
    /\ DOMAIN S = DOMAIN L \cup DOMAIN e
    /\ \A x \in DOMAIN S : S[x] = IF x \in DOMAIN e THEN e[x] ELSE L[x]

\* An overlay flushed into a store leaves a store.
LEMMA OverAccounts ==
    ASSUME NEW tx, WellFormedTx(tx), NEW L, AreAccounts(L), NEW G, AreAccounts(G),
           DOMAIN G = DOMAIN tx.account_keys, NEW e, e = overlay_of(tx, G), NEW S, S = Over(L, e)
    PROVE  AreAccounts(S) /\ IsFiniteSet(DOMAIN e) /\ IsOver(S, L, e)
  <1>2. /\ DOMAIN S = DOMAIN L \cup DOMAIN e /\ S = [x \in DOMAIN S |-> S[x]]
        /\ \A x \in DOMAIN S : S[x] = IF x \in DOMAIN e THEN e[x] ELSE L[x]
    BY Zenon DEF Over
  <1>3. PICK t : t = tx.account_keys
    OBVIOUS
  <1>4. Len(t) \in Nat /\ DOMAIN t = 1..Len(t)
    BY <1>3 DEF WellFormedTx
  <1>5. /\ DOMAIN e = {t[i] : i \in 1..Len(t)}
        /\ \A key \in DOMAIN e : \E i \in 1..Len(t) : t[i] = key /\ e[key] = G[i]
    <2>1. OverlayIs(e, t, G)
      BY <1>3, <1>4, OverlayAt
    <2> QED
      BY <2>1 DEF OverlayIs
  <1>6. IsFiniteSet(DOMAIN e)
    BY <1>4, <1>5, FinitePositions
  <1>7. IsFiniteSet(DOMAIN S)
    <2>1. PICK A, B : A = DOMAIN L /\ B = DOMAIN e
      OBVIOUS
    <2>2. IsFiniteSet(A) /\ IsFiniteSet(B)
      BY <1>6, <2>1 DEF AreAccounts
    <2>3. IsFiniteSet(A \cup B)
      BY <2>2, FS_Union, Zenon
    <2> QED
      BY <1>2, <2>1, <2>3
  <1>8. \A key \in DOMAIN e : IsAccount(e[key])
    BY <1>3, <1>4, <1>5 DEF AreAccounts
  <1>9. \A x \in DOMAIN S : IsAccount(S[x])
    BY <1>2, <1>8 DEF AreAccounts
  <1> QED
    BY <1>2, <1>6, <1>7, <1>9 DEF AreAccounts, IsOver

\* A transaction that runs alone and succeeds leaves as many lamports as it found.
LEMMA RunConserves ==
    ASSUME NEW tx, WellFormedTx(tx), ListsOnce(tx),
           \A k \in 1..Len(tx.instructions) : MarksDrained(tx.instructions[k]),
           NEW L, AreAccounts(L), Lamports(L) <= U64_MAX, RunAlone(tx, L).result = "Ok",
           NEW M, M = RunAlone(tx, L).store
    PROVE  AreAccounts(M) /\ Lamports(M) = Lamports(L)
  <1>1. PICK t, n : t = tx.account_keys /\ n = Len(t)
    BY Zenon
  <1>2. n \in Nat /\ DOMAIN t = 1..n /\ OneToOne(t, n)
    BY <1>1 DEF WellFormedTx, ListsOnce
  <1>3. PICK F : F = Loaded(tx, L)
    OBVIOUS
  <1>4. PICK done, G : done = execute_instructions(tx, F) /\ G = done.loaded
    OBVIOUS
  <1>5. PICK e : e = overlay_of(tx, G)
    OBVIOUS
  <1>6. done.result = "Ok" /\ M = Over(L, e)
    BY <1>3, <1>4, <1>5, RunAloneIs
  <1>7. AreAccounts(F) /\ DOMAIN F = 1..n /\ \A i \in 1..n : F[i] = Load(L, t[i])
    BY <1>1, <1>2, <1>3, LoadedAccounts
  <1>8. Conserves(F, G)
    BY <1>1, <1>2, <1>4, <1>6, <1>7, ExecConserves
  <1>9. AreAccounts(G) /\ DOMAIN G = 1..n
    BY <1>7, <1>8 DEF Conserves
  <1>10. /\ AreAccounts(M) /\ DOMAIN M = DOMAIN L \cup DOMAIN e /\ IsFiniteSet(DOMAIN e)
         /\ \A x \in DOMAIN M : M[x] = IF x \in DOMAIN e THEN e[x] ELSE L[x]
    <2>1. AreAccounts(M) /\ IsFiniteSet(DOMAIN e) /\ IsOver(M, L, e)
      BY <1>1, <1>2, <1>5, <1>6, <1>9, OverAccounts
    <2> QED
      BY <2>1 DEF IsOver
  <1>11. OverlayIs(e, t, G)
    BY <1>1, <1>2, <1>5, OverlayAt
  <1>12. PICK D, K, S : D = DOMAIN L /\ K = DOMAIN e /\ S = DOMAIN M
    OBVIOUS
  <1>13. /\ K = {t[i] : i \in 1..n} /\ S = D \cup K /\ IsFiniteSet(K) /\ IsFiniteSet(D) /\ IsFiniteSet(S)
         /\ \A i \in 1..n : e[t[i]] = G[i]
    <2>1. K = {t[i] : i \in 1..n}
      BY <1>1, <1>11, <1>12 DEF OverlayIs
    <2>2. ASSUME NEW i \in 1..n PROVE e[t[i]] = G[i]
      <3>1. t[i] \in K
        BY <2>1
      <3>2. PICK j \in 1..n : t[j] = t[i] /\ e[t[i]] = G[j]
        BY <1>1, <1>11, <1>12, <3>1, Zenon DEF OverlayIs
      <3> QED
        BY <1>2, <3>2 DEF OneToOne
    <2>3. S = D \cup K /\ IsFiniteSet(K) /\ IsFiniteSet(D) /\ IsFiniteSet(S)
      BY <1>10, <1>12 DEF AreAccounts
    <2> QED
      BY <2>1, <2>2, <2>3
  <1>14. PICK b, c : b = [x \in S |-> Load(L, x).lamports] /\ c = Balances(M)
    BY Zenon
  <1>15. /\ Lamports(M) = SumFunctionOnSet(c, S)
         /\ \A x \in S : c[x] = M[x].lamports /\ c[x] \in Nat
    BY <1>10, <1>12, <1>14, LamportsIs, Zenon
  <1>16. \A x \in S : b[x] = Load(L, x).lamports
    BY <1>14, Zenon
  <1>17. PICK l : l = Balances(L)
    OBVIOUS
  <1>18. /\ Lamports(L) = SumFunctionOnSet(l, D)
         /\ \A x \in D : l[x] = L[x].lamports /\ l[x] \in Nat
    BY <1>12, <1>17, LamportsIs
  <1>19. /\ \A x \in D : b[x] = l[x] /\ b[x] \in Nat
         /\ \A x \in S \ D : b[x] = 0
    <2>1. \A x \in D : Load(L, x) = L[x]
      BY <1>12 DEF Load
    <2>2. \A x \in S \ D : Load(L, x).lamports = 0
      BY <1>12 DEF Load, DefaultAccount
    <2> QED
      BY <1>13, <1>16, <1>18, <2>1, <2>2
  <1>20. \A x \in S : b[x] \in Nat
    BY <1>13, <1>19
  <1>21. Lamports(L) = SumFunctionOnSet(b, S)
    <2>1. SumFunctionOnSet(b, S) = SumFunctionOnSet(b, D) + SumFunctionOnSet(b, S \ D)
      BY <1>13, <1>20, SumUnion
    <2>2. SumFunctionOnSet(b, D) = SumFunctionOnSet(l, D)
      BY <1>13, <1>19, SumSame
    <2>3. SumFunctionOnSet(b, S \ D) = 0
      BY <1>13, <1>19, SumZero, FS_Subset, Zenon
    <2>4. SumFunctionOnSet(l, D) \in Nat
      BY <1>13, <1>18, SumNat
    <2> QED
      BY <1>18, <2>1, <2>2, <2>3, <2>4
  <1>22. SumFunctionOnSet(b, S) = SumFunctionOnSet(b, K) + SumFunctionOnSet(b, S \ K)
    BY <1>13, <1>20, SumUnion
  <1>23. SumFunctionOnSet(c, S) = SumFunctionOnSet(c, K) + SumFunctionOnSet(c, S \ K)
    BY <1>13, <1>15, SumUnion
  <1>24. SumFunctionOnSet(b, S \ K) = SumFunctionOnSet(c, S \ K)
    <2>1. \A x \in S \ K : b[x] = c[x]
      BY <1>10, <1>12, <1>13, <1>15, <1>16 DEF Load
    <2>2. IsFiniteSet(S \ K)
      BY <1>13, FS_Subset
    <2> QED
      BY <2>1, <2>2, SumSame
  <1>25. PICK f, g : f = Balances(F) /\ g = Balances(G)
    OBVIOUS
  <1>26. /\ Lamports(F) = SumFunctionOnSet(f, 1..n) /\ Lamports(G) = SumFunctionOnSet(g, 1..n)
         /\ \A i \in 1..n : f[i] = F[i].lamports /\ g[i] = G[i].lamports
         /\ \A i \in 1..n : f[i] \in Nat /\ g[i] \in Nat
    BY <1>7, <1>9, <1>25, LamportsIs, Zenon
  <1>27. SumFunctionOnSet(f, 1..n) = SumFunctionOnSet(b, K)
    <2>1. \A i \in 1..n : f[i] = b[t[i]] /\ f[i] \in Nat
      BY <1>7, <1>13, <1>16, <1>26
    <2>2. Along(f, b, t, n) /\ ImageIs(K, t, n)
      BY <1>13, <2>1 DEF Along, ImageIs
    <2> QED
      BY <1>2, <2>2, SumOfImage
  <1>28. SumFunctionOnSet(g, 1..n) = SumFunctionOnSet(c, K)
    <2>1. ASSUME NEW i \in 1..n PROVE g[i] = c[t[i]] /\ g[i] \in Nat
      <3>1. t[i] \in K /\ t[i] \in S /\ e[t[i]] = G[i]
        BY <1>13
      <3>2. M[t[i]] = G[i]
        BY <1>10, <1>12, <3>1
      <3> QED
        BY <1>15, <1>26, <3>1, <3>2
    <2>2. Along(g, c, t, n) /\ ImageIs(K, t, n)
      BY <1>13, <2>1 DEF Along, ImageIs
    <2> QED
      BY <1>2, <2>2, SumOfImage
  <1>29. PICK p, q, r, s : /\ p = SumFunctionOnSet(b, K) /\ q = SumFunctionOnSet(b, S \ K)
                           /\ r = SumFunctionOnSet(c, K) /\ s = SumFunctionOnSet(b, S)
    OBVIOUS
  <1>30. p \in Nat /\ q \in Nat /\ r \in Nat /\ s \in Nat
    BY <1>13, <1>15, <1>20, <1>29, SumNat, FS_Subset, Zenon
  <1>31. s = p + q /\ s <= U64_MAX /\ Lamports(F) = p /\ Lamports(G) = r
    BY <1>21, <1>22, <1>26, <1>27, <1>28, <1>29
  <1>32. r = p
    BY <1>8, <1>30, <1>31, U64Assumption DEF Conserves
  <1> QED
    BY <1>10, <1>15, <1>21, <1>22, <1>23, <1>24, <1>29, <1>32

\* The same, of the discipline that clients keep to.
LEMMA LosslessRun ==
    ASSUME NEW tx, Lossless(tx), NEW L, IsGenesis(L), RunAlone(tx, L).result = "Ok",
           NEW M, M = RunAlone(tx, L).store
    PROVE  IsGenesis(M) /\ Lamports(M) = Lamports(L)
  <1>1. AreAccounts(M) /\ Lamports(M) = Lamports(L)
    BY RunConserves DEF Lossless, IsGenesis
  <1> QED
    BY <1>1 DEF IsGenesis
=============================================================================
