-------------------------- MODULE PohServiceProofs --------------------------
(***************************************************************************)
(* Proof of history for every hashes_per_tick, ticks_per_slot and batch of *)
(* hashes: no record ever meets MaxHeightReached, and every tick stands    *)
(* for its own hashes; every entry can be found again in the chain, and    *)
(* every record is mixed in, once and in order.                            *)
(***************************************************************************)
EXTENDS PohService, SequenceTheorems, TLAPS

\* Quotient and remainder of a slot count.
LEMMA Division ==
    ASSUME NEW T \in Nat \ {0}, NEW t \in Nat
    PROVE  /\ t \div T \in Nat
           /\ t % T \in 0..(T - 1)
           /\ t = (t \div T) * T + (t % T)
  OBVIOUS

\* Two different multiples of T are at least T apart.
LEMMA MultiplesApart ==
    ASSUME NEW T \in Nat \ {0}, NEW a \in Nat, NEW b \in Nat, a * T > b * T
    PROVE  a * T >= b * T + T
  <1>1. a > b
    OBVIOUS
  <1>2. PICK d \in Nat : a = b + 1 + d
    BY <1>1
  <1>3. a * T = b * T + T + d * T
    BY <1>2
  <1>4. d * T \in Nat /\ a * T \in Nat /\ b * T \in Nat
    OBVIOUS
  <1> QED
    BY <1>3, <1>4

\* A multiple of T leaves no remainder.
LEMMA MultipleModulo ==
    ASSUME NEW T \in Nat \ {0}, NEW a \in Nat
    PROVE  (a * T) % T = 0
  <1> DEFINE m == a * T
             q == m \div T
             r == m % T
  <1>1. m \in Nat
    OBVIOUS
  <1>2. q \in Nat /\ r \in 0..(T - 1) /\ m = q * T + r
    BY <1>1, Division
  <1>3. q * T \in Nat
    BY <1>2
  <1>4. ~(a * T > q * T)
    <2> SUFFICES ASSUME a * T > q * T PROVE FALSE
      OBVIOUS
    <2>1. a * T >= q * T + T
      BY <1>2, MultiplesApart
    <2> QED
      BY <2>1, <1>1, <1>2, <1>3
  <1>5. m = q * T
    BY <1>1, <1>2, <1>3, <1>4
  <1> QED
    BY <1>1, <1>2, <1>3, <1>5

\* A tick count inside the slot that ends at (s + 1) * T reaches a multiple of T
\* exactly when it reaches that end.
LEMMA SlotEnds ==
    ASSUME NEW T \in Nat \ {0}, NEW s \in Nat, NEW t \in Nat,
           s * T < t, t <= (s + 1) * T
    PROVE  t % T = 0 <=> t = (s + 1) * T
  <1> DEFINE q == t \div T
  <1>1. s * T \in Nat /\ (s + 1) * T = s * T + T
    OBVIOUS
  <1>2. q \in Nat /\ t % T \in 0..(T - 1) /\ t = q * T + (t % T)
    BY Division
  <1>3. ASSUME t % T = 0 PROVE t = (s + 1) * T
    <2>1. t = q * T /\ q * T \in Nat
      BY <1>2, <1>3
    <2>2. q * T > s * T
      BY <2>1
    <2>3. q * T >= s * T + T
      BY <1>2, <2>2, MultiplesApart
    <2> QED
      BY <2>1, <2>3, <1>1
  <1>4. ASSUME t = (s + 1) * T PROVE t % T = 0
    BY <1>4, MultipleModulo
  <1> QED
    BY <1>3, <1>4

-----------------------------------------------------------------------------
\* hash keeps the type of a recorder and touches only its chain.
LEMMA HashLemma ==
    ASSUME NEW r \in PohRecorder, r.num_hashes = Len(r.current_hash), NEW n \in Nat
    PROVE  /\ hash(r, n) \in PohRecorder
           /\ hash(r, n).num_hashes = Len(hash(r, n).current_hash)
           /\ hash(r, n).num_hashes = r.num_hashes + n
           /\ hash(r, n).hashes_since_last_tick = r.hashes_since_last_tick + n
           /\ hash(r, n).tick_count = r.tick_count
           /\ hash(r, n).slot = r.slot
           /\ hash(r, n).max_tick_height = r.max_tick_height
  <1> DEFINE chain == r.current_hash \o [i \in 1..n |-> PlainHash]
  <1>1. [i \in 1..n |-> PlainHash] \in Seq(Nat) /\ Len([i \in 1..n |-> PlainHash]) = n
    BY DEF PlainHash
  <1>2. chain \in Seq(Nat) /\ Len(chain) = Len(r.current_hash) + n
    BY <1>1 DEF PohRecorder
  <1>3. hash(r, n) = [r EXCEPT !.current_hash = chain,
                               !.num_hashes = r.num_hashes + n,
                               !.hashes_since_last_tick = r.hashes_since_last_tick + n]
    BY DEF hash, PohRecorder
  <1> HIDE DEF chain
  <1>4. /\ r.num_hashes + n \in Nat
        /\ r.hashes_since_last_tick + n \in Nat
    BY DEF PohRecorder
  <1> QED
    BY <1>2, <1>3, <1>4 DEF PohRecorder

\* record too.
LEMMA RecordLemma ==
    ASSUME NEW r \in PohRecorder, r.num_hashes = Len(r.current_hash), NEW id \in Nat
    PROVE  /\ record(r, id) \in PohRecorder
           /\ record(r, id).num_hashes = Len(record(r, id).current_hash)
           /\ record(r, id).num_hashes = r.num_hashes + 1
           /\ record(r, id).hashes_since_last_tick = r.hashes_since_last_tick + 1
           /\ record(r, id).tick_count = r.tick_count
           /\ record(r, id).slot = r.slot
           /\ record(r, id).max_tick_height = r.max_tick_height
  <1> DEFINE chain == Append(r.current_hash, id)
  <1>1. chain \in Seq(Nat) /\ Len(chain) = Len(r.current_hash) + 1
    BY DEF PohRecorder
  <1>2. record(r, id) = [r EXCEPT !.current_hash = chain,
                                  !.num_hashes = r.num_hashes + 1,
                                  !.hashes_since_last_tick = r.hashes_since_last_tick + 1]
    BY DEF record, PohRecorder
  <1> HIDE DEF chain
  <1>3. r.num_hashes + 1 \in Nat /\ r.hashes_since_last_tick + 1 \in Nat
    BY DEF PohRecorder
  <1> QED
    BY <1>1, <1>2, <1>3 DEF PohRecorder

-----------------------------------------------------------------------------
\* What a recorder satisfies after every call.
Height(r) ==
    /\ r.tick_count < r.max_tick_height
    /\ r.max_tick_height <= r.tick_count + ticks_per_slot
    /\ r.max_tick_height = (r.slot + 1) * ticks_per_slot
Paid(r) == r.num_hashes >= r.tick_count * hashes_per_tick + r.hashes_since_last_tick
Good(r) ==
    /\ r \in PohRecorder
    /\ r.num_hashes = Len(r.current_hash)
    /\ Height(r)
    /\ Paid(r)

\* A tick that is due keeps all of it: the slot moves on exactly when the height is
\* reached, and the hashes since the last tick pay for this one.
LEMMA TickGood ==
    ASSUME NEW r, Good(r), should_tick(r)
    PROVE  Good(tick(r))
  <1> DEFINE since == r.hashes_since_last_tick
             ticks == r.tick_count + 1
             T == ticks_per_slot
             H == hashes_per_tick
             left == IF H > since THEN H - since ELSE 0
             full == hash(r, left)
             begun == [full EXCEPT !.hashes_since_last_tick = 0, !.tick_count = ticks]
  <1>1. r \in PohRecorder /\ since \in Nat /\ ticks \in Nat /\ r.slot \in Nat
        /\ r.tick_count \in Nat /\ r.num_hashes \in Nat /\ r.max_tick_height \in Nat
    BY DEF Good, PohRecorder
  <1>2. T \in Nat \ {0} /\ H \in Nat \ {0}
    BY PohAssumption
  <1>3. left = 0 /\ since >= H
    BY <1>1, <1>2 DEF should_tick
  <1>4. /\ full \in PohRecorder
        /\ full.num_hashes = Len(full.current_hash)
        /\ full.num_hashes = r.num_hashes
        /\ full.slot = r.slot
        /\ full.max_tick_height = r.max_tick_height
    <2> HIDE DEF left
    <2>1. left \in Nat
      BY <1>3
    <2>2. r.num_hashes + left = r.num_hashes
      BY <1>1, <1>3
    <2> QED
      BY <1>1, <2>1, <2>2, HashLemma DEF Good
  <1>5. tick(r) = IF ticks % T = 0
                  THEN [begun EXCEPT !.slot = r.slot + 1,
                                     !.max_tick_height = (r.slot + 2) * T]
                  ELSE begun
    BY DEF tick
  <1> HIDE DEF full
  <1> DEFINE this == r.slot * T
             end  == (r.slot + 1) * T
             then == (r.slot + 2) * T
  <1>6. this \in Nat /\ end \in Nat /\ then \in Nat /\ end = this + T /\ then = end + T
    BY <1>1, <1>2
  <1>h. r.max_tick_height = end /\ r.tick_count < end /\ end <= r.tick_count + T
    BY DEF Good, Height
  <1>7. ticks * H = r.tick_count * H + H /\ r.tick_count * H \in Nat
    BY <1>1, <1>2
  <1>8. r.num_hashes >= ticks * H
    BY <1>1, <1>2, <1>3, <1>7 DEF Good, Paid
  <1>9. ticks % T = 0 <=> ticks = (r.slot + 1) * T
    <2>1. this < ticks /\ ticks <= end
      <3> HIDE DEF this, end, then
      <3> QED
        BY <1>1, <1>2, <1>6, <1>h
    <2> QED
      BY <2>1, <1>1, <1>2, SlotEnds
  <1>10. /\ begun \in PohRecorder
         /\ begun.num_hashes = r.num_hashes /\ begun.num_hashes = Len(begun.current_hash)
         /\ begun.hashes_since_last_tick = 0 /\ begun.tick_count = ticks
         /\ begun.slot = r.slot /\ begun.max_tick_height = r.max_tick_height
    BY <1>1, <1>4 DEF PohRecorder
  <1> HIDE DEF begun
  <1>11. CASE ticks = (r.slot + 1) * T
    <2> DEFINE height == (r.slot + 2) * T
               new == [begun EXCEPT !.slot = r.slot + 1, !.max_tick_height = height]
    <2>1. tick(r) = new
      BY <1>5, <1>9, <1>11
    <2>a. height \in Nat /\ height = (r.slot + 2) * T /\ r.slot + 1 \in Nat
      BY <1>1, <1>6
    <2> HIDE DEF height
    <2>2. /\ new \in PohRecorder
          /\ new.num_hashes = r.num_hashes /\ new.num_hashes = Len(new.current_hash)
          /\ new.hashes_since_last_tick = 0 /\ new.tick_count = ticks
          /\ new.slot = r.slot + 1 /\ new.max_tick_height = height
      BY <2>a, <1>10 DEF PohRecorder
    <2> HIDE DEF new
    <2>3. Height(new)
      <3>1. r.slot + 1 + 1 = r.slot + 2
        BY <1>1
      <3>2. ticks = end /\ height = then
        BY <2>a, <1>11
      <3>3. ticks < height /\ height <= ticks + T
        <4> HIDE DEF this, end, then
        <4> QED
          BY <3>2, <1>1, <1>2, <1>6
      <3> QED
        BY <2>2, <2>a, <3>1, <3>3 DEF Height
    <2>4. Paid(new)
      <3>1. ticks * H \in Nat
        BY <1>1, <1>2
      <3> QED
        BY <2>2, <3>1, <1>1, <1>8 DEF Paid
    <2> QED
      BY <2>1, <2>2, <2>3, <2>4 DEF Good
  <1>12. CASE ticks # (r.slot + 1) * T
    <2>1. tick(r) = begun
      BY <1>5, <1>9, <1>12
    <2>2. Height(begun)
      <3>1. ticks < end /\ end <= ticks + T
        <4>1. ticks # end
          BY <1>12
        <4> HIDE DEF this, end, then
        <4> QED
          BY <4>1, <1>1, <1>2, <1>6, <1>h
      <3> QED
        BY <3>1, <1>10, <1>h DEF Height
    <2>3. Paid(begun)
      <3>1. ticks * H \in Nat
        BY <1>1, <1>2
      <3> QED
        BY <1>10, <3>1, <1>1, <1>8 DEF Paid
    <2> QED
      BY <2>1, <2>2, <2>3, <1>10 DEF Good
  <1> QED
    BY <1>11, <1>12

\* A batch of hashes and a record keep it as well.
LEMMA HashGood ==
    ASSUME NEW r, Good(r), NEW n \in Nat
    PROVE  Good(hash(r, n))
  <1>1. r \in PohRecorder /\ r.num_hashes = Len(r.current_hash)
    BY DEF Good
  <1>2. /\ r.num_hashes \in Nat /\ r.hashes_since_last_tick \in Nat
        /\ r.tick_count * hashes_per_tick \in Nat
    BY <1>1, PohAssumption DEF PohRecorder
  <1>3. r.num_hashes + n >= r.tick_count * hashes_per_tick + (r.hashes_since_last_tick + n)
    BY <1>2 DEF Good, Paid
  <1> QED
    BY <1>1, <1>3, HashLemma DEF Good, Height, Paid

\* record keeps the recorder in order: it is never refused.
LEMMA RecordGood ==
    ASSUME NEW r, Good(r), NEW id \in Nat
    PROVE  Good(record(r, id))
  <1>1. r \in PohRecorder /\ r.num_hashes = Len(r.current_hash)
    BY DEF Good
  <1>2. /\ r.num_hashes \in Nat /\ r.hashes_since_last_tick \in Nat
        /\ r.tick_count * hashes_per_tick \in Nat
    BY <1>1, PohAssumption DEF PohRecorder
  <1>3. r.num_hashes + 1 >= r.tick_count * hashes_per_tick + (r.hashes_since_last_tick + 1)
    BY <1>2 DEF Good, Paid
  <1> QED
    BY <1>1, <1>3, RecordLemma DEF Good, Height, Paid

-----------------------------------------------------------------------------
\* The invariants of the run, together: they are inductive.
Inv == TypeOK /\ HeightAhead /\ TicksArePaidFor

\* The invariant, with the recorder apart.
LEMMA InvIsGood == Inv <=> /\ Good(recorder)
                          /\ queue \in Seq(Nat) /\ sent \in Nat
                          /\ connected \in BOOLEAN /\ exit \in BOOLEAN
                          /\ pc \in {"head", "recv", "done"}
  BY DEF Inv, TypeOK, HeightAhead, TicksArePaidFor, Good, Height, Paid

LEMMA InitInv == Init => Inv
  <1> SUFFICES ASSUME Init PROVE Inv
    OBVIOUS
  <1>1. NewRecorder \in PohRecorder /\ NewRecorder.num_hashes = Len(NewRecorder.current_hash)
    BY PohAssumption DEF NewRecorder, PohRecorder
  <1>2. Height(NewRecorder)
    BY PohAssumption DEF NewRecorder, Height
  <1>3. Paid(NewRecorder)
    BY PohAssumption DEF NewRecorder, Paid
  <1>4. Good(NewRecorder)
    BY <1>1, <1>2, <1>3 DEF Good
  <1>5. recorder = NewRecorder /\ queue = <<>> /\ sent = 0 /\ pc = "head"
    BY DEF Init
  <1>6. connected \in BOOLEAN /\ exit \in BOOLEAN
    BY Zenon DEF Init
  <1>7. Good(recorder)
    BY <1>4, <1>5, Zenon
  <1> QED
    BY <1>5, <1>6, <1>7, InvIsGood

LEMMA NextInv == Inv /\ [Next]_vars => Inv'
  <1> SUFFICES ASSUME Inv, [Next]_vars PROVE Inv'
    OBVIOUS
  <1>1. /\ Good(recorder)
        /\ queue \in Seq(Nat) /\ sent \in Nat
        /\ connected \in BOOLEAN /\ exit \in BOOLEAN
        /\ pc \in {"head", "recv", "done"}
    BY InvIsGood
  <1> SUFFICES /\ Good(recorder)'
               /\ queue' \in Seq(Nat) /\ sent' \in Nat
               /\ connected' \in BOOLEAN /\ exit' \in BOOLEAN
               /\ pc' \in {"head", "recv", "done"}
    BY DEF Inv, TypeOK, HeightAhead, TicksArePaidFor, Good, Height, Paid
  <1>2. CASE Send
    BY <1>1, <1>2 DEF Send, Good, Height, Paid
  <1>3. CASE Disconnect
    BY <1>1, <1>3 DEF Disconnect, Good, Height, Paid
  <1>4. CASE Exit
    BY <1>1, <1>4 DEF Exit, Good, Height, Paid
  <1>5. CASE LoopHead
    BY <1>1, <1>5 DEF LoopHead, Good, Height, Paid
  <1>6. CASE Record
    <2>1. Head(queue) \in Nat /\ Tail(queue) \in Seq(Nat)
      BY <1>1, <1>6 DEF Record
    <2>2. Good(recorder')
      BY <1>1, <1>6, <2>1, RecordGood DEF Record
    <2> QED
      BY <1>1, <1>6, <2>1, <2>2 DEF Record, Good, Height, Paid
  <1>7. CASE HashBatch
    <2> DEFINE hashed == hash(recorder, hashes_per_batch)
    <2>1. Good(hashed)
      BY <1>1, HashGood, PohAssumption
    <2>2. recorder' = IF should_tick(hashed) THEN tick(hashed) ELSE hashed
      BY <1>7 DEF HashBatch
    <2> HIDE DEF hashed
    <2>3. Good(recorder')
      BY <2>1, <2>2, TickGood
    <2> QED
      BY <1>1, <1>7, <2>3 DEF HashBatch, Good, Height, Paid
  <1>8. CASE Disconnected
    BY <1>1, <1>8 DEF Disconnected, Good, Height, Paid
  <1>9. CASE UNCHANGED vars
    BY <1>1, <1>9 DEF vars, Good, Height, Paid
  <1> QED
    BY <1>2, <1>3, <1>4, <1>5, <1>6, <1>7, <1>8, <1>9 DEF Next, ThreadStep

\* The three invariants hold for every choice of the constants.
THEOREM InvHolds == Spec => []Inv
  BY InitInv, NextInv, PTL DEF Spec

\* The recorder's counters have their types, and num_hashes is the length of the chain.
THEOREM TypeCorrect == Spec => []TypeOK
  BY InvHolds, PTL DEF Inv

\* record never returns MaxHeightReached, whatever the number of ticks in a slot.
THEOREM RecordNeverRefused == Spec => []HeightAhead
  BY InvHolds, PTL DEF Inv

\* Every tick is paid for with hashes_per_tick hashes of its own, whatever the
\* number of hashes in a batch and the records mixed in.
THEOREM TicksPaid == Spec => []TicksArePaidFor
  BY InvHolds, PTL DEF Inv

-----------------------------------------------------------------------------
\* The entries.  What record returned stays true because the chain only grows.

PohEntry == [hash: Seq(Nat), num_hashes: Nat \ {0}, transactions_hash: Nat]

\* The chain d goes on where the chain c ends.
Extends(d, c) == Len(c) <= Len(d) /\ \A k \in 1..Len(c) : d[k] = c[k]

\* The entry is in the chain, where its num_hashes says.
Verifies(entry, chain) ==
    /\ Extends(chain, entry.hash)
    /\ Len(entry.hash) = entry.num_hashes
    /\ chain[entry.num_hashes] = entry.transactions_hash

\* Extends is what IsPrefix says.
LEMMA ExtendsIsPrefix ==
    ASSUME NEW c \in Seq(Nat), NEW d \in Seq(Nat), Extends(d, c)
    PROVE  IsPrefix(c, d)
  <1>1. Len(c) \in Nat /\ Len(d) \in Nat /\ Len(c) <= Len(d)
    BY DEF Extends
  <1>2. SubSeq(c, 1, Len(c)) = [i \in 1..Len(c) |-> c[i]]
    BY <1>1
  <1>3. SubSeq(d, 1, Len(c)) = [i \in 1..Len(c) |-> d[i]]
    BY <1>1
  <1>4. [i \in 1..Len(c) |-> c[i]] = [i \in 1..Len(c) |-> d[i]]
    BY DEF Extends
  <1> QED
    BY <1>1, <1>2, <1>3, <1>4 DEF IsPrefix

\* A chain that extends a chain extends what that one extends.
LEMMA ExtendsTwice ==
    ASSUME NEW c \in Seq(Nat), NEW d \in Seq(Nat), NEW e \in Seq(Nat),
           Extends(d, c), Extends(e, d)
    PROVE  Extends(e, c)
  <1>1. Len(c) \in Nat /\ Len(d) \in Nat /\ Len(e) \in Nat
    OBVIOUS
  <1>2. \A k \in 1..Len(c) : k \in 1..Len(d) /\ e[k] = c[k]
    BY <1>1 DEF Extends
  <1> QED
    BY <1>1, <1>2 DEF Extends

\* hash, tick and record only add to the chain.
LEMMA HashExtends ==
    ASSUME NEW r \in PohRecorder, NEW n \in Nat
    PROVE  Extends(hash(r, n).current_hash, r.current_hash)
  <1> DEFINE more == [i \in 1..n |-> PlainHash]
             chain == r.current_hash \o more
  <1>1. more \in Seq(Nat) /\ Len(more) = n /\ r.current_hash \in Seq(Nat)
    BY DEF PlainHash, PohRecorder
  <1>2. hash(r, n).current_hash = chain
    BY DEF hash, PohRecorder
  <1> HIDE DEF more
  <1>3. Extends(chain, r.current_hash)
    BY <1>1 DEF Extends
  <1> QED
    BY <1>2, <1>3

LEMMA TickExtends ==
    ASSUME NEW r \in PohRecorder
    PROVE  Extends(tick(r).current_hash, r.current_hash)
  <1> DEFINE since == r.hashes_since_last_tick
             left == IF hashes_per_tick > since THEN hashes_per_tick - since ELSE 0
             full == hash(r, left)
  <1>1. left \in Nat
    BY PohAssumption DEF PohRecorder
  <1>2. tick(r).current_hash = full.current_hash
    <2>1. DOMAIN full = DOMAIN r
      BY DEF hash
    <2> HIDE DEF full
    <2> DEFINE begun == [full EXCEPT !.hashes_since_last_tick = 0, !.tick_count = r.tick_count + 1]
    <2>2. begun.current_hash = full.current_hash /\ DOMAIN begun = DOMAIN r
      BY <2>1 DEF PohRecorder
    <2>3. tick(r) = IF (r.tick_count + 1) % ticks_per_slot = 0
                    THEN [begun EXCEPT !.slot = r.slot + 1,
                                       !.max_tick_height = (r.slot + 2) * ticks_per_slot]
                    ELSE begun
      BY DEF tick, full
    <2> HIDE DEF begun
    <2> QED
      BY <2>2, <2>3 DEF PohRecorder
  <1> HIDE DEF left
  <1> QED
    BY <1>1, <1>2, HashExtends

\* record puts the hash it is given at the place it returns.
LEMMA RecordExtends ==
    ASSUME NEW r \in PohRecorder, r.num_hashes = Len(r.current_hash), NEW id \in Nat
    PROVE  /\ Extends(record(r, id).current_hash, r.current_hash)
           /\ record(r, id).current_hash[record(r, id).num_hashes] = id
  <1> DEFINE chain == Append(r.current_hash, id)
  <1>1. r.current_hash \in Seq(Nat)
    BY DEF PohRecorder
  <1>2. record(r, id).current_hash = chain
    BY DEF record, PohRecorder
  <1>3. Extends(chain, r.current_hash) /\ chain[Len(r.current_hash) + 1] = id
    BY <1>1 DEF Extends
  <1> QED
    BY <1>2, <1>3, RecordLemma

\* An entry that is in a chain is in every longer one.
LEMMA VerifiesLater ==
    ASSUME NEW entry \in PohEntry, NEW c \in Seq(Nat), NEW d \in Seq(Nat),
           Verifies(entry, c), Extends(d, c)
    PROVE  Verifies(entry, d)
  <1>1. /\ entry.num_hashes \in 1..Len(c) /\ Len(entry.hash) = entry.num_hashes
        /\ entry.hash \in Seq(Nat)
    BY DEF PohEntry, Verifies, Extends
  <1>2. d[entry.num_hashes] = c[entry.num_hashes]
    BY <1>1 DEF Extends
  <1>3. Extends(d, entry.hash)
    BY <1>1, ExtendsTwice DEF Verifies
  <1> QED
    BY <1>1, <1>2, <1>3 DEF Verifies

\* The records that were mixed in, in order.
Mixed == [i \in DOMAIN entries |-> entries[i].transactions_hash]

\* What the entries add to Inv.
EntriesInv ==
    /\ entries \in Seq(PohEntry)
    /\ \A i \in DOMAIN entries : Verifies(entries[i], recorder.current_hash)
    /\ Mixed \o queue = [n \in 1..sent |-> n]
    /\ pc = "done" /\ ~exit => queue = <<>>

\* The invariant gives both properties.
LEMMA EntriesInvSuffices == Inv /\ EntriesInv => EntriesVerify /\ NothingLost
  <1> SUFFICES ASSUME Inv, EntriesInv PROVE EntriesVerify /\ NothingLost
    OBVIOUS
  <1>1. NothingLost
    BY DEF EntriesInv, NothingLost, Mixed
  <1>2. ASSUME NEW i \in DOMAIN entries
        PROVE  /\ IsPrefix(entries[i].hash, recorder.current_hash)
               /\ Len(entries[i].hash) = entries[i].num_hashes
               /\ recorder.current_hash[entries[i].num_hashes] = entries[i].transactions_hash
    <2>1. entries[i].hash \in Seq(Nat)
      <3>1. entries[i] \in PohEntry
        BY DEF EntriesInv
      <3> QED
        BY <3>1 DEF PohEntry
    <2>2. recorder.current_hash \in Seq(Nat)
      BY DEF Inv, TypeOK, PohRecorder
    <2>3. Verifies(entries[i], recorder.current_hash)
      BY DEF EntriesInv
    <2> QED
      BY <2>1, <2>2, <2>3, ExtendsIsPrefix DEF Verifies
  <1> QED
    BY <1>1, <1>2 DEF EntriesVerify

\* No entry, no record.
LEMMA EntriesInit == Init => EntriesInv
  <1> SUFFICES ASSUME Init PROVE EntriesInv
    OBVIOUS
  <1>1. entries = <<>> /\ queue = <<>> /\ sent = 0 /\ pc = "head"
    BY DEF Init
  <1>2. Mixed = <<>>
    BY <1>1 DEF Mixed
  <1>3. Mixed \o queue = [n \in 1..sent |-> n]
    BY <1>1, <1>2
  <1> QED
    BY <1>1, <1>3 DEF EntriesInv

\* Where the entries stay as they are, it is enough that the chain grows.
LEMMA ChainGrows ==
    ASSUME Inv, EntriesInv, recorder' \in PohRecorder, UNCHANGED <<entries, queue, sent>>,
           Extends(recorder'.current_hash, recorder.current_hash),
           pc' = "done" /\ ~exit' => queue' = <<>>
    PROVE  EntriesInv'
  <1>1. recorder.current_hash \in Seq(Nat) /\ recorder'.current_hash \in Seq(Nat)
    BY DEF Inv, TypeOK, PohRecorder
  <1>2. ASSUME NEW i \in DOMAIN entries PROVE Verifies(entries[i], recorder'.current_hash)
    <2>1. entries[i] \in PohEntry /\ Verifies(entries[i], recorder.current_hash)
      BY DEF EntriesInv
    <2> QED
      BY <2>1, <1>1, VerifiesLater
  <1>3. Mixed' = Mixed
    BY DEF Mixed
  <1> QED
    BY <1>2, <1>3 DEF EntriesInv

LEMMA ExtendsItself ==
    ASSUME NEW c \in Seq(Nat)
    PROVE  Extends(c, c)
  BY DEF Extends

\* A record moves the head of the queue into the chain; other steps only extend the chain.
LEMMA EntriesNext == Inv /\ Inv' /\ EntriesInv /\ [Next]_vars => EntriesInv'
  <1> SUFFICES ASSUME Inv, Inv', EntriesInv, [Next]_vars PROVE EntriesInv'
    OBVIOUS
  <1>1. /\ recorder \in PohRecorder /\ recorder.num_hashes = Len(recorder.current_hash)
        /\ recorder.current_hash \in Seq(Nat)
        /\ queue \in Seq(Nat) /\ sent \in Nat /\ connected \in BOOLEAN /\ exit \in BOOLEAN
    BY DEF Inv, TypeOK, PohRecorder
  <1>2. recorder' \in PohRecorder
    BY DEF Inv, TypeOK
  <1>3. Extends(recorder.current_hash, recorder.current_hash)
    BY <1>1, ExtendsItself
  <1>4. entries \in Seq(PohEntry) /\ DOMAIN entries = 1..Len(entries) /\ Len(entries) \in Nat
    BY DEF EntriesInv
  <1>5. Mixed \in Seq(Nat) /\ Len(Mixed) = Len(entries)
    <2>1. \A i \in 1..Len(entries) : entries[i].transactions_hash \in Nat
      <3>1. \A i \in 1..Len(entries) : entries[i] \in PohEntry
        BY <1>4
      <3> QED
        BY <3>1 DEF PohEntry
    <2> QED
      BY <1>4, <2>1 DEF Mixed
  <1>6. CASE Send
    <2>1. pc # "done" /\ UNCHANGED <<recorder, entries, exit, pc>>
          /\ sent' = sent + 1 /\ queue' = Append(queue, sent + 1)
      BY <1>6 DEF Send
    <2>2. Mixed' = Mixed
      BY <2>1 DEF Mixed
    <2>3. Mixed \o Append(queue, sent + 1) = Append(Mixed \o queue, sent + 1)
      BY <1>1, <1>5
    <2>4. Append([n \in 1..sent |-> n], sent + 1) = [n \in 1..(sent + 1) |-> n]
      BY <1>1
    <2>5. (Mixed \o queue = [n \in 1..sent |-> n])'
      BY <2>1, <2>2, <2>3, <2>4 DEF EntriesInv
    <2> QED
      BY <2>1, <2>5 DEF EntriesInv
  <1>7. CASE Disconnect
    BY <1>7, <1>2, <1>3, ChainGrows DEF Disconnect, EntriesInv
  <1>8. CASE Exit
    BY <1>8, <1>2, <1>3, ChainGrows DEF Exit, EntriesInv
  <1>9. CASE LoopHead
    BY <1>9, <1>2, <1>3, ChainGrows DEF LoopHead, EntriesInv
  <1>10. CASE Record
    <2> DEFINE id == Head(queue)
               entry == [hash |-> recorder'.current_hash, num_hashes |-> recorder'.num_hashes,
                         transactions_hash |-> id]
    <2>1. queue # <<>> /\ id \in Nat /\ queue' = Tail(queue) /\ sent' = sent /\ pc' = "head"
      BY <1>1, <1>10 DEF Record
    <2>2. ~MaxHeightReached(recorder)
      BY <1>1 DEF Inv, HeightAhead, MaxHeightReached, PohRecorder
    <2>3. recorder' = record(recorder, id) /\ entries' = Append(entries, entry)
      BY <1>10, <2>2 DEF Record
    <2>4. /\ Extends(recorder'.current_hash, recorder.current_hash)
          /\ recorder'.current_hash[recorder'.num_hashes] = id
          /\ recorder'.num_hashes = Len(recorder'.current_hash)
          /\ recorder'.num_hashes = recorder.num_hashes + 1
          /\ recorder'.current_hash \in Seq(Nat)
      <3>1. /\ Extends(record(recorder, id).current_hash, recorder.current_hash)
            /\ record(recorder, id).current_hash[record(recorder, id).num_hashes] = id
        BY <1>1, <2>1, RecordExtends, Zenon
      <3>2. /\ record(recorder, id).num_hashes = Len(record(recorder, id).current_hash)
            /\ record(recorder, id).num_hashes = recorder.num_hashes + 1
        BY <1>1, <2>1, RecordLemma, Zenon
      <3>3. recorder'.current_hash \in Seq(Nat)
        BY <1>2 DEF PohRecorder
      <3> QED
        BY <2>3, <3>1, <3>2, <3>3, Zenon
    <2>5. entry \in PohEntry
      BY <1>1, <2>1, <2>4 DEF PohEntry, PohRecorder
    <2>6. Verifies(entry, recorder'.current_hash)
      BY <2>4, ExtendsItself DEF Verifies
    <2> HIDE DEF entry
    <2>7. entries' \in Seq(PohEntry)
      BY <1>4, <2>3, <2>5
    <2>8. ASSUME NEW i \in DOMAIN entries'
          PROVE  Verifies(entries'[i], recorder'.current_hash)
      <3>1. CASE i = Len(entries) + 1
        <4>1. entries'[i] = entry
          BY <1>4, <2>3, <3>1
        <4> QED
          BY <4>1, <2>6
      <3>2. CASE i # Len(entries) + 1
        <4>1. i \in DOMAIN entries /\ entries'[i] = entries[i]
          BY <1>4, <2>3, <2>5, <3>2
        <4>2. entries[i] \in PohEntry /\ Verifies(entries[i], recorder.current_hash)
          BY <4>1 DEF EntriesInv
        <4>3. Verifies(entries[i], recorder'.current_hash)
          BY <4>2, <1>1, <2>4, VerifiesLater
        <4> QED
          BY <4>1, <4>3
      <3> QED
        BY <3>1, <3>2
    <2>9. Mixed' = Append(Mixed, id)
      <3>1. entry.transactions_hash = id
        BY DEF entry
      <3>2. /\ DOMAIN entries' = 1..(Len(entries) + 1)
            /\ entries'[Len(entries) + 1] = entry
            /\ \A i \in 1..Len(entries) : entries'[i] = entries[i]
        BY <1>4, <2>3, <2>5
      <3>3. Mixed' = [i \in 1..(Len(entries) + 1) |-> entries'[i].transactions_hash]
        BY <3>2 DEF Mixed
      <3>4. /\ DOMAIN Append(Mixed, id) = 1..(Len(entries) + 1)
            /\ Append(Mixed, id)[Len(entries) + 1] = id
            /\ \A i \in 1..Len(entries) : Append(Mixed, id)[i] = Mixed[i]
            /\ Append(Mixed, id) \in Seq(Nat)
        BY <1>5, <2>1
      <3>5. \A i \in 1..Len(entries) : Mixed[i] = entries[i].transactions_hash
        BY <1>4 DEF Mixed
      <3>6. \A i \in 1..(Len(entries) + 1) :
               entries'[i].transactions_hash = Append(Mixed, id)[i]
        BY <1>4, <3>1, <3>2, <3>4, <3>5
      <3>7. Append(Mixed, id) = [i \in 1..(Len(entries) + 1) |-> Append(Mixed, id)[i]]
        <4> DEFINE longer == Append(Mixed, id)
        <4>1. longer \in Seq(Nat) /\ DOMAIN longer = 1..(Len(entries) + 1)
          BY <3>4
        <4> HIDE DEF longer
        <4>2. longer = [i \in 1..(Len(entries) + 1) |-> longer[i]]
          BY <4>1
        <4> QED
          BY <4>2 DEF longer
      <3> QED
        BY <3>3, <3>6, <3>7
    <2>10. Append(Mixed, id) \o Tail(queue) = Mixed \o queue
      BY <1>1, <1>5, <2>1
    <2>11. (Mixed \o queue = [n \in 1..sent |-> n])'
      BY <2>1, <2>9, <2>10 DEF EntriesInv
    <2> QED
      BY <2>1, <2>7, <2>8, <2>11 DEF EntriesInv
  <1>11. CASE HashBatch
    <2> DEFINE hashed == hash(recorder, hashes_per_batch)
    <2>1. hashed \in PohRecorder /\ hashed.current_hash \in Seq(Nat)
          /\ Extends(hashed.current_hash, recorder.current_hash)
      BY <1>1, HashLemma, HashExtends, PohAssumption DEF PohRecorder
    <2>2. recorder' = IF should_tick(hashed) THEN tick(hashed) ELSE hashed
      BY <1>11 DEF HashBatch
    <2> HIDE DEF hashed
    <2>3. Extends(recorder'.current_hash, recorder.current_hash)
      <3>1. recorder'.current_hash \in Seq(Nat)
        BY <1>2 DEF PohRecorder
      <3>2. Extends(recorder'.current_hash, hashed.current_hash)
        BY <2>1, <2>2, TickExtends, ExtendsItself
      <3> QED
        BY <3>1, <3>2, <1>1, <2>1, ExtendsTwice
    <2> QED
      BY <1>11, <1>2, <2>3, ChainGrows DEF HashBatch
  <1>12. CASE Disconnected
    BY <1>12, <1>2, <1>3, ChainGrows DEF Disconnected, EntriesInv
  <1>13. CASE UNCHANGED vars
    BY <1>13, <1>2, <1>3, ChainGrows DEF vars, EntriesInv
  <1> QED
    BY <1>6, <1>7, <1>8, <1>9, <1>10, <1>11, <1>12, <1>13 DEF Next, ThreadStep

\* Inv and EntriesInv together are inductive: Record needs HeightAhead, for a record
\* that met MaxHeightReached would be lost.
THEOREM EntriesInvHolds == Spec => [](Inv /\ EntriesInv)
  <1>1. Init => Inv /\ EntriesInv
    BY InitInv, EntriesInit
  <1>2. Inv /\ EntriesInv /\ [Next]_vars => (Inv /\ EntriesInv)'
    BY NextInv, EntriesNext
  <1> QED
    BY <1>1, <1>2, PTL DEF Spec

\* Every entry that record returned can be found again in the chain of every later
\* moment, whatever was hashed, ticked and recorded since.
THEOREM EntriesInChain == Spec => []EntriesVerify
  <1>1. Inv /\ EntriesInv => EntriesVerify
    BY EntriesInvSuffices
  <1> QED
    BY <1>1, EntriesInvHolds, PTL

\* Records are mixed in in the order they were sent, each once, and the thread ends
\* with records unread only if it was told to exit: for any number of records.
THEOREM NoRecordLost == Spec => []NothingLost
  <1>1. Inv /\ EntriesInv => NothingLost
    BY EntriesInvSuffices
  <1> QED
    BY <1>1, EntriesInvHolds, PTL
=============================================================================
