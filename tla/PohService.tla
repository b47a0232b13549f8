----------------------------- MODULE PohService -----------------------------
(***************************************************************************)
(* Proof of history (src/src/poh.rs): the thread of PohService, which owns *)
(* a PohRecorder, and the channel of PohRecords that the banking stage's   *)
(* TransactionRecorder feeds.                                              *)
(*                                                                         *)
(* A hash is the sequence of what was hashed into it: Sha256 is taken to   *)
(* have no collisions.  Pacing (Instant, sleep) only delays the loop and   *)
(* is left out.                                                            *)
(***************************************************************************)
EXTENDS Naturals, Sequences, SequencesExt

CONSTANTS hashes_per_tick,
          ticks_per_slot,
          hashes_per_batch,   \* hashes of one idle turn of the loop, 128 in the code
          MaxRecords,         \* bound: records sent
          MaxTicks            \* bound: ticks made

\* PohService::new divides by the first, tick takes a remainder by the second.
ASSUME PohAssumption ==
    /\ hashes_per_tick \in Nat \ {0}
    /\ ticks_per_slot \in Nat \ {0}
    /\ hashes_per_batch \in Nat \ {0}

VARIABLES recorder,    \* poh_recorder: a PohRecorder
          entries,     \* history: the PoHEntry of every record that was mixed in
          queue,       \* poh_record_receiver
          sent,        \* history: how many records were sent; record n is n
          connected,   \* a Sender is alive
          exit,
          pc           \* "head": at the loop's test; "recv": past it; "done"

vars == <<recorder, entries, queue, sent, connected, exit, pc>>

-----------------------------------------------------------------------------
\* PohRecorder.

NewRecorder == [current_hash |-> <<>>, num_hashes |-> 0, hashes_since_last_tick |-> 0,
                tick_count |-> 0, slot |-> 0, max_tick_height |-> ticks_per_slot]

PlainHash == 0    \* a link of the chain with no record in it

hash(r, n) ==
    [r EXCEPT !.current_hash = @ \o [i \in 1..n |-> PlainHash],
              !.num_hashes = @ + n,
              !.hashes_since_last_tick = @ + n]

\* Mutant of tick: the hashes already made count for the next tick too.
tick_NoReset(r) ==
    LET ticks == r.tick_count + 1
        next  == IF ticks % ticks_per_slot = 0 THEN r.slot + 1 ELSE r.slot
    IN  [r EXCEPT !.tick_count = ticks, !.slot = next,
                  !.max_tick_height = (next + 1) * ticks_per_slot]

\* Mutant of tick: max_tick_height is not moved to the next slot.
tick_OldHeight(r) ==
    LET ticks == r.tick_count + 1
    IN  [r EXCEPT !.hashes_since_last_tick = 0, !.tick_count = ticks,
                  !.slot = IF ticks % ticks_per_slot = 0 THEN @ + 1 ELSE @]

\* The missing hashes are made, those in excess forgotten.
tick(r) ==
    LET since == r.hashes_since_last_tick
        full  == hash(r, IF hashes_per_tick > since THEN hashes_per_tick - since ELSE 0)
        ticks == r.tick_count + 1
        begun == [full EXCEPT !.hashes_since_last_tick = 0, !.tick_count = ticks]
    IN  IF ticks % ticks_per_slot = 0
        THEN [begun EXCEPT !.slot = r.slot + 1,
                           !.max_tick_height = (r.slot + 2) * ticks_per_slot]
        ELSE begun

should_tick(r) == r.hashes_since_last_tick >= hashes_per_tick

MaxHeightReached(r) == r.tick_count >= r.max_tick_height

\* Mutant of record: the entry's place in the chain is not counted.
record_NoCount(r, transactions_hash) ==
    [r EXCEPT !.current_hash = Append(@, transactions_hash),
              !.hashes_since_last_tick = @ + 1]

\* record, when it does not return MaxHeightReached.
record(r, transactions_hash) ==
    [r EXCEPT !.current_hash = Append(@, transactions_hash),
              !.num_hashes = @ + 1,
              !.hashes_since_last_tick = @ + 1]

-----------------------------------------------------------------------------
Init ==
    /\ recorder = NewRecorder
    /\ entries = <<>> /\ queue = <<>> /\ sent = 0
    /\ connected = TRUE /\ exit = FALSE
    /\ pc = "head"

\* record_transactions: send fails once the receiver is gone.
Send ==
    /\ connected /\ pc # "done" /\ sent < MaxRecords
    /\ sent' = sent + 1
    /\ queue' = Append(queue, sent + 1)
    /\ UNCHANGED <<recorder, entries, connected, exit, pc>>

\* The banking loop ends and drops its BankingStage.
Disconnect ==
    /\ connected
    /\ connected' = FALSE
    /\ UNCHANGED <<recorder, entries, queue, sent, exit, pc>>

Exit ==
    /\ ~exit
    /\ exit' = TRUE
    /\ UNCHANGED <<recorder, entries, queue, sent, connected, pc>>

\* while !exit.load(..): leaving the loop drops the receiver.
LoopHead ==
    /\ pc = "head"
    /\ pc' = IF exit THEN "done" ELSE "recv"
    /\ UNCHANGED <<recorder, entries, queue, sent, connected, exit>>

\* try_recv returns a record.  MaxHeightReached would be logged and the record lost.
Record ==
    /\ pc = "recv" /\ queue # <<>>
    /\ queue' = Tail(queue)
    /\ IF MaxHeightReached(recorder) THEN UNCHANGED <<recorder, entries>>
       ELSE /\ recorder' = record(recorder, Head(queue))
            /\ entries' = Append(entries, [hash |-> recorder'.current_hash,
                                           num_hashes |-> recorder'.num_hashes,
                                           transactions_hash |-> Head(queue)])
    /\ pc' = "head"
    /\ UNCHANGED <<sent, connected, exit>>

\* try_recv returns Empty: a batch of hashes, then a tick if it is due.
HashBatch ==
    /\ pc = "recv" /\ queue = <<>> /\ connected
    /\ recorder.tick_count < MaxTicks
    /\ LET hashed == hash(recorder, hashes_per_batch)
       IN  recorder' = IF should_tick(hashed) THEN tick(hashed) ELSE hashed
    /\ pc' = "head"
    /\ UNCHANGED <<entries, queue, sent, connected, exit>>

\* Mutant of Disconnected: the loop leaves although records are waiting.
Disconnected_AtOnce ==
    /\ pc = "recv" /\ ~connected
    /\ pc' = "done"
    /\ UNCHANGED <<recorder, entries, queue, sent, connected, exit>>

\* try_recv returns Disconnected: no sender and nothing left.
Disconnected ==
    /\ pc = "recv" /\ queue = <<>> /\ ~connected
    /\ pc' = "done"
    /\ UNCHANGED <<recorder, entries, queue, sent, connected, exit>>

ThreadStep == LoopHead \/ Record \/ HashBatch \/ Disconnected
Next == Send \/ Disconnect \/ Exit \/ ThreadStep

Spec == Init /\ [][Next]_vars

\* The thread runs.
FairSpec == Spec /\ WF_vars(ThreadStep)

-----------------------------------------------------------------------------
PohRecorder == [current_hash: Seq(Nat), num_hashes: Nat, hashes_since_last_tick: Nat,
                tick_count: Nat, slot: Nat, max_tick_height: Nat]

\* Types; num_hashes is the length of the chain.
TypeOK ==
    /\ recorder \in PohRecorder
    /\ recorder.num_hashes = Len(recorder.current_hash)
    /\ queue \in Seq(Nat) /\ sent \in Nat
    /\ connected \in BOOLEAN /\ exit \in BOOLEAN
    /\ pc \in {"head", "recv", "done"}

\* max_tick_height is the last tick of the slot that is running, so that record
\* never meets MaxHeightReached, at a slot's last tick and across its boundary too.
HeightAhead ==
    /\ recorder.tick_count < recorder.max_tick_height
    /\ recorder.max_tick_height <= recorder.tick_count + ticks_per_slot
    /\ recorder.max_tick_height = (recorder.slot + 1) * ticks_per_slot

\* A tick stands for at least hashes_per_tick hashes of its own, whatever records
\* were mixed in between.
TicksArePaidFor ==
    recorder.num_hashes >= recorder.tick_count * hashes_per_tick
                             + recorder.hashes_since_last_tick

\* Every entry that record returned can be found again in the chain: its hash is
\* where its num_hashes says, and ends with its transactions.
EntriesVerify ==
    \A i \in DOMAIN entries :
        /\ IsPrefix(entries[i].hash, recorder.current_hash)
        /\ Len(entries[i].hash) = entries[i].num_hashes
        /\ recorder.current_hash[entries[i].num_hashes] = entries[i].transactions_hash

\* Records are mixed in in the order they were sent, each once, and none is lost
\* unless the node is told to exit: also when the senders go away first.
NothingLost ==
    LET mixed == [i \in DOMAIN entries |-> entries[i].transactions_hash]
    IN  /\ mixed \o queue = [n \in 1..sent |-> n]
        /\ pc = "done" /\ ~exit => queue = <<>>

\* Under a running thread every record that was sent is mixed in, or the node exits.
EventuallyMixed ==
    \A n \in 1..MaxRecords :
        (sent >= n) ~> (exit \/ \E i \in DOMAIN entries : entries[i].transactions_hash = n)
=============================================================================
