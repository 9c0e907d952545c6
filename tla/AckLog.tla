------------------------------- MODULE AckLog -------------------------------
(***************************************************************************)
(* The log of the persistent dedup store (internal/ackstore: format.go,    *)
(* replay.go, compact.go): its records, what a scan makes of them, the     *)
(* slots a replay materializes and the log a compaction writes.            *)
(***************************************************************************)
EXTENDS AckSlot

RegisterRec(i, n)   == [op |-> "register", id |-> i, name |-> n]
RecordRec(i, s, t)  == [op |-> "record", id |-> i, seq |-> s, ts |-> t]
UpToRec(i, s)       == [op |-> "upto", id |-> i, seq |-> s]
ConfirmRec(i, s)    == [op |-> "confirm", id |-> i, seq |-> s]
TombstoneRec(i)     == [op |-> "tombstone", id |-> i]
SnapshotRec(i, S, t) == [op |-> "snapshot", id |-> i, seqs |-> S, ts |-> t]

-----------------------------------------------------------------------------
(* The scan of a log, for a TTL that cuts off at c (0 for no TTL).         *)

TooOld(t, c) == t < c

\* What a scan has accumulated for one id; a slot without a name has seen no
\* Register record.
Unnamed == "unnamed"
Blank   == [name |-> Unnamed, live |-> <<>>]
NoName  == ""  \* the zero name a compaction gives to such a slot

KeepTombed(slot, r) ==  \* mutant: the name is forgotten, the numbers are not
  [slot EXCEPT !.name = Unnamed]
WipeSlot(slot, r) == Blank

ResetTo(slot, r, c) ==
  [slot EXCEPT !.live = IF TooOld(r.ts, c) THEN <<>> ELSE [s \in r.seqs |-> r.ts]]

DropUpTo(slot, r) ==
  [slot EXCEPT !.live = Without(@, {s \in DOMAIN @ : s <= r.seq})]

\* applyReplayRecord, and the same switch in scanLiveState.
Apply(slot, r, c) ==
  CASE r.op = "register"  -> [slot EXCEPT !.name = r.name]
    [] r.op = "record"    -> IF TooOld(r.ts, c) THEN slot
                             ELSE [slot EXCEPT !.live = With(@, r.seq, r.ts)]
    [] r.op = "confirm"   -> [slot EXCEPT !.live = Without(@, {r.seq})]
    [] r.op = "upto"      -> DropUpTo(slot, r)
    [] r.op = "tombstone" -> WipeSlot(slot, r)
    [] r.op = "snapshot"  -> ResetTo(slot, r, c)

\* The accumulator of one id after each record of a log.
Accumulated(q, i, c) ==
  LET acc[k \in 0..Len(q)] ==
        IF k = 0 THEN Blank
        ELSE IF q[k].id = i THEN Apply(acc[k - 1], q[k], c) ELSE acc[k - 1]
  IN acc

\* The scan: an accumulator for every id that has a record.
IdsOf(q)   == {q[j].id : j \in 1..Len(q)}
Scan(q, c) == [i \in IdsOf(q) |-> Accumulated(q, i, c)[Len(q)]]

-----------------------------------------------------------------------------
(* What becomes of a scan.                                                 *)

GreatestOf(S) == CHOOSE x \in S : \A y \in S : y <= x

\* replay materializes an accumulator as a slot, its numbers in order.
Materialize(acc) ==
  LET q == Ascending(DOMAIN acc.live)
  IN [name |-> acc.name, set |-> acc.live, fifo |-> q, tombed |-> FALSE,
      min |-> IF q = <<>> THEN 0 ELSE Head(q),
      max |-> IF q = <<>> THEN 0 ELSE q[Len(q)]]

\* writeCompacted, at time t: Register and Snapshot of every id with a live number.
Compacted(scan, t) ==
  LET ids == Ascending({i \in DOMAIN scan : scan[i].live # <<>>})
      Regd(i) == RegisterRec(i, IF scan[i].name = Unnamed THEN NoName ELSE scan[i].name)
      Snap(i) == SnapshotRec(i, DOMAIN scan[i].live, t)
  IN [k \in 1..(2 * Len(ids)) |->
        IF k % 2 = 1 THEN Regd(ids[(k + 1) \div 2]) ELSE Snap(ids[k \div 2])]
=============================================================================
