---------------------------- MODULE AckStoreWAL ----------------------------
(***************************************************************************)
(* The persistent backend of the dedup store (internal/ackstore: wal.go,   *)
(* replay.go, compact.go, format.go): the slots in memory, the append-only *)
(* log behind them, Sync with its automatic compaction and snapshot, the   *)
(* TTL sweep, and a crash followed by the replay that OpenWAL runs.        *)
(*                                                                         *)
(* The log is the sequence of framed records handed to the buffered        *)
(* writer, the first `flushed` of which are in the file.  A crash keeps    *)
(* those and any number of the others, up to a torn frame, which replay    *)
(* truncates.  A slot's change and its append happen under the slot's      *)
(* mutex, and Compact never looks at the slots, so the two are one step.   *)
(***************************************************************************)
EXTENDS AckLog

CONSTANTS
  Names,  \* (stream, consumer) pairs
  Setups  \* the stores to look at, with the bounds put on each

\* One store: Config (TTL in clock ticks, CompactAtBytes in records; 0 disables),
\* how it is used (two goroutines may resolve a name at once; the application
\* acknowledges in delivery order; confirmations and deletes come), whether the
\* file operations of a compaction may fail, and bounds on the numbers, the slot
\* ids, the log, the clock and the restarts.
SetupType ==
  [cap : Nat \ {0}, ttl : Nat, compactAt : Nat, snapshotEvery : Nat,
   concurrent : BOOLEAN, inOrder : BOOLEAN, confirms : BOOLEAN, diskFails : BOOLEAN,
   seqs : Nat, slots : Nat, log : Nat, ticks : Nat, crashes : Nat]

ASSUME WALAssumption == Setups \subseteq SetupType /\ {Unnamed, NoName} \cap Names = {}

VARIABLE setup  \* the store at hand; it never changes

MaxCap         == setup.cap
Ttl            == setup.ttl
CompactAt      == setup.compactAt
SnapshotEvery  == setup.snapshotEvery
ConcurrentSlot == setup.concurrent
InOrder        == setup.inOrder
MaxSeq         == setup.seqs
MaxSlots       == setup.slots
MaxLog         == setup.log
MaxTime        == setup.ticks
MaxCrashes     == setup.crashes

Seqs == 1..MaxSeq
Ids  == 0..(MaxSlots - 1)
None == MaxSlots  \* no slot

VARIABLES
  slots,         \* id -> slot in memory, handles of deleted slots included
  byName,        \* name -> id, or None
  nextID,
  unregistered,  \* ids Slot has published and not yet written to the log
  log,           \* the records appended since the log was last rewritten
  flushed,       \* how many of them are in the file
  sinceSnap,     \* recsSinceSnap
  dead,          \* the writer holds a file that is closed
  syncing,       \* what Sync does after its flush: "idle", "compact", "snapshot"
  now,           \* the clock
  crashes,       \* restarts so far
  recorded,      \* name -> every number ever recorded for it (history)
  synced         \* name -> what Sync found recorded and nothing has dropped
                 \* since, with the times (history)

memory  == <<slots, byName, nextID, unregistered>>
history == <<recorded, synced>>
vars == <<slots, byName, nextID, unregistered, log, flushed, sinceSnap, dead, syncing,
          now, crashes, recorded, synced, setup>>

Init ==
  /\ setup \in Setups
  /\ slots = <<>>
  /\ byName = [n \in Names |-> None]
  /\ nextID = 0
  /\ unregistered = {}
  /\ log = <<>> /\ flushed = 0 /\ sinceSnap = 0 /\ dead = FALSE /\ syncing = "idle"
  /\ now = 1 /\ crashes = 0
  /\ recorded = [n \in Names |-> {}]
  /\ synced = [n \in Names |-> <<>>]

-----------------------------------------------------------------------------
(* Scans.                                                                  *)

\* Records older than this are not resurrected; 0 for no TTL.
Cutoff == IF Ttl > 0 THEN now - Ttl ELSE 0

\* The slots a replay materializes have a name; one registered twice belongs to the
\* higher id.
NamedIn(scan)     == {i \in DOMAIN scan : scan[i].name # Unnamed}
OwnersIn(scan, n) == {i \in NamedIn(scan) : scan[i].name = n}
OwnerIn(scan, n)  == IF OwnersIn(scan, n) = {} THEN None ELSE GreatestOf(OwnersIn(scan, n))

\* The id after the highest one that replay has materialized.
Highest(S) ==  \* mutant: the highest id itself is handed out again
  IF S = {} THEN 0 ELSE GreatestOf(S)
NextIdAfter(S) == IF S = {} THEN 0 ELSE 1 + GreatestOf(S)

-----------------------------------------------------------------------------
(* The operations.                                                         *)

Loaded == DOMAIN slots

\* Who has a handle: whoever resolved the name, before or after a DeleteSlot.
\* Until Slot has returned no one has, unless two goroutines may resolve the
\* same name at once.
Usable(i) ==
  /\ \/ slots[i].tombed
     \/ slots[i].name \in Names /\ byName[slots[i].name] = i
  /\ ConcurrentSlot \/ i \notin unregistered

Write(recs) ==
  /\ Len(log) + Len(recs) <= MaxLog
  /\ log' = log \o recs

\* What the slot no longer holds is no longer promised.
Forget(n, S) == synced' = [synced EXCEPT ![n] = Without(@, S)]

\* Slot publishes the new slot under the symbol lock ...
SlotPublish(n) ==
  /\ byName[n] = None
  /\ nextID < MaxSlots
  /\ byName' = [byName EXCEPT ![n] = nextID]
  /\ slots' = With(slots, nextID, EmptySlot(n))
  /\ unregistered' = unregistered \cup {nextID}
  /\ nextID' = nextID + 1
  /\ UNCHANGED <<log, flushed, sinceSnap, dead, syncing, now, crashes, history>>

\* ... and writes its Register record after it released the lock.
SlotRegister(i) ==
  /\ i \in unregistered
  /\ Write(<<RegisterRec(i, slots[i].name)>>)
  /\ unregistered' = unregistered \ {i}
  /\ UNCHANGED <<slots, byName, nextID, flushed, sinceSnap, dead, syncing, now, crashes,
                 history>>

\* Record and CheckRecord of a number that is new.
Record(i, s) ==
  /\ Usable(i)
  /\ ~slots[i].tombed /\ s \notin Live(slots[i])
  /\ InOrder => s > slots[i].max
  /\ LET st == CheckRecord(slots[i], s, now, MaxCap)
         n  == slots[i].name
     IN /\ slots' = [slots EXCEPT ![i] = st]
        /\ recorded' = [recorded EXCEPT ![n] = @ \cup {s}]
        /\ Forget(n, Live(slots[i]) \ Live(st))
  /\ Write(<<RecordRec(i, s, now)>>)
  /\ sinceSnap' = IF SnapshotEvery = 0 THEN 0 ELSE sinceSnap + 1
  /\ UNCHANGED <<byName, nextID, unregistered, flushed, dead, syncing, now, crashes>>

\* Confirm and ConfirmUpTo write their record whether or not they find
\* anything, also through the handle of a deleted slot.
ConfirmOne(i, s) ==
  /\ setup.confirms /\ Usable(i)
  /\ slots' = [slots EXCEPT ![i] = Confirm(@, s)]
  /\ Write(<<ConfirmRec(i, s)>>)
  /\ IF slots[i].tombed THEN UNCHANGED synced ELSE Forget(slots[i].name, {s})
  /\ UNCHANGED <<byName, nextID, unregistered, flushed, sinceSnap, dead, syncing, now,
                 crashes, recorded>>

ConfirmCursor(i, s) ==
  /\ setup.confirms /\ Usable(i)
  /\ slots' = [slots EXCEPT ![i] = ConfirmUpTo(@, s)]
  /\ Write(<<UpToRec(i, s)>>)
  /\ IF slots[i].tombed THEN UNCHANGED synced ELSE Forget(slots[i].name, 1..s)
  /\ UNCHANGED <<byName, nextID, unregistered, flushed, sinceSnap, dead, syncing, now,
                 crashes, recorded>>

DeleteSlot(n) ==
  /\ setup.confirms /\ byName[n] # None
  /\ Usable(byName[n])
  /\ byName' = [byName EXCEPT ![n] = None]
  /\ slots' = [slots EXCEPT ![byName[n]] = Delete(@)]
  /\ Write(<<TombstoneRec(byName[n])>>)
  /\ Forget(n, Seqs)
  /\ UNCHANGED <<nextID, unregistered, flushed, sinceSnap, dead, syncing, now, crashes,
                 recorded>>

\* The loops over a Go map take its keys in any order.
Orders(S) == Bijection(1..Cardinality(S), S)

\* One slot of a TTL sweep.
SweepSlot(i) ==
  LET gone == Expired(slots[i], Cutoff)
  IN /\ Ttl > 0
     /\ \E n \in Names : byName[n] = i
     /\ gone # {}
     /\ slots' = [slots EXCEPT ![i] = Drop(@, gone)]
     /\ \E q \in Orders(gone) : Write([j \in DOMAIN q |-> ConfirmRec(i, q[j])])
     /\ Forget(slots[i].name, gone)
     /\ UNCHANGED <<byName, nextID, unregistered, flushed, sinceSnap, dead, syncing, now,
                    crashes, recorded>>

Tick ==
  /\ now < MaxTime
  /\ now' = now + 1
  /\ UNCHANGED <<memory, log, flushed, sinceSnap, dead, syncing, crashes, history>>

\* The buffer's 64 KiB fill up and the writer flushes by itself.
BufferSpills ==
  /\ ~dead /\ flushed < Len(log)
  /\ flushed' = flushed + 1
  /\ UNCHANGED <<memory, log, sinceSnap, dead, syncing, now, crashes, history>>

\* Sync flushes under the writer lock, then decides on a rewrite.  On a closed file
\* it is an error, which changes nothing, unless there is nothing to flush.
IgnoreError == TRUE  \* mutant: an error of the flush goes unnoticed
Flushes == dead => flushed = Len(log)

Sync ==
  /\ syncing = "idle" /\ Flushes
  /\ flushed' = IF dead THEN flushed ELSE Len(log)
  /\ synced' = [n \in Names |->
                  IF byName[n] = None THEN <<>> ELSE slots[byName[n]].set]
  /\ syncing' = IF CompactAt > 0 /\ Len(log) >= CompactAt THEN "compact"
                ELSE IF SnapshotEvery > 0 /\ sinceSnap >= SnapshotEvery
                     THEN "snapshot" ELSE "idle"
  /\ UNCHANGED <<memory, log, sinceSnap, dead, now, crashes, recorded>>

\* Compact rewrites the log under the writer lock; the new file is synced
\* before it is renamed over the old one.
Compact ==
  /\ syncing = "compact" /\ ~dead
  /\ log' = Compacted(Scan(log, Cutoff), now)
  /\ flushed' = Len(log')
  /\ sinceSnap' = 0
  /\ syncing' = "idle"
  /\ UNCHANGED <<memory, dead, now, crashes, history>>

\* It fails before the swap, or reopens the old file after a rename that failed:
\* the log goes on as it was.  Or the reopen fails too: memory goes on, the writer
\* has a closed file, and the log is the old one or the compacted one.
CompactFails ==
  /\ syncing = "compact"
  /\ IF dead THEN UNCHANGED <<log, flushed, dead>>
     ELSE /\ setup.diskFails
          /\ dead' \in BOOLEAN
          /\ log' \in {log} \cup {q \in {Compacted(Scan(log, Cutoff), now)} : dead'}
          /\ flushed' = Len(log')
  /\ syncing' = "idle"
  /\ UNCHANGED <<memory, sinceSnap, now, crashes, history>>

\* Snapshot appends one record per slot with a live number.  The locks are
\* taken slot by slot, but a slot's record says nothing of the others.
Snapshot ==
  /\ syncing = "snapshot"
  /\ \E ids \in Orders({i \in Loaded : slots[i].set # <<>> /\ \E n \in Names : byName[n] = i}) :
       Write([j \in DOMAIN ids |-> SnapshotRec(ids[j], Live(slots[ids[j]]), now)])
  /\ sinceSnap' = 0
  /\ syncing' = "idle"
  /\ UNCHANGED <<memory, flushed, dead, now, crashes, history>>

\* The process dies, or closes the store, at any moment, and OpenWAL replays
\* what the file holds.
Restart ==
  /\ crashes < MaxCrashes
  /\ crashes' = crashes + 1
  /\ \E k \in flushed..(IF dead THEN flushed ELSE Len(log)) :
       LET kept == SubSeq(log, 1, k)
           scan == Scan(kept, Cutoff)
           ids  == NamedIn(scan)
       IN /\ log' = kept
          /\ flushed' = k
          /\ slots' = [i \in ids |-> Materialize(scan[i])]
          /\ byName' = [n \in Names |-> OwnerIn(scan, n)]
          /\ nextID' = NextIdAfter(ids)
  /\ unregistered' = {} /\ sinceSnap' = 0 /\ dead' = FALSE /\ syncing' = "idle"
  /\ UNCHANGED <<now, history>>

Next ==
  /\ \/ \E n \in Names : SlotPublish(n) \/ DeleteSlot(n)
     \/ \E i \in Ids : SlotRegister(i)
     \/ \E i \in Loaded, s \in Seqs : Record(i, s) \/ ConfirmOne(i, s) \/ ConfirmCursor(i, s)
     \/ \E i \in Loaded : SweepSlot(i)
     \/ Tick \/ BufferSpills \/ Sync \/ Compact \/ CompactFails \/ Snapshot \/ Restart
  /\ UNCHANGED setup

Spec == Init /\ [][Next]_vars

-----------------------------------------------------------------------------
(* Properties.                                                             *)

Registered(n) == byName[n] # None
SlotOf(n)     == slots[byName[n]]

TypeOK ==
  /\ Loaded \subseteq Ids
  /\ \A i \in Loaded : /\ slots[i].name \in Names \cup {NoName}
                       /\ Live(slots[i]) \subseteq Seqs
                       /\ slots[i].max \in 0..MaxSeq /\ slots[i].min \in 0..MaxSeq
  /\ byName \in [Names -> Ids \cup {None}]
  /\ \A n \in Names : Registered(n) =>
       /\ byName[n] \in Loaded
       /\ SlotOf(n).name = n /\ ~SlotOf(n).tombed
  /\ nextID \in 0..MaxSlots /\ \A i \in Loaded : i < nextID
  /\ unregistered \subseteq Loaded
  /\ flushed \in 0..Len(log)

\* "It is never wrong": what the store says was processed for a consumer was
\* recorded for that consumer at some time; a message its handler has never
\* seen is not suppressed.
SeenIsSound ==
  \A n \in Names : Registered(n) => Live(SlotOf(n)) \subseteq recorded[n]

\* "A record is durable once Sync returns": as long as nothing confirms,
\* expires, evicts or deletes it, the slot of that name holds it, restarts
\* included.
SyncedSurvives ==
  \A n \in Names, s \in Seqs :
    s \in DOMAIN synced[n] =>
      \/ Registered(n) /\ s \in Live(SlotOf(n))
      \/ TooOld(synced[n][s], Cutoff)

\* The log, scanned now, restores at least what the slots hold.
LogCoversMemory ==
  \A i \in Loaded : \A s \in Live(slots[i]) :
    \/ i \in IdsOf(log) /\ s \in DOMAIN Scan(log, Cutoff)[i].live
    \/ TooOld(slots[i].set[s], Cutoff)

\* "Fresh: definitely not seen": the lock-free gate never hides a live number,
\* for an application that acknowledges in delivery order.
FreshMeansUnseen ==
  InOrder => \A i \in Loaded, s \in Seqs : Fresh(slots[i], s) => s \notin Live(slots[i])
=============================================================================
