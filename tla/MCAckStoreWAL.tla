--------------------------- MODULE MCAckStoreWAL ---------------------------
(* Small stores.  The names are interchangeable: everything about a slot is *)
(* kept by id.                                                              *)
EXTENDS AckStoreWAL, TLC

\* Snapshots, eviction, deletes and two crashes on two names.
Crashing ==
  [cap |-> 2, ttl |-> 0, compactAt |-> 0, snapshotEvery |-> 2, concurrent |-> FALSE,
   confirms |-> TRUE, diskFails |-> FALSE,
   inOrder |-> FALSE, seqs |-> 2, slots |-> 2, log |-> 4, ticks |-> 1, crashes |-> 2]
\* TTL, sweeps and compaction over time, one slot.
Compacting ==
  [cap |-> 2, ttl |-> 1, compactAt |-> 3, snapshotEvery |-> 0, concurrent |-> FALSE,
   confirms |-> TRUE, diskFails |-> FALSE,
   inOrder |-> FALSE, seqs |-> 2, slots |-> 1, log |-> 4, ticks |-> 3, crashes |-> 0]
\* Acknowledgements in delivery order, over a restart.
InOrderOnly ==
  [cap |-> 2, ttl |-> 0, compactAt |-> 0, snapshotEvery |-> 0, concurrent |-> FALSE,
   confirms |-> TRUE, diskFails |-> FALSE,
   inOrder |-> TRUE, seqs |-> 3, slots |-> 1, log |-> 5, ticks |-> 1, crashes |-> 1]
\* Compactions that fail, with a crash; the slot is never empty when they run.
Failing ==
  [cap |-> 2, ttl |-> 0, compactAt |-> 2, snapshotEvery |-> 0, concurrent |-> FALSE,
   confirms |-> FALSE, diskFails |-> TRUE,
   inOrder |-> FALSE, seqs |-> 3, slots |-> 1, log |-> 6, ticks |-> 1, crashes |-> 2]
\* Compaction of a slot that is in use, and what a restart makes of it.
CompactAndCrash ==
  [cap |-> 2, ttl |-> 0, compactAt |-> 1, snapshotEvery |-> 0, concurrent |-> FALSE,
   confirms |-> TRUE, diskFails |-> FALSE,
   inOrder |-> FALSE, seqs |-> 1, slots |-> 2, log |-> 4, ticks |-> 1, crashes |-> 2]

MCSound  == {Crashing, Compacting, InOrderOnly, Failing}
MCReused == {CompactAndCrash}

NameSymmetry == Permutations(Names)
=============================================================================
