----------------------------- MODULE MCAckPath -----------------------------
(* Clients whose bounds bring out one hard case each. *)
EXTENDS AckPath

\* The ack store is on and the consumer may be created anew between connections, with
\* copies of the old one still in the application's hands.
CreatedAnew ==
  [dedup |-> TRUE, cap |-> 2, chan |-> 1, queue |-> 1, ttl |-> 0, conns |-> 2, gens |-> 1,
   trims |-> 0, ticks |-> 1, seqs |-> 1, wire |-> 1, hands |-> 2, sweeps |-> TRUE]

\* The same consumer over both connections, with replies and copies under way together,
\* and retention.
KeptOn == [CreatedAnew EXCEPT !.gens = 0, !.wire = 2, !.hands = 1, !.trims = 1]

\* Two messages, recorded in either order, and sent again while the application holds them.
Unordered ==
  [dedup |-> TRUE, cap |-> 2, chan |-> 1, queue |-> 1, ttl |-> 0, conns |-> 1, gens |-> 0,
   trims |-> 0, ticks |-> 1, seqs |-> 2, wire |-> 1, hands |-> 2, sweeps |-> FALSE]

\* Two messages deferred at different times, and a TTL.
Expiring ==
  [dedup |-> FALSE, cap |-> 2, chan |-> 1, queue |-> 1, ttl |-> 1, conns |-> 1, gens |-> 0,
   trims |-> 0, ticks |-> 3, seqs |-> 2, wire |-> 1, hands |-> 1, sweeps |-> TRUE]

\* The TTL over two connections.
ExpiringTwice == [Expiring EXCEPT !.chan = 2, !.conns = 2, !.seqs = 1]

\* Two messages in one frame, over two connections, without the store and the TTL.
Unstored ==
  [Expiring EXCEPT !.chan = 2, !.ttl = 0, !.conns = 2, !.ticks = 1, !.sweeps = FALSE]

MCSound == {CreatedAnew, KeptOn, Unordered, Expiring, ExpiringTwice, Unstored}
=============================================================================
