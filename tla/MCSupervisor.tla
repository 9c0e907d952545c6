---------------------------- MODULE MCSupervisor ----------------------------
(* One or two threads over two or three connections. *)
EXTENDS Supervisor

CONSTANTS p1, p2, s1, s2, c1, f1

\* Two publishers across a reconnect.
Publishing ==
  [threads |-> {p1, p2}, subs |-> {}, crons |-> {}, fires |-> {}, batches |-> {},
   timeouts |-> FALSE, mayDie |-> FALSE, mayClose |-> FALSE, conns |-> 2, copies |-> 0,
   chunks |-> 1]
\* A subscription and a cron across a reconnect.
Registering == [Publishing EXCEPT !.threads = {s1, c1}, !.subs = {s1}, !.crons = {c1}]
\* Two reconnects, the second perhaps during the replay of the first.
Flapping == [Publishing EXCEPT !.threads = {s1, p1}, !.subs = {s1}, !.conns = 3]
\* Waits run out, and a redelivered copy parks the reader at the gate.
Impatient ==
  [Publishing EXCEPT !.threads = {s1}, !.subs = {s1}, !.timeouts = TRUE, !.copies = 1]
ImpatientCron == [Impatient EXCEPT !.threads = {c1}, !.subs = {}, !.crons = {c1}]
\* Redialling may fail for good.
Dying == [Publishing EXCEPT !.threads = {s1, s2}, !.subs = {s1, s2}, !.mayDie = TRUE]
\* The application closes the client.
Closing == [Publishing EXCEPT !.threads = {s1}, !.subs = {s1}, !.mayClose = TRUE]
\* A batch over two reconnects.
Batching ==
  [Publishing EXCEPT !.threads = {p1}, !.batches = {p1}, !.conns = 3, !.chunks = 3]
\* A cron that fires, across a reconnect.
Firing == [Publishing EXCEPT !.threads = {c1, f1}, !.crons = {c1}, !.fires = {f1}]

MCSound ==
  {Publishing, Registering, Flapping, Impatient, ImpatientCron, Dying, Closing,
   Batching, Firing}
MCCrossing == {Publishing}
=============================================================================
