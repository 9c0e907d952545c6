---------------------------- MODULE MCConnection ----------------------------
(* Connection on small instances.                                           *)
EXTENDS Connection

CONSTANTS c1, c2

\* Two callers against Close, without a watchdog.
Contended ==
  [callers |-> {c1, c2}, handlers |-> {}, keepAlive |-> FALSE, closable |-> TRUE,
   deliveries |-> 1]
\* A consumer that makes a request inside its handler, under the watchdog.
Watched ==
  [callers |-> {c1}, handlers |-> {c1}, keepAlive |-> TRUE, closable |-> FALSE,
   deliveries |-> 2]

MCSetups == {Contended, Watched}
=============================================================================
