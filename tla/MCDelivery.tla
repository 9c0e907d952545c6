----------------------------- MODULE MCDelivery -----------------------------
(* Two or three subscriptions of one consumer. *)
EXTENDS Delivery, TLC

CONSTANTS s1, s2, s3

\* Every filter accepts everything; all but the first accept only the last message.
WantAll(n)  == [s \in AllSubs |-> 1..n]
WantLast(n) == [s \in AllSubs |-> IF s = s1 THEN 1..n ELSE {n}]

\* Two members of a queue with the ack store on.
Queue ==
  [subs |-> {s1, s2}, wanted |-> WantAll(3), fanout |-> FALSE, dedup |-> TRUE,
   inOrder |-> TRUE, mayRefuse |-> FALSE, mayFail |-> FALSE, mayClose |-> FALSE,
   batch |-> FALSE, seqs |-> 3, copies |-> 4, cursors |-> 1]
\* Fanout siblings that come, fail and go, without the ack store.
Siblings ==
  [subs |-> {s1, s2, s3}, wanted |-> WantLast(2), fanout |-> TRUE, dedup |-> FALSE,
   inOrder |-> FALSE, mayRefuse |-> FALSE, mayFail |-> TRUE, mayClose |-> TRUE,
   batch |-> FALSE, seqs |-> 2, copies |-> 2, cursors |-> 0]
\* The same opened by one SubscribeBatch, some of it refused.
Batched == [Siblings EXCEPT !.mayRefuse = TRUE, !.batch = TRUE]
\* Two fanout siblings behind one slot of the ack store.
SharedSlot ==
  [subs |-> {s1, s2}, wanted |-> WantAll(1), fanout |-> TRUE, dedup |-> TRUE,
   inOrder |-> TRUE, mayRefuse |-> FALSE, mayFail |-> FALSE, mayClose |-> FALSE,
   batch |-> FALSE, seqs |-> 1, copies |-> 3, cursors |-> 1]

MCSound  == {Queue, Siblings, Batched}
MCShared == {SharedSlot}
=============================================================================
