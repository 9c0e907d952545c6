---------------------------- MODULE DeferredAcks ----------------------------
(***************************************************************************)
(* The ack relay's state for one consumer (internal/ackrel/relay.go,       *)
(* consumerState) and what each Relay operation does to it.  All of them   *)
(* run under the consumer's mutex.                                         *)
(***************************************************************************)
EXTENDS Integers, Functions

\* since maps a deferred number to the time it was recorded (the code keeps the
\* numbers only); oldest is oldestTs, 0 for the zero time.
EmptyRelay == [gen |-> 0, since |-> <<>>, oldest |-> 0]

Deferred(r) == DOMAIN r.since

\* Record, for each of the acks a failed flush held.
RecordAll(r, S, t) ==
  [r EXCEPT !.since = [x \in DOMAIN @ \cup S |-> IF x \in DOMAIN @ THEN @[x] ELSE t],
            !.oldest = IF @ = 0 /\ S # {} THEN t ELSE @]

Purge(r, S) ==
  LET left == Deferred(r) \ S IN
  [r EXCEPT !.since = Restrict(@, left), !.oldest = IF left = {} THEN 0 ELSE @]

KeepTime(r, c) ==  \* mutant: oldestTs survives the last entry
  [r EXCEPT !.since = Restrict(@, {q \in DOMAIN @ : q > c})]
OneTooMany(r, c) ==  \* mutant: the number behind the cursor goes too
  Purge(r, {q \in Deferred(r) : q <= c + 1})
\* The cursor settles what is up to it; oldestTs stays until nothing is left.
ConfirmUpTo(r, c) == Purge(r, {q \in Deferred(r) : q <= c})

\* A generation that is not ours wipes the deferred numbers.
EnsureGeneration(r, g) ==
  IF r.gen = g THEN r ELSE [EmptyRelay EXCEPT !.gen = g]

\* ExpireOlderThan: the whole set goes when oldestTs is before the cutoff.
Expire(r, cutoff) ==
  IF r.oldest # 0 /\ r.oldest < cutoff THEN [EmptyRelay EXCEPT !.gen = r.gen] ELSE r
=============================================================================
