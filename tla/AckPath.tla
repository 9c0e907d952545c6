------------------------------ MODULE AckPath ------------------------------
(***************************************************************************)
(* The way of an ack to the broker, over connections that die: Msg.Ack and *)
(* the reader's own acks of redeliveries, the AckBatcher of the connection *)
(* (internal/conn/ackbatcher.go), the slot of the ack store they are kept  *)
(* in (the memory backend's), the write queue, the relay that defers       *)
(* what the queue refuses (internal/ackrel/relay.go) with its sweep and    *)
(* TTL, the two ack-state handlers of the reader (conn/connection.go) and  *)
(* the supervisor's replay after a reconnect (arbitro.go).                 *)
(*                                                                         *)
(* One consumer with one subscription.  The broker is external: it sends a *)
(* copy again while no ack has come, releases what an Ack frame names, and *)
(* what an AckBatch names if its generation is the consumer's, which is a  *)
(* new one each time the consumer is created.                              *)
(***************************************************************************)
EXTENDS DeferredAcks, FiniteSets, Sequences, SequencesExt

Store == INSTANCE AckSlot

CONSTANTS
  MaxSeq,      \* bound: messages are 1..MaxSeq
  AckBatchMax, \* ackBatchMax
  Setups       \* the clients to look at, with the bounds put on each

\* One client: whether the ack store is on; the capacities of its slots, of
\* AckBatcher.ch and of the write queue; the relay's TTL in clock ticks (0
\* disables); bounds on the messages, the frames under way in one direction, the
\* copies of a message in the application's hands, connections, consumer
\* generations, retention and clock, and whether the relay's ticker is ever due.
ASSUME AckPathAssumption ==
  /\ MaxSeq \in Nat /\ AckBatchMax \in Nat \ {0}
  /\ \A u \in Setups :
       /\ {u.dedup, u.sweeps} \subseteq BOOLEAN
       /\ {u.cap, u.chan, u.queue, u.conns, u.ticks} \subseteq Nat \ {0}
       /\ {u.ttl, u.seqs, u.wire, u.hands, u.gens, u.trims} \subseteq Nat

VARIABLES
  setup,    \* the client at hand; it never changes
  conn,     \* how many connections there have been; connPtr is the last
  link,     \* its socket: "up", "broken", and "closed" once the client has noticed
  replay,   \* doReconnect: "subs", "acks", "done"
  ch,       \* AckBatcher.ch, <<>> for good once the batcher has ended
  batching, \* the batcher goroutine runs
  queue,    \* writeCh
  net,      \* frames on their way to the broker
  inbox,    \* frames on their way to the reader
  relay,    \* the relay's state of the consumer
  sweep,    \* the numbers the sweep has read, {} outside a sweep
  now,      \* the clock
  slot,     \* the consumer's slot of the ack store
  held,     \* copies the application has taken and not acknowledged
  acked,    \* numbers it has acknowledged
  unrecorded, \* of these, the ones Msg.Ack has still to record in the slot
  done,     \* numbers of the consumer at hand the slot took in order (history)
  broker    \* the consumer at the broker

app  == <<slot, held, acked, unrecorded, done>>
wire == <<queue, net, inbox>>
vars == <<setup, conn, link, replay, ch, batching, queue, net, inbox, relay, sweep,
          now, slot, held, acked, unrecorded, done, broker>>

Dedup   == setup.dedup
SlotCap == setup.cap
Processed == Store!Live(slot)
Seqs    == 1..MaxSeq
AckChanCap == setup.chan
WireCap == setup.wire
MaxConn == setup.conns

\* exists and gen name the consumer; bound: this connection is subscribed;
\* pending waits for an ack; next is the next message; low the retention floor;
\* settled collects what was released, and what retention has removed (history).
NewConsumer(g) ==
  [exists |-> TRUE, gen |-> g, bound |-> TRUE, pending |-> {}, next |-> 1, low |-> 1,
   settled |-> {}]

StateReq(g) == [kind |-> "req", gen |-> g, seqs |-> {}]
ShortFrame(S) ==  \* mutant: the count of the frame is one short
  [kind |-> "ack", gen |-> 0, seqs |-> {q \in S : \E p \in S : q < p}]
AckFrame(S) == [kind |-> "ack", gen |-> 0, seqs |-> S]
AckBatchFrame(g, S) == [kind |-> "batch", gen |-> g, seqs |-> S]

\* The client has just subscribed; with a slot it has asked for the cursor.  Its
\* relay is new, the consumer may be old.
Init ==
  /\ setup \in Setups
  /\ conn = 1 /\ link = "up" /\ replay = "done"
  /\ ch = <<>> /\ batching = TRUE
  /\ queue = IF Dedup THEN <<StateReq(0)>> ELSE <<>>
  /\ net = <<>> /\ inbox = <<>>
  /\ relay = EmptyRelay /\ sweep = {} /\ now = 1
  /\ slot = Store!EmptySlot("consumer")
  /\ held = [q \in Seqs |-> 0] /\ acked = {} /\ unrecorded = {} /\ done = {}
  /\ \E g \in 0..setup.gens : broker = NewConsumer(g)

-----------------------------------------------------------------------------
(* The application and the batcher.                                        *)

AcceptsPast == link # "closed" /\ Len(queue) <= setup.queue  \* mutant: one frame too many
\* TrySend never blocks: no room, or a connection known to be closed.
Accepts == link # "closed" /\ Len(queue) < setup.queue

TrySend(f) == queue' = IF Accepts THEN Append(queue, f) ELSE queue

\* AckBatcher.Ack waits for room in ch or for the connection's end; when both
\* are there it takes either, and nobody reads ch after the batcher has ended.
BatcherAck(q) ==
  \/ batching /\ Len(ch) < AckChanCap /\ ch' = Append(ch, q)
  \/ link = "closed" /\ UNCHANGED ch

\* Msg.Ack hands the ack to the batcher ...
Ack(q) ==
  /\ held[q] > 0
  /\ BatcherAck(q)
  /\ held' = [held EXCEPT ![q] = @ - 1]
  /\ acked' = acked \cup {q}
  /\ unrecorded' = IF Dedup THEN unrecorded \cup {q} ELSE unrecorded
  /\ UNCHANGED <<setup, conn, link, replay, batching, wire, relay, sweep, now, slot, done,
                 broker>>

\* No later message has been recorded: the order the gate's low bound relies on.
InOrder(q) == slot.max <= q
\* What the slot's capacity pushes out when q comes in, q itself where an older
\* entry of it does.
PushedOut(q) == (Processed \cup {q}) \ Processed'

\* ... and then records the number.
AckRecord(q) ==
  /\ q \in unrecorded
  /\ unrecorded' = unrecorded \ {q}
  /\ slot' = Store!CheckRecord(slot, q, 0, SlotCap)
  /\ done' = (IF q < broker.next /\ InOrder(q) THEN done \cup {q} ELSE done) \ PushedOut(q)
  /\ UNCHANGED <<setup, conn, link, replay, ch, batching, wire, relay, sweep, now, held,
                 acked, broker>>

\* run: drain ch, at most ackBatchMax per frame, and flush.
Flush ==
  /\ batching /\ ch # <<>>
  /\ LET n == IF Len(ch) < AckBatchMax THEN Len(ch) ELSE AckBatchMax
         S == {ch[i] : i \in 1..n}
     IN /\ ch' = SubSeq(ch, n + 1, Len(ch))
        /\ TrySend(AckFrame(S))
        /\ relay' = IF Accepts THEN relay ELSE RecordAll(relay, S, now)
  /\ UNCHANGED <<setup, conn, link, replay, batching, net, inbox, sweep, now, app, broker>>

\* The connection's end ends the batcher, whatever is left in ch.
BatcherEnds ==
  /\ batching /\ link = "closed"
  /\ batching' = FALSE
  /\ ch' = <<>>
  /\ UNCHANGED <<setup, conn, link, replay, wire, relay, sweep, now, app, broker>>

\* writeLoop.
WriterSend ==
  /\ link = "up" /\ queue # <<>> /\ Len(net) < WireCap
  /\ net' = Append(net, Head(queue))
  /\ queue' = Tail(queue)
  /\ UNCHANGED <<setup, conn, link, replay, ch, batching, inbox, relay, sweep, now, app,
                 broker>>

-----------------------------------------------------------------------------
(* The relay's goroutine.                                                  *)

\* sweepOnce reads the numbers, and then, the lock released in between, the
\* generation they are sent under.
SweepRead ==
  /\ setup.sweeps /\ sweep = {} /\ Deferred(relay) # {}
  /\ sweep' = Deferred(relay)
  /\ UNCHANGED <<setup, conn, link, replay, ch, batching, wire, relay, now, app, broker>>

\* sendAckBatch, over the connection of the moment, and the TTL.
SweepSend ==
  /\ sweep # {}
  /\ TrySend(AckBatchFrame(relay.gen, sweep))
  /\ sweep' = {}
  /\ relay' = IF setup.ttl > 0 THEN Expire(relay, now - setup.ttl) ELSE relay
  /\ UNCHANGED <<setup, conn, link, replay, ch, batching, net, inbox, now, app, broker>>

Tick ==
  /\ now < setup.ticks
  /\ now' = now + 1
  /\ UNCHANGED <<setup, conn, link, replay, ch, batching, wire, relay, sweep, app, broker>>

-----------------------------------------------------------------------------
(* The reader.                                                             *)

UpTo(c) == {q \in Seqs : q <= c}

BelowMax(q) == q <= slot.max  \* mutant: only the gate is asked
\* The reader asks the slot behind its gate.
Recorded(q) == Store!Seen(slot, q)

\* A redelivered copy of what the slot holds is acked at once.
TakeCopy(f) ==
  /\ \/ Recorded(f.q) /\ BatcherAck(f.q) /\ UNCHANGED held
     \/ ~Recorded(f.q) /\ held' = [held EXCEPT ![f.q] = @ + 1] /\ UNCHANGED ch
  /\ UNCHANGED <<queue, relay, slot>>

\* confirmAckStoreUpTo.
Confirmed(st, c) == Store!MemConfirmUpTo(st, c)

PastCursor(f) == f.cursor + 1  \* mutant: the number behind the cursor goes too
\* How far onAckConfirm may go: the cursor counts when the broker knows the
\* consumer.
Vouched(f) == IF f.known THEN f.cursor ELSE 0

\* handleAckStateRep.
TakeStateRep(f) ==
  /\ LET settled == Purge(relay, UpTo(f.cursor) \cup UpTo(f.low - 1))
     IN IF f.gen # relay.gen
        THEN /\ relay' = EnsureGeneration(relay, f.gen)
             /\ slot' = Confirmed(slot, Vouched(f))
             /\ UNCHANGED queue
        ELSE /\ relay' = settled
             /\ slot' = Confirmed(Confirmed(slot, Vouched(f)), f.low - 1)
             /\ IF Deferred(settled) = {} THEN UNCHANGED queue
                ELSE TrySend(AckBatchFrame(f.gen, Deferred(settled)))
  /\ UNCHANGED <<ch, held>>

\* handleAckBatchResp looks at the cursor only.
TakeBatchResp(f) ==
  /\ relay' = ConfirmUpTo(relay, f.cursor)
  /\ slot' = Confirmed(slot, f.cursor)
  /\ UNCHANGED <<queue, ch, held>>

ReaderTake ==
  /\ inbox # <<>>
  /\ inbox' = Tail(inbox)
  /\ LET f == Head(inbox) IN
       \/ f.kind = "copy" /\ TakeCopy(f)
       \/ f.kind = "stateRep" /\ TakeStateRep(f)
       \/ f.kind = "batchResp" /\ TakeBatchResp(f)
  /\ UNCHANGED <<setup, conn, link, replay, batching, net, sweep, now, acked,
                 unrecorded, done, broker>>

-----------------------------------------------------------------------------
(* Connections.                                                            *)

\* What is on its way to the broker is lost; the bytes the reader's socket
\* already holds are not.
Break ==
  /\ link = "up" /\ conn < MaxConn
  /\ link' = "broken"
  /\ net' = <<>>
  /\ broker' = [broker EXCEPT !.bound = FALSE]
  /\ UNCHANGED <<setup, conn, replay, ch, batching, queue, inbox, relay, sweep, now, app>>

\* The reader meets the error, or the heartbeat runs out.
Notice ==
  /\ link = "broken"
  /\ link' = "closed"
  /\ UNCHANGED <<setup, conn, replay, ch, batching, wire, relay, sweep, now, app, broker>>

\* doReconnect: dial and swap connPtr ...
Reconnect ==
  /\ link = "closed" /\ replay = "done"
  /\ conn' = conn + 1 /\ link' = "up" /\ replay' = "subs"
  /\ ch' = <<>> /\ batching' = TRUE
  /\ queue' = <<>> /\ net' = <<>> /\ inbox' = <<>>
  /\ UNCHANGED <<setup, relay, sweep, now, app, broker>>

\* ... replaySubscriptions, which waits for its replies and ignores them ...
ReplaySubscriptions ==
  /\ replay = "subs"
  /\ replay' = "acks"
  /\ broker' = [broker EXCEPT !.bound = link = "up" /\ broker.exists]
  /\ UNCHANGED <<setup, conn, link, ch, batching, wire, relay, sweep, now, app>>

\* ... and replayAckState: one request for a consumer with deferred acks or a
\* slot.
ReplayAckState ==
  /\ replay = "acks"
  /\ replay' = "done"
  /\ IF Deferred(relay) # {} \/ Dedup THEN TrySend(StateReq(relay.gen))
     ELSE UNCHANGED queue
  /\ UNCHANGED <<setup, conn, link, ch, batching, net, inbox, relay, sweep, now, app, broker>>

-----------------------------------------------------------------------------
(* The broker (external).                                                  *)

\* Everything up to the cursor has been sent and settled.
Cursor ==
  IF ~broker.exists THEN 0
  ELSE Cardinality({q \in 1..(broker.next - 1) : \A p \in broker.pending : q < p})

Copies(q) == Cardinality({i \in 1..Len(inbox) : inbox[i].kind = "copy" /\ inbox[i].q = q})

Answer(f) ==
  /\ Len(inbox) < WireCap
  /\ inbox' = Append(inbox, f)

\* The next message, or one again whose ack is overdue.  Bounds: one copy under
\* way, setup.hands in the application's hands.
BrokerSend(q) ==
  /\ broker.exists /\ broker.bound /\ link = "up" /\ q <= setup.seqs
  /\ q \in broker.pending \cup {broker.next}
  /\ Copies(q) = 0 /\ held[q] < setup.hands
  /\ Answer([kind |-> "copy", q |-> q])
  /\ broker' = [broker EXCEPT !.pending = @ \cup {q}, !.next = IF q = @ THEN q + 1 ELSE @]
  /\ UNCHANGED <<setup, conn, link, replay, ch, batching, queue, net, relay, sweep, now, app>>

Released(S) ==
  [broker EXCEPT !.pending = @ \ S, !.settled = @ \cup (S \cap broker.pending)]

BrokerTake ==
  /\ link = "up" /\ net # <<>>
  /\ net' = Tail(net)
  /\ LET f == Head(net) IN
       \/ f.kind = "ack" /\ broker' = Released(f.seqs) /\ UNCHANGED inbox
       \/ /\ f.kind = "batch"
          /\ broker' = IF broker.exists /\ f.gen = broker.gen THEN Released(f.seqs) ELSE broker
          /\ Answer([kind |-> "batchResp", cursor |-> Cursor'])
       \/ /\ f.kind = "req" /\ UNCHANGED broker
          /\ Answer([kind |-> "stateRep", known |-> broker.exists,
                     low    |-> IF broker.exists THEN broker.low ELSE 0,
                     gen    |-> IF broker.exists THEN broker.gen ELSE 0,
                     cursor |-> Cursor])
  /\ UNCHANGED <<setup, conn, link, replay, ch, batching, queue, relay, sweep, now, app>>

\* Retention removes the oldest message.
BrokerTrim ==
  /\ broker.exists /\ broker.low <= setup.trims /\ broker.low < broker.next
  /\ broker' = [broker EXCEPT !.low = @ + 1, !.pending = @ \ {broker.low},
                              !.settled = @ \cup {broker.low}]
  /\ UNCHANGED <<setup, conn, link, replay, ch, batching, wire, relay, sweep, now, app>>

\* While the client is away the consumer is deleted, and created again under
\* its old id: a new generation that starts over.
BrokerDelete ==
  /\ broker.exists /\ ~broker.bound /\ link # "up" /\ broker.gen < setup.gens
  /\ broker' = [broker EXCEPT !.exists = FALSE, !.pending = {}]
  /\ UNCHANGED <<setup, conn, link, replay, ch, batching, wire, relay, sweep, now, app>>

BrokerCreate ==
  /\ ~broker.exists
  /\ broker' = [NewConsumer(broker.gen + 1) EXCEPT
                  !.bound = FALSE, !.settled = broker.settled,
                  !.low = broker.low, !.next = broker.low]
  /\ done' = {}
  /\ UNCHANGED <<setup, conn, link, replay, ch, batching, wire, relay, sweep, now, slot,
                 held, acked, unrecorded>>

-----------------------------------------------------------------------------
Next ==
  \/ \E q \in Seqs : Ack(q) \/ AckRecord(q) \/ BrokerSend(q)
  \/ Flush \/ BatcherEnds \/ WriterSend
  \/ SweepRead \/ SweepSend \/ Tick
  \/ ReaderTake
  \/ Break \/ Notice \/ Reconnect \/ ReplaySubscriptions \/ ReplayAckState
  \/ BrokerTake \/ BrokerTrim \/ BrokerDelete \/ BrokerCreate

Spec == Init /\ [][Next]_vars

\* The goroutines run, the broker answers and sends again what is not acked, and
\* the application acknowledges what it has taken.
LiveSpec ==
  /\ Spec
  /\ WF_vars(Flush \/ BatcherEnds) /\ WF_vars(WriterSend) /\ WF_vars(SweepRead \/ SweepSend)
  /\ WF_vars(ReaderTake) /\ WF_vars(Notice)
  /\ WF_vars(Reconnect \/ ReplaySubscriptions \/ ReplayAckState)
  /\ SF_vars(BrokerTake)
  /\ \A q \in Seqs : SF_vars(BrokerSend(q)) /\ WF_vars(Ack(q))

-----------------------------------------------------------------------------
(* Properties.                                                             *)

TypeOK ==
  /\ conn \in 1..MaxConn /\ link \in {"up", "broken", "closed"}
  /\ replay \in {"subs", "acks", "done"}
  /\ ch \in Seq(Seqs) /\ Len(ch) <= AckChanCap /\ batching \in BOOLEAN
  /\ Len(queue) <= setup.queue /\ Len(net) <= WireCap /\ Len(inbox) <= WireCap
  /\ Deferred(relay) \subseteq Seqs /\ relay.gen \in 0..setup.gens
  /\ sweep \subseteq Seqs /\ now \in 1..setup.ticks
  /\ Processed \subseteq Seqs /\ Len(slot.fifo) <= SlotCap
  /\ held \in [Seqs -> 0..setup.hands] /\ acked \subseteq Seqs
  /\ unrecorded \subseteq acked /\ done \subseteq acked
  /\ broker.pending \subseteq 1..(broker.next - 1)

\* Every ack the broker acts on is one the application gave, now or over an
\* earlier connection: neither the reader's acks of redeliveries nor the relay's
\* batches invent one.
ReleasedWasAcked == broker.settled \ (1..(broker.low - 1)) \subseteq acked

\* The relay gives a number up only when the broker has settled it, when the
\* consumer's generation changes, or when the TTL has run out for the oldest one.
DeferredUntilSettled ==
  [][\A q \in Deferred(relay) \ Deferred(relay)' :
       \/ q \in broker.settled
       \/ relay'.gen # relay.gen
       \/ \E p \in Deferred(relay) : setup.ttl > 0 /\ relay.oldest < now - setup.ttl]_vars

\* oldestTs is set exactly while something is deferred and is never later than
\* any deferred ack, so the TTL finds every one of them, across confirmations,
\* wipes and expiries.
OldestCovers ==
  /\ relay.oldest = 0 <=> Deferred(relay) = {}
  /\ \A q \in Deferred(relay) : relay.oldest <= relay.since[q]

\* A message of the consumer's generation whose ack the slot has taken, with no
\* later one recorded before it, is not handed to the application again, over any number
\* of connections and whatever is recorded after it: the cursors of AckStateRep and
\* AckBatchResp take from the slot only what the broker will not send again, and the
\* gate in front of the slot lets the others through to it.
NotRerun ==
  [][\A q \in Seqs : held'[q] > held[q] => q \notin done]_vars

\* An acknowledged message is settled at the broker in the end, whatever
\* connection died under the ack: through the relay, or through a redelivery
\* that is acked again.
AckArrives ==
  \A q \in Seqs : q \in acked /\ setup.gens = 0 ~> q \in broker.settled
=============================================================================
