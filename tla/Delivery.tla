------------------------------ MODULE Delivery ------------------------------
(***************************************************************************)
(* From the wire to the application: the subscriptions of one consumer,    *)
(* the registry that routes a delivered copy to them (registry.go), the    *)
(* reader's dispatch with its redelivery check and fan-out (arbitro.go),   *)
(* and the life of a subscription (subscription.go): Subscribe,            *)
(* SubscribeBatch, Messages, Ack, Nack and Close.                          *)
(*                                                                         *)
(* The broker is external.  It sends one copy of a message per consumer,   *)
(* stamped with one of the subscriptions whose filter matches; in fanout   *)
(* mode it keeps a pending entry for each of them, and it sends a copy     *)
(* again for as long as an entry is pending.  The path of the acks is      *)
(* AckPath's; here an ack reaches the broker.                              *)
(***************************************************************************)
EXTENDS AckSlot, FiniteSets, SequencesExt

CONSTANTS
  AllSubs,  \* subscription ids
  ChanCap,  \* subChanCap
  Setups    \* the consumers to look at, with the bounds put on each

\* One consumer: its subscriptions and what each one's filter accepts; the
\* delivery mode; whether the ack store is on and the application acknowledges in
\* delivery order; what may happen (the broker refuses a Subscribe, SendExpectReply
\* gives up, the application closes a subscription); whether the subscriptions are
\* opened by one SubscribeBatch; bounds on messages, copies and cursors.
ASSUME DeliveryAssumption ==
  /\ IsFiniteSet(AllSubs)
  /\ ChanCap \in Nat \ {0}
  /\ \A u \in Setups :
       /\ u.subs \subseteq AllSubs
       /\ u.seqs \in Nat /\ u.copies \in Nat /\ u.cursors \in Nat
       /\ u.wanted \in [AllSubs -> SUBSET (1..u.seqs)]
       /\ \A b \in {u.fanout, u.dedup, u.inOrder, u.mayRefuse, u.mayFail, u.mayClose,
                   u.batch} : b \in BOOLEAN

VARIABLE setup  \* the consumer at hand; it never changes

Subs      == setup.subs
Wanted    == setup.wanted
Fanout    == setup.fanout
Dedup     == setup.dedup
InOrder   == setup.inOrder
MayRefuse == setup.mayRefuse
MayFail   == setup.mayFail
MayClose  == setup.mayClose
Batch     == setup.batch
MaxSeq     == setup.seqs
MaxCopies  == setup.copies
MaxCursors == setup.cursors

Seqs == 1..MaxSeq
Consumer == "consumer"
NoRoute  == [fanout |-> FALSE, idx |-> 0, subs |-> <<>>]
NoCopy   == [q |-> 0, todo |-> <<>>]

VARIABLES
  life,     \* sub -> where its handle is: "none", "calling", "replied" while the
            \* call runs, "owned" by the application, "lost" when the call failed
            \* and left the route behind, "marked", "removed", "closed", "dropped"
  verdict,  \* sub -> the broker's reply to its Subscribe
  route,    \* registry.bySub, NoRoute for none
  sibs,     \* registry.byConsu of the consumer
  chan,     \* sub -> the delivery channel's content
  slot,     \* the consumer's slot in the ack store
  copy,     \* the copy the reader is handing out and the targets left
  panicked, \* the reader sent on a closed channel, which ends the program
  held,     \* <<sub, message>> -> copies the application took and has not decided
  acked,    \* <<sub, message>> the application acknowledged
  unrecorded, \* acknowledged, the record in the slot still to come
  wire,     \* frames from the broker, in order
  acks,     \* acks on their way to the broker
  bound,    \* subscriptions the broker has accepted
  pending,  \* sub -> messages the broker waits for an ack of
  released, \* <<sub, message>> whose ack the broker has seen
  copies, cursors  \* sent so far

client == <<life, verdict, route, sibs, slot>>
app    == <<held, acked, unrecorded>>
broker == <<bound, pending, released, copies, cursors>>
vars == <<life, verdict, route, sibs, chan, slot, copy, panicked, held, acked,
          unrecorded, wire, acks, bound, pending, released, copies, cursors, setup>>

Init ==
  /\ setup \in Setups
  /\ life = [s \in Subs |-> "none"]
  /\ verdict = [s \in Subs |-> "none"]
  /\ route = [s \in Subs |-> NoRoute]
  /\ sibs = <<>>
  /\ chan = [s \in Subs |-> <<>>]
  /\ slot = EmptySlot(Consumer)
  /\ copy = NoCopy
  /\ panicked = FALSE
  /\ held = [sq \in Subs \X Seqs |-> 0]
  /\ acked = {} /\ unrecorded = {}
  /\ wire = <<>> /\ acks = {}
  /\ bound = {} /\ pending = [s \in Subs |-> {}] /\ released = {}
  /\ copies = 0 /\ cursors = 0

-----------------------------------------------------------------------------
(* The registry.                                                           *)

Routed(s) == route[s].subs # <<>>

\* rebuild: every sibling's route gets the current slice, its own position in
\* it, and the mode of the first sibling that had a route.
NoIndex(old, ss) ==  \* mutant: every route points at the first sibling
  LET fan == ss # <<>> /\ old[Head(ss)].fanout
  IN [s \in Subs |-> IF s \in Range(ss)
                     THEN [fanout |-> fan, idx |-> 1, subs |-> ss]
                     ELSE old[s]]
ForgetMode(old, ss) ==  \* mutant: the new routes start in queue mode
  [s \in Subs |-> IF s \in Range(ss)
                  THEN [fanout |-> FALSE, idx |-> CHOOSE k \in 1..Len(ss) : ss[k] = s,
                        subs |-> ss]
                  ELSE old[s]]
Rebuild(old, ss) ==
  LET fan == ss # <<>> /\ old[Head(ss)].fanout
  IN [s \in Subs |-> IF s \in Range(ss)
                     THEN [fanout |-> fan, idx |-> CHOOSE k \in 1..Len(ss) : ss[k] = s,
                           subs |-> ss]
                     ELSE old[s]]

RegisterAll(new) ==
  /\ sibs' = sibs \o new
  /\ route' = Rebuild(route, sibs')

\* setFanout flips the routes that exist; the reader may hold one of them.
SetFanout(old, fan) ==
  [s \in Subs |-> IF s \in Range(sibs) THEN [old[s] EXCEPT !.fanout = fan] ELSE old[s]]

RemoveRoutes(S) ==
  /\ sibs' = Kept(sibs, Subs \ S)
  /\ route' = Rebuild([t \in Subs |-> IF t \in S THEN NoRoute ELSE route[t]], sibs')

-----------------------------------------------------------------------------
(* Opening.                                                                *)

Calling == {s \in Subs : life[s] \in {"calling", "replied"}}

\* The routes are registered before the frame goes out, one by one.
Open(new) ==
  /\ life' = [s \in Subs |-> IF s \in Range(new) THEN "calling" ELSE life[s]]
  /\ RegisterAll(new)
  /\ UNCHANGED <<verdict, chan, slot, copy, panicked, app, wire, acks, broker>>

Subscribe(s) == ~Batch /\ life[s] = "none" /\ Open(<<s>>)

SubscribeBatch ==
  /\ Batch
  /\ \A s \in Subs : life[s] = "none"
  /\ Open(SetToSeq(Subs))

\* The reply of a single Subscribe is not looked at beyond its mode bit: a
\* refused subscription is handed to the application like any other, and the
\* error's ref_seq, a request number, reads as queue mode.
SubscribeReturn(s) ==
  /\ ~Batch
  /\ life[s] = "replied"
  /\ life' = [life EXCEPT ![s] = "owned"]
  /\ route' = SetFanout(route, Fanout /\ verdict[s] = "ok")
  /\ UNCHANGED <<verdict, sibs, slot, chan, copy, panicked, app, wire, acks, broker>>

\* The call gives up on its reply and returns the error; nothing undoes the
\* registration.
SubscribeFails(s) ==
  /\ ~Batch /\ MayFail
  /\ life[s] = "calling"
  /\ life' = [life EXCEPT ![s] = "lost"]
  /\ UNCHANGED <<verdict, route, sibs, slot, chan, copy, panicked, app, wire, acks, broker>>

\* SubscribeBatch drops the entries the reply names, and all of them if there
\* is no reply.
KeepRefused(S) == {}  \* mutant: refused entries keep their routes
RefusedOf(S) == {s \in S : verdict[s] = "refused"}

BatchReturn ==
  /\ Batch /\ Calling # {}
  /\ \A s \in Calling : life[s] = "replied"
  /\ LET out == RefusedOf(Calling) IN
       /\ life' = [s \in Subs |-> IF s \in out THEN "dropped"
                                  ELSE IF s \in Calling THEN "owned" ELSE life[s]]
       /\ sibs' = Kept(sibs, Subs \ out)
       /\ route' = Rebuild([t \in Subs |-> IF t \in out THEN NoRoute
                                           ELSE SetFanout(route, Fanout)[t]], sibs')
  /\ UNCHANGED <<verdict, slot, chan, copy, panicked, app, wire, acks, broker>>

BatchFails ==
  /\ Batch /\ MayFail
  /\ \E s \in Subs : life[s] = "calling"
  /\ life' = [s \in Subs |-> IF s \in Calling THEN "dropped" ELSE life[s]]
  /\ RemoveRoutes(Calling)
  /\ UNCHANGED <<verdict, slot, chan, copy, panicked, app, wire, acks, broker>>

-----------------------------------------------------------------------------
(* The reader.                                                             *)

Skip ==
  UNCHANGED <<life, verdict, route, sibs, chan, panicked, app, broker>>

\* A reply wakes its caller.
TakeReply(f) ==
  /\ life' = [s \in Subs |-> IF s \in f.subs /\ life[s] = "calling" THEN "replied"
                             ELSE life[s]]
  /\ UNCHANGED <<verdict, route, sibs, chan, slot, copy, panicked, app, acks, broker>>

\* confirmAckStoreUpTo: any sibling leads to the slot.
Purged(c) == MemConfirmUpTo(slot, c)

TakeCursor(f) ==
  /\ slot' = IF Dedup /\ sibs # <<>> THEN Purged(f.upto) ELSE slot
  /\ Skip /\ UNCHANGED <<copy, acks>>

\* fanOut: the siblings whose filter accepts, or the one the copy is stamped for.
Targets(r, q) ==
  IF r.fanout THEN Kept(r.subs, {s \in Subs : q \in Wanted[s]}) ELSE <<r.subs[r.idx]>>

BelowMax(q) == Dedup /\ q <= slot.max  \* mutant: only the gate is asked
IsDup(q) == Dedup /\ Seen(slot, q)

\* Dispatch of one delivered copy.
TakeCopy(f) ==
  /\ IF ~Routed(f.sub) THEN UNCHANGED <<acks, copy>>
     ELSE IF IsDup(f.q) THEN acks' = acks \cup {<<f.sub, f.q>>} /\ UNCHANGED copy
     ELSE copy' = [q |-> f.q, todo |-> Targets(route[f.sub], f.q)] /\ UNCHANGED acks
  /\ Skip /\ UNCHANGED slot

ReaderTake ==
  /\ ~panicked /\ copy.todo = <<>> /\ wire # <<>>
  /\ wire' = Tail(wire)
  /\ LET f == Head(wire) IN
       CASE f.kind = "reply"  -> TakeReply(f)
         [] f.kind = "cursor" -> TakeCursor(f)
         [] f.kind = "copy"   -> TakeCopy(f)

\* deliverToSub in channel mode: it parks while the channel is full, the closed
\* signal lets it go, and on a closed channel the send may be what select picks.
ChanClosed(s)   == life[s] = "closed"
CloseSignal(s)  == life[s] \in {"marked", "removed", "closed"}
HasRoom(s)      == Len(chan[s]) < ChanCap

ReaderDeliver ==
  /\ ~panicked /\ copy.todo # <<>>
  /\ LET s == Head(copy.todo) IN
     \/ /\ ChanClosed(s)
        /\ panicked' = TRUE
        /\ UNCHANGED <<chan, copy>>
     \/ /\ CloseSignal(s)
        /\ copy' = [copy EXCEPT !.todo = Tail(@)]
        /\ UNCHANGED <<chan, panicked>>
     \/ /\ HasRoom(s) /\ ~ChanClosed(s)
        /\ chan' = [chan EXCEPT ![s] = Append(@, copy.q)]
        /\ copy' = [copy EXCEPT !.todo = Tail(@)]
        /\ UNCHANGED panicked
  /\ UNCHANGED <<client, app, wire, acks, broker>>

-----------------------------------------------------------------------------
(* The application.                                                        *)

HasHandle(s) == life[s] \in {"owned", "marked", "removed", "closed"}

Receive(s) ==
  /\ HasHandle(s) /\ chan[s] # <<>>
  /\ held' = [held EXCEPT ![<<s, Head(chan[s])>>] = @ + 1]
  /\ chan' = [chan EXCEPT ![s] = Tail(@)]
  /\ UNCHANGED <<client, copy, panicked, acked, unrecorded, wire, acks, broker>>

\* Msg.Ack hands the ack to the batcher, then records the number.
Ack(s, q) ==
  /\ held[<<s, q>>] > 0
  /\ InOrder => unrecorded = {} /\ (q > slot.max \/ q \in Live(slot))
  /\ held' = [held EXCEPT ![<<s, q>>] = @ - 1]
  /\ acked' = acked \cup {<<s, q>>}
  /\ acks' = acks \cup {<<s, q>>}
  /\ unrecorded' = IF Dedup THEN unrecorded \cup {<<s, q>>} ELSE unrecorded
  /\ UNCHANGED <<client, chan, copy, panicked, wire, broker>>

AckRecord(s, q) ==
  /\ <<s, q>> \in unrecorded
  /\ unrecorded' = unrecorded \ {<<s, q>>}
  /\ slot' = CheckRecord(slot, q, 0, MaxSeq)
  /\ UNCHANGED <<life, verdict, route, sibs, chan, copy, panicked, held, acked, wire,
                 acks, broker>>

\* Nack and NackDelay: the message is the broker's again.
Nack(s, q) ==
  /\ held[<<s, q>>] > 0
  /\ held' = [held EXCEPT ![<<s, q>>] = @ - 1]
  /\ UNCHANGED <<client, chan, copy, panicked, acked, unrecorded, wire, acks, broker>>

\* Close: signal, take the route out, unsubscribe, close the channel.
CloseMark(s) ==
  /\ MayClose /\ life[s] = "owned"
  /\ life' = [life EXCEPT ![s] = "marked"]
  /\ UNCHANGED <<verdict, route, sibs, slot, chan, copy, panicked, app, wire, acks, broker>>

CloseRemove(s) ==
  /\ life[s] = "marked"
  /\ life' = [life EXCEPT ![s] = "removed"]
  /\ RemoveRoutes({s})
  /\ UNCHANGED <<verdict, slot, chan, copy, panicked, app, wire, acks, broker>>

CloseChannel(s) ==
  /\ life[s] = "removed"
  /\ life' = [life EXCEPT ![s] = "closed"]
  /\ bound' = bound \ {s}
  /\ pending' = [pending EXCEPT ![s] = {}]
  /\ UNCHANGED <<verdict, route, sibs, slot, chan, copy, panicked, app, wire, acks,
                 released, copies, cursors>>

-----------------------------------------------------------------------------
(* The broker (external).                                                  *)

\* It decides on the entries of one request and answers.
BrokerBind ==
  /\ LET asked == {s \in Subs : life[s] \in {"calling", "lost"} /\ verdict[s] = "none"} IN
     \E S \in SUBSET asked, R \in SUBSET asked :
       /\ S # {} /\ (IF Batch THEN S = asked ELSE Cardinality(S) = 1)
       /\ R \subseteq S /\ (R # {} => MayRefuse)
       /\ verdict' = [s \in Subs |-> IF s \in R THEN "refused"
                                     ELSE IF s \in S THEN "ok" ELSE verdict[s]]
       /\ bound' = bound \cup (S \ R)
       /\ wire' = Append(wire, [kind |-> "reply", subs |-> S])
  /\ UNCHANGED <<life, route, sibs, slot, chan, copy, panicked, app, acks, pending,
                 released, copies, cursors>>

Settled(q) == \A s \in Subs : q \notin pending[s]
Started(q) == \E s \in Subs : q \in pending[s] \/ <<s, q>> \in released
Matching(q) == {s \in bound : q \in Wanted[s]}

SendCopy(s, q) ==
  /\ copies < MaxCopies
  /\ copies' = copies + 1
  /\ wire' = Append(wire, [kind |-> "copy", sub |-> s, q |-> q])
  /\ UNCHANGED <<client, chan, copy, panicked, app, acks, bound, released, cursors>>

\* The first copy of a message.
BrokerDeliver(s, q) ==
  /\ ~Started(q) /\ s \in Matching(q)
  /\ \A p \in 1..(q - 1) : Started(p)
  /\ pending' = [t \in Subs |-> IF t = s \/ (Fanout /\ t \in Matching(q))
                                THEN pending[t] \cup {q} ELSE pending[t]]
  /\ SendCopy(s, q)

\* A copy again: the ack is overdue, or there was a nack.  In queue mode another
\* member may get it.
BrokerRedeliver(s, t, q) ==
  /\ q \in pending[s] /\ (t = s \/ (~Fanout /\ t \in Matching(q)))
  /\ pending' = [[pending EXCEPT ![s] = @ \ {q}] EXCEPT ![t] = @ \cup {q}]
  /\ SendCopy(t, q)

BrokerAck(s, q) ==
  /\ <<s, q>> \in acks
  /\ acks' = acks \ {<<s, q>>}
  /\ pending' = [pending EXCEPT ![s] = @ \ {q}]
  /\ released' = IF q \in pending[s] THEN released \cup {<<s, q>>} ELSE released
  /\ UNCHANGED <<client, chan, copy, panicked, app, wire, bound, copies, cursors>>

\* AckStateRep and AckBatchResp carry the cursor: everything up to it is settled.
BrokerCursor(c) ==
  /\ cursors < MaxCursors
  /\ cursors' = cursors + 1
  /\ \A q \in 1..c : Started(q) /\ Settled(q)
  /\ wire' = Append(wire, [kind |-> "cursor", upto |-> c])
  /\ UNCHANGED <<client, chan, copy, panicked, app, acks, bound, pending, released,
                 copies>>

-----------------------------------------------------------------------------
Next ==
  /\ \/ \E s \in Subs : Subscribe(s) \/ SubscribeReturn(s) \/ SubscribeFails(s)
     \/ SubscribeBatch \/ BatchReturn \/ BatchFails
     \/ ReaderTake \/ ReaderDeliver
     \/ \E s \in Subs : Receive(s) \/ CloseMark(s) \/ CloseRemove(s) \/ CloseChannel(s)
     \/ \E s \in Subs, q \in Seqs : Ack(s, q) \/ AckRecord(s, q) \/ Nack(s, q)
     \/ BrokerBind
     \/ \E s \in Subs, q \in Seqs : BrokerDeliver(s, q) \/ BrokerAck(s, q)
     \/ \E s, t \in Subs, q \in Seqs : BrokerRedeliver(s, t, q)
     \/ \E c \in Seqs : BrokerCursor(c)
  /\ UNCHANGED setup

Spec == Init /\ [][Next]_vars

-----------------------------------------------------------------------------
(* Properties.                                                             *)

TypeOK ==
  /\ life \in [Subs -> {"none", "calling", "replied", "owned", "lost", "marked",
                        "removed", "closed", "dropped"}]
  /\ verdict \in [Subs -> {"none", "ok", "refused"}]
  /\ sibs \in Seq(Subs) /\ Len(sibs) <= Cardinality(Subs)
  /\ \A s \in Subs :
       /\ route[s].fanout \in BOOLEAN /\ route[s].idx \in 0..Cardinality(Subs)
       /\ route[s].subs \in Seq(Subs)
       /\ chan[s] \in Seq(Seqs) /\ Len(chan[s]) <= ChanCap
  /\ Live(slot) \subseteq Seqs
  /\ copy.q \in 0..MaxSeq /\ copy.todo \in Seq(Subs)
  /\ panicked \in BOOLEAN
  /\ held \in [Subs \X Seqs -> Nat]
  /\ acked \subseteq Subs \X Seqs /\ unrecorded \subseteq acked
  /\ acks \subseteq Subs \X Seqs /\ released \subseteq Subs \X Seqs
  /\ bound \subseteq Subs /\ pending \in [Subs -> SUBSET Seqs]
  /\ copies \in 0..MaxCopies /\ cursors \in 0..MaxCursors

\* However subscriptions come and go, each route of the registry leads to its
\* own subscription, every route shares the sibling slice of the consumer, and
\* no route outlives its membership (register, remove and rebuild).
RoutesAgree ==
  \A s \in Subs :
    IF Routed(s)
    THEN route[s].subs = sibs /\ sibs[route[s].idx] = s
    ELSE s \notin Range(sibs)

\* What the broker releases has been acknowledged by the application: by that
\* subscription in fanout mode, by a member of the queue otherwise.  The reader's
\* own ack of a redelivery (dispatchSingleDeliver) answers for no other message
\* and no other subscription.
ReleasedWasHandled ==
  \A sq \in released : \E t \in Subs :
    <<t, sq[2]>> \in acked /\ (Fanout => t = sq[1])

Begins(q) == copy.todo = <<>> /\ copy'.todo # <<>> /\ copy'.q = q

\* In fanout mode a copy goes to every sibling whose filter accepts it and to no
\* other, once one Subscribe of the consumer has returned: a later registration
\* keeps the mode (rebuild), and the reader's slice is the current one.
CopyReachesAll ==
  [][\A q \in Seqs :
       Begins(q) /\ Fanout /\ (\E s \in Range(sibs) : life[s] = "owned") =>
         \A s \in Range(sibs) : q \in Wanted[s] <=> s \in Range(copy'.todo)]_vars

\* A subscription the batch's reply refuses has no route once the call has
\* returned, and neither has one whose call failed or whose handle is closed: no copy
\* is routed to a handle nobody may read.
NoRouteWithoutOwner ==
  Batch => \A s \in Subs : Routed(s) =>
    \/ life[s] \in {"calling", "replied"}
    \/ life[s] \in {"owned", "marked"} /\ verdict[s] # "refused"

\* Stated by the comment in deliverToSub: the closed signal guards the send.
NoSendOnClosedChannel == ~panicked
=============================================================================
