-------------------------- MODULE SupervisorProofs --------------------------
(***************************************************************************)
(* Theorems about Supervisor: type correctness, the registrations that     *)
(* follow the client to a new connection, the closed ones that do not come *)
(* back, the order of a batch, and the replies of calls that do not cross. *)
(***************************************************************************)
EXTENDS Supervisor, TLAPS

Whats == {"bind", "unbind", "publish", "chunk", "cronack", "copy", "fire"}
AnyFrame ==
  [n : Nat, by : Threads \cup {Replayer, "broker"}, what : Whats,
   reg : Threads \cup Nat \cup {"broker"}]
Phases == {"watch", "lost", "dial", "swapped", "subs", "subsDone", "crons", "exited"}
Places == {"idle", "handler", "gate", "load", "waiting", "returning"}
Lives  == {"new", "fired", "starting", "open", "ending", "ended", "failed"}

-----------------------------------------------------------------------------
(* The inductive invariant.                                                *)

Typed ==
  /\ setup \in Setups
  /\ ptr \in 1..setup.conns /\ open \in BOOLEAN /\ next \in Nat \ {0}
  /\ reader \in 0..ptr /\ gate \in 0..ptr
  /\ out \in Seq(AnyFrame) /\ in \in Seq(AnyFrame)
  /\ sup \in Phases /\ dead \in BOOLEAN /\ crossed \in BOOLEAN
  /\ awaiting \in Nat
  /\ pc \in [Users -> Places] /\ life \in [Users -> Lives]
  /\ num \in [Users -> Nat] /\ sent \in [Users -> Nat]
  /\ DOMAIN at = Users /\ DOMAIN answer = Users
  /\ stored \in [Users -> Seq(Nat)]
  /\ from \in [Users -> Nat] /\ \A t \in Users : from[t] <= ptr

\* The supervisor's phase says what else there is: the gate is shut from the loss to
\* the end of the replay, and only a replay has registrations to send.
PhaseOK ==
  /\ gate # 0 <=> sup \notin {"watch", "lost", "exited"}
  /\ sup \in {"lost", "dial", "exited"} => ~open
  /\ dead => sup = "exited"
  /\ todo \subseteq Regs /\ (todo # {} => sup \in {"subs", "crons"})
  /\ awaiting # 0 => sup \in {"subs", "crons"} /\ awaiting < next
  /\ ~open => out = <<>> /\ in = <<>> /\ bound = {} /\ DOMAIN pending = {}
  /\ table \subseteq Regs /\ bound \subseteq Regs

\* An entry of the PendingMap is the replay's or that of the call that waits.
PendingOK ==
  \A n \in DOMAIN pending :
    /\ n \in Nat \ {0}
    /\ pending[n] \in Waiters
    /\ pending[n] = Replayer => n = awaiting
    /\ pending[n] # Replayer =>
         pending[n] \notin Fires /\ pc[pending[n]] = "waiting" /\ num[pending[n]] = n

\* What is on its way was sent by whom it names.
FramesOK ==
  /\ \A i \in 1..Len(out) :
       /\ out[i].what = "bind" => out[i].reg \in Regs
       /\ out[i].what = "unbind" =>
            out[i].reg \in Regs /\ life[out[i].reg] \in {"ending", "ended"}
       /\ out[i].what = "chunk" => out[i].by \in Batches /\ out[i].reg \in Nat
       /\ out[i].what \notin {"fire", "copy"}
  /\ \A i \in 1..Len(in) : in[i].what = "fire" =>
       in[i].by \in Fires /\ life[in[i].by] = "fired" /\ in[i].reg \in Crons
  /\ \A i, j \in 1..Len(in) :
       in[i].what = "fire" /\ in[j].what = "fire" /\ in[i].by = in[j].by => i = j

\* Where a call is, and what the handle it belongs to is doing.
CallsOK ==
  \A t \in Users :
    /\ life[t] \in {"open", "ending"} => t \in Regs
    /\ life[t] = "fired" => t \in Fires /\ pc[t] = "idle"
    /\ life[t] = "new" => sent[t] = 0
    /\ pc[t] # "idle" => life[t] \in {"starting", "ending"}
    /\ pc[t] = "handler" => t \in Fires

\* Numbers, while nobody has crossed: each is drawn once on its connection, a frame
\* with a call's number is that call's, and so is its answer.
Counts(t) == num[t] # 0 /\ from[t] = ptr
Drawn ==
  /\ \A t \in Users : Counts(t) => num[t] < next
  /\ \A t, u \in Users : Counts(t) /\ Counts(u) /\ num[t] = num[u] => t = u
Numbered(q) ==
  \A i \in 1..Len(q) :
    /\ q[i].n < next
    /\ \A t \in Users : Counts(t) /\ num[t] = q[i].n => q[i].by = t
Waited == \A n \in DOMAIN pending : pending[n] # Replayer => from[pending[n]] = ptr
NumbersOK ==
  ~crossed => Drawn /\ Numbered(out) /\ Numbered(in) /\ Waited /\ RepliesMatch

\* The chunks of a batch: what the broker has precedes what is on its way, and once
\* the head has been answered the broker has it.
InOrder(t) ==
  LET q == stored[t] IN
  /\ \A i \in 1..Len(q) : q[i] <= sent[t]
  /\ \A i \in 2..Len(q) : q[i - 1] < q[i]
  /\ \A i \in 1..Len(out) : out[i].what = "chunk" /\ out[i].by = t =>
       /\ out[i].reg \in 1..sent[t]
       /\ \A k \in 1..Len(q) : q[k] < out[i].reg
       /\ \A j \in 1..(i - 1) : out[j].what = "chunk" /\ out[j].by = t =>
            out[j].reg < out[i].reg
GoesOn(t) ==
  /\ sent[t] > 0
  /\ pc[t] \in {"gate", "load"} \/ (pc[t] = "returning" /\ answer[t] # Failed)
Headed(t) ==
  LET q == stored[t] IN
  /\ q # <<>> => q[1] = 1
  /\ \A i \in 1..Len(in) : in[i].by = t /\ in[i].what \notin {"copy", "fire"} => q # <<>>
  /\ \A i \in 1..Len(out) : out[i].by = t =>
       out[i].what = "chunk" /\ (out[i].reg > 1 => q # <<>>)
  /\ GoesOn(t) => q # <<>>
BatchOK == \A t \in Batches : InOrder(t) /\ (~crossed => Headed(t))

Has(r) == r \in bound \/ \E i \in 1..Len(out) : out[i].what = "bind" /\ out[i].reg = r
Due(r) == sup = "swapped" \/ (sup \in {"subs", "subsDone"} /\ r \in Crons) \/ r \in todo
Asked(r) ==
  life[r] = "starting" /\ (pc[r] = "waiting" \/ (pc[r] = "returning" /\ answer[r] # Failed))

\* A registration is at the broker, on its way there, or due.
FollowOK ==
  \A r \in Regs :
    /\ open /\ ((life[r] = "open" /\ r \notin late) \/ (r \in Subs /\ Asked(r)))
         => Has(r) \/ Due(r)
    /\ r \in Crons /\ Asked(r) /\ from[r] = ptr /\ open => Has(r)
    /\ r \in Subs /\ life[r] \in {"starting", "open"} /\ ~dead => r \in table
    /\ r \in Crons /\ life[r] = "open" => r \in table

Clean(r) ==
  /\ \A i \in 1..Len(out) : out[i].what = "bind" /\ out[i].reg = r =>
       \E j \in (i + 1)..Len(out) : out[j].what = "unbind" /\ out[j].reg = r
  /\ r \in bound => \E j \in 1..Len(out) : out[j].what = "unbind" /\ out[j].reg = r

\* A registration that is being taken back leaves the table first, cannot be copied by
\* a replay any more, and one that a replay has copied holds the call at the gate.
ClosedOK ==
  \A r \in Regs :
    /\ life[r] \in {"ending", "ended"} /\ ~dead => r \notin table
    /\ life[r] = "ending" /\ pc[r] = "load" /\ r \in todo => at[r] = gate
    /\ r \notin hasty /\ (life[r] = "ended"
                          \/ (life[r] = "ending" /\ pc[r] \in {"waiting", "returning"}))
         => r \notin todo /\ Clean(r)

IInv ==
  /\ Typed /\ PhaseOK /\ PendingOK /\ FramesOK /\ CallsOK /\ NumbersOK /\ BatchOK
  /\ FollowOK /\ ClosedOK

-----------------------------------------------------------------------------
(* What the steps have in common.                                          *)

\* The kinds of threads of a client.
LEMMA Kinds ==
  ASSUME Typed
  PROVE  /\ Users \subseteq Threads /\ Replayer \notin Users
         /\ Subs \subseteq Users /\ Crons \subseteq Users \ Subs /\ Regs = Subs \cup Crons
         /\ setup.conns \in Nat \ {0} /\ setup.chunks \in Nat \ {0}
         /\ Fires \subseteq Users \ Regs /\ Batches \subseteq Users \ (Regs \cup Fires)
BY SupervisorAssumption DEF Typed, Users, Subs, Crons, Fires, Batches, Regs

\* The client at hand never changes.
LEMMA Fixed ==
  ASSUME setup' = setup
  PROVE  /\ Users' = Users /\ Subs' = Subs /\ Crons' = Crons /\ Regs' = Regs
         /\ Fires' = Fires /\ Batches' = Batches /\ Waiters' = Waiters
BY DEF Users, Subs, Crons, Regs, Fires, Batches, Waiters

\* A frame at the end of a queue.
LEMMA Queued ==
  ASSUME NEW S, NEW q \in Seq(S), NEW e \in S
  PROVE  /\ Append(q, e) \in Seq(S) /\ Len(q) \in Nat
         /\ Len(Append(q, e)) = Len(q) + 1
         /\ \A i \in 1..Len(q) : Append(q, e)[i] = q[i] /\ q[i] \in S
         /\ Append(q, e)[Len(q) + 1] = e
OBVIOUS

\* A frame from the front of a queue.
LEMMA Dequeued ==
  ASSUME NEW S, NEW q \in Seq(S), q # <<>>
  PROVE  /\ Tail(q) \in Seq(S) /\ Len(q) \in Nat \ {0} /\ Head(q) = q[1] /\ q[1] \in S
         /\ Len(Tail(q)) = Len(q) - 1
         /\ \A i \in 1..(Len(q) - 1) : Tail(q)[i] = q[i + 1]
OBVIOUS

\* The fields of a frame.
LEMMA Fields ==
  ASSUME NEW q \in Seq(AnyFrame), NEW i \in 1..Len(q)
  PROVE  q[i] \in AnyFrame /\ q[i].n \in Nat
<1>1. q[i] \in AnyFrame
  OBVIOUS
<1>2. QED
  BY <1>1 DEF AnyFrame

\* What the queues and the broker's bindings alone decide.
LEMMA SameQueues ==
  ASSUME out' = out, bound' = bound
  PROVE  \A r : Clean(r)' = Clean(r) /\ Has(r)' = Has(r)
BY DEF Clean, Has

\* Numbers stay right when only the place of a call changes.
LEMMA SameNumbers ==
  ASSUME NumbersOK, setup' = setup, crossed' = crossed, num' = num, from' = from,
         ptr' = ptr, next' = next, out' = out, in' = in,
         pending' = pending,          \A u \in Users : answer'[u] \in {NoReply, Failed, answer[u]}
  PROVE  NumbersOK'
BY Fixed DEF NumbersOK, Counts, Drawn, Numbered, Waited, RepliesMatch

\* The order of a batch stays right when nothing is sent or taken.
LEMMA SameBatches ==
  ASSUME BatchOK, setup' = setup, crossed' = crossed, out' = out, in' = in,
         stored' = stored, sent' = sent, \A t \in Batches : GoesOn(t)' => GoesOn(t)
  PROVE  BatchOK'
<1>1. \A t : InOrder(t)' = InOrder(t)
  BY DEF InOrder
<1>2. \A t \in Batches : Headed(t) => Headed(t)'
  BY DEF Headed
<1>3. QED
  BY <1>1, <1>2, Fixed DEF BatchOK

\* There is nothing on its way on a closed connection.
LEMMA NothingQueued ==
  ASSUME PhaseOK, ~open
  PROVE  \A r : Clean(r)
BY DEF PhaseOK, Clean

-----------------------------------------------------------------------------
(* Calls.                                                                  *)

LEMMA BeginKeeps ==
  ASSUME IInv, NEW t \in Users, Begin(t)
  PROVE  IInv'
<1> USE DEF conn, replay, call, closing, history
<1>1. setup' = setup /\ Typed
  BY DEF Begin, IInv
<1>2. Typed'
  BY <1>1, Fixed DEF Begin, IInv, Typed, Places, Lives, Phases
<1>3. PhaseOK'
  BY <1>1, Fixed, Kinds DEF Begin, IInv, PhaseOK, Typed, Listed
<1>4. PendingOK'
  BY <1>1, Fixed, Kinds DEF Begin, IInv, PendingOK, Typed
<1>5. FramesOK'
  BY <1>1, Fixed, Kinds DEF Begin, IInv, FramesOK, Typed
<1>6. CallsOK'
  BY <1>1, Fixed, Kinds DEF Begin, IInv, CallsOK, Typed
<1>7. NumbersOK'
  BY <1>1, SameNumbers DEF Begin, IInv, Typed
<1>8. BatchOK'
  BY <1>1, Kinds, SameBatches DEF Begin, IInv, GoesOn, Typed, CallsOK
<1>9. FollowOK'
  BY <1>1, Fixed, Kinds, SameQueues DEF Begin, IInv, FollowOK, Typed, CallsOK, PhaseOK, Due, Asked, Listed
<1>10. ClosedOK'
  BY <1>1, Fixed, Kinds, SameQueues DEF Begin, IInv, ClosedOK, Typed, CallsOK, PhaseOK, Listed
<1>11. QED
  BY <1>2, <1>3, <1>4, <1>5, <1>6, <1>7, <1>8, <1>9, <1>10 DEF IInv


LEMMA EndKeeps ==
  ASSUME IInv, NEW t \in Users, End(t)
  PROVE  IInv'
<1> USE DEF conn, replay, call, closing, history
<1>1. setup' = setup /\ Typed
  BY DEF End, IInv
<1>2. Typed'
  BY <1>1, Fixed DEF End, IInv, Typed, Places, Lives, Phases
<1>3. PhaseOK'
  BY <1>1, Fixed, Kinds DEF End, IInv, PhaseOK, Typed, Unlisted
<1>4. PendingOK'
  BY <1>1, Fixed, Kinds DEF End, IInv, PendingOK, Typed
<1>5. FramesOK'
  BY <1>1, Fixed, Kinds DEF End, IInv, FramesOK, Typed
<1>6. CallsOK'
  BY <1>1, Fixed, Kinds DEF End, IInv, CallsOK, Typed
<1>7. NumbersOK'
  BY <1>1, SameNumbers DEF End, IInv, Typed
<1>8. BatchOK'
  BY <1>1, Kinds, SameBatches DEF End, IInv, GoesOn, Typed, CallsOK
<1>9. FollowOK'
  BY <1>1, Fixed, Kinds, SameQueues DEF End, IInv, FollowOK, Typed, CallsOK, PhaseOK, Due, Asked, Unlisted
<1>10. ClosedOK'
  BY <1>1, Fixed, Kinds, SameQueues DEF End, IInv, ClosedOK, Typed, CallsOK, PhaseOK, Unlisted
<1>11. QED
  BY <1>2, <1>3, <1>4, <1>5, <1>6, <1>7, <1>8, <1>9, <1>10 DEF IInv


LEMMA ReadGateKeeps ==
  ASSUME IInv, NEW t \in Users, ReadGate(t)
  PROVE  IInv'
<1> USE DEF conn, replay, call, closing, history
<1>1. setup' = setup /\ Typed
  BY DEF ReadGate, IInv
<1>2. Typed'
  BY <1>1, Fixed DEF ReadGate, IInv, Typed, Places, Lives, Phases
<1>3. PhaseOK'
  BY <1>1, Fixed, Kinds DEF ReadGate, IInv, PhaseOK, Typed
<1>4. PendingOK'
  BY <1>1, Fixed, Kinds DEF ReadGate, IInv, PendingOK, Typed
<1>5. FramesOK'
  BY <1>1, Fixed, Kinds DEF ReadGate, IInv, FramesOK, Typed
<1>6. CallsOK'
  BY <1>1, Fixed, Kinds DEF ReadGate, IInv, CallsOK, Typed
<1>7. NumbersOK'
  BY <1>1, SameNumbers DEF ReadGate, IInv, Typed
<1>8. BatchOK'
  BY <1>1, Kinds, SameBatches DEF ReadGate, IInv, GoesOn, Typed, CallsOK
<1>9. FollowOK'
  BY <1>1, Fixed, Kinds, SameQueues DEF ReadGate, IInv, FollowOK, Typed, CallsOK, PhaseOK, Due, Asked
<1>10. ClosedOK'
  BY <1>1, Fixed, Kinds, SameQueues DEF ReadGate, IInv, ClosedOK, Typed, CallsOK, PhaseOK
<1>11. QED
  BY <1>2, <1>3, <1>4, <1>5, <1>6, <1>7, <1>8, <1>9, <1>10 DEF IInv


LEMMA LoadForNumberKeeps ==
  ASSUME IInv, NEW t \in Users, LoadForNumber(t)
  PROVE  IInv'
<1> USE DEF conn, replay, closing, history
<1>1. /\ setup' = setup /\ t \in Users /\ Typed
  BY DEF LoadForNumber, IInv
<1>2. Typed'
  BY <1>1, Fixed DEF LoadForNumber, IInv, Typed, Places, Lives
<1>3. PhaseOK'
  BY <1>1, Fixed, Kinds DEF LoadForNumber, IInv, PhaseOK, Typed
<1>4. PendingOK'
  BY <1>1, Fixed, Kinds DEF LoadForNumber, IInv, PendingOK, Typed
<1>5. FramesOK'
  BY <1>1, Fixed, Kinds DEF LoadForNumber, IInv, FramesOK, Typed
<1>6. CallsOK'
  BY <1>1, Fixed, Kinds DEF LoadForNumber, IInv, CallsOK, Typed
<1>7. NumbersOK'
  <2>1. SUFFICES ASSUME ~crossed
                 PROVE  Drawn' /\ Numbered(out)' /\ Numbered(in)' /\ Waited' /\ RepliesMatch'
    BY DEF NumbersOK, LoadForNumber
  <2>2. Drawn /\ Numbered(out) /\ Numbered(in) /\ Waited /\ RepliesMatch
    BY <2>1 DEF NumbersOK, IInv
  <2> HIDE DEF conn, replay, closing, history
  <2>3. \A u \in Users : Counts(u)' =>
          \/ u = t /\ num'[u] = next
          \/ u # t /\ Counts(u) /\ num'[u] = num[u]
    BY <1>1 DEF LoadForNumber, Counts, Typed
  <2>4. next' = next + 1 /\ next \in Nat /\ num \in [Users -> Nat]
    BY <1>1 DEF LoadForNumber, Typed
  <2>5. Drawn'
    BY <1>1, <2>2, <2>3, <2>4, Fixed DEF Drawn
  <2>6. Numbered(out)'
    <3>1. out' = out /\ out \in Seq(AnyFrame)
      BY <1>1 DEF LoadForNumber, Typed
    <3>2. \A i \in 1..Len(out) : out[i].n \in Nat /\ out[i].n < next
      BY <2>2, <3>1, Fields DEF Numbered
    <3>3. QED
      BY <1>1, <2>2, <2>3, <2>4, <3>1, <3>2, Fixed DEF Numbered
  <2>7. Numbered(in)'
    <3>1. in' = in /\ in \in Seq(AnyFrame)
      BY <1>1 DEF LoadForNumber, Typed
    <3>2. \A i \in 1..Len(in) : in[i].n \in Nat /\ in[i].n < next
      BY <2>2, <3>1, Fields DEF Numbered
    <3>3. QED
      BY <1>1, <2>2, <2>3, <2>4, <3>1, <3>2, Fixed DEF Numbered
  <2>8. Waited'
    BY <1>1, <2>2, Kinds DEF LoadForNumber, Waited, PendingOK, IInv, Typed, Waiters
  <2>9. RepliesMatch'
    BY <1>1, <2>2, Fixed DEF LoadForNumber, RepliesMatch
  <2>10. QED
    BY <2>5, <2>6, <2>7, <2>8, <2>9
<1>8. BatchOK'
  BY <1>1, Kinds, SameBatches DEF LoadForNumber, IInv, GoesOn, Typed, CallsOK
<1>9. FollowOK'
  BY <1>1, Fixed, Kinds DEF LoadForNumber, IInv, FollowOK, Typed, CallsOK, Has, Due, Asked
<1>10. ClosedOK'
  BY <1>1, Fixed, Kinds, SameQueues DEF LoadForNumber, IInv, ClosedOK, Typed, NoteHaste
<1>11. QED
  BY <1>2, <1>3, <1>4, <1>5, <1>6, <1>7, <1>8, <1>9, <1>10 DEF IInv

LEMMA HandlerDoneKeeps ==
  ASSUME IInv, NEW t \in Users, HandlerDone(t)
  PROVE  IInv'
<1> USE DEF conn, replay, call, closing, history
<1>1. setup' = setup /\ Typed
  BY DEF HandlerDone, IInv
<1>2. Typed'
  BY <1>1, Fixed DEF HandlerDone, IInv, Typed, Places, Lives, Phases
<1>3. PhaseOK'
  BY <1>1, Fixed, Kinds DEF HandlerDone, IInv, PhaseOK, Typed
<1>4. PendingOK'
  BY <1>1, Fixed, Kinds DEF HandlerDone, IInv, PendingOK, Typed
<1>5. FramesOK'
  BY <1>1, Fixed, Kinds DEF HandlerDone, IInv, FramesOK, Typed
<1>6. CallsOK'
  BY <1>1, Fixed, Kinds DEF HandlerDone, IInv, CallsOK, Typed
<1>7. NumbersOK'
  BY <1>1, SameNumbers DEF HandlerDone, IInv, Typed
<1>8. BatchOK'
  BY <1>1, Kinds, SameBatches DEF HandlerDone, IInv, GoesOn, Typed, CallsOK
<1>9. FollowOK'
  BY <1>1, Fixed, Kinds, SameQueues DEF HandlerDone, IInv, FollowOK, Typed, CallsOK, PhaseOK, Due, Asked
<1>10. ClosedOK'
  BY <1>1, Fixed, Kinds, SameQueues DEF HandlerDone, IInv, ClosedOK, Typed, CallsOK, PhaseOK
<1>11. QED
  BY <1>2, <1>3, <1>4, <1>5, <1>6, <1>7, <1>8, <1>9, <1>10 DEF IInv


\* The connection that getConn loads is closed.
LEMMA NotSentKeeps ==
  ASSUME IInv, NEW t \in Users, LoadToSend(t), ~open
  PROVE  IInv'
<1> USE DEF conn, replay, call, closing, history
<1>1. setup' = setup /\ Typed
  BY DEF LoadToSend, IInv
<1>2. Typed'
  BY <1>1, Fixed DEF LoadToSend, IInv, Typed, Places, Lives, Phases
<1>3. PhaseOK'
  BY <1>1, Fixed, Kinds DEF LoadToSend, IInv, PhaseOK, Typed
<1>4. PendingOK'
  BY <1>1, Fixed, Kinds DEF LoadToSend, IInv, PendingOK, Typed
<1>5. FramesOK'
  BY <1>1, Fixed, Kinds DEF LoadToSend, IInv, FramesOK, Typed
<1>6. CallsOK'
  BY <1>1, Fixed, Kinds DEF LoadToSend, IInv, CallsOK, Typed
<1>7. NumbersOK'
  BY <1>1, SameNumbers DEF LoadToSend, IInv, Typed
<1>8. BatchOK'
  BY <1>1, Kinds, SameBatches DEF LoadToSend, IInv, GoesOn, Typed, CallsOK
<1>9. FollowOK'
  BY <1>1, Fixed, Kinds, SameQueues DEF LoadToSend, IInv, FollowOK, Typed, CallsOK, PhaseOK, Due, Asked
<1>10. ClosedOK'
  BY <1>1, Fixed, Kinds, SameQueues, NothingQueued DEF LoadToSend, IInv, ClosedOK, Typed, CallsOK, PhaseOK, NoteHaste, Opened
<1>11. QED
  BY <1>2, <1>3, <1>4, <1>5, <1>6, <1>7, <1>8, <1>9, <1>10 DEF IInv


\* It is open, and the frame is sent.
LEMMA SentKeeps ==
  ASSUME IInv, NEW t \in Users, LoadToSend(t), open
  PROVE  IInv'
<1> USE DEF conn, replay, call, closing, history
<1>1. setup' = setup /\ Typed
  BY DEF LoadToSend, IInv
<1> DEFINE f == Frame(num[t], t, What(t), About(t))
<1>2. /\ num[t] \in Nat \ {0} /\ pc[t] = "load" /\ sent[t] \in Nat
      /\ life[t] \in {"starting", "ending"} /\ (life[t] = "ending" => t \in Regs)
  BY <1>1 DEF LoadToSend, Typed, IInv, CallsOK
<1>3. /\ What(t) \in Whats \ {"copy", "fire"}
      /\ What(t) = "bind" <=> t \in Regs /\ life[t] # "ending"
      /\ What(t) = "unbind" <=> t \in Regs /\ life[t] = "ending"
      /\ What(t) = "chunk" <=> t \in Batches
  <2>1. CASE life[t] = "ending"
    BY <1>2, <2>1, <1>1, Kinds DEF What, Whats
  <2>2. CASE life[t] # "ending" /\ t \in Regs
    BY <2>2, <1>1, Kinds DEF What, Whats
  <2>3. CASE life[t] # "ending" /\ t \notin Regs
    BY <2>3, <1>1, Kinds DEF What, Whats
  <2>4. QED
    BY <2>1, <2>2, <2>3
<1>4. About(t) \in Threads \cup Nat /\ About(t) = IF t \in Batches THEN sent[t] + 1 ELSE t
  BY <1>1, <1>2, Kinds DEF About
<1>5. f \in AnyFrame
  BY <1>1, <1>2, <1>3, <1>4, Kinds DEF Frame, AnyFrame
<1>6. f.n = num[t] /\ f.by = t /\ f.what = What(t) /\ f.reg = About(t)
  BY DEF Frame
<1>7. out' = Append(out, f) /\ in' = in /\ bound' = bound /\ life' = life
  BY DEF LoadToSend
<1> HIDE DEF f
<1>8. /\ out' \in Seq(AnyFrame) /\ Len(out) \in Nat /\ Len(out') = Len(out) + 1
      /\ \A i \in 1..Len(out) : out'[i] = out[i] /\ out[i] \in AnyFrame
      /\ out'[Len(out) + 1] = f
  <2>1. out \in Seq(AnyFrame)
    BY <1>1 DEF Typed
  <2>2. QED
    BY <1>5, <1>7, <2>1, Queued
<1>9. Typed'
  <2>1. sent' \in [Users -> Nat]
    <3>1. sent' = [sent EXCEPT ![t] = sent[t] + 1]
      BY DEF LoadToSend
    <3>2. QED
      BY <1>1, <1>2, <3>1 DEF Typed
  <2>2. pc' \in [Users -> Places]
    BY <1>1 DEF LoadToSend, Typed, Places
  <2>3. sent' \in [Users -> Nat] /\ pc' \in [Users -> Places]
    BY <2>1, <2>2
  <2>4. crossed' \in BOOLEAN
    BY <1>1 DEF LoadToSend, Typed
  <2>5. QED
    BY <1>1, <1>8, <2>3, <2>4, Fixed DEF LoadToSend, Typed
<1>10. PhaseOK'
  BY <1>1, Fixed, Kinds DEF LoadToSend, IInv, PhaseOK, Typed
<1>11. PendingOK'
  BY <1>1, <1>2, Fixed, Kinds DEF LoadToSend, IInv, PendingOK, Typed, Register, OneWay, Waiters
<1>12. FramesOK'
  <2>1. /\ f.what = "bind" => f.reg \in Regs
        /\ f.what = "unbind" => f.reg \in Regs /\ life[f.reg] \in {"ending", "ended"}
        /\ f.what = "chunk" => f.by \in Batches /\ f.reg \in Nat
        /\ f.what \notin {"fire", "copy"}
    BY <1>1, <1>2, <1>3, <1>4, <1>6, Kinds
  <2>2. \A i \in 1..Len(out') : (i \in 1..Len(out) /\ out'[i] = out[i]) \/ out'[i] = f
    BY <1>8
  <2>3. QED
    BY <1>1, <1>7, <2>1, <2>2, Fixed DEF IInv, FramesOK
<1>13. CallsOK'
  BY <1>1, Fixed, Kinds DEF LoadToSend, IInv, CallsOK, Typed
<1>14. NumbersOK'
  <2>1. SUFFICES ASSUME ~crossed'
                 PROVE  Drawn' /\ Numbered(out)' /\ Numbered(in)' /\ Waited' /\ RepliesMatch'
    BY DEF NumbersOK
  <2>2. ~crossed /\ from[t] = ptr
    BY <2>1 DEF LoadToSend
  <2>3. Drawn /\ Numbered(out) /\ Numbered(in) /\ Waited /\ RepliesMatch
    BY <2>2 DEF NumbersOK, IInv
  <2>4. /\ num' = num /\ next' = next /\ from' = from /\ ptr' = ptr /\ answer' = answer
    BY DEF LoadToSend
  <2>5. \A u : Counts(u)' = Counts(u)
    BY <2>4 DEF Counts
  <2>6. Drawn'
    BY <1>1, <2>3, <2>4, <2>5, Fixed DEF Drawn
  <2>7. Numbered(in)'
    BY <1>1, <1>7, <2>3, <2>4, <2>5, Fixed DEF Numbered
  <2>8. Counts(t) /\ num[t] < next /\ \A u \in Users : Counts(u) /\ num[u] = num[t] => u = t
    BY <1>2, <2>2, <2>3 DEF Counts, Drawn
  <2>9. Numbered(out)'
    BY <1>1, <1>6, <1>8, <2>3, <2>4, <2>5, <2>8, Fixed DEF Numbered
  <2>10. Waited'
    BY <2>2, <2>3, <2>4 DEF LoadToSend, Register, Waited
  <2>11. RepliesMatch'
    BY <1>1, <2>3, <2>4, Fixed DEF RepliesMatch
  <2>12. QED
    BY <2>6, <2>7, <2>9, <2>10, <2>11
<1>15. BatchOK'
  <2>1. ASSUME NEW u \in Batches, u # t
        PROVE  InOrder(u)' /\ (~crossed' => Headed(u)')
    <3>1. /\ stored' = stored /\ sent'[u] = sent[u] /\ (~crossed' => ~crossed)
          /\ GoesOn(u)' = GoesOn(u)
      BY <1>1, <2>1, Kinds DEF LoadToSend, Typed, GoesOn
    <3>2. InOrder(u) /\ (~crossed => Headed(u))
      BY DEF IInv, BatchOK
    <3>3. \A i \in 1..Len(out') : out'[i].by = u => i \in 1..Len(out) /\ out'[i] = out[i]
      BY <1>6, <1>8, <2>1
    <3>4. InOrder(u)'
      BY <1>8, <3>1, <3>2, <3>3 DEF InOrder
    <3>5. QED
      BY <1>7, <1>8, <3>1, <3>2, <3>3, <3>4 DEF Headed
  <2>2. ASSUME t \in Batches
        PROVE  InOrder(t)' /\ (~crossed' => Headed(t)')
    <3>1. /\ stored' = stored /\ stored[t] \in Seq(Nat) /\ sent'[t] = sent[t] + 1 /\ (~crossed' => ~crossed)
          /\ (pc'[t] = "returning" <=> sent[t] > 0)
          /\ pc'[t] \in {"waiting", "returning"}
      BY <1>1, <1>2, <2>2, Kinds DEF LoadToSend, Typed, OneWay
    <3>2. InOrder(t) /\ (~crossed => Headed(t))
      BY <2>2 DEF IInv, BatchOK
    <3>3. f.what = "chunk" /\ f.reg = sent[t] + 1 /\ sent[t] \in Nat
      BY <1>2, <1>3, <1>4, <1>6, <2>2
    <3>4. \A i \in 1..Len(stored[t]) : stored[t][i] \in Nat /\ stored[t][i] <= sent[t]
      BY <3>1, <3>2 DEF InOrder
    <3>5. \A i \in 1..Len(out) : out[i].what = "chunk" /\ out[i].by = t => out[i].reg \in 1..sent[t]
      BY <3>2 DEF InOrder
    <3>6. \A i \in 1..Len(out') : (i \in 1..Len(out) /\ out'[i] = out[i]) \/ (i = Len(out) + 1 /\ out'[i] = f)
      BY <1>8
    <3>7. \A i \in 1..Len(stored[t]) : stored[t][i] <= sent[t] + 1
      BY <3>3, <3>4
    <3>8. InOrder(t)'
      <4>1. ASSUME NEW i \in 1..Len(out'), out'[i].what = "chunk", out'[i].by = t
            PROVE  /\ out'[i].reg \in 1..(sent[t] + 1)
                   /\ \A k \in 1..Len(stored[t]) : stored[t][k] < out'[i].reg
                   /\ \A j \in 1..(i - 1) : out'[j].what = "chunk" /\ out'[j].by = t =>
                        out'[j].reg < out'[i].reg
        <5>1. CASE i = Len(out) + 1 /\ out'[i] = f
          <6>1. out'[i].reg = sent[t] + 1 /\ sent[t] \in Nat
            BY <3>3, <5>1
          <6>2. \A k \in 1..Len(stored[t]) : stored[t][k] < out'[i].reg
            BY <3>4, <6>1
          <6>3. ASSUME NEW j \in 1..(i - 1), out'[j].what = "chunk", out'[j].by = t
                PROVE  out'[j].reg < out'[i].reg
            <7>1. j \in 1..Len(out) /\ out'[j] = out[j]
              BY <1>8, <5>1
            <7>2. out[j].reg \in 1..sent[t]
              BY <3>5, <6>3, <7>1
            <7>3. QED
              BY <6>1, <7>1, <7>2
          <6>4. QED
            BY <6>1, <6>2, <6>3
        <5>2. CASE i \in 1..Len(out) /\ out'[i] = out[i]
          <6>1. out[i].what = "chunk" /\ out[i].by = t /\ i \in 1..Len(out)
            BY ONLY <4>1, <5>2
          <6>2. out[i].reg \in 1..sent[t] /\ \A k \in 1..Len(stored[t]) : stored[t][k] < out[i].reg
            BY ONLY <3>2, <6>1 DEF InOrder
          <6>3. \A j \in 1..(i - 1) : j \in 1..Len(out) /\ out'[j] = out[j]
            BY ONLY <1>8, <6>1
          <6>4. \A j \in 1..(i - 1) : out[j].what = "chunk" /\ out[j].by = t => out[j].reg < out[i].reg
            BY ONLY <3>2, <6>1 DEF InOrder
          <6>5. out'[i].reg \in 1..(sent[t] + 1)
            BY ONLY <3>3, <5>2, <6>2
          <6>6. \A k \in 1..Len(stored[t]) : stored[t][k] < out'[i].reg
            BY ONLY <5>2, <6>2
          <6>7. \A j \in 1..(i - 1) : out'[j].what = "chunk" /\ out'[j].by = t => out'[j].reg < out'[i].reg
            BY ONLY <5>2, <6>3, <6>4
          <6>8. QED
            BY ONLY <6>5, <6>6, <6>7
        <5>3. QED
          BY <3>6, <5>1, <5>2
      <4>2. QED
        BY <3>1, <3>2, <3>7, <4>1 DEF InOrder
    <3>9. ~crossed' /\ sent[t] > 0 => stored[t] # <<>>
      BY <1>2, <3>1, <3>2 DEF Headed, GoesOn
    <3>10. ~crossed' => Headed(t)'
      BY <1>7, <1>8, <3>1, <3>2, <3>3, <3>9 DEF Headed, GoesOn
    <3>11. QED
      BY <3>8, <3>10
  <2>3. QED
    BY <1>1, <2>1, <2>2, Fixed DEF BatchOK
<1>16. FollowOK'
  <2>1. \A r \in Regs : Has(r) => Has(r)'
    BY <1>7, <1>8 DEF Has
  <2>2. t \in Regs /\ life[t] # "ending" => Has(t)'
    BY <1>3, <1>4, <1>6, <1>8, Kinds, <1>1 DEF Has
  <2>3. \A r \in Regs : r # t => (Asked(r)' = Asked(r)) /\ from'[r] = from[r]
    BY <1>1, Kinds DEF LoadToSend, Asked, Typed
  <2>4. \A r : Due(r)' = Due(r)
    BY <1>1, Fixed DEF LoadToSend, Due
  <2>5. t \in Regs => life[t] # "open" /\ (Asked(t)' => life[t] # "ending")
    BY <1>1, <1>2, <1>7 DEF Asked
  <2>6. table' = table /\ late' = late /\ open' = open /\ dead' = dead /\ ptr' = ptr
    BY DEF LoadToSend
  <2>7. QED
    BY <1>1, <1>2, <1>7, <2>1, <2>2, <2>3, <2>4, <2>5, <2>6, Fixed DEF IInv, FollowOK
<1>17. ClosedOK'
  <2>1. hasty \subseteq hasty' /\ table' = table /\ todo' = todo /\ dead' = dead /\ gate' = gate /\ at' = at
    BY DEF LoadToSend, NoteHaste
  <2>2. \A r \in Regs : r # t => pc'[r] = pc[r]
    BY <1>1, Kinds DEF LoadToSend, Typed
  <2>3. pc'[t] \in {"waiting", "returning"}
    BY <1>1 DEF LoadToSend, Typed
  <2>4. \A r \in Regs : r # t /\ Clean(r) => Clean(r)'
    BY <1>1, <1>3, <1>4, <1>6, <1>7, <1>8, Kinds DEF Clean
  <2>5. ASSUME t \in Regs, t \notin hasty', life[t] = "ending"
        PROVE  t \notin todo /\ Clean(t)'
    <3>1. t \notin todo
      BY <1>1, <1>2, <2>5 DEF LoadToSend, NoteHaste, Opened, IInv, ClosedOK, PhaseOK
    <3>2. out'[Len(out) + 1].what = "unbind" /\ out'[Len(out) + 1].reg = t
      BY <1>3, <1>4, <1>6, <1>8, <2>5, <1>1, Kinds
    <3>3. QED
      BY <1>7, <1>8, <3>1, <3>2 DEF Clean
  <2>6. QED
    BY <1>1, <1>2, <1>7, <2>1, <2>2, <2>3, <2>4, <2>5, Fixed DEF IInv, ClosedOK
<1>18. QED
  BY <1>9, <1>10, <1>11, <1>12, <1>13, <1>14, <1>15, <1>16, <1>17 DEF IInv


LEMMA LoadToSendKeeps ==
  ASSUME IInv, NEW t \in Users, LoadToSend(t)
  PROVE  IInv'
BY NotSentKeeps, SentKeeps

LEMMA GiveUpKeeps ==
  ASSUME IInv, NEW t \in Users, GiveUp(t)
  PROVE  IInv'
<1> USE DEF conn, replay, call, closing, history
<1>1. setup' = setup /\ Typed
  BY DEF GiveUp, IInv
<1>2. Typed'
  BY <1>1, Fixed DEF GiveUp, IInv, Typed, Places, Lives, Phases
<1>3. PhaseOK'
  BY <1>1, Fixed, Kinds DEF GiveUp, IInv, PhaseOK, Typed, Restrict
<1>4. PendingOK'
  BY <1>1, Fixed, Kinds DEF GiveUp, IInv, PendingOK, Typed, Restrict
<1>5. FramesOK'
  BY <1>1, Fixed, Kinds DEF GiveUp, IInv, FramesOK, Typed
<1>6. CallsOK'
  BY <1>1, Fixed, Kinds DEF GiveUp, IInv, CallsOK, Typed
<1>7. NumbersOK'
  BY <1>1, Fixed DEF GiveUp, IInv, NumbersOK, Drawn, Counts, Numbered, Waited, RepliesMatch, Restrict, PendingOK, Typed
<1>8. BatchOK'
  BY <1>1, Kinds, SameBatches DEF GiveUp, IInv, GoesOn, Typed, CallsOK
<1>9. FollowOK'
  BY <1>1, Fixed, Kinds, SameQueues DEF GiveUp, IInv, FollowOK, Typed, CallsOK, PhaseOK, Due, Asked
<1>10. ClosedOK'
  BY <1>1, Fixed, Kinds, SameQueues DEF GiveUp, IInv, ClosedOK, Typed, CallsOK, PhaseOK
<1>11. QED
  BY <1>2, <1>3, <1>4, <1>5, <1>6, <1>7, <1>8, <1>9, <1>10 DEF IInv


LEMMA ReturnKeeps ==
  ASSUME IInv, NEW t \in Users, Return(t)
  PROVE  IInv'
<1> USE DEF conn, replay, call, closing, history
<1>1. setup' = setup /\ Typed
  BY DEF Return, IInv
<1>2. Typed'
  BY <1>1, Fixed DEF Return, IInv, Typed, Places, Lives, Phases, Goes
<1>3. PhaseOK'
  BY <1>1, Fixed, Kinds DEF Return, IInv, PhaseOK, Typed, Goes
<1>4. PendingOK'
  BY <1>1, Fixed, Kinds DEF Return, IInv, PendingOK, Typed
<1>5. FramesOK'
  <2>1. out' = out /\ in' = in
    BY DEF Return
  <2>2. t \in Users /\ life[t] \notin {"fired", "ended"} /\ life \in [Users -> Lives]
    BY <1>1 DEF Return, IInv, CallsOK, Typed
  <2>3. \A u \in Users : u # t => life'[u] = life[u]
    BY <2>2 DEF Return
  <2>4. life[t] = "ending" => life'[t] = "ending" \/ life'[t] = "ended"
    BY <2>2 DEF Return
  <2>5. \A u \in Users : /\ life[u] \in {"ending", "ended"} => life'[u] \in {"ending", "ended"}
                         /\ life[u] = "fired" => life'[u] = "fired"
    BY ONLY <2>2, <2>3, <2>4
  <2>6. \A u : u \in Regs \/ u \in Fires => u \in Users
    BY <1>1, Kinds
  <2>7. FramesOK
    BY DEF IInv
  <2>8. QED
    BY <1>1, <2>1, <2>5, <2>6, <2>7, Fixed DEF FramesOK
<1>6. CallsOK'
  BY <1>1, Fixed, Kinds DEF Return, IInv, CallsOK, Typed, Goes
<1>7. NumbersOK'
  BY <1>1, Fixed DEF Return, IInv, NumbersOK, Drawn, Counts, Numbered, Waited, RepliesMatch, PendingOK, Typed
<1>8. BatchOK'
  BY <1>1, Kinds, SameBatches DEF Return, IInv, GoesOn, Typed, CallsOK, Goes
<1>9. FollowOK'
  BY <1>1, Fixed, Kinds, SameQueues DEF Return, IInv, FollowOK, Typed, CallsOK, PhaseOK, Due, Asked, Goes
<1>10. ClosedOK'
  BY <1>1, Fixed, Kinds, SameQueues, NothingQueued DEF Return, IInv, ClosedOK, Typed, CallsOK, PhaseOK, Goes
<1>11. QED
  BY <1>2, <1>3, <1>4, <1>5, <1>6, <1>7, <1>8, <1>9, <1>10 DEF IInv


-----------------------------------------------------------------------------
(* The supervisor and Close.                                               *)

LEMMA ReaderPassKeeps ==
  ASSUME IInv, ReaderPass
  PROVE  IInv'
<1> USE DEF conn, replay, call, closing, history
<1>1. setup' = setup /\ Typed
  BY DEF ReaderPass, IInv
<1>2. Typed'
  BY <1>1, Fixed DEF ReaderPass, IInv, Typed, Places, Lives, Phases
<1>3. PhaseOK'
  BY <1>1, Fixed, Kinds DEF ReaderPass, IInv, PhaseOK, Typed
<1>4. PendingOK'
  BY <1>1, Fixed, Kinds DEF ReaderPass, IInv, PendingOK, Typed
<1>5. FramesOK'
  BY <1>1, Fixed, Kinds DEF ReaderPass, IInv, FramesOK, Typed
<1>6. CallsOK'
  BY <1>1, Fixed, Kinds DEF ReaderPass, IInv, CallsOK, Typed
<1>7. NumbersOK'
  BY <1>1, SameNumbers DEF ReaderPass, IInv, Typed
<1>8. BatchOK'
  BY <1>1, Kinds, SameBatches DEF ReaderPass, IInv, GoesOn, Typed, CallsOK
<1>9. FollowOK'
  BY <1>1, Fixed, Kinds, SameQueues DEF ReaderPass, IInv, FollowOK, Typed, CallsOK, PhaseOK, Due, Asked
<1>10. ClosedOK'
  BY <1>1, Fixed, Kinds, SameQueues DEF ReaderPass, IInv, ClosedOK, Typed, CallsOK, PhaseOK
<1>11. QED
  BY <1>2, <1>3, <1>4, <1>5, <1>6, <1>7, <1>8, <1>9, <1>10 DEF IInv


LEMMA SupNoticeKeeps ==
  ASSUME IInv, SupNotice
  PROVE  IInv'
<1> USE DEF conn, replay, call, closing, history
<1>1. setup' = setup /\ Typed
  BY DEF SupNotice, IInv
<1>2. Typed'
  BY <1>1, Fixed DEF SupNotice, IInv, Typed, Places, Lives, Phases
<1>3. PhaseOK'
  BY <1>1, Fixed, Kinds DEF SupNotice, IInv, PhaseOK, Typed
<1>4. PendingOK'
  BY <1>1, Fixed, Kinds DEF SupNotice, IInv, PendingOK, Typed
<1>5. FramesOK'
  BY <1>1, Fixed, Kinds DEF SupNotice, IInv, FramesOK, Typed
<1>6. CallsOK'
  BY <1>1, Fixed, Kinds DEF SupNotice, IInv, CallsOK, Typed
<1>7. NumbersOK'
  BY <1>1, SameNumbers DEF SupNotice, IInv, Typed
<1>8. BatchOK'
  BY <1>1, Kinds, SameBatches DEF SupNotice, IInv, GoesOn, Typed, CallsOK
<1>9. FollowOK'
  BY <1>1, Fixed, Kinds, SameQueues DEF SupNotice, IInv, FollowOK, Typed, CallsOK, PhaseOK, Due, Asked
<1>10. ClosedOK'
  BY <1>1, Fixed, Kinds, SameQueues DEF SupNotice, IInv, ClosedOK, Typed, CallsOK, PhaseOK
<1>11. QED
  BY <1>2, <1>3, <1>4, <1>5, <1>6, <1>7, <1>8, <1>9, <1>10 DEF IInv


LEMMA ShutGateKeeps ==
  ASSUME IInv, ShutGate
  PROVE  IInv'
<1> USE DEF conn, replay, call, closing, history
<1>1. setup' = setup /\ Typed
  BY DEF ShutGate, IInv
<1>2. Typed'
  BY <1>1, Fixed DEF ShutGate, IInv, Typed, Places, Lives, Phases
<1>3. PhaseOK'
  BY <1>1, Fixed, Kinds DEF ShutGate, IInv, PhaseOK, Typed
<1>4. PendingOK'
  BY <1>1, Fixed, Kinds DEF ShutGate, IInv, PendingOK, Typed
<1>5. FramesOK'
  BY <1>1, Fixed, Kinds DEF ShutGate, IInv, FramesOK, Typed
<1>6. CallsOK'
  BY <1>1, Fixed, Kinds DEF ShutGate, IInv, CallsOK, Typed
<1>7. NumbersOK'
  BY <1>1, SameNumbers DEF ShutGate, IInv, Typed
<1>8. BatchOK'
  BY <1>1, Kinds, SameBatches DEF ShutGate, IInv, GoesOn, Typed, CallsOK
<1>9. FollowOK'
  BY <1>1, Fixed, Kinds, SameQueues DEF ShutGate, IInv, FollowOK, Typed, CallsOK, PhaseOK, Due, Asked
<1>10. ClosedOK'
  BY <1>1, Fixed, Kinds, SameQueues DEF ShutGate, IInv, ClosedOK, Typed, CallsOK, PhaseOK
<1>11. QED
  BY <1>2, <1>3, <1>4, <1>5, <1>6, <1>7, <1>8, <1>9, <1>10 DEF IInv


LEMMA DialledKeeps ==
  ASSUME IInv, Dialled
  PROVE  IInv'
<1> USE DEF conn, replay, call, closing, history
<1>1. setup' = setup /\ Typed
  BY DEF Dialled, IInv
<1>2. Typed'
  BY <1>1, Fixed, Kinds DEF Dialled, IInv, Typed, Phases
<1>3. PhaseOK'
  BY <1>1, Fixed, Kinds DEF Dialled, IInv, PhaseOK, Typed
<1>4. PendingOK'
  BY <1>1, Fixed, Kinds DEF Dialled, IInv, PendingOK, Typed
<1>5. FramesOK'
  BY <1>1, Fixed, Kinds DEF Dialled, IInv, FramesOK, Typed
<1>6. CallsOK'
  BY <1>1, Fixed, Kinds DEF Dialled, IInv, CallsOK, Typed
<1>7. NumbersOK'
  BY <1>1, Fixed DEF Dialled, IInv, NumbersOK, Drawn, Counts, Numbered, Waited, RepliesMatch, PhaseOK, Typed
<1>8. BatchOK'
  BY <1>1, Kinds, SameBatches DEF Dialled, IInv, GoesOn, Typed, CallsOK
<1>9. FollowOK'
  BY <1>1, Fixed, Kinds, SameQueues DEF Dialled, IInv, FollowOK, Typed, CallsOK, PhaseOK, Due, Asked
<1>10. ClosedOK'
  BY <1>1, Fixed, Kinds, SameQueues DEF Dialled, IInv, ClosedOK, Typed, CallsOK, PhaseOK
<1>11. QED
  BY <1>2, <1>3, <1>4, <1>5, <1>6, <1>7, <1>8, <1>9, <1>10 DEF IInv


LEMMA NoReconnectKeeps ==
  ASSUME IInv, NoReconnect
  PROVE  IInv'
<1> USE DEF conn, replay, call, closing, history
<1>1. setup' = setup /\ Typed
  BY DEF NoReconnect, Abandon, ClosedLocally, IInv
<1>2. Typed'
  BY <1>1, Fixed DEF NoReconnect, Abandon, ClosedLocally, IInv, Typed, Places, Lives, Phases
<1>3. PhaseOK'
  BY <1>1, Fixed, Kinds DEF NoReconnect, Abandon, ClosedLocally, IInv, PhaseOK, Typed
<1>4. PendingOK'
  BY <1>1, Fixed, Kinds DEF NoReconnect, Abandon, ClosedLocally, IInv, PendingOK, Typed
<1>5. FramesOK'
  BY <1>1, Fixed, Kinds DEF NoReconnect, Abandon, ClosedLocally, IInv, FramesOK, Typed
<1>6. CallsOK'
  BY <1>1, Fixed, Kinds DEF NoReconnect, Abandon, ClosedLocally, IInv, CallsOK, Typed
<1>7. NumbersOK'
  BY <1>1, SameNumbers DEF NoReconnect, Abandon, ClosedLocally, IInv, Typed
<1>8. BatchOK'
  BY <1>1, Kinds, SameBatches DEF NoReconnect, Abandon, ClosedLocally, IInv, GoesOn, Typed, CallsOK
<1>9. FollowOK'
  BY <1>1, Fixed, Kinds, SameQueues DEF NoReconnect, Abandon, ClosedLocally, IInv, FollowOK, Typed, CallsOK, PhaseOK, Due, Asked
<1>10. ClosedOK'
  BY <1>1, Fixed, Kinds, SameQueues, NothingQueued DEF NoReconnect, Abandon, ClosedLocally, IInv, ClosedOK, Typed, CallsOK, PhaseOK
<1>11. QED
  BY <1>2, <1>3, <1>4, <1>5, <1>6, <1>7, <1>8, <1>9, <1>10 DEF IInv


LEMMA DialFailsKeeps ==
  ASSUME IInv, DialFails
  PROVE  IInv'
<1> USE DEF conn, replay, call, closing, history
<1>1. setup' = setup /\ Typed
  BY DEF DialFails, Abandon, ClosedLocally, Reopened, IInv
<1>2. Typed'
  BY <1>1, Fixed DEF DialFails, Abandon, ClosedLocally, Reopened, IInv, Typed, Places, Lives, Phases
<1>3. PhaseOK'
  BY <1>1, Fixed, Kinds DEF DialFails, Abandon, ClosedLocally, Reopened, IInv, PhaseOK, Typed
<1>4. PendingOK'
  BY <1>1, Fixed, Kinds DEF DialFails, Abandon, ClosedLocally, Reopened, IInv, PendingOK, Typed
<1>5. FramesOK'
  BY <1>1, Fixed, Kinds DEF DialFails, Abandon, ClosedLocally, Reopened, IInv, FramesOK, Typed
<1>6. CallsOK'
  BY <1>1, Fixed, Kinds DEF DialFails, Abandon, ClosedLocally, Reopened, IInv, CallsOK, Typed
<1>7. NumbersOK'
  BY <1>1, SameNumbers DEF DialFails, Abandon, ClosedLocally, Reopened, IInv, Typed
<1>8. BatchOK'
  BY <1>1, Kinds, SameBatches DEF DialFails, Abandon, ClosedLocally, Reopened, IInv, GoesOn, Typed, CallsOK
<1>9. FollowOK'
  BY <1>1, Fixed, Kinds, SameQueues DEF DialFails, Abandon, ClosedLocally, Reopened, IInv, FollowOK, Typed, CallsOK, PhaseOK, Due, Asked
<1>10. ClosedOK'
  BY <1>1, Fixed, Kinds, SameQueues, NothingQueued DEF DialFails, Abandon, ClosedLocally, Reopened, IInv, ClosedOK, Typed, CallsOK, PhaseOK
<1>11. QED
  BY <1>2, <1>3, <1>4, <1>5, <1>6, <1>7, <1>8, <1>9, <1>10 DEF IInv


LEMMA SnapshotSubsKeeps ==
  ASSUME IInv, SnapshotSubs
  PROVE  IInv'
<1> USE DEF conn, replay, call, closing, history
<1>1. setup' = setup /\ Typed
  BY DEF SnapshotSubs, Snapshot, IInv
<1>2. Typed'
  BY <1>1, Fixed DEF SnapshotSubs, Snapshot, IInv, Typed, Places, Lives, Phases
<1>3. PhaseOK'
  BY <1>1, Fixed, Kinds DEF SnapshotSubs, Snapshot, IInv, PhaseOK, Typed
<1>4. PendingOK'
  BY <1>1, Fixed, Kinds DEF SnapshotSubs, Snapshot, IInv, PendingOK, Typed
<1>5. FramesOK'
  BY <1>1, Fixed, Kinds DEF SnapshotSubs, Snapshot, IInv, FramesOK, Typed
<1>6. CallsOK'
  BY <1>1, Fixed, Kinds DEF SnapshotSubs, Snapshot, IInv, CallsOK, Typed
<1>7. NumbersOK'
  BY <1>1, SameNumbers DEF SnapshotSubs, Snapshot, IInv, Typed
<1>8. BatchOK'
  BY <1>1, Kinds, SameBatches DEF SnapshotSubs, Snapshot, IInv, GoesOn, Typed, CallsOK
<1>9. FollowOK'
  BY <1>1, Fixed, Kinds, SameQueues DEF SnapshotSubs, Snapshot, IInv, FollowOK, Typed, CallsOK, PhaseOK, Due, Asked
<1>10. ClosedOK'
  BY <1>1, Fixed, Kinds, SameQueues DEF SnapshotSubs, Snapshot, IInv, ClosedOK, Typed, CallsOK, PhaseOK
<1>11. QED
  BY <1>2, <1>3, <1>4, <1>5, <1>6, <1>7, <1>8, <1>9, <1>10 DEF IInv


LEMMA SnapshotCronsKeeps ==
  ASSUME IInv, SnapshotCrons
  PROVE  IInv'
<1> USE DEF conn, replay, call, closing, history
<1>1. setup' = setup /\ Typed
  BY DEF SnapshotCrons, Snapshot, IInv
<1>2. Typed'
  BY <1>1, Fixed DEF SnapshotCrons, Snapshot, IInv, Typed, Places, Lives, Phases
<1>3. PhaseOK'
  BY <1>1, Fixed, Kinds DEF SnapshotCrons, Snapshot, IInv, PhaseOK, Typed
<1>4. PendingOK'
  BY <1>1, Fixed, Kinds DEF SnapshotCrons, Snapshot, IInv, PendingOK, Typed
<1>5. FramesOK'
  BY <1>1, Fixed, Kinds DEF SnapshotCrons, Snapshot, IInv, FramesOK, Typed
<1>6. CallsOK'
  BY <1>1, Fixed, Kinds DEF SnapshotCrons, Snapshot, IInv, CallsOK, Typed
<1>7. NumbersOK'
  BY <1>1, SameNumbers DEF SnapshotCrons, Snapshot, IInv, Typed
<1>8. BatchOK'
  BY <1>1, Kinds, SameBatches DEF SnapshotCrons, Snapshot, IInv, GoesOn, Typed, CallsOK
<1>9. FollowOK'
  BY <1>1, Fixed, Kinds, SameQueues DEF SnapshotCrons, Snapshot, IInv, FollowOK, Typed, CallsOK, PhaseOK, Due, Asked
<1>10. ClosedOK'
  BY <1>1, Fixed, Kinds, SameQueues DEF SnapshotCrons, Snapshot, IInv, ClosedOK, Typed, CallsOK, PhaseOK
<1>11. QED
  BY <1>2, <1>3, <1>4, <1>5, <1>6, <1>7, <1>8, <1>9, <1>10 DEF IInv


LEMMA ReplayGiveUpKeeps ==
  ASSUME IInv, ReplayGiveUp
  PROVE  IInv'
<1> USE DEF conn, replay, call, closing, history
<1>1. setup' = setup /\ Typed
  BY DEF ReplayGiveUp, IInv
<1>2. Typed'
  BY <1>1, Fixed DEF ReplayGiveUp, IInv, Typed, Places, Lives, Phases
<1>3. PhaseOK'
  BY <1>1, Fixed, Kinds DEF ReplayGiveUp, IInv, PhaseOK, Typed, Restrict
<1>4. PendingOK'
  BY <1>1, Fixed, Kinds DEF ReplayGiveUp, IInv, PendingOK, Typed, Restrict
<1>5. FramesOK'
  BY <1>1, Fixed, Kinds DEF ReplayGiveUp, IInv, FramesOK, Typed
<1>6. CallsOK'
  BY <1>1, Fixed, Kinds DEF ReplayGiveUp, IInv, CallsOK, Typed
<1>7. NumbersOK'
  BY <1>1, Fixed DEF ReplayGiveUp, IInv, NumbersOK, Drawn, Counts, Numbered, Waited, RepliesMatch, Restrict, Typed
<1>8. BatchOK'
  BY <1>1, Kinds, SameBatches DEF ReplayGiveUp, IInv, GoesOn, Typed, CallsOK
<1>9. FollowOK'
  BY <1>1, Fixed, Kinds, SameQueues DEF ReplayGiveUp, IInv, FollowOK, Typed, CallsOK, PhaseOK, Due, Asked
<1>10. ClosedOK'
  BY <1>1, Fixed, Kinds, SameQueues DEF ReplayGiveUp, IInv, ClosedOK, Typed, CallsOK, PhaseOK
<1>11. QED
  BY <1>2, <1>3, <1>4, <1>5, <1>6, <1>7, <1>8, <1>9, <1>10 DEF IInv


LEMMA ReplayDoneKeeps ==
  ASSUME IInv, ReplayDone
  PROVE  IInv'
<1> USE DEF conn, replay, call, closing, history
<1>1. setup' = setup /\ Typed
  BY DEF ReplayDone, Reopened, IInv
<1>2. Typed'
  BY <1>1, Fixed DEF ReplayDone, Reopened, IInv, Typed, Places, Lives, Phases
<1>3. PhaseOK'
  BY <1>1, Fixed, Kinds DEF ReplayDone, Reopened, IInv, PhaseOK, Typed
<1>4. PendingOK'
  BY <1>1, Fixed, Kinds DEF ReplayDone, Reopened, IInv, PendingOK, Typed
<1>5. FramesOK'
  BY <1>1, Fixed, Kinds DEF ReplayDone, Reopened, IInv, FramesOK, Typed
<1>6. CallsOK'
  BY <1>1, Fixed, Kinds DEF ReplayDone, Reopened, IInv, CallsOK, Typed
<1>7. NumbersOK'
  BY <1>1, SameNumbers DEF ReplayDone, Reopened, IInv, Typed
<1>8. BatchOK'
  BY <1>1, Kinds, SameBatches DEF ReplayDone, Reopened, IInv, GoesOn, Typed, CallsOK
<1>9. FollowOK'
  BY <1>1, Fixed, Kinds, SameQueues DEF ReplayDone, Reopened, IInv, FollowOK, Typed, CallsOK, PhaseOK, Due, Asked
<1>10. ClosedOK'
  BY <1>1, Fixed, Kinds, SameQueues DEF ReplayDone, Reopened, IInv, ClosedOK, Typed, CallsOK, PhaseOK
<1>11. QED
  BY <1>2, <1>3, <1>4, <1>5, <1>6, <1>7, <1>8, <1>9, <1>10 DEF IInv


LEMMA CloseKeeps ==
  ASSUME IInv, Close
  PROVE  IInv'
<1> USE DEF conn, replay, call, closing, history
<1>1. setup' = setup /\ Typed
  BY DEF Close, IInv
<1>2. Typed'
  BY <1>1, Fixed DEF Close, IInv, Typed, Places, Lives, Phases
<1>3. PhaseOK'
  BY <1>1, Fixed, Kinds DEF Close, IInv, PhaseOK, Typed
<1>4. PendingOK'
  BY <1>1, Fixed, Kinds DEF Close, IInv, PendingOK, Typed
<1>5. FramesOK'
  BY <1>1, Fixed, Kinds DEF Close, IInv, FramesOK, Typed
<1>6. CallsOK'
  BY <1>1, Fixed, Kinds DEF Close, IInv, CallsOK, Typed
<1>7. NumbersOK'
  BY <1>1, SameNumbers DEF Close, IInv, Typed
<1>8. BatchOK'
  BY <1>1, Kinds, SameBatches DEF Close, IInv, GoesOn, Typed, CallsOK
<1>9. FollowOK'
  BY <1>1, Fixed, Kinds, SameQueues DEF Close, IInv, FollowOK, Typed, CallsOK, PhaseOK, Due, Asked
<1>10. ClosedOK'
  BY <1>1, Fixed, Kinds, SameQueues DEF Close, IInv, ClosedOK, Typed, CallsOK, PhaseOK
<1>11. QED
  BY <1>2, <1>3, <1>4, <1>5, <1>6, <1>7, <1>8, <1>9, <1>10 DEF IInv


LEMMA CloseReadGateKeeps ==
  ASSUME IInv, CloseReadGate
  PROVE  IInv'
<1> USE DEF conn, replay, call, closing, history
<1>1. setup' = setup /\ Typed
  BY DEF CloseReadGate, IInv
<1>2. Typed'
  BY <1>1, Fixed DEF CloseReadGate, IInv, Typed, Places, Lives, Phases
<1>3. PhaseOK'
  BY <1>1, Fixed, Kinds DEF CloseReadGate, IInv, PhaseOK, Typed
<1>4. PendingOK'
  BY <1>1, Fixed, Kinds DEF CloseReadGate, IInv, PendingOK, Typed
<1>5. FramesOK'
  BY <1>1, Fixed, Kinds DEF CloseReadGate, IInv, FramesOK, Typed
<1>6. CallsOK'
  BY <1>1, Fixed, Kinds DEF CloseReadGate, IInv, CallsOK, Typed
<1>7. NumbersOK'
  BY <1>1, SameNumbers DEF CloseReadGate, IInv, Typed
<1>8. BatchOK'
  BY <1>1, Kinds, SameBatches DEF CloseReadGate, IInv, GoesOn, Typed, CallsOK
<1>9. FollowOK'
  BY <1>1, Fixed, Kinds, SameQueues DEF CloseReadGate, IInv, FollowOK, Typed, CallsOK, PhaseOK, Due, Asked
<1>10. ClosedOK'
  BY <1>1, Fixed, Kinds, SameQueues DEF CloseReadGate, IInv, ClosedOK, Typed, CallsOK, PhaseOK
<1>11. QED
  BY <1>2, <1>3, <1>4, <1>5, <1>6, <1>7, <1>8, <1>9, <1>10 DEF IInv



-----------------------------------------------------------------------------
(* The connection's end.                                                   *)

\* What else there is when a connection closes.
Untouched ==
  UNCHANGED <<setup, ptr, next, sup, gate, todo, dead, table, at, num, from, life, sent,
              copies, history>>

LEMMA ShutKeeps ==
  ASSUME IInv, Shut, Untouched
  PROVE  IInv'
<1> USE DEF conn, replay, call, closing, history
<1>1. setup' = setup /\ Typed
  BY DEF Shut, Untouched, IInv
<1>2. /\ DOMAIN pending' = {} /\ Len(out') = 0 /\ Len(in') = 0
      /\ out' \in Seq(AnyFrame) /\ in' \in Seq(AnyFrame) /\ bound' = {} /\ open' = FALSE
  BY DEF Shut
<1>3. /\ \A t \in Users : pc'[t] \in {pc[t], "returning"} /\ answer'[t] \in {answer[t], Failed}
      /\ \A t \in Users : pc'[t] # pc[t] => answer'[t] = Failed
      /\ \A t \in Users : pc'[t] # pc[t] => t \in Range(pending)
      /\ DOMAIN pc' = Users /\ DOMAIN answer' = Users
  BY <1>1 DEF Shut, Woken, Typed
<1>4. \A t \in Range(pending) \cap Users : pc[t] = "waiting"
  BY <1>1, Kinds DEF Range, IInv, PendingOK
<1>5. awaiting' \in {0, awaiting}
  BY DEF Shut
<1>6. Typed'
  <2>1. \A t \in Users : pc'[t] \in Places
    BY <1>1, <1>3 DEF Typed, Places
  <2>2. pc' = [t \in Users |-> pc'[t]] /\ answer' = [t \in Users |-> answer'[t]]
    BY DEF Shut
  <2>3. pc' \in [Users -> Places]
    BY <2>1, <2>2
  <2>4. /\ setup' = setup /\ ptr' = ptr /\ next' = next /\ sup' = sup /\ gate' = gate
        /\ dead' = dead /\ num' = num /\ from' = from /\ life' = life /\ sent' = sent
        /\ at' = at /\ stored' = stored /\ crossed' = crossed /\ reader' = 0
    BY DEF Shut, Untouched
  <2>5. awaiting' \in Nat /\ DOMAIN answer' = Users /\ DOMAIN at' = Users
    BY <1>1, <1>3, <1>5, <2>4 DEF Typed
  <2>6. reader' \in 0..ptr'
    BY <1>1, <2>4 DEF Typed
  <2>7. QED
    BY <1>1, <1>2, <2>3, <2>4, <2>5, <2>6, Fixed DEF Typed
<1>7. PhaseOK'
  BY <1>1, <1>2, <1>5, Fixed, Kinds DEF Shut, Untouched, IInv, PhaseOK, Typed
<1>8. PendingOK'
  BY <1>2 DEF PendingOK
<1>9. FramesOK'
  BY <1>2 DEF FramesOK
<1>10. CallsOK'
  BY <1>1, <1>3, <1>4, Fixed, Kinds DEF Shut, Untouched, IInv, CallsOK, Typed
<1>11. NumbersOK'
  BY <1>1, <1>2, <1>3, Fixed DEF Shut, Untouched, IInv, NumbersOK, Drawn, Counts, Numbered, Waited, RepliesMatch
<1>12. BatchOK'
  <2>1. ASSUME NEW t \in Batches
        PROVE  InOrder(t)' /\ (~crossed' => Headed(t)')
    <3>1. InOrder(t) /\ (~crossed => Headed(t)) /\ t \in Users
      BY <1>1, <2>1, Kinds DEF IInv, BatchOK
    <3>2. stored' = stored /\ sent' = sent /\ crossed' = crossed
      BY DEF Shut, Untouched
    <3>3. GoesOn(t)' => GoesOn(t)
      BY <1>3, <3>1, <3>2 DEF GoesOn
    <3>4. InOrder(t)'
      BY <1>2, <3>1, <3>2 DEF InOrder
    <3>5. QED
      BY <1>2, <3>1, <3>2, <3>3, <3>4 DEF Headed
  <2>2. QED
    BY <1>1, <2>1, Fixed DEF BatchOK
<1>13. FollowOK'
  BY <1>1, <1>2, Fixed, Kinds DEF Shut, Untouched, IInv, FollowOK
<1>14. ClosedOK'
  <2>1. \A r : Clean(r)'
    BY <1>2 DEF Clean
  <2>2. \A t \in Users : life[t] = "ending" /\ pc'[t] \in {"waiting", "returning", "load"} =>
          pc[t] = pc'[t] \/ (pc'[t] = "returning" /\ pc[t] = "waiting")
    BY <1>3, <1>4
  <2>3. QED
    BY <1>1, <2>1, <2>2, Fixed, Kinds DEF Shut, Untouched, IInv, ClosedOK
<1>15. QED
  BY <1>6, <1>7, <1>8, <1>9, <1>10, <1>11, <1>12, <1>13, <1>14 DEF IInv


LEMMA BreakKeeps ==
  ASSUME IInv, Break
  PROVE  IInv'
BY ShutKeeps DEF Break, Untouched, history

LEMMA CloseFindsNothing ==
  ASSUME IInv, CloseConn, ~open
  PROVE  IInv'
<1> USE DEF conn, replay, call, closing, history
<1>1. setup' = setup /\ Typed
  BY DEF CloseConn, IInv
<1>2. Typed'
  BY <1>1, Fixed DEF CloseConn, IInv, Typed, Places, Lives, Phases
<1>3. PhaseOK'
  BY <1>1, Fixed, Kinds DEF CloseConn, IInv, PhaseOK, Typed
<1>4. PendingOK'
  BY <1>1, Fixed, Kinds DEF CloseConn, IInv, PendingOK, Typed
<1>5. FramesOK'
  BY <1>1, Fixed, Kinds DEF CloseConn, IInv, FramesOK, Typed
<1>6. CallsOK'
  BY <1>1, Fixed, Kinds DEF CloseConn, IInv, CallsOK, Typed
<1>7. NumbersOK'
  BY <1>1, SameNumbers DEF CloseConn, IInv, Typed
<1>8. BatchOK'
  BY <1>1, Kinds, SameBatches DEF CloseConn, IInv, GoesOn, Typed, CallsOK
<1>9. FollowOK'
  BY <1>1, Fixed, Kinds, SameQueues DEF CloseConn, IInv, FollowOK, Typed, CallsOK, PhaseOK, Due, Asked
<1>10. ClosedOK'
  BY <1>1, Fixed, Kinds, SameQueues DEF CloseConn, IInv, ClosedOK, Typed, CallsOK, PhaseOK
<1>11. QED
  BY <1>2, <1>3, <1>4, <1>5, <1>6, <1>7, <1>8, <1>9, <1>10 DEF IInv


LEMMA CloseConnKeeps ==
  ASSUME IInv, CloseConn
  PROVE  IInv'
<1>1. CASE open
  BY <1>1, ShutKeeps DEF CloseConn, Untouched, history
<1>2. CASE ~open
  BY <1>2, CloseFindsNothing
<1>3. QED
  BY <1>1, <1>2

-----------------------------------------------------------------------------
(* The replay.                                                             *)

\* The new connection is already closed.
LEMMA NotReplayedKeeps ==
  ASSUME IInv, NEW r \in Regs, ReplayOne(r), ~open
  PROVE  IInv'
<1> USE DEF conn, replay, call, closing, history
<1>1. setup' = setup /\ Typed
  BY DEF ReplayOne, IInv
<1>2. Typed'
  BY <1>1, Fixed DEF ReplayOne, IInv, Typed, Places, Lives, Phases
<1>3. PhaseOK'
  BY <1>1, Fixed, Kinds DEF ReplayOne, IInv, PhaseOK, Typed
<1>4. PendingOK'
  BY <1>1, Fixed, Kinds DEF ReplayOne, IInv, PendingOK, Typed
<1>5. FramesOK'
  BY <1>1, Fixed, Kinds DEF ReplayOne, IInv, FramesOK, Typed
<1>6. CallsOK'
  BY <1>1, Fixed, Kinds DEF ReplayOne, IInv, CallsOK, Typed
<1>7. NumbersOK'
  BY <1>1, Fixed DEF ReplayOne, IInv, NumbersOK, PhaseOK, Drawn, Counts, Numbered, Waited, RepliesMatch, Typed
<1>8. BatchOK'
  BY <1>1, Kinds, SameBatches DEF ReplayOne, IInv, GoesOn, Typed, CallsOK
<1>9. FollowOK'
  BY <1>1, Fixed, Kinds, SameQueues DEF ReplayOne, IInv, FollowOK, Typed, CallsOK, PhaseOK, Due, Asked
<1>10. ClosedOK'
  BY <1>1, Fixed, Kinds, SameQueues, NothingQueued DEF ReplayOne, IInv, ClosedOK, Typed, CallsOK, PhaseOK
<1>11. QED
  BY <1>2, <1>3, <1>4, <1>5, <1>6, <1>7, <1>8, <1>9, <1>10 DEF IInv


\* The replay sends a registration.
LEMMA ReplayedKeeps ==
  ASSUME IInv, NEW r \in Regs, ReplayOne(r), open
  PROVE  IInv'
<1> USE DEF conn, replay, call, closing, history
<1>1. setup' = setup /\ Typed
  BY DEF ReplayOne, IInv
<1> DEFINE f == Frame(next, Replayer, "bind", r)
<1>2. /\ f \in AnyFrame /\ f.n = next /\ f.by = Replayer /\ f.what = "bind" /\ f.reg = r
      /\ r \in Users
  BY <1>1, Kinds DEF Frame, AnyFrame, Whats, Typed
<1>3. /\ out' = Append(out, f) /\ in' = in /\ bound' = bound /\ life' = life /\ pc' = pc
      /\ pending' = Register(next, Replayer) /\ awaiting' = next /\ awaiting = 0
      /\ next' = next + 1 /\ todo' = todo \ {r} /\ r \in todo
  BY DEF ReplayOne
<1> HIDE DEF f
<1>4. /\ out' \in Seq(AnyFrame) /\ Len(out) \in Nat /\ Len(out') = Len(out) + 1
      /\ \A i \in 1..Len(out) : out'[i] = out[i] /\ out[i] \in AnyFrame
      /\ out'[Len(out) + 1] = f
  <2>1. out \in Seq(AnyFrame)
    BY <1>1 DEF Typed
  <2>2. QED
    BY <1>2, <1>3, <2>1, Queued
<1>5. Typed'
  BY <1>1, <1>4, Fixed DEF ReplayOne, IInv, Typed
<1>6. PhaseOK'
  BY <1>1, Fixed, Kinds DEF ReplayOne, IInv, PhaseOK, Typed
<1>7. PendingOK'
  BY <1>1, <1>2, <1>3, Fixed, Kinds DEF ReplayOne, IInv, PendingOK, Typed, Register, Waiters
<1>8. FramesOK'
  <2>1. \A i \in 1..Len(out') : (i \in 1..Len(out) /\ out'[i] = out[i]) \/ out'[i] = f
    BY <1>4
  <2>2. QED
    BY <1>1, <1>2, <1>3, <2>1, Fixed DEF IInv, FramesOK
<1>9. CallsOK'
  BY <1>1, Fixed, Kinds DEF ReplayOne, IInv, CallsOK, Typed
<1>10. NumbersOK'
  <2>1. SUFFICES ASSUME ~crossed
                 PROVE  Drawn' /\ Numbered(out)' /\ Numbered(in)' /\ Waited' /\ RepliesMatch'
    BY DEF NumbersOK, ReplayOne
  <2>2. Drawn /\ Numbered(out) /\ Numbered(in) /\ Waited /\ RepliesMatch
    BY <2>1 DEF NumbersOK, IInv
  <2>3. /\ num' = num /\ from' = from /\ ptr' = ptr /\ answer' = answer
        /\ num \in [Users -> Nat] /\ next \in Nat /\ next' = next + 1
    BY <1>1 DEF ReplayOne, Typed
  <2>4. \A u : Counts(u)' = Counts(u)
    BY <2>3 DEF Counts
  <2>5. Drawn'
    BY <1>1, <2>2, <2>3, <2>4, Fixed DEF Drawn
  <2>6. \A i \in 1..Len(in) : in[i].n \in Nat
    BY <1>1, Fields DEF Typed
  <2>7. \A i \in 1..Len(out) : out[i].n \in Nat
    BY <1>1, Fields DEF Typed
  <2>8. Numbered(in)'
    BY <1>1, <1>3, <2>2, <2>3, <2>4, <2>6, Fixed DEF Numbered
  <2>9. \A u \in Users : Counts(u) => num[u] # next
    BY <2>2, <2>3 DEF Drawn
  <2>10. \A i \in 1..Len(out') : (i \in 1..Len(out) /\ out'[i] = out[i]) \/ out'[i] = f
    BY <1>4
  <2>11. Numbered(out)'
    <3>1. ASSUME NEW i \in 1..Len(out')
          PROVE  /\ out'[i].n < next + 1
                 /\ \A u \in Users : Counts(u) /\ num[u] = out'[i].n => out'[i].by = u
      <4>1. CASE i \in 1..Len(out) /\ out'[i] = out[i]
        <5>1. out[i].n < next /\ \A u \in Users : Counts(u) /\ num[u] = out[i].n => out[i].by = u
          BY <2>2, <4>1 DEF Numbered
        <5>2. out[i].n \in Nat
          BY <2>7, <4>1
        <5>3. QED
          BY ONLY <2>3, <4>1, <5>1, <5>2
      <4>2. CASE out'[i] = f
        BY ONLY <1>2, <2>3, <2>9, <4>2
      <4>3. QED
        BY <2>10, <4>1, <4>2
    <3>2. QED
      BY <1>1, <2>3, <2>4, <3>1, Fixed DEF Numbered
  <2>12. Waited'
    BY <1>3, <2>2, <2>3 DEF Register, Waited
  <2>13. RepliesMatch'
    BY <1>1, <2>2, <2>3, Fixed DEF RepliesMatch
  <2>14. QED
    BY <2>5, <2>8, <2>11, <2>12, <2>13
<1>11. BatchOK'
  <2>1. ASSUME NEW u \in Batches
        PROVE  InOrder(u)' /\ (~crossed' => Headed(u)')
    <3>1. stored' = stored /\ sent' = sent /\ crossed' = crossed /\ GoesOn(u)' = GoesOn(u)
      BY DEF ReplayOne, GoesOn
    <3>2. InOrder(u) /\ (~crossed => Headed(u)) /\ u # Replayer
      BY <1>1, Kinds DEF IInv, BatchOK
    <3>3. \A i \in 1..Len(out') : out'[i].by = u => i \in 1..Len(out) /\ out'[i] = out[i]
      BY <1>2, <1>4, <3>2
    <3>4. InOrder(u)'
      <4>1. ASSUME NEW i \in 1..Len(out'), out'[i].what = "chunk", out'[i].by = u
            PROVE  /\ out'[i].reg \in 1..sent[u]
                   /\ \A k \in 1..Len(stored[u]) : stored[u][k] < out'[i].reg
                   /\ \A j \in 1..(i - 1) : out'[j].what = "chunk" /\ out'[j].by = u =>
                        out'[j].reg < out'[i].reg
        <5>1. i \in 1..Len(out) /\ out'[i] = out[i]
          BY ONLY <3>3, <4>1
        <5>2. \A j \in 1..(i - 1) : j \in 1..Len(out) /\ out'[j] = out[j]
          BY ONLY <1>4, <5>1
        <5>3. QED
          BY ONLY <3>2, <4>1, <5>1, <5>2 DEF InOrder
      <4>2. QED
        BY <3>1, <3>2, <4>1 DEF InOrder
    <3>5. QED
      BY <1>3, <1>4, <3>1, <3>2, <3>3, <3>4 DEF Headed
  <2>2. QED
    BY <1>1, <2>1, Fixed DEF BatchOK
<1>12. FollowOK'
  <2>1. \A s \in Regs : Has(s) => Has(s)'
    BY <1>3, <1>4 DEF Has
  <2>2. Has(r)'
    BY <1>2, <1>4 DEF Has
  <2>3. \A s \in Regs : s # r /\ Due(s) => Due(s)'
    BY <1>1, <1>3, Fixed DEF ReplayOne, Due
  <2>4. QED
    BY <1>1, <2>1, <2>2, <2>3, Fixed DEF ReplayOne, IInv, FollowOK, Asked
<1>13. ClosedOK'
  <2>1. \A s \in Regs : s # r /\ Clean(s) => Clean(s)'
    BY <1>2, <1>3, <1>4 DEF Clean
  <2>2. QED
    BY <1>1, <1>3, <2>1, Fixed DEF ReplayOne, IInv, ClosedOK
<1>14. QED
  BY <1>5, <1>6, <1>7, <1>8, <1>9, <1>10, <1>11, <1>12, <1>13 DEF IInv


LEMMA ReplayOneKeeps ==
  ASSUME IInv, NEW r \in Regs, ReplayOne(r)
  PROVE  IInv'
BY NotReplayedKeeps, ReplayedKeeps

-----------------------------------------------------------------------------
(* The broker.                                                             *)

LEMMA BrokerRedeliverKeeps ==
  ASSUME IInv, BrokerRedeliver
  PROVE  IInv'
<1> USE DEF conn, replay, call, closing, history
<1>1. setup' = setup /\ Typed
  BY DEF BrokerRedeliver, IInv
<1> DEFINE f == Frame(0, "broker", "copy", "broker")
<1>2. f \in AnyFrame /\ f.n = 0 /\ f.what = "copy"
  BY DEF Frame, AnyFrame, Whats
<1>3. in' = Append(in, f)
  BY DEF BrokerRedeliver
<1> HIDE DEF f
<1>4. /\ in' \in Seq(AnyFrame) /\ Len(in) \in Nat /\ Len(in') = Len(in) + 1
      /\ \A i \in 1..Len(in) : in'[i] = in[i] /\ in[i] \in AnyFrame
      /\ in'[Len(in) + 1] = f
  <2>1. in \in Seq(AnyFrame)
    BY <1>1 DEF Typed
  <2>2. QED
    BY <1>2, <1>3, <2>1, Queued
<1>5. \A i \in 1..Len(in') : (i \in 1..Len(in) /\ in'[i] = in[i]) \/ (i = Len(in) + 1 /\ in'[i] = f)
  BY <1>4
<1>6. Typed'
  BY <1>1, <1>3, <1>4, Fixed DEF BrokerRedeliver, IInv, Typed, Lives
<1>7. PhaseOK'
  BY <1>1, Fixed, Kinds DEF BrokerRedeliver, IInv, PhaseOK, Typed
<1>8. PendingOK'
  BY <1>1, Fixed, Kinds DEF BrokerRedeliver, IInv, PendingOK, Typed
<1>9. FramesOK'
  BY <1>1, <1>2, <1>5, Fixed DEF BrokerRedeliver, IInv, FramesOK
<1>10. CallsOK'
  BY <1>1, Fixed, Kinds DEF BrokerRedeliver, IInv, CallsOK, Typed
<1>11. NumbersOK'
  <2>1. SUFFICES ASSUME ~crossed
                 PROVE  Drawn' /\ Numbered(out)' /\ Numbered(in)' /\ Waited' /\ RepliesMatch'
    BY DEF NumbersOK, BrokerRedeliver
  <2>2. Drawn /\ Numbered(out) /\ Numbered(in) /\ Waited /\ RepliesMatch
    BY <2>1 DEF NumbersOK, IInv
  <2>3. /\ num' = num /\ from' = from /\ ptr' = ptr /\ answer' = answer /\ out' = out
        /\ next' = next /\ next \in Nat \ {0} /\ pending' = pending
    BY <1>1 DEF BrokerRedeliver, Typed
  <2>4. \A u : Counts(u)' = Counts(u) /\ (Counts(u) => num[u] # 0)
    BY <2>3 DEF Counts
  <2>5. Drawn' /\ Numbered(out)' /\ Waited' /\ RepliesMatch'
    BY <1>1, <2>2, <2>3, <2>4, Fixed DEF Drawn, Numbered, Waited, RepliesMatch
  <2>6. Numbered(in)'
    BY <1>1, <1>2, <1>5, <2>2, <2>3, <2>4, Fixed DEF Numbered
  <2>7. QED
    BY <2>5, <2>6
<1>12. BatchOK'
  <2>1. ASSUME NEW u \in Batches
        PROVE  InOrder(u)' /\ (~crossed' => Headed(u)')
    <3>1. /\ stored' = stored /\ sent' = sent /\ crossed' = crossed /\ out' = out
          /\ GoesOn(u)' = GoesOn(u)
      BY DEF BrokerRedeliver, GoesOn
    <3>2. InOrder(u) /\ (~crossed => Headed(u))
      BY DEF IInv, BatchOK
    <3>3. \A i \in 1..Len(in') : in'[i].what \notin {"copy", "fire"} => i \in 1..Len(in) /\ in'[i] = in[i]
      BY <1>2, <1>5
    <3>4. InOrder(u)'
      BY <3>1, <3>2 DEF InOrder
    <3>5. QED
      BY <3>1, <3>2, <3>3, <3>4 DEF Headed
  <2>2. QED
    BY <1>1, <2>1, Fixed DEF BatchOK
<1>13. FollowOK'
  BY <1>1, Fixed, Kinds, SameQueues DEF BrokerRedeliver, IInv, FollowOK, Typed, CallsOK, PhaseOK, Due, Asked
<1>14. ClosedOK'
  BY <1>1, Fixed, Kinds, SameQueues DEF BrokerRedeliver, IInv, ClosedOK, Typed, CallsOK, PhaseOK
<1>15. QED
  BY <1>6, <1>7, <1>8, <1>9, <1>10, <1>11, <1>12, <1>13, <1>14 DEF IInv


LEMMA BrokerFireKeeps ==
  ASSUME IInv, NEW t \in Users, BrokerFire(t)
  PROVE  IInv'
<1> USE DEF conn, replay, call, closing, history
<1>1. setup' = setup /\ Typed
  BY DEF BrokerFire, IInv
<1>2. PICK c \in bound \cap Crons : in' = Append(in, Frame(0, t, "fire", c))
  BY DEF BrokerFire
<1> DEFINE f == Frame(0, t, "fire", c)
<1>3. f \in AnyFrame /\ f.n = 0 /\ f.what = "fire" /\ f.by = t /\ f.reg = c /\ c \in Crons
  BY <1>1, Kinds DEF Frame, AnyFrame, Whats
<1>4. in' = Append(in, f)
  BY <1>2
<1> HIDE DEF f
<1>5. /\ in' \in Seq(AnyFrame) /\ Len(in) \in Nat /\ Len(in') = Len(in) + 1
      /\ \A i \in 1..Len(in) : in'[i] = in[i] /\ in[i] \in AnyFrame
      /\ in'[Len(in) + 1] = f
  <2>1. in \in Seq(AnyFrame)
    BY <1>1 DEF Typed
  <2>2. QED
    BY <1>3, <1>4, <2>1, Queued
<1>6. \A i \in 1..Len(in') : (i \in 1..Len(in) /\ in'[i] = in[i]) \/ (i = Len(in) + 1 /\ in'[i] = f)
  BY <1>5
<1>7. Typed'
  BY <1>1, <1>4, <1>5, Fixed DEF BrokerFire, IInv, Typed, Lives
<1>8. PhaseOK'
  BY <1>1, Fixed, Kinds DEF BrokerFire, IInv, PhaseOK, Typed
<1>9. PendingOK'
  BY <1>1, Fixed, Kinds DEF BrokerFire, IInv, PendingOK, Typed
<1>10. FramesOK'
  <2>1. \A i \in 1..Len(in) : in[i].what = "fire" => in[i].by # t
    BY DEF BrokerFire, IInv, FramesOK
  <2>2. \A i \in 1..Len(in) : in[i].what = "fire" => life'[in[i].by] = life[in[i].by]
    BY <1>1, <2>1, Kinds DEF BrokerFire, Typed, IInv, FramesOK
  <2>3. life'[t] = "fired" /\ t \in Fires
    BY <1>1 DEF BrokerFire, Typed
  <2>4. \A r \in Users : life[r] \in {"ending", "ended"} => life'[r] = life[r]
    BY <1>1 DEF BrokerFire, Typed
  <2>5. out' = out
    BY DEF BrokerFire
  <2>6. QED
    <3>1. FramesOK /\ Regs \subseteq Users
      BY <1>1, Kinds DEF IInv
    <3>2. ASSUME NEW i \in 1..Len(out)
          PROVE  /\ out[i].what = "bind" => out[i].reg \in Regs
                 /\ out[i].what = "unbind" =>
                      out[i].reg \in Regs /\ life'[out[i].reg] \in {"ending", "ended"}
                 /\ out[i].what = "chunk" => out[i].by \in Batches /\ out[i].reg \in Nat
                 /\ out[i].what \notin {"fire", "copy"}
      BY ONLY <2>4, <3>1 DEF FramesOK
    <3>3. ASSUME NEW i \in 1..Len(in'), in'[i].what = "fire"
          PROVE  in'[i].by \in Fires /\ life'[in'[i].by] = "fired" /\ in'[i].reg \in Crons
      <4>1. CASE i \in 1..Len(in) /\ in'[i] = in[i]
        BY ONLY <2>2, <3>1, <3>3, <4>1 DEF FramesOK
      <4>2. CASE in'[i] = f
        BY <1>3, <2>3, <4>2
      <4>3. QED
        BY <1>6, <4>1, <4>2
    <3>4. ASSUME NEW i \in 1..Len(in'), NEW j \in 1..Len(in'),
                 in'[i].what = "fire", in'[j].what = "fire", in'[i].by = in'[j].by
          PROVE  i = j
      <4>1. CASE i \in 1..Len(in) /\ in'[i] = in[i] /\ j \in 1..Len(in) /\ in'[j] = in[j]
        BY ONLY <3>1, <3>4, <4>1 DEF FramesOK
      <4>2. ASSUME NEW k \in 1..Len(in), in'[k] = in[k], in'[k].what = "fire" PROVE in'[k].by # f.by
        BY <1>3, <2>1, <4>2
      <4>3. QED
        BY ONLY <1>6, <3>4, <4>1, <4>2
    <3>5. QED
      BY <1>1, <2>5, <3>2, <3>3, <3>4, Fixed DEF FramesOK
<1>11. CallsOK'
  <2>1. \A u \in Users : life'[u] = IF u = t THEN "fired" ELSE life[u]
    BY <1>1 DEF BrokerFire, Typed
  <2>2. pc' = pc /\ sent' = sent /\ t \in Fires /\ life[t] = "new"
    BY DEF BrokerFire
  <2>3. QED
    BY <1>1, <2>1, <2>2, Kinds, Fixed DEF IInv, CallsOK
<1>12. NumbersOK'
  <2>1. SUFFICES ASSUME ~crossed
                 PROVE  Drawn' /\ Numbered(out)' /\ Numbered(in)' /\ Waited' /\ RepliesMatch'
    BY DEF NumbersOK, BrokerFire
  <2>2. Drawn /\ Numbered(out) /\ Numbered(in) /\ Waited /\ RepliesMatch
    BY <2>1 DEF NumbersOK, IInv
  <2>3. /\ num' = num /\ from' = from /\ ptr' = ptr /\ answer' = answer /\ out' = out
        /\ next' = next /\ next \in Nat \ {0} /\ pending' = pending
    BY <1>1 DEF BrokerFire, Typed
  <2>4. \A u : Counts(u)' = Counts(u) /\ (Counts(u) => num[u] # 0)
    BY <2>3 DEF Counts
  <2>5. Drawn' /\ Numbered(out)' /\ Waited' /\ RepliesMatch'
    BY <1>1, <2>2, <2>3, <2>4, Fixed DEF Drawn, Numbered, Waited, RepliesMatch
  <2>6. Numbered(in)'
    BY <1>1, <1>3, <1>6, <2>2, <2>3, <2>4, Fixed DEF Numbered
  <2>7. QED
    BY <2>5, <2>6
<1>13. BatchOK'
  <2>1. ASSUME NEW u \in Batches
        PROVE  InOrder(u)' /\ (~crossed' => Headed(u)')
    <3>1. /\ stored' = stored /\ sent' = sent /\ crossed' = crossed /\ out' = out
          /\ GoesOn(u)' = GoesOn(u)
      BY DEF BrokerFire, GoesOn
    <3>2. InOrder(u) /\ (~crossed => Headed(u))
      BY DEF IInv, BatchOK
    <3>3. \A i \in 1..Len(in') : in'[i].what \notin {"copy", "fire"} => i \in 1..Len(in) /\ in'[i] = in[i]
      BY <1>3, <1>6
    <3>4. InOrder(u)'
      BY <3>1, <3>2 DEF InOrder
    <3>5. QED
      BY <3>1, <3>2, <3>3, <3>4 DEF Headed
  <2>2. QED
    BY <1>1, <2>1, Fixed DEF BatchOK
<1>14. FollowOK'
  BY <1>1, Fixed, Kinds, SameQueues DEF BrokerFire, IInv, FollowOK, Typed, CallsOK, PhaseOK, Due, Asked
<1>15. ClosedOK'
  BY <1>1, Fixed, Kinds, SameQueues DEF BrokerFire, IInv, ClosedOK, Typed, CallsOK, PhaseOK
<1>16. QED
  BY <1>7, <1>8, <1>9, <1>10, <1>11, <1>12, <1>13, <1>14, <1>15 DEF IInv


LEMMA BrokerTakeKeeps ==
  ASSUME IInv, BrokerTake
  PROVE  IInv'
<1> USE DEF conn, replay, call, closing, history
<1>1. setup' = setup /\ Typed
  BY DEF BrokerTake, IInv
<1> DEFINE f == Head(out)
<1>2. /\ out \in Seq(AnyFrame) /\ out # <<>> /\ in \in Seq(AnyFrame)
      /\ out' = Tail(out) /\ in' = (IF Answered(f) THEN Append(in, f) ELSE in)
  BY <1>1 DEF BrokerTake, Typed
<1>3. /\ out' \in Seq(AnyFrame) /\ Len(out) \in Nat \ {0} /\ f = out[1] /\ f \in AnyFrame
      /\ Len(out') = Len(out) - 1
      /\ \A i \in 1..(Len(out) - 1) : out'[i] = out[i + 1]
  BY <1>2, Dequeued
<1>4. /\ in' \in Seq(AnyFrame)
      /\ \A i \in 1..Len(in') :
           \/ i \in 1..Len(in) /\ in'[i] = in[i]
           \/ i = Len(in) + 1 /\ in'[i] = f
  BY <1>2, <1>3, Queued
<1>5. \A i \in 1..Len(out') : i + 1 \in 1..Len(out) /\ out'[i] = out[i + 1]
  BY <1>3
<1>6. /\ bound' = CASE f.what = "bind"   -> bound \cup {f.reg}
                    [] f.what = "unbind" -> bound \ {f.reg}
                    [] OTHER             -> bound
      /\ stored' = IF f.what = "chunk" THEN [stored EXCEPT ![f.by] = Append(@, f.reg)]
                    ELSE stored
  BY DEF BrokerTake
<1>7. /\ life' = life /\ pc' = pc /\ sent' = sent /\ answer' = answer /\ crossed' = crossed
      /\ num' = num /\ from' = from /\ ptr' = ptr /\ next' = next /\ pending' = pending
      /\ open /\ open' = open /\ at' = at
  BY DEF BrokerTake
<1>8. /\ f.what = "bind" => f.reg \in Regs
      /\ f.what = "unbind" => f.reg \in Regs /\ life[f.reg] \in {"ending", "ended"}
      /\ f.what = "chunk" => f.by \in Batches /\ f.reg \in Nat
      /\ f.what \notin {"fire", "copy"}
  BY <1>3 DEF IInv, FramesOK
<1> HIDE DEF f
<1>9. Typed'
  <2>1. stored' \in [Users -> Seq(Nat)]
    BY <1>1, <1>6, <1>8, Kinds DEF Typed
  <2>2. QED
    BY <1>1, <1>3, <1>4, <2>1, Fixed DEF BrokerTake, Typed
<1>10. PhaseOK'
  <2>1. bound' \subseteq Regs
    BY <1>6, <1>8 DEF IInv, PhaseOK
  <2>2. QED
    BY <1>1, <2>1, Fixed, <1>7 DEF BrokerTake, IInv, PhaseOK
<1>11. PendingOK'
  BY <1>1, Fixed, Kinds DEF BrokerTake, IInv, PendingOK, Typed
<1>12. FramesOK'
  <2>1. \A i \in 1..Len(in') : in'[i].what = "fire" => i \in 1..Len(in) /\ in'[i] = in[i]
    BY <1>4, <1>8
  <2>2. QED
    BY <1>1, <1>5, <1>7, <2>1, Fixed DEF IInv, FramesOK
<1>13. CallsOK'
  BY <1>1, Fixed, Kinds DEF BrokerTake, IInv, CallsOK, Typed
<1>14. NumbersOK'
  <2>1. SUFFICES ASSUME ~crossed
                 PROVE  Drawn' /\ Numbered(out)' /\ Numbered(in)' /\ Waited' /\ RepliesMatch'
    BY <1>7 DEF NumbersOK
  <2>2. Drawn /\ Numbered(out) /\ Numbered(in) /\ Waited /\ RepliesMatch
    BY <2>1 DEF NumbersOK, IInv
  <2>3. \A u : Counts(u)' = Counts(u)
    BY <1>7 DEF Counts
  <2>4. Drawn' /\ Waited' /\ RepliesMatch'
    BY <1>1, <1>7, <2>2, <2>3, Fixed DEF Drawn, Waited, RepliesMatch
  <2>5. Numbered(out)'
    BY <1>1, <1>5, <1>7, <2>2, <2>3, Fixed DEF Numbered
  <2>6. f.n < next /\ \A u \in Users : Counts(u) /\ num[u] = f.n => f.by = u
    BY <1>3, <2>2 DEF Numbered
  <2>7. Numbered(in)'
    BY <1>1, <1>4, <1>7, <2>2, <2>3, <2>6, Fixed DEF Numbered
  <2>8. QED
    BY <2>4, <2>5, <2>7
<1>15. BatchOK'
  <2>1. ASSUME NEW u \in Batches
        PROVE  InOrder(u)' /\ (~crossed' => Headed(u)')
    <3>1. InOrder(u) /\ (~crossed => Headed(u)) /\ GoesOn(u)' = GoesOn(u)
          /\ u \in Users /\ stored[u] \in Seq(Nat) /\ sent[u] \in Nat
      BY <1>1, <1>7, Kinds DEF IInv, BatchOK, GoesOn, Typed
    <3>2. ASSUME NEW i \in 1..Len(out'), out'[i].what = "chunk", out'[i].by = u
          PROVE  /\ out'[i].reg \in 1..sent[u]
                 /\ \A k \in 1..Len(stored[u]) : stored[u][k] < out'[i].reg
                 /\ \A j \in 1..(i - 1) : out'[j].what = "chunk" /\ out'[j].by = u =>
                      out'[j].reg < out'[i].reg
      <4>1. i + 1 \in 1..Len(out) /\ out'[i] = out[i + 1]
        BY <1>5
      <4>2. \A j \in 1..(i - 1) : j + 1 \in 1..((i + 1) - 1) /\ out'[j] = out[j + 1]
        BY <1>5, <4>1
      <4>3. QED
        BY <3>1, <3>2, <4>1, <4>2 DEF InOrder
    <3>3. CASE ~(f.what = "chunk" /\ f.by = u)
      <4>1. stored'[u] = stored[u]
        BY <1>1, <1>6, <1>8, <3>1, <3>3 DEF Typed
      <4>2. InOrder(u)'
        BY <1>7, <3>1, <3>2, <4>1 DEF InOrder
      <4>3. ~crossed => f.by # u
        BY <1>3, <3>1, <3>3 DEF Headed
      <4>4. QED
        BY <1>4, <1>5, <1>7, <3>1, <4>1, <4>2, <4>3 DEF Headed
    <3>4. CASE f.what = "chunk" /\ f.by = u
      <4> DEFINE q == stored[u]
                 p == stored'[u]
      <4>1. p = Append(q, f.reg) /\ q \in Seq(Nat) /\ f.reg \in Nat
        BY <1>1, <1>6, <1>8, <3>1, <3>4 DEF Typed
      <4>2. 1 \in 1..Len(out) /\ out[1] = f
        BY <1>3
      <4>3. f.reg \in 1..sent[u] /\ \A k \in 1..Len(q) : q[k] < f.reg
        BY <3>1, <3>4, <4>2 DEF InOrder
      <4> HIDE DEF p, q
      <4>4. /\ Len(q) \in Nat /\ Len(p) = Len(q) + 1 /\ p[Len(q) + 1] = f.reg /\ p # <<>>
            /\ \A i \in 1..Len(q) : p[i] = q[i] /\ q[i] \in Nat
        BY <4>1, Queued
      <4> USE DEF p, q
      <4>5. \A i \in 1..Len(out') : out'[i].what = "chunk" /\ out'[i].by = u => f.reg < out'[i].reg
        <5>1. TAKE i \in 1..Len(out')
        <5>2. i + 1 \in 1..Len(out) /\ out'[i] = out[i + 1] /\ 1 \in 1..((i + 1) - 1)
          BY <1>5
        <5>3. QED
          BY <1>3, <3>1, <3>4, <5>2 DEF InOrder
      <4> HIDE DEF q, p
      <4>6. /\ \A i \in 1..Len(q) : q[i] <= sent[u]
            /\ \A i \in 2..Len(q) : q[i - 1] < q[i]
        BY <3>1 DEF InOrder, q
      <4>7. \A i \in 1..Len(p) : p[i] <= sent[u]
        <5>1. TAKE i \in 1..Len(p)
        <5>2. CASE i = Len(q) + 1
          BY <4>4, <4>3, <5>2
        <5>3. CASE i # Len(q) + 1
          BY <4>4, <4>6, <5>3
        <5>4. QED
          BY <5>2, <5>3
      <4>8. \A i \in 2..Len(p) : p[i - 1] < p[i]
        <5>1. TAKE i \in 2..Len(p)
        <5>2. CASE i = Len(q) + 1
          BY <4>4, <4>3, <5>2
        <5>3. CASE i # Len(q) + 1
          BY <4>4, <4>6, <5>3
        <5>4. QED
          BY <5>2, <5>3
      <4>9. ASSUME NEW i \in 1..Len(out'), out'[i].what = "chunk", out'[i].by = u
            PROVE  /\ out'[i].reg \in 1..sent[u]
                   /\ \A k \in 1..Len(p) : p[k] < out'[i].reg
                   /\ \A j \in 1..(i - 1) : out'[j].what = "chunk" /\ out'[j].by = u =>
                        out'[j].reg < out'[i].reg
        <5>1. i + 1 \in 1..Len(out) /\ out'[i] = out[i + 1] /\ f.reg < out'[i].reg
          BY <1>5, <4>5, <4>9
        <5>2. out'[i].reg \in 1..sent[u] /\ \A k \in 1..Len(q) : q[k] < out'[i].reg
          BY <3>2, <4>9 DEF q
        <5>3. \A k \in 1..Len(p) : p[k] < out'[i].reg
          BY <4>4, <5>1, <5>2
        <5>4. QED
          BY <3>2, <4>9, <5>2, <5>3
      <4>10. InOrder(u)'
        BY <1>7, <4>7, <4>8, <4>9 DEF InOrder, p
      <4>11. ~crossed => p[1] = 1
        <5>1. CASE q = <<>>
          BY <1>3, <3>1, <3>4, <4>4, <4>3, <5>1 DEF Headed, q
        <5>2. CASE q # <<>>
          BY <3>1, <4>4, <5>2 DEF Headed, q
        <5>3. QED
          BY <5>1, <5>2
      <4>12. QED
        BY <1>5, <1>7, <3>1, <4>4, <4>10, <4>11 DEF Headed, p
    <3>5. QED
      BY <3>3, <3>4
  <2>2. QED
    BY <1>1, <2>1, Fixed DEF BatchOK
<1>16. FollowOK'
  <2>1. \A r \in Regs : Has(r) /\ life[r] \notin {"ending", "ended"} => Has(r)'
    <3>1. SUFFICES ASSUME NEW r \in Regs, Has(r), life[r] \notin {"ending", "ended"}
                   PROVE  r \in bound' \/ \E i \in 1..Len(out') : out'[i].what = "bind" /\ out'[i].reg = r
      BY DEF Has
    <3>2. CASE r \in bound
      BY <1>6, <1>8, <3>1, <3>2
    <3>3. CASE r \notin bound
      <4>1. PICK i \in 1..Len(out) : out[i].what = "bind" /\ out[i].reg = r
        BY <3>1, <3>3 DEF Has
      <4>2. CASE i = 1
        BY <1>3, <1>6, <4>1, <4>2
      <4>3. CASE i # 1
        <5>1. i - 1 \in 1..Len(out') /\ out'[i - 1] = out[i]
          BY <1>3, <4>1, <4>3
        <5>2. QED
          BY <4>1, <5>1
      <4>4. QED
        BY <4>2, <4>3
    <3>4. QED
      BY <3>2, <3>3
  <2>2. \A r : Due(r)' = Due(r)
    BY <1>1, Fixed DEF BrokerTake, Due
  <2>3. QED
    BY <1>1, <1>7, <2>1, <2>2, Fixed DEF BrokerTake, IInv, FollowOK, Asked
<1>17. ClosedOK'
  <2>1. ASSUME NEW r \in Regs, Clean(r)
        PROVE  Clean(r)'
    <3>1. ASSUME NEW i \in 1..Len(out'), out'[i].what = "bind", out'[i].reg = r
          PROVE  \E j \in (i + 1)..Len(out') : out'[j].what = "unbind" /\ out'[j].reg = r
      <4>1. i + 1 \in 1..Len(out) /\ out[i + 1].what = "bind" /\ out[i + 1].reg = r
        BY <1>5, <3>1
      <4>2. PICK j \in (i + 2)..Len(out) : out[j].what = "unbind" /\ out[j].reg = r
        BY <2>1, <4>1 DEF Clean
      <4>3. j - 1 \in (i + 1)..Len(out') /\ out'[j - 1] = out[j]
        BY <1>3, <4>1, <4>2
      <4>4. QED
        BY <4>2, <4>3
    <3>2. ASSUME r \in bound'
          PROVE  \E j \in 1..Len(out') : out'[j].what = "unbind" /\ out'[j].reg = r
      <4>1. CASE f.what = "bind" /\ f.reg = r
        <5>1. PICK j \in 2..Len(out) : out[j].what = "unbind" /\ out[j].reg = r
          BY <1>3, <2>1, <4>1 DEF Clean
        <5>2. j - 1 \in 1..Len(out') /\ out'[j - 1] = out[j]
          BY <1>3, <5>1
        <5>3. QED
          BY <5>1, <5>2
      <4>2. CASE ~(f.what = "bind" /\ f.reg = r)
        <5>1. r \in bound /\ ~(f.what = "unbind" /\ f.reg = r)
          BY <1>6, <3>2, <4>2
        <5>2. PICK j \in 1..Len(out) : out[j].what = "unbind" /\ out[j].reg = r
          BY <2>1, <5>1 DEF Clean
        <5>3. j # 1
          BY <1>3, <5>1, <5>2
        <5>4. j - 1 \in 1..Len(out') /\ out'[j - 1] = out[j]
          BY <1>3, <5>2, <5>3
        <5>5. QED
          BY <5>2, <5>4
      <4>3. QED
        BY <4>1, <4>2
    <3>3. QED
      BY <3>1, <3>2 DEF Clean
  <2>2. QED
    BY <1>1, <1>7, <2>1, Fixed DEF BrokerTake, IInv, ClosedOK
<1>18. QED
  BY <1>9, <1>10, <1>11, <1>12, <1>13, <1>14, <1>15, <1>16, <1>17 DEF IInv


-----------------------------------------------------------------------------
(* The reader.                                                             *)

\* ReaderTake by what is taken: a redelivered copy, a cron's fire, a reply nobody waits
\* for, and one that somebody waits for.
Taken ==
  /\ open /\ reader = 0 /\ in # <<>>
  /\ in' = Tail(in)
  /\ UNCHANGED <<setup, ptr, open, next, out, sup, gate, dead, table, at, num, from,
                 sent, closing, copies, bound, history>>
TakeCopy ==
  /\ Taken /\ reader' = gate
  /\ UNCHANGED <<pending, pc, answer, replay, life>>
TakeFire ==
  /\ Taken /\ Head(in).what = "fire"
  /\ StartHandler(Head(in).by, Head(in).reg)
  /\ UNCHANGED <<reader, pending, answer, replay>>
TakeUnawaited ==
  /\ Taken
  /\ UNCHANGED <<reader, pending, pc, answer, replay, life>>
TakeForReplay ==
  LET n == Head(in).n IN
  /\ Taken /\ n \in DOMAIN pending /\ pending[n] = Replayer
  /\ pending' = Restrict(pending, DOMAIN pending \ {n})
  /\ awaiting' = 0
  /\ UNCHANGED <<pc, answer, reader, todo, life>>
TakeReply(w) ==
  LET f == Head(in) IN
  /\ Taken /\ f.n \in DOMAIN pending /\ pending[f.n] = w /\ w # Replayer
  /\ f.what \notin {"copy", "fire"}
  /\ pending' = Restrict(pending, DOMAIN pending \ {f.n})
  /\ pc' = [pc EXCEPT ![w] = "returning"]
  /\ answer' = [answer EXCEPT ![w] = [by |-> f.by, what |-> f.what]]
  /\ UNCHANGED <<awaiting, reader, todo, life>>

LEMMA ReaderTakes ==
  ASSUME IInv, ReaderTake
  PROVE  TakeCopy \/ TakeFire \/ TakeUnawaited \/ TakeForReplay \/ \E w \in Users : TakeReply(w)
<1> USE DEF closing, history, replay
<1>1. Taken
  BY DEF ReaderTake, Taken
<1>2. CASE Head(in).what = "copy" /\ reader' = gate /\ UNCHANGED <<pending, pc, answer, replay, life>>
  BY <1>1, <1>2 DEF TakeCopy
<1>3. CASE /\ Head(in).what = "fire" /\ StartHandler(Head(in).by, Head(in).reg)
           /\ UNCHANGED <<reader, pending, answer, replay>>
  BY <1>1, <1>3 DEF TakeFire
<1>4. CASE UNCHANGED <<reader, pending, pc, answer, replay, life>>
  BY <1>1, <1>4 DEF TakeUnawaited
<1>5. ASSUME NEW n \in Waiter(Head(in).n), Head(in).what \notin {"copy", "fire"},
             pending' = Restrict(pending, DOMAIN pending \ {n}),
             IF pending[n] = Replayer
             THEN awaiting' = 0 /\ UNCHANGED <<pc, answer>>
             ELSE /\ pc' = [pc EXCEPT ![pending[n]] = "returning"]
                  /\ answer' = [answer EXCEPT ![pending[n]] =
                                  [by |-> Head(in).by, what |-> Head(in).what]]
                  /\ UNCHANGED awaiting,
             UNCHANGED <<reader, todo, life>>
      PROVE  TakeForReplay \/ \E w \in Users : TakeReply(w)
  <2>1. n = Head(in).n /\ n \in DOMAIN pending
    BY <1>5 DEF Waiter
  <2>2. CASE pending[n] = Replayer
    BY <1>1, <1>5, <2>1, <2>2 DEF TakeForReplay
  <2>3. CASE pending[n] # Replayer
    <3>1. pending[n] \in Users
      BY <2>1, <2>3 DEF IInv, PendingOK, Waiters
    <3>2. TakeReply(pending[n])
      BY <1>1, <1>5, <2>1, <2>3 DEF TakeReply
    <3>3. QED
      BY <3>1, <3>2
  <2>4. QED
    BY <2>2, <2>3
<1>6. QED
  BY <1>2, <1>3, <1>4, <1>5 DEF ReaderTake

LEMMA TakeCopyKeeps ==
  ASSUME IInv, TakeCopy
  PROVE  IInv'
<1> USE DEF conn, replay, call, closing, history
<1>1. setup' = setup /\ Typed
  BY DEF TakeCopy, Taken, IInv
<1>2. /\ in \in Seq(AnyFrame) /\ in # <<>> /\ in' = Tail(in)
  BY <1>1 DEF TakeCopy, Taken, Typed
<1>3. /\ in' \in Seq(AnyFrame) /\ Len(in) \in Nat \ {0} /\ Head(in) = in[1]
      /\ Len(in') = Len(in) - 1
      /\ \A i \in 1..(Len(in) - 1) : in'[i] = in[i + 1]
  BY <1>2, Dequeued
<1>4. \A i \in 1..Len(in') : i + 1 \in 1..Len(in) /\ in'[i] = in[i + 1]
  BY <1>3
<1>5. /\ out' = out /\ bound' = bound /\ sent' = sent /\ crossed' = crossed /\ num' = num
      /\ from' = from /\ ptr' = ptr /\ next' = next /\ open' = open /\ at' = at
      /\ stored' = stored
  BY DEF TakeCopy, Taken
<1>6. Typed'
  BY <1>1, <1>3, <1>5, Fixed DEF TakeCopy, Taken, Typed, Places, Lives
<1>7. PhaseOK'
  BY <1>1, Fixed, Kinds DEF TakeCopy, Taken, IInv, PhaseOK, Typed
<1>8. PendingOK'
  BY <1>1, Fixed, Kinds DEF TakeCopy, Taken, IInv, PendingOK, Typed
<1>9. FramesOK'
  <2>1. life' = life
    BY DEF TakeCopy, Taken
  <2>2. \A i \in 1..Len(in') : in'[i].what = "fire" =>
          in'[i].by \in Fires /\ life[in'[i].by] = "fired" /\ in'[i].reg \in Crons
    BY <1>4 DEF IInv, FramesOK
  <2>3. \A i, j \in 1..Len(in') :
          in'[i].what = "fire" /\ in'[j].what = "fire" /\ in'[i].by = in'[j].by => i = j
    <3>1. TAKE i, j \in 1..Len(in')
    <3>2. /\ i + 1 \in 1..Len(in) /\ in'[i] = in[i + 1]
          /\ j + 1 \in 1..Len(in) /\ in'[j] = in[j + 1]
      BY <1>4
    <3>3. in[i + 1].what = "fire" /\ in[j + 1].what = "fire" /\ in[i + 1].by = in[j + 1].by => i + 1 = j + 1
      BY <3>2 DEF IInv, FramesOK
    <3>4. QED
      BY <3>2, <3>3
  <2>4. QED
    BY <1>1, <1>5, <2>1, <2>2, <2>3, Fixed DEF IInv, FramesOK
<1>10. CallsOK'
  BY <1>1, Fixed, Kinds DEF TakeCopy, Taken, IInv, CallsOK, Typed
<1>11. NumbersOK'
  <2>1. SUFFICES ASSUME ~crossed
                 PROVE  Drawn' /\ Numbered(out)' /\ Numbered(in)' /\ Waited' /\ RepliesMatch'
    BY <1>5 DEF NumbersOK
  <2>2. Drawn /\ Numbered(out) /\ Numbered(in) /\ Waited /\ RepliesMatch
    BY <2>1 DEF NumbersOK, IInv
  <2>3. \A u : Counts(u)' = Counts(u)
    BY <1>5 DEF Counts
  <2>4. Drawn' /\ Numbered(out)'
    BY <1>1, <1>5, <2>2, <2>3, Fixed DEF Drawn, Numbered
  <2>5. Numbered(in)'
    <3>1. ASSUME NEW i \in 1..Len(in')
          PROVE  in'[i].n < next /\ \A u \in Users : Counts(u) /\ num[u] = in'[i].n => in'[i].by = u
      <4>1. i + 1 \in 1..Len(in) /\ in'[i] = in[i + 1]
        BY <1>4
      <4>2. QED
        BY <2>2, <4>1 DEF Numbered
    <3>2. QED
      BY <1>1, <1>5, <2>3, <3>1, Fixed DEF Numbered
  <2>6. Waited'
    BY <1>5, <2>2 DEF TakeCopy, Taken, Waited
  <2>7. RepliesMatch'
    BY <1>1, <2>2, Fixed DEF TakeCopy, Taken, RepliesMatch
  <2>8. QED
    BY <2>4, <2>5, <2>6, <2>7
<1>12. BatchOK'
  <2>1. ASSUME NEW u \in Batches
        PROVE  InOrder(u)' /\ (~crossed' => Headed(u)')
    <3>1. InOrder(u) /\ (~crossed => Headed(u)) /\ u \in Users
      BY <1>1, Kinds DEF IInv, BatchOK
    <3>2. InOrder(u)'
      BY <1>5, <3>1 DEF InOrder
    <3>3. GoesOn(u)' => GoesOn(u)
      BY <1>1, <1>5, <3>1, Kinds DEF TakeCopy, Taken, GoesOn
    <3>4. QED
      BY <1>4, <1>5, <3>1, <3>2, <3>3 DEF Headed
  <2>2. QED
    BY <1>1, <2>1, Fixed DEF BatchOK
<1>13. FollowOK'
  BY <1>1, Fixed, Kinds, SameQueues DEF TakeCopy, Taken, IInv, FollowOK, Typed, CallsOK, PhaseOK, Due, Asked
<1>14. ClosedOK'
  BY <1>1, Fixed, Kinds, SameQueues DEF TakeCopy, Taken, IInv, ClosedOK, Typed, CallsOK, PhaseOK
<1>15. QED
  BY <1>6, <1>7, <1>8, <1>9, <1>10, <1>11, <1>12, <1>13, <1>14 DEF IInv


LEMMA TakeUnawaitedKeeps ==
  ASSUME IInv, TakeUnawaited
  PROVE  IInv'
<1> USE DEF conn, replay, call, closing, history
<1>1. setup' = setup /\ Typed
  BY DEF TakeUnawaited, Taken, IInv
<1>2. /\ in \in Seq(AnyFrame) /\ in # <<>> /\ in' = Tail(in)
  BY <1>1 DEF TakeUnawaited, Taken, Typed
<1>3. /\ in' \in Seq(AnyFrame) /\ Len(in) \in Nat \ {0} /\ Head(in) = in[1]
      /\ Len(in') = Len(in) - 1
      /\ \A i \in 1..(Len(in) - 1) : in'[i] = in[i + 1]
  BY <1>2, Dequeued
<1>4. \A i \in 1..Len(in') : i + 1 \in 1..Len(in) /\ in'[i] = in[i + 1]
  BY <1>3
<1>5. /\ out' = out /\ bound' = bound /\ sent' = sent /\ crossed' = crossed /\ num' = num
      /\ from' = from /\ ptr' = ptr /\ next' = next /\ open' = open /\ at' = at
      /\ stored' = stored
  BY DEF TakeUnawaited, Taken
<1>6. Typed'
  BY <1>1, <1>3, <1>5, Fixed DEF TakeUnawaited, Taken, Typed, Places, Lives
<1>7. PhaseOK'
  BY <1>1, Fixed, Kinds DEF TakeUnawaited, Taken, IInv, PhaseOK, Typed
<1>8. PendingOK'
  BY <1>1, Fixed, Kinds DEF TakeUnawaited, Taken, IInv, PendingOK, Typed
<1>9. FramesOK'
  <2>1. life' = life
    BY DEF TakeUnawaited, Taken
  <2>2. \A i \in 1..Len(in') : in'[i].what = "fire" =>
          in'[i].by \in Fires /\ life[in'[i].by] = "fired" /\ in'[i].reg \in Crons
    BY <1>4 DEF IInv, FramesOK
  <2>3. \A i, j \in 1..Len(in') :
          in'[i].what = "fire" /\ in'[j].what = "fire" /\ in'[i].by = in'[j].by => i = j
    <3>1. TAKE i, j \in 1..Len(in')
    <3>2. /\ i + 1 \in 1..Len(in) /\ in'[i] = in[i + 1]
          /\ j + 1 \in 1..Len(in) /\ in'[j] = in[j + 1]
      BY <1>4
    <3>3. in[i + 1].what = "fire" /\ in[j + 1].what = "fire" /\ in[i + 1].by = in[j + 1].by => i + 1 = j + 1
      BY <3>2 DEF IInv, FramesOK
    <3>4. QED
      BY <3>2, <3>3
  <2>4. QED
    BY <1>1, <1>5, <2>1, <2>2, <2>3, Fixed DEF IInv, FramesOK
<1>10. CallsOK'
  BY <1>1, Fixed, Kinds DEF TakeUnawaited, Taken, IInv, CallsOK, Typed
<1>11. NumbersOK'
  <2>1. SUFFICES ASSUME ~crossed
                 PROVE  Drawn' /\ Numbered(out)' /\ Numbered(in)' /\ Waited' /\ RepliesMatch'
    BY <1>5 DEF NumbersOK
  <2>2. Drawn /\ Numbered(out) /\ Numbered(in) /\ Waited /\ RepliesMatch
    BY <2>1 DEF NumbersOK, IInv
  <2>3. \A u : Counts(u)' = Counts(u)
    BY <1>5 DEF Counts
  <2>4. Drawn' /\ Numbered(out)'
    BY <1>1, <1>5, <2>2, <2>3, Fixed DEF Drawn, Numbered
  <2>5. Numbered(in)'
    <3>1. ASSUME NEW i \in 1..Len(in')
          PROVE  in'[i].n < next /\ \A u \in Users : Counts(u) /\ num[u] = in'[i].n => in'[i].by = u
      <4>1. i + 1 \in 1..Len(in) /\ in'[i] = in[i + 1]
        BY <1>4
      <4>2. QED
        BY <2>2, <4>1 DEF Numbered
    <3>2. QED
      BY <1>1, <1>5, <2>3, <3>1, Fixed DEF Numbered
  <2>6. Waited'
    BY <1>5, <2>2 DEF TakeUnawaited, Taken, Waited
  <2>7. RepliesMatch'
    BY <1>1, <2>2, Fixed DEF TakeUnawaited, Taken, RepliesMatch
  <2>8. QED
    BY <2>4, <2>5, <2>6, <2>7
<1>12. BatchOK'
  <2>1. ASSUME NEW u \in Batches
        PROVE  InOrder(u)' /\ (~crossed' => Headed(u)')
    <3>1. InOrder(u) /\ (~crossed => Headed(u)) /\ u \in Users
      BY <1>1, Kinds DEF IInv, BatchOK
    <3>2. InOrder(u)'
      BY <1>5, <3>1 DEF InOrder
    <3>3. GoesOn(u)' => GoesOn(u)
      BY <1>1, <1>5, <3>1, Kinds DEF TakeUnawaited, Taken, GoesOn
    <3>4. QED
      BY <1>4, <1>5, <3>1, <3>2, <3>3 DEF Headed
  <2>2. QED
    BY <1>1, <2>1, Fixed DEF BatchOK
<1>13. FollowOK'
  BY <1>1, Fixed, Kinds, SameQueues DEF TakeUnawaited, Taken, IInv, FollowOK, Typed, CallsOK, PhaseOK, Due, Asked
<1>14. ClosedOK'
  BY <1>1, Fixed, Kinds, SameQueues DEF TakeUnawaited, Taken, IInv, ClosedOK, Typed, CallsOK, PhaseOK
<1>15. QED
  BY <1>6, <1>7, <1>8, <1>9, <1>10, <1>11, <1>12, <1>13, <1>14 DEF IInv


LEMMA TakeForReplayKeeps ==
  ASSUME IInv, TakeForReplay
  PROVE  IInv'
<1> USE DEF conn, replay, call, closing, history
<1>1. setup' = setup /\ Typed
  BY DEF TakeForReplay, Taken, IInv
<1>2. /\ in \in Seq(AnyFrame) /\ in # <<>> /\ in' = Tail(in)
  BY <1>1 DEF TakeForReplay, Taken, Typed
<1>3. /\ in' \in Seq(AnyFrame) /\ Len(in) \in Nat \ {0} /\ Head(in) = in[1]
      /\ Len(in') = Len(in) - 1
      /\ \A i \in 1..(Len(in) - 1) : in'[i] = in[i + 1]
  BY <1>2, Dequeued
<1>4. \A i \in 1..Len(in') : i + 1 \in 1..Len(in) /\ in'[i] = in[i + 1]
  BY <1>3
<1>5. /\ out' = out /\ bound' = bound /\ sent' = sent /\ crossed' = crossed /\ num' = num
      /\ from' = from /\ ptr' = ptr /\ next' = next /\ open' = open /\ at' = at
      /\ stored' = stored
  BY DEF TakeForReplay, Taken
<1>6. Typed'
  BY <1>1, <1>3, <1>5, Fixed DEF TakeForReplay, Taken, Typed, Places, Lives
<1>7. PhaseOK'
  BY <1>1, Fixed, Kinds DEF TakeForReplay, Taken, IInv, PhaseOK, Typed, Restrict
<1>8. PendingOK'
  BY <1>1, Fixed, Kinds DEF TakeForReplay, Taken, IInv, PendingOK, Typed, Restrict
<1>9. FramesOK'
  <2>1. life' = life
    BY DEF TakeForReplay, Taken
  <2>2. \A i \in 1..Len(in') : in'[i].what = "fire" =>
          in'[i].by \in Fires /\ life[in'[i].by] = "fired" /\ in'[i].reg \in Crons
    BY <1>4 DEF IInv, FramesOK
  <2>3. \A i, j \in 1..Len(in') :
          in'[i].what = "fire" /\ in'[j].what = "fire" /\ in'[i].by = in'[j].by => i = j
    <3>1. TAKE i, j \in 1..Len(in')
    <3>2. /\ i + 1 \in 1..Len(in) /\ in'[i] = in[i + 1]
          /\ j + 1 \in 1..Len(in) /\ in'[j] = in[j + 1]
      BY <1>4
    <3>3. in[i + 1].what = "fire" /\ in[j + 1].what = "fire" /\ in[i + 1].by = in[j + 1].by => i + 1 = j + 1
      BY <3>2 DEF IInv, FramesOK
    <3>4. QED
      BY <3>2, <3>3
  <2>4. QED
    BY <1>1, <1>5, <2>1, <2>2, <2>3, Fixed DEF IInv, FramesOK
<1>10. CallsOK'
  BY <1>1, Fixed, Kinds DEF TakeForReplay, Taken, IInv, CallsOK, Typed
<1>11. NumbersOK'
  <2>1. SUFFICES ASSUME ~crossed
                 PROVE  Drawn' /\ Numbered(out)' /\ Numbered(in)' /\ Waited' /\ RepliesMatch'
    BY <1>5 DEF NumbersOK
  <2>2. Drawn /\ Numbered(out) /\ Numbered(in) /\ Waited /\ RepliesMatch
    BY <2>1 DEF NumbersOK, IInv
  <2>3. \A u : Counts(u)' = Counts(u)
    BY <1>5 DEF Counts
  <2>4. Drawn' /\ Numbered(out)'
    BY <1>1, <1>5, <2>2, <2>3, Fixed DEF Drawn, Numbered
  <2>5. Numbered(in)'
    <3>1. ASSUME NEW i \in 1..Len(in')
          PROVE  in'[i].n < next /\ \A u \in Users : Counts(u) /\ num[u] = in'[i].n => in'[i].by = u
      <4>1. i + 1 \in 1..Len(in) /\ in'[i] = in[i + 1]
        BY <1>4
      <4>2. QED
        BY <2>2, <4>1 DEF Numbered
    <3>2. QED
      BY <1>1, <1>5, <2>3, <3>1, Fixed DEF Numbered
  <2>6. Waited'
    BY <1>5, <2>2 DEF TakeForReplay, Taken, Waited, Restrict
  <2>7. RepliesMatch'
    BY <1>1, <2>2, Fixed DEF TakeForReplay, Taken, RepliesMatch
  <2>8. QED
    BY <2>4, <2>5, <2>6, <2>7
<1>12. BatchOK'
  <2>1. ASSUME NEW u \in Batches
        PROVE  InOrder(u)' /\ (~crossed' => Headed(u)')
    <3>1. InOrder(u) /\ (~crossed => Headed(u)) /\ u \in Users
      BY <1>1, Kinds DEF IInv, BatchOK
    <3>2. InOrder(u)'
      BY <1>5, <3>1 DEF InOrder
    <3>3. GoesOn(u)' => GoesOn(u)
      BY <1>1, <1>5, <3>1, Kinds DEF TakeForReplay, Taken, GoesOn
    <3>4. QED
      BY <1>4, <1>5, <3>1, <3>2, <3>3 DEF Headed
  <2>2. QED
    BY <1>1, <2>1, Fixed DEF BatchOK
<1>13. FollowOK'
  BY <1>1, Fixed, Kinds, SameQueues DEF TakeForReplay, Taken, IInv, FollowOK, Typed, CallsOK, PhaseOK, Due, Asked
<1>14. ClosedOK'
  BY <1>1, Fixed, Kinds, SameQueues DEF TakeForReplay, Taken, IInv, ClosedOK, Typed, CallsOK, PhaseOK
<1>15. QED
  BY <1>6, <1>7, <1>8, <1>9, <1>10, <1>11, <1>12, <1>13, <1>14 DEF IInv


LEMMA TakeFireKeeps ==
  ASSUME IInv, TakeFire
  PROVE  IInv'
<1> USE DEF conn, replay, call, closing, history
<1>1. setup' = setup /\ Typed
  BY DEF TakeFire, Taken, IInv
<1>2. /\ in \in Seq(AnyFrame) /\ in # <<>> /\ in' = Tail(in)
  BY <1>1 DEF TakeFire, Taken, Typed
<1>3. /\ in' \in Seq(AnyFrame) /\ Len(in) \in Nat \ {0} /\ Head(in) = in[1]
      /\ Len(in') = Len(in) - 1
      /\ \A i \in 1..(Len(in) - 1) : in'[i] = in[i + 1]
  BY <1>2, Dequeued
<1>4. \A i \in 1..Len(in') : i + 1 \in 1..Len(in) /\ in'[i] = in[i + 1]
  BY <1>3
<1>5. /\ out' = out /\ bound' = bound /\ sent' = sent /\ crossed' = crossed /\ num' = num
      /\ from' = from /\ ptr' = ptr /\ next' = next /\ open' = open /\ at' = at
      /\ stored' = stored
  BY DEF TakeFire, Taken
<1> DEFINE t == Head(in).by
<1>6. t \in Fires /\ life[t] = "fired" /\ t \in Users /\ t \notin Regs \cup Batches
  BY <1>1, <1>3, Kinds DEF TakeFire, Taken, IInv, FramesOK
<1>7. /\ \A u \in Users : u # t => pc'[u] = pc[u] /\ life'[u] = life[u]
      /\ \/ life'[t] = "starting" /\ pc'[t] = "handler"
         \/ life'[t] = "ended" /\ pc'[t] = pc[t]
  BY <1>1, <1>6 DEF TakeFire, Taken, Typed, StartHandler
<1>8. pc' \in [Users -> Places] /\ life' \in [Users -> Lives]
  BY <1>1 DEF TakeFire, Taken, Typed, StartHandler, Places, Lives
<1> HIDE DEF t
<1>9. Typed'
  BY <1>1, <1>3, <1>5, <1>8, Fixed DEF TakeFire, Taken, Typed
<1>10. PhaseOK'
  BY <1>1, <1>2, <1>5, Fixed DEF TakeFire, Taken, IInv, PhaseOK
<1>11. PendingOK'
  BY <1>1, <1>6, <1>7, Fixed DEF TakeFire, Taken, IInv, PendingOK, Waiters
<1>12. FramesOK'
  <2>1. \A i \in 1..Len(in') : in'[i].what = "fire" => in'[i].by # t
    <3>1. 1 \in 1..Len(in) /\ in[1].what = "fire" /\ in[1].by = t
      BY <1>3 DEF TakeFire, Taken, t
    <3>2. \A i \in 1..Len(in) : in[i].what = "fire" /\ in[i].by = t => i = 1
      BY <3>1 DEF IInv, FramesOK
    <3>3. QED
      BY <1>3, <1>4, <3>2
  <2>2. \A u \in Users : life[u] \in {"ending", "ended"} => life'[u] = life[u]
    BY <1>6, <1>7
  <2>3. \A i \in 1..Len(in') : in'[i].what = "fire" =>
          in'[i].by \in Fires /\ life'[in'[i].by] = "fired" /\ in'[i].reg \in Crons
    BY <1>1, <1>4, <1>7, <2>1, Kinds DEF IInv, FramesOK
  <2>4. \A i, j \in 1..Len(in') :
          in'[i].what = "fire" /\ in'[j].what = "fire" /\ in'[i].by = in'[j].by => i = j
    <3>1. TAKE i, j \in 1..Len(in')
    <3>2. /\ i + 1 \in 1..Len(in) /\ in'[i] = in[i + 1]
          /\ j + 1 \in 1..Len(in) /\ in'[j] = in[j + 1]
      BY <1>4
    <3>3. in[i + 1].what = "fire" /\ in[j + 1].what = "fire" /\ in[i + 1].by = in[j + 1].by => i + 1 = j + 1
      BY <3>2 DEF IInv, FramesOK
    <3>4. QED
      BY <3>2, <3>3
  <2>5. \A i \in 1..Len(out) : out[i].what = "unbind" => life'[out[i].reg] \in {"ending", "ended"}
    BY <1>1, <2>2, Kinds DEF IInv, FramesOK
  <2>6. QED
    BY <1>1, <1>5, <2>3, <2>4, <2>5, Fixed DEF IInv, FramesOK
<1>13. CallsOK'
  BY <1>1, <1>5, <1>6, <1>7, Fixed, Kinds DEF IInv, CallsOK
<1>14. NumbersOK'
  <2>1. SUFFICES ASSUME ~crossed
                 PROVE  Drawn' /\ Numbered(out)' /\ Numbered(in)' /\ Waited' /\ RepliesMatch'
    BY <1>5 DEF NumbersOK
  <2>2. Drawn /\ Numbered(out) /\ Numbered(in) /\ Waited /\ RepliesMatch
    BY <2>1 DEF NumbersOK, IInv
  <2>3. \A u : Counts(u)' = Counts(u)
    BY <1>5 DEF Counts
  <2>4. Drawn' /\ Numbered(out)'
    BY <1>1, <1>5, <2>2, <2>3, Fixed DEF Drawn, Numbered
  <2>5. Numbered(in)'
    <3>1. ASSUME NEW i \in 1..Len(in')
          PROVE  in'[i].n < next /\ \A u \in Users : Counts(u) /\ num[u] = in'[i].n => in'[i].by = u
      <4>1. i + 1 \in 1..Len(in) /\ in'[i] = in[i + 1]
        BY <1>4
      <4>2. QED
        BY <2>2, <4>1 DEF Numbered
    <3>2. QED
      BY <1>1, <1>5, <2>3, <3>1, Fixed DEF Numbered
  <2>6. Waited'
    BY <1>5, <2>2 DEF TakeFire, Taken, Waited
  <2>7. RepliesMatch'
    BY <1>1, <2>2, Fixed DEF TakeFire, Taken, RepliesMatch
  <2>8. QED
    BY <2>4, <2>5, <2>6, <2>7
<1>15. BatchOK'
  <2>1. ASSUME NEW u \in Batches
        PROVE  InOrder(u)' /\ (~crossed' => Headed(u)')
    <3>1. InOrder(u) /\ (~crossed => Headed(u)) /\ u \in Users
      BY <1>1, Kinds DEF IInv, BatchOK
    <3>2. InOrder(u)'
      BY <1>5, <3>1 DEF InOrder
    <3>3. GoesOn(u)' => GoesOn(u)
      BY <1>1, <1>5, <1>6, <1>7, <3>1 DEF TakeFire, Taken, GoesOn
    <3>4. QED
      BY <1>4, <1>5, <3>1, <3>2, <3>3 DEF Headed
  <2>2. QED
    BY <1>1, <2>1, Fixed DEF BatchOK
<1>16. FollowOK'
  <2>1. \A r \in Regs : pc'[r] = pc[r] /\ life'[r] = life[r]
    BY <1>1, <1>6, <1>7, Kinds
  <2>2. QED
    BY <1>1, <1>5, <2>1, SameQueues, Fixed DEF TakeFire, Taken, IInv, FollowOK, Asked, Due
<1>17. ClosedOK'
  <2>1. \A r \in Regs : pc'[r] = pc[r] /\ life'[r] = life[r]
    BY <1>1, <1>6, <1>7, Kinds
  <2>2. QED
    BY <1>1, <1>5, <2>1, SameQueues, Fixed DEF TakeFire, Taken, IInv, ClosedOK
<1>18. QED
  BY <1>9, <1>10, <1>11, <1>12, <1>13, <1>14, <1>15, <1>16, <1>17 DEF IInv


LEMMA TakeReplyKeeps ==
  ASSUME IInv, NEW w \in Users, TakeReply(w)
  PROVE  IInv'
<1> USE DEF conn, replay, call, closing, history
<1>1. setup' = setup /\ Typed
  BY DEF TakeReply, Taken, IInv
<1>2. /\ in \in Seq(AnyFrame) /\ in # <<>> /\ in' = Tail(in)
  BY <1>1 DEF TakeReply, Taken, Typed
<1>3. /\ in' \in Seq(AnyFrame) /\ Len(in) \in Nat \ {0} /\ Head(in) = in[1]
      /\ Len(in') = Len(in) - 1
      /\ \A i \in 1..(Len(in) - 1) : in'[i] = in[i + 1]
  BY <1>2, Dequeued
<1>4. \A i \in 1..Len(in') : i + 1 \in 1..Len(in) /\ in'[i] = in[i + 1]
  BY <1>3
<1>5. /\ out' = out /\ bound' = bound /\ sent' = sent /\ crossed' = crossed /\ num' = num
      /\ from' = from /\ ptr' = ptr /\ next' = next /\ open' = open /\ at' = at
      /\ stored' = stored
  BY DEF TakeReply, Taken
<1>6. /\ Head(in).n \in Nat \ {0} /\ num[w] = Head(in).n /\ pc[w] = "waiting" /\ w \notin Fires
      /\ \A n \in DOMAIN pending : pending[n] = w => n = Head(in).n
  BY <1>1, Kinds DEF TakeReply, Taken, IInv, PendingOK
<1>7. /\ \A u \in Users : u # w => pc'[u] = pc[u] /\ answer'[u] = answer[u]
      /\ pc'[w] = "returning" /\ answer'[w] = [by |-> Head(in).by, what |-> Head(in).what]
      /\ life' = life
  BY <1>1 DEF TakeReply, Taken, Typed
<1>8. Typed'
  BY <1>1, <1>3, <1>5, Fixed DEF TakeReply, Taken, Typed, Places, Lives
<1>9. PhaseOK'
  BY <1>1, Fixed, Kinds DEF TakeReply, Taken, IInv, PhaseOK, Typed, Restrict
<1>10. PendingOK'
  <2>1. \A n \in DOMAIN pending' : n \in DOMAIN pending /\ pending'[n] = pending[n] /\ n # Head(in).n
    BY DEF TakeReply, Taken, Restrict
  <2>2. \A n \in DOMAIN pending' : pending'[n] # w
    BY <1>6, <2>1
  <2>3. awaiting' = awaiting
    BY DEF TakeReply, Taken
  <2>4. QED
    BY <1>1, <1>5, <1>7, <2>1, <2>2, <2>3, Fixed DEF IInv, PendingOK, Waiters
<1>11. FramesOK'
  <2>1. life' = life
    BY DEF TakeReply, Taken
  <2>2. \A i \in 1..Len(in') : in'[i].what = "fire" =>
          in'[i].by \in Fires /\ life[in'[i].by] = "fired" /\ in'[i].reg \in Crons
    BY <1>4 DEF IInv, FramesOK
  <2>3. \A i, j \in 1..Len(in') :
          in'[i].what = "fire" /\ in'[j].what = "fire" /\ in'[i].by = in'[j].by => i = j
    <3>1. TAKE i, j \in 1..Len(in')
    <3>2. /\ i + 1 \in 1..Len(in) /\ in'[i] = in[i + 1]
          /\ j + 1 \in 1..Len(in) /\ in'[j] = in[j + 1]
      BY <1>4
    <3>3. in[i + 1].what = "fire" /\ in[j + 1].what = "fire" /\ in[i + 1].by = in[j + 1].by => i + 1 = j + 1
      BY <3>2 DEF IInv, FramesOK
    <3>4. QED
      BY <3>2, <3>3
  <2>4. QED
    BY <1>1, <1>5, <2>1, <2>2, <2>3, Fixed DEF IInv, FramesOK
<1>12. CallsOK'
  BY <1>1, <1>5, <1>6, <1>7, Fixed, Kinds DEF IInv, CallsOK
<1>13. NumbersOK'
  <2>1. SUFFICES ASSUME ~crossed
                 PROVE  Drawn' /\ Numbered(out)' /\ Numbered(in)' /\ Waited' /\ RepliesMatch'
    BY <1>5 DEF NumbersOK
  <2>2. Drawn /\ Numbered(out) /\ Numbered(in) /\ Waited /\ RepliesMatch
    BY <2>1 DEF NumbersOK, IInv
  <2>3. \A u : Counts(u)' = Counts(u)
    BY <1>5 DEF Counts
  <2>4. Drawn' /\ Numbered(out)'
    BY <1>1, <1>5, <2>2, <2>3, Fixed DEF Drawn, Numbered
  <2>5. Numbered(in)'
    <3>1. ASSUME NEW i \in 1..Len(in')
          PROVE  in'[i].n < next /\ \A u \in Users : Counts(u) /\ num[u] = in'[i].n => in'[i].by = u
      <4>1. i + 1 \in 1..Len(in) /\ in'[i] = in[i + 1]
        BY <1>4
      <4>2. QED
        BY <2>2, <4>1 DEF Numbered
    <3>2. QED
      BY <1>1, <1>5, <2>3, <3>1, Fixed DEF Numbered
  <2>6. Waited'
    BY <1>5, <2>2 DEF TakeReply, Taken, Waited, Restrict
  <2>7. Head(in).by = w
    <3>1. Counts(w)
      BY <1>6, <2>1, <2>2 DEF TakeReply, Taken, Waited, Counts
    <3>2. 1 \in 1..Len(in) /\ in[1].n = num[w]
      BY <1>3, <1>6
    <3>3. QED
      BY <1>3, <2>2, <3>1, <3>2 DEF Numbered
  <2>8. RepliesMatch'
    BY <1>1, <1>7, <2>2, <2>7, Fixed DEF RepliesMatch
  <2>9. QED
    BY <2>4, <2>5, <2>6, <2>8
<1>14. BatchOK'
  <2>1. ASSUME NEW u \in Batches
        PROVE  InOrder(u)' /\ (~crossed' => Headed(u)')
    <3>1. InOrder(u) /\ (~crossed => Headed(u)) /\ u \in Users
      BY <1>1, Kinds DEF IInv, BatchOK
    <3>2. InOrder(u)'
      BY <1>5, <3>1 DEF InOrder
    <3>3. u # w => (GoesOn(u)' => GoesOn(u))
      BY <1>5, <1>7, <3>1 DEF GoesOn
    <3>4. u = w /\ ~crossed => stored[u] # <<>>
      <4>1. SUFFICES ASSUME u = w, ~crossed
                     PROVE  stored[u] # <<>>
        OBVIOUS
      <4>2. Counts(w) /\ Numbered(in)
        BY <1>6, <4>1 DEF TakeReply, Taken, IInv, NumbersOK, Waited, Counts
      <4>3. 1 \in 1..Len(in) /\ in[1].n = num[w] /\ in[1].what \notin {"copy", "fire"}
        BY <1>3, <1>6 DEF TakeReply, Taken
      <4>4. in[1].by = w
        BY <4>2, <4>3 DEF Numbered
      <4>5. QED
        BY <3>1, <4>1, <4>3, <4>4 DEF Headed
    <3>5. QED
      BY <1>4, <1>5, <3>1, <3>2, <3>3, <3>4 DEF Headed
  <2>2. QED
    BY <1>1, <2>1, Fixed DEF BatchOK
<1>15. FollowOK'
  <2>1. \A r \in Regs : Asked(r)' => Asked(r)
    BY <1>1, <1>6, <1>7, Kinds DEF Asked
  <2>2. QED
    BY <1>1, <1>5, <1>7, <2>1, SameQueues, Fixed DEF TakeReply, Taken, IInv, FollowOK, Due
<1>16. ClosedOK'
  <2>1. \A r \in Regs : pc'[r] = pc[r] \/ (pc'[r] = "returning" /\ pc[r] = "waiting")
    BY <1>1, <1>6, <1>7, Kinds
  <2>2. QED
    BY <1>1, <1>5, <1>7, <2>1, SameQueues, Fixed DEF TakeReply, Taken, IInv, ClosedOK
<1>17. QED
  BY <1>8, <1>9, <1>10, <1>11, <1>12, <1>13, <1>14, <1>15, <1>16 DEF IInv


LEMMA ReaderTakeKeeps ==
  ASSUME IInv, ReaderTake
  PROVE  IInv'
BY ReaderTakes, TakeCopyKeeps, TakeFireKeeps, TakeUnawaitedKeeps, TakeForReplayKeeps, TakeReplyKeeps

-----------------------------------------------------------------------------
(* The invariant holds.                                                    *)

\* The clients start in it.
LEMMA InitOK ==
  ASSUME Init
  PROVE  IInv
<1>1. setup.conns \in Nat \ {0} /\ setup \in Setups
  BY SupervisorAssumption DEF Init
<1>2. out \in Seq(AnyFrame) /\ in \in Seq(AnyFrame) /\ stored \in [Users -> Seq(Nat)]
  BY DEF Init
<1>3. /\ pc \in [Users -> Places] /\ life \in [Users -> Lives] /\ num \in [Users -> Nat]
      /\ sent \in [Users -> Nat] /\ DOMAIN at = Users /\ DOMAIN answer = Users
      /\ from \in [Users -> Nat] /\ \A t \in Users : from[t] <= ptr
  BY DEF Init, Places, Lives
<1>4. open \in BOOLEAN /\ dead \in BOOLEAN /\ crossed \in BOOLEAN /\ sup \in Phases
  BY DEF Init, Phases
<1>5. ptr = 1 /\ next = 1 /\ reader = 0 /\ gate = 0 /\ awaiting = 0
  BY DEF Init
<1>6. /\ ptr \in 1..setup.conns /\ next \in Nat \ {0}
      /\ reader \in 0..ptr /\ gate \in 0..ptr /\ awaiting \in Nat
  BY <1>1, <1>5
<1>7. Typed
  BY <1>1, <1>2, <1>3, <1>4, <1>6 DEF Typed
<1>8. PhaseOK /\ PendingOK /\ FramesOK /\ CallsOK
  BY <1>7, Kinds DEF Init, PhaseOK, PendingOK, FramesOK, CallsOK
<1>9. NumbersOK
  BY DEF Init, NumbersOK, Drawn, Counts, Numbered, Waited, RepliesMatch
<1>10. BatchOK
  BY <1>7, Kinds DEF Init, BatchOK, InOrder, Headed, GoesOn
<1>11. FollowOK /\ ClosedOK
  BY <1>7, Kinds DEF Init, FollowOK, ClosedOK, Asked
<1>12. QED
  BY <1>7, <1>8, <1>9, <1>10, <1>11 DEF IInv

LEMMA StutterKeeps ==
  ASSUME IInv, UNCHANGED vars
  PROVE  IInv'
<1>1. setup' = setup
  BY DEF vars
<1>2. Typed' /\ PhaseOK' /\ PendingOK' /\ FramesOK' /\ CallsOK'
  BY <1>1, Fixed DEF vars, IInv, Typed, PhaseOK, PendingOK, FramesOK, CallsOK
<1>3. NumbersOK'
  BY SameNumbers DEF vars, IInv
<1>4. BatchOK'
  BY SameBatches DEF vars, IInv, GoesOn
<1>5. FollowOK' /\ ClosedOK'
  BY <1>1, Fixed, SameQueues DEF vars, IInv, FollowOK, ClosedOK, Asked, Due
<1>6. QED
  BY <1>2, <1>3, <1>4, <1>5 DEF IInv

LEMMA StepOK ==
  ASSUME IInv, [Next]_vars
  PROVE  IInv'
<1>1. CASE UNCHANGED vars
  BY <1>1, StutterKeeps
<1>2. ASSUME NEW t \in Users, CallStep(t)
      PROVE  IInv'
  BY <1>2, BeginKeeps, HandlerDoneKeeps, ReadGateKeeps, LoadForNumberKeeps, LoadToSendKeeps,
     GiveUpKeeps, ReturnKeeps DEF CallStep
<1>3. ASSUME NEW t \in Users, End(t) \/ BrokerFire(t)
      PROVE  IInv'
  BY <1>3, EndKeeps, BrokerFireKeeps
<1>4. CASE ReaderTake \/ ReaderPass \/ Break
  BY <1>4, ReaderTakeKeeps, ReaderPassKeeps, BreakKeeps
<1>5. CASE SupStep
  BY <1>5, SupNoticeKeeps, ShutGateKeeps, DialledKeeps, NoReconnectKeeps, DialFailsKeeps,
     SnapshotSubsKeeps, SnapshotCronsKeeps, ReplayOneKeeps, ReplayGiveUpKeeps, ReplayDoneKeeps
     DEF SupStep
<1>6. CASE Close \/ CloseReadGate \/ CloseConn
  BY <1>6, CloseKeeps, CloseReadGateKeeps, CloseConnKeeps
<1>7. CASE BrokerTake \/ BrokerRedeliver
  BY <1>7, BrokerTakeKeeps, BrokerRedeliverKeeps
<1>8. QED
  BY <1>1, <1>2, <1>3, <1>4, <1>5, <1>6, <1>7 DEF Next

\* The strengthening the theorems below rest on.
THEOREM Inductive == Spec => []IInv
<1>1. Init => IInv
  BY InitOK
<1>2. IInv /\ [Next]_vars => IInv'
  BY StepOK
<1>3. QED
  BY <1>1, <1>2, PTL DEF Spec

-----------------------------------------------------------------------------
(* What follows from it.                                                   *)

\* The client's state stays well typed: PendingMap holds callers and the replay only,
\* and reconnectGate is set exactly while doReconnect is at work.
THEOREM TypeCorrect == Spec => []TypeOK
<1>1. IInv => TypeOK
  BY DEF IInv, Typed, PhaseOK, PendingOK, TypeOK
<1>2. QED
  BY <1>1, Inductive, PTL

\* PublishBatch waits for its head chunk, so the broker has the head of a batch first
\* and the tail in order, over whatever connections the chunks go, unless some call
\* went over another connection than its number.
THEOREM BatchesInOrder == Spec => []BatchInOrder
<1>1. IInv => BatchInOrder
  BY DEF IInv, BatchOK, InOrder, Headed, BatchInOrder
<1>2. QED
  BY <1>1, Inductive, PTL

\* Unless a call has drawn its number from one connection and gone over another
\* (getConn is called twice), a reply is only ever given to the call that asked.
THEOREM RepliesCorrelate == Spec => []MatchUnlessCrossed
<1>1. IInv => MatchUnlessCrossed
  BY DEF IInv, NumbersOK, MatchUnlessCrossed
<1>2. QED
  BY <1>1, Inductive, PTL

\* However calls, losses, replays and timeouts interleave, once the supervisor is done with
\* a live connection each registration is at the broker or on its way there.
THEOREM RegistrationsDo == Spec => []RegistrationsFollow
<1>1. IInv => RegistrationsFollow
  BY DEF IInv, FollowOK, PhaseOK, RegistrationsFollow, Has, Due
<1>2. QED
  BY <1>1, Inductive, PTL

\* A registration that Close or Stop took back is not brought back by a replay that
\* copied the table before, unless its call ran out of patience at the gate.
THEOREM ClosedStay == Spec => []ClosedStaysClosed
<1>1. IInv => ClosedStaysClosed
  BY DEF IInv, ClosedOK, Clean, ClosedStaysClosed
<1>2. QED
  BY <1>1, Inductive, PTL
=============================================================================
