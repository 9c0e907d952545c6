----------------------------- MODULE Supervisor -----------------------------
(***************************************************************************)
(* The client over its connections (arbitro.go): superviseConnection and   *)
(* doReconnect with the replay of subscriptions and crons, the gate at     *)
(* which getConn makes callers wait meanwhile, Client.Close, and the calls *)
(* that race all of it: Publish and PublishBatch, Subscribe and            *)
(* Subscription.Close (subscription.go), CronBuilder.Run, CronHandle.Stop  *)
(* and the goroutine that handles a cron's fire (cron.go).                 *)
(*                                                                         *)
(* A connection is what the Connection module shows it to be: numbers are  *)
(* drawn from its counter, a request is registered under its number and    *)
(* sent, its end answers whoever is registered.  A connection that is not  *)
(* connPtr's is closed.                                                    *)
(***************************************************************************)
EXTENDS Integers, FiniteSets, Sequences, SequencesExt, Functions

CONSTANTS
  Threads, \* what uses the client: publishers, subscriptions, crons, fires
  Setups   \* the clients to look at, with the bounds put on each

\* Whoever waits in the PendingMap is a thread or the replay.
Replayer == "replay"

\* One client: the subscriptions, crons, fires and publishers of batches among its
\* threads, the others publish; whether waits may run out, whether redialling may
\* fail for good, whether the application closes the client; the chunks of a batch;
\* bounds on connections and redelivered copies.
ASSUME SupervisorAssumption ==
  /\ Replayer \notin Threads
  /\ \A u \in Setups :
      /\ u.threads \subseteq Threads /\ u.subs \subseteq u.threads
      /\ u.crons \subseteq u.threads \ u.subs
      /\ u.fires \subseteq u.threads \ (u.subs \cup u.crons)
      /\ u.batches \subseteq u.threads \ (u.subs \cup u.crons \cup u.fires)
      /\ u.timeouts \in BOOLEAN /\ u.mayDie \in BOOLEAN /\ u.mayClose \in BOOLEAN
      /\ u.conns \in Nat \ {0} /\ u.copies \in Nat /\ u.chunks \in Nat \ {0}

VARIABLES
  setup,    \* the client at hand; it never changes
  ptr,      \* connPtr: how many connections there have been
  open,     \* it is not closed
  next,     \* its sequence counter
  pending,  \* its PendingMap: number -> who waits
  out,      \* frames on their way to the broker
  in,       \* frames on their way to its reader
  reader,   \* the gate its reader waits at, 0 for none
  sup,      \* superviseConnection: "watch", "lost", "dial", "swapped", "subs",
            \* "subsDone", "crons", "exited"
  gate,     \* reconnectGate, named by the connection it replaces; 0 for nil
  todo,     \* registrations left to replay
  awaiting, \* the number whose reply the replay waits for, 0 for none
  dead,     \* Client.dead
  table,    \* subFilters and crons: what a reconnect replays
  pc,       \* thread -> where its call is: "idle", "handler", "gate", "load",
            \* "waiting", "returning"
  at,       \* thread -> the gate getConn has read
  num,      \* thread -> the call's number, 0 before it has one
  from,     \* thread -> the connection that number is from
  answer,   \* thread -> the reply its call got
  life,     \* thread -> "new", "fired", "starting", "open", "ending", "ended", "failed"
  sent,     \* thread -> the chunks of its batch that were sent
  closer,   \* Client.Close: "none", "gate", "load", "done"
  closerAt,
  copies,   \* redelivered copies sent so far
  bound,    \* registrations the broker holds for the connection
  stored,   \* thread -> the chunks of its batch the broker has, as they came
  crossed,  \* some call went over another connection than its number (history)
  late,     \* crons that entered the table after their connection's end (history)
  hasty     \* threads whose wait at the gate ran out (history)

conn    == <<ptr, open, next, pending, out, in, reader>>
replay  == <<todo, awaiting>>
call    == <<pc, at, num, from, answer, life, sent>>
closing == <<closer, closerAt>>
history == <<stored, crossed, late, hasty>>
vars == <<setup, ptr, open, next, pending, out, in, reader, sup, gate, todo, awaiting,
          dead, table, pc, at, num, from, answer, life, sent, closer, closerAt, copies, bound,
          stored, crossed, late, hasty>>

Users    == setup.threads
Subs     == setup.subs
Crons    == setup.crons
Fires    == setup.fires
Batches  == setup.batches
Regs     == Subs \cup Crons
NoReply  == [by |-> "nobody", what |-> "nothing"]
Failed   == [by |-> "nobody", what |-> "error"]

Frame(n, who, what, reg) == [n |-> n, by |-> who, what |-> what, reg |-> reg]

Init ==
  /\ setup \in Setups
  /\ ptr = 1 /\ open = TRUE /\ next = 1 /\ pending = <<>>
  /\ out = <<>> /\ in = <<>> /\ reader = 0
  /\ sup = "watch" /\ gate = 0 /\ todo = {} /\ awaiting = 0 /\ dead = FALSE
  /\ table = {}
  /\ pc = [t \in Users |-> "idle"] /\ at = [t \in Users |-> 0]
  /\ num = [t \in Users |-> 0] /\ from = [t \in Users |-> 0]
  /\ answer = [t \in Users |-> NoReply] /\ life = [t \in Users |-> "new"]
  /\ sent = [t \in Users |-> 0] /\ stored = [t \in Users |-> <<>>]
  /\ closer = "none" /\ closerAt = 0
  /\ copies = 0 /\ bound = {}
  /\ crossed = FALSE /\ late = {} /\ hasty = {}

-----------------------------------------------------------------------------
(* Calls.                                                                  *)

\* What the call of a thread asks of the broker.
What(t) ==
  IF life[t] = "ending" THEN "unbind"
  ELSE CASE t \in Regs    -> "bind"
         [] t \in Fires   -> "cronack"
         [] t \in Batches -> "chunk"
         [] OTHER         -> "publish"

\* Subscribe registers before it sends, a cron is registered after the reply.
ForgetFilters(t) == table  \* mutant: the filters are not kept for the replay
Listed(t) == IF t \in Subs THEN table \cup {t} ELSE table

Begin(t) ==
  /\ pc[t] = "idle" /\ life[t] = "new" /\ t \notin Fires
  /\ pc' = [pc EXCEPT ![t] = "gate"]
  /\ life' = [life EXCEPT ![t] = "starting"]
  /\ table' = Listed(t)
  /\ UNCHANGED <<setup, conn, sup, gate, replay, dead, at, num, from, answer, sent,
                 closing, copies, bound, history>>

KeepListed(t) == table  \* mutant: Close and Stop leave the replay entry behind
\* Subscription.Close and CronHandle.Stop take the registration back first.
Unlisted(t) == table \ {t}

End(t) ==
  /\ pc[t] = "idle" /\ life[t] = "open" /\ t \in Regs
  /\ pc' = [pc EXCEPT ![t] = "gate"]
  /\ life' = [life EXCEPT ![t] = "ending"]
  /\ table' = Unlisted(t)
  /\ UNCHANGED <<setup, conn, sup, gate, replay, dead, at, num, from, answer, sent,
                 closing, copies, bound, history>>

\* getConn reads the gate ...
ReadGate(t) ==
  /\ pc[t] = "gate"
  /\ pc' = [pc EXCEPT ![t] = "load"]
  /\ at' = [at EXCEPT ![t] = gate]
  /\ UNCHANGED <<setup, conn, sup, gate, replay, dead, table, num, from, answer,
                 life, sent, closing, copies, bound, history>>

\* ... waits until that gate is opened, or not longer than opts.timeout ...
Opened(g) == g = 0 \/ g # gate
MayPass(g) == Opened(g) \/ setup.timeouts

NoteHaste(t) == hasty' = IF Opened(at[t]) THEN hasty ELSE hasty \cup {t}

\* ... and loads connPtr, the first time for the number ...
LoadForNumber(t) ==
  /\ pc[t] = "load" /\ num[t] = 0 /\ MayPass(at[t])
  /\ NoteHaste(t)
  /\ num' = [num EXCEPT ![t] = next]
  /\ from' = [from EXCEPT ![t] = ptr]
  /\ next' = next + 1
  /\ pc' = [pc EXCEPT ![t] = "gate"]
  /\ UNCHANGED <<setup, ptr, open, pending, out, in, reader, sup, gate, replay,
                 dead, table, at, answer, life, sent, closing, copies, bound,
                 stored, crossed, late>>

\* runCronHandler: the handler's result, or its timeout, whichever is first.  A result
\* that comes later is discarded.
HandlerDone(t) ==
  /\ pc[t] = "handler"
  /\ pc' = [pc EXCEPT ![t] = "gate"]
  /\ UNCHANGED <<setup, conn, sup, gate, replay, dead, table, at, num, from, answer,
                 life, sent, closing, copies, bound, history>>

Register(n, who) == [m \in DOMAIN pending \cup {n} |-> IF m = n THEN who ELSE pending[m]]

HeadUnawaited(t) ==  \* mutant: no chunk of a batch is waited for
  (t \in Subs /\ life[t] = "ending") \/ t \in Fires \cup Batches
\* No reply is waited for: Unsubscribe, CronAck, the tail of a batch.
OneWay(t) ==
  (t \in Subs /\ life[t] = "ending") \/ t \in Fires \/ (t \in Batches /\ sent[t] > 0)

\* What a frame is about: a registration, or the number of a chunk.
About(t) == IF t \in Batches THEN sent[t] + 1 ELSE t

\* ... and the second time to send: SendExpectReply, TrySend or Send.
LoadToSend(t) ==
  /\ pc[t] = "load" /\ num[t] # 0 /\ MayPass(at[t])
  /\ NoteHaste(t)
  /\ LET waits == open /\ ~OneWay(t) IN
       /\ pending' = IF waits THEN Register(num[t], t) ELSE pending
       /\ pc' = [pc EXCEPT ![t] = IF waits THEN "waiting" ELSE "returning"]
  /\ IF open
     THEN /\ out' = Append(out, Frame(num[t], t, What(t), About(t)))
          /\ sent' = [sent EXCEPT ![t] = @ + 1]
          /\ crossed' = (crossed \/ from[t] # ptr)
          /\ UNCHANGED answer
     ELSE /\ answer' = [answer EXCEPT ![t] = Failed]
          /\ UNCHANGED <<out, sent, crossed>>
  /\ UNCHANGED <<setup, ptr, open, next, in, reader, sup, gate, replay, dead, table,
                 at, num, from, life, closing, copies, bound, stored, late>>

\* The caller's context ends.
GiveUp(t) ==
  /\ pc[t] = "waiting" /\ setup.timeouts
  /\ pending' = Restrict(pending, DOMAIN pending \ {num[t]})
  /\ pc' = [pc EXCEPT ![t] = "returning"]
  /\ answer' = [answer EXCEPT ![t] = Failed]
  /\ UNCHANGED <<setup, ptr, open, next, out, in, reader, sup, gate, replay, dead,
                 table, at, num, from, life, sent, closing, copies, bound, history>>

\* PublishBatch goes on with the next chunk.
Goes(t) == t \in Batches /\ answer[t] # Failed /\ sent[t] < setup.chunks

\* The call returns; Run enters the cron into the table only now.  closeLocal may
\* have closed the subscription in the meantime.
Return(t) ==
  /\ pc[t] = "returning"
  /\ pc' = [pc EXCEPT ![t] = IF Goes(t) THEN "gate" ELSE "idle"]
  /\ num' = [num EXCEPT ![t] = 0]
  /\ at' = [at EXCEPT ![t] = 0]
  /\ LET ok == answer[t] # Failed
         run == ok /\ t \in Crons /\ life[t] = "starting"
         over == life[t] = "ending" \/ t \notin Regs \/ (t \in Subs /\ dead)
     IN /\ life' = [life EXCEPT ![t] = IF Goes(t) THEN @
                                       ELSE IF over THEN "ended"
                                       ELSE IF ok THEN "open" ELSE "failed"]
        /\ table' = IF run THEN table \cup {t} ELSE table
        /\ late' = IF run /\ (from[t] # ptr \/ ~open) THEN late \cup {t} ELSE late
  /\ from' = [from EXCEPT ![t] = 0]
  /\ answer' = [answer EXCEPT ![t] = NoReply]
  /\ UNCHANGED <<setup, conn, sup, gate, replay, dead, sent, closing, copies, bound,
                 stored, crossed, hasty>>

-----------------------------------------------------------------------------
(* The reader and the connection's end.                                    *)

AnyWaiter(n) == DOMAIN pending  \* mutant: replies are taken in the order they come
\* PendingMap.Resolve finds the waiter by the number.
Waiter(n) == DOMAIN pending \cap {n}

\* dispatchCronFire: a goroutine of its own; a fire of a cron that is not in the
\* table is dropped and never acked.
StartHandler(t, cron) ==
  /\ pc' = IF cron \in table THEN [pc EXCEPT ![t] = "handler"] ELSE pc
  /\ life' = [life EXCEPT ![t] = IF cron \in table THEN "starting" ELSE "ended"]

ReaderTake ==
  /\ open /\ reader = 0 /\ in # <<>>
  /\ in' = Tail(in)
  /\ LET f == Head(in)
         hit == Waiter(f.n)
     IN \/ /\ f.what = "copy"  \* dispatchSingleDeliver acks it through getConn
           /\ reader' = gate
           /\ UNCHANGED <<pending, pc, answer, replay, life>>
        \/ /\ f.what = "fire"
           /\ StartHandler(f.by, f.reg)
           /\ UNCHANGED <<reader, pending, answer, replay>>
        \/ /\ f.what \notin {"copy", "fire"} /\ hit = {}
           /\ UNCHANGED <<reader, pending, pc, answer, replay, life>>
        \/ /\ f.what \notin {"copy", "fire"}
           /\ \E n \in hit :
                LET w == pending[n] IN
                /\ pending' = Restrict(pending, DOMAIN pending \ {n})
                /\ IF w = Replayer
                   THEN awaiting' = 0 /\ UNCHANGED <<pc, answer>>
                   ELSE /\ pc' = [pc EXCEPT ![w] = "returning"]
                        /\ answer' = [answer EXCEPT ![w] = [by |-> f.by, what |-> f.what]]
                        /\ UNCHANGED awaiting
           /\ UNCHANGED <<reader, todo, life>>
  /\ UNCHANGED <<setup, ptr, open, next, out, sup, gate, dead, table, at, num, from,
                 sent, closing, copies, bound, history>>

ReaderPass ==
  /\ reader # 0 /\ MayPass(reader)
  /\ reader' = 0
  /\ UNCHANGED <<setup, ptr, open, next, pending, out, in, sup, gate, replay, dead,
                 table, call, closing, copies, bound, history>>

OnlyReplay == Range(pending) \cap {Replayer}  \* mutant: CloseAll wakes no caller
\* PendingMap.CloseAll.
Woken == Range(pending)

\* The connection closes: PendingMap.CloseAll wakes whoever is registered, and
\* the broker forgets what was bound to it.
Shut ==
  /\ open' = FALSE
  /\ pending' = <<>> /\ out' = <<>> /\ in' = <<>> /\ reader' = 0
  /\ pc' = [t \in Users |-> IF t \in Woken THEN "returning" ELSE pc[t]]
  /\ answer' = [t \in Users |-> IF t \in Woken THEN Failed ELSE answer[t]]
  /\ awaiting' = IF Replayer \in Woken THEN 0 ELSE awaiting
  /\ bound' = {}

Break ==
  /\ open /\ (ptr < setup.conns \/ setup.mayDie)
  /\ Shut
  /\ UNCHANGED <<setup, ptr, next, sup, gate, todo, dead, table, at, num, from,
                 life, sent, closing, copies, history>>

-----------------------------------------------------------------------------
(* The supervisor.                                                         *)

\* Done() has fired.  Close ends the supervisor, if it has got that far.
SupNotice ==
  /\ sup = "watch" /\ ~open
  /\ sup' = IF closer # "none" THEN "exited" ELSE "lost"
  /\ UNCHANGED <<setup, conn, gate, replay, dead, table, call, closing, copies,
                 bound, history>>

ShutGate ==
  /\ sup = "lost"
  /\ sup' = "dial"
  /\ gate' = ptr
  /\ UNCHANGED <<setup, conn, replay, dead, table, call, closing, copies, bound,
                 history>>

\* ReconnectLoop.Run succeeds, and connPtr is swapped.
Dialled ==
  /\ sup = "dial" /\ ptr < setup.conns
  /\ sup' = "swapped"
  /\ ptr' = ptr + 1 /\ open' = TRUE /\ next' = 1
  /\ UNCHANGED <<setup, pending, out, in, reader, gate, replay, dead, table, call,
                 closing, copies, bound, history>>

GateStays == gate  \* mutant: the gate stays shut when redialling fails
\* The deferred function of doReconnect, on every return.
Reopened == 0

\* failAllPending walks the registry.
ClosedLocally == table \cap Subs

\* The client is dead: failAllPending closes every subscription locally.
Abandon ==
  /\ setup.mayDie
  /\ sup' = "exited" /\ dead' = TRUE
  /\ table' = table \ Subs
  /\ life' = [t \in Users |-> IF t \in ClosedLocally /\ life[t] = "open" THEN "ended"
                              ELSE life[t]]
  /\ UNCHANGED <<setup, conn, replay, pc, at, num, from, answer, sent, closing, copies,
                 bound, history>>

\* Reconnecting is disabled, or the broker has rejected the token ...
NoReconnect == sup = "lost" /\ gate' = gate /\ Abandon

\* ... or MaxRetries are used up.
DialFails == sup = "dial" /\ gate' = Reopened /\ Abandon

\* replaySubscriptions copies its table, then replayCrons the other one.
Snapshot(phase, done, kind) ==
  /\ sup = done
  /\ sup' = phase
  /\ todo' = table \cap kind
  /\ UNCHANGED <<setup, conn, gate, awaiting, dead, table, call, closing, copies,
                 bound, history>>

SnapshotSubs  == Snapshot("subs", "swapped", Subs)
SnapshotCrons == Snapshot("crons", "subsDone", Crons)

\* One after the other, in the table's order, each waiting for its reply.
ReplayOne(r) ==
  /\ sup \in {"subs", "crons"} /\ r \in todo /\ awaiting = 0
  /\ todo' = todo \ {r}
  /\ next' = next + 1
  /\ IF open
     THEN /\ pending' = Register(next, Replayer)
          /\ out' = Append(out, Frame(next, Replayer, "bind", r))
          /\ awaiting' = next
     ELSE UNCHANGED <<pending, out, awaiting>>
  /\ UNCHANGED <<setup, ptr, open, in, reader, sup, gate, dead, table, call,
                 closing, copies, bound, history>>

\* The replay's context ends.
ReplayGiveUp ==
  /\ awaiting # 0 /\ setup.timeouts
  /\ pending' = Restrict(pending, DOMAIN pending \ {awaiting})
  /\ awaiting' = 0
  /\ UNCHANGED <<setup, ptr, open, next, out, in, reader, sup, gate, todo, dead,
                 table, call, closing, copies, bound, history>>

ReplayDone ==
  /\ sup \in {"subs", "crons"} /\ todo = {} /\ awaiting = 0
  /\ sup' = IF sup = "subs" THEN "subsDone" ELSE "watch"
  /\ gate' = IF sup = "subs" THEN gate ELSE Reopened
  /\ UNCHANGED <<setup, conn, replay, dead, table, call, closing, copies, bound,
                 history>>

-----------------------------------------------------------------------------
(* Client.Close.                                                           *)

Close ==
  /\ setup.mayClose /\ closer = "none"
  /\ closer' = "gate"
  /\ UNCHANGED <<setup, conn, sup, gate, replay, dead, table, call, closerAt,
                 copies, bound, history>>

CloseReadGate ==
  /\ closer = "gate"
  /\ closer' = "load" /\ closerAt' = gate
  /\ UNCHANGED <<setup, conn, sup, gate, replay, dead, table, call, copies, bound,
                 history>>

CloseConn ==
  /\ closer = "load" /\ MayPass(closerAt)
  /\ closer' = "done"
  /\ IF open THEN Shut
     ELSE UNCHANGED <<open, pending, out, in, reader, pc, answer, awaiting, bound>>
  /\ UNCHANGED <<setup, ptr, next, sup, gate, todo, dead, table, at, num, from,
                 life, sent, closerAt, copies, history>>

-----------------------------------------------------------------------------
(* The broker (external).                                                  *)

\* CronAck and the tail of a batch carry no FlagAckReq.
Answered(f) == f.what # "cronack" /\ ~(f.what = "chunk" /\ f.reg > 1)

BrokerTake ==
  /\ open /\ out # <<>>
  /\ out' = Tail(out)
  /\ LET f == Head(out) IN
       /\ bound' = CASE f.what = "bind"   -> bound \cup {f.reg}
                     [] f.what = "unbind" -> bound \ {f.reg}
                     [] OTHER             -> bound
       /\ stored' = IF f.what = "chunk" THEN [stored EXCEPT ![f.by] = Append(@, f.reg)]
                    ELSE stored
       /\ in' = IF Answered(f) THEN Append(in, f) ELSE in
  /\ UNCHANGED <<setup, ptr, open, next, pending, reader, sup, gate, replay, dead,
                 table, call, closing, copies, crossed, late, hasty>>

\* A copy of a message whose ack is on record, to a subscription that is bound.
BrokerRedeliver ==
  /\ open /\ bound \cap Subs # {} /\ copies < setup.copies
  /\ copies' = copies + 1
  /\ in' = Append(in, Frame(0, "broker", "copy", "broker"))
  /\ UNCHANGED <<setup, ptr, open, next, pending, out, reader, sup, gate, replay,
                 dead, table, call, closing, bound, history>>

\* The scheduler fires a cron that is registered.
BrokerFire(t) ==
  /\ open /\ t \in Fires /\ life[t] = "new"
  /\ \E r \in bound \cap Crons : in' = Append(in, Frame(0, t, "fire", r))
  /\ life' = [life EXCEPT ![t] = "fired"]
  /\ UNCHANGED <<setup, ptr, open, next, pending, out, reader, sup, gate, replay,
                 dead, table, pc, at, num, from, answer, sent, closing, copies,
                 bound, history>>

-----------------------------------------------------------------------------
CallStep(t) ==
  \/ Begin(t) \/ HandlerDone(t) \/ ReadGate(t) \/ LoadForNumber(t) \/ LoadToSend(t)
  \/ GiveUp(t) \/ Return(t)

SupStep ==
  \/ SupNotice \/ ShutGate \/ Dialled \/ NoReconnect \/ DialFails
  \/ SnapshotSubs \/ SnapshotCrons
  \/ (\E r \in Regs : ReplayOne(r)) \/ ReplayGiveUp \/ ReplayDone

Next ==
  \/ \E t \in Users : CallStep(t) \/ End(t) \/ BrokerFire(t)
  \/ ReaderTake \/ ReaderPass \/ Break
  \/ SupStep
  \/ Close \/ CloseReadGate \/ CloseConn
  \/ BrokerTake \/ BrokerRedeliver

Spec == Init /\ [][Next]_vars

\* The goroutines run, the broker answers, and redialling ends one way or the
\* other: a limit on the retries, or a broker that comes back.
LiveSpec ==
  /\ Spec
  /\ \A t \in Threads : WF_vars(t \in Users /\ CallStep(t))
  /\ WF_vars(ReaderTake) /\ WF_vars(ReaderPass) /\ WF_vars(SupStep) /\ WF_vars(BrokerTake)

-----------------------------------------------------------------------------
(* Properties.                                                             *)

Waiters == Users \cup {Replayer}

TypeOK ==
  /\ ptr \in 1..setup.conns /\ reader \in 0..ptr /\ gate \in 0..ptr
  /\ \A n \in DOMAIN pending : pending[n] \in Waiters
  /\ todo \subseteq Regs /\ awaiting \in 0..next
  /\ table \subseteq Regs /\ bound \subseteq Regs
  /\ gate # 0 <=> sup \notin {"watch", "lost", "exited"}

\* Stated by the comments on getConn and SendExpectReply: a reply is correlated by
\* number, and no half-swapped pointer is raced.
RepliesMatch == \A t \in Users : answer[t] \in {NoReply, Failed} \/ answer[t].by = t

\* It holds as long as no call has gone over another connection than its number is from:
\* whatever is lost, given up, replayed or answered late.
MatchUnlessCrossed == crossed \/ RepliesMatch

\* A subscription the application holds, and a cron that was in the table in time,
\* is at the broker or on its way there whenever the supervisor is done with a
\* live connection: however calls, replays, timeouts and losses interleave.
RegistrationsFollow ==
  sup = "watch" /\ open =>
    \A r \in Regs : life[r] = "open" /\ r \notin late =>
      r \in bound \/ \E i \in 1..Len(out) : out[i].what = "bind" /\ out[i].reg = r

\* A subscription that was closed, a cron that was stopped, does not come back
\* with a replay that copied the table earlier: Close and Stop take the entry back
\* before they wait at the gate.
ClosedStaysClosed ==
  \A r \in Regs \ hasty : life[r] = "ended" /\ r \in bound =>
    \E i \in 1..Len(out) : out[i].what = "unbind" /\ out[i].reg = r

Busy(t) == t \in Users /\ pc[t] # "idle"

\* What the broker has of a batch begins with the first chunk, and the others follow
\* in order: the head is awaited before a tail chunk goes out, whatever connections
\* the chunks take.  (Chunks of the tail may be missing, in the middle too.)
BatchInOrder ==
  crossed \/ \A t \in Batches :
    LET q == stored[t] IN
    /\ q # <<>> => q[1] = 1
    /\ \A i \in 2..Len(q) : q[i - 1] < q[i]

\* Every call ends although no wait runs out, unless some call crossed: whatever
\* becomes of the reconnect, the gate opens again and no waiter is forgotten.  A
\* fire's goroutine is such a call, also when the handler never returns.  (A
\* redelivered copy can park the reader at the gate until its wait runs out, so
\* clients without such copies are meant.)
CallsEnd ==
  \A t \in Threads : Busy(t) /\ setup.copies = 0 ~> ~Busy(t) \/ crossed
=============================================================================
