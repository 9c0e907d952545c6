------------------------------- MODULE Service -------------------------------
(***************************************************************************)
(* Request/reply between services (service.go): ServiceBuilder.Build,      *)
(* Handle, Service.Request and Send, the dispatcher with its handler       *)
(* goroutines, Msg.reply (subscription.go) and Service.Close.              *)
(*                                                                         *)
(* An instance is a built, or half built, Service; the workers are the     *)
(* instances of the service that is called, the others only call.  A call  *)
(* is one Request or Send.  The broker is external: it keeps one queue for *)
(* the group of workers, hands a request to one worker at a time, again    *)
(* after a nack or when AckWait runs out, without limit; a reply it hands  *)
(* to the one instance its subject names.  A delivery and its dispatch are *)
(* one step: a frame lost in between is one AckWait brings back.           *)
(***************************************************************************)
EXTENDS Naturals, Sequences, SequencesExt, Functions

CONSTANTS
  Instances,  \* the Service values of one process
  Calls,      \* the calls of Request and Send
  MaxRuns,    \* bound: how often handlers run for one call
  Setups      \* the systems to look at, with the bounds put on each

\* One system: its instances and which are workers, with the methods each will
\* handle; its calls, the Sends among them, who makes each and to which method; the
\* instances whose Build may fail half way and those the application closes;
\* whether frames may be lost or refused, waits run out, AckWait run out under a
\* handler that is still at work, handlers return no bytes; and how often, up to the
\* bound, handlers run for one call.
ASSUME ServiceAssumption ==
  /\ MaxRuns \in Nat /\ "none" \notin Calls
  /\ \A u \in Setups :
       /\ u.instances \subseteq Instances /\ u.workers \subseteq u.instances
       /\ u.calls \subseteq Calls /\ u.sends \subseteq u.calls
       /\ u.from \in [u.calls -> u.instances]
       /\ u.flaky \subseteq u.instances /\ u.closers \subseteq u.instances
       /\ {u.lossy, u.timeouts, u.slow, u.silent} \subseteq BOOLEAN
       /\ u.runs \in 1..MaxRuns

VARIABLES
  setup,     \* the system at hand; it never changes
  build,     \* instance -> "new", "created", "worker", "built", "refused", "failed"
  bound,     \* the subscriptions the broker holds: <<instance, "worker" or "reply">>
  handlers,  \* instance -> Service.handlers
  known,     \* the instances whose streamCache has the called service's stream
  closed,    \* the instances that are closed
  corrID,    \* instance -> Service.corrID
  pending,   \* instance -> Service.pending: correlation number -> call
  pc,        \* call -> "idle", "enter", "publish", "sent", "waiting", "returned"
  corr,      \* call -> its correlation number, 0 before it has one
  ch,        \* call -> what its reply channel buffers
  result,    \* call -> "none", "ok", "timeout", "failed", "sent"
  published, \* call -> its publish: "no", "flying", "stored", "refused"
  ready,     \* the requests the broker may hand to a worker
  settled,   \* the requests that were acked
  started,   \* call -> handler runs so far
  runs,      \* handler goroutines and nacks under way
  replies,   \* the replies the broker keeps for the callers
  succeeded  \* the calls for which some handler returned no error (history)

request == <<pc, corr, ch, result>>
service == <<build, bound, handlers, known, closed, corrID, pending>>
queue   == <<published, ready, settled, started>>
vars == <<setup, build, bound, handlers, known, closed, corrID, pending, pc, corr, ch,
          result, published, ready, settled, started, runs, replies, succeeded>>

NoReply == [call |-> "none", by |-> <<>>]

Init ==
  /\ setup \in Setups
  /\ build = [i \in setup.instances |-> "new"]
  /\ bound = {} /\ known = {} /\ closed = {}
  /\ handlers = [i \in setup.instances |-> {}]
  /\ corrID = [i \in setup.instances |-> 0]
  /\ pending = [i \in setup.instances |-> <<>>]
  /\ pc = [c \in setup.calls |-> "idle"] /\ corr = [c \in setup.calls |-> 0]
  /\ ch = [c \in setup.calls |-> NoReply] /\ result = [c \in setup.calls |-> "none"]
  /\ published = [c \in setup.calls |-> "no"]
  /\ ready = {} /\ settled = {} /\ started = [c \in setup.calls |-> 0]
  /\ runs = {} /\ replies = {} /\ succeeded = {}

-----------------------------------------------------------------------------
(* Build and Handle.                                                       *)

\* The stream, whose id goes into the cache, and the two consumers.
Create(i) ==
  /\ build[i] = "new"
  /\ \E r \in {"created", "refused", "failed"} :
       /\ r = "created" \/ i \in setup.flaky
       /\ build' = [build EXCEPT ![i] = r]
       /\ known' = IF r = "created" /\ i \in setup.workers THEN known \cup {i} ELSE known
  /\ UNCHANGED <<setup, bound, handlers, closed, corrID, pending, request, queue,
                 runs, replies, succeeded>>

\* One subscription after the other.  Build reads no RepError here, so it goes on
\* after a refusal; and it fails when the reply is lost, although the subscription
\* may be bound and stays registered with the client.
Subscribe(i, kind, before, after) ==
  /\ build[i] = before
  /\ \E ok \in BOOLEAN, r \in {after, "failed"} :
       /\ (ok /\ r = after) \/ i \in setup.flaky
       /\ bound' = IF ok THEN bound \cup {<<i, kind>>} ELSE bound
       /\ build' = [build EXCEPT ![i] = r]
  /\ UNCHANGED <<setup, handlers, known, closed, corrID, pending, request, queue, runs,
                 replies, succeeded>>

SubscribeWorker(i) == Subscribe(i, "worker", "created", "worker")
SubscribeReply(i)  == Subscribe(i, "reply", "worker", "built")

\* The application has the Service only after Build: requests may be there first.
Handle(i) ==
  /\ build[i] = "built"
  /\ \E m \in setup.methods[i] \ handlers[i] :
       handlers' = [handlers EXCEPT ![i] = @ \cup {m}]
  /\ UNCHANGED <<setup, build, bound, known, closed, corrID, pending, request, queue, runs,
                 replies, succeeded>>

-----------------------------------------------------------------------------
(* Request and Send.                                                       *)

IsRequest(c) == c \notin setup.sends
Existing == \E w \in setup.workers : build[w] \notin {"new", "refused"}

Return(c, r) ==
  /\ pc' = [pc EXCEPT ![c] = "returned"]
  /\ result' = [result EXCEPT ![c] = r]

\* resolveStream: from the cache, or by asking the broker.
Resolve(c) ==
  /\ pc[c] = "idle" /\ build[setup.from[c]] = "built"
  /\ LET i == setup.from[c] IN
     \/ /\ i \in known \/ Existing
        /\ pc' = [pc EXCEPT ![c] = "enter"]
        /\ known' = known \cup {i}
        /\ UNCHANGED result
     \/ /\ i \notin known
        /\ ~Existing \/ setup.lossy
        /\ Return(c, "failed")
        /\ UNCHANGED known
  /\ UNCHANGED <<setup, build, bound, handlers, closed, corrID, pending, corr, ch, queue,
                 runs, replies, succeeded>>

\* The reply channel is stored under a fresh number before the frame is sent.
Enter(c) ==
  /\ pc[c] = "enter" /\ IsRequest(c)
  /\ LET i == setup.from[c]
         n == corrID[i] + 1
     IN /\ corrID' = [corrID EXCEPT ![i] = n]
        /\ corr' = [corr EXCEPT ![c] = n]
        /\ pending' = [pending EXCEPT ![i] =
                         [m \in DOMAIN @ \cup {n} |-> IF m = n THEN c ELSE @[m]]]
  /\ pc' = [pc EXCEPT ![c] = "publish"]
  /\ UNCHANGED <<setup, build, bound, handlers, known, closed, ch, result, queue, runs,
                 replies, succeeded>>

\* The deferred Delete.
Leave(c) ==
  LET i == setup.from[c] IN
  pending' = [pending EXCEPT ![i] = Restrict(@, DOMAIN @ \ {corr[c]})]

\* SendExpectReply starts, or fails before the frame has left.
Publish(c) ==
  /\ pc[c] = "publish"
  /\ \/ /\ published' = [published EXCEPT ![c] = "flying"]
        /\ pc' = [pc EXCEPT ![c] = "sent"]
        /\ UNCHANGED <<result, pending>>
     \/ /\ setup.lossy
        /\ Return(c, "failed") /\ Leave(c)
        /\ UNCHANGED published
  /\ UNCHANGED <<setup, build, bound, handlers, known, closed, corrID, corr, ch, ready,
                 settled, started, runs, replies, succeeded>>

\* It returns: with an error although the frame may still arrive, or with the
\* broker's reply, which nobody looks at: a refused request waits like any other.
Published(c) ==
  /\ pc[c] = "sent"
  /\ \/ /\ published[c] \in {"stored", "refused"}
        /\ pc' = [pc EXCEPT ![c] = "waiting"]
        /\ UNCHANGED <<result, pending>>
     \/ /\ setup.lossy \/ setup.timeouts
        /\ Return(c, "failed") /\ Leave(c)
  /\ UNCHANGED <<setup, build, bound, handlers, known, closed, corrID, corr, ch, queue,
                 runs, replies, succeeded>>

\* The select at the end.
EndWait(c) ==
  /\ pc[c] = "waiting"
  /\ \/ ch[c] # NoReply /\ Return(c, "ok")
     \/ setup.timeouts /\ Return(c, "timeout")
  /\ Leave(c)
  /\ UNCHANGED <<setup, build, bound, handlers, known, closed, corrID, corr, ch, queue,
                 runs, replies, succeeded>>

\* Send: TrySend, and nobody reads the broker's reply.
SendOnly(c) ==
  /\ pc[c] = "enter" /\ ~IsRequest(c)
  /\ \/ published' = [published EXCEPT ![c] = "flying"] /\ Return(c, "sent")
     \/ setup.lossy /\ Return(c, "failed") /\ UNCHANGED published
  /\ UNCHANGED <<setup, service, corr, ch, ready, settled, started, runs, replies,
                 succeeded>>

\* Close marks the instance and forgets its waiters; it wakes none of them, and
\* leaves the subscriptions where they are.
Close(i) ==
  /\ i \in setup.closers \ closed /\ build[i] = "built"
  /\ closed' = closed \cup {i}
  /\ pending' = [pending EXCEPT ![i] = <<>>]
  /\ UNCHANGED <<setup, build, bound, handlers, known, corrID, request, queue, runs,
                 replies, succeeded>>

-----------------------------------------------------------------------------
(* The dispatcher and the handler goroutines.                              *)

Registered(i, m) == handlers[i]  \* mutant: the subject is not looked at
\* Any handler whose name the subject's method starts with.
Matching(i, m) == {h \in handlers[i] : IsPrefix(h, m)}

Goroutine(c, n, i, h, st) == [call |-> c, no |-> n, at |-> i, by |-> h, st |-> st]

AckUnhandled == "ack"  \* mutant: a request without a handler is acked
Unhandled == "nack"

\* A closed instance neither acks nor nacks; without a handler it nacks; else the
\* handler starts in a goroutine of its own.
Deliver(c, i) ==
  /\ c \in ready /\ <<i, "worker">> \in bound
  /\ \/ /\ i \in closed
        /\ UNCHANGED <<runs, started>>
     \/ /\ i \notin closed /\ Matching(i, setup.method[c]) = {}
        /\ runs' = runs \cup {Goroutine(c, 0, i, <<>>, Unhandled)}
        /\ UNCHANGED started
     \/ /\ i \notin closed /\ started[c] < setup.runs
        /\ started' = [started EXCEPT ![c] = @ + 1]
        /\ \E h \in Matching(i, setup.method[c]) :
             runs' = runs \cup {Goroutine(c, started'[c], i, h, "run")}
  /\ ready' = ready \ {c}
  /\ UNCHANGED <<setup, service, request, published, settled, replies, succeeded>>

Advance(r, st) == runs' = (runs \ {r}) \cup {[r EXCEPT !.st = st]}

AckError == "ack"  \* mutant: an error is acked like a success
AfterError == "nack"
AfterSuccess(c, bytes) == IF bytes /\ IsRequest(c) THEN "reply" ELSE "ack"

\* The handler returns an error (not in the last run the bound leaves), or not.
HandlerReturns(r) ==
  /\ r.st = "run"
  /\ \/ /\ r.no < setup.runs
        /\ Advance(r, AfterError)
        /\ UNCHANGED succeeded
     \/ /\ \E bytes \in BOOLEAN :
             (bytes \/ setup.silent) /\ Advance(r, AfterSuccess(r.call, bytes))
        /\ succeeded' = succeeded \cup {r.call}
  /\ UNCHANGED <<setup, service, request, queue, replies>>

\* Msg.reply: TrySend, its error ignored.
SendReply(r) ==
  /\ r.st = "reply"
  /\ Advance(r, "ack")
  /\ \/ replies' = replies \cup {[to |-> setup.from[r.call], corr |-> corr[r.call],
                                  call |-> r.call, no |-> r.no, by |-> r.by]}
     \/ setup.lossy /\ UNCHANGED replies
  /\ UNCHANGED <<setup, service, request, queue, succeeded>>

\* Ack, or Nack: the broker requeues at once.
SettleRun(r) ==
  /\ r.st \in {"ack", "nack"}
  /\ runs' = runs \ {r}
  /\ \/ /\ r.st = "ack"
        /\ settled' = settled \cup {r.call}
        /\ ready' = ready \ {r.call}
     \/ /\ r.st = "nack"
        /\ ready' = IF r.call \in settled THEN ready ELSE ready \cup {r.call}
        /\ UNCHANGED settled
     \/ setup.lossy /\ UNCHANGED <<settled, ready>>
  /\ UNCHANGED <<setup, service, request, published, started, replies, succeeded>>

AnyWaiter(i, n) == DOMAIN pending[i]  \* mutant: the first waiter gets the reply
Waiter(i, n) == DOMAIN pending[i] \cap {n}

\* A reply reaches the instance it names: LoadAndDelete, the channel, the ack.  A
\* reply nobody waits for, the second of two for instance, is acked all the same.
ReplyArrives(m) ==
  /\ <<m.to, "reply">> \in bound /\ m.to \notin closed
  /\ \/ \E n \in Waiter(m.to, m.corr) :
          /\ ch' = [ch EXCEPT ![pending[m.to][n]] = [call |-> m.call, by |-> m.by]]
          /\ pending' = [pending EXCEPT ![m.to] = Restrict(@, DOMAIN @ \ {n})]
     \/ Waiter(m.to, m.corr) = {} /\ UNCHANGED <<ch, pending>>
  /\ \/ replies' = replies \ {m}
     \/ setup.lossy /\ UNCHANGED replies
  /\ UNCHANGED <<setup, build, bound, handlers, known, closed, corrID, pc, corr, result,
                 queue, runs, succeeded>>

-----------------------------------------------------------------------------
(* The broker (external).                                                  *)

Store(c) ==
  /\ published[c] = "flying"
  /\ \/ /\ published' = [published EXCEPT ![c] = "stored"]
        /\ ready' = ready \cup {c}
     \/ /\ setup.lossy
        /\ published' = [published EXCEPT ![c] = "refused"]
        /\ UNCHANGED ready
  /\ UNCHANGED <<setup, service, request, settled, started, runs, replies, succeeded>>

\* AckWait runs out.
Redeliver(c) ==
  /\ published[c] = "stored" /\ c \notin ready \cup settled
  /\ setup.slow \/ \A r \in runs : r.call # c
  /\ ready' = ready \cup {c}
  /\ UNCHANGED <<setup, service, request, published, settled, started, runs, replies,
                 succeeded>>

-----------------------------------------------------------------------------
BuildStep(i) == Create(i) \/ SubscribeWorker(i) \/ SubscribeReply(i) \/ Handle(i)
CallStep(c) ==
  Resolve(c) \/ Enter(c) \/ Publish(c) \/ Published(c) \/ EndWait(c) \/ SendOnly(c)
RunStep(c, n) ==
  \E r \in runs :
    /\ r.call = c /\ r.no = n
    /\ HandlerReturns(r) \/ SendReply(r) \/ SettleRun(r)
ReplyStep == \E m \in replies : ReplyArrives(m)

Next ==
  \/ \E i \in setup.instances : BuildStep(i) \/ Close(i)
  \/ \E c \in setup.calls :
       CallStep(c) \/ Store(c) \/ Redeliver(c)
       \/ \E i \in setup.workers : Deliver(c, i)
       \/ \E n \in 0..MaxRuns : RunStep(c, n)
  \/ ReplyStep

Spec == Init /\ [][Next]_vars

\* Goroutines run, handlers return, the broker answers; and it hands a request that
\* keeps coming back to each bound worker of the group in turn.
LiveSpec ==
  /\ Spec
  /\ \A i \in Instances : WF_vars(i \in setup.instances /\ BuildStep(i))
  /\ \A c \in Calls :
       /\ WF_vars(c \in setup.calls /\ CallStep(c))
       /\ WF_vars(c \in setup.calls /\ Store(c))
       /\ WF_vars(c \in setup.calls /\ Redeliver(c))
       /\ \A i \in Instances :
            SF_vars(c \in setup.calls /\ i \in setup.workers /\ Deliver(c, i))
       /\ \A n \in 0..MaxRuns : WF_vars(RunStep(c, n))
  /\ WF_vars(ReplyStep)

-----------------------------------------------------------------------------
(* Properties.                                                             *)

TypeOK ==
  /\ closed \cup known \subseteq setup.instances
  /\ ready \subseteq {c \in setup.calls : published[c] = "stored"} \ settled
  /\ \A c \in setup.calls : started[c] \in 0..setup.runs
  /\ \A i \in setup.instances : DOMAIN pending[i] \subseteq 1..corrID[i]
  /\ \A r \in runs : r.st = "reply" => IsRequest(r.call)

\* No registered name is the beginning of another that is called.
Unambiguous ==
  \A i \in setup.workers, c \in setup.calls : \A h \in setup.methods[i] :
    IsPrefix(h, setup.method[c]) => h = setup.method[c]

\* A Request that succeeds returns what a handler of the method it named, and of no
\* other unless one name begins another, returned for this very call: in spite of
\* redelivered requests, second replies and replies that outlive their waiter.
AnswersOwn ==
  \A c \in setup.calls : result[c] = "ok" =>
    /\ ch[c].call = c
    /\ Unambiguous => ch[c].by = setup.method[c]

\* A request leaves the queue only when some handler has returned no error for it;
\* closed, half built and empty-handed workers may delay it, and not lose it.
SettledWasHandled == settled \subseteq succeeded

\* Request and reply across two services, the queue and all its redeliveries keep
\* the contract of RequestReply: a call ends once, and ends with an answer only if
\* a handler succeeded for it.  A Send is never answered and stays open.
AbsStatus ==
  [c \in Calls |->
     IF c \notin setup.calls \/ (corr[c] = 0 /\ published[c] = "no") THEN "new"
     ELSE IF result[c] \in {"none", "sent"} THEN "open"
     ELSE IF result[c] = "ok" THEN "ok" ELSE "failed"]

RR == INSTANCE RequestReply WITH Callers <- Calls, status <- AbsStatus,
                                 executed <- succeeded

ImplementsRequestReply == RR!RRSpec

\* A published Request is answered, when no frame is lost and no wait runs out, as
\* long as one sound worker handles its method: although another worker is closed,
\* or was left behind by a Build that failed, and although handlers fail before
\* they succeed.
Answerable(c) ==
  /\ ~setup.lossy /\ ~setup.timeouts /\ ~setup.silent
  /\ setup.from[c] \notin setup.flaky \cup setup.closers
  /\ \E w \in setup.workers \ (setup.flaky \cup setup.closers) :
       setup.method[c] \in setup.methods[w]

RequestsAnswered ==
  \A c \in Calls :
    c \in setup.calls /\ pc[c] = "sent" /\ Answerable(c) ~> c \in setup.calls /\ result[c] = "ok"
=============================================================================
