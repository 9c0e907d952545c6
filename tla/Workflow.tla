------------------------------ MODULE Workflow ------------------------------
(***************************************************************************)
(* The saga engine (workflow.go): workers that share a task stream, run    *)
(* the steps of an instance, retry, compensate, suspend, resume, time out  *)
(* and cancel it.                                                          *)
(*                                                                         *)
(* A worker runs two goroutines: processLoop takes one task at a time, and *)
(* stateSync follows the state stream into the registry of suspended       *)
(* instances.  What a task makes processLoop do is a list of effects (a    *)
(* publish is a round trip each), which it performs one by one, so others  *)
(* come in between and a crash cuts the list anywhere.                     *)
(*                                                                         *)
(* The broker is external: a task goes to any worker of the group and      *)
(* comes back after a nack, an expired AckWait or a lost worker, at most   *)
(* MaxDeliver times; every worker gets every state event in order; a       *)
(* message whose id the stream has seen is answered and dropped.  A task   *)
(* is a record of just what its message id is made of, and no idempotency  *)
(* window ends.                                                            *)
(***************************************************************************)
EXTENDS Integers, Sequences, FiniteSets, Functions

CONSTANTS
  Workers,   \* processes that have started the workflow
  Instances, \* instance ids
  Setups     \* the workflows to look at, with the bounds put on each

\* One workflow: its workers and steps; MaxRetries; whether its suspend steps have
\* a timeout, and a handler for it; whether step handlers may fail, and resume and
\* timeout handlers; whether a publish may fail; whether the application cancels;
\* bounds on Resume calls per handle, crashes and expired AckWaits.
ASSUME WorkflowAssumption ==
  \A u \in Setups :
    /\ u.workers \subseteq Workers
    /\ u.steps \in Seq({"normal", "suspend"}) /\ u.steps # <<>>
    /\ u.maxRetries \in 1..255
    /\ u.timed \in BOOLEAN /\ u.onTimeout \in BOOLEAN
    /\ u.stepFails \in BOOLEAN /\ u.wakeFails \in BOOLEAN /\ u.unsure \in BOOLEAN
    /\ u.cancels \in BOOLEAN
    /\ u.resumes \in Nat /\ u.crashes \in Nat /\ u.expiries \in Nat

VARIABLES
  setup,     \* the workflow at hand; it never changes
  delivered, \* the task stream: task -> how often it was delivered
  ready,     \* tasks waiting to be delivered
  settled,   \* acked tasks
  stateLog,  \* the state stream: park and remove events
  dlq,       \* the dead letters: <<instance, step>>
  alive,     \* workers that have not crashed
  task,      \* worker -> the task processLoop holds
  todo,      \* worker -> its effects still to come
  suspended, \* worker -> the registry: instance -> step
  nackedSeqs,\* worker -> tasks nacked once for want of an entry
  synced,    \* worker -> how much of the state stream stateSync has taken
  resumeSeq, \* worker -> its handle's counter
  timers,    \* sleeping goroutines: [by, inst, n]
  crashes, expiries, \* so far
  done,      \* <<instance, step>> whose handler has succeeded (history)
  over,      \* instances cancelled, or timed out without a handler (history)
  mishaps    \* instances for which an error was discarded (history)

stream  == <<delivered, ready, settled>>
workers == <<task, todo, suspended, nackedSeqs>>
history == <<done, over, mishaps>>
vars == <<setup, delivered, ready, settled, stateLog, dlq, alive, task, todo, suspended,
          nackedSeqs, synced, resumeSeq, timers, crashes, expiries, done, over, mishaps>>

Tasks      == DOMAIN delivered
Last       == Len(setup.steps)
Steps      == 1..Last
MaxRetries == setup.maxRetries
\* How often the broker delivers a task.  The engine sets it in its ConsumerConfig,
\* which does not send it: an assumption about the broker, not a request to it.
MaxDeliver == MaxRetries

\* Tasks: the step n (from 1) of an instance at its attempt k (from 0), and so on.
Step(i, n, k)   == [kind |-> "step", inst |-> i, n |-> n, k |-> k]
ResumeTask(i, k)  == [kind |-> "resume", inst |-> i, n |-> 0, k |-> k]
TimeoutTask(i, n) == [kind |-> "timeout", inst |-> i, n |-> n, k |-> 0]
CancelTask(i)   == [kind |-> "cancel", inst |-> i, n |-> 0, k |-> 0]
Compensation(i, n) == [kind |-> "comp", inst |-> i, n |-> n, k |-> 0]
NoTask          == [kind |-> "none"]

Park(i, n) == [kind |-> "park", inst |-> i, n |-> n]
\* The id of a remove names the instance only.
Remove(i)  == [kind |-> "remove", inst |-> i, n |-> 0]

Init ==
  /\ setup \in Setups
  /\ delivered = <<>> /\ ready = {} /\ settled = {}
  /\ stateLog = <<>> /\ dlq = {}
  /\ alive = setup.workers
  /\ task = [w \in Workers |-> NoTask] /\ todo = [w \in Workers |-> <<>>]
  /\ suspended = [w \in Workers |-> <<>>] /\ nackedSeqs = [w \in Workers |-> {}]
  /\ synced = [w \in Workers |-> 0] /\ resumeSeq = [w \in Workers |-> 0]
  /\ timers = {} /\ crashes = 0 /\ expiries = 0
  /\ done = {} /\ over = {} /\ mishaps = {}

-----------------------------------------------------------------------------
(* Publishing.                                                             *)

Without(f, i) == Restrict(f, DOMAIN f \ {i})
With(f, i, n) == [x \in DOMAIN f \cup {i} |-> IF x = i THEN n ELSE f[x]]

AddTask(m) ==
  /\ delivered' = IF m \in Tasks THEN delivered ELSE With(delivered, m, 0)
  /\ ready' = IF m \in Tasks THEN ready ELSE ready \cup {m}

\* WorkflowHandle.TriggerWithID, Resume and Cancel.
Trigger(i) ==
  /\ AddTask(Step(i, 1, 0))
  /\ UNCHANGED <<setup, settled, stateLog, dlq, alive, workers, synced, resumeSeq, timers,
                 crashes, expiries, history>>

Resume(w, i) ==
  /\ w \in alive /\ resumeSeq[w] < setup.resumes
  /\ resumeSeq' = [resumeSeq EXCEPT ![w] = @ + 1]
  /\ AddTask(ResumeTask(i, resumeSeq[w]))
  /\ UNCHANGED <<setup, settled, stateLog, dlq, alive, workers, synced, timers, crashes,
                 expiries, history>>

Cancel(i) ==
  /\ setup.cancels /\ AddTask(CancelTask(i))
  /\ UNCHANGED <<setup, settled, stateLog, dlq, alive, workers, synced, resumeSeq, timers,
                 crashes, expiries, history>>

\* The goroutine handleStepSuspend started wakes up.
TimerFires(t) ==
  /\ t \in timers /\ timers' = timers \ {t}
  /\ \/ AddTask(TimeoutTask(t.inst, t.n)) /\ UNCHANGED mishaps
     \/ /\ setup.unsure /\ mishaps' = mishaps \cup {t.inst}
        /\ UNCHANGED <<delivered, ready>>
  /\ UNCHANGED <<setup, settled, stateLog, dlq, alive, workers, synced, resumeSeq,
                 crashes, expiries, done, over>>

-----------------------------------------------------------------------------
(* processLoop: what a task makes it do.                                   *)

Publish(m)   == [do |-> "publish", msg |-> m]
Republish(m) == [do |-> "republish", msg |-> m]
Announce(ev) == [do |-> "announce", msg |-> ev]
DeadLetter(m) == [do |-> "dlq", msg |-> m]
Schedule(i, n) == [do |-> "timer", msg |-> TimeoutTask(i, n)]
Ack(m)       == [do |-> "ack", msg |-> m]
Nack(m)      == [do |-> "nack", msg |-> m]

PublishNextStep(i, n) == IF n < Last THEN <<Publish(Step(i, n + 1, 0))>> ELSE <<>>

StepDone(m) == PublishNextStep(m.inst, m.n) \o <<Ack(m)>>

FailedToo(n) == n  \* mutant: the failed step itself is compensated
LastCompleted(n) == n - 1

FromTheFirst(m) ==  \* mutant: the earliest step is compensated first
  [j \in 1..LastCompleted(m.n) |-> Publish(Compensation(m.inst, j))]
Compensations(m) ==
  LET c == LastCompleted(m.n)
  IN [j \in 1..c |-> Publish(Compensation(m.inst, c + 1 - j))]

OneMore(m) == m.k >= MaxRetries  \* mutant: one attempt too many
LastAttempt(m) == m.k + 1 >= MaxRetries

StepError(m) ==
  IF LastAttempt(m)
  THEN <<DeadLetter(m)>> \o Compensations(m) \o <<Ack(m)>>
  ELSE <<Republish(Step(m.inst, m.n, m.k + 1)), Ack(m)>>

NoDefault(m) == <<Announce(Park(m.inst, m.n)), Ack(m)>>  \* mutant: no timeout is started
StepSuspend(m) ==
  <<Announce(Park(m.inst, m.n))>>
    \o (IF setup.timed THEN <<Schedule(m.inst, m.n)>> ELSE <<>>) \o <<Ack(m)>>

Unannounced(m, n) == PublishNextStep(m.inst, n) \o <<Ack(m)>>  \* mutant: no remove event
Woken(m, n) == PublishNextStep(m.inst, n) \o <<Announce(Remove(m.inst)), Ack(m)>>

\* The handler of a step runs.
RunStep(w, m) ==
  /\ m.kind = "step"
  /\ \/ /\ todo' = [todo EXCEPT ![w] = StepDone(m)]
        /\ done' = done \cup {<<m.inst, m.n>>}
        /\ UNCHANGED suspended
     \/ /\ setup.stepFails
        /\ todo' = [todo EXCEPT ![w] = StepError(m)]
        /\ UNCHANGED <<suspended, done>>
     \/ /\ setup.steps[m.n] = "suspend"
        /\ suspended' = [suspended EXCEPT ![w] = With(@, m.inst, m.n)]
        /\ todo' = [todo EXCEPT ![w] = StepSuspend(m)]
        /\ UNCHANGED done
  /\ UNCHANGED <<nackedSeqs, over, mishaps>>

\* handleResume and handleTimeout take the entry out before their handler runs.
Wake(w, m) ==
  /\ m.kind \in {"resume", "timeout"} /\ m.inst \in DOMAIN suspended[w]
  /\ suspended' = [suspended EXCEPT ![w] = Without(@, m.inst)]
  /\ LET n == suspended[w][m.inst]
         handled == m.kind = "resume" \/ setup.onTimeout
     IN \/ /\ handled
           /\ todo' = [todo EXCEPT ![w] = Woken(m, n)]
           /\ done' = done \cup {<<m.inst, n>>}
           /\ UNCHANGED <<over, mishaps>>
        \/ /\ handled /\ setup.wakeFails
           /\ todo' = [todo EXCEPT ![w] = <<Nack(m)>>]
           /\ mishaps' = mishaps \cup {m.inst}
           /\ UNCHANGED <<done, over>>
        \/ /\ ~handled
           /\ todo' = [todo EXCEPT ![w] = <<Announce(Remove(m.inst)), Ack(m)>>]
           /\ over' = over \cup {m.inst}
           /\ UNCHANGED <<done, mishaps>>
  /\ UNCHANGED nackedSeqs

\* No entry here: nacked once for another worker, the second time it is stale.
WakeNobody(w, m) ==
  /\ m.kind \in {"resume", "timeout"} /\ m.inst \notin DOMAIN suspended[w]
  /\ IF m \in nackedSeqs[w]
     THEN /\ nackedSeqs' = [nackedSeqs EXCEPT ![w] = @ \ {m}]
          /\ todo' = [todo EXCEPT ![w] = <<Ack(m)>>]
     ELSE /\ nackedSeqs' = [nackedSeqs EXCEPT ![w] = @ \cup {m}]
          /\ todo' = [todo EXCEPT ![w] = <<Nack(m)>>]
  /\ UNCHANGED <<suspended, history>>

HandleCancel(w, m) ==
  /\ m.kind = "cancel"
  /\ suspended' = [suspended EXCEPT ![w] = Without(@, m.inst)]
  /\ todo' = [todo EXCEPT ![w] = <<Announce(Remove(m.inst)), Ack(m)>>]
  /\ over' = IF m.inst \in DOMAIN suspended[w] THEN over \cup {m.inst} ELSE over
  /\ UNCHANGED <<nackedSeqs, done, mishaps>>

Compensate(w, m) ==
  /\ m.kind = "comp"
  /\ todo' = [todo EXCEPT ![w] = <<Ack(m)>>]
  /\ UNCHANGED <<suspended, nackedSeqs, history>>

Take(w) ==
  /\ w \in alive /\ todo[w] = <<>>
  /\ \E m \in ready :
       /\ ready' = ready \ {m}
       /\ delivered' = [delivered EXCEPT ![m] = @ + 1]
       /\ task' = [task EXCEPT ![w] = m]
       /\ \/ RunStep(w, m) \/ Wake(w, m) \/ WakeNobody(w, m)
          \/ HandleCancel(w, m) \/ Compensate(w, m)
  /\ UNCHANGED <<setup, settled, stateLog, dlq, alive, synced, resumeSeq, timers, crashes,
                 expiries>>

-----------------------------------------------------------------------------
(* processLoop: the effects, one by one.                                   *)

AddEvent(ev) ==
  stateLog' = IF \E j \in 1..Len(stateLog) : stateLog[j] = ev THEN stateLog
              ELSE Append(stateLog, ev)

Accepted(e) ==
  /\ IF e.do \in {"publish", "republish"} THEN AddTask(e.msg)
     ELSE UNCHANGED <<delivered, ready>>
  /\ IF e.do = "announce" THEN AddEvent(e.msg) ELSE UNCHANGED stateLog
  /\ dlq' = IF e.do = "dlq" THEN dlq \cup {<<e.msg.inst, e.msg.n>>} ELSE dlq

Sends == {"publish", "republish", "announce", "dlq"}

Perform(w, rest) ==
  /\ todo[w] # <<>>
  /\ todo' = [todo EXCEPT ![w] = rest]
  /\ task' = IF rest = <<>> THEN [task EXCEPT ![w] = NoTask] ELSE task
  /\ UNCHANGED <<setup, alive, suspended, nackedSeqs, synced, resumeSeq, crashes, expiries,
                 done, over>>

SendOK(w) ==
  /\ Perform(w, Tail(todo[w]))
  /\ Head(todo[w]).do \in Sends /\ Accepted(Head(todo[w]))
  /\ UNCHANGED <<settled, timers, mishaps>>

AckAnyway(w) == Tail(todo[w])  \* mutant: acked though the retry is not queued
NackInstead(w) == <<Nack(task[w])>>

\* A publish fails, before or after the broker took the message.  Only a retry's
\* error is looked at.
SendFails(w) ==
  LET e == Head(todo[w])
      retry == e.do = "republish"
  IN /\ setup.unsure
     /\ Perform(w, IF retry THEN NackInstead(w) ELSE Tail(todo[w]))
     /\ e.do \in Sends
     /\ Accepted(e) \/ UNCHANGED <<delivered, ready, stateLog, dlq>>
     /\ mishaps' = IF retry THEN mishaps ELSE mishaps \cup {e.msg.inst}
     /\ UNCHANGED <<settled, timers>>

StartTimer(w) ==
  /\ Perform(w, Tail(todo[w]))
  /\ Head(todo[w]).do = "timer"
  /\ timers' = timers \cup {[by |-> w, inst |-> task[w].inst, n |-> task[w].n]}
  /\ UNCHANGED <<stream, stateLog, dlq, mishaps>>

SendAck(w) ==
  /\ Perform(w, Tail(todo[w]))
  /\ Head(todo[w]).do = "ack"
  /\ settled' = settled \cup {task[w]} /\ ready' = ready \ {task[w]}
  /\ UNCHANGED <<delivered, stateLog, dlq, timers, mishaps>>

\* The broker delivers a task MaxDeliver times and not again.
Redeliver(m) ==
  ready' = IF m \in settled \/ delivered[m] >= MaxDeliver THEN ready ELSE ready \cup {m}

SendNack(w) ==
  /\ Perform(w, Tail(todo[w]))
  /\ Head(todo[w]).do = "nack"
  /\ Redeliver(task[w])
  /\ UNCHANGED <<delivered, settled, stateLog, dlq, timers, mishaps>>

ProcessStep(w) ==
  \/ Take(w) \/ SendOK(w) \/ SendFails(w) \/ StartTimer(w) \/ SendAck(w) \/ SendNack(w)

-----------------------------------------------------------------------------
(* stateSync, and what may happen to a worker.                             *)

StateSync(w) ==
  /\ w \in alive /\ synced[w] < Len(stateLog)
  /\ synced' = [synced EXCEPT ![w] = @ + 1]
  /\ LET ev == stateLog[synced[w] + 1]
         old == suspended[w]
     IN /\ suspended' = [suspended EXCEPT ![w] =
             IF ev.kind = "remove" THEN Without(old, ev.inst)
             ELSE IF ev.inst \in DOMAIN old THEN old ELSE With(old, ev.inst, ev.n)]
        /\ over' = IF /\ ev.kind = "remove" /\ ev.inst \in DOMAIN old
                      /\ CancelTask(ev.inst) \in Tasks
                      /\ <<ev.inst, old[ev.inst]>> \notin done
                   THEN over \cup {ev.inst} ELSE over
  /\ UNCHANGED <<setup, stream, stateLog, dlq, alive, task, todo, nackedSeqs, resumeSeq,
                 timers, crashes, expiries, done, mishaps>>

\* The process dies: its registry and its timers are gone, its task comes back.
Crash(w) ==
  /\ w \in alive /\ crashes < setup.crashes
  /\ crashes' = crashes + 1
  /\ alive' = alive \ {w}
  /\ task' = [task EXCEPT ![w] = NoTask] /\ todo' = [todo EXCEPT ![w] = <<>>]
  /\ suspended' = [suspended EXCEPT ![w] = <<>>]
  /\ nackedSeqs' = [nackedSeqs EXCEPT ![w] = {}]
  /\ timers' = {t \in timers : t.by # w}
  /\ IF task[w] = NoTask THEN UNCHANGED ready ELSE Redeliver(task[w])
  /\ UNCHANGED <<setup, delivered, settled, stateLog, dlq, synced, resumeSeq, expiries,
                 history>>

\* AckWait ends while a worker still has the task.
AckWaitEnds(w) ==
  /\ task[w] # NoTask /\ task[w] \notin ready \cup settled
  /\ expiries < setup.expiries /\ delivered[task[w]] < MaxDeliver
  /\ expiries' = expiries + 1
  /\ Redeliver(task[w])
  /\ UNCHANGED <<setup, delivered, settled, stateLog, dlq, alive, workers, synced, resumeSeq,
                 timers, crashes, history>>

-----------------------------------------------------------------------------
Next ==
  \/ \E i \in Instances : Trigger(i) \/ Cancel(i) \/ \E w \in Workers : Resume(w, i)
  \/ \E t \in timers : TimerFires(t)
  \/ \E w \in Workers : ProcessStep(w) \/ StateSync(w) \/ Crash(w) \/ AckWaitEnds(w)

Spec == Init /\ [][Next]_vars

\* The workers run, the broker delivers, and sleeping goroutines wake up.
LiveSpec ==
  /\ Spec
  /\ \A w \in Workers : WF_vars(ProcessStep(w)) /\ WF_vars(StateSync(w))
  /\ WF_vars(\E t \in timers : TimerFires(t))

-----------------------------------------------------------------------------
(* Properties.                                                             *)

TypeOK ==
  /\ ready \subseteq Tasks /\ settled \subseteq Tasks /\ ready \cap settled = {}
  /\ \A m \in Tasks : delivered[m] \in 0..MaxDeliver
  /\ \A m \in Tasks : m.kind = "step" => m.n \in Steps /\ m.k \in 0..(MaxRetries - 1)
  /\ \A w \in Workers :
       /\ task[w] = NoTask <=> todo[w] = <<>>
       /\ task[w] \in Tasks \cup {NoTask}
       /\ DOMAIN suspended[w] \subseteq Instances /\ Range(suspended[w]) \subseteq Steps
       /\ synced[w] \in 0..Len(stateLog)

Triggered(i) == Step(i, 1, 0) \in Tasks
HasFailed(i) == \E n \in Steps : <<i, n>> \in dlq
Ended(i)     == <<i, Last>> \in done \/ HasFailed(i) \/ i \in over

Exhausted(m) ==
  m \notin ready \cup settled /\ delivered[m] = MaxDeliver /\ \A w \in Workers : task[w] # m

\* An instance that has not ended is on its way somewhere: a step waits or is
\* being worked on, or a living worker has it in its registry or will learn of it
\* from the state stream.  Exempt are instances for which an error was discarded,
\* and those of which a step used up its deliveries.
NotLost ==
  \A i \in Instances : Triggered(i) =>
    \/ Ended(i) \/ i \in mishaps
    \/ \E m \in Tasks : m.inst = i /\ m.kind = "step" /\ m \notin settled
    \/ \E w \in alive :
         \/ i \in DOMAIN suspended[w]
         \/ \E j \in (synced[w] + 1)..Len(stateLog) :
              stateLog[j].inst = i /\ stateLog[j].kind = "park"
         \/ \E j \in 1..Len(todo[w]) : todo[w][j].do = "publish" /\ todo[w][j].msg.inst = i

\* handleStepError compensates the completed steps and no other: whatever is
\* compensated had succeeded before a later step failed for good, and when the
\* last attempt is acked, having been delivered once, no completed step is left out.
CompensatesExactly ==
  \A i \in Instances \ mishaps :
    /\ \A k \in Steps : Compensation(i, k) \in Tasks =>
         <<i, k>> \in done /\ \E n \in Steps : n > k /\ <<i, n>> \in dlq
    /\ \A n \in Steps :
         LET m == Step(i, n, MaxRetries - 1) IN
         <<i, n>> \in dlq /\ m \in settled /\ delivered[m] = 1 =>
           \A k \in 1..(n - 1) : Compensation(i, k) \in Tasks

Events(kind, i) == {j \in 1..Len(stateLog) : stateLog[j].kind = kind /\ stateLog[j].inst = i}
Quiet ==
  \A w \in alive : todo[w] = <<>> /\ synced[w] = Len(stateLog)

\* No step of the instance was delivered a second time.
Once(i) == \A m \in Tasks : m.inst = i /\ m.kind = "step" => delivered[m] <= 1

\* Whenever the workers are idle and have taken every state event, their
\* registries agree with the state stream: a parked instance can be resumed on any
\* of them, and one whose removal follows its park on none.  (Exempt are instances
\* for which an error was discarded; and a step delivered twice may park its
\* instance again behind the removal.)
RegistryAgrees ==
  Quiet =>
    \A i \in Instances \ mishaps : \A w \in alive :
      /\ Events("park", i) # {} /\ Events("remove", i) = {} => i \in DOMAIN suspended[w]
      /\ Once(i) /\ (\E j \in Events("remove", i) : \A k \in Events("park", i) : k < j) =>
           i \notin DOMAIN suspended[w]

\* The engine keeps the promises of Saga: steps in order, and a rollback that asks for
\* the compensations of completed steps only, the latest of them first.
AbsCompensated == {p \in Instances \X Steps : Compensation(p[1], p[2]) \in Tasks}

Promise ==
  INSTANCE Saga WITH last <- Last, succeeded <- done, failed <- dlq,
                     compensated <- AbsCompensated, troubled <- mishaps

ImplementsSaga == Promise!SagaSpec

\* A single worker with timeouts brings every instance to an end: completed,
\* compensated, cancelled or timed out, whichever handlers fail, unless an error was
\* discarded.
InstanceEnds ==
  \A i \in Instances :
    Triggered(i) /\ Cardinality(setup.workers) = 1 /\ setup.timed
      ~> Ended(i) \/ i \in mishaps
=============================================================================
