---------------------------- MODULE WorkflowProofs ----------------------------
(* Proofs about Workflow, for any workers, instances and workflows. *)
EXTENDS Workflow, SequenceTheorems, WellFoundedInduction, TLAPS

-----------------------------------------------------------------------------
(* The inductive invariant.                                                *)

TaskSet  == [kind : {"step", "resume", "timeout", "cancel", "comp"}, inst : Instances,
             n : Nat, k : Nat]
EventSet == [kind : {"park", "remove"}, inst : Instances, n : Nat]
Effects  == [do : {"publish", "republish", "announce", "dlq", "timer", "ack", "nack"},
             msg : TaskSet \cup EventSet]

Suspends(n) == n \in Steps /\ setup.steps[n] = "suspend"
TaskOK(m)   == m \in TaskSet /\ (m.kind = "step" => m.n \in Steps /\ m.k \in 0..(MaxRetries - 1))
EventOK(ev) ==
  ev \in EventSet /\ (IF ev.kind = "park" THEN Suspends(ev.n) ELSE ev = Remove(ev.inst))

\* Every step before the n-th is done.
Before(D, i, n) == \A k \in 1..(n - 1) : <<i, k>> \in D

Shape ==
  /\ setup \in Setups /\ alive \subseteq setup.workers
  /\ DOMAIN task = Workers /\ DOMAIN todo = Workers /\ DOMAIN suspended = Workers
  /\ nackedSeqs \in [Workers -> SUBSET TaskSet]
  /\ synced \in [Workers -> Nat] /\ resumeSeq \in [Workers -> Nat]
  /\ \A t \in timers : t.inst \in Instances /\ t.n \in Steps

\* The task stream: what is ready can be delivered once more.
Stream ==
  /\ ready \subseteq Tasks /\ settled \subseteq Tasks /\ ready \cap settled = {}
  /\ \A m \in Tasks : TaskOK(m) /\ delivered[m] \in 0..MaxDeliver
  /\ \A m \in ready : delivered[m] < MaxDeliver

\* An effect that a worker still owes belongs to the task it holds.
EffectOK(D, m, e) ==
  /\ e.do = "publish" =>
       \/ e.msg.n \in 2..Last /\ e.msg = Step(m.inst, e.msg.n, 0) /\ Before(D, m.inst, e.msg.n)
       \/ /\ m.kind = "step" /\ LastAttempt(m)
          /\ e.msg.n \in 1..(m.n - 1) /\ e.msg = Compensation(m.inst, e.msg.n)
  /\ e.do = "republish" => m.kind = "step" /\ ~LastAttempt(m) /\ e.msg = Step(m.inst, m.n, m.k + 1)
  /\ e.do = "announce" =>
       \/ e.msg = Remove(m.inst)
       \/ m.kind = "step" /\ Suspends(m.n) /\ e.msg = Park(m.inst, m.n)
  /\ e.do = "dlq" => m.kind = "step" /\ LastAttempt(m) /\ e.msg = m
  /\ e.do = "timer" => m.kind = "step"

\* The ack or nack comes last, a dead letter and a park first, a retry right before
\* the ack; nothing but a dead letter and publishes comes before a publish.
Order(q) ==
  \A j \in 1..Len(q) :
    /\ q[j].do \in {"ack", "nack"} <=> j = Len(q)
    /\ q[j].do = "dlq" => j = 1
    /\ q[j].do = "republish" => j = 1 /\ Len(q) = 2
    /\ q[j].do = "announce" /\ q[j].msg.kind = "park" => j = 1
    /\ q[j].do = "publish" => \A k \in 1..(j - 1) : q[k].do \in {"publish", "dlq"}

Worker(w) ==
  /\ task[w] = NoTask <=> todo[w] = <<>>
  /\ task[w] \in Tasks \cup {NoTask}
  /\ todo[w] \in Seq(Effects) /\ Order(todo[w])
  /\ \A j \in 1..Len(todo[w]) : EffectOK(done, task[w], todo[w][j])
  /\ w \notin alive => todo[w] = <<>>

\* A registry and the state stream name suspend steps, and every earlier step is done.
Registry(w) ==
  /\ synced[w] <= Len(stateLog)
  /\ DOMAIN suspended[w] \subseteq Instances
  /\ \A i \in DOMAIN suspended[w] : Suspends(suspended[w][i]) /\ Before(done, i, suspended[w][i])

Log ==
  /\ stateLog \in Seq(EventSet)
  /\ \A j \in 1..Len(stateLog) :
       EventOK(stateLog[j]) /\ (stateLog[j].kind = "park" => Before(done, stateLog[j].inst, stateLog[j].n))

Path == \A m \in Tasks : m.kind = "step" => Before(done, m.inst, m.n)

\* Each delivery has at most one holder.
Holders ==
  \A w \in Workers : task[w] # NoTask =>
    /\ delivered[task[w]] >= 1
    /\ task[w] \in settled => delivered[task[w]] >= 2
    /\ \A v \in Workers \ {w} : task[v] = task[w] => delivered[task[w]] >= 2

Owes(w, i, k) == \E j \in 1..Len(todo[w]) : todo[w][j] = Publish(Compensation(i, k))
FinalTry(i, n) == Step(i, n, MaxRetries - 1)

\* A dead letter comes before the compensations it calls for.
Letters(w) ==
  /\ todo[w] # <<>> /\ Head(todo[w]).do = "dlq" =>
       \A k \in 1..(task[w].n - 1) : Owes(w, task[w].inst, k)
  /\ \A k \in Steps : \A i \in Instances : Owes(w, i, k) =>
       \/ Head(todo[w]).do = "dlq"
       \/ <<i, task[w].n>> \in dlq
       \/ i \in mishaps

Compensated ==
  \A i \in Instances \ mishaps : \A k \in Steps : Compensation(i, k) \in Tasks =>
    <<i, k>> \in done /\ \E n \in Steps : n > k /\ <<i, n>> \in dlq

\* As long as the final attempt was delivered only once, its holder still owes the
\* compensations that are missing.
Final ==
  \A i \in Instances \ mishaps : \A n \in Steps : <<i, n>> \in dlq =>
    LET m == FinalTry(i, n) IN
    /\ m \in Tasks /\ delivered[m] >= 1
    /\ delivered[m] = 1 =>
         \/ \A k \in 1..(n - 1) :
              \/ Compensation(i, k) \in Tasks
              \/ \E w \in Workers : task[w] = m /\ Owes(w, i, k)
         \/ m \notin settled /\ \A w \in Workers : task[w] # m

IInv ==
  /\ Shape /\ Stream /\ Log /\ Path /\ Holders
  /\ \A w \in Workers : Worker(w) /\ Registry(w) /\ Letters(w)
  /\ Compensated /\ Final

-----------------------------------------------------------------------------
(* Operators.                                                              *)

\* A bound on MaxRetries, the steps, and what they are.
LEMMA Constants ==
  ASSUME setup \in Setups
  PROVE  /\ setup.workers \subseteq Workers
         /\ setup.steps \in Seq({"normal", "suspend"}) /\ Last \in Nat \ {0}
         /\ MaxRetries \in Nat \ {0} /\ MaxDeliver = MaxRetries
         /\ setup.resumes \in Nat /\ setup.crashes \in Nat /\ setup.expiries \in Nat
<1>1. setup.steps \in Seq({"normal", "suspend"}) /\ setup.steps # <<>>
  BY WorkflowAssumption
<1>2. Len(setup.steps) \in Nat /\ Len(setup.steps) # 0
  BY <1>1, EmptySeq, LenProperties
<1>3. setup.maxRetries \in 1..255 /\ setup.workers \subseteq Workers
  BY WorkflowAssumption
<1>4. setup.resumes \in Nat /\ setup.crashes \in Nat /\ setup.expiries \in Nat
  BY WorkflowAssumption
<1>5. Last \in Nat \ {0}
  BY <1>2 DEF Last
<1>6. setup.maxRetries \in Nat \ {0}
  BY <1>3
<1>7. QED
  BY <1>1, <1>3, <1>4, <1>5, <1>6 DEF MaxRetries, MaxDeliver

\* The broker stores a task, or has seen it already.
LEMMA AddTaskFacts ==
  ASSUME Stream, NEW m, AddTask(m)
  PROVE  /\ Tasks' = Tasks \cup {m}
         /\ \A x \in Tasks : delivered'[x] = delivered[x]
         /\ m \notin Tasks => delivered'[m] = 0 /\ ready' = ready \cup {m}
         /\ m \in Tasks => ready' = ready
  BY DEF AddTask, Tasks, With

LEMMA InitOK == Init => IInv
<1> SUFFICES ASSUME Init PROVE IInv
  OBVIOUS
<1>0. setup \in Setups /\ setup.workers \subseteq Workers
  BY Constants DEF Init
<1>1. DOMAIN <<>> = {} /\ Len(<<>>) = 0 /\ \A S : <<>> \in Seq(S)
  OBVIOUS
<1>2. Tasks = {}
  BY <1>1 DEF Init, Tasks
<1>3. Shape /\ Stream
  BY <1>0, <1>2 DEF Init, Shape, Stream
<1>4. Log /\ Path /\ Holders
  BY <1>1, <1>2 DEF Init, Log, Path, Holders
<1>5. ASSUME NEW w \in Workers PROVE Worker(w) /\ Registry(w) /\ Letters(w)
  BY <1>1 DEF Init, Worker, Registry, Letters, Order, Owes, NoTask
<1>6. Compensated /\ Final
  BY <1>2 DEF Init, Compensated, Final
<1>7. QED
  BY <1>3, <1>4, <1>5, <1>6 DEF IInv

-----------------------------------------------------------------------------
(* What is kept when a step grows the histories and leaves a worker alone. *)

Grows ==
  /\ setup' = setup /\ alive' \subseteq alive /\ done \subseteq done' /\ dlq \subseteq dlq'
  /\ mishaps \subseteq mishaps' /\ Tasks \subseteq Tasks' /\ Len(stateLog) <= Len(stateLog)'

LEMMA EffectKept ==
  ASSUME NEW m, NEW e, EffectOK(done, m, e), Grows
  PROVE  EffectOK(done, m, e)'
  BY DEF EffectOK, Grows, Before, Last, Steps, LastAttempt, MaxRetries, Suspends

LEMMA WorkerKept ==
  ASSUME IInv, Grows, NEW w \in Workers, task'[w] = task[w], todo'[w] = todo[w],
         w \in alive => w \in alive'
  PROVE  Worker(w)' /\ Letters(w)'
<1>1. Worker(w) /\ Letters(w)
  BY DEF IInv
<1>2. \A j \in 1..Len(todo[w]) : EffectOK(done, task[w], todo[w][j])'
  BY <1>1, EffectKept DEF Worker
<1>3. Worker(w)'
  BY <1>1, <1>2 DEF Worker, Grows, Order
<1>4. Letters(w)'
  BY <1>1 DEF Letters, Owes, Grows, Steps, Last
<1>5. QED
  BY <1>3, <1>4

LEMMA RegistryKept ==
  ASSUME IInv, Grows, NEW w \in Workers, suspended'[w] = suspended[w], synced'[w] = synced[w]
  PROVE  Registry(w)'
  BY DEF IInv, Shape, Log, Registry, Grows, Suspends, Before, Steps, Last

\* Nobody takes a task, and none is settled.
LEMMA HoldersKept ==
  ASSUME IInv, settled' = settled, \A m \in Tasks : delivered'[m] = delivered[m],
         \A w \in Workers : task'[w] \in {task[w], NoTask}
  PROVE  Holders'
  BY DEF IInv, Holders, Worker

\* A task is stored, or it is not.
MayStore(m) == AddTask(m) \/ UNCHANGED <<delivered, ready>>

LEMMA StoreFacts ==
  ASSUME IInv, NEW m, MayStore(m)
  PROVE  /\ Tasks' = Tasks \/ Tasks' = Tasks \cup {m}
         /\ \A x \in Tasks : delivered'[x] = delivered[x]
         /\ \A x \in Tasks' \ Tasks : x = m /\ delivered'[x] = 0 /\ ready' = ready \cup {x}
         /\ Tasks' = Tasks => ready' = ready
<1>1. CASE AddTask(m)
  BY <1>1, AddTaskFacts DEF IInv
<1>2. CASE UNCHANGED <<delivered, ready>>
  BY <1>2 DEF Tasks
<1>3. QED
  BY <1>1, <1>2 DEF MayStore

LEMMA StoreKeeps ==
  ASSUME IInv, NEW m, MayStore(m), TaskOK(m), setup' = setup, settled' = settled
  PROVE  Stream'
<1>1. MaxDeliver \in Nat \ {0} /\ MaxDeliver' = MaxDeliver
  BY Constants DEF IInv, Shape, MaxDeliver, MaxRetries
<1>2. \A x \in Tasks' : TaskOK(x)'
  <2>1. \A x : TaskOK(x) => TaskOK(x)'
    BY DEF TaskOK, Steps, Last, MaxRetries
  <2>2. QED
    BY <2>1, StoreFacts DEF IInv, Stream
<1>3. \A x \in Tasks' : delivered'[x] \in 0..MaxDeliver
  BY <1>1, StoreFacts DEF IInv, Stream
<1>4. \A x \in ready' : x \in Tasks' /\ delivered'[x] < MaxDeliver /\ x \notin settled
  BY <1>1, StoreFacts DEF IInv, Stream
<1>5. QED
  BY <1>1, <1>2, <1>3, <1>4, StoreFacts DEF IInv, Stream

\* A task nobody holds is stored.
LEMMA PublishKeeps ==
  ASSUME IInv, NEW m, TaskOK(m), m.kind # "comp",
         m.kind = "step" => Before(done, m.inst, m.n),
         MayStore(m),
         mishaps \subseteq mishaps', timers' \subseteq timers, resumeSeq' \in [Workers -> Nat],
         UNCHANGED <<setup, settled, stateLog, dlq, alive, workers, synced, done>>
  PROVE  IInv'
<1>1. /\ Tasks' = Tasks \/ Tasks' = Tasks \cup {m}
      /\ \A x \in Tasks : delivered'[x] = delivered[x]
  BY StoreFacts
<1>2. Grows
  BY <1>1 DEF Grows, IInv, Log
<1>3. \A w \in Workers : Worker(w)' /\ Letters(w)' /\ Registry(w)'
  BY <1>2, WorkerKept, RegistryKept DEF workers
<1>4. Shape'
  BY <1>1 DEF IInv, Shape, workers, Steps, Last
<1>5. Stream'
  BY StoreKeeps
<1>6. Log' /\ Holders' /\ Path'
  <2>1. Log'
    BY DEF IInv, Log, EventOK, Before, Suspends, Steps, Last
  <2>2. Holders'
    BY <1>1, HoldersKept DEF workers
  <2>3. Path'
    BY <1>1 DEF IInv, Path, Before
  <2>4. QED
    BY <2>1, <2>2, <2>3
<1>7. Compensated'
  BY <1>1 DEF IInv, Compensated, Compensation, Steps, Last
<1>8. Final'
  BY <1>1 DEF IInv, Final, workers, Owes, FinalTry, Steps, Last, MaxRetries
<1>9. QED
  BY <1>3, <1>4, <1>5, <1>6, <1>7, <1>8 DEF IInv

-----------------------------------------------------------------------------
(* The client's side.                                                      *)

LEMMA ClientKeeps ==
  ASSUME IInv, NEW i \in Instances,
         Trigger(i) \/ Cancel(i) \/ \E w \in Workers : Resume(w, i)
  PROVE  IInv'
<1>0. Last \in Nat \ {0} /\ MaxRetries \in Nat \ {0}
  BY Constants DEF IInv, Shape
<1>1. CASE Trigger(i)
  <2>1. TaskOK(Step(i, 1, 0)) /\ Before(done, i, 1)
    BY <1>0 DEF TaskOK, TaskSet, Step, Steps, Before
  <2>2. Step(i, 1, 0).inst = i /\ Step(i, 1, 0).n = 1 /\ Step(i, 1, 0).kind = "step"
    BY DEF Step
  <2>3. resumeSeq' \in [Workers -> Nat]
    BY <1>1 DEF Trigger, IInv, Shape
  <2>4. QED
    BY <1>1, <2>1, <2>2, <2>3, PublishKeeps DEF Trigger, MayStore, history
<1>2. CASE Cancel(i)
  <2>1. TaskOK(CancelTask(i)) /\ CancelTask(i).kind = "cancel"
    BY DEF TaskOK, TaskSet, CancelTask
  <2>2. resumeSeq' \in [Workers -> Nat]
    BY <1>2 DEF Cancel, IInv, Shape
  <2>3. QED
    BY <1>2, <2>1, <2>2, PublishKeeps DEF Cancel, MayStore, history
<1>3. ASSUME NEW w \in Workers, Resume(w, i) PROVE IInv'
  <2>1. resumeSeq[w] \in Nat /\ resumeSeq' \in [Workers -> Nat]
    BY <1>3 DEF Resume, IInv, Shape
  <2>2. TaskOK(ResumeTask(i, resumeSeq[w])) /\ ResumeTask(i, resumeSeq[w]).kind = "resume"
    BY <2>1 DEF TaskOK, TaskSet, ResumeTask
  <2>3. QED
    BY <1>3, <2>1, <2>2, PublishKeeps DEF Resume, MayStore, history
<1>4. QED
  BY <1>1, <1>2, <1>3

LEMMA TimerKeeps == ASSUME IInv, NEW t \in timers, TimerFires(t) PROVE IInv'
<1>1. t.inst \in Instances /\ t.n \in Steps /\ Last \in Nat
  BY Constants DEF IInv, Shape
<1>2. TaskOK(TimeoutTask(t.inst, t.n)) /\ TimeoutTask(t.inst, t.n).kind = "timeout"
  BY <1>1 DEF TaskOK, TaskSet, TimeoutTask, Steps
<1>3. resumeSeq' \in [Workers -> Nat] /\ timers' \subseteq timers /\ mishaps \subseteq mishaps'
  BY DEF TimerFires, IInv, Shape
<1>4. MayStore(TimeoutTask(t.inst, t.n))
  BY DEF TimerFires, MayStore
<1>5. QED
  BY <1>2, <1>3, <1>4, PublishKeeps DEF TimerFires

-----------------------------------------------------------------------------
(* Taking a task.                                                          *)

\* What a worker may come to owe for a task.
ListOK(D, m, q) ==
  /\ q \in Seq(Effects) /\ q # <<>> /\ Order(q)
  /\ \A j \in 1..Len(q) : EffectOK(D, m, q[j])
  /\ q[1].do = "dlq" =>
       \A k \in 1..(m.n - 1) : \E j \in 1..Len(q) : q[j] = Publish(Compensation(m.inst, k))
  /\ \A j \in 1..Len(q) : q[j].do = "publish" /\ q[j].msg.kind = "comp" => q[1].do = "dlq"

LEMMA TakeKeeps ==
  ASSUME IInv, NEW w \in Workers, w \in alive, todo[w] = <<>>,
         NEW m \in ready, NEW q, ListOK(done', m, q), Registry(w)',
         ready' = ready \ {m}, delivered' = [delivered EXCEPT ![m] = @ + 1],
         task' = [task EXCEPT ![w] = m], todo' = [todo EXCEPT ![w] = q],
         \A v \in Workers \ {w} : suspended'[v] = suspended[v],
         DOMAIN suspended' = Workers, nackedSeqs' \in [Workers -> SUBSET TaskSet],
         done \subseteq done', mishaps \subseteq mishaps',
         UNCHANGED <<setup, settled, stateLog, dlq, alive, synced, resumeSeq, timers>>
  PROVE  IInv'
<1>0. /\ MaxDeliver \in Nat /\ m \in Tasks /\ m \in TaskSet /\ m # NoTask /\ task[w] = NoTask
      /\ delivered[m] \in 0..MaxDeliver /\ delivered[m] < MaxDeliver /\ m \notin settled
  BY Constants DEF IInv, Shape, Stream, Worker, TaskOK, TaskSet, NoTask, MaxDeliver
<1>1. /\ Tasks' = Tasks /\ delivered'[m] = delivered[m] + 1
      /\ \A x \in Tasks \ {m} : delivered'[x] = delivered[x]
  BY <1>0 DEF Tasks
<1>2. /\ task'[w] = m /\ todo'[w] = q /\ DOMAIN task' = Workers /\ DOMAIN todo' = Workers
      /\ \A v \in Workers \ {w} : task'[v] = task[v] /\ todo'[v] = todo[v]
  BY DEF IInv, Shape
<1>3. Grows
  BY <1>1 DEF Grows, IInv, Log
<1>4. \A v \in Workers \ {w} : Worker(v)' /\ Letters(v)' /\ Registry(v)'
  BY <1>2, <1>3, WorkerKept, RegistryKept
<1>5. Worker(w)'
  <2>1. \A j \in 1..Len(q) : EffectOK(done, m, q[j])'
    BY DEF ListOK, EffectOK, Before, LastAttempt, MaxRetries, Last, Suspends, Steps
  <2>2. QED
    BY <1>0, <1>1, <1>2, <2>1 DEF Worker, ListOK, Order
<1>6. Letters(w)'
  <2>1. \A i, k : \A j \in 1..Len(q) : q[j] = Publish(Compensation(i, k)) => q[1].do = "dlq"
    BY DEF ListOK, Publish, Compensation
  <2>2. Head(q) = q[1]
    BY DEF ListOK
  <2>3. QED
    BY <1>2, <2>1, <2>2 DEF Letters, Owes, ListOK
<1>7. Shape' /\ Log' /\ Path'
  BY <1>1, <1>2 DEF IInv, Shape, Log, Path, EventOK, Before, Suspends, Steps, Last
<1>8. Stream'
  BY <1>0, <1>1 DEF IInv, Stream, TaskOK, Steps, Last, MaxRetries, MaxDeliver
<1>9. Holders'
  BY <1>0, <1>1, <1>2 DEF IInv, Holders, Worker, Stream
<1>10. Compensated'
  BY <1>1 DEF IInv, Compensated, Steps, Last
<1>11. Final'
  <2> SUFFICES ASSUME NEW i \in Instances \ mishaps', NEW n \in Steps, <<i, n>> \in dlq
               PROVE  LET f == FinalTry(i, n) IN
                      /\ f \in Tasks /\ delivered'[f] >= 1
                      /\ delivered'[f] = 1 =>
                           \/ \A k \in 1..(n - 1) :
                                \/ Compensation(i, k) \in Tasks
                                \/ \E v \in Workers : task'[v] = f /\ Owes(v, i, k)'
                           \/ f \notin settled /\ \A v \in Workers : task'[v] # f
    BY <1>1 DEF Final, FinalTry, Steps, Last, MaxRetries
  <2>1. CASE m = FinalTry(i, n)
    BY <1>0, <1>1, <2>1 DEF IInv, Final
  <2>2. CASE m # FinalTry(i, n)
    <3>1. \A v \in Workers : \A k : Owes(v, i, k) => v # w /\ Owes(v, i, k)'
      BY <1>2 DEF Owes
    <3>2. \A v \in Workers : v # w => task'[v] = task[v]
      BY <1>2
    <3>3. QED
      BY <1>1, <1>2, <2>2, <3>1, <3>2 DEF IInv, Final
  <2>3. QED
    BY <2>1, <2>2
<1>12. QED
  BY <1>4, <1>5, <1>6, <1>7, <1>8, <1>9, <1>10, <1>11 DEF IInv

-----------------------------------------------------------------------------
(* The lists of effects.                                                   *)

LEMMA ShortLists ==
  \A a, b, c : /\ <<a>> \o <<b>> = <<a, b>> /\ <<>> \o <<a>> = <<a>>
              /\ <<a>> \o <<b, c>> = <<a, b, c>> /\ <<>> \o <<a, b>> = <<a, b>>
              /\ <<a, b>> \o <<c>> = <<a, b, c>>
              /\ (<<a>> \o <<b>>) \o <<c>> = <<a, b, c>> /\ (<<a>> \o <<>>) \o <<b>> = <<a, b>>
<1> TAKE a, b, c
<1> DEFINE S == {a, b, c}
<1>1. <<>> \in Seq(S) /\ <<a>> \in Seq(S) /\ <<b>> \in Seq(S) /\ <<c>> \in Seq(S)
  OBVIOUS
<1>2. <<a, b>> \in Seq(S) /\ <<b, c>> \in Seq(S) /\ <<a, b, c>> \in Seq(S)
  OBVIOUS
<1> HIDE DEF S
<1>3. <<>> \o <<a>> = <<a>> /\ <<a>> \o <<>> = <<a>> /\ <<>> \o <<a, b>> = <<a, b>>
  BY <1>1, <1>2, ConcatEmptySeq
<1>4. \A s, t, r \in Seq(S) :
        Len(r) = Len(s) + Len(t) /\ (\A i \in 1..Len(r) :
          r[i] = IF i <= Len(s) THEN s[i] ELSE t[i - Len(s)]) => s \o t = r
  <2> TAKE s, t, r \in Seq(S)
  <2> HAVE /\ Len(r) = Len(s) + Len(t)
           /\ \A i \in 1..Len(r) : r[i] = IF i <= Len(s) THEN s[i] ELSE t[i - Len(s)]
  <2>1. PICK u : u = s \o t
    OBVIOUS
  <2>2. /\ u \in Seq(S) /\ Len(u) = Len(s) + Len(t)
        /\ \A i \in 1..(Len(s) + Len(t)) : u[i] = IF i <= Len(s) THEN s[i] ELSE t[i - Len(s)]
    BY <2>1, ConcatProperties
  <2>3. Len(u) = Len(r) /\ \A i \in 1..Len(u) : u[i] = r[i]
    BY <2>2
  <2>4. u = r
    BY <2>2, <2>3, SeqEqual
  <2>5. QED
    BY <2>1, <2>4
<1>5. <<a>> \o <<b>> = <<a, b>>
  <2>1. Len(<<a, b>>) = Len(<<a>>) + Len(<<b>>)
    OBVIOUS
  <2>2. \A i \in 1..Len(<<a, b>>) : <<a, b>>[i] = IF i <= Len(<<a>>) THEN <<a>>[i] ELSE <<b>>[i - Len(<<a>>)]
    OBVIOUS
  <2>3. QED
    BY <1>1, <1>2, <1>4, <2>1, <2>2, Zenon
<1>6. <<a>> \o <<b, c>> = <<a, b, c>>
  <2>1. Len(<<a, b, c>>) = Len(<<a>>) + Len(<<b, c>>)
    OBVIOUS
  <2>2. \A i \in 1..Len(<<a, b, c>>) : <<a, b, c>>[i] = IF i <= Len(<<a>>) THEN <<a>>[i] ELSE <<b, c>>[i - Len(<<a>>)]
    OBVIOUS
  <2>3. QED
    BY <1>1, <1>2, <1>4, <2>1, <2>2, Zenon
<1>7. <<a, b>> \o <<c>> = <<a, b, c>>
  <2>1. Len(<<a, b, c>>) = Len(<<a, b>>) + Len(<<c>>)
    OBVIOUS
  <2>2. \A i \in 1..Len(<<a, b, c>>) : <<a, b, c>>[i] = IF i <= Len(<<a, b>>) THEN <<a, b>>[i] ELSE <<c>>[i - Len(<<a, b>>)]
    OBVIOUS
  <2>3. QED
    BY <1>1, <1>2, <1>4, <2>1, <2>2, Zenon
<1>8. QED
  BY <1>3, <1>5, <1>6, <1>7

\* The lists, written out.
LEMMA ListForms ==
  ASSUME NEW m, NEW n
  PROVE  /\ StepDone(m) = IF m.n < Last THEN <<Publish(Step(m.inst, m.n + 1, 0)), Ack(m)>>
                          ELSE <<Ack(m)>>
         /\ Woken(m, n) = IF n < Last
                          THEN <<Publish(Step(m.inst, n + 1, 0)), Announce(Remove(m.inst)), Ack(m)>>
                          ELSE <<Announce(Remove(m.inst)), Ack(m)>>
         /\ StepSuspend(m) = IF setup.timed
                             THEN <<Announce(Park(m.inst, m.n)), Schedule(m.inst, m.n), Ack(m)>>
                             ELSE <<Announce(Park(m.inst, m.n)), Ack(m)>>
         /\ ~LastAttempt(m) =>
              StepError(m) = <<Republish(Step(m.inst, m.n, m.k + 1)), Ack(m)>>
<1>1. StepDone(m) = IF m.n < Last THEN <<Publish(Step(m.inst, m.n + 1, 0)), Ack(m)>>
                    ELSE <<Ack(m)>>
  BY ShortLists DEF StepDone, PublishNextStep
<1>2. Woken(m, n) = IF n < Last
                    THEN <<Publish(Step(m.inst, n + 1, 0)), Announce(Remove(m.inst)), Ack(m)>>
                    ELSE <<Announce(Remove(m.inst)), Ack(m)>>
  <2>1. CASE n < Last
    BY <2>1, ShortLists DEF Woken, PublishNextStep
  <2>2. CASE ~(n < Last)
    BY <2>2, ShortLists DEF Woken, PublishNextStep
  <2>3. QED
    BY <2>1, <2>2
<1>3. StepSuspend(m) = IF setup.timed
                       THEN <<Announce(Park(m.inst, m.n)), Schedule(m.inst, m.n), Ack(m)>>
                       ELSE <<Announce(Park(m.inst, m.n)), Ack(m)>>
  <2> DEFINE p == Announce(Park(m.inst, m.n))
             t == Schedule(m.inst, m.n)
             d == Ack(m)
  <2>1. StepSuspend(m) = (<<p>> \o (IF setup.timed THEN <<t>> ELSE <<>>)) \o <<d>>
    BY DEF StepSuspend
  <2>2. (<<p>> \o <<t>>) \o <<d>> = <<p, t, d>> /\ (<<p>> \o <<>>) \o <<d>> = <<p, d>>
    <3>1. /\ \A a, b, c : (<<a>> \o <<b>>) \o <<c>> = <<a, b, c>>
          /\ \A a, b : (<<a>> \o <<>>) \o <<b>> = <<a, b>>
      BY ShortLists
    <3> HIDE DEF p, t, d
    <3>2. QED
      BY <3>1, Zenon
  <2> HIDE DEF p, t, d
  <2>3. StepSuspend(m) = IF setup.timed THEN <<p, t, d>> ELSE <<p, d>>
    BY <2>1, <2>2
  <2>4. QED
    BY <2>3 DEF p, t, d
<1>4. ~LastAttempt(m) => StepError(m) = <<Republish(Step(m.inst, m.n, m.k + 1)), Ack(m)>>
  BY DEF StepError
<1>5. QED
  BY <1>1, <1>2, <1>3, <1>4

\* A task, an event and what is done with them.
LEMMA EffectTypes ==
  ASSUME setup \in Setups, NEW m \in TaskSet
  PROVE  /\ Ack(m) \in Effects /\ Nack(m) \in Effects /\ DeadLetter(m) \in Effects
         /\ Announce(Remove(m.inst)) \in Effects /\ Announce(Park(m.inst, m.n)) \in Effects
         /\ Schedule(m.inst, m.n) \in Effects
         /\ \A n \in Nat : /\ Publish(Step(m.inst, n, 0)) \in Effects
                           /\ Publish(Compensation(m.inst, n)) \in Effects
         /\ Republish(Step(m.inst, m.n, m.k + 1)) \in Effects
<1>1. m \in TaskSet /\ m.inst \in Instances /\ m.n \in Nat /\ m.k \in Nat
  BY DEF TaskSet
<1>2. \A n \in Nat : Step(m.inst, n, 0) \in TaskSet /\ Compensation(m.inst, n) \in TaskSet
  BY <1>1 DEF TaskSet, Step, Compensation
<1>3. Step(m.inst, m.n, m.k + 1) \in TaskSet /\ TimeoutTask(m.inst, m.n) \in TaskSet
  BY <1>1 DEF TaskSet, Step, TimeoutTask
<1>4. Remove(m.inst) \in EventSet /\ Park(m.inst, m.n) \in EventSet
  BY <1>1 DEF EventSet, Remove, Park
<1>5. QED
  BY <1>1, <1>2, <1>3, <1>4
     DEF Effects, Ack, Nack, DeadLetter, Announce, Schedule, Publish, Republish

\* The singletons, and an effect before the ack.
LEMMA AckOnly ==
  ASSUME setup \in Setups, NEW D, NEW m \in TaskSet
  PROVE  ListOK(D, m, <<Ack(m)>>) /\ ListOK(D, m, <<Nack(m)>>)
  BY EffectTypes DEF ListOK, Order, EffectOK, Ack, Nack

LEMMA OneThenAck ==
  ASSUME setup \in Setups, NEW D, NEW m \in TaskSet, NEW e \in Effects, EffectOK(D, m, e),
         e.do \notin {"ack", "nack", "dlq"},
         e.do = "publish" => e.msg.kind # "comp"
  PROVE  ListOK(D, m, <<e, Ack(m)>>)
  BY EffectTypes DEF ListOK, Order, EffectOK, Ack

LEMMA TwoThenAck ==
  ASSUME setup \in Setups, NEW D, NEW m \in TaskSet, NEW e \in Effects, EffectOK(D, m, e),
         NEW f \in Effects, EffectOK(D, m, f),
         e.do \in {"publish", "announce"}, e.do = "publish" => e.msg.kind # "comp",
         f.do = "timer" \/ (f.do = "announce" /\ f.msg.kind # "park")
  PROVE  ListOK(D, m, <<e, f, Ack(m)>>)
  BY EffectTypes DEF ListOK, Order, EffectOK, Ack

\* After a step: its successor's task, if there is one.
LEMMA NextOK ==
  ASSUME setup \in Setups, NEW D, NEW m \in TaskSet, NEW n \in Steps, Before(D, m.inst, n),
         <<m.inst, n>> \in D, n < Last
  PROVE  LET e == Publish(Step(m.inst, n + 1, 0)) IN
         /\ e \in Effects /\ EffectOK(D, m, e) /\ e.do = "publish" /\ e.msg.kind # "comp"
<1>1. Last \in Nat /\ n \in 1..Last
  BY Constants DEF Steps
<1>2. Before(D, m.inst, n + 1) /\ n + 1 \in 2..Last /\ n + 1 \in Nat
  BY <1>1 DEF Before
<1>3. Publish(Step(m.inst, n + 1, 0)) \in Effects
  BY <1>2, EffectTypes
<1>4. QED
  BY <1>2, <1>3 DEF EffectOK, Publish, Step

LEMMA StepDoneOK ==
  ASSUME setup \in Setups, NEW D, NEW m \in TaskSet, m.n \in Steps, Before(D, m.inst, m.n),
         <<m.inst, m.n>> \in D
  PROVE  ListOK(D, m, StepDone(m))
<1>1. CASE m.n < Last
  BY <1>1, NextOK, OneThenAck, ListForms
<1>2. CASE ~(m.n < Last)
  BY <1>2, AckOnly, ListForms
<1>3. QED
  BY <1>1, <1>2

LEMMA WokenOK ==
  ASSUME setup \in Setups, NEW D, NEW m \in TaskSet, NEW n \in Steps, Before(D, m.inst, n),
         <<m.inst, n>> \in D
  PROVE  ListOK(D, m, Woken(m, n))
<1> DEFINE r == Announce(Remove(m.inst))
<1>1. r \in Effects /\ EffectOK(D, m, r) /\ r.do = "announce" /\ r.msg.kind # "park"
  BY EffectTypes DEF EffectOK, Announce, Remove
<1>2. CASE n < Last
  <2>1. Woken(m, n) = <<Publish(Step(m.inst, n + 1, 0)), r, Ack(m)>>
    BY <1>2, ListForms
  <2>2. QED
    BY <1>1, <1>2, <2>1, NextOK, TwoThenAck
<1>3. CASE ~(n < Last)
  <2>1. Woken(m, n) = <<r, Ack(m)>>
    BY <1>3, ListForms
  <2>2. QED
    BY <1>1, <2>1, OneThenAck
<1>4. QED
  BY <1>2, <1>3

LEMMA RemoveOK ==
  ASSUME setup \in Setups, NEW D, NEW m \in TaskSet
  PROVE  ListOK(D, m, <<Announce(Remove(m.inst)), Ack(m)>>)
<1>1. EffectOK(D, m, Announce(Remove(m.inst))) /\ Announce(Remove(m.inst)).do = "announce"
  BY DEF EffectOK, Announce
<1>2. QED
  BY <1>1, EffectTypes, OneThenAck

LEMMA StepSuspendOK ==
  ASSUME setup \in Setups, NEW D, NEW m \in TaskSet, m.kind = "step", Suspends(m.n)
  PROVE  ListOK(D, m, StepSuspend(m))
<1> DEFINE p == Announce(Park(m.inst, m.n))
           t == Schedule(m.inst, m.n)
<1>1. p \in Effects /\ EffectOK(D, m, p) /\ p.do = "announce"
  BY EffectTypes DEF EffectOK, Announce
<1>2. t \in Effects /\ EffectOK(D, m, t) /\ t.do = "timer"
  BY EffectTypes DEF EffectOK, Schedule
<1>3. StepSuspend(m) = IF setup.timed THEN <<p, t, Ack(m)>> ELSE <<p, Ack(m)>>
  BY ListForms
<1> HIDE DEF p, t
<1>4. ListOK(D, m, <<p, t, Ack(m)>>)
  BY <1>1, <1>2, TwoThenAck
<1>5. ListOK(D, m, <<p, Ack(m)>>)
  BY <1>1, OneThenAck
<1>6. QED
  BY <1>3, <1>4, <1>5

\* After the last failure: the dead letter, the compensations, the ack.
LEMMA ErrorList ==
  ASSUME setup \in Setups, NEW m \in TaskSet, LastAttempt(m), m.n # 0
  PROVE  LET q == StepError(m) IN
         /\ q \in Seq(Effects) /\ Len(q) = m.n + 1
         /\ q[1] = DeadLetter(m) /\ q[m.n + 1] = Ack(m)
         /\ \A j \in 2..m.n : q[j] = Publish(Compensation(m.inst, m.n + 1 - j))
<1> DEFINE c == LastCompleted(m.n)
           q == StepError(m)
           a == <<DeadLetter(m)>>
           b == Compensations(m)
           d == <<Ack(m)>>
           s == a \o b
<1>1. m.n \in Nat /\ c \in Nat /\ c = m.n - 1
  BY DEF TaskSet, LastCompleted
<1>2. /\ Len(a) = 1 /\ Len(d) = 1 /\ a \in Seq(Effects) /\ d \in Seq(Effects)
      /\ a[1] = DeadLetter(m) /\ d[1] = Ack(m)
  BY EffectTypes
<1>3. b = [j \in 1..c |-> Publish(Compensation(m.inst, c + 1 - j))]
  BY DEF Compensations
<1>4. b \in Seq(Effects) /\ Len(b) = c
  BY <1>1, <1>3, EffectTypes
<1>5. /\ s \in Seq(Effects) /\ Len(s) = c + 1
      /\ s[1] = DeadLetter(m) /\ \A j \in 1..c : s[j + 1] = b[j]
  BY <1>1, <1>2, <1>4
<1>6. q = s \o d
  BY DEF StepError
<1> HIDE DEF a, b, d, q, c, s
<1>7. /\ q \in Seq(Effects) /\ Len(q) = c + 2 /\ q[1] = DeadLetter(m) /\ q[c + 2] = Ack(m)
      /\ \A j \in 1..c : q[j + 1] = b[j]
  <2>0. /\ q \in Seq(Effects) /\ Len(q) = Len(s) + Len(d)
        /\ \A j \in 1..(Len(s) + Len(d)) : q[j] = IF j <= Len(s) THEN s[j] ELSE d[j - Len(s)]
    BY <1>2, <1>5, <1>6, ConcatProperties
  <2>1. c \in Nat /\ Len(s) = c + 1 /\ Len(d) = 1
    BY <1>1, <1>2, <1>5
  <2>2. Len(q) = c + 2 /\ q[c + 2] = d[1] /\ \A j \in 1..(c + 1) : q[j] = s[j]
    BY <2>0, <2>1
  <2>3. 1 \in 1..(c + 1) /\ \A j \in 1..c : j + 1 \in 1..(c + 1)
    BY <1>1
  <2>4. QED
    BY <1>2, <1>5, <2>0, <2>2, <2>3
<1>8. \A j \in 2..m.n : q[j] = Publish(Compensation(m.inst, m.n + 1 - j))
  <2> TAKE j \in 2..m.n
  <2>1. j - 1 \in 1..c /\ (j - 1) + 1 = j /\ c + 1 - (j - 1) = m.n + 1 - j
    BY <1>1
  <2>2. q[j] = b[j - 1]
    BY <1>7, <2>1
  <2>3. QED
    BY <1>3, <2>1, <2>2
<1>9. m.n + 1 = c + 2
  BY <1>1
<1>10. QED
  BY <1>7, <1>8, <1>9 DEF q

\* After a failure: the next attempt, or the dead letter and the compensations.
LEMMA StepErrorOK ==
  ASSUME setup \in Setups, NEW D, NEW m \in TaskSet, m.kind = "step", m.n # 0
  PROVE  ListOK(D, m, StepError(m))
<1>1. CASE ~LastAttempt(m)
  <2> DEFINE r == Republish(Step(m.inst, m.n, m.k + 1))
  <2>1. r \in Effects /\ EffectOK(D, m, r) /\ r.do = "republish"
    BY <1>1, EffectTypes DEF EffectOK, Republish
  <2>2. QED
    BY <1>1, <2>1, OneThenAck DEF StepError
<1>2. CASE LastAttempt(m)
  <2> DEFINE q == StepError(m)
  <2>1. m.n \in Nat \ {0}
    BY DEF TaskSet
  <2>2. /\ q \in Seq(Effects) /\ Len(q) = m.n + 1 /\ q[1] = DeadLetter(m) /\ q[m.n + 1] = Ack(m)
        /\ \A j \in 2..m.n : q[j] = Publish(Compensation(m.inst, m.n + 1 - j))
    BY <1>2, ErrorList
  <2> HIDE DEF q
  <2>3. \A k \in 1..(m.n - 1) : \E j \in 1..Len(q) : q[j] = Publish(Compensation(m.inst, k))
    <3> TAKE k \in 1..(m.n - 1)
    <3>1. m.n + 1 - k \in 2..m.n /\ m.n + 1 - (m.n + 1 - k) = k
      BY <2>1
    <3>2. QED
      BY <2>1, <2>2, <3>1
  <2>4. \A j \in 1..Len(q) : j = 1 \/ j = m.n + 1 \/ j \in 2..m.n
    BY <2>1, <2>2
  <2>5. \A j \in 1..Len(q) : EffectOK(D, m, q[j])
    <3> TAKE j \in 1..Len(q)
    <3>1. CASE j \in 2..m.n
      <4>1. m.n + 1 - j \in 1..(m.n - 1)
        BY <2>1, <3>1
      <4>2. q[j] = Publish(Compensation(m.inst, m.n + 1 - j))
        BY <2>2, <3>1
      <4>3. QED
        BY <1>2, <4>1, <4>2 DEF EffectOK, Publish, Compensation
    <3>2. CASE j = 1 \/ j = m.n + 1
      BY <1>2, <2>2, <3>2 DEF EffectOK, DeadLetter, Ack
    <3>3. QED
      BY <2>4, <3>1, <3>2
  <2>6. Order(q)
    <3>1. /\ q[1].do = "dlq" /\ q[m.n + 1].do = "ack"
          /\ \A j \in 2..m.n : q[j].do = "publish" /\ j # m.n + 1
      <4>1. q[1].do = "dlq" /\ q[m.n + 1].do = "ack"
        BY <2>2 DEF DeadLetter, Ack
      <4>2. \A j \in 2..m.n : q[j].do = "publish"
        <5>1. \A x : Publish(x).do = "publish"
          BY DEF Publish
        <5>2. QED
          BY <2>2, <5>1, Zenon
      <4>3. QED
        BY <2>1, <4>1, <4>2
    <3>2. Len(q) = m.n + 1 /\ \A j \in 2..m.n : \A k \in 1..(j - 1) : k = 1 \/ k \in 2..m.n
      BY <2>1, <2>2
    <3>3. QED
      BY <2>1, <2>4, <3>1, <3>2 DEF Order
  <2>7. q # <<>>
    BY <2>1, <2>2
  <2>8. ListOK(D, m, q)
    BY <2>1, <2>2, <2>3, <2>5, <2>6, <2>7 DEF ListOK, DeadLetter
  <2>9. QED
    BY <2>8 DEF q
<1>3. QED
  BY <1>1, <1>2

-----------------------------------------------------------------------------
(* What a task makes its worker do.                                        *)

Taken(w, m) ==
  /\ w \in alive /\ todo[w] = <<>>
  /\ ready' = ready \ {m} /\ delivered' = [delivered EXCEPT ![m] = @ + 1]
  /\ task' = [task EXCEPT ![w] = m]
  /\ UNCHANGED <<setup, settled, stateLog, dlq, alive, synced, resumeSeq, timers>>

\* What is known of a task that is ready.
LEMMA ReadyTask ==
  ASSUME IInv, NEW m \in ready
  PROVE  /\ setup \in Setups /\ m \in TaskSet /\ m.inst \in Instances
         /\ m.kind = "step" => m.n \in Steps /\ m.n # 0 /\ Before(done, m.inst, m.n)
  BY DEF IInv, Shape, Stream, Path, TaskOK, TaskSet, Steps

\* A worker's registry becomes f.
LEMMA RegistryIs ==
  ASSUME IInv, NEW w \in Workers, setup' = setup, done \subseteq done',
         synced'[w] <= Len(stateLog'), NEW f, suspended' = [suspended EXCEPT ![w] = f],
         DOMAIN f \subseteq Instances,
         \A j \in DOMAIN f : Suspends(f[j]) /\ Before(done', j, f[j])
  PROVE  /\ Registry(w)' /\ DOMAIN suspended' = Workers
         /\ \A v \in Workers \ {w} : suspended'[v] = suspended[v]
<1>1. /\ DOMAIN suspended' = Workers /\ suspended'[w] = f
      /\ \A v \in Workers \ {w} : suspended'[v] = suspended[v]
  BY DEF IInv, Shape
<1>2. \A x, y : (Suspends(x) => Suspends(x)') /\ (Before(done', y, x) => Before(done, y, x)')
  BY DEF Suspends, Steps, Last, Before
<1>3. QED
  BY <1>1, <1>2 DEF Registry

\* A worker has made an entry for an instance.
LEMMA RegistryGrows ==
  ASSUME IInv, NEW w \in Workers, setup' = setup, done \subseteq done',
         synced'[w] <= Len(stateLog'), NEW i \in Instances, NEW n, Suspends(n),
         Before(done', i, n), suspended' = [suspended EXCEPT ![w] = With(@, i, n)]
  PROVE  /\ Registry(w)' /\ DOMAIN suspended' = Workers
         /\ \A v \in Workers \ {w} : suspended'[v] = suspended[v]
<1> DEFINE f == With(suspended[w], i, n)
<1>1. Registry(w) /\ suspended' = [suspended EXCEPT ![w] = f]
  BY DEF IInv
<1>2. /\ DOMAIN f = DOMAIN suspended[w] \cup {i} /\ f[i] = n
      /\ \A x \in DOMAIN suspended[w] \ {i} : f[x] = suspended[w][x]
  BY DEF With
<1> HIDE DEF f
<1>3. DOMAIN f \subseteq Instances
  BY <1>1, <1>2 DEF Registry
<1>4. \A j \in DOMAIN f : Suspends(f[j]) /\ Before(done', j, f[j])
  BY <1>1, <1>2 DEF Registry, Before
<1>5. QED
  BY <1>1, <1>3, <1>4, RegistryIs

\* A worker has lost its entry for an instance, if it had one.
LEMMA RegistryShrinks ==
  ASSUME IInv, NEW w \in Workers, setup' = setup, done \subseteq done',
         synced'[w] <= Len(stateLog'), NEW i,
         suspended' = suspended \/ suspended' = [suspended EXCEPT ![w] = Without(@, i)]
  PROVE  /\ Registry(w)' /\ DOMAIN suspended' = Workers
         /\ \A v \in Workers \ {w} : suspended'[v] = suspended[v]
<1>1. Registry(w) /\ DOMAIN suspended = Workers
  BY DEF IInv, Shape
<1>2. \A j \in DOMAIN suspended[w] : Suspends(suspended[w][j]) /\ Before(done', j, suspended[w][j])
  BY <1>1 DEF Registry, Before
<1>3. CASE suspended' = suspended
  <2>1. \A x, y : (Suspends(x) => Suspends(x)') /\ (Before(done', y, x) => Before(done, y, x)')
    BY DEF Suspends, Steps, Last, Before
  <2>2. QED
    BY <1>1, <1>2, <1>3, <2>1 DEF Registry
<1>4. CASE suspended' = [suspended EXCEPT ![w] = Without(@, i)]
  <2> DEFINE f == Without(suspended[w], i)
  <2>1. /\ DOMAIN f \subseteq DOMAIN suspended[w] /\ \A x \in DOMAIN f : f[x] = suspended[w][x]
        /\ suspended' = [suspended EXCEPT ![w] = f]
    BY <1>4 DEF Without, Restrict
  <2> HIDE DEF f
  <2>2. /\ DOMAIN f \subseteq Instances
        /\ \A j \in DOMAIN f : Suspends(f[j]) /\ Before(done', j, f[j])
    BY <1>1, <1>2, <2>1 DEF Registry
  <2>3. QED
    BY <2>1, <2>2, RegistryIs
<1>5. QED
  BY <1>3, <1>4

LEMMA RunStepKeeps ==
  ASSUME IInv, NEW w \in Workers, NEW m \in ready, Taken(w, m), RunStep(w, m)
  PROVE  IInv'
<1>0. /\ m.kind = "step" /\ m.n \in Steps /\ m.n # 0 /\ Before(done, m.inst, m.n) /\ setup \in Setups
      /\ m \in TaskSet /\ m.inst \in Instances
  BY ReadyTask DEF RunStep
<1>1. /\ \A v \in Workers \ {w} : suspended'[v] = suspended[v]
      /\ done \subseteq done' /\ mishaps \subseteq mishaps'
      /\ nackedSeqs' \in [Workers -> SUBSET TaskSet]
  BY DEF RunStep, IInv, Shape
<1>2. Registry(w)' /\ DOMAIN suspended' = Workers
  <2>0. synced'[w] <= Len(stateLog')
    BY DEF Taken, IInv, Registry
  <2>1. CASE suspended' = suspended
    BY <1>1, <2>0, <2>1, RegistryShrinks DEF Taken
  <2>2. CASE suspended' # suspended
    <3>1. suspended' = [suspended EXCEPT ![w] = With(@, m.inst, m.n)] /\ Suspends(m.n) /\ done' = done
      BY <1>0, <2>2 DEF RunStep, Suspends
    <3>2. QED
      BY <1>0, <2>0, <3>1, RegistryGrows DEF Taken
  <2>3. QED
    BY <2>1, <2>2
<1>3. PICK q : ListOK(done', m, q) /\ todo' = [todo EXCEPT ![w] = q]
  <2>1. CASE todo' = [todo EXCEPT ![w] = StepDone(m)] /\ done' = done \cup {<<m.inst, m.n>>}
    <3>1. <<m.inst, m.n>> \in done' /\ Before(done', m.inst, m.n)
      BY <1>0, <2>1 DEF Before
    <3>2. ListOK(done', m, StepDone(m))
      BY <1>0, <3>1, StepDoneOK
    <3>3. QED
      BY <2>1, <3>2
  <2>2. CASE todo' = [todo EXCEPT ![w] = StepError(m)]
    BY <1>0, <2>2, StepErrorOK
  <2>3. CASE todo' = [todo EXCEPT ![w] = StepSuspend(m)] /\ Suspends(m.n)
    BY <1>0, <2>3, StepSuspendOK
  <2>4. QED
    BY <1>0, <2>1, <2>2, <2>3 DEF RunStep, Suspends
<1>4. QED
  BY <1>1, <1>2, <1>3, TakeKeeps DEF Taken

LEMMA WakeKeeps ==
  ASSUME IInv, NEW w \in Workers, NEW m \in ready, Taken(w, m), Wake(w, m)
  PROVE  IInv'
<1> DEFINE n == suspended[w][m.inst]
<1>0. /\ Suspends(n) /\ n \in Steps /\ Before(done, m.inst, n) /\ setup \in Setups
      /\ m \in TaskSet /\ m.inst \in Instances
  BY ReadyTask DEF Wake, IInv, Registry, Suspends
<1>1. /\ suspended' = [suspended EXCEPT ![w] = Without(@, m.inst)]
      /\ done \subseteq done' /\ mishaps \subseteq mishaps'
      /\ nackedSeqs' \in [Workers -> SUBSET TaskSet]
  BY DEF Wake, IInv, Shape
<1>2. Registry(w)' /\ DOMAIN suspended' = Workers
  <2>1. synced'[w] <= Len(stateLog')
    BY DEF Taken, IInv, Registry
  <2>2. QED
    BY <1>1, <2>1, RegistryShrinks DEF Taken
<1>3. \A v \in Workers \ {w} : suspended'[v] = suspended[v]
  BY <1>1 DEF IInv, Shape
<1>4. PICK q : ListOK(done', m, q) /\ todo' = [todo EXCEPT ![w] = q]
  <2>1. CASE todo' = [todo EXCEPT ![w] = Woken(m, n)] /\ done' = done \cup {<<m.inst, n>>}
    <3>1. <<m.inst, n>> \in done' /\ Before(done', m.inst, n)
      BY <1>0, <2>1 DEF Before
    <3>2. ListOK(done', m, Woken(m, n))
      BY <1>0, <3>1, WokenOK
    <3>3. QED
      BY <2>1, <3>2
  <2>2. CASE todo' = [todo EXCEPT ![w] = <<Nack(m)>>]
    BY <1>0, <2>2, AckOnly
  <2>3. CASE todo' = [todo EXCEPT ![w] = <<Announce(Remove(m.inst)), Ack(m)>>]
    BY <1>0, <2>3, RemoveOK
  <2>4. QED
    BY <2>1, <2>2, <2>3 DEF Wake
<1>5. QED
  BY <1>1, <1>2, <1>3, <1>4, TakeKeeps DEF Taken

LEMMA OthersKeep ==
  ASSUME IInv, NEW w \in Workers, NEW m \in ready, Taken(w, m),
         WakeNobody(w, m) \/ HandleCancel(w, m) \/ Compensate(w, m)
  PROVE  IInv'
<1>0. setup \in Setups /\ m \in TaskSet
  BY ReadyTask
<1>1. /\ suspended' = suspended \/ suspended' = [suspended EXCEPT ![w] = Without(@, m.inst)]
      /\ done' = done /\ mishaps' = mishaps
  BY DEF WakeNobody, HandleCancel, Compensate, history
<1>2. nackedSeqs' \in [Workers -> SUBSET TaskSet]
  BY <1>0 DEF WakeNobody, HandleCancel, Compensate, IInv, Shape
<1>3. Registry(w)' /\ DOMAIN suspended' = Workers
  <2>1. synced'[w] <= Len(stateLog')
    BY DEF Taken, IInv, Registry
  <2>2. QED
    BY <1>1, <2>1, RegistryShrinks DEF Taken
<1>4. \A v \in Workers \ {w} : suspended'[v] = suspended[v]
  BY <1>1 DEF IInv, Shape
<1>5. PICK q : ListOK(done', m, q) /\ todo' = [todo EXCEPT ![w] = q]
  BY <1>0, AckOnly, RemoveOK DEF WakeNobody, HandleCancel, Compensate
<1>6. QED
  BY <1>1, <1>2, <1>3, <1>4, <1>5, TakeKeeps DEF Taken

LEMMA TakingKeeps == ASSUME IInv, NEW w \in Workers, Take(w) PROVE IInv'
<1>1. PICK m \in ready :
        /\ Taken(w, m)
        /\ \/ RunStep(w, m) \/ Wake(w, m) \/ WakeNobody(w, m)
           \/ HandleCancel(w, m) \/ Compensate(w, m)
  BY DEF Take, Taken
<1>2. QED
  BY <1>1, RunStepKeeps, WakeKeeps, OthersKeep

-----------------------------------------------------------------------------
(* Performing an effect.                                                   *)

\* The worker that performs an effect holds the task the effect belongs to.
LEMMA HeadFacts ==
  ASSUME IInv, NEW w \in Workers, todo[w] # <<>>
  PROVE  LET q == todo[w]
             e == Head(q)
             m == task[w]
         IN /\ setup \in Setups /\ m \in Tasks /\ m \in TaskSet /\ m # NoTask /\ w \in alive
            /\ TaskOK(m) /\ (m.kind = "step" => Before(done, m.inst, m.n))
            /\ q \in Seq(Effects) /\ Len(q) \in Nat \ {0} /\ e = q[1] /\ EffectOK(done, m, e)
            /\ Tail(q) \in Seq(Effects) /\ Len(Tail(q)) = Len(q) - 1
            /\ \A j \in 1..Len(Tail(q)) : Tail(q)[j] = q[j + 1]
            /\ Tail(q) = <<>> <=> Len(q) = 1
            /\ e.do \in {"ack", "nack"} <=> Tail(q) = <<>>
<1>1. Worker(w) /\ Shape /\ Stream /\ Path
  BY DEF IInv
<1>2. todo[w] \in Seq(Effects) /\ Len(todo[w]) \in Nat \ {0} /\ Head(todo[w]) = todo[w][1]
  BY <1>1 DEF Worker
<1>3. /\ Tail(todo[w]) \in Seq(Effects) /\ Len(Tail(todo[w])) = Len(todo[w]) - 1
      /\ \A j \in 1..Len(Tail(todo[w])) : Tail(todo[w])[j] = todo[w][j + 1]
  BY <1>2
<1>4. Tail(todo[w]) = <<>> <=> Len(todo[w]) = 1
  <2>1. \A s \in Seq(Effects) : s = <<>> <=> Len(s) = 0
    BY EmptySeq
  <2>2. Tail(todo[w]) = <<>> <=> Len(Tail(todo[w])) = 0
    BY <1>3, <2>1, Zenon
  <2>3. QED
    BY <1>2, <1>3, <2>2
<1>5. Head(todo[w]).do \in {"ack", "nack"} <=> Len(todo[w]) = 1
  <2>1. 1 \in 1..Len(todo[w])
    BY <1>2
  <2>2. todo[w][1].do \in {"ack", "nack"} <=> 1 = Len(todo[w])
    BY <1>1, <2>1 DEF Worker, Order
  <2>3. QED
    BY <1>2, <2>2
<1>6. /\ setup \in Setups /\ task[w] \in Tasks /\ task[w] # NoTask /\ w \in alive
      /\ TaskOK(task[w]) /\ task[w] \in TaskSet
      /\ (task[w].kind = "step" => Before(done, task[w].inst, task[w].n))
  BY <1>1 DEF Worker, Shape, Stream, TaskOK, Path
<1>7. EffectOK(done, task[w], Head(todo[w]))
  BY <1>1, <1>2 DEF Worker
<1>8. QED
  BY <1>2, <1>3, <1>4, <1>5, <1>6, <1>7

\* What every effect changes.
LEMMA PerformFacts ==
  ASSUME IInv, NEW w \in Workers, NEW q, Perform(w, q)
  PROVE  /\ todo[w] # <<>> /\ todo'[w] = q
         /\ task'[w] = IF q = <<>> THEN NoTask ELSE task[w]
         /\ \A v \in Workers \ {w} : task'[v] = task[v] /\ todo'[v] = todo[v]
         /\ DOMAIN task' = Workers /\ DOMAIN todo' = Workers
         /\ \A v \in Workers : task'[v] \in {task[v], NoTask}
  BY DEF Perform, IInv, Shape

\* The list of the worker gets shorter.
LEMMA ShorterList ==
  ASSUME IInv, Grows, NEW w \in Workers, Perform(w, Tail(todo[w])),
         Head(todo[w]).do = "dlq" =>
           <<task[w].inst, task[w].n>> \in dlq' \/ task[w].inst \in mishaps'
  PROVE  \A v \in Workers : Worker(v)' /\ Letters(v)' /\ Registry(v)'
<1> DEFINE q == todo[w]
           m == task[w]
<1>1. \A v \in Workers \ {w} : Worker(v)' /\ Letters(v)'
  BY PerformFacts, WorkerKept DEF Perform
<1>2. \A v \in Workers : Registry(v)'
  BY RegistryKept DEF Perform
<1>3. /\ m \in Tasks /\ m # NoTask /\ w \in alive /\ q \in Seq(Effects) /\ Len(q) \in Nat \ {0}
      /\ Head(q) = q[1] /\ Tail(q) \in Seq(Effects) /\ Len(Tail(q)) = Len(q) - 1
      /\ \A j \in 1..Len(Tail(q)) : Tail(q)[j] = q[j + 1]
      /\ Tail(q) = <<>> <=> Len(q) = 1
  BY HeadFacts, PerformFacts
<1>4. /\ todo'[w] = Tail(q) /\ task'[w] = IF Tail(q) = <<>> THEN NoTask ELSE m
  BY PerformFacts
<1>5. Worker(w) /\ Letters(w)
  BY DEF IInv
<1>6. Worker(w)'
  <2>1. Order(Tail(q))
    BY <1>3, <1>5 DEF Order, Worker
  <2>2. \A j \in 1..Len(Tail(q)) : Tail(q)[j] = q[j + 1] /\ j + 1 \in 1..Len(q)
    BY <1>3
  <2>3. \A x, e : EffectOK(done, x, e) => EffectOK(done, x, e)'
    BY EffectKept
  <2>4. \A j \in 1..Len(Tail(q)) : EffectOK(done, m, Tail(q)[j])
    BY <1>5, <2>2 DEF Worker
  <2>5. \A j \in 1..Len(Tail(q)) : EffectOK(done, task[w], todo[w][j])'
    <3>1. CASE Tail(q) = <<>>
      BY <1>3, <1>4, <3>1
    <3>2. CASE Tail(q) # <<>>
      BY <1>4, <2>3, <2>4, <3>2
    <3>3. QED
      BY <3>1, <3>2
  <2>6. Order(todo[w])'
    BY <1>4, <2>1 DEF Order
  <2>7. QED
    BY <1>3, <1>4, <2>5, <2>6 DEF Worker, Grows, Perform
<1>7. Letters(w)'
  <2>1. todo'[w] # <<>> => Head(todo'[w]).do # "dlq"
    <3> SUFFICES ASSUME Tail(q) # <<>> PROVE Head(Tail(q)).do # "dlq"
      BY <1>4
    <3>1. Len(Tail(q)) >= 1 /\ Head(Tail(q)) = Tail(q)[1] /\ Len(q) >= 2
      BY <1>3
    <3>2. Tail(q)[1] = q[2] /\ 2 \in 1..Len(q)
      BY <1>3, <3>1
    <3>3. QED
      BY <1>5, <3>1, <3>2 DEF Worker, Order
  <2>2. \A k \in Steps : \A i \in Instances : Owes(w, i, k)' => Owes(w, i, k) /\ todo'[w] # <<>>
    BY <1>3, <1>4 DEF Owes
  <2>3. \A k \in Steps : \A i \in Instances : Owes(w, i, k) => i = m.inst
    <3>1. \A i, k : Publish(Compensation(i, k)).do = "publish"
                    /\ Publish(Compensation(i, k)).msg.inst = i
      BY DEF Publish, Compensation
    <3>2. \A j \in 1..Len(q) : q[j].do = "publish" => q[j].msg.inst = m.inst
      <4> SUFFICES ASSUME NEW j \in 1..Len(q), q[j].do = "publish" PROVE q[j].msg.inst = m.inst
        OBVIOUS
      <4>1. EffectOK(done, m, q[j])
        BY <1>5 DEF Worker
      <4>2. \E n : q[j].msg = Step(m.inst, n, 0) \/ q[j].msg = Compensation(m.inst, n)
        BY <4>1 DEF EffectOK
      <4>3. QED
        BY <4>2 DEF Step, Compensation
    <3>3. QED
      BY <3>1, <3>2 DEF Owes
  <2>4. Steps' = Steps
    BY DEF Perform, Steps, Last
  <2>5. \A k \in Steps : \A i \in Instances : Owes(w, i, k)' =>
          <<i, task'[w].n>> \in dlq' \/ i \in mishaps'
    BY <1>4, <1>5, <2>2, <2>3 DEF Letters, Grows
  <2>6. QED
    BY <2>1, <2>4, <2>5 DEF Letters
<1>8. QED
  BY <1>1, <1>2, <1>6, <1>7

\* What can be said of an effect by what it does.
LEMMA HeadKinds ==
  ASSUME IInv, NEW w \in Workers, todo[w] # <<>>
  PROVE  LET e == Head(todo[w])
             m == task[w]
         IN /\ e.do \in {"publish", "republish"} =>
                 /\ TaskOK(e.msg) /\ (e.msg.kind = "step" => Before(done, e.msg.inst, e.msg.n))
            /\ e.do \in Sends => e.msg.inst = m.inst
            /\ e.do = "announce" =>
                 /\ EventOK(e.msg)
                 /\ e.msg.kind = "park" => Before(done, e.msg.inst, e.msg.n)
            /\ e.do = "dlq" => m = FinalTry(m.inst, m.n) /\ m.n \in Steps /\ e.msg = m
            /\ e.do = "timer" => m.n \in Steps
<1> DEFINE e == Head(todo[w])
           m == task[w]
<1>1. /\ setup \in Setups /\ m \in TaskSet /\ TaskOK(m) /\ EffectOK(done, m, e)
      /\ (m.kind = "step" => Before(done, m.inst, m.n))
  BY HeadFacts
<1>2. /\ m.inst \in Instances /\ m.n \in Nat /\ m.k \in Nat
      /\ m = [kind |-> m.kind, inst |-> m.inst, n |-> m.n, k |-> m.k]
  BY <1>1 DEF TaskSet
<1>3. Last \in Nat \ {0} /\ MaxRetries \in Nat \ {0}
  BY <1>1, Constants
<1>4. m.kind = "step" => m.n \in Steps /\ m.k \in 0..(MaxRetries - 1)
  BY <1>1 DEF TaskOK
<1> HIDE DEF e, m
<1>5. e.do = "publish" =>
        TaskOK(e.msg) /\ e.msg.inst = m.inst /\ (e.msg.kind = "step" => Before(done, e.msg.inst, e.msg.n))
  BY <1>1, <1>2, <1>3, <1>4 DEF EffectOK, TaskOK, TaskSet, Step, Compensation, Steps
<1>6. e.do = "republish" =>
        TaskOK(e.msg) /\ e.msg.inst = m.inst /\ (e.msg.kind = "step" => Before(done, e.msg.inst, e.msg.n))
  BY <1>1, <1>2, <1>3, <1>4 DEF EffectOK, TaskOK, TaskSet, Step, Steps, LastAttempt
<1>7. e.do = "announce" => /\ EventOK(e.msg) /\ e.msg.inst = m.inst
                           /\ e.msg.kind = "park" => Before(done, e.msg.inst, e.msg.n)
  BY <1>1, <1>2 DEF EffectOK, EventOK, EventSet, Park, Remove
<1>8. e.do = "dlq" => m = FinalTry(m.inst, m.n) /\ m.n \in Steps /\ e.msg = m
  <2> SUFFICES ASSUME e.do = "dlq" PROVE m = FinalTry(m.inst, m.n) /\ m.n \in Steps /\ e.msg = m
    OBVIOUS
  <2>1. m.kind = "step" /\ LastAttempt(m) /\ e.msg = m
    BY <1>1 DEF EffectOK
  <2>2. m.k = MaxRetries - 1
    BY <1>2, <1>3, <1>4, <2>1 DEF LastAttempt
  <2>3. QED
    BY <1>2, <1>4, <2>1, <2>2 DEF FinalTry, Step
<1>9. e.do = "timer" => m.n \in Steps
  BY <1>1, <1>4 DEF EffectOK
<1>10. QED
  BY <1>5, <1>6, <1>7, <1>8, <1>9 DEF Sends, e, m

\* The state stream grows by an event, or has it.
LEMMA EventFacts ==
  ASSUME stateLog \in Seq(EventSet), NEW ev \in EventSet, AddEvent(ev)
  PROVE  /\ stateLog' \in Seq(EventSet) /\ Len(stateLog) <= Len(stateLog')
         /\ \A j \in 1..Len(stateLog) : stateLog'[j] = stateLog[j]
         /\ \A j \in 1..Len(stateLog') : j \in 1..Len(stateLog) \/ stateLog'[j] = ev
  BY DEF AddEvent

\* What a worker owes, once it has performed an effect.
LEMMA OwesLess ==
  ASSUME IInv, NEW w \in Workers, Perform(w, Tail(todo[w])), NEW v \in Workers, NEW i, NEW k,
         Owes(v, i, k)
  PROVE  \/ Owes(v, i, k)' /\ task'[v] = task[v]
         \/ v = w /\ Head(todo[w]) = Publish(Compensation(i, k))
<1>1. CASE v # w
  BY <1>1, PerformFacts DEF Owes
<1>2. CASE v = w
  <2> DEFINE q == todo[w]
  <2>1. /\ Len(q) \in Nat \ {0} /\ Head(q) = q[1] /\ Len(Tail(q)) = Len(q) - 1
        /\ \A j \in 1..Len(Tail(q)) : Tail(q)[j] = q[j + 1]
        /\ Tail(q) = <<>> <=> Len(q) = 1
    BY HeadFacts, PerformFacts
  <2>2. /\ todo'[w] = Tail(q) /\ task'[w] = IF Tail(q) = <<>> THEN NoTask ELSE task[w]
    BY PerformFacts
  <2>3. PICK j \in 1..Len(q) : q[j] = Publish(Compensation(i, k))
    BY <1>2 DEF Owes
  <2>4. CASE j = 1
    BY <1>2, <2>1, <2>3, <2>4
  <2>5. CASE j # 1
    <3>1. j - 1 \in 1..Len(Tail(q)) /\ Tail(q)[j - 1] = q[j] /\ Tail(q) # <<>>
      BY <2>1, <2>5
    <3>2. QED
      BY <1>2, <2>2, <2>3, <3>1 DEF Owes
  <2>6. QED
    BY <2>4, <2>5
<1>3. QED
  BY <1>1, <1>2

\* A send went well, or its error was discarded.
LEMMA SendKeeps ==
  ASSUME IInv, NEW w \in Workers, Perform(w, Tail(todo[w])), Head(todo[w]).do \in Sends,
         \/ Accepted(Head(todo[w])) /\ mishaps' = mishaps
         \/ /\ Accepted(Head(todo[w])) \/ UNCHANGED <<delivered, ready, stateLog, dlq>>
            /\ mishaps' = mishaps \cup {task[w].inst},
         UNCHANGED <<settled, timers>>
  PROVE  IInv'
<1> DEFINE e == Head(todo[w])
           m == task[w]
<1>0. /\ todo[w] # <<>> /\ m \in Tasks /\ m # NoTask /\ EffectOK(done, m, e)
      /\ m.inst \in Instances /\ setup \in Setups
      /\ (m.kind = "step" => Before(done, m.inst, m.n) /\ m.n \in Steps)
  BY PerformFacts, HeadFacts DEF TaskSet, TaskOK
<1>1. /\ e.do \in {"publish", "republish"} =>
           /\ TaskOK(e.msg) /\ (e.msg.kind = "step" => Before(done, e.msg.inst, e.msg.n))
      /\ e.msg.inst = m.inst
      /\ e.do = "announce" =>
           EventOK(e.msg) /\ (e.msg.kind = "park" => Before(done, e.msg.inst, e.msg.n))
      /\ e.do = "dlq" => m = FinalTry(m.inst, m.n) /\ m.n \in Steps /\ e.msg = m
  BY <1>0, HeadKinds
<1>2. /\ e.do \in {"publish", "republish"} => MayStore(e.msg)
      /\ e.do \notin {"publish", "republish"} => UNCHANGED <<delivered, ready>>
      /\ stateLog' = stateLog \/ (e.do = "announce" /\ AddEvent(e.msg))
      /\ dlq' = dlq \/ (e.do = "dlq" /\ dlq' = dlq \cup {<<m.inst, m.n>>})
      /\ \/ mishaps' = mishaps /\ Accepted(e)
         \/ mishaps' = mishaps \cup {m.inst}
  BY <1>1 DEF Accepted, MayStore
<1>3. /\ \/ Tasks' = Tasks
         \/ e.do \in {"publish", "republish"} /\ Tasks' = Tasks \cup {e.msg}
      /\ \A x \in Tasks : delivered'[x] = delivered[x]
  BY <1>2, StoreFacts DEF Tasks
<1>4. /\ stateLog' \in Seq(EventSet) /\ Len(stateLog) <= Len(stateLog')
      /\ \A j \in 1..Len(stateLog) : stateLog'[j] = stateLog[j]
      /\ \A j \in 1..Len(stateLog') :
           j \in 1..Len(stateLog) \/ (e.do = "announce" /\ stateLog'[j] = e.msg)
  <2>1. stateLog \in Seq(EventSet)
    BY DEF IInv, Log
  <2>2. CASE stateLog' = stateLog
    BY <2>1, <2>2
  <2>3. CASE e.do = "announce" /\ AddEvent(e.msg)
    BY <1>1, <2>1, <2>3, EventFacts DEF EventOK
  <2>4. QED
    BY <1>2, <2>2, <2>3
<1>5. Grows
  BY <1>2, <1>3, <1>4 DEF Grows, Perform
<1>6. e.do = "dlq" => <<m.inst, m.n>> \in dlq' \/ m.inst \in mishaps'
  BY <1>1, <1>2 DEF Accepted
<1>7. \A v \in Workers : Worker(v)' /\ Letters(v)' /\ Registry(v)'
  BY <1>5, <1>6, ShorterList
<1>8. Shape'
  BY PerformFacts DEF IInv, Shape, Perform, Steps, Last
<1>9. Stream'
  <2>1. CASE e.do \in {"publish", "republish"}
    BY <1>1, <1>2, <2>1, StoreKeeps DEF Perform
  <2>2. CASE e.do \notin {"publish", "republish"}
    BY <1>2, <2>2 DEF IInv, Stream, Perform, Tasks, TaskOK, Steps, Last, MaxRetries, MaxDeliver
  <2>3. QED
    BY <2>1, <2>2
<1>10. Log'
  <2>1. \A j \in 1..Len(stateLog') :
          EventOK(stateLog'[j]) /\ (stateLog'[j].kind = "park" => Before(done, stateLog'[j].inst, stateLog'[j].n))
    BY <1>1, <1>4 DEF IInv, Log
  <2>2. \A x : EventOK(x) => EventOK(x)'
    BY DEF Perform, EventOK, Suspends, Steps, Last
  <2>3. done' = done
    BY DEF Perform
  <2>4. QED
    BY <1>4, <2>1, <2>2, <2>3 DEF Log, Before
<1>11. Holders'
  BY <1>3, PerformFacts, HoldersKept
<1>12. Path'
  BY <1>1, <1>3 DEF IInv, Path, Perform, Before
<1>13. Compensated'
  <2> SUFFICES ASSUME NEW i \in Instances \ mishaps', NEW k \in Steps, Compensation(i, k) \in Tasks'
               PROVE  <<i, k>> \in done /\ \E n \in Steps : n > k /\ <<i, n>> \in dlq'
    BY DEF Compensated, Perform, Steps, Last
  <2>0. dlq \subseteq dlq' /\ mishaps \subseteq mishaps'
    BY <1>5 DEF Grows
  <2>1. CASE Compensation(i, k) \in Tasks
    BY <2>0, <2>1 DEF IInv, Compensated
  <2>2. CASE Compensation(i, k) \notin Tasks
    <3>1. e.do \in {"publish", "republish"} /\ e.msg = Compensation(i, k)
      BY <1>3, <2>2
    <3>2. e.msg.kind = "comp" /\ e.msg.inst = i /\ e.msg.n = k
      BY <3>1 DEF Compensation
    <3>3. e.do = "publish" /\ m.kind = "step" /\ k \in 1..(m.n - 1) /\ i = m.inst
      BY <1>0, <1>1, <3>1, <3>2 DEF EffectOK, Step
    <3>4. <<i, k>> \in done /\ m.n > k /\ m.n \in Steps
      <4>1. m.n \in Nat
        BY <1>0, <3>3, Constants DEF Steps
      <4>2. QED
        BY <1>0, <3>3, <4>1 DEF Before
    <3>5. Owes(w, i, k)
      <4>1. /\ e = todo[w][1] /\ Len(todo[w]) \in Nat \ {0} /\ e \in Effects
        BY <1>0, HeadFacts
      <4>2. e = Publish(Compensation(i, k))
        BY <3>1, <3>3, <4>1 DEF Publish, Effects
      <4>3. QED
        BY <4>1, <4>2 DEF Owes
    <3>6. <<i, m.n>> \in dlq
      <4>1. i \notin mishaps /\ e.do # "dlq" /\ i \in Instances
        BY <2>0, <3>3
      <4>2. Letters(w)
        BY DEF IInv
      <4>3. QED
        BY <3>5, <4>1, <4>2 DEF Letters
    <3>7. QED
      BY <2>0, <3>4, <3>6
  <2>3. QED
    BY <2>1, <2>2
<1>14. Final'
  <2> SUFFICES ASSUME NEW i \in Instances \ mishaps', NEW n \in Steps, <<i, n>> \in dlq'
               PROVE  LET f == FinalTry(i, n) IN
                      /\ f \in Tasks' /\ delivered'[f] >= 1
                      /\ delivered'[f] = 1 =>
                           \/ \A k \in 1..(n - 1) :
                                \/ Compensation(i, k) \in Tasks'
                                \/ \E v \in Workers : task'[v] = f /\ Owes(v, i, k)'
                           \/ f \notin settled /\ \A v \in Workers : task'[v] # f
    <3>1. Steps' = Steps /\ \A i, n : FinalTry(i, n)' = FinalTry(i, n)
      BY DEF Perform, FinalTry, Steps, Last, MaxRetries, Step
    <3>2. settled' = settled
      BY DEF Perform
    <3>3. QED
      BY <3>1, <3>2 DEF Final
  <2> DEFINE f == FinalTry(i, n)
  <2>0. i \notin mishaps /\ f # NoTask
    BY <1>5 DEF Grows, FinalTry, Step, NoTask
  <2>1. \A k, v : v \in Workers /\ task[v] = f /\ Owes(v, i, k) =>
          \/ task'[v] = f /\ Owes(v, i, k)'
          \/ Compensation(i, k) \in Tasks'
    <3> SUFFICES ASSUME NEW k, NEW v \in Workers, task[v] = f, Owes(v, i, k), v = w,
                        e = Publish(Compensation(i, k))
                 PROVE  Compensation(i, k) \in Tasks'
      BY OwesLess
    <3>1. e.do = "publish" /\ e.msg = Compensation(i, k) /\ e.msg.inst = i
      BY DEF Publish, Compensation
    <3>2. Accepted(e)
      BY <1>1, <1>2, <3>1
    <3>3. AddTask(Compensation(i, k))
      BY <3>1, <3>2 DEF Accepted
    <3>4. QED
      BY <3>3, AddTaskFacts DEF IInv
  <2>2. CASE <<i, n>> \in dlq
    <3>1. /\ f \in Tasks /\ delivered[f] >= 1
          /\ delivered[f] = 1 =>
               \/ \A k \in 1..(n - 1) :
                    \/ Compensation(i, k) \in Tasks
                    \/ \E v \in Workers : task[v] = f /\ Owes(v, i, k)
               \/ f \notin settled /\ \A v \in Workers : task[v] # f
      BY <2>0, <2>2 DEF IInv, Final
    <3>2. \A v \in Workers : task'[v] \in {task[v], NoTask}
      BY PerformFacts
    <3> HIDE DEF f
    <3>3. QED
      BY <1>3, <2>0, <2>1, <3>1, <3>2 DEF f
  <2>3. CASE <<i, n>> \notin dlq
    <3>1. e.do = "dlq" /\ i = m.inst /\ n = m.n /\ m = f
      BY <1>1, <1>2, <2>3
    <3>2. \A k \in 1..(n - 1) : Owes(w, i, k)
      BY <1>0, <3>1 DEF IInv, Letters
    <3>3. delivered[m] >= 1
      BY <1>0 DEF IInv, Holders
    <3> HIDE DEF f
    <3>4. QED
      BY <1>0, <1>3, <2>1, <3>1, <3>2, <3>3 DEF f
  <2>4. QED
    BY <2>2, <2>3
<1>15. QED
  BY <1>7, <1>8, <1>9, <1>10, <1>11, <1>12, <1>13, <1>14 DEF IInv

\* A retry that could not be queued turns into a nack of the attempt.
LEMMA RetryFails ==
  ASSUME IInv, NEW w \in Workers, Perform(w, NackInstead(w)), Head(todo[w]).do = "republish",
         Accepted(Head(todo[w])) \/ UNCHANGED <<delivered, ready, stateLog, dlq>>,
         UNCHANGED <<settled, timers, mishaps>>
  PROVE  IInv'
<1> DEFINE e == Head(todo[w])
           m == task[w]
           q == NackInstead(w)
<1>0. /\ todo[w] # <<>> /\ m \in Tasks /\ m # NoTask /\ EffectOK(done, m, e) /\ w \in alive
      /\ m \in TaskSet /\ setup \in Setups
  BY PerformFacts, HeadFacts
<1>1. TaskOK(e.msg) /\ (e.msg.kind = "step" => Before(done, e.msg.inst, e.msg.n))
  BY <1>0, HeadKinds
<1>2. MayStore(e.msg) /\ UNCHANGED <<stateLog, dlq>>
  BY DEF Accepted, MayStore
<1>3. /\ Tasks' = Tasks \/ Tasks' = Tasks \cup {e.msg}
      /\ \A x \in Tasks : delivered'[x] = delivered[x]
  BY <1>2, StoreFacts
<1>4. Grows
  BY <1>2, <1>3 DEF Grows, Perform, IInv, Log
<1>5. /\ q = <<Nack(m)>> /\ todo'[w] = q /\ task'[w] = m
      /\ \A v \in Workers \ {w} : task'[v] = task[v] /\ todo'[v] = todo[v]
  <2>1. q = <<Nack(m)>> /\ q # <<>>
    BY DEF NackInstead
  <2>2. QED
    BY <2>1, PerformFacts
<1>6. \A v \in Workers \ {w} : Worker(v)' /\ Letters(v)'
  BY <1>4, <1>5, WorkerKept DEF Perform
<1>7. \A v \in Workers : Registry(v)'
  BY <1>4, RegistryKept DEF Perform
<1>8. Worker(w)'
  <2>1. ListOK(done, m, <<Nack(m)>>)
    BY <1>0, AckOnly
  <2>2. \A x, y : EffectOK(done, x, y) => EffectOK(done, x, y)'
    BY <1>4, EffectKept
  <2>3. \A j \in 1..Len(q) : EffectOK(done, task[w], todo[w][j])'
    BY <1>5, <2>1, <2>2 DEF ListOK
  <2>4. todo'[w] \in Seq(Effects) /\ todo'[w] # <<>> /\ Order(todo'[w])
    BY <1>5, <2>1 DEF ListOK
  <2>5. Order(todo[w])'
    BY <2>4 DEF Order
  <2>6. QED
    BY <1>0, <1>3, <1>5, <2>3, <2>4, <2>5 DEF Worker, Perform
<1>9. \A i, k : ~Owes(w, i, k)'
  BY <1>5 DEF Owes, Publish, Nack
<1>10. Letters(w)'
  BY <1>5, <1>9 DEF Letters, Nack
<1>11. Shape'
  BY PerformFacts DEF IInv, Shape, Perform, Steps, Last
<1>12. Stream'
  BY <1>1, <1>2, StoreKeeps DEF Perform
<1>13. Log'
  BY <1>2 DEF IInv, Log, EventOK, Before, Suspends, Steps, Last, Perform
<1>14. Holders'
  BY <1>3, PerformFacts, HoldersKept
<1>15. Path'
  BY <1>1, <1>3 DEF IInv, Path, Perform, Before
<1>16. Compensated'
  <2>1. e.msg.kind = "step"
    BY <1>0 DEF EffectOK, Step
  <2>2. \A i, k : Compensation(i, k) \in Tasks' => Compensation(i, k) \in Tasks
    BY <1>3, <2>1 DEF Compensation
  <2>3. QED
    BY <1>2, <2>2 DEF IInv, Compensated, Perform, Steps, Last
<1>17. Final'
  <2>1. \A i, n : m # FinalTry(i, n)
    BY <1>0, Constants DEF EffectOK, FinalTry, Step, LastAttempt
  <2>2. \A v \in Workers : \A i, n, k : task[v] = FinalTry(i, n) /\ Owes(v, i, k) => Owes(v, i, k)'
    BY <1>5, <2>1 DEF Owes
  <2>3. \A v \in Workers : task'[v] = task[v]
    BY <1>5
  <2>4. UNCHANGED <<setup, settled, mishaps>>
    BY DEF Perform
  <2>5. QED
    BY <1>2, <1>3, <2>2, <2>3, <2>4 DEF IInv, Final, FinalTry, Steps, Last, MaxRetries
<1>18. QED
  BY <1>6, <1>7, <1>8, <1>10, <1>11, <1>12, <1>13, <1>14, <1>15, <1>16, <1>17 DEF IInv

LEMMA SendingKeeps == ASSUME IInv, NEW w \in Workers, SendOK(w) \/ SendFails(w) PROVE IInv'
<1>1. CASE SendOK(w)
  BY <1>1, SendKeeps DEF SendOK
<1>2. CASE SendFails(w) /\ Head(todo[w]).do = "republish"
  BY <1>2, RetryFails DEF SendFails
<1>3. CASE SendFails(w) /\ Head(todo[w]).do # "republish"
  <2>1. todo[w] # <<>> /\ Perform(w, Tail(todo[w])) /\ Head(todo[w]).do \in Sends
    BY <1>3 DEF SendFails, Perform
  <2>2. Head(todo[w]).msg.inst = task[w].inst
    BY <2>1, HeadKinds
  <2>3. QED
    BY <1>3, <2>1, <2>2, SendKeeps DEF SendFails
<1>4. QED
  BY <1>1, <1>2, <1>3

LEMMA TimerStarts == ASSUME IInv, NEW w \in Workers, StartTimer(w) PROVE IInv'
<1>0. /\ Perform(w, Tail(todo[w])) /\ Head(todo[w]).do = "timer" /\ todo[w] # <<>>
      /\ UNCHANGED <<delivered, ready, settled, stateLog, dlq, mishaps>>
  BY DEF StartTimer, stream, Perform
<1>1. /\ setup \in Setups /\ task[w].inst \in Instances /\ task[w].n \in Steps
  BY <1>0, HeadFacts, HeadKinds DEF TaskSet
<1>2. Grows
  BY <1>0 DEF Grows, Perform, Tasks, IInv, Log
<1>3. \A v \in Workers : Worker(v)' /\ Letters(v)' /\ Registry(v)'
  BY <1>0, <1>2, ShorterList
<1>4. Shape'
  <2>1. DOMAIN task' = Workers /\ DOMAIN todo' = Workers
    BY <1>0, PerformFacts
  <2>2. timers' = timers \cup {[by |-> w, inst |-> task[w].inst, n |-> task[w].n]}
    BY DEF StartTimer
  <2>3. Steps' = Steps
    BY <1>0 DEF Perform, Steps, Last
  <2>4. \A t \in timers : t.inst \in Instances /\ t.n \in Steps
    BY DEF IInv, Shape
  <2>5. \A t \in timers' : t.inst \in Instances /\ t.n \in Steps'
    BY <1>1, <2>2, <2>3, <2>4
  <2>6. QED
    BY <1>0, <2>1, <2>5 DEF IInv, Shape, Perform
<1>5. Stream' /\ Log' /\ Path'
  BY <1>0 DEF IInv, Stream, Log, Path, Perform, Tasks, TaskOK, EventOK, Before, Suspends,
              Steps, Last, MaxRetries, MaxDeliver
<1>6. Holders'
  BY <1>0, PerformFacts, HoldersKept
<1>7. Compensated'
  BY <1>0 DEF IInv, Compensated, Perform, Tasks, Steps, Last
<1>8. Final'
  <2>1. \A v \in Workers : \A i, k : Owes(v, i, k) => Owes(v, i, k)' /\ task'[v] = task[v]
    <3>1. \A i, k : Head(todo[w]) # Publish(Compensation(i, k))
      BY <1>0 DEF Publish
    <3>2. QED
      BY <1>0, <3>1, OwesLess
  <2>2. \A v \in Workers : task'[v] \in {task[v], NoTask}
    BY <1>0, PerformFacts
  <2>3. \A i, n : FinalTry(i, n) # NoTask
    BY DEF FinalTry, Step, NoTask
  <2>4. UNCHANGED <<setup, done>> /\ Tasks' = Tasks
    BY <1>0 DEF Perform, Tasks
  <2>5. QED
    BY <1>0, <2>1, <2>2, <2>3, <2>4 DEF IInv, Final, FinalTry, Steps, Last, MaxRetries
<1>9. QED
  BY <1>3, <1>4, <1>5, <1>6, <1>7, <1>8 DEF IInv

\* The worker is rid of its task, and the broker settles it or has it back.
LEMMA TaskEnds ==
  ASSUME IInv, NEW w \in Workers, Perform(w, Tail(todo[w])),
         \/ /\ Head(todo[w]).do = "ack"
            /\ settled' = settled \cup {task[w]} /\ ready' = ready \ {task[w]}
         \/ Head(todo[w]).do = "nack" /\ settled' = settled /\ Redeliver(task[w]),
         UNCHANGED <<delivered, stateLog, dlq, timers, mishaps>>
  PROVE  IInv'
<1> DEFINE m == task[w]
<1>0. /\ todo[w] # <<>> /\ Tail(todo[w]) = <<>> /\ Len(todo[w]) = 1
      /\ todo[w][1] = Head(todo[w]) /\ m \in Tasks /\ m # NoTask
  BY HeadFacts, PerformFacts
<1>1. /\ task'[w] = NoTask /\ \A v \in Workers \ {w} : task'[v] = task[v] /\ todo'[v] = todo[v]
      /\ Tasks' = Tasks
  BY <1>0, PerformFacts DEF Tasks
<1>2. Grows
  BY <1>1 DEF Grows, Perform, IInv, Log
<1>3. \A v \in Workers : Worker(v)' /\ Letters(v)' /\ Registry(v)'
  BY <1>2, ShorterList
<1>4. Shape'
  BY PerformFacts DEF IInv, Shape, Perform, Steps, Last
<1>5. Stream'
  <2>1. MaxDeliver \in Nat
    BY Constants DEF IInv, Shape
  <2>2. \A x \in Tasks : TaskOK(x)' /\ delivered[x] \in 0..MaxDeliver
    BY DEF IInv, Stream, TaskOK, Perform, Steps, Last, MaxRetries
  <2>3. /\ ready' \subseteq Tasks /\ settled' \subseteq Tasks /\ ready' \cap settled' = {}
        /\ \A x \in ready' : delivered[x] < MaxDeliver
    BY <1>0, <2>1, <2>2 DEF IInv, Stream, Redeliver
  <2>4. QED
    BY <1>1, <2>2, <2>3 DEF Stream, Perform, MaxDeliver, MaxRetries
<1>6. Log' /\ Path'
  BY <1>1 DEF IInv, Log, Path, Perform, EventOK, Before, Suspends, Steps, Last
<1>7. Holders'
  BY <1>0, <1>1 DEF IInv, Holders
<1>8. Compensated'
  BY <1>1 DEF IInv, Compensated, Perform, Steps, Last
<1>9. Final'
  <2>1. \A i, k : ~Owes(w, i, k)
    BY <1>0 DEF Owes, Publish
  <2>2. \A v \in Workers : \A i, k : Owes(v, i, k) => v # w /\ Owes(v, i, k)' /\ task'[v] = task[v]
    BY <1>1, <2>1 DEF Owes
  <2>3. \A i, n : FinalTry(i, n) # NoTask /\ FinalTry(i, n)' = FinalTry(i, n)
    BY DEF FinalTry, Step, NoTask, MaxRetries, Perform
  <2> SUFFICES ASSUME NEW i \in Instances \ mishaps, NEW n \in Steps, <<i, n>> \in dlq,
                      delivered[FinalTry(i, n)] = 1
               PROVE  \/ \A k \in 1..(n - 1) :
                           \/ Compensation(i, k) \in Tasks
                           \/ \E v \in Workers : task'[v] = FinalTry(i, n) /\ Owes(v, i, k)'
                      \/ /\ FinalTry(i, n) \notin settled'
                         /\ \A v \in Workers : task'[v] # FinalTry(i, n)
    BY <1>1, <2>3 DEF IInv, Final, Perform, Steps, Last
  <2>4. CASE m = FinalTry(i, n)
    <3>1. \A v \in Workers \ {w} : task[v] # m
      BY <1>0, <2>4 DEF IInv, Holders
    <3>2. QED
      BY <2>1, <2>4, <3>1 DEF IInv, Final
  <2>5. CASE m # FinalTry(i, n)
    BY <1>1, <2>2, <2>3, <2>5 DEF IInv, Final
  <2>6. QED
    BY <2>4, <2>5
<1>10. QED
  BY <1>3, <1>4, <1>5, <1>6, <1>7, <1>8, <1>9 DEF IInv

LEMMA ProcessKeeps == ASSUME IInv, NEW w \in Workers, ProcessStep(w) PROVE IInv'
  BY TakingKeeps, SendingKeeps, TimerStarts, TaskEnds DEF ProcessStep, SendAck, SendNack

-----------------------------------------------------------------------------
(* The other steps.                                                        *)

LEMMA SyncKeeps == ASSUME IInv, NEW w \in Workers, StateSync(w) PROVE IInv'
<1> DEFINE ev == stateLog[synced[w] + 1]
           old == suspended[w]
<1>1. /\ synced[w] \in Nat /\ synced' = [synced EXCEPT ![w] = @ + 1]
      /\ synced'[w] = synced[w] + 1 /\ synced' \in [Workers -> Nat]
      /\ \A v \in Workers \ {w} : synced'[v] = synced[v]
  BY DEF StateSync, IInv, Shape
<1>2. /\ UNCHANGED <<setup, delivered, ready, settled, stateLog, dlq, alive, task, todo,
                     nackedSeqs, resumeSeq, timers, done, mishaps>>
      /\ synced[w] < Len(stateLog)
  BY DEF StateSync, stream
<1>3. Grows
  BY <1>2 DEF Grows, Tasks, IInv, Log
<1>4. synced'[w] <= Len(stateLog') /\ synced[w] + 1 \in 1..Len(stateLog) /\ ev \in EventSet
  BY <1>1, <1>2 DEF IInv, Log
<1>5. /\ Registry(w)' /\ DOMAIN suspended' = Workers
      /\ \A v \in Workers \ {w} : suspended'[v] = suspended[v]
  <2>1. CASE ev.kind = "remove"
    <3>1. suspended' = [suspended EXCEPT ![w] = Without(@, ev.inst)]
      BY <2>1 DEF StateSync
    <3>2. QED
      BY <1>2, <1>4, <3>1, RegistryShrinks
  <2>2. CASE ev.kind # "remove" /\ ev.inst \in DOMAIN old
    <3>1. DOMAIN suspended = Workers /\ suspended' = [suspended EXCEPT ![w] = suspended[w]]
      BY <2>2 DEF StateSync, IInv, Shape
    <3>2. Registry(w)
      BY DEF IInv
    <3>3. \A x \in DOMAIN old : Suspends(old[x]) /\ Before(done', x, old[x])
      BY <1>2, <3>2 DEF Registry
    <3>4. DOMAIN old \subseteq Instances
      BY <3>2 DEF Registry
    <3> HIDE DEF ev, old
    <3>5. QED
      BY <1>2, <1>4, <3>1, <3>3, <3>4, RegistryIs DEF old
  <2>3. CASE ev.kind # "remove" /\ ev.inst \notin DOMAIN old
    <3>1. suspended' = [suspended EXCEPT ![w] = With(@, ev.inst, ev.n)]
      BY <2>3 DEF StateSync
    <3>2. ev.kind = "park" /\ ev.inst \in Instances
      BY <1>4, <2>3 DEF EventSet
    <3>3. Suspends(ev.n) /\ Before(done', ev.inst, ev.n)
      BY <1>2, <1>4, <3>2 DEF IInv, Log, EventOK
    <3> HIDE DEF ev
    <3>4. QED
      BY <1>2, <1>4, <3>1, <3>2, <3>3, RegistryGrows
  <2>4. QED
    BY <2>1, <2>2, <2>3
<1>6. \A v \in Workers : Worker(v)' /\ Letters(v)'
  BY <1>2, <1>3, WorkerKept
<1>7. \A v \in Workers \ {w} : Registry(v)'
  BY <1>1, <1>3, <1>5, RegistryKept
<1>8. Shape'
  BY <1>1, <1>2, <1>5 DEF IInv, Shape, Steps, Last
<1>9. Stream' /\ Log' /\ Path' /\ Holders'
  BY <1>2 DEF IInv, Stream, Log, Path, Holders, Tasks, TaskOK, EventOK, Before, Suspends,
              Steps, Last, MaxRetries, MaxDeliver
<1>10. Compensated' /\ Final'
  BY <1>2 DEF IInv, Compensated, Final, FinalTry, Owes, Tasks, Steps, Last, MaxRetries
<1>11. QED
  BY <1>5, <1>6, <1>7, <1>8, <1>9, <1>10 DEF IInv

LEMMA CrashKeeps == ASSUME IInv, NEW w \in Workers, Crash(w) PROVE IInv'
<1>1. /\ UNCHANGED <<setup, delivered, settled, stateLog, dlq, synced, resumeSeq, done, mishaps>>
      /\ Tasks' = Tasks /\ alive' = alive \ {w} /\ timers' \subseteq timers
  BY DEF Crash, history, Tasks
<1>2. /\ DOMAIN task' = Workers /\ DOMAIN todo' = Workers /\ DOMAIN suspended' = Workers
      /\ task'[w] = NoTask /\ todo'[w] = <<>> /\ suspended'[w] = <<>>
      /\ \A v \in Workers \ {w} :
           task'[v] = task[v] /\ todo'[v] = todo[v] /\ suspended'[v] = suspended[v]
  BY DEF Crash, IInv, Shape
<1>3. Grows
  BY <1>1 DEF Grows, IInv, Log
<1>4. \A v \in Workers \ {w} : Worker(v)' /\ Letters(v)' /\ Registry(v)'
  BY <1>1, <1>2, <1>3, WorkerKept, RegistryKept
<1>5. Worker(w)' /\ Letters(w)' /\ Registry(w)'
  BY <1>1, <1>2 DEF Worker, Letters, Registry, Order, Owes, NoTask, IInv
<1>6. Shape'
  BY <1>1, <1>2 DEF Crash, IInv, Shape, Steps, Last
<1>7. Stream'
  <2>1. MaxDeliver \in Nat
    BY Constants DEF IInv, Shape
  <2>2. task[w] \in Tasks \cup {NoTask}
    BY DEF IInv, Worker
  <2>3. \A x \in Tasks : TaskOK(x)' /\ delivered[x] \in 0..MaxDeliver
    BY <1>1 DEF IInv, Stream, TaskOK, Steps, Last, MaxRetries
  <2>4. /\ ready' \subseteq Tasks /\ ready' \cap settled = {}
        /\ \A x \in ready' : delivered[x] < MaxDeliver
    BY <2>1, <2>2, <2>3 DEF Crash, IInv, Stream, Redeliver
  <2>5. QED
    BY <1>1, <2>3, <2>4 DEF IInv, Stream, MaxDeliver, MaxRetries
<1>8. Log' /\ Path'
  BY <1>1 DEF IInv, Log, Path, EventOK, Before, Suspends, Steps, Last
<1>9. Holders'
  BY <1>1, <1>2 DEF IInv, Holders
<1>10. Compensated'
  BY <1>1 DEF IInv, Compensated, Steps, Last
<1>11. Final'
  <2>1. \A v \in Workers \ {w} : \A i, k : Owes(v, i, k) => Owes(v, i, k)'
    BY <1>2 DEF Owes
  <2>2. \A i, n : FinalTry(i, n) # NoTask /\ FinalTry(i, n)' = FinalTry(i, n)
    BY <1>1 DEF FinalTry, Step, NoTask, MaxRetries
  <2> SUFFICES ASSUME NEW i \in Instances \ mishaps, NEW n \in Steps, <<i, n>> \in dlq,
                      delivered[FinalTry(i, n)] = 1
               PROVE  \/ \A k \in 1..(n - 1) :
                           \/ Compensation(i, k) \in Tasks
                           \/ \E v \in Workers : task'[v] = FinalTry(i, n) /\ Owes(v, i, k)'
                      \/ /\ FinalTry(i, n) \notin settled
                         /\ \A v \in Workers : task'[v] # FinalTry(i, n)
    BY <1>1, <2>2 DEF IInv, Final, Steps, Last
  <2>3. CASE task[w] = FinalTry(i, n)
    <3>1. FinalTry(i, n) \notin settled /\ \A v \in Workers \ {w} : task[v] # FinalTry(i, n)
      BY <2>2, <2>3 DEF IInv, Holders
    <3>2. QED
      BY <1>2, <2>2, <3>1
  <2>4. CASE task[w] # FinalTry(i, n)
    BY <1>2, <2>1, <2>2, <2>4 DEF IInv, Final
  <2>5. QED
    BY <2>3, <2>4
<1>12. QED
  BY <1>4, <1>5, <1>6, <1>7, <1>8, <1>9, <1>10, <1>11 DEF IInv

LEMMA AckWaitKeeps == ASSUME IInv, NEW w \in Workers, AckWaitEnds(w) PROVE IInv'
<1>1. /\ UNCHANGED <<setup, delivered, settled, stateLog, dlq, alive, task, todo, suspended,
                     nackedSeqs, synced, resumeSeq, timers, done, mishaps>>
      /\ Tasks' = Tasks
  BY DEF AckWaitEnds, workers, history, Tasks
<1>2. Grows
  BY <1>1 DEF Grows, IInv, Log
<1>3. \A v \in Workers : Worker(v)' /\ Letters(v)' /\ Registry(v)'
  BY <1>1, <1>2, WorkerKept, RegistryKept
<1>4. Stream'
  <2>1. /\ task[w] \in Tasks /\ delivered[task[w]] < MaxDeliver
        /\ ready' \subseteq ready \cup {task[w]} /\ task[w] \notin settled
    BY DEF AckWaitEnds, IInv, Worker, Redeliver
  <2>2. QED
    BY <1>1, <2>1 DEF IInv, Stream, TaskOK, Steps, Last, MaxRetries, MaxDeliver
<1>5. Shape' /\ Log' /\ Path' /\ Holders'
  BY <1>1 DEF IInv, Shape, Log, Path, Holders, EventOK, Before, Suspends, Steps, Last
<1>6. Compensated' /\ Final'
  BY <1>1 DEF IInv, Compensated, Final, FinalTry, Owes, Steps, Last, MaxRetries
<1>7. QED
  BY <1>3, <1>4, <1>5, <1>6 DEF IInv

LEMMA StutterKeeps == ASSUME IInv, UNCHANGED vars PROVE IInv'
<1>1. /\ UNCHANGED <<setup, delivered, ready, settled, stateLog, dlq, alive, task, todo, suspended,
                     nackedSeqs, synced, resumeSeq, timers, done, mishaps>>
      /\ Tasks' = Tasks
  BY DEF vars, Tasks
<1>2. Grows
  BY <1>1 DEF Grows, IInv, Log
<1>3. \A v \in Workers : Worker(v)' /\ Letters(v)' /\ Registry(v)'
  BY <1>1, <1>2, WorkerKept, RegistryKept
<1>4. Shape' /\ Stream' /\ Log' /\ Path' /\ Holders'
  BY <1>1 DEF IInv, Shape, Stream, Log, Path, Holders, TaskOK, EventOK, Before, Suspends,
              Steps, Last, MaxRetries, MaxDeliver
<1>5. Compensated' /\ Final'
  BY <1>1 DEF IInv, Compensated, Final, FinalTry, Owes, Steps, Last, MaxRetries
<1>6. QED
  BY <1>3, <1>4, <1>5 DEF IInv

LEMMA NextKeeps == ASSUME IInv, [Next]_vars PROVE IInv'
<1>1. CASE \E i \in Instances : Trigger(i) \/ Cancel(i) \/ \E w \in Workers : Resume(w, i)
  BY <1>1, ClientKeeps
<1>2. CASE \E t \in timers : TimerFires(t)
  BY <1>2, TimerKeeps
<1>3. CASE \E w \in Workers : ProcessStep(w) \/ StateSync(w) \/ Crash(w) \/ AckWaitEnds(w)
  BY <1>3, ProcessKeeps, SyncKeeps, CrashKeeps, AckWaitKeeps
<1>4. QED
  BY <1>1, <1>2, <1>3, StutterKeeps DEF Next

LEMMA Invariant == Spec => []IInv
<1>1. Init => IInv
  BY InitOK
<1>2. IInv /\ [Next]_vars => IInv'
  BY NextKeeps
<1>3. QED
  BY <1>1, <1>2, PTL DEF Spec

-----------------------------------------------------------------------------
(* What follows.                                                           *)

\* No task is in two states at once, none is delivered more often than MaxDeliver
\* or carries a step or an attempt there is not, a worker holds a task exactly as
\* long as it owes something, registries hold steps of the workflow
\* (workflow.go: processLoop, stateSync).
THEOREM TypeCorrect == Spec => []TypeOK
<1>1. IInv => TypeOK
  <2> SUFFICES ASSUME IInv PROVE TypeOK
    OBVIOUS
  <2>1. \A w \in Workers :
          /\ task[w] = NoTask <=> todo[w] = <<>>
          /\ task[w] \in Tasks \cup {NoTask}
          /\ synced[w] \in 0..Len(stateLog)
    BY DEF IInv, Shape, Worker, Registry, Log
  <2>2. \A w \in Workers :
          DOMAIN suspended[w] \subseteq Instances /\ Range(suspended[w]) \subseteq Steps
    BY DEF IInv, Registry, Range, Suspends
  <2>3. QED
    BY <2>1, <2>2 DEF IInv, TypeOK, Stream, TaskOK
<1>2. QED
  BY <1>1, Invariant, PTL

\* handleStepError: whatever is compensated had succeeded before a later step failed
\* for good, and once the final attempt is acked, having been delivered once, every
\* step before the failed one is being compensated.
THEOREM CompensationsExact == Spec => []CompensatesExactly
<1>1. IInv => CompensatesExactly
  <2> SUFFICES ASSUME IInv, NEW i \in Instances \ mishaps
               PROVE  /\ \A k \in Steps : Compensation(i, k) \in Tasks =>
                           <<i, k>> \in done /\ \E n \in Steps : n > k /\ <<i, n>> \in dlq
                      /\ \A n \in Steps :
                           <<i, n>> \in dlq /\ FinalTry(i, n) \in settled
                             /\ delivered[FinalTry(i, n)] = 1 =>
                             \A k \in 1..(n - 1) : Compensation(i, k) \in Tasks
    BY DEF CompensatesExactly, FinalTry
  <2>1. \A k \in Steps : Compensation(i, k) \in Tasks =>
          <<i, k>> \in done /\ \E n \in Steps : n > k /\ <<i, n>> \in dlq
    BY DEF IInv, Compensated
  <2>2. SUFFICES ASSUME NEW n \in Steps, <<i, n>> \in dlq, FinalTry(i, n) \in settled,
                        delivered[FinalTry(i, n)] = 1, NEW k \in 1..(n - 1)
                 PROVE  Compensation(i, k) \in Tasks
    BY <2>1
  <2>3. \A w \in Workers : task[w] # FinalTry(i, n)
    <3>1. FinalTry(i, n) # NoTask
      BY DEF FinalTry, Step, NoTask
    <3>2. QED
      BY <2>2, <3>1 DEF IInv, Holders
  <2>4. QED
    BY <2>2, <2>3 DEF IInv, Final
<1>2. QED
  BY <1>1, Invariant, PTL

-----------------------------------------------------------------------------
(* No instance is lost: the second inductive invariant.                    *)

Content(q) == {q[j] : j \in 1..Len(q)}
Owing(w) == Content(todo[w])
AllOwed  == UNION {Owing(w) : w \in Workers}
Logged(ev) == \E j \in 1..Len(stateLog) : stateLog[j] = ev

\* A step that is done leads on to the next: its task is stored, or owed (in O).
Onward(i, n, O) == n = Last \/ Step(i, n + 1, 0) \in Tasks \/ Publish(Step(i, n + 1, 0)) \in O

\* What becomes of a step task that is not nacked.
Fate(m, O) ==
  \/ <<m.inst, m.n>> \in done /\ Onward(m.inst, m.n, O)
  \/ Step(m.inst, m.n, m.k + 1) \in Tasks \/ Republish(Step(m.inst, m.n, m.k + 1)) \in O
  \/ <<m.inst, m.n>> \in dlq \/ DeadLetter(m) \in O
  \/ Logged(Park(m.inst, m.n)) \/ Announce(Park(m.inst, m.n)) \in O

\* Why a suspension may be removed from the registries.
Removable(i, O) ==
  \/ CancelTask(i) \in Tasks \/ i \in over \cup mishaps
  \/ \E n \in Steps : Suspends(n) /\ <<i, n>> \in done /\ Onward(i, n, O)

Held(w) ==
  /\ task[w] # NoTask /\ task[w].kind = "step" /\ task[w].inst \notin mishaps =>
       Nack(task[w]) \in Owing(w) \/ Fate(task[w], Owing(w))
  /\ \A i \in Instances : Announce(Remove(i)) \in Owing(w) => Removable(i, Owing(w))

\* One step that suspends, and no cancelling where workers die.
Sheltered ==
  /\ \A m, n \in Steps : Suspends(m) /\ Suspends(n) => m = n
  /\ ~setup.cancels \/ crashes = 0

\* A suspension that a living worker knew of is in its registry, unless the
\* instance has ended or goes on.
Pool(w) == IF setup.cancels THEN AllOwed ELSE Owing(w)
Kept(w) ==
  \A p \in 1..synced[w] : LET ev == stateLog[p] IN
    ev.kind = "park" =>
      \/ ev.inst \in over \cup mishaps \cup DOMAIN suspended[w]
      \/ /\ <<ev.inst, ev.n>> \in done
         /\ Onward(ev.inst, ev.n, Pool(w))

NInv ==
  /\ crashes \in Nat
  /\ \A m \in Tasks : m.kind = "cancel" => m = CancelTask(m.inst) /\ setup.cancels
  /\ \A m \in settled : m.kind = "step" /\ m.inst \notin mishaps => Fate(m, {})
  /\ \A i \in Instances \ mishaps : \A n \in Steps :
       <<i, n>> \in done /\ crashes = 0 => Onward(i, n, AllOwed)
  /\ \A i \in Instances : Logged(Remove(i)) => Removable(i, {})
  /\ \A w \in Workers : Held(w)
  /\ Sheltered => \A w \in alive : Kept(w)

\* The histories grow, and the state stream at its end.
Extends ==
  /\ Grows /\ over \subseteq over' /\ crashes \in Nat /\ crashes' \in Nat /\ crashes <= crashes'
  /\ \A j \in 1..Len(stateLog) : stateLog'[j] = stateLog[j]

\* What is owed in O is owed in P, or stored, or an error of the instance was discarded.
Carried(O, P) ==
  \A e \in O \ P :
    /\ e.do = "publish" => e.msg \in Tasks' \/ e.msg.inst \in mishaps'
    /\ e.do = "republish" => e.msg \in Tasks'
    /\ \A ev : e = Announce(ev) => Logged(ev)' \/ ev.inst \in mishaps'
    /\ e.do = "dlq" => <<e.msg.inst, e.msg.n>> \in dlq' \/ e.msg.inst \in mishaps'

LEMMA OnwardKept ==
  ASSUME Extends, NEW O, NEW P, Carried(O, P), NEW i, NEW n, Onward(i, n, O), i \notin mishaps'
  PROVE  Onward(i, n, P)'
<1>1. Last' = Last /\ Tasks \subseteq Tasks'
  BY DEF Extends, Grows, Last
<1>2. CASE Publish(Step(i, n + 1, 0)) \in O \ P
  <2>1. /\ Publish(Step(i, n + 1, 0)).do = "publish"
        /\ Publish(Step(i, n + 1, 0)).msg = Step(i, n + 1, 0) /\ Step(i, n + 1, 0).inst = i
    BY DEF Publish, Step
  <2>2. Step(i, n + 1, 0) \in Tasks'
    BY <1>2, <2>1 DEF Carried
  <2>3. QED
    BY <2>2 DEF Onward
<1>3. CASE Publish(Step(i, n + 1, 0)) \notin O \ P
  BY <1>1, <1>3 DEF Onward
<1>4. QED
  BY <1>2, <1>3

LEMMA LoggedKept == ASSUME Extends, Log, NEW ev, Logged(ev) PROVE Logged(ev)'
<1>1. Len(stateLog) \in Nat /\ Len(stateLog) <= Len(stateLog')
  BY DEF Extends, Grows, Log
<1>2. PICK j \in 1..Len(stateLog) : stateLog[j] = ev
  BY DEF Logged
<1>3. stateLog'[j] = ev
  BY <1>2 DEF Extends
<1>4. j \in 1..Len(stateLog')
  BY <1>1 DEF Extends, Grows
<1>5. QED
  BY <1>3, <1>4 DEF Logged

LEMMA FateKept ==
  ASSUME Extends, Log, NEW O, NEW P, Carried(O, P), NEW m, Fate(m, O), m.inst \notin mishaps'
  PROVE  Fate(m, P)'
<1> DEFINE r == Step(m.inst, m.n, m.k + 1)
           ev == Park(m.inst, m.n)
<1>0. Grows
  BY DEF Extends
<1>1. CASE <<m.inst, m.n>> \in done /\ Onward(m.inst, m.n, O)
  <2>1. Onward(m.inst, m.n, P)'
    BY <1>1, OnwardKept
  <2>2. QED
    BY <1>0, <1>1, <2>1 DEF Fate, Grows
<1>2. CASE r \in Tasks \/ Republish(r) \in O
  <2>1. Republish(r).do = "republish" /\ Republish(r).msg = r
    BY DEF Republish
  <2>2. r \in Tasks' \/ Republish(r) \in P
    BY <1>0, <1>2, <2>1 DEF Carried, Grows
  <2>3. QED
    BY <2>2 DEF Fate
<1>3. CASE <<m.inst, m.n>> \in dlq \/ DeadLetter(m) \in O
  <2>1. DeadLetter(m).do = "dlq" /\ DeadLetter(m).msg = m
    BY DEF DeadLetter
  <2>2. <<m.inst, m.n>> \in dlq' \/ DeadLetter(m) \in P
    BY <1>0, <1>3, <2>1 DEF Carried, Grows
  <2>3. QED
    BY <2>2 DEF Fate
<1>4. CASE Logged(ev) \/ Announce(ev) \in O
  <2>1. ev.inst = m.inst
    BY DEF Park
  <2>2. Logged(ev) => Logged(ev)'
    BY LoggedKept
  <2>3. Announce(ev) \in O \ P => Logged(ev)'
    BY <2>1 DEF Carried
  <2>4. QED
    BY <1>4, <2>2, <2>3 DEF Fate
<1>5. QED
  BY <1>1, <1>2, <1>3, <1>4 DEF Fate

LEMMA RemovableKept ==
  ASSUME Extends, NEW O, NEW P, Carried(O, P), NEW i, Removable(i, O)
  PROVE  Removable(i, P)'
<1>1. Grows /\ over \subseteq over'
  BY DEF Extends
<1>2. CASE CancelTask(i) \in Tasks \/ i \in over \cup mishaps'
  BY <1>1, <1>2 DEF Removable, Grows
<1>3. CASE i \notin mishaps' /\ \E n \in Steps : Suspends(n) /\ <<i, n>> \in done /\ Onward(i, n, O)
  <2>1. PICK n \in Steps : Suspends(n) /\ <<i, n>> \in done /\ Onward(i, n, O)
    BY <1>3
  <2>2. Onward(i, n, P)'
    BY <1>3, <2>1, OnwardKept
  <2>3. Suspends(n)' /\ n \in Steps' /\ <<i, n>> \in done'
    BY <1>1, <2>1 DEF Grows, Suspends, Steps, Last
  <2>4. QED
    BY <2>2, <2>3 DEF Removable
<1>4. QED
  BY <1>1, <1>2, <1>3 DEF Removable, Grows

\* Nothing owed is forgotten when what is owed grows.
LEMMA CarriedMore == \A O, P : O \subseteq P => Carried(O, P)
  BY DEF Carried

-----------------------------------------------------------------------------
(* The parts of the invariant, one by one.                                 *)

LEMMA HeldKept ==
  ASSUME IInv, Extends, NEW w \in Workers, Held(w), task'[w] = task[w], todo'[w] = todo[w]
  PROVE  Held(w)'
<1>1. Owing(w)' = Owing(w) /\ mishaps \subseteq mishaps' /\ Log
  BY DEF Owing, Content, Extends, Grows, IInv
<1>2. Carried(Owing(w), Owing(w))
  BY CarriedMore
<1>3. \A m, O : Fate(m, O) /\ Carried(O, O) /\ m.inst \notin mishaps' => Fate(m, O)'
  BY <1>1, FateKept
<1>4. \A i, O : Removable(i, O) /\ Carried(O, O) => Removable(i, O)'
  BY RemovableKept
<1>5. task[w] # NoTask /\ task[w].kind = "step" /\ task[w].inst \notin mishaps' =>
        Nack(task[w]) \in Owing(w) \/ Fate(task[w], Owing(w))'
  BY <1>1, <1>2, <1>3 DEF Held
<1>6. \A i \in Instances : Announce(Remove(i)) \in Owing(w) => Removable(i, Owing(w))'
  BY <1>1, <1>2, <1>4 DEF Held
<1>7. QED
  BY <1>1, <1>5, <1>6 DEF Held

\* What a registry keeps goes with what is owed.
LEMMA KeptKept ==
  ASSUME IInv, Extends, NEW w \in Workers, Kept(w), suspended'[w] = suspended[w],
         synced'[w] = synced[w], NEW P, P = Pool(w)', Carried(Pool(w), P)
  PROVE  Kept(w)'
<1>1. /\ over \cup mishaps \subseteq (over \cup mishaps)' /\ done \subseteq done'
      /\ synced[w] \in Nat /\ synced[w] <= Len(stateLog) /\ Len(stateLog) \in Nat
  BY DEF Extends, Grows, IInv, Shape, Registry, Log
<1>2. \A p \in 1..synced[w] : stateLog'[p] = stateLog[p]
  BY <1>1 DEF Extends
<1>3. \A i, n : Onward(i, n, Pool(w)) /\ i \notin mishaps' => Onward(i, n, P)'
  BY OnwardKept
<1>4. \A i, n : Onward(i, n, Pool(w)) /\ i \notin mishaps' => Onward(i, n, Pool(w))'
  BY <1>3
<1>5. \A i, n :
        \/ i \in over \cup mishaps \cup DOMAIN suspended[w]
        \/ <<i, n>> \in done /\ Onward(i, n, Pool(w))
        => \/ i \in (over \cup mishaps \cup DOMAIN suspended[w])'
           \/ <<i, n>> \in done' /\ Onward(i, n, Pool(w))'
  BY <1>1, <1>4
<1>6. \A p \in 1..synced[w] : stateLog[p].kind = "park" =>
        LET i == stateLog[p].inst
            n == stateLog[p].n
        IN \/ i \in over \cup mishaps \cup DOMAIN suspended[w]
           \/ <<i, n>> \in done /\ Onward(i, n, Pool(w))
  BY DEF Kept
<1>7. \A p \in 1..synced[w] : stateLog'[p].kind = "park" =>
        \E i, n : /\ i = stateLog'[p].inst /\ n = stateLog'[p].n
                 /\ \/ i \in (over \cup mishaps \cup DOMAIN suspended[w])'
                    \/ <<i, n>> \in done' /\ Onward(i, n, Pool(w))'
  <2> SUFFICES ASSUME NEW p \in 1..synced[w], stateLog'[p].kind = "park"
               PROVE  \E i, n : /\ i = stateLog'[p].inst /\ n = stateLog'[p].n
                               /\ \/ i \in (over \cup mishaps \cup DOMAIN suspended[w])'
                                  \/ <<i, n>> \in done' /\ Onward(i, n, Pool(w))'
    OBVIOUS
  <2>1. PICK i, n : /\ i = stateLog[p].inst /\ n = stateLog[p].n /\ stateLog'[p] = stateLog[p]
                    /\ \/ i \in over \cup mishaps \cup DOMAIN suspended[w]
                       \/ <<i, n>> \in done /\ Onward(i, n, Pool(w))
    BY <1>2, <1>6
  <2>2. \/ i \in (over \cup mishaps \cup DOMAIN suspended[w])'
        \/ <<i, n>> \in done' /\ Onward(i, n, Pool(w))'
    BY <1>5, <2>1
  <2>3. QED
    BY <2>1, <2>2
<1>8. QED
  BY <1>7 DEF Kept

\* What the worker that has performed its first effect still owes.
LEMMA OwingLess ==
  ASSUME IInv, NEW w \in Workers, Perform(w, Tail(todo[w]))
  PROVE  /\ Owing(w) \subseteq Owing(w)' \cup {Head(todo[w])} /\ Owing(w)' \subseteq Owing(w)
         /\ \A v \in Workers \ {w} : Owing(v)' = Owing(v)
         /\ Head(todo[w]) \in Owing(w)
         /\ Head(todo[w]).do \in {"ack", "nack"} <=> todo'[w] = <<>>
         /\ todo'[w] # <<>> => task'[w] = task[w]
         /\ todo'[w] = <<>> => task'[w] = NoTask /\ Owing(w) = {Head(todo[w])}
<1> DEFINE q == todo[w]
           e == Head(q)
<1>1. /\ Len(q) \in Nat \ {0} /\ e = q[1] /\ Len(Tail(q)) = Len(q) - 1
      /\ \A j \in 1..Len(Tail(q)) : Tail(q)[j] = q[j + 1]
      /\ Tail(q) = <<>> <=> Len(q) = 1
      /\ e.do \in {"ack", "nack"} <=> Tail(q) = <<>>
  BY HeadFacts, PerformFacts
<1>2. /\ todo'[w] = Tail(q) /\ task'[w] = IF Tail(q) = <<>> THEN NoTask ELSE task[w]
      /\ \A v \in Workers \ {w} : todo'[v] = todo[v]
  BY PerformFacts
<1>3. \A v \in Workers \ {w} : Owing(v)' = Owing(v)
  BY <1>2 DEF Owing, Content
<1>4. Owing(w)' = {Tail(q)[j] : j \in 1..Len(Tail(q))}
  BY <1>2 DEF Owing, Content
<1> HIDE DEF e
<1>5. ASSUME NEW x \in Owing(w), x # e PROVE x \in Owing(w)'
  <2>1. PICK j \in 1..Len(q) : x = q[j]
    BY DEF Owing, Content
  <2>2. j # 1
    BY <1>1, <1>5, <2>1
  <2>3. j - 1 \in 1..Len(Tail(q)) /\ Tail(q)[j - 1] = x
    BY <1>1, <2>1, <2>2
  <2>4. QED
    BY <1>4, <2>3
<1>6. ASSUME NEW x \in Owing(w)' PROVE x \in Owing(w)
  <2>1. PICK j \in 1..Len(Tail(q)) : x = Tail(q)[j]
    BY <1>4
  <2>2. j + 1 \in 1..Len(q) /\ q[j + 1] = x
    BY <1>1, <2>1
  <2>3. QED
    BY <2>2 DEF Owing, Content
<1>7. e \in Owing(w) /\ (Len(q) = 1 => Owing(w) = {e})
  BY <1>1 DEF Owing, Content
<1>8. QED
  BY <1>1, <1>2, <1>3, <1>5, <1>6, <1>7 DEF e

\* Whose publish comes later has not reached its other effects.
LEMMA PublishLater ==
  ASSUME IInv, NEW w \in Workers, todo[w] # <<>>, Head(todo[w]).do \notin {"publish", "dlq"}
  PROVE  \A x \in Owing(w) : x.do # "publish"
<1>1. /\ Len(todo[w]) \in Nat \ {0} /\ Head(todo[w]) = todo[w][1] /\ Order(todo[w])
  BY HeadFacts DEF IInv, Worker
<1>2. ASSUME NEW j \in 1..Len(todo[w]), todo[w][j].do = "publish" PROVE FALSE
  <2>1. j = 1 \/ 1 \in 1..(j - 1)
    BY <1>1
  <2>2. QED
    BY <1>1, <1>2, <2>1 DEF Order
<1>3. QED
  BY <1>2 DEF Owing, Content

\* An effect is performed, or its error is discarded.
Sent(e) ==
  /\ e.do = "publish" => e.msg \in Tasks' \/ e.msg.inst \in mishaps'
  /\ e.do = "republish" => e.msg \in Tasks'
  /\ \A ev : e = Announce(ev) => Logged(ev)' \/ ev.inst \in mishaps'
  /\ e.do = "dlq" => <<e.msg.inst, e.msg.n>> \in dlq' \/ e.msg.inst \in mishaps'

LEMMA PerformNI ==
  ASSUME IInv, NInv, NEW w \in Workers, Perform(w, Tail(todo[w])), Extends,
         Sent(Head(todo[w])),
         \A m \in Tasks' \ Tasks : m.kind # "cancel",
         \A i : Logged(Remove(i))' => Logged(Remove(i)) \/ Head(todo[w]) = Announce(Remove(i)),
         settled' = settled \/ (settled' = settled \cup {task[w]} /\ Head(todo[w]).do = "ack")
  PROVE  NInv'
<1> DEFINE e == Head(todo[w])
<1>0. /\ UNCHANGED <<setup, alive, suspended, synced, crashes, done, over>>
      /\ crashes \in Nat /\ mishaps \subseteq mishaps' /\ dlq \subseteq dlq' /\ Tasks \subseteq Tasks'
      /\ todo[w] # <<>> /\ Log
  BY DEF Perform, NInv, Extends, Grows, IInv
<1>1. /\ Owing(w) \subseteq Owing(w)' \cup {e} /\ Owing(w)' \subseteq Owing(w)
      /\ \A v \in Workers \ {w} : Owing(v)' = Owing(v)
      /\ e \in Owing(w)
      /\ e.do \in {"ack", "nack"} <=> todo'[w] = <<>>
      /\ todo'[w] # <<>> => task'[w] = task[w]
      /\ todo'[w] = <<>> => task'[w] = NoTask /\ Owing(w) = {e}
  BY OwingLess
<1>2. Carried(Owing(w), Owing(w)') /\ Carried(AllOwed, AllOwed')
  <2>1. \A x \in Owing(w) \ Owing(w)' : x = e
    BY <1>1
  <2>2. \A x \in AllOwed \ AllOwed' : x = e
    BY <1>1 DEF AllOwed
  <2>3. \A O, P : (\A x \in O \ P : x = e) => Carried(O, P)
    BY DEF Carried, Sent
  <2>4. QED
    BY <2>1, <2>2, <2>3
<1>3. \A v \in Workers \ {w} : Held(v)'
  BY HeldKept, PerformFacts DEF NInv
<1>4. Held(w)'
  <2>1. ASSUME todo'[w] # <<>>, task[w].kind = "step", task[w].inst \notin mishaps'
        PROVE  Nack(task[w]) \in Owing(w)' \/ Fate(task[w], Owing(w))'
    <3>1. task[w] # NoTask /\ task[w].inst \notin mishaps /\ task'[w] = task[w]
      BY <1>0, <1>1, <2>1, HeadFacts
    <3>2. Nack(task[w]) \in Owing(w) \/ Fate(task[w], Owing(w))
      BY <2>1, <3>1 DEF NInv, Held
    <3>3. Nack(task[w]) \in Owing(w) => Nack(task[w]) \in Owing(w)'
      BY <1>1, <2>1 DEF Nack
    <3>4. \A m, O, P : Fate(m, O) /\ Carried(O, P) /\ m.inst \notin mishaps' => Fate(m, P)'
      BY <1>0, FateKept
    <3>5. QED
      BY <1>2, <2>1, <3>1, <3>2, <3>3, <3>4
  <2>2. ASSUME NEW i \in Instances, Announce(Remove(i)) \in Owing(w)'
        PROVE  Removable(i, Owing(w))'
    <3>1. Removable(i, Owing(w))
      BY <1>1, <2>2 DEF NInv, Held
    <3>2. \A O, P : Removable(i, O) /\ Carried(O, P) => Removable(i, P)'
      BY RemovableKept
    <3>3. QED
      BY <1>2, <3>1, <3>2
  <2>3. QED
    BY <1>1, <2>1, <2>2 DEF Held
<1>5. ASSUME NEW m \in settled', m.kind = "step", m.inst \notin mishaps'
      PROVE  Fate(m, {})'
  <2>1. \A O : Fate(m, O) /\ Carried(O, {}) => Fate(m, {})'
    BY <1>0, <1>5, FateKept
  <2>2. CASE m \in settled
    BY <1>0, <1>5, <2>1, <2>2, CarriedMore DEF NInv
  <2>3. CASE m = task[w] /\ e.do = "ack"
    <3>1. Owing(w) = {e} /\ m # NoTask
      BY <1>0, <1>1, <2>3, HeadFacts
    <3>2. Fate(m, {e})
      <4>1. Nack(m) # e
        BY <2>3 DEF Nack
      <4>2. Held(w) /\ m.inst \notin mishaps
        BY <1>0, <1>5 DEF NInv
      <4>3. QED
        BY <1>5, <2>3, <3>1, <4>1, <4>2 DEF Held
    <3>3. Carried({e}, {})
      BY <2>3 DEF Carried, Announce
    <3>4. QED
      BY <2>1, <3>2, <3>3
  <2>4. QED
    BY <2>2, <2>3
<1>6. ASSUME NEW i \in Instances \ mishaps', NEW n \in Steps, <<i, n>> \in done, crashes = 0
      PROVE  Onward(i, n, AllOwed)'
  <2>1. Onward(i, n, AllOwed)
    BY <1>0, <1>6 DEF NInv
  <2>2. \A O, P : Onward(i, n, O) /\ Carried(O, P) => Onward(i, n, P)'
    BY <1>6, OnwardKept
  <2>3. QED
    BY <1>2, <2>1, <2>2
<1>7. ASSUME NEW i \in Instances, Logged(Remove(i))' PROVE Removable(i, {})'
  <2>1. \A O : Removable(i, O) /\ Carried(O, {}) => Removable(i, {})'
    BY RemovableKept
  <2>2. CASE Logged(Remove(i))
    BY <2>1, <2>2, CarriedMore DEF NInv
  <2>3. CASE e = Announce(Remove(i))
    <3>1. Removable(i, Owing(w))
      BY <1>1, <2>3 DEF NInv, Held
    <3>2. \A x \in Owing(w) : x.do # "publish"
      BY <1>0, <2>3, PublishLater DEF Announce
    <3>3. Removable(i, {})
      <4>1. \A n : Publish(Step(i, n, 0)) \notin Owing(w)
        BY <3>2 DEF Publish
      <4>2. QED
        BY <3>1, <4>1 DEF Removable, Onward
    <3>4. QED
      BY <2>1, <3>3, CarriedMore
  <2>4. QED
    BY <1>7, <2>2, <2>3
<1>8. ASSUME Sheltered', NEW v \in alive PROVE Kept(v)'
  <2>1. Sheltered /\ v \in Workers
    BY <1>0, <1>8, Constants DEF Sheltered, Steps, Last, Suspends, IInv, Shape
  <2>2. Kept(v)
    BY <2>1 DEF NInv
  <2>3. Carried(Pool(v), Pool(v)')
    BY <1>0, <1>1, <1>2, <2>1, CarriedMore DEF Pool
  <2>4. QED
    BY <1>0, <2>1, <2>2, <2>3, KeptKept
<1>9. \A m \in Tasks' : m.kind = "cancel" => m = CancelTask(m.inst) /\ setup.cancels
  BY DEF NInv
<1>10. QED
  BY <1>0, <1>3, <1>4, <1>5, <1>6, <1>7, <1>8, <1>9 DEF NInv, Steps, Last

\* What Perform and a growing log amount to.
LEMMA PerformExtends ==
  ASSUME IInv, NInv, NEW w \in Workers, NEW q, Perform(w, q), Tasks \subseteq Tasks',
         dlq \subseteq dlq', mishaps \subseteq mishaps',
         \/ stateLog' = stateLog
         \/ stateLog \in Seq(EventSet) /\ \E ev \in EventSet : AddEvent(ev)
  PROVE  Extends
<1>1. Len(stateLog) \in Nat
  BY DEF IInv, Log
<1>2. Len(stateLog) <= Len(stateLog') /\ \A j \in 1..Len(stateLog) : stateLog'[j] = stateLog[j]
  BY <1>1, EventFacts
<1>3. QED
  BY <1>2 DEF Extends, Grows, Perform, NInv

LEMMA SendNI ==
  ASSUME IInv, NInv, NEW w \in Workers, Perform(w, Tail(todo[w])), Head(todo[w]).do \in Sends,
         \/ Accepted(Head(todo[w])) /\ mishaps' = mishaps
         \/ /\ Accepted(Head(todo[w])) \/ UNCHANGED <<delivered, ready, stateLog, dlq>>
            /\ Head(todo[w]).do # "republish"
            /\ mishaps' = mishaps \cup {task[w].inst},
         settled' = settled
  PROVE  NInv'
<1> DEFINE e == Head(todo[w])
<1>0. /\ todo[w] # <<>> /\ e \in Effects /\ EffectOK(done, task[w], e) /\ e.msg.inst = task[w].inst
      /\ e.do = "announce" => e.msg \in EventSet
  BY PerformFacts, HeadFacts, HeadKinds DEF EventOK
<1>1. /\ e.do \in {"publish", "republish"} => MayStore(e.msg)
      /\ e.do \notin {"publish", "republish"} => UNCHANGED <<delivered, ready>>
      /\ stateLog' = stateLog \/ (e.do = "announce" /\ AddEvent(e.msg))
      /\ dlq \subseteq dlq'
      /\ \/ mishaps' = mishaps /\ Accepted(e)
         \/ mishaps' = mishaps \cup {e.msg.inst} /\ e.do # "republish"
  BY <1>0 DEF Accepted, MayStore
<1>2. \/ Tasks' = Tasks
      \/ e.do \in {"publish", "republish"} /\ Tasks' = Tasks \cup {e.msg}
  BY <1>1, StoreFacts DEF Tasks
<1>3. stateLog \in Seq(EventSet) /\ Len(stateLog) \in Nat
  BY DEF IInv, Log
<1>4. Extends
  BY <1>0, <1>1, <1>2, <1>3, PerformExtends
<1>5. Sent(e)
  <2>1. ASSUME mishaps' = mishaps, Accepted(e) PROVE Sent(e)
    <3>1. e.do \in {"publish", "republish"} => e.msg \in Tasks'
      BY <2>1, AddTaskFacts DEF Accepted, IInv
    <3>2. e.do = "dlq" => <<e.msg.inst, e.msg.n>> \in dlq'
      BY <2>1 DEF Accepted
    <3>3. ASSUME NEW ev, e = Announce(ev) PROVE Logged(ev)'
      <4>1. AddEvent(ev)
        BY <2>1, <3>3 DEF Accepted, Announce
      <4>2. CASE Logged(ev)
        BY <1>4, <4>2, LoggedKept DEF IInv
      <4>3. CASE ~Logged(ev)
        <5>1. stateLog' = Append(stateLog, ev)
          BY <4>1, <4>3 DEF AddEvent, Logged
        <5>2. ev \in EventSet
          BY <1>0, <3>3 DEF Announce
        <5>3. Len(stateLog') = Len(stateLog) + 1 /\ stateLog'[Len(stateLog) + 1] = ev
          BY <1>3, <5>1, <5>2
        <5>4. Len(stateLog) + 1 \in 1..Len(stateLog')
          BY <1>3, <5>3
        <5>5. QED
          BY <5>3, <5>4 DEF Logged
      <4>4. QED
        BY <4>2, <4>3
    <3>4. QED
      BY <3>1, <3>2, <3>3 DEF Sent
  <2>2. ASSUME mishaps' = mishaps \cup {e.msg.inst}, e.do # "republish" PROVE Sent(e)
    <3>1. \A ev : e = Announce(ev) => ev.inst \in mishaps'
      BY <2>2 DEF Announce
    <3>2. QED
      BY <2>2, <3>1 DEF Sent
  <2>3. QED
    BY <1>1, <2>1, <2>2
<1>6. \A m \in Tasks' \ Tasks : m.kind # "cancel"
  BY <1>0, <1>2 DEF EffectOK, Step, Compensation
<1>7. \A i : Logged(Remove(i))' => Logged(Remove(i)) \/ e = Announce(Remove(i))
  <2> SUFFICES ASSUME NEW i, Logged(Remove(i))', ~Logged(Remove(i)) PROVE e = Announce(Remove(i))
    OBVIOUS
  <2>1. PICK j \in 1..Len(stateLog') : stateLog'[j] = Remove(i)
    BY DEF Logged
  <2>2. e.do = "announce" /\ AddEvent(e.msg)
    BY <1>1, <2>1 DEF Logged
  <2>3. j \notin 1..Len(stateLog)
    BY <1>4, <2>1 DEF Logged, Extends
  <2>4. stateLog'[j] = e.msg
    BY <1>0, <1>3, <2>2, <2>3, EventFacts
  <2>5. e.msg = Remove(i)
    BY <2>1, <2>4
  <2>6. QED
    BY <1>0, <2>2, <2>5 DEF Announce, Effects
<1>8. QED
  BY <1>4, <1>5, <1>6, <1>7, PerformNI

LEMMA RetryNI ==
  ASSUME IInv, NInv, NEW w \in Workers, Perform(w, NackInstead(w)),
         Head(todo[w]).do = "republish",
         Accepted(Head(todo[w])) \/ UNCHANGED <<delivered, ready, stateLog, dlq>>,
         UNCHANGED <<settled, mishaps>>
  PROVE  NInv'
<1> DEFINE e == Head(todo[w])
           m == task[w]
<1>0. /\ todo[w] # <<>> /\ m # NoTask /\ EffectOK(done, m, e) /\ Order(todo[w])
      /\ Len(todo[w]) \in Nat \ {0} /\ e = todo[w][1]
  BY PerformFacts, HeadFacts DEF IInv, Worker
<1>1. MayStore(e.msg) /\ UNCHANGED <<stateLog, dlq>> /\ e.msg.kind = "step"
  BY <1>0 DEF Accepted, MayStore, EffectOK, Step
<1>2. Tasks' = Tasks \/ Tasks' = Tasks \cup {e.msg}
  BY <1>1, StoreFacts
<1>3. Extends
  BY <1>1, <1>2, PerformExtends
<1>4. /\ todo'[w] = <<Nack(m)>> /\ task'[w] = m
      /\ \A v \in Workers \ {w} : task'[v] = task[v] /\ todo'[v] = todo[v]
  <2>1. NackInstead(w) = <<Nack(m)>> /\ NackInstead(w) # <<>>
    BY DEF NackInstead
  <2>2. QED
    BY <2>1, PerformFacts
<1>5. Owing(w)' = {Nack(m)} /\ \A v \in Workers \ {w} : Owing(v)' = Owing(v)
  BY <1>4 DEF Owing, Content
<1>6. \A x \in Owing(w) : x.do \in {"republish", "ack", "nack"}
  <2>1. Len(todo[w]) = 2
    BY <1>0 DEF Order
  <2>2. todo[w][2].do \in {"ack", "nack"} /\ \A j \in 1..Len(todo[w]) : j = 1 \/ j = 2
    BY <1>0, <2>1 DEF Order
  <2>3. QED
    BY <1>0, <2>2 DEF Owing, Content
<1>7. /\ UNCHANGED <<setup, alive, suspended, synced, crashes, done, over>> /\ crashes \in Nat /\ Log
  BY DEF Perform, NInv, IInv
<1>8. \A n, O, P, i : Onward(i, n, O) /\ (\A x \in O \ P : x.do # "publish") => Onward(i, n, P)'
  <2>1. \A x : Publish(x).do = "publish"
    BY DEF Publish
  <2>2. Last' = Last /\ Tasks \subseteq Tasks'
    BY <1>2, <1>7 DEF Last
  <2>3. QED
    BY <2>1, <2>2 DEF Onward
<1>9. \A x \in AllOwed \ AllOwed' : x.do # "publish"
  BY <1>5, <1>6 DEF AllOwed
<1>10. \A v \in Workers \ {w} : Held(v)'
  BY <1>3, <1>4, HeldKept DEF NInv
<1>11. Held(w)'
  BY <1>4, <1>5 DEF Held, Announce, Nack
<1>12. \A x \in settled : x.kind = "step" /\ x.inst \notin mishaps => Fate(x, {})'
  <2>1. \A x : Fate(x, {}) /\ x.inst \notin mishaps' => Fate(x, {})'
    BY <1>3, <1>7, FateKept, CarriedMore
  <2>2. QED
    BY <2>1 DEF NInv
<1>13. \A i \in Instances \ mishaps : \A n \in Steps :
         <<i, n>> \in done /\ crashes = 0 => Onward(i, n, AllOwed)'
  BY <1>8, <1>9 DEF NInv
<1>14. \A i \in Instances : Logged(Remove(i)) => Removable(i, {})'
  <2>1. \A i : Removable(i, {}) => Removable(i, {})'
    BY <1>3, RemovableKept, CarriedMore
  <2>2. QED
    BY <2>1 DEF NInv
<1>16. ASSUME Sheltered', NEW v \in alive PROVE Kept(v)'
  <2>1. Sheltered /\ v \in Workers
    BY <1>7, <1>16, Constants DEF Sheltered, Steps, Last, Suspends, IInv, Shape
  <2>2. Kept(v) /\ synced[v] \in Nat
    BY <2>1 DEF NInv, IInv, Shape
  <2>3. \A x \in Pool(v) \ Pool(v)' : x.do # "publish"
    BY <1>5, <1>6, <1>7, <1>9, <2>1 DEF Pool
  <2>4. \A i, n : Onward(i, n, Pool(v)) => Onward(i, n, Pool(v))'
    BY <1>8, <2>3
  <2>5. QED
    BY <1>1, <1>7, <2>2, <2>4 DEF Kept
<1>17. \A x \in Tasks' : x.kind = "cancel" => x = CancelTask(x.inst) /\ setup.cancels
  BY <1>1, <1>2 DEF NInv
<1>18. \A i \in Instances : Logged(Remove(i))' => Logged(Remove(i))
  BY <1>1 DEF Logged, Remove
<1>19. QED
  BY <1>7, <1>10, <1>11, <1>12, <1>13, <1>14, <1>16, <1>17, <1>18 DEF NInv, Steps, Last

LEMMA SendingNI == ASSUME IInv, NInv, NEW w \in Workers, SendOK(w) \/ SendFails(w) PROVE NInv'
<1>1. CASE SendOK(w)
  BY <1>1, SendNI DEF SendOK
<1>2. CASE SendFails(w) /\ Head(todo[w]).do = "republish"
  BY <1>2, RetryNI DEF SendFails
<1>3. CASE SendFails(w) /\ Head(todo[w]).do # "republish"
  <2>1. todo[w] # <<>> /\ Perform(w, Tail(todo[w])) /\ Head(todo[w]).do \in Sends
    BY <1>3 DEF SendFails, Perform
  <2>2. Head(todo[w]).msg.inst = task[w].inst
    BY <2>1, HeadKinds
  <2>3. QED
    BY <1>3, <2>1, <2>2, SendNI DEF SendFails
<1>4. QED
  BY <1>1, <1>2, <1>3

LEMMA OthersNI ==
  ASSUME IInv, NInv, NEW w \in Workers, StartTimer(w) \/ SendAck(w) \/ SendNack(w)
  PROVE  NInv'
<1>1. /\ Perform(w, Tail(todo[w])) /\ Head(todo[w]).do \in {"timer", "ack", "nack"}
      /\ UNCHANGED <<delivered, stateLog, dlq, mishaps>>
      /\ settled' = settled \/ (settled' = settled \cup {task[w]} /\ Head(todo[w]).do = "ack")
  BY DEF StartTimer, SendAck, SendNack, stream
<1>2. Tasks' = Tasks
  BY <1>1 DEF Tasks
<1>3. Extends
  BY <1>1, <1>2, PerformExtends
<1>4. Sent(Head(todo[w]))
  BY <1>1 DEF Sent, Announce
<1>5. \A i : Logged(Remove(i))' => Logged(Remove(i))
  BY <1>1 DEF Logged, Remove
<1>6. QED
  BY <1>1, <1>2, <1>3, <1>4, <1>5, PerformNI

\* A task nobody holds is stored.
LEMMA PublishNI ==
  ASSUME IInv, NInv, NEW m, m.kind = "cancel" => m = CancelTask(m.inst) /\ setup.cancels,
         MayStore(m), mishaps \subseteq mishaps',
         UNCHANGED <<setup, settled, stateLog, dlq, alive, workers, synced, done, over, crashes>>
  PROVE  NInv'
<1>1. Tasks' = Tasks \/ Tasks' = Tasks \cup {m}
  BY StoreFacts
<1>2. Extends /\ Log
  BY <1>1 DEF Extends, Grows, NInv, IInv, Log
<1>3. /\ UNCHANGED <<task, todo, suspended>> /\ AllOwed' = AllOwed
      /\ \A v \in Workers : Pool(v)' = Pool(v)
  BY DEF workers, AllOwed, Owing, Content, Pool
<1>4. \A v \in Workers : Held(v)'
  BY <1>2, <1>3, HeldKept DEF NInv
<1>5. \A x \in settled : x.kind = "step" /\ x.inst \notin mishaps' => Fate(x, {})'
  <2>1. \A x : Fate(x, {}) /\ x.inst \notin mishaps' => Fate(x, {})'
    BY <1>2, FateKept, CarriedMore
  <2>2. QED
    BY <1>2, <2>1 DEF NInv, Extends, Grows
<1>6. \A i \in Instances \ mishaps' : \A n \in Steps :
        <<i, n>> \in done /\ crashes = 0 => Onward(i, n, AllOwed)'
  <2>1. \A i, n, O : Onward(i, n, O) /\ i \notin mishaps' => Onward(i, n, O)'
    BY <1>2, OnwardKept, CarriedMore
  <2>2. QED
    BY <1>2, <1>3, <2>1 DEF NInv, Extends, Grows
<1>7. \A i \in Instances : Logged(Remove(i))' => Removable(i, {})'
  <2>1. \A i : Removable(i, {}) => Removable(i, {})'
    BY <1>2, RemovableKept, CarriedMore
  <2>2. \A i : Logged(Remove(i))' => Logged(Remove(i))
    BY DEF Logged, Remove
  <2>3. QED
    BY <2>1, <2>2 DEF NInv
<1>8. ASSUME Sheltered', NEW v \in alive PROVE Kept(v)'
  <2>1. Sheltered /\ v \in Workers
    BY <1>8, Constants DEF Sheltered, Steps, Last, Suspends, IInv, Shape
  <2>2. QED
    BY <1>2, <1>3, <2>1, KeptKept, CarriedMore DEF NInv
<1>9. \A x \in Tasks' : x.kind = "cancel" => x = CancelTask(x.inst) /\ setup.cancels
  BY <1>1 DEF NInv
<1>10. QED
  BY <1>2, <1>4, <1>5, <1>6, <1>7, <1>8, <1>9 DEF NInv, Steps, Last, Extends

LEMMA ClientNI ==
  ASSUME IInv, NInv, NEW i \in Instances,
         Trigger(i) \/ Cancel(i) \/ \E w \in Workers : Resume(w, i)
  PROVE  NInv'
<1>1. CASE Trigger(i)
  BY <1>1, PublishNI DEF Trigger, MayStore, history, Step
<1>2. CASE Cancel(i)
  BY <1>2, PublishNI DEF Cancel, MayStore, history, CancelTask
<1>3. CASE \E w \in Workers : Resume(w, i)
  BY <1>3, PublishNI DEF Resume, MayStore, history, ResumeTask
<1>4. QED
  BY <1>1, <1>2, <1>3

LEMMA TimerNI == ASSUME IInv, NInv, NEW t \in timers, TimerFires(t) PROVE NInv'
<1>1. MayStore(TimeoutTask(t.inst, t.n)) /\ TimeoutTask(t.inst, t.n).kind = "timeout"
  BY DEF TimerFires, MayStore, TimeoutTask
<1>2. mishaps \subseteq mishaps'
  BY DEF TimerFires
<1>3. QED
  BY <1>1, <1>2, PublishNI DEF TimerFires

LEMMA ShortContents ==
  \A a, b, c : /\ Content(<<>>) = {} /\ Content(<<a>>) = {a} /\ Content(<<a, b>>) = {a, b}
              /\ Content(<<a, b, c>>) = {a, b, c}
  BY DEF Content

\* A task is taken, and q is what its worker comes to owe.
LEMMA TakeNI ==
  ASSUME IInv, NInv, NEW w \in Workers, NEW m \in ready, Taken(w, m), NEW q,
         todo' = [todo EXCEPT ![w] = q], crashes' = crashes,
         done \subseteq done', over \subseteq over', mishaps \subseteq mishaps',
         \A v \in Workers \ {w} : suspended'[v] = suspended[v],
         m.kind = "step" /\ m.inst \notin mishaps' =>
           Nack(m) \in Content(q) \/ Fate(m, Content(q))',
         \A i \in Instances : Announce(Remove(i)) \in Content(q) => Removable(i, Content(q))',
         \A i, n : <<i, n>> \in done' \ done => Onward(i, n, Content(q))',
         \A i, n : i \in DOMAIN suspended[w] \ DOMAIN suspended'[w] /\ n = suspended[w][i] =>
           i \in over' \cup mishaps' \/ (<<i, n>> \in done' /\ Onward(i, n, Content(q))')
  PROVE  NInv'
<1>0. /\ m \in Tasks /\ todo[w] = <<>> /\ setup \in Setups /\ crashes \in Nat
      /\ UNCHANGED <<setup, settled, stateLog, dlq, alive, synced>>
      /\ m # NoTask /\ Log
  <2>1. m \in Tasks /\ m \in TaskSet
    BY DEF IInv, Stream, TaskOK
  <2>2. m # NoTask
    BY <2>1 DEF TaskSet, NoTask
  <2>3. QED
    BY <2>1, <2>2 DEF Taken, IInv, Shape, NInv
<1>1. Tasks' = Tasks
  BY <1>0 DEF Taken, Tasks
<1>2. /\ task'[w] = m /\ todo'[w] = q
      /\ \A v \in Workers \ {w} : task'[v] = task[v] /\ todo'[v] = todo[v]
  BY DEF Taken, IInv, Shape
<1>3. Extends
  BY <1>0, <1>1 DEF Extends, Grows
<1>4. /\ Owing(w) = {} /\ Owing(w)' = Content(q)
      /\ \A v \in Workers \ {w} : Owing(v)' = Owing(v)
  BY <1>0, <1>2, ShortContents DEF Owing
<1>5. AllOwed \subseteq AllOwed' /\ Content(q) \subseteq AllOwed'
      /\ \A v \in Workers : Pool(v) \subseteq Pool(v)'
  BY <1>0, <1>4 DEF AllOwed, Pool
<1>6. \A v \in Workers \ {w} : Held(v)'
  BY <1>2, <1>3, HeldKept DEF NInv
<1>7. Held(w)'
  BY <1>2, <1>4 DEF Held
<1>8. \A x \in settled : x.kind = "step" /\ x.inst \notin mishaps' => Fate(x, {})'
  <2>1. \A x : Fate(x, {}) /\ x.inst \notin mishaps' => Fate(x, {})'
    BY <1>0, <1>3, FateKept, CarriedMore
  <2>2. QED
    BY <2>1 DEF NInv
<1>9. \A i \in Instances \ mishaps' : \A n \in Steps :
        <<i, n>> \in done' /\ crashes = 0 => Onward(i, n, AllOwed)'
  <2>1. \A i, n, O, P : Onward(i, n, O) /\ O \subseteq P /\ i \notin mishaps' => Onward(i, n, P)'
    BY <1>3, OnwardKept, CarriedMore
  <2>2. \A i, n : Onward(i, n, AllOwed) /\ i \notin mishaps' => Onward(i, n, AllOwed)'
    BY <1>5, <2>1
  <2>3. \A i, n, O, P : Onward(i, n, O)' /\ O \subseteq P => Onward(i, n, P)'
    BY DEF Onward
  <2>4. \A i, n : Onward(i, n, Content(q))' => Onward(i, n, AllOwed)'
    BY <1>5, <2>3
  <2>5. QED
    BY <2>2, <2>4 DEF NInv
<1>10. \A i \in Instances : Logged(Remove(i))' => Removable(i, {})'
  <2>1. \A i : Removable(i, {}) => Removable(i, {})'
    BY <1>3, RemovableKept, CarriedMore
  <2>2. \A i : Logged(Remove(i))' => Logged(Remove(i))
    BY <1>0 DEF Logged, Remove
  <2>3. QED
    BY <2>1, <2>2 DEF NInv
<1>11. ASSUME Sheltered' PROVE \A v \in alive : Kept(v)'
  <2>1. Sheltered /\ alive \subseteq Workers
    BY <1>0, <1>11, Constants DEF Sheltered, Steps, Last, Suspends, IInv, Shape
  <2>2. ASSUME NEW v \in alive, v # w PROVE Kept(v)'
    BY <1>0, <1>3, <1>5, <2>1, <2>2, KeptKept, CarriedMore DEF NInv
  <2>3. ASSUME w \in alive PROVE Kept(w)'
    <3>1. \A i, n, O, P : Onward(i, n, O) /\ O \subseteq P /\ i \notin mishaps' => Onward(i, n, P)'
      BY <1>3, OnwardKept, CarriedMore
    <3>2. \A i, n : Onward(i, n, Pool(w)) /\ i \notin mishaps' => Onward(i, n, Pool(w))'
      BY <1>5, <3>1
    <3>3. Content(q) \subseteq Pool(w)'
      BY <1>4, <1>5 DEF Pool
    <3>4. \A i, n, O, P : Onward(i, n, O)' /\ O \subseteq P => Onward(i, n, P)'
      BY DEF Onward
    <3>5. \A i, n : Onward(i, n, Content(q))' => Onward(i, n, Pool(w))'
      BY <3>3, <3>4
    <3>6. \A p \in 1..synced[w] : stateLog[p].kind = "park" => Suspends(stateLog[p].n)
      <4>1. synced[w] <= Len(stateLog) /\ synced[w] \in Nat /\ Len(stateLog) \in Nat
        BY DEF IInv, Registry, Shape, Log
      <4>2. QED
        BY <4>1 DEF IInv, Log, EventOK
    <3>7. ASSUME NEW p \in 1..synced[w], stateLog[p].kind = "park",
                 NEW i, i = stateLog[p].inst, NEW n, n = stateLog[p].n
          PROVE  \/ i \in (over \cup mishaps \cup DOMAIN suspended[w])'
                 \/ <<i, n>> \in done' /\ Onward(i, n, Pool(w))'
      <4>1. \/ i \in over \cup mishaps \cup DOMAIN suspended[w]
            \/ <<i, n>> \in done /\ Onward(i, n, Pool(w))
        BY <2>1, <2>3, <3>7 DEF NInv, Kept
      <4>2. CASE i \in over \cup mishaps'
        BY <4>2
      <4>3. CASE <<i, n>> \in done /\ Onward(i, n, Pool(w)) /\ i \notin mishaps'
        BY <3>2, <4>3
      <4>4. CASE i \in DOMAIN suspended[w] \ DOMAIN suspended'[w]
        <5>1. suspended[w][i] = n
          <6>1. Suspends(suspended[w][i]) /\ Suspends(n)
            BY <3>6, <3>7, <4>4 DEF IInv, Registry
          <6>2. QED
            BY <2>1, <6>1 DEF Sheltered, Suspends
        <5>2. QED
          BY <3>5, <4>4, <5>1
      <4>5. QED
        BY <4>1, <4>2, <4>3, <4>4
    <3>8. QED
      BY <1>0, <3>7 DEF Kept
  <2>4. QED
    BY <2>2, <2>3
<1>12. QED
  BY <1>0, <1>1, <1>6, <1>7, <1>8, <1>9, <1>10, <1>11 DEF NInv, Steps, Last

LEMMA RunStepNI ==
  ASSUME IInv, NInv, NEW w \in Workers, NEW m \in ready, Taken(w, m), RunStep(w, m),
         crashes' = crashes
  PROVE  NInv'
<1>0. /\ m.kind = "step" /\ m.n \in Steps /\ m.n # 0 /\ setup \in Setups
      /\ m \in TaskSet /\ m.inst \in Instances /\ setup' = setup /\ Last' = Last
  BY ReadyTask DEF RunStep, Taken, Last
<1>1. /\ \A v \in Workers \ {w} : suspended'[v] = suspended[v]
      /\ done \subseteq done' /\ mishaps \subseteq mishaps' /\ over \subseteq over'
      /\ DOMAIN suspended[w] \subseteq DOMAIN suspended'[w]
  BY DEF RunStep, IInv, Shape, With
<1>2. CASE todo' = [todo EXCEPT ![w] = StepDone(m)] /\ done' = done \cup {<<m.inst, m.n>>}
  <2>1. PICK q : q = StepDone(m)
    OBVIOUS
  <2>2. Content(q) = IF m.n < Last THEN {Publish(Step(m.inst, m.n + 1, 0)), Ack(m)} ELSE {Ack(m)}
    BY <2>1, ListForms, ShortContents
  <2>3. Onward(m.inst, m.n, Content(q))'
    BY <1>0, <2>2, Constants DEF Onward, Steps
  <2>4. Fate(m, Content(q))'
    BY <1>2, <2>3 DEF Fate
  <2>5. \A i : Announce(Remove(i)) \notin Content(q)
    BY <2>2 DEF Announce, Publish, Ack
  <2>6. \A i, n : <<i, n>> \in done' \ done => Onward(i, n, Content(q))'
    BY <1>2, <2>3
  <2>7. QED
    BY <1>1, <1>2, <2>1, <2>4, <2>5, <2>6, TakeNI
<1>3. CASE todo' = [todo EXCEPT ![w] = StepError(m)] /\ done' = done
  <2>1. PICK q : q = StepError(m)
    OBVIOUS
  <2>2. CASE ~LastAttempt(m)
    <3>1. Content(q) = {Republish(Step(m.inst, m.n, m.k + 1)), Ack(m)}
      BY <2>1, <2>2, ListForms, ShortContents
    <3>2. Fate(m, Content(q))'
      BY <3>1 DEF Fate
    <3>3. \A i : Announce(Remove(i)) \notin Content(q)
      BY <3>1 DEF Announce, Republish, Ack
    <3>4. QED
      BY <1>1, <1>3, <2>1, <3>2, <3>3, TakeNI
  <2>3. CASE LastAttempt(m)
    <3>1. /\ Len(q) = m.n + 1 /\ q[1] = DeadLetter(m) /\ q[m.n + 1] = Ack(m) /\ m.n \in Nat
          /\ \A j \in 2..m.n : q[j] = Publish(Compensation(m.inst, m.n + 1 - j))
      BY <1>0, <2>1, <2>3, ErrorList DEF TaskSet
    <3>2. Fate(m, Content(q))'
      BY <3>1 DEF Fate, Content
    <3>3. \A i : Announce(Remove(i)) \notin Content(q)
      <4>1. \A x \in Content(q) : x = DeadLetter(m) \/ x = Ack(m) \/ \E y : x = Publish(y)
        <5>1. \A j \in 1..Len(q) : j = 1 \/ j = m.n + 1 \/ j \in 2..m.n
          BY <3>1
        <5>2. QED
          BY <3>1, <5>1 DEF Content
      <4>2. QED
        BY <4>1 DEF Announce, Publish, DeadLetter, Ack
    <3>4. QED
      BY <1>1, <1>3, <2>1, <3>2, <3>3, TakeNI
  <2>4. QED
    BY <2>2, <2>3
<1>4. CASE todo' = [todo EXCEPT ![w] = StepSuspend(m)] /\ done' = done
  <2>1. PICK q : q = StepSuspend(m)
    OBVIOUS
  <2>2. \/ Content(q) = {Announce(Park(m.inst, m.n)), Schedule(m.inst, m.n), Ack(m)}
        \/ Content(q) = {Announce(Park(m.inst, m.n)), Ack(m)}
    <3>1. CASE setup.timed
      BY <2>1, <3>1, ListForms, ShortContents
    <3>2. CASE ~setup.timed
      BY <2>1, <3>2, ListForms, ShortContents
    <3>3. QED
      BY <3>1, <3>2
  <2>3. Fate(m, Content(q))'
    BY <2>2 DEF Fate
  <2>4. \A i : Announce(Remove(i)) \notin Content(q)
    BY <2>2 DEF Announce, Remove, Park, Schedule, Ack
  <2>5. QED
    BY <1>1, <1>4, <2>1, <2>3, <2>4, TakeNI
<1>5. QED
  BY <1>2, <1>3, <1>4 DEF RunStep

LEMMA WakeNI ==
  ASSUME IInv, NInv, NEW w \in Workers, NEW m \in ready, Taken(w, m), Wake(w, m),
         crashes' = crashes
  PROVE  NInv'
<1>1. PICK n : n = suspended[w][m.inst]
  OBVIOUS
<1>2. PICK i : i = m.inst
  OBVIOUS
<1>0. /\ Suspends(n) /\ n \in Steps /\ setup \in Setups /\ m.kind # "step"
      /\ m \in TaskSet /\ i \in Instances /\ setup' = setup /\ Last' = Last /\ Steps' = Steps
      /\ Suspends(n)'
  BY <1>1, <1>2, ReadyTask DEF Wake, IInv, Registry, Suspends, Taken, Last, Steps
<1>3. /\ \A v \in Workers \ {w} : suspended'[v] = suspended[v]
      /\ done \subseteq done' /\ mishaps \subseteq mishaps' /\ over \subseteq over'
      /\ DOMAIN suspended[w] \ DOMAIN suspended'[w] = {i}
  BY <1>2 DEF Wake, IInv, Shape, Without, Restrict
<1>4. CASE todo' = [todo EXCEPT ![w] = Woken(m, n)] /\ done' = done \cup {<<i, n>>}
  <2>1. PICK q : q = Woken(m, n)
    OBVIOUS
  <2>2. Content(q) = IF n < Last
                     THEN {Publish(Step(i, n + 1, 0)), Announce(Remove(i)), Ack(m)}
                     ELSE {Announce(Remove(i)), Ack(m)}
    BY <1>2, <2>1, ListForms, ShortContents
  <2>3. Onward(i, n, Content(q))'
    BY <1>0, <2>2, Constants DEF Onward, Steps
  <2>4. Removable(i, Content(q))'
    BY <1>0, <1>4, <2>3 DEF Removable
  <2>5. \A x : Announce(Remove(x)) \in Content(q) => x = i
    BY <2>2 DEF Announce, Remove, Publish, Ack
  <2>6. \A x, k : <<x, k>> \in done' \ done => Onward(x, k, Content(q))'
    BY <1>4, <2>3
  <2>7. \A x, k : x \in DOMAIN suspended[w] \ DOMAIN suspended'[w] /\ k = suspended[w][x] =>
          x \in over' \cup mishaps' \/ (<<x, k>> \in done' /\ Onward(x, k, Content(q))')
    BY <1>1, <1>2, <1>3, <1>4, <2>3
  <2>8. \A x \in Instances : Announce(Remove(x)) \in Content(q) => Removable(x, Content(q))'
    BY <2>4, <2>5
  <2>9. QED
    BY <1>0, <1>3, <1>4, <2>1, <2>6, <2>7, <2>8, TakeNI
<1>5. CASE todo' = [todo EXCEPT ![w] = <<Nack(m)>>] /\ done' = done /\ i \in mishaps'
  <2>1. PICK q : q = <<Nack(m)>>
    OBVIOUS
  <2>2. \A x : Announce(Remove(x)) \notin Content(q)
    BY <2>1, ShortContents DEF Announce, Nack
  <2>3. QED
    BY <1>0, <1>3, <1>5, <2>1, <2>2, TakeNI
<1>6. CASE /\ todo' = [todo EXCEPT ![w] = <<Announce(Remove(i)), Ack(m)>>]
           /\ done' = done /\ i \in over'
  <2>1. PICK q : q = <<Announce(Remove(i)), Ack(m)>>
    OBVIOUS
  <2>2. \A x : Announce(Remove(x)) \in Content(q) => x = i
    BY <2>1, ShortContents DEF Announce, Remove, Ack
  <2>3. Removable(i, Content(q))'
    BY <1>6 DEF Removable
  <2>4. QED
    BY <1>0, <1>3, <1>6, <2>1, <2>2, <2>3, TakeNI
<1>7. QED
  BY <1>1, <1>2, <1>4, <1>5, <1>6 DEF Wake

LEMMA CancelNI ==
  ASSUME IInv, NInv, NEW w \in Workers, NEW m \in ready, Taken(w, m), HandleCancel(w, m),
         crashes' = crashes
  PROVE  NInv'
<1>1. PICK i : i = m.inst
  OBVIOUS
<1>2. CancelTask(i) \in Tasks' /\ m.kind # "step"
  BY <1>1 DEF HandleCancel, NInv, IInv, Stream, Taken, Tasks
<1>3. /\ \A v \in Workers \ {w} : suspended'[v] = suspended[v]
      /\ done' = done /\ mishaps' = mishaps /\ over \subseteq over'
      /\ \A x \in DOMAIN suspended[w] \ DOMAIN suspended'[w] : x \in over'
  BY DEF HandleCancel, IInv, Shape, Without, Restrict
<1>4. PICK q : q = <<Announce(Remove(i)), Ack(m)>>
  OBVIOUS
<1>5. \A x : Announce(Remove(x)) \in Content(q) => x = i
  BY <1>4, ShortContents DEF Announce, Remove, Ack
<1>6. Removable(i, Content(q))'
  BY <1>2 DEF Removable
<1>7. todo' = [todo EXCEPT ![w] = q]
  BY <1>1, <1>4 DEF HandleCancel
<1>8. QED
  BY <1>2, <1>3, <1>5, <1>6, <1>7, TakeNI

LEMMA IdleNI ==
  ASSUME IInv, NInv, NEW w \in Workers, NEW m \in ready, Taken(w, m),
         WakeNobody(w, m) \/ Compensate(w, m), crashes' = crashes
  PROVE  NInv'
<1>1. UNCHANGED <<suspended, done, over, mishaps>> /\ m.kind # "step"
  BY DEF WakeNobody, Compensate, history
<1>2. PICK q : todo' = [todo EXCEPT ![w] = q] /\ (q = <<Ack(m)>> \/ q = <<Nack(m)>>)
  BY DEF WakeNobody, Compensate
<1>3. \A x : Announce(Remove(x)) \notin Content(q)
  BY <1>2, ShortContents DEF Announce, Ack, Nack
<1>4. QED
  BY <1>1, <1>2, <1>3, TakeNI

LEMMA TakingNI == ASSUME IInv, NInv, NEW w \in Workers, Take(w) PROVE NInv'
<1>1. PICK m \in ready :
        /\ Taken(w, m)
        /\ \/ RunStep(w, m) \/ Wake(w, m) \/ WakeNobody(w, m)
           \/ HandleCancel(w, m) \/ Compensate(w, m)
  BY DEF Take, Taken
<1>2. crashes' = crashes
  BY DEF Take
<1>3. QED
  BY <1>1, <1>2, RunStepNI, WakeNI, CancelNI, IdleNI

\* Steps that leave what is stored and owed alone.
LEMMA QuietNI ==
  ASSUME IInv, NInv, UNCHANGED <<setup, delivered, settled, stateLog, dlq, task, todo, done, mishaps>>,
         alive' \subseteq alive, over \subseteq over', crashes' \in Nat, crashes <= crashes',
         Sheltered' => \A v \in alive' : Kept(v)'
  PROVE  NInv'
<1>1. Tasks' = Tasks /\ AllOwed' = AllOwed /\ Last' = Last /\ Steps' = Steps
  BY DEF Tasks, AllOwed, Owing, Content, Last, Steps
<1>2. Extends /\ Log
  BY <1>1 DEF Extends, Grows, NInv, IInv, Log
<1>3. \A v \in Workers : Held(v)'
  BY <1>2, HeldKept DEF NInv
<1>4. \A x \in settled : x.kind = "step" /\ x.inst \notin mishaps => Fate(x, {})'
  <2>1. \A x : Fate(x, {}) /\ x.inst \notin mishaps' => Fate(x, {})'
    BY <1>2, FateKept, CarriedMore
  <2>2. QED
    BY <2>1 DEF NInv
<1>5. \A i \in Instances \ mishaps : \A n \in Steps :
        <<i, n>> \in done /\ crashes' = 0 => Onward(i, n, AllOwed)'
  BY <1>1 DEF NInv, Onward
<1>6. \A i \in Instances : Logged(Remove(i))' => Removable(i, {})'
  <2>1. \A i : Removable(i, {}) => Removable(i, {})'
    BY <1>2, RemovableKept, CarriedMore
  <2>2. \A i : Logged(Remove(i))' => Logged(Remove(i))
    BY DEF Logged, Remove
  <2>3. QED
    BY <2>1, <2>2 DEF NInv
<1>7. QED
  BY <1>1, <1>3, <1>4, <1>5, <1>6 DEF NInv

LEMMA SyncNI == ASSUME IInv, NInv, NEW w \in Workers, StateSync(w) PROVE NInv'
<1>1. /\ UNCHANGED <<setup, delivered, settled, stateLog, dlq, task, todo, done, mishaps, alive, crashes>>
      /\ over \subseteq over' /\ crashes \in Nat /\ w \in alive
      /\ synced[w] \in Nat /\ synced[w] < Len(stateLog) /\ Len(stateLog) \in Nat
  BY DEF StateSync, stream, NInv, IInv, Shape, Log
<1>2. PICK ev : ev = stateLog[synced[w] + 1]
  OBVIOUS
<1>3. /\ synced'[w] = synced[w] + 1 /\ \A v \in Workers \ {w} : synced'[v] = synced[v]
      /\ \A v \in Workers \ {w} : suspended'[v] = suspended[v]
      /\ ev \in EventSet /\ (ev.kind = "park" => Suspends(ev.n)) /\ ev.inst \in Instances
  <2>1. synced[w] + 1 \in 1..Len(stateLog)
    BY <1>1
  <2>2. EventOK(ev)
    BY <1>2, <2>1 DEF IInv, Log
  <2>3. QED
    BY <2>2 DEF StateSync, IInv, Shape, EventOK, EventSet
<1>4. Tasks' = Tasks /\ Last' = Last /\ \A v \in Workers : Pool(v)' = Pool(v)
  BY <1>1 DEF Tasks, Pool, AllOwed, Owing, Content, Last
<1>5. Extends
  BY <1>1, <1>4 DEF Extends, Grows, IInv, Log
<1>6. ASSUME Sheltered', NEW v \in alive PROVE Kept(v)'
  <2>1. Sheltered /\ v \in Workers
    BY <1>1, <1>6, Constants DEF Sheltered, Steps, Last, Suspends, IInv, Shape
  <2>2. Kept(v)
    BY <2>1 DEF NInv
  <2>3. CASE v # w
    BY <1>3, <1>4, <1>5, <2>1, <2>2, <2>3, KeptKept, CarriedMore
  <2>4. CASE v = w
    <3>1. /\ DOMAIN suspended'[w] = IF ev.kind = "remove" THEN DOMAIN suspended[w] \ {ev.inst}
                                   ELSE DOMAIN suspended[w] \cup {ev.inst}
      BY <1>2 DEF StateSync, IInv, Shape, Without, Restrict, With
    <3>2. \A i, n : Onward(i, n, Pool(w)) => Onward(i, n, Pool(w))'
      BY <1>4, <2>1 DEF Onward
    <3>3. \A i, n : i \in over \cup mishaps \/ (<<i, n>> \in done /\ Onward(i, n, Pool(w))) =>
            \/ i \in (over \cup mishaps \cup DOMAIN suspended[w])'
            \/ <<i, n>> \in done' /\ Onward(i, n, Pool(w))'
      BY <1>1, <3>2
    <3>4. ASSUME NEW p \in 1..(synced[w] + 1), stateLog[p].kind = "park",
                 NEW i, i = stateLog[p].inst, NEW n, n = stateLog[p].n
          PROVE  \/ i \in (over \cup mishaps \cup DOMAIN suspended[w])'
                 \/ <<i, n>> \in done' /\ Onward(i, n, Pool(w))'
      <4>1. CASE p = synced[w] + 1
        BY <1>2, <3>1, <3>4, <4>1
      <4>2. CASE p # synced[w] + 1
        <5>1. p \in 1..synced[w]
          BY <1>1, <4>2
        <5>2. \/ i \in over \cup mishaps \cup DOMAIN suspended[w]
              \/ <<i, n>> \in done /\ Onward(i, n, Pool(w))
          BY <2>2, <2>4, <3>4, <5>1 DEF Kept
        <5>3. CASE i \in DOMAIN suspended'[w]
          BY <5>3
        <5>4. CASE i \in DOMAIN suspended[w] \ DOMAIN suspended'[w]
          <6>1. ev.kind = "remove" /\ ev.inst = i /\ i \in Instances
            BY <1>3, <3>1, <5>4
          <6>2. Suspends(n)
            BY <1>1, <3>4 DEF IInv, Log, EventOK
          <6>3. suspended[w][i] = n
            <7>1. Suspends(suspended[w][i])
              BY <5>4 DEF IInv, Registry
            <7>2. QED
              BY <2>1, <6>2, <7>1 DEF Sheltered, Suspends
          <6>4. CASE i \in over' \cup mishaps
            BY <1>1, <6>4
          <6>5. CASE i \notin over' \cup mishaps /\ CancelTask(i) \in Tasks
            <7>1. <<i, n>> \in done
              BY <1>2, <5>4, <6>1, <6>3, <6>5 DEF StateSync
            <7>2. setup.cancels /\ crashes = 0
              <8>1. CancelTask(i).kind = "cancel"
                BY DEF CancelTask
              <8>2. setup.cancels
                BY <6>5, <8>1 DEF NInv
              <8>3. QED
                BY <2>1, <8>2 DEF Sheltered
            <7>3. Onward(i, n, AllOwed)
              BY <6>1, <6>2, <6>5, <7>1, <7>2 DEF NInv, Suspends
            <7>4. Onward(i, n, Pool(w))
              BY <7>2, <7>3 DEF Pool
            <7>5. QED
              BY <3>3, <7>1, <7>4
          <6>6. CASE i \notin over' \cup mishaps /\ CancelTask(i) \notin Tasks
            <7>1. Logged(Remove(i))
              <8>1. ev = Remove(i)
                <9>1. synced[w] + 1 \in 1..Len(stateLog)
                  BY <1>1
                <9>2. QED
                  BY <1>2, <6>1, <9>1 DEF IInv, Log, EventOK
              <8>2. synced[w] + 1 \in 1..Len(stateLog)
                BY <1>1
              <8>3. QED
                BY <1>2, <8>1, <8>2 DEF Logged
            <7>2. Removable(i, {})
              BY <6>1, <7>1 DEF NInv
            <7>3. PICK k \in Steps : Suspends(k) /\ <<i, k>> \in done /\ Onward(i, k, {})
              BY <1>1, <6>6, <7>2 DEF Removable
            <7>4. k = n
              BY <2>1, <6>2, <7>3 DEF Sheltered, Suspends
            <7>5. Onward(i, n, Pool(w))
              BY <7>3, <7>4 DEF Onward
            <7>6. QED
              BY <3>3, <7>3, <7>4, <7>5
          <6>7. QED
            BY <6>4, <6>5, <6>6
        <5>5. QED
          BY <3>3, <5>2, <5>3, <5>4
      <4>3. QED
        BY <4>1, <4>2
    <3>5. QED
      BY <1>1, <1>3, <2>4, <3>4 DEF Kept
  <2>5. QED
    BY <2>3, <2>4
<1>7. QED
  BY <1>1, <1>6, QuietNI

LEMMA CrashNI == ASSUME IInv, NInv, NEW w \in Workers, Crash(w) PROVE NInv'
<1>1. /\ UNCHANGED <<setup, delivered, settled, stateLog, dlq, synced, done, over, mishaps>>
      /\ crashes \in Nat /\ crashes' = crashes + 1 /\ alive' = alive \ {w} /\ w \in alive
      /\ alive \subseteq Workers
  BY Constants DEF Crash, history, NInv, IInv, Shape
<1>2. /\ task'[w] = NoTask /\ todo'[w] = <<>>
      /\ \A v \in Workers \ {w} : /\ task'[v] = task[v] /\ todo'[v] = todo[v]
                                  /\ suspended'[v] = suspended[v]
  BY DEF Crash, IInv, Shape
<1>3. Tasks' = Tasks /\ Last' = Last /\ Steps' = Steps
  BY <1>1 DEF Tasks, Last, Steps
<1>4. Extends /\ Log
  BY <1>1, <1>3 DEF Extends, Grows, IInv, Log
<1>5. ASSUME NEW v \in Workers PROVE Held(v)'
  <2>1. CASE v = w
    BY <1>2, <2>1, ShortContents DEF Held, Owing
  <2>2. CASE v # w
    BY <1>2, <1>4, <2>2, HeldKept DEF NInv
  <2>3. QED
    BY <2>1, <2>2
<1>6. \A x \in settled : x.kind = "step" /\ x.inst \notin mishaps => Fate(x, {})'
  <2>1. \A x : Fate(x, {}) /\ x.inst \notin mishaps' => Fate(x, {})'
    BY <1>4, FateKept, CarriedMore
  <2>2. QED
    BY <1>1, <2>1 DEF NInv
<1>7. \A i \in Instances : Logged(Remove(i))' => Removable(i, {})'
  <2>1. \A i : Removable(i, {}) => Removable(i, {})'
    BY <1>4, RemovableKept, CarriedMore
  <2>2. \A i : Logged(Remove(i))' => Logged(Remove(i))
    BY <1>1 DEF Logged, Remove
  <2>3. QED
    BY <2>1, <2>2 DEF NInv
<1>8. ASSUME Sheltered', NEW v \in alive' PROVE Kept(v)'
  <2>1. ~setup.cancels /\ Sheltered
    BY <1>1, <1>3, <1>8 DEF Sheltered, Suspends
  <2>2. v \in Workers /\ v # w /\ Kept(v)
    BY <1>1, <1>8, <2>1 DEF NInv
  <2>3. Pool(v)' = Pool(v)
    BY <1>1, <1>2, <2>1, <2>2 DEF Pool, Owing, Content
  <2>4. QED
    BY <1>1, <1>2, <1>4, <2>2, <2>3, KeptKept, CarriedMore
<1>9. crashes' \in Nat /\ crashes' # 0
  BY <1>1
<1>10. QED
  BY <1>1, <1>3, <1>5, <1>6, <1>7, <1>8, <1>9 DEF NInv

LEMMA StillNI ==
  ASSUME IInv, NInv,
         UNCHANGED <<setup, delivered, settled, stateLog, dlq, alive, task, todo, suspended, synced,
                     crashes, done, over, mishaps>>
  PROVE  NInv'
<1>1. Extends /\ crashes \in Nat
  BY DEF Extends, Grows, NInv, IInv, Log, Tasks
<1>2. ASSUME Sheltered', NEW v \in alive PROVE Kept(v)'
  <2>1. Sheltered /\ v \in Workers
    BY <1>2, Constants DEF Sheltered, Steps, Last, Suspends, IInv, Shape
  <2>2. Pool(v)' = Pool(v)
    BY DEF Pool, AllOwed, Owing, Content
  <2>3. QED
    BY <1>1, <2>1, <2>2, KeptKept, CarriedMore DEF NInv
<1>3. QED
  BY <1>1, <1>2, QuietNI

LEMMA NextNI == ASSUME IInv, NInv, [Next]_vars PROVE NInv'
<1>1. CASE UNCHANGED vars
  BY <1>1, StillNI DEF vars
<1>2. ASSUME NEW i \in Instances, Trigger(i) \/ Cancel(i) \/ \E w \in Workers : Resume(w, i)
      PROVE  NInv'
  BY <1>2, ClientNI
<1>3. ASSUME NEW t \in timers, TimerFires(t) PROVE NInv'
  BY <1>3, TimerNI
<1>4. ASSUME NEW w \in Workers, ProcessStep(w) \/ StateSync(w) \/ Crash(w) \/ AckWaitEnds(w)
      PROVE  NInv'
  <2>1. CASE AckWaitEnds(w)
    BY <2>1, StillNI DEF AckWaitEnds, workers, history
  <2>2. CASE ProcessStep(w)
    BY <2>2, TakingNI, SendingNI, OthersNI DEF ProcessStep
  <2>3. QED
    BY <1>4, <2>1, <2>2, SyncNI, CrashNI
<1>5. QED
  BY <1>1, <1>2, <1>3, <1>4 DEF Next

LEMMA InitNI == Init => NInv
<1> SUFFICES ASSUME Init PROVE NInv
  OBVIOUS
<1>1. Tasks = {} /\ settled = {} /\ crashes = 0 /\ done = {}
  BY DEF Init, Tasks
<1>2. \A ev : ~Logged(ev)
  BY DEF Init, Logged
<1>3. \A w \in Workers : Held(w)
  BY ShortContents DEF Init, Held, Owing
<1>4. \A w \in alive : Kept(w)
  BY Constants DEF Init, Kept
<1>5. QED
  BY <1>1, <1>2, <1>3, <1>4 DEF NInv

LEMMA SecondInvariant == Spec => []NInv
<1>1. IInv /\ IInv' /\ NInv /\ [Next]_vars => NInv'
  BY NextNI
<1>2. QED
  BY <1>1, InitNI, Invariant, PTL DEF Spec

LEMMA GreatestExists ==
  ASSUME NEW S \in SUBSET Nat, NEW b \in Nat, S # {}, \A x \in S : x <= b
  PROVE  \E x \in S : \A y \in S : y <= x
<1> DEFINE T == {b - x : x \in S}
<1>1. T \in SUBSET Nat /\ T # {}
  <2>1. \A x \in S : b - x \in Nat
    OBVIOUS
  <2>2. PICK x \in S : TRUE
    OBVIOUS
  <2>3. b - x \in T
    OBVIOUS
  <2>4. QED
    BY <2>1, <2>3
<1>2. PICK t \in T : \A u \in T : ~ (<<u, t>> \in OpToRel(<, Nat))
  BY <1>1, WFMin, NatLessThanWellFounded
<1>3. PICK x \in S : t = b - x
  BY <1>2
<1>4. ASSUME NEW y \in S PROVE y <= x
  <2>1. b - y \in T /\ b - y \in Nat /\ t \in Nat
    BY <1>1
  <2>2. ~ (b - y < t)
    BY <1>2, <2>1 DEF OpToRel
  <2>3. QED
    BY <1>3, <2>2
<1>5. QED
  BY <1>4

\* The last step of an instance that was stored, at its last attempt.
LEMMA LastStep ==
  ASSUME IInv, NEW i \in Instances, Triggered(i)
  PROVE  \E n \in Steps : \E k \in Nat :
           /\ Step(i, n, k) \in Tasks /\ Step(i, n, k + 1) \notin Tasks
           /\ \A l : Step(i, n + 1, l) \notin Tasks
<1>1. /\ setup \in Setups /\ Last \in Nat \ {0} /\ MaxRetries \in Nat
      /\ Steps = 1..Last
  BY Constants DEF IInv, Shape, Steps
<1>2. \A n, k : Step(i, n, k) \in Tasks => n \in Steps /\ k \in 0..(MaxRetries - 1)
  <2>1. \A n, k : Step(i, n, k).kind = "step" /\ Step(i, n, k).n = n /\ Step(i, n, k).k = k
    BY DEF Step
  <2>2. QED
    BY <2>1 DEF IInv, Stream, TaskOK
<1> DEFINE N == {n \in Steps : \E k : Step(i, n, k) \in Tasks}
<1>3. N \in SUBSET Nat /\ N # {} /\ \A n \in N : n <= Last
  BY <1>1, <1>2 DEF Triggered
<1>4. PICK n \in N : \A x \in N : x <= n
  BY <1>1, <1>3, GreatestExists
<1> DEFINE K == {k \in Nat : Step(i, n, k) \in Tasks}
<1>5. K \in SUBSET Nat /\ K # {} /\ \A k \in K : k <= MaxRetries
  BY <1>1, <1>2, <1>4
<1>6. PICK k \in K : \A x \in K : x <= k
  BY <1>1, <1>5, GreatestExists
<1>7. Step(i, n, k + 1) \notin Tasks
  BY <1>6
<1>8. n \in Nat /\ ~ (n + 1 <= n)
  BY <1>1
<1>9. ASSUME NEW l, Step(i, n + 1, l) \in Tasks PROVE FALSE
  BY <1>2, <1>4, <1>8, <1>9
<1>10. QED
  BY <1>6, <1>7, <1>9

LEMMA NotLostHolds == ASSUME IInv, NInv, Sheltered, alive # {} PROVE NotLost
<1> SUFFICES ASSUME NEW i \in Instances, Triggered(i), ~Ended(i), i \notin mishaps,
                    \A m \in Tasks : m.inst = i /\ m.kind = "step" => m \in settled
             PROVE  \E w \in alive :
                      \/ i \in DOMAIN suspended[w]
                      \/ \E j \in (synced[w] + 1)..Len(stateLog) :
                           stateLog[j].inst = i /\ stateLog[j].kind = "park"
                      \/ \E j \in 1..Len(todo[w]) :
                           todo[w][j].do = "publish" /\ todo[w][j].msg.inst = i
  BY DEF NotLost
<1>1. PICK n \in Steps, k \in Nat :
        /\ Step(i, n, k) \in Tasks /\ Step(i, n, k + 1) \notin Tasks
        /\ \A l : Step(i, n + 1, l) \notin Tasks
  BY LastStep
<1> DEFINE m == Step(i, n, k)
<1>2. m.inst = i /\ m.kind = "step" /\ m.n = n /\ m.k = k
  BY DEF Step
<1>3. Fate(m, {})
  BY <1>1, <1>2 DEF NInv
<1>4. \A O : <<i, n>> \in done /\ Onward(i, n, O) => Publish(Step(i, n + 1, 0)) \in O
  BY <1>1 DEF Onward, Ended
<1>5. <<i, n>> \notin dlq
  BY DEF Ended, HasFailed
<1>6. Logged(Park(i, n))
  BY <1>1, <1>2, <1>3, <1>4, <1>5 DEF Fate
<1>7. PICK j \in 1..Len(stateLog) : stateLog[j] = Park(i, n)
  BY <1>6 DEF Logged
<1>8. stateLog[j].inst = i /\ stateLog[j].kind = "park" /\ stateLog[j].n = n
  BY <1>7 DEF Park
<1>9. PICK w \in alive : TRUE
  OBVIOUS
<1>10. w \in Workers /\ synced[w] \in Nat /\ Len(stateLog) \in Nat
  BY Constants DEF IInv, Shape, Log
<1>11. CASE j > synced[w]
  <2>1. j \in (synced[w] + 1)..Len(stateLog)
    BY <1>10, <1>11
  <2>2. QED
    BY <1>8, <2>1
<1>12. CASE ~(j > synced[w])
  <2>1. j \in 1..synced[w] /\ Kept(w)
    BY <1>10, <1>12 DEF NInv
  <2>2. \/ i \in over \cup mishaps \cup DOMAIN suspended[w]
        \/ <<i, n>> \in done /\ Onward(i, n, Pool(w))
    BY <1>8, <2>1 DEF Kept
  <2>3. i \notin over
    BY DEF Ended
  <2>4. CASE i \in DOMAIN suspended[w]
    BY <2>4
  <2>5. CASE Publish(Step(i, n + 1, 0)) \in Pool(w)
    <3>1. PICK v \in Workers : Publish(Step(i, n + 1, 0)) \in Owing(v)
      BY <1>10, <2>5 DEF Pool, AllOwed
    <3>2. PICK l \in 1..Len(todo[v]) : todo[v][l] = Publish(Step(i, n + 1, 0))
      BY <3>1 DEF Owing, Content
    <3>3. todo[v][l].do = "publish" /\ todo[v][l].msg.inst = i
      BY <3>2 DEF Publish, Step
    <3>4. v \in alive
      <4>1. todo[v] # <<>>
        BY <3>2
      <4>2. QED
        BY <4>1 DEF IInv, Worker
    <3>5. QED
      BY <3>3, <3>4
  <2>6. QED
    BY <1>4, <2>2, <2>3, <2>4, <2>5
<1>13. QED
  BY <1>11, <1>12

\* Whatever processLoop, stateSync and the broker do in whatever order, an instance
\* that has not ended is not lost, as long as a worker lives, the workflow has at most
\* one suspend step (with two it is lost, as the run workflow_twice shows) and
\* nothing is cancelled where workers die.
THEOREM NothingLost == Spec => [](Sheltered /\ alive # {} => NotLost)
<1>1. IInv /\ NInv => (Sheltered /\ alive # {} => NotLost)
  BY NotLostHolds
<1>2. QED
  BY <1>1, Invariant, SecondInvariant, PTL

-----------------------------------------------------------------------------
(* The registries agree: the third inductive invariant.                    *)

Parked(i, n) == Logged(Park(i, n)) \/ Announce(Park(i, n)) \in AllOwed

\* An attempt that was not handled yet, or is to be retried, is the last one there
\* is, and none of that step has parked the instance.
Latest(m) ==
  /\ \A x \in Tasks : x.kind = "step" /\ x.inst = m.inst /\ x.n = m.n => x.k <= m.k
  /\ ~Parked(m.inst, m.n)

Attempts ==
  /\ \A m \in Tasks : m.kind = "step" => Step(m.inst, m.n, 0) \in Tasks
  /\ \A i \in Instances : \A n \in Steps : Parked(i, n) => Step(i, n, 0) \in Tasks
  /\ \A m \in Tasks : m.kind = "step" /\ Once(m.inst) /\ delivered[m] = 0 => Latest(m)

\* A worker that retries a step, or parks its instance, is the only one.
Alone(w) ==
  todo[w] # <<>> /\ Once(task[w].inst) =>
    /\ Head(todo[w]).do = "republish" => Latest(task[w])
    /\ Announce(Park(task[w].inst, task[w].n)) \in Owing(w) =>
         /\ ~Logged(Park(task[w].inst, task[w].n))
         /\ \A v \in Workers \ {w} : Announce(Park(task[w].inst, task[w].n)) \notin Owing(v)

\* What a registry owes to the state stream, and to its worker's own steps.
Agrees(w) ==
  \A i \in Instances \ mishaps :
    /\ (\E p \in 1..synced[w] : stateLog[p].kind = "park" /\ stateLog[p].inst = i) =>
         \/ Events("remove", i) # {} \/ i \in DOMAIN suspended[w]
         \/ Announce(Remove(i)) \in Owing(w)
    /\ i \in DOMAIN suspended[w] /\ Once(i) =>
         \A r \in Events("remove", i) : r <= synced[w] =>
           \/ \E n \in Steps : Announce(Park(i, n)) \in Owing(w)
           \/ \E p \in Events("park", i) : p > r

RInv ==
  /\ Attempts
  /\ \A w \in Workers : Alone(w)
  /\ \A w \in alive : Agrees(w)

\* Tasks, deliveries and events only increase.
Later ==
  /\ setup' = setup /\ mishaps \subseteq mishaps' /\ Tasks \subseteq Tasks'
  /\ \A m \in Tasks : delivered[m] \in Nat /\ delivered'[m] \in Nat /\ delivered[m] <= delivered'[m]
  /\ Len(stateLog) \in Nat /\ Len(stateLog') \in Nat /\ Len(stateLog) <= Len(stateLog')
  /\ \A j \in 1..Len(stateLog) : stateLog'[j] = stateLog[j]

LEMMA OnceEarlier == ASSUME Later, NEW i, Once(i)' PROVE Once(i)
<1> SUFFICES ASSUME NEW m \in Tasks, m.inst = i, m.kind = "step" PROVE delivered[m] <= 1
  BY DEF Once
<1>1. m \in Tasks' /\ delivered[m] <= delivered'[m] /\ delivered[m] \in Nat /\ delivered'[m] \in Nat
  BY DEF Later
<1>2. delivered'[m] <= 1
  BY <1>1 DEF Once
<1>3. QED
  BY <1>1, <1>2

LEMMA EventsKept ==
  ASSUME Later, NEW kind, NEW i
  PROVE  /\ Events(kind, i) \subseteq Events(kind, i)'
         /\ \A r \in Events(kind, i)' : r <= Len(stateLog) => r \in Events(kind, i)
  BY DEF Later, Events

\* What is logged stays, and what is in the log is an event.
LEMMA LoggedLater == ASSUME Later, NEW ev, Logged(ev) PROVE Logged(ev)'
  BY DEF Later, Logged

\* The step task of two equal attempts is the same one.
LEMMA SameStep ==
  ASSUME IInv, NEW x \in Tasks, NEW y \in Tasks, x.kind = "step", y.kind = "step",
         x.inst = y.inst, x.n = y.n, Latest(x), Latest(y)
  PROVE  x = y
<1>1. x \in TaskSet /\ y \in TaskSet
  BY DEF IInv, Stream, TaskOK
<1>2. x.k <= y.k /\ y.k <= x.k /\ x.k \in Nat /\ y.k \in Nat
  BY <1>1 DEF Latest, TaskSet
<1>3. x.k = y.k
  BY <1>2
<1>4. QED
  BY <1>1, <1>3 DEF TaskSet

LEMMA StepIs ==
  ASSUME IInv, NEW x \in Tasks, x.kind = "step"
  PROVE  x = Step(x.inst, x.n, x.k) /\ x.k \in Nat /\ x.n \in Steps /\ x.inst \in Instances
<1>1. x \in TaskSet /\ x.n \in Steps
  BY DEF IInv, Stream, TaskOK
<1>2. QED
  BY <1>1 DEF TaskSet, Step

-----------------------------------------------------------------------------
(* Attempts.                                                               *)

\* A step task that is stored for the first time is a first attempt, or the retry
\* that its worker owed first.
NewTask(m) ==
  m \notin Tasks /\ m.kind = "step" =>
    \/ m.k = 0 /\ m = Step(m.inst, m.n, 0)
    \/ \E w \in Workers :
         /\ todo[w] # <<>> /\ Head(todo[w]).do = "republish" /\ task[w].kind = "step"
         /\ m = Step(task[w].inst, task[w].n, task[w].k + 1)
         /\ todo'[w] = <<>> \/ Head(todo'[w]).do # "republish"

\* Nobody takes a task; the lists get shorter; m may be stored; parks may be logged.
Shrinks(m) ==
  /\ Later /\ DOMAIN todo' = Workers
  /\ Tasks' = Tasks \/ Tasks' = Tasks \cup {m}
  /\ \A x \in Tasks : delivered'[x] = delivered[x]
  /\ NewTask(m)
  /\ \A v \in Workers :
       /\ \A ev : Announce(ev) \in Owing(v)' => Announce(ev) \in Owing(v)
       /\ todo'[v] # <<>> =>
            /\ todo[v] # <<>> /\ task'[v] = task[v]
            /\ Head(todo'[v]).do = "republish" => Head(todo[v]).do = "republish"
  /\ \A i, n : Parked(i, n)' => Parked(i, n)
  /\ \A i, n : Logged(Park(i, n))' /\ ~Logged(Park(i, n)) =>
       \E w \in Workers : /\ todo[w] # <<>> /\ task[w].inst = i /\ task[w].n = n
                          /\ Announce(Park(i, n)) \in Owing(w)
                          /\ Announce(Park(i, n)) \notin Owing(w)'

\* Who is the latest before the new task comes is not handled, and no other retries.
LEMMA LatestKept ==
  ASSUME IInv, RInv, NEW m, Shrinks(m), NEW x \in Tasks, x.kind = "step", Latest(x),
         Once(x.inst),
         \/ delivered[x] = 0
         \/ \E v \in Workers : /\ todo[v] # <<>> /\ task[v] = x
                               /\ todo'[v] # <<>> /\ Head(todo'[v]).do = "republish"
  PROVE  Latest(x)'
<1>1. ~Parked(x.inst, x.n)'
  BY DEF Latest, Shrinks
<1>2. x.k \in Nat
  BY StepIs
<1>3. ASSUME m \notin Tasks, m.kind = "step", m.inst = x.inst, m.n = x.n PROVE m.k <= x.k
  <2>1. CASE m.k = 0
    BY <1>2, <2>1
  <2>2. ASSUME NEW w \in Workers, todo[w] # <<>>, Head(todo[w]).do = "republish",
               task[w].kind = "step", m = Step(task[w].inst, task[w].n, task[w].k + 1),
               todo'[w] = <<>> \/ Head(todo'[w]).do # "republish"
        PROVE  FALSE
    <3>1. task[w].inst = x.inst /\ task[w].n = x.n /\ task[w] \in Tasks /\ task[w] # NoTask
      BY <1>3, <2>2, HeadFacts DEF Step
    <3>2. Latest(task[w])
      BY <2>2, <3>1 DEF RInv, Alone
    <3>3. task[w] = x
      BY <2>2, <3>1, <3>2, SameStep
    <3>4. delivered[x] >= 1 /\ delivered[x] \in Nat /\ delivered[x] <= 1
      BY <3>1, <3>3 DEF IInv, Holders, Later, Shrinks, Once
    <3>5. PICK v \in Workers : /\ task[v] = x /\ todo'[v] # <<>> /\ Head(todo'[v]).do = "republish"
      BY <3>4
    <3>6. v # w
      BY <2>2, <3>5
    <3>7. delivered[x] >= 2
      BY <3>1, <3>3, <3>5, <3>6 DEF IInv, Holders
    <3>8. QED
      BY <3>4, <3>7
  <2>3. QED
    BY <1>3, <2>1, <2>2 DEF Shrinks, NewTask
<1>4. \A y \in Tasks' : y.kind = "step" /\ y.inst = x.inst /\ y.n = x.n => y.k <= x.k
  BY <1>3 DEF Latest, Shrinks
<1>5. QED
  BY <1>1, <1>4 DEF Latest

LEMMA AttemptsKept == ASSUME IInv, IInv', RInv, NEW m, Shrinks(m) PROVE Attempts' /\ \A w \in Workers : Alone(w)'
<1>0. /\ Later /\ Attempts /\ Steps' = Steps /\ \A i : Once(i)' => Once(i)
  BY OnceEarlier DEF Shrinks, RInv, Later, Steps, Last
<1>1. \A x \in Tasks' \ Tasks : x = m
  BY DEF Shrinks
<1>2. ASSUME NEW x \in Tasks', x.kind = "step" PROVE Step(x.inst, x.n, 0) \in Tasks'
  <2>1. CASE x \in Tasks
    BY <1>0, <1>2, <2>1 DEF Attempts, Later
  <2>2. CASE x \notin Tasks /\ x = Step(x.inst, x.n, 0)
    BY <2>2
  <2>3. ASSUME NEW w \in Workers, todo[w] # <<>>, task[w].kind = "step",
               x = Step(task[w].inst, task[w].n, task[w].k + 1)
        PROVE  Step(x.inst, x.n, 0) \in Tasks'
    <3>1. Step(task[w].inst, task[w].n, 0) \in Tasks
      BY <1>0, <2>3, HeadFacts DEF Attempts
    <3>2. x.inst = task[w].inst /\ x.n = task[w].n
      BY <2>3 DEF Step
    <3>3. QED
      BY <1>0, <3>1, <3>2 DEF Later
  <2>4. QED
    BY <1>1, <1>2, <2>1, <2>2, <2>3 DEF Shrinks, NewTask
<1>3. \A i \in Instances : \A n \in Steps : Parked(i, n)' => Step(i, n, 0) \in Tasks'
  BY <1>0 DEF Shrinks, Attempts, Later
<1>4. ASSUME NEW x \in Tasks', x.kind = "step", Once(x.inst)', delivered'[x] = 0 PROVE Latest(x)'
  <2>1. CASE x \in Tasks
    <3>1. delivered[x] = 0 /\ Once(x.inst)
      BY <1>0, <1>4, <2>1 DEF Shrinks
    <3>2. Latest(x)
      BY <1>0, <1>4, <2>1, <3>1 DEF Attempts
    <3>3. QED
      BY <1>4, <2>1, <3>1, <3>2, LatestKept
  <2>2. CASE x \notin Tasks /\ x = Step(x.inst, x.n, 0)
    <3>1. \A y \in Tasks : ~(y.kind = "step" /\ y.inst = x.inst /\ y.n = x.n)
      BY <1>0, <2>2 DEF Attempts
    <3>2. x.k = 0 /\ \A y \in Tasks' : y.kind = "step" /\ y.inst = x.inst /\ y.n = x.n => y.k <= x.k
      BY <1>1, <2>2, <3>1 DEF Step
    <3>3. ~Parked(x.inst, x.n)
      <4>1. x.inst \in Instances /\ x.n \in Steps
        BY <1>0, <1>4 DEF IInv, Stream, TaskOK, TaskSet
      <4>2. QED
        BY <1>0, <2>2, <4>1 DEF Attempts
    <3>4. QED
      BY <3>2, <3>3 DEF Latest, Shrinks
  <2>3. ASSUME x \notin Tasks, NEW w \in Workers, todo[w] # <<>>,
               Head(todo[w]).do = "republish", task[w].kind = "step",
               x = Step(task[w].inst, task[w].n, task[w].k + 1)
        PROVE  Latest(x)'
    <3>1. /\ x.inst = task[w].inst /\ x.n = task[w].n /\ x.k = task[w].k + 1
          /\ task[w] \in Tasks
      BY <2>3, HeadFacts DEF Step
    <3>2. Latest(task[w]) /\ task[w].k \in Nat
      BY <1>0, <1>4, <2>3, <3>1, StepIs DEF RInv, Alone
    <3>3. \A y \in Tasks : y.kind = "step" /\ y.inst = x.inst /\ y.n = x.n => y.k <= x.k
      <4> SUFFICES ASSUME NEW y \in Tasks, y.kind = "step", y.inst = x.inst, y.n = x.n
                   PROVE  y.k <= x.k
        OBVIOUS
      <4>1. y.k <= task[w].k /\ y.k \in Nat
        BY <3>1, <3>2, StepIs DEF Latest
      <4>2. PICK l \in Nat : l = task[w].k /\ x.k = l + 1
        BY <3>1, <3>2
      <4>3. \A a \in Nat : a <= l => a <= l + 1
        OBVIOUS
      <4>4. y.k \in Nat /\ y.k <= l
        BY <4>1, <4>2
      <4>5. y.k <= l + 1
        BY <4>3, <4>4
      <4>6. QED
        BY <4>2, <4>5
    <3>4. \A y \in Tasks' : y.kind = "step" /\ y.inst = x.inst /\ y.n = x.n => y.k <= x.k
      <4>1. \A y \in Tasks' : y \in Tasks \/ y = x
        BY <1>1, <2>3, <1>4
      <4>2. x.k \in Nat
        BY <3>1, <3>2
      <4>3. x.k <= x.k
        BY <4>2
      <4>4. QED
        BY <3>3, <4>1, <4>3
    <3>5. QED
      BY <3>1, <3>2, <3>4 DEF Latest, Shrinks
  <2>4. QED
    BY <1>1, <1>4, <2>1, <2>2, <2>3 DEF Shrinks, NewTask
<1>5. ASSUME NEW v \in Workers PROVE Alone(v)'
  <2> SUFFICES ASSUME todo'[v] # <<>>, NEW t, t = task'[v], Once(t.inst)',
                      NEW e, e = Announce(Park(t.inst, t.n))
               PROVE  /\ Head(todo'[v]).do = "republish" => Latest(t)'
                      /\ e \in Owing(v)' =>
                           /\ ~Logged(Park(t.inst, t.n))'
                           /\ \A u \in Workers \ {v} : e \notin Owing(u)'
    BY DEF Alone
  <2>1. /\ todo[v] # <<>> /\ t = task[v] /\ t \in Tasks /\ t # NoTask /\ Once(t.inst)
        /\ Head(todo'[v]).do = "republish" => Head(todo[v]).do = "republish"
    BY <1>0, HeadFacts DEF Shrinks
  <2>2. Alone(v)
    BY DEF RInv
  <2>3. ASSUME Head(todo'[v]).do = "republish" PROVE Latest(t)'
    <3>1. Latest(t) /\ EffectOK(done, task[v], Head(todo[v]))
      BY <2>1, <2>2, <2>3, HeadFacts DEF Alone
    <3>2. t.kind = "step"
      BY <2>1, <2>3, <3>1 DEF EffectOK
    <3>3. QED
      BY <2>1, <2>3, <3>1, <3>2, LatestKept
  <2>4. ASSUME e \in Owing(v)'
        PROVE  /\ ~Logged(Park(t.inst, t.n))'
               /\ \A u \in Workers \ {v} : e \notin Owing(u)'
    <3>1. e \in Owing(v) /\ \A u \in Workers : e \in Owing(u)' => e \in Owing(u)
      BY <2>4 DEF Shrinks
    <3>2. ~Logged(Park(t.inst, t.n)) /\ \A u \in Workers \ {v} : e \notin Owing(u)
      BY <2>1, <2>2, <3>1 DEF Alone
    <3>3. ASSUME Logged(Park(t.inst, t.n))' PROVE FALSE
      <4>1. PICK w \in Workers : e \in Owing(w) /\ e \notin Owing(w)'
        BY <3>2, <3>3 DEF Shrinks
      <4>2. w # v
        BY <2>4, <4>1
      <4>3. QED
        BY <3>2, <4>1, <4>2
    <3>4. QED
      BY <3>1, <3>2, <3>3
  <2>5. QED
    BY <2>3, <2>4
<1>6. QED
  BY <1>0, <1>2, <1>3, <1>4, <1>5 DEF Attempts

\* A task is taken, and q is what its worker comes to owe: only a step task is
\* retried or parks, and not both.
LEMMA AttemptsTaken ==
  ASSUME IInv, RInv, NEW w \in Workers, NEW m \in ready, Taken(w, m), NEW q,
         todo' = [todo EXCEPT ![w] = q], Later,
         q # <<>> /\ Head(q).do = "republish" => m.kind = "step",
         \A i, n : Announce(Park(i, n)) \in Content(q) =>
           m.kind = "step" /\ i = m.inst /\ n = m.n /\ Head(q).do # "republish"
  PROVE  Attempts' /\ \A v \in Workers : Alone(v)'
<1>0. /\ m \in Tasks /\ todo[w] = <<>> /\ UNCHANGED <<setup, stateLog>> /\ Attempts
      /\ m # NoTask /\ delivered[m] \in Nat
  BY DEF Taken, IInv, Stream, Later, TaskOK, TaskSet, NoTask, RInv
<1>1. /\ Tasks' = Tasks /\ delivered'[m] = delivered[m] + 1
      /\ \A x \in Tasks \ {m} : delivered'[x] = delivered[x]
  BY <1>0 DEF Taken, Tasks
<1>2. /\ task'[w] = m /\ todo'[w] = q
      /\ \A v \in Workers \ {w} : task'[v] = task[v] /\ todo'[v] = todo[v]
  BY DEF Taken, IInv, Shape
<1>3. /\ Owing(w) = {} /\ Owing(w)' = Content(q)
      /\ \A v \in Workers \ {w} : Owing(v)' = Owing(v)
  BY <1>0, <1>2, ShortContents DEF Owing
<1>4. \A ev : Logged(ev)' <=> Logged(ev)
  BY <1>0 DEF Logged
<1>5. \A i, n : Parked(i, n)' => Parked(i, n) \/ (m.kind = "step" /\ i = m.inst /\ n = m.n)
  <2>1. \A e : e \in AllOwed' => e \in AllOwed \/ e \in Content(q)
    BY <1>3 DEF AllOwed
  <2>2. QED
    BY <1>4, <2>1 DEF Parked
<1>6. \A i : Once(i)' => Once(i)
  BY OnceEarlier
<1>7. m.kind = "step" /\ Once(m.inst)' => delivered[m] = 0 /\ Latest(m)
  <2> SUFFICES ASSUME m.kind = "step", Once(m.inst)' PROVE delivered[m] = 0 /\ Latest(m)
    OBVIOUS
  <2>1. delivered'[m] <= 1
    BY <1>0, <1>1 DEF Once
  <2>2. delivered[m] = 0
    BY <1>0, <1>1, <2>1
  <2>3. QED
    BY <1>0, <1>6, <2>2 DEF Attempts
<1>8. ASSUME NEW x \in Tasks, x.kind = "step", Once(x.inst)', Latest(x), x # m
      PROVE  Latest(x)'
  <2>1. ~Parked(x.inst, x.n)'
    <3>1. m.kind = "step" /\ x.inst = m.inst /\ x.n = m.n => x = m
      BY <1>0, <1>7, <1>8, SameStep
    <3>2. QED
      BY <1>5, <1>8, <3>1 DEF Latest
  <2>2. QED
    BY <1>1, <1>8, <2>1 DEF Latest
<1>9. Attempts'
  <2>1. \A i \in Instances : \A n \in Steps : Parked(i, n)' => Step(i, n, 0) \in Tasks
    BY <1>0, <1>5 DEF Attempts
  <2>2. ASSUME NEW x \in Tasks, x.kind = "step", Once(x.inst)', delivered'[x] = 0
        PROVE  Latest(x)'
    <3>1. x # m
      BY <1>0, <1>1, <2>2
    <3>2. Latest(x)
      BY <1>0, <1>1, <1>6, <2>2, <3>1 DEF Attempts
    <3>3. QED
      BY <1>8, <2>2, <3>1, <3>2
  <2>3. Steps' = Steps
    BY <1>0 DEF Steps, Last
  <2>4. QED
    BY <1>0, <1>1, <2>1, <2>2, <2>3 DEF Attempts
<1>10. ASSUME NEW v \in Workers \ {w} PROVE Alone(v)'
  <2> SUFFICES ASSUME todo[v] # <<>>, NEW t, t = task[v], Once(t.inst)',
                      NEW e, e = Announce(Park(t.inst, t.n))
               PROVE  /\ Head(todo[v]).do = "republish" => Latest(t)'
                      /\ e \in Owing(v) =>
                           /\ ~Logged(Park(t.inst, t.n))
                           /\ \A u \in Workers \ {v} : e \notin Owing(u)'
    BY <1>2, <1>3, <1>4 DEF Alone
  <2>1. t \in Tasks /\ t # NoTask /\ Once(t.inst) /\ Alone(v)
    BY <1>6, HeadFacts DEF RInv
  <2>2. delivered[t] >= 1
    BY <2>1 DEF IInv, Holders
  <2>3. ASSUME Head(todo[v]).do = "republish" PROVE Latest(t)'
    <3>1. t.kind = "step" /\ Latest(t)
      BY <2>1, <2>3, HeadFacts DEF EffectOK, Alone
    <3>2. t # m
      BY <1>0, <1>7, <2>2, <3>1
    <3>3. QED
      BY <1>8, <2>1, <3>1, <3>2
  <2>4. ASSUME e \in Owing(v)
        PROVE  ~Logged(Park(t.inst, t.n)) /\ \A u \in Workers \ {v} : e \notin Owing(u)'
    <3>1. ~Logged(Park(t.inst, t.n)) /\ \A u \in Workers \ {v} : e \notin Owing(u)
      BY <2>1, <2>4 DEF Alone
    <3>2. ASSUME e \in Content(q) PROVE FALSE
      <4>1. m.kind = "step" /\ t.inst = m.inst /\ t.n = m.n
        BY <3>2
      <4>2. ~Parked(t.inst, t.n)
        BY <1>7, <4>1 DEF Latest
      <4>3. QED
        BY <2>4, <4>2 DEF Parked, AllOwed
    <3>3. QED
      BY <1>3, <3>1, <3>2
  <2>5. QED
    BY <2>3, <2>4
<1>11. Alone(w)'
  <2> SUFFICES ASSUME q # <<>>, Once(m.inst)', NEW e, e = Announce(Park(m.inst, m.n))
               PROVE  /\ Head(q).do = "republish" => Latest(m)'
                      /\ e \in Content(q) =>
                           /\ ~Logged(Park(m.inst, m.n))
                           /\ \A u \in Workers \ {w} : e \notin Owing(u)
    BY <1>2, <1>3, <1>4 DEF Alone
  <2>1. ASSUME Head(q).do = "republish" PROVE Latest(m)'
    <3>1. Latest(m)
      BY <1>7, <2>1
    <3>2. ~Parked(m.inst, m.n)'
      <4>1. \A x \in AllOwed' : x \in AllOwed \/ x \in Content(q)
        BY <1>3 DEF AllOwed
      <4>2. e \notin Content(q)
        BY <2>1
      <4>3. QED
        BY <1>4, <3>1, <4>1, <4>2 DEF Latest, Parked
    <3>3. QED
      BY <1>1, <3>1, <3>2 DEF Latest
  <2>2. ASSUME e \in Content(q)
        PROVE  ~Logged(Park(m.inst, m.n)) /\ \A u \in Workers \ {w} : e \notin Owing(u)
    <3>1. Latest(m)
      BY <1>7, <2>2
    <3>2. QED
      BY <3>1 DEF Latest, Parked, AllOwed
  <2>3. QED
    BY <2>1, <2>2
<1>12. QED
  BY <1>9, <1>10, <1>11

-----------------------------------------------------------------------------
(* The registries.                                                         *)

LEMMA AgreesKept ==
  ASSUME IInv, Later, NEW w \in Workers, Agrees(w), synced'[w] = synced[w],
         \A i \in (Instances \ mishaps') \cap (DOMAIN suspended[w] \ DOMAIN suspended'[w]) :
           Announce(Remove(i)) \in Owing(w)',
         \A i \in (Instances \ mishaps') \cap (DOMAIN suspended'[w] \ DOMAIN suspended[w]) :
           \E n \in Steps : Announce(Park(i, n)) \in Owing(w)',
         \A i \in Instances \ mishaps' :
           Announce(Remove(i)) \in Owing(w) \ Owing(w)' => Logged(Remove(i))',
         \A i \in Instances \ mishaps' : \A n \in Steps :
           Once(i) /\ Announce(Park(i, n)) \in Owing(w) \ Owing(w)' =>
             \E p \in 1..Len(stateLog') : p > Len(stateLog) /\ stateLog'[p] = Park(i, n)
  PROVE  Agrees(w)'
<1>1. synced[w] \in Nat /\ Len(stateLog) \in Nat /\ synced[w] <= Len(stateLog) /\ Steps' = Steps
  BY DEF IInv, Shape, Log, Registry, Later, Steps, Last
<1>2. ASSUME NEW i \in Instances \ mishaps', NEW p \in 1..synced[w], stateLog'[p].kind = "park",
             stateLog'[p].inst = i
      PROVE  \/ Events("remove", i)' # {} \/ i \in DOMAIN suspended'[w]
             \/ Announce(Remove(i)) \in Owing(w)'
  <2>1. stateLog'[p] = stateLog[p] /\ i \in Instances \ mishaps
    BY <1>1 DEF Later
  <2>2. \/ Events("remove", i) # {} \/ i \in DOMAIN suspended[w]
        \/ Announce(Remove(i)) \in Owing(w)
    BY <1>2, <2>1 DEF Agrees
  <2>3. Events("remove", i) # {} => Events("remove", i)' # {}
    BY EventsKept
  <2>4. Logged(Remove(i))' => Events("remove", i)' # {}
    BY DEF Logged, Events, Remove
  <2>5. QED
    BY <1>2, <2>2, <2>3, <2>4
<1>3. ASSUME NEW i \in Instances \ mishaps', i \in DOMAIN suspended'[w], Once(i)',
             NEW r \in Events("remove", i)', r <= synced[w]
      PROVE  \/ \E n \in Steps : Announce(Park(i, n)) \in Owing(w)'
             \/ \E p \in Events("park", i)' : p > r
  <2>1. Once(i) /\ i \in Instances \ mishaps /\ r \in Nat
    <3>1. Once(i)
      BY <1>3, OnceEarlier
    <3>2. i \in Instances \ mishaps /\ r \in Nat
      BY <1>3 DEF Later, Events
    <3>3. QED
      BY <3>1, <3>2
  <2>2. r \in Events("remove", i) /\ r <= Len(stateLog)
    <3>1. r <= Len(stateLog)
      BY <1>1, <1>3, <2>1
    <3>2. QED
      BY <3>1, EventsKept
  <2>3. CASE i \notin DOMAIN suspended[w]
    BY <1>3, <2>3
  <2>4. CASE \E p \in Events("park", i) : p > r
    BY <2>4, EventsKept
  <2>5. CASE \E n \in Steps : Announce(Park(i, n)) \in Owing(w)
    <3>1. PICK n \in Steps : Announce(Park(i, n)) \in Owing(w)
      BY <2>5
    <3>2. CASE Announce(Park(i, n)) \notin Owing(w)'
      <4>1. PICK p \in 1..Len(stateLog') : p > Len(stateLog) /\ stateLog'[p] = Park(i, n)
        BY <2>1, <3>1, <3>2
      <4>2. p \in Events("park", i)'
        BY <4>1 DEF Events, Park
      <4>3. p > r
        BY <1>1, <2>1, <2>2, <4>1
      <4>4. QED
        BY <4>2, <4>3
    <3>3. QED
      BY <3>1, <3>2
  <2>6. QED
    BY <1>3, <2>1, <2>2, <2>3, <2>4, <2>5 DEF Agrees
<1>4. QED
  BY <1>1, <1>2, <1>3 DEF Agrees

-----------------------------------------------------------------------------
(* The steps.                                                              *)

LEMMA SameLater ==
  ASSUME IInv, setup' = setup, mishaps \subseteq mishaps', Tasks \subseteq Tasks',
         \A x \in Tasks : delivered'[x] = delivered[x], stateLog' = stateLog
  PROVE  Later
<1>1. MaxDeliver \in Nat
  BY Constants DEF IInv, Shape, MaxDeliver
<1>2. \A x \in Tasks : delivered[x] \in Nat
  BY <1>1 DEF IInv, Stream
<1>3. Len(stateLog) \in Nat
  BY DEF IInv, Log
<1>4. QED
  BY <1>2, <1>3 DEF Later

\* A first attempt or another task is stored, or none; a worker may die.
LEMMA QuietAttempts ==
  ASSUME IInv, IInv', RInv, NEW m, m.kind = "step" => m.k = 0 /\ m = Step(m.inst, m.n, 0),
         Tasks' = Tasks \/ Tasks' = Tasks \cup {m},
         \A x \in Tasks : delivered'[x] = delivered[x],
         setup' = setup, mishaps \subseteq mishaps', stateLog' = stateLog,
         \A v \in Workers : todo'[v] = <<>> \/ (todo'[v] = todo[v] /\ task'[v] = task[v])
  PROVE  Later /\ Attempts' /\ \A w \in Workers : Alone(w)'
<1>1. Later
  BY SameLater
<1>2. \A v \in Workers : Owing(v)' = {} \/ Owing(v)' = Owing(v)
  BY ShortContents DEF Owing
<1>3. \A ev : (Logged(ev)' <=> Logged(ev)) /\ (Announce(ev) \in AllOwed' => Announce(ev) \in AllOwed)
  BY <1>2 DEF Logged, AllOwed
<1>4. \A i, n : (Logged(Park(i, n))' <=> Logged(Park(i, n))) /\ (Parked(i, n)' => Parked(i, n))
  BY <1>3 DEF Parked
<1>5. DOMAIN todo' = Workers
  BY DEF IInv, Shape
<1>6. Shrinks(m)
  BY <1>1, <1>2, <1>4, <1>5 DEF Shrinks, NewTask
<1>7. QED
  BY <1>1, <1>6, AttemptsKept

\* The same, and what agrees goes on agreeing.
LEMMA QuietRI ==
  ASSUME IInv, IInv', RInv, NEW m, m.kind = "step" => m.k = 0 /\ m = Step(m.inst, m.n, 0),
         Tasks' = Tasks \/ Tasks' = Tasks \cup {m},
         \A x \in Tasks : delivered'[x] = delivered[x],
         setup' = setup, mishaps \subseteq mishaps', stateLog' = stateLog,
         synced' = synced, alive' \subseteq alive,
         \A v \in Workers : todo'[v] = <<>> \/ (todo'[v] = todo[v] /\ task'[v] = task[v]),
         \A v \in alive' : todo'[v] = todo[v] /\ suspended'[v] = suspended[v]
  PROVE  RInv'
<1>1. Later /\ Attempts' /\ \A w \in Workers : Alone(w)'
  BY QuietAttempts
<1>2. ASSUME NEW v \in alive' PROVE Agrees(v)'
  <2>1. v \in Workers /\ Agrees(v)
    BY Constants DEF IInv, Shape, RInv
  <2>2. Owing(v)' = Owing(v)
    BY DEF Owing
  <2>3. QED
    BY <1>1, <2>1, <2>2, AgreesKept
<1>3. QED
  BY <1>1, <1>2 DEF RInv

LEMMA ClientRI ==
  ASSUME IInv, IInv', RInv, NEW i \in Instances,
         Trigger(i) \/ Cancel(i) \/ \E w \in Workers : Resume(w, i)
  PROVE  RInv'
<1>1. PICK m : /\ m.kind = "step" => m.k = 0 /\ m = Step(m.inst, m.n, 0)
               /\ AddTask(m)
               /\ UNCHANGED <<setup, mishaps, stateLog, synced, alive, todo, task, suspended>>
  <2>1. CASE Trigger(i)
    BY <2>1 DEF Trigger, workers, history, Step
  <2>2. CASE Cancel(i)
    BY <2>2 DEF Cancel, workers, history, CancelTask
  <2>3. CASE \E w \in Workers : Resume(w, i)
    BY <2>3 DEF Resume, workers, history, ResumeTask
  <2>4. QED
    BY <2>1, <2>2, <2>3
<1>2. /\ Tasks' = Tasks \/ Tasks' = Tasks \cup {m}
      /\ \A x \in Tasks : delivered'[x] = delivered[x]
  BY <1>1, StoreFacts DEF MayStore
<1>3. QED
  BY <1>1, <1>2, QuietRI

LEMMA TimerRI == ASSUME IInv, IInv', RInv, NEW t \in timers, TimerFires(t) PROVE RInv'
<1> DEFINE m == TimeoutTask(t.inst, t.n)
<1>1. /\ MayStore(m) /\ m.kind # "step" /\ mishaps \subseteq mishaps'
      /\ UNCHANGED <<setup, stateLog, synced, alive, todo, task, suspended>>
  BY DEF TimerFires, MayStore, TimeoutTask, workers
<1>2. /\ Tasks' = Tasks \/ Tasks' = Tasks \cup {m}
      /\ \A x \in Tasks : delivered'[x] = delivered[x]
  BY <1>1, StoreFacts
<1>3. QED
  BY <1>1, <1>2, QuietRI

LEMMA StillRI ==
  ASSUME IInv, IInv', RInv,
         UNCHANGED <<setup, delivered, stateLog, alive, task, todo, suspended, synced, mishaps>>
  PROVE  RInv'
<1>1. NoTask.kind # "step" /\ Tasks' = Tasks
  BY DEF NoTask, Tasks
<1>2. QED
  BY <1>1, QuietRI

LEMMA CrashRI == ASSUME IInv, IInv', RInv, NEW w \in Workers, Crash(w) PROVE RInv'
<1>1. /\ UNCHANGED <<setup, delivered, stateLog, synced, mishaps>>
      /\ alive' = alive \ {w} /\ alive \subseteq Workers
  BY Constants DEF Crash, history, IInv, Shape
<1>2. /\ todo'[w] = <<>>
      /\ \A v \in Workers \ {w} : /\ task'[v] = task[v] /\ todo'[v] = todo[v]
                                  /\ suspended'[v] = suspended[v]
  BY DEF Crash, IInv, Shape
<1>3. NoTask.kind # "step" /\ Tasks' = Tasks
  BY <1>1 DEF NoTask, Tasks
<1>4. \A v \in Workers : todo'[v] = <<>> \/ (todo'[v] = todo[v] /\ task'[v] = task[v])
  BY <1>2
<1>5. QED
  BY <1>1, <1>2, <1>3, <1>4, QuietRI

LEMMA SyncRI == ASSUME IInv, IInv', RInv, NEW w \in Workers, StateSync(w) PROVE RInv'
<1>1. /\ UNCHANGED <<setup, delivered, stateLog, task, todo, mishaps, alive>>
      /\ w \in alive /\ alive \subseteq Workers
      /\ synced[w] \in Nat /\ synced[w] < Len(stateLog) /\ Len(stateLog) \in Nat
  BY Constants DEF StateSync, stream, IInv, Shape, Log
<1>2. NoTask.kind # "step" /\ Tasks' = Tasks
  BY <1>1 DEF NoTask, Tasks
<1>3. Later /\ Attempts' /\ \A v \in Workers : Alone(v)'
  BY <1>1, <1>2, QuietAttempts
<1>4. PICK s, ev : s = synced[w] + 1 /\ ev = stateLog[s]
  OBVIOUS
<1>5. /\ synced'[w] = s /\ \A v \in Workers \ {w} : synced'[v] = synced[v]
      /\ \A v \in Workers \ {w} : suspended'[v] = suspended[v]
      /\ s \in 1..Len(stateLog) /\ ev.kind \in {"park", "remove"}
      /\ DOMAIN suspended'[w] = IF ev.kind = "remove" THEN DOMAIN suspended[w] \ {ev.inst}
                                ELSE DOMAIN suspended[w] \cup {ev.inst}
  <2>1. s \in 1..Len(stateLog)
    BY <1>1, <1>4
  <2>2. ev.kind \in {"park", "remove"}
    BY <1>4, <2>1 DEF IInv, Log, EventOK, EventSet
  <2>3. DOMAIN suspended'[w] = IF ev.kind = "remove" THEN DOMAIN suspended[w] \ {ev.inst}
                               ELSE DOMAIN suspended[w] \cup {ev.inst}
    BY <1>4 DEF StateSync, IInv, Shape, Without, Restrict, With
  <2>4. QED
    BY <1>4, <2>1, <2>2, <2>3 DEF StateSync, IInv, Shape
<1>6. \A v \in Workers : Owing(v)' = Owing(v)
  BY <1>1 DEF Owing
<1>7. \A kind, i : Events(kind, i)' = Events(kind, i)
  BY <1>1 DEF Events
<1>8. \A i : Once(i)' <=> Once(i)
  BY <1>1, <1>2 DEF Once
<1>9. ASSUME NEW v \in alive PROVE Agrees(v)'
  <2>1. v \in Workers /\ Agrees(v)
    BY <1>1 DEF RInv
  <2>2. CASE v # w
    BY <1>3, <1>5, <1>6, <2>1, <2>2, AgreesKept
  <2>3. CASE v = w
    <3>1. ASSUME NEW i \in Instances \ mishaps, NEW p \in 1..s, stateLog[p].kind = "park",
                 stateLog[p].inst = i
          PROVE  \/ Events("remove", i) # {} \/ i \in DOMAIN suspended'[w]
                 \/ Announce(Remove(i)) \in Owing(w)
      <4>1. CASE p = s
        BY <1>4, <1>5, <3>1, <4>1
      <4>2. CASE p # s
        <5>1. p \in 1..synced[w]
          BY <1>1, <1>4, <4>2
        <5>2. \/ Events("remove", i) # {} \/ i \in DOMAIN suspended[w]
              \/ Announce(Remove(i)) \in Owing(w)
          BY <2>1, <2>3, <3>1, <5>1 DEF Agrees
        <5>3. ev.kind = "remove" /\ ev.inst = i => s \in Events("remove", i)
          BY <1>4, <1>5 DEF Events
        <5>4. QED
          BY <1>5, <5>2, <5>3
      <4>3. QED
        BY <4>1, <4>2
    <3>2. ASSUME NEW i \in Instances \ mishaps, i \in DOMAIN suspended'[w], Once(i),
                 NEW r \in Events("remove", i), r <= s
          PROVE  \/ \E n \in Steps : Announce(Park(i, n)) \in Owing(w)
                 \/ \E p \in Events("park", i) : p > r
      <4>1. r \in 1..Len(stateLog) /\ stateLog[r].kind = "remove" /\ stateLog[r].inst = i
        BY DEF Events
      <4>2. r # s
        BY <1>4, <1>5, <3>2, <4>1
      <4>3. r <= synced[w] /\ s > r
        BY <1>1, <1>4, <3>2, <4>1, <4>2
      <4>4. CASE i \in DOMAIN suspended[w]
        BY <2>1, <2>3, <3>2, <4>3, <4>4 DEF Agrees
      <4>5. CASE i \notin DOMAIN suspended[w]
        <5>1. ev.kind = "park" /\ ev.inst = i
          BY <1>5, <3>2, <4>5
        <5>2. s \in Events("park", i)
          BY <1>4, <1>5, <5>1 DEF Events
        <5>3. QED
          BY <4>3, <5>2
      <4>6. QED
        BY <4>4, <4>5
    <3>3. Steps' = Steps
      BY <1>1 DEF Steps, Last
    <3>4. QED
      BY <1>1, <1>5, <1>6, <1>7, <1>8, <2>3, <3>1, <3>2, <3>3 DEF Agrees
  <2>4. QED
    BY <2>2, <2>3
<1>10. QED
  BY <1>1, <1>3, <1>9 DEF RInv

\* An event that is announced is logged, at the end when it is new.
LEMMA AddedLogged ==
  ASSUME stateLog \in Seq(EventSet), NEW ev \in EventSet, AddEvent(ev)
  PROVE  /\ Logged(ev)'
         /\ ~Logged(ev) => /\ Len(stateLog) + 1 \in 1..Len(stateLog')
                          /\ stateLog'[Len(stateLog) + 1] = ev
<1>1. CASE Logged(ev)
  BY <1>1 DEF AddEvent, Logged
<1>2. CASE ~Logged(ev)
  <2>1. stateLog' = Append(stateLog, ev)
    BY <1>2 DEF AddEvent, Logged
  <2>2. Len(stateLog') = Len(stateLog) + 1 /\ stateLog'[Len(stateLog) + 1] = ev /\ Len(stateLog) \in Nat
    BY <2>1
  <2>3. Len(stateLog) + 1 \in 1..Len(stateLog')
    BY <2>2
  <2>4. QED
    BY <1>2, <2>2, <2>3 DEF Logged
<1>3. QED
  BY <1>1, <1>2

LEMMA PerformRI ==
  ASSUME IInv, IInv', RInv, NEW w \in Workers, Perform(w, Tail(todo[w])), mishaps \subseteq mishaps',
         NEW e, e = Head(todo[w]),
         e.do \in {"publish", "republish"} => MayStore(e.msg),
         e.do \notin {"publish", "republish"} => UNCHANGED delivered,
         stateLog' = stateLog \/ (e.do = "announce" /\ AddEvent(e.msg)),
         e.do = "announce" => AddEvent(e.msg) \/ e.msg.inst \in mishaps'
  PROVE  RInv'
<1> DEFINE m == task[w]
<1>0. UNCHANGED <<setup, alive, suspended, synced>>
  BY DEF Perform
<1>1. todo[w] # <<>> /\ e \in Effects /\ EffectOK(done, m, e) /\ m # NoTask /\ Order(todo[w])
  BY PerformFacts, HeadFacts DEF IInv, Worker
<1>2. e.do = "announce" => e.msg \in EventSet /\ e = Announce(e.msg) /\ e.msg.inst = m.inst
  BY <1>1, HeadKinds DEF EventOK, Announce, Effects, Sends
<1>3. /\ stateLog \in Seq(EventSet) /\ Len(stateLog) \in Nat
      /\ stateLog' \in Seq(EventSet) /\ Len(stateLog') \in Nat
  BY DEF IInv, Log
<1>4. /\ Tasks' = Tasks \/ (e.do \in {"publish", "republish"} /\ Tasks' = Tasks \cup {e.msg})
      /\ \A x \in Tasks : delivered'[x] = delivered[x]
  BY StoreFacts DEF Tasks
<1>5. Later
  <2>1. Len(stateLog) <= Len(stateLog') /\ \A j \in 1..Len(stateLog) : stateLog'[j] = stateLog[j]
    BY <1>2, <1>3, EventFacts
  <2>2. MaxDeliver \in Nat
    BY Constants DEF IInv, Shape, MaxDeliver
  <2>3. \A x \in Tasks : delivered[x] \in Nat
    BY <2>2 DEF IInv, Stream
  <2>4. QED
    BY <1>0, <1>3, <1>4, <2>1, <2>3 DEF Later
<1>6. /\ Owing(w) \subseteq Owing(w)' \cup {e} /\ Owing(w)' \subseteq Owing(w)
      /\ \A v \in Workers \ {w} : Owing(v)' = Owing(v)
      /\ e \in Owing(w)
      /\ todo'[w] # <<>> => task'[w] = task[w]
      /\ \A v \in Workers \ {w} : task'[v] = task[v] /\ todo'[v] = todo[v]
  BY OwingLess, PerformFacts
<1>7. /\ Len(todo[w]) \in Nat \ {0} /\ todo'[w] = Tail(todo[w])
      /\ Len(Tail(todo[w])) = Len(todo[w]) - 1 /\ Tail(todo[w]) \in Seq(Effects)
      /\ \A j \in 1..Len(Tail(todo[w])) : Tail(todo[w])[j] = todo[w][j + 1]
  BY PerformFacts, HeadFacts
<1>8. \A j \in 1..Len(todo'[w]) :
        /\ todo'[w][j].do # "republish"
        /\ todo'[w][j].do = "announce" => todo'[w][j].msg.kind # "park"
  <2> SUFFICES ASSUME NEW j \in 1..Len(Tail(todo[w]))
               PROVE  /\ Tail(todo[w])[j].do # "republish"
                      /\ Tail(todo[w])[j].do = "announce" => Tail(todo[w])[j].msg.kind # "park"
    BY <1>7
  <2>1. j + 1 \in 1..Len(todo[w]) /\ j + 1 # 1 /\ Tail(todo[w])[j] = todo[w][j + 1]
    BY <1>7
  <2>2. QED
    BY <1>1, <2>1 DEF Order
<1>9. todo'[w] # <<>> => Head(todo'[w]).do # "republish"
  <2> SUFFICES ASSUME Tail(todo[w]) # <<>> PROVE Head(todo'[w]).do # "republish"
    BY <1>7
  <2>1. Len(Tail(todo[w])) # 0 /\ Len(Tail(todo[w])) \in Nat
    BY <1>7, EmptySeq
  <2>2. Head(Tail(todo[w])) = Tail(todo[w])[1] /\ 1 \in 1..Len(Tail(todo[w]))
    BY <1>7, <2>1
  <2>3. QED
    BY <1>7, <1>8, <2>2
<1>10. \A i, n : Announce(Park(i, n)) \notin Owing(w)'
  <2>1. \A i, n : Announce(Park(i, n)).do = "announce" /\ Announce(Park(i, n)).msg.kind = "park"
    BY DEF Announce, Park
  <2>2. \A x \in Owing(w)' : x.do = "announce" => x.msg.kind # "park"
    BY <1>8 DEF Owing, Content
  <2>3. QED
    BY <2>1, <2>2
<1>11. ASSUME NEW i, NEW n, Logged(Park(i, n))', ~Logged(Park(i, n))
       PROVE  e = Announce(Park(i, n)) /\ m.inst = i /\ m.n = n
  <2>1. PICK j \in 1..Len(stateLog') : stateLog'[j] = Park(i, n)
    BY <1>11 DEF Logged
  <2>2. e.do = "announce" /\ AddEvent(e.msg)
    BY <1>11, <2>1 DEF Logged
  <2>3. j \notin 1..Len(stateLog)
    BY <1>5, <1>11, <2>1 DEF Logged, Later
  <2>4. e.msg = Park(i, n)
    BY <1>2, <1>3, <2>1, <2>2, <2>3, EventFacts
  <2>5. m.inst = i /\ m.n = n
    BY <1>1, <2>2, <2>4 DEF EffectOK, Park, Remove
  <2>6. QED
    BY <1>2, <2>2, <2>4, <2>5
<1>12. \A i, n : Parked(i, n)' => Parked(i, n)
  <2>1. AllOwed' \subseteq AllOwed
    BY <1>6 DEF AllOwed
  <2>2. e \in AllOwed
    BY <1>6 DEF AllOwed
  <2>3. QED
    BY <1>11, <2>1, <2>2 DEF Parked
<1>13. PICK x : NewTask(x) /\ (Tasks' = Tasks \/ Tasks' = Tasks \cup {x})
  <2>1. CASE e.do \in {"publish", "republish"}
    <3>1. ASSUME e.do = "publish" PROVE NewTask(e.msg)
      BY <1>1, <3>1 DEF EffectOK, NewTask, Step, Compensation
    <3>2. ASSUME e.do = "republish" PROVE NewTask(e.msg)
      BY <1>1, <1>9, <3>2 DEF EffectOK, NewTask
    <3>3. NewTask(e.msg)
      BY <2>1, <3>1, <3>2
    <3>4. QED
      BY <1>4, <3>3
  <2>2. CASE e.do \notin {"publish", "republish"}
    <3>1. NewTask(NoTask)
      BY DEF NewTask, NoTask
    <3>2. QED
      BY <1>4, <2>2, <3>1
  <2>3. QED
    BY <2>1, <2>2
<1>14. \A i, n : Logged(Park(i, n))' /\ ~Logged(Park(i, n)) =>
         \E v \in Workers : /\ todo[v] # <<>> /\ task[v].inst = i /\ task[v].n = n
                            /\ Announce(Park(i, n)) \in Owing(v)
                            /\ Announce(Park(i, n)) \notin Owing(v)'
  BY <1>1, <1>6, <1>10, <1>11
<1>15. DOMAIN todo' = Workers
  BY PerformFacts
<1>16. ASSUME NEW v \in Workers
       PROVE  /\ \A ev : Announce(ev) \in Owing(v)' => Announce(ev) \in Owing(v)
              /\ todo'[v] # <<>> =>
                   /\ todo[v] # <<>> /\ task'[v] = task[v]
                   /\ Head(todo'[v]).do = "republish" => Head(todo[v]).do = "republish"
  BY <1>1, <1>6, <1>9
<1>17. Shrinks(x)
  BY <1>4, <1>5, <1>12, <1>13, <1>14, <1>15, <1>16 DEF Shrinks
<1>18. Attempts' /\ \A v \in Workers : Alone(v)'
  BY <1>17, AttemptsKept
<1>19. ASSUME NEW v \in alive PROVE Agrees(v)'
  <2>1. v \in Workers /\ Agrees(v)
    BY Constants DEF IInv, Shape, RInv
  <2>2. \A i \in Instances \ mishaps' :
          Announce(Remove(i)) \in Owing(v) \ Owing(v)' => Logged(Remove(i))'
    <3> SUFFICES ASSUME NEW i \in Instances \ mishaps', Announce(Remove(i)) \in Owing(v) \ Owing(v)'
                 PROVE  Logged(Remove(i))'
      OBVIOUS
    <3>1. e = Announce(Remove(i))
      BY <1>6, <2>1
    <3>2. e.do = "announce" /\ e.msg = Remove(i) /\ e.msg.inst = i
      BY <3>1 DEF Announce, Remove
    <3>3. AddEvent(e.msg)
      BY <3>2
    <3>4. QED
      BY <1>2, <1>3, <3>2, <3>3, AddedLogged
  <2>3. \A i \in Instances \ mishaps' : \A n \in Steps :
          Once(i) /\ Announce(Park(i, n)) \in Owing(v) \ Owing(v)' =>
            \E p \in 1..Len(stateLog') : p > Len(stateLog) /\ stateLog'[p] = Park(i, n)
    <3> SUFFICES ASSUME NEW i \in Instances \ mishaps', NEW n \in Steps, Once(i),
                        Announce(Park(i, n)) \in Owing(v) \ Owing(v)'
                 PROVE  \E p \in 1..Len(stateLog') : p > Len(stateLog) /\ stateLog'[p] = Park(i, n)
      OBVIOUS
    <3>1. e = Announce(Park(i, n)) /\ v = w
      BY <1>6, <2>1
    <3>2. e.do = "announce" /\ e.msg = Park(i, n) /\ e.msg.inst = i
      BY <3>1 DEF Announce, Park
    <3>3. AddEvent(e.msg)
      BY <3>2
    <3>4. m.inst = i /\ m.n = n
      BY <1>1, <3>2 DEF EffectOK, Park, Remove
    <3>5. ~Logged(Park(i, n))
      BY <1>1, <1>6, <3>1, <3>4 DEF RInv, Alone
    <3>6. Len(stateLog) + 1 \in 1..Len(stateLog') /\ stateLog'[Len(stateLog) + 1] = Park(i, n)
      BY <1>2, <1>3, <3>2, <3>3, <3>5, AddedLogged
    <3>7. Len(stateLog) + 1 > Len(stateLog)
      BY <1>3
    <3>8. QED
      BY <3>6, <3>7
  <2>4. QED
    BY <1>0, <1>5, <2>1, <2>2, <2>3, AgreesKept
<1>20. QED
  BY <1>0, <1>18, <1>19 DEF RInv

LEMMA RetryRI ==
  ASSUME IInv, IInv', RInv, NEW w \in Workers, Perform(w, NackInstead(w)),
         Head(todo[w]).do = "republish",
         Accepted(Head(todo[w])) \/ UNCHANGED <<delivered, ready, stateLog, dlq>>,
         mishaps' = mishaps
  PROVE  RInv'
<1> DEFINE e == Head(todo[w])
           m == task[w]
<1>1. /\ todo[w] # <<>> /\ m # NoTask /\ EffectOK(done, m, e) /\ Order(todo[w])
      /\ Len(todo[w]) \in Nat \ {0} /\ e = todo[w][1]
  BY PerformFacts, HeadFacts DEF IInv, Worker
<1>2. MayStore(e.msg) /\ UNCHANGED <<setup, alive, suspended, synced, stateLog>>
  BY <1>1 DEF Accepted, MayStore, Perform
<1>3. /\ Tasks' = Tasks \/ Tasks' = Tasks \cup {e.msg}
      /\ \A x \in Tasks : delivered'[x] = delivered[x]
  BY <1>2, StoreFacts
<1>4. Later
  BY <1>2, <1>3, SameLater
<1>5. /\ todo'[w] = <<Nack(m)>> /\ task'[w] = m /\ DOMAIN todo' = Workers
      /\ \A v \in Workers \ {w} : task'[v] = task[v] /\ todo'[v] = todo[v]
  <2>1. NackInstead(w) = <<Nack(m)>> /\ NackInstead(w) # <<>>
    BY DEF NackInstead
  <2>2. QED
    BY <2>1, PerformFacts
<1>6. Owing(w)' = {Nack(m)} /\ \A v \in Workers \ {w} : Owing(v)' = Owing(v)
  BY <1>5 DEF Owing, Content
<1>7. \A x \in Owing(w) \cup Owing(w)' : x.do \in {"republish", "ack", "nack"}
  <2>1. Len(todo[w]) = 2
    BY <1>1 DEF Order
  <2>2. todo[w][2].do \in {"ack", "nack"} /\ \A j \in 1..Len(todo[w]) : j = 1 \/ j = 2
    BY <1>1, <2>1 DEF Order
  <2>3. \A x \in Owing(w) : x.do \in {"republish", "ack", "nack"}
    BY <1>1, <2>2 DEF Owing, Content
  <2>4. QED
    BY <1>6, <2>3 DEF Nack
<1>8. \A ev : Announce(ev) \notin Owing(w) /\ Announce(ev) \notin Owing(w)'
  BY <1>7 DEF Announce
<1>9. \A ev : (Announce(ev) \in AllOwed' => Announce(ev) \in AllOwed) /\ (Logged(ev)' <=> Logged(ev))
  BY <1>2, <1>6, <1>8 DEF AllOwed, Logged
<1>10. \A i, n : (Parked(i, n)' => Parked(i, n)) /\ (Logged(Park(i, n))' <=> Logged(Park(i, n)))
  BY <1>9 DEF Parked
<1>11. Head(todo'[w]).do # "republish"
  BY <1>5 DEF Nack
<1>12. NewTask(e.msg)
  BY <1>1, <1>11 DEF EffectOK, NewTask
<1>13. Shrinks(e.msg)
  BY <1>1, <1>3, <1>4, <1>5, <1>6, <1>8, <1>10, <1>11, <1>12 DEF Shrinks
<1>14. Attempts' /\ \A v \in Workers : Alone(v)'
  BY <1>13, AttemptsKept
<1>15. ASSUME NEW v \in alive PROVE Agrees(v)'
  <2>1. v \in Workers /\ Agrees(v)
    BY Constants DEF IInv, Shape, RInv
  <2>2. \A ev : Announce(ev) \notin Owing(v) \ Owing(v)'
    BY <1>6, <1>8, <2>1
  <2>3. QED
    BY <1>2, <1>4, <2>1, <2>2, AgreesKept
<1>16. QED
  BY <1>2, <1>14, <1>15 DEF RInv

LEMMA SendingRI == ASSUME IInv, IInv', RInv, NEW w \in Workers, SendOK(w) \/ SendFails(w) PROVE RInv'
<1>0. PICK e : e = Head(todo[w])
  OBVIOUS
<1>1. CASE SendOK(w)
  <2>1. /\ Perform(w, Tail(todo[w])) /\ mishaps' = mishaps /\ Accepted(e)
    BY <1>0, <1>1 DEF SendOK
  <2>2. /\ e.do \in {"publish", "republish"} => MayStore(e.msg)
        /\ e.do \notin {"publish", "republish"} => UNCHANGED delivered
        /\ stateLog' = stateLog \/ (e.do = "announce" /\ AddEvent(e.msg))
        /\ e.do = "announce" => AddEvent(e.msg)
    BY <2>1 DEF Accepted, MayStore
  <2>3. QED
    BY <1>0, <2>1, <2>2, PerformRI
<1>2. CASE SendFails(w) /\ e.do = "republish"
  BY <1>0, <1>2, RetryRI DEF SendFails
<1>3. CASE SendFails(w) /\ e.do # "republish"
  <2>1. /\ Perform(w, Tail(todo[w])) /\ mishaps' = mishaps \cup {e.msg.inst}
        /\ Accepted(e) \/ UNCHANGED <<delivered, ready, stateLog, dlq>>
    BY <1>0, <1>3 DEF SendFails
  <2>2. /\ e.do \in {"publish", "republish"} => MayStore(e.msg)
        /\ e.do \notin {"publish", "republish"} => UNCHANGED delivered
        /\ stateLog' = stateLog \/ (e.do = "announce" /\ AddEvent(e.msg))
        /\ e.msg.inst \in mishaps'
    BY <2>1 DEF Accepted, MayStore
  <2>3. QED
    BY <1>0, <2>1, <2>2, PerformRI
<1>4. QED
  BY <1>1, <1>2, <1>3

LEMMA OthersRI ==
  ASSUME IInv, IInv', RInv, NEW w \in Workers, StartTimer(w) \/ SendAck(w) \/ SendNack(w)
  PROVE  RInv'
<1>1. PICK e : e = Head(todo[w])
  OBVIOUS
<1>2. /\ Perform(w, Tail(todo[w])) /\ e.do \in {"timer", "ack", "nack"}
      /\ UNCHANGED <<delivered, stateLog, mishaps>>
  BY <1>1 DEF StartTimer, SendAck, SendNack, stream
<1>3. QED
  BY <1>1, <1>2, PerformRI

\* A task is taken.
LEMMA TakenRI ==
  ASSUME IInv, IInv', RInv, NEW w \in Workers, NEW m \in ready, Taken(w, m), NEW q,
         todo' = [todo EXCEPT ![w] = q], mishaps \subseteq mishaps',
         q # <<>> /\ Head(q).do = "republish" => m.kind = "step",
         \A i, n : Announce(Park(i, n)) \in Content(q) =>
           m.kind = "step" /\ i = m.inst /\ n = m.n /\ Head(q).do # "republish",
         \A v \in Workers \ {w} : suspended'[v] = suspended[v],
         \A i \in (Instances \ mishaps') \cap (DOMAIN suspended[w] \ DOMAIN suspended'[w]) :
           Announce(Remove(i)) \in Content(q),
         \A i \in DOMAIN suspended'[w] \ DOMAIN suspended[w] :
           \E n \in Steps : Announce(Park(i, n)) \in Content(q)
  PROVE  RInv'
<1>0. m \in Tasks /\ todo[w] = <<>> /\ UNCHANGED <<setup, stateLog, alive, synced>>
  BY DEF Taken, IInv, Stream
<1>1. Later
  <2>1. MaxDeliver \in Nat
    BY Constants DEF IInv, Shape, MaxDeliver
  <2>2. \A x \in Tasks : delivered[x] \in Nat
    BY <2>1 DEF IInv, Stream
  <2>3. Tasks' = Tasks /\ delivered'[m] = delivered[m] + 1
        /\ \A x \in Tasks \ {m} : delivered'[x] = delivered[x]
    BY <1>0 DEF Taken, Tasks
  <2>4. \A x \in Tasks : delivered'[x] \in Nat /\ delivered[x] <= delivered'[x]
    BY <2>2, <2>3
  <2>5. Len(stateLog) \in Nat
    BY DEF IInv, Log
  <2>6. QED
    BY <1>0, <2>2, <2>3, <2>4, <2>5 DEF Later
<1>2. Attempts' /\ \A v \in Workers : Alone(v)'
  BY <1>1, AttemptsTaken
<1>3. Owing(w) = {} /\ Owing(w)' = Content(q) /\ \A v \in Workers \ {w} : Owing(v)' = Owing(v)
  BY <1>0, ShortContents DEF Owing, IInv, Shape
<1>4. ASSUME NEW v \in alive PROVE Agrees(v)'
  <2>1. v \in Workers /\ Agrees(v)
    BY Constants DEF IInv, Shape, RInv
  <2>2. CASE v = w
    BY <1>0, <1>1, <1>3, <2>1, <2>2, AgreesKept
  <2>3. CASE v # w
    BY <1>0, <1>1, <1>3, <2>1, <2>3, AgreesKept
  <2>4. QED
    BY <2>2, <2>3
<1>5. QED
  BY <1>0, <1>2, <1>4 DEF RInv

LEMMA RunStepRI ==
  ASSUME IInv, IInv', RInv, NEW w \in Workers, NEW m \in ready, Taken(w, m), RunStep(w, m)
  PROVE  RInv'
<1>0. /\ m.kind = "step" /\ m.n \in Steps /\ m.n # 0 /\ setup \in Setups /\ m \in TaskSet
  BY ReadyTask DEF RunStep
<1>1. /\ \A v \in Workers \ {w} : suspended'[v] = suspended[v]
      /\ mishaps \subseteq mishaps' /\ DOMAIN suspended[w] \subseteq DOMAIN suspended'[w]
  BY DEF RunStep, IInv, Shape, With
<1>2. CASE todo' = [todo EXCEPT ![w] = StepDone(m)] /\ suspended' = suspended
  <2>1. PICK q : q = StepDone(m)
    OBVIOUS
  <2>2. Content(q) = IF m.n < Last THEN {Publish(Step(m.inst, m.n + 1, 0)), Ack(m)} ELSE {Ack(m)}
    BY <2>1, ListForms, ShortContents
  <2>3. \A ev : Announce(ev) \notin Content(q)
    BY <2>2 DEF Announce, Publish, Ack
  <2>4. QED
    BY <1>0, <1>1, <1>2, <2>1, <2>3, TakenRI
<1>3. CASE todo' = [todo EXCEPT ![w] = StepError(m)] /\ suspended' = suspended
  <2>1. PICK q : q = StepError(m)
    OBVIOUS
  <2>2. \A ev : Announce(ev) \notin Content(q)
    <3>1. CASE ~LastAttempt(m)
      <4>1. Content(q) = {Republish(Step(m.inst, m.n, m.k + 1)), Ack(m)}
        BY <2>1, <3>1, ListForms, ShortContents
      <4>2. QED
        BY <4>1 DEF Announce, Republish, Ack
    <3>2. CASE LastAttempt(m)
      <4>1. /\ Len(q) = m.n + 1 /\ q[1] = DeadLetter(m) /\ q[m.n + 1] = Ack(m) /\ m.n \in Nat
            /\ \A j \in 2..m.n : q[j] = Publish(Compensation(m.inst, m.n + 1 - j))
        BY <1>0, <2>1, <3>2, ErrorList DEF TaskSet
      <4>2. \A j \in 1..Len(q) : j = 1 \/ j = m.n + 1 \/ j \in 2..m.n
        BY <4>1
      <4>3. \A x \in Content(q) : x = DeadLetter(m) \/ x = Ack(m) \/ \E y : x = Publish(y)
        BY <4>1, <4>2 DEF Content
      <4>4. QED
        BY <4>3 DEF Announce, Publish, DeadLetter, Ack
    <3>3. QED
      BY <3>1, <3>2
  <2>3. QED
    BY <1>0, <1>1, <1>3, <2>1, <2>2, TakenRI
<1>4. CASE /\ todo' = [todo EXCEPT ![w] = StepSuspend(m)]
           /\ suspended' = [suspended EXCEPT ![w] = With(@, m.inst, m.n)]
  <2>1. PICK q : q = StepSuspend(m)
    OBVIOUS
  <2>2. /\ \/ Content(q) = {Announce(Park(m.inst, m.n)), Schedule(m.inst, m.n), Ack(m)}
           \/ Content(q) = {Announce(Park(m.inst, m.n)), Ack(m)}
        /\ q # <<>> /\ Head(q) = Announce(Park(m.inst, m.n))
    <3>1. PICK p, t, d : p = Announce(Park(m.inst, m.n)) /\ t = Schedule(m.inst, m.n) /\ d = Ack(m)
      OBVIOUS
    <3>2. q = <<p, t, d>> \/ q = <<p, d>>
      BY <2>1, <3>1, ListForms
    <3>3. Content(q) = {p, t, d} \/ Content(q) = {p, d}
      BY <3>2, ShortContents
    <3>4. q # <<>> /\ Head(q) = p
      BY <3>2
    <3>5. QED
      BY <3>1, <3>3, <3>4
  <2>3. Head(q).do # "republish"
    BY <2>2 DEF Announce
  <2>4. \A i, n : Announce(Park(i, n)) \in Content(q) => i = m.inst /\ n = m.n
    BY <2>2 DEF Announce, Park, Schedule, Ack
  <2>5. \A i \in DOMAIN suspended'[w] \ DOMAIN suspended[w] : i = m.inst
    BY <1>4 DEF IInv, Shape, With
  <2>6. Announce(Park(m.inst, m.n)) \in Content(q)
    BY <2>2
  <2>7. QED
    BY <1>0, <1>1, <1>4, <2>1, <2>3, <2>4, <2>5, <2>6, TakenRI
<1>5. QED
  BY <1>2, <1>3, <1>4 DEF RunStep

\* What the other tasks make a worker owe: a removal, or nothing of the sort.
LEMMA OtherListRI ==
  ASSUME IInv, IInv', RInv, NEW w \in Workers, NEW m \in ready, Taken(w, m), NEW q,
         todo' = [todo EXCEPT ![w] = q], mishaps \subseteq mishaps',
         \/ q = <<Ack(m)>> \/ q = <<Nack(m)>> \/ q = <<Announce(Remove(m.inst)), Ack(m)>>
         \/ \E n : q = Woken(m, n),
         \A v \in Workers \ {w} : suspended'[v] = suspended[v],
         DOMAIN suspended'[w] \subseteq DOMAIN suspended[w],
         \A i \in (Instances \ mishaps') \cap (DOMAIN suspended[w] \ DOMAIN suspended'[w]) :
           i = m.inst /\ q # <<Ack(m)>> /\ q # <<Nack(m)>>
  PROVE  RInv'
<1>1. CASE q = <<Ack(m)>> \/ q = <<Nack(m)>>
  <2>1. /\ Head(q).do # "republish"
        /\ \A ev : Announce(ev) \notin Content(q)
    BY <1>1, ShortContents DEF Announce, Ack, Nack
  <2>2. QED
    BY <1>1, <2>1, TakenRI
<1>2. ASSUME \/ Content(q) = {Announce(Remove(m.inst)), Ack(m)}
             \/ \E x : Content(q) = {Publish(x), Announce(Remove(m.inst)), Ack(m)},
             Head(q).do # "republish"
      PROVE  RInv'
  <2>1. \A i, n : Announce(Park(i, n)) \notin Content(q)
    BY <1>2 DEF Announce, Park, Remove, Publish, Ack
  <2>2. Announce(Remove(m.inst)) \in Content(q)
    BY <1>2
  <2>3. QED
    BY <1>2, <2>1, <2>2, TakenRI
<1>3. CASE q = <<Announce(Remove(m.inst)), Ack(m)>>
  <2>1. Head(q).do # "republish"
    BY <1>3 DEF Announce
  <2>2. QED
    BY <1>2, <1>3, <2>1, ShortContents
<1>4. ASSUME NEW n, q = Woken(m, n) PROVE RInv'
  <2>1. CASE n < Last
    <3>1. q = <<Publish(Step(m.inst, n + 1, 0)), Announce(Remove(m.inst)), Ack(m)>>
      BY <1>4, <2>1, ListForms
    <3>2. Head(q).do # "republish"
      BY <3>1 DEF Publish
    <3>3. QED
      BY <1>2, <3>1, <3>2, ShortContents
  <2>2. CASE ~(n < Last)
    BY <1>3, <1>4, <2>2, ListForms
  <2>3. QED
    BY <2>1, <2>2
<1>5. QED
  BY <1>1, <1>3, <1>4

LEMMA TakingRI == ASSUME IInv, IInv', RInv, NEW w \in Workers, Take(w) PROVE RInv'
<1>1. PICK m \in ready :
        /\ Taken(w, m)
        /\ \/ RunStep(w, m) \/ Wake(w, m) \/ WakeNobody(w, m)
           \/ HandleCancel(w, m) \/ Compensate(w, m)
  BY DEF Take, Taken
<1>2. CASE RunStep(w, m)
  BY <1>1, <1>2, RunStepRI
<1>3. CASE Wake(w, m)
  <2>1. /\ \A v \in Workers \ {w} : suspended'[v] = suspended[v]
        /\ DOMAIN suspended'[w] = DOMAIN suspended[w] \ {m.inst}
        /\ mishaps \subseteq mishaps'
    BY <1>3 DEF Wake, IInv, Shape, Without, Restrict
  <2>2. PICK q : /\ todo' = [todo EXCEPT ![w] = q]
                 /\ \/ q = Woken(m, suspended[w][m.inst])
                    \/ q = <<Nack(m)>> /\ m.inst \in mishaps'
                    \/ q = <<Announce(Remove(m.inst)), Ack(m)>>
    BY <1>3 DEF Wake
  <2>3. \A n : Woken(m, n) # <<Ack(m)>> /\ Woken(m, n) # <<Nack(m)>>
    <3>1. \A a, b, c, d : <<a, b>> # <<d>> /\ <<a, b, c>> # <<d>>
      OBVIOUS
    <3>2. ASSUME NEW n PROVE \E a, b, c : Woken(m, n) = <<a, b>> \/ Woken(m, n) = <<a, b, c>>
      BY ListForms
    <3>3. ASSUME NEW n PROVE Woken(m, n) # <<Ack(m)>> /\ Woken(m, n) # <<Nack(m)>>
      <4>1. PICK a, b, c : Woken(m, n) = <<a, b>> \/ Woken(m, n) = <<a, b, c>>
        BY <3>2
      <4>2. QED
        BY <3>1, <4>1, Zenon
    <3>4. QED
      BY <3>3
  <2>4. \A a, b, d : <<a, b>> # <<d>>
    OBVIOUS
  <2>5. DOMAIN suspended'[w] \subseteq DOMAIN suspended[w]
    BY <2>1
  <2>6. \A i \in (Instances \ mishaps') \cap (DOMAIN suspended[w] \ DOMAIN suspended'[w]) :
          i = m.inst /\ q # <<Ack(m)>> /\ q # <<Nack(m)>>
    BY <2>1, <2>2, <2>3, <2>4
  <2>7. \/ q = <<Nack(m)>> \/ q = <<Announce(Remove(m.inst)), Ack(m)>>
        \/ \E n : q = Woken(m, n)
    BY <2>2
  <2>8. QED
    BY <1>1, <2>1, <2>2, <2>5, <2>6, <2>7, OtherListRI
<1>4. CASE WakeNobody(w, m) \/ Compensate(w, m)
  <2>1. UNCHANGED <<suspended, mishaps>>
    BY <1>4 DEF WakeNobody, Compensate, history
  <2>2. PICK q : todo' = [todo EXCEPT ![w] = q] /\ (q = <<Ack(m)>> \/ q = <<Nack(m)>>)
    BY <1>4 DEF WakeNobody, Compensate
  <2>3. QED
    BY <1>1, <2>1, <2>2, OtherListRI
<1>5. CASE HandleCancel(w, m)
  <2>1. /\ \A v \in Workers \ {w} : suspended'[v] = suspended[v]
        /\ DOMAIN suspended'[w] = DOMAIN suspended[w] \ {m.inst} /\ mishaps' = mishaps
    BY <1>5 DEF HandleCancel, IInv, Shape, Without, Restrict
  <2>2. PICK q : todo' = [todo EXCEPT ![w] = q] /\ q = <<Announce(Remove(m.inst)), Ack(m)>>
    BY <1>5 DEF HandleCancel
  <2>3. q # <<Ack(m)>> /\ q # <<Nack(m)>>
    BY <2>2
  <2>4. QED
    BY <1>1, <2>1, <2>2, <2>3, OtherListRI
<1>6. QED
  BY <1>1, <1>2, <1>3, <1>4, <1>5

LEMMA InitRI == Init => RInv
<1> SUFFICES ASSUME Init PROVE RInv
  OBVIOUS
<1>1. Tasks = {} /\ AllOwed = {}
  BY ShortContents DEF Init, Tasks, AllOwed, Owing
<1>2. \A ev : ~Logged(ev)
  BY DEF Init, Logged
<1>3. Attempts /\ \A w \in Workers : Alone(w)
  BY <1>1, <1>2 DEF Init, Attempts, Alone, Parked
<1>4. \A w \in alive : Agrees(w)
  BY Constants DEF Init, Agrees
<1>5. QED
  BY <1>3, <1>4 DEF RInv

LEMMA NextRI == ASSUME IInv, IInv', RInv, [Next]_vars PROVE RInv'
<1>1. CASE UNCHANGED vars
  BY <1>1, StillRI DEF vars
<1>2. ASSUME NEW i \in Instances, Trigger(i) \/ Cancel(i) \/ \E w \in Workers : Resume(w, i)
      PROVE  RInv'
  BY <1>2, ClientRI
<1>3. ASSUME NEW t \in timers, TimerFires(t) PROVE RInv'
  BY <1>3, TimerRI
<1>4. ASSUME NEW w \in Workers, ProcessStep(w) \/ StateSync(w) \/ Crash(w) \/ AckWaitEnds(w)
      PROVE  RInv'
  <2>1. CASE AckWaitEnds(w)
    BY <2>1, StillRI DEF AckWaitEnds, workers, history
  <2>2. CASE ProcessStep(w)
    BY <2>2, TakingRI, SendingRI, OthersRI DEF ProcessStep
  <2>3. QED
    BY <1>4, <2>1, <2>2, SyncRI, CrashRI
<1>5. QED
  BY <1>1, <1>2, <1>3, <1>4 DEF Next

LEMMA ThirdInvariant == Spec => []RInv
<1>1. IInv /\ IInv' /\ RInv /\ [Next]_vars => RInv'
  BY NextRI
<1>2. QED
  BY <1>1, InitRI, Invariant, PTL DEF Spec

LEMMA AgreeHolds == ASSUME IInv, RInv PROVE RegistryAgrees
<1> SUFFICES ASSUME Quiet, NEW i \in Instances \ mishaps, NEW w \in alive
             PROVE  /\ Events("park", i) # {} /\ Events("remove", i) = {} => i \in DOMAIN suspended[w]
                    /\ Once(i) /\ (\E j \in Events("remove", i) : \A k \in Events("park", i) : k < j) =>
                         i \notin DOMAIN suspended[w]
  BY DEF RegistryAgrees
<1>1. /\ todo[w] = <<>> /\ synced[w] = Len(stateLog) /\ Len(stateLog) \in Nat /\ Agrees(w)
  BY DEF Quiet, RInv, IInv, Log
<1>2. Owing(w) = {}
  BY <1>1, ShortContents DEF Owing
<1>3. Events("park", i) # {} /\ Events("remove", i) = {} => i \in DOMAIN suspended[w]
  <2>1. \A p \in Events("park", i) :
          p \in 1..synced[w] /\ stateLog[p].kind = "park" /\ stateLog[p].inst = i
    BY <1>1 DEF Events
  <2>2. QED
    BY <1>1, <1>2, <2>1 DEF Agrees
<1>4. ASSUME Once(i), i \in DOMAIN suspended[w], NEW j \in Events("remove", i),
             \A k \in Events("park", i) : k < j
      PROVE  FALSE
  <2>1. j \in Nat /\ j <= synced[w] /\ \A k \in Events("park", i) : k \in Nat
    BY <1>1 DEF Events
  <2>2. PICK p \in Events("park", i) : p > j
    BY <1>1, <1>2, <1>4, <2>1 DEF Agrees
  <2>3. QED
    BY <1>4, <2>1, <2>2
<1>5. QED
  BY <1>3, <1>4

\* Workers that are idle and have taken every state event have registries that agree
\* with the state stream, however handleStepSuspend, handleResume, handleTimeout and
\* handleCancel of all of them were interleaved with stateSync.
THEOREM RegistriesAgree == Spec => []RegistryAgrees
<1>1. IInv /\ RInv => RegistryAgrees
  BY AgreeHolds
<1>2. QED
  BY <1>1, Invariant, ThirdInvariant, PTL

-----------------------------------------------------------------------------
(* Saga: rollbacks go backwards.                                           *)

Undoes(e) == e.do = "publish" /\ e.msg.kind = "comp"

\* Of the compensations of a list, the latest step's comes first.
Descends(q) ==
  \A j, l \in 1..Len(q) : j < l /\ Undoes(q[j]) /\ Undoes(q[l]) => q[l].msg.n < q[j].msg.n

Owed(q, i, k) == \E j \in 1..Len(q) : q[j] = Publish(Compensation(i, k))

\* A worker that still owes a compensation owes those of the later steps, down from
\* the failed one, or they are in the task stream.
Unwound(w) ==
  \A i \in Instances \ mishaps : \A k \in Steps : Owed(todo[w], i, k) =>
    \A j \in (k + 1)..(task[w].n - 1) : Compensation(i, j) \in Tasks \/ Owed(todo[w], i, j)

UInv == \A w \in Workers : Descends(todo[w]) /\ Unwound(w)

\* The list a worker starts with.
Rollback(q, m) ==
  /\ Descends(q)
  /\ \A i, k : Owed(q, i, k) =>
       i = m.inst /\ \A j \in (k + 1)..(m.n - 1) : Owed(q, i, j)

\* A worker that is left alone, or has nothing to do any more.
LEMMA UnwoundKept ==
  ASSUME UInv, NEW w \in Workers, setup' = setup, mishaps \subseteq mishaps',
         Tasks \subseteq Tasks',
         todo'[w] = <<>> \/ (todo'[w] = todo[w] /\ task'[w] = task[w])
  PROVE  Descends(todo[w])' /\ Unwound(w)'
<1>1. CASE todo'[w] = <<>>
  <2>1. \A i, k : ~Owed(todo'[w], i, k)
    BY <1>1 DEF Owed
  <2>2. Descends(todo[w])'
    BY <1>1 DEF Descends
  <2>3. Unwound(w)'
    BY <2>1 DEF Unwound, Owed
  <2>4. QED
    BY <2>2, <2>3
<1>2. CASE todo'[w] = todo[w] /\ task'[w] = task[w]
  <2>1. Descends(todo[w])'
    BY <1>2 DEF UInv, Descends, Undoes
  <2>2. Steps' = Steps
    BY DEF Steps, Last
  <2>3. \A i, k : Owed(todo[w], i, k)' <=> Owed(todo[w], i, k)
    BY <1>2 DEF Owed, Publish, Compensation
  <2>4. \A i, k : Compensation(i, k)' = Compensation(i, k)
    BY DEF Compensation
  <2>5. Unwound(w)'
    BY <1>2, <2>2, <2>3, <2>4 DEF UInv, Unwound
  <2>6. QED
    BY <2>1, <2>5
<1>3. QED
  BY <1>1, <1>2

\* The workers' lists stay, or are given up.
LEMMA StillUI ==
  ASSUME UInv, setup' = setup, mishaps \subseteq mishaps', Tasks \subseteq Tasks',
         \A w \in Workers : todo'[w] = <<>> \/ (todo'[w] = todo[w] /\ task'[w] = task[w])
  PROVE  UInv'
  BY UnwoundKept DEF UInv

\* An effect is done.
LEMMA PerformUI ==
  ASSUME IInv, UInv, NEW w \in Workers, Perform(w, Tail(todo[w])), Tasks \subseteq Tasks',
         mishaps \subseteq mishaps',
         \A i \in Instances \ mishaps' : \A k :
           Head(todo[w]) = Publish(Compensation(i, k)) => Compensation(i, k) \in Tasks'
  PROVE  UInv'
<1>0. setup' = setup
  BY DEF Perform
<1>1. ASSUME NEW v \in Workers \ {w} PROVE Descends(todo[v])' /\ Unwound(v)'
  BY <1>0, <1>1, PerformFacts, UnwoundKept
<1>2. /\ Len(todo[w]) \in Nat \ {0} /\ Len(todo'[w]) = Len(todo[w]) - 1
      /\ \A j \in 1..Len(todo'[w]) : todo'[w][j] = todo[w][j + 1]
      /\ Head(todo[w]) = todo[w][1]
  <2>1. PICK r : r = Tail(todo[w])
    OBVIOUS
  <2>2. todo[w] # <<>> /\ todo'[w] = r
    BY <2>1, PerformFacts
  <2>3. /\ Len(todo[w]) \in Nat \ {0} /\ Len(r) = Len(todo[w]) - 1
        /\ \A j \in 1..Len(r) : r[j] = todo[w][j + 1]
        /\ Head(todo[w]) = todo[w][1]
    BY <2>1, <2>2, HeadFacts
  <2>4. QED
    BY <2>2, <2>3
<1>3. task'[w] = IF todo'[w] = <<>> THEN NoTask ELSE task[w]
  BY PerformFacts
<1>4. \A j \in 1..Len(todo'[w]) : j + 1 \in 1..Len(todo[w])
  BY <1>2
<1>5. Descends(todo'[w])
  <2> SUFFICES ASSUME NEW j \in 1..Len(todo'[w]), NEW l \in 1..Len(todo'[w]), j < l,
                      Undoes(todo'[w][j]), Undoes(todo'[w][l])
               PROVE  todo'[w][l].msg.n < todo'[w][j].msg.n
    BY DEF Descends
  <2>1. j + 1 < l + 1
    OBVIOUS
  <2>2. Descends(todo[w])
    BY DEF UInv
  <2>3. QED
    BY <1>2, <1>4, <2>1, <2>2 DEF Descends
<1>6. ASSUME NEW i, NEW k, Owed(todo'[w], i, k)
      PROVE  Owed(todo[w], i, k) /\ task'[w] = task[w]
  <2>1. PICK j \in 1..Len(todo'[w]) : todo'[w][j] = Publish(Compensation(i, k))
    BY <1>6 DEF Owed
  <2>2. todo'[w] # <<>>
    BY <2>1
  <2>3. QED
    BY <1>2, <1>3, <1>4, <2>1, <2>2 DEF Owed
<1>7. ASSUME NEW i, NEW k, Owed(todo[w], i, k)
      PROVE  Owed(todo'[w], i, k) \/ Head(todo[w]) = Publish(Compensation(i, k))
  <2>1. PICK j \in 1..Len(todo[w]) : todo[w][j] = Publish(Compensation(i, k))
    BY <1>7 DEF Owed
  <2>2. CASE j = 1
    BY <1>2, <2>1, <2>2
  <2>3. CASE j # 1
    <3>1. j - 1 \in 1..Len(todo'[w]) /\ todo'[w][j - 1] = todo[w][j]
      BY <1>2, <2>3
    <3>2. QED
      BY <2>1, <3>1 DEF Owed
  <2>4. QED
    BY <2>2, <2>3
<1>8. Unwound(w)'
  <2> SUFFICES ASSUME NEW i \in Instances \ mishaps', NEW k \in Steps, Owed(todo'[w], i, k),
                      NEW j \in (k + 1)..(task'[w].n - 1)
               PROVE  Compensation(i, j) \in Tasks' \/ Owed(todo'[w], i, j)
    <3>1. Steps' = Steps
      BY <1>0 DEF Steps, Last
    <3>2. QED
      BY <3>1 DEF Unwound, Owed, Publish, Compensation
  <2>1. Owed(todo[w], i, k) /\ task'[w] = task[w]
    BY <1>6
  <2>2. Compensation(i, j) \in Tasks \/ Owed(todo[w], i, j)
    BY <2>1 DEF UInv, Unwound
  <2>3. CASE Compensation(i, j) \in Tasks
    BY <2>3
  <2>4. CASE Owed(todo[w], i, j)
    BY <1>7, <2>4
  <2>5. QED
    BY <2>2, <2>3, <2>4
<1>9. Descends(todo[w])'
  BY <1>5 DEF Descends, Undoes
<1>10. QED
  BY <1>1, <1>8, <1>9 DEF UInv

\* Lists without compensations.
LEMMA ShortQuiet ==
  ASSUME NEW a, NEW b, NEW c, ~Undoes(a), ~Undoes(b), ~Undoes(c), NEW q,
         q = <<a>> \/ q = <<a, b>> \/ q = <<a, b, c>>
  PROVE  \A j \in 1..Len(q) : ~Undoes(q[j])
<1> HIDE DEF Undoes
<1>1. CASE q = <<a>>
  BY <1>1
<1>2. CASE q = <<a, b>>
  BY <1>2
<1>3. CASE q = <<a, b, c>>
  BY <1>3
<1>4. QED
  BY <1>1, <1>2, <1>3

LEMMA NoRollback ==
  ASSUME NEW m, NEW q, \A j \in 1..Len(q) : ~Undoes(q[j])
  PROVE  Rollback(q, m)
<1>1. \A i, k : ~Owed(q, i, k)
  BY DEF Owed, Undoes, Publish, Compensation
<1>2. Descends(q)
  BY DEF Descends
<1>3. QED
  BY <1>1, <1>2 DEF Rollback

\* Nothing but a publish of a compensation undoes something.
LEMMA QuietEffects ==
  ASSUME NEW m
  PROVE  /\ ~Undoes(Ack(m)) /\ ~Undoes(Nack(m)) /\ ~Undoes(Republish(m)) /\ ~Undoes(Announce(m))
         /\ \A i, n, k : ~Undoes(Publish(Step(i, n, k))) /\ ~Undoes(Schedule(i, n))
  BY DEF Undoes, Ack, Nack, Republish, Announce, Publish, Step, Schedule

\* What a step makes its worker owe.
LEMMA StepRollback ==
  ASSUME setup \in Setups, NEW m \in TaskSet, m.n # 0
  PROVE  Rollback(StepDone(m), m) /\ Rollback(StepSuspend(m), m) /\ Rollback(StepError(m), m)
<1>1. Rollback(StepDone(m), m)
  BY ListForms, QuietEffects, ShortQuiet, NoRollback
<1>2. Rollback(StepSuspend(m), m)
  BY ListForms, QuietEffects, ShortQuiet, NoRollback
<1>3. CASE ~LastAttempt(m)
  <2>1. Rollback(StepError(m), m)
    BY <1>3, ListForms, QuietEffects, ShortQuiet, NoRollback
  <2>2. QED
    BY <1>1, <1>2, <2>1
<1>4. CASE LastAttempt(m)
  <2>1. PICK q : q = StepError(m)
    OBVIOUS
  <2>2. m.n \in Nat \ {0}
    BY DEF TaskSet
  <2>3. /\ Len(q) = m.n + 1 /\ q[1] = DeadLetter(m) /\ q[m.n + 1] = Ack(m)
        /\ \A j \in 2..m.n : q[j] = Publish(Compensation(m.inst, m.n + 1 - j))
    BY <1>4, <2>1, ErrorList
  <2>4. \A j \in 1..Len(q) : j \in 2..m.n \/ ~Undoes(q[j])
    <3> SUFFICES ASSUME NEW j \in 1..Len(q), j \notin 2..m.n PROVE ~Undoes(q[j])
      OBVIOUS
    <3>1. j = 1 \/ j = m.n + 1
      BY <2>2, <2>3
    <3>2. ~Undoes(DeadLetter(m)) /\ ~Undoes(Ack(m))
      BY DEF Undoes, DeadLetter, Ack
    <3>3. QED
      BY <2>3, <3>1, <3>2
  <2>5. ASSUME NEW j \in 2..m.n PROVE q[j].msg.n = m.n + 1 - j
    <3>1. PICK x : x = m.n + 1 - j
      OBVIOUS
    <3>2. q[j] = Publish(Compensation(m.inst, x))
      BY <2>3, <3>1
    <3>3. q[j].msg.n = x
      BY <3>2 DEF Publish, Compensation
    <3>4. QED
      BY <3>1, <3>3
  <2>6. Descends(q)
    <3> SUFFICES ASSUME NEW j \in 2..m.n, NEW l \in 2..m.n, j < l PROVE q[l].msg.n < q[j].msg.n
      BY <2>4 DEF Descends
    <3>1. m.n + 1 - l < m.n + 1 - j
      BY <2>2
    <3>2. QED
      BY <2>5, <3>1
  <2>7. ASSUME NEW i, NEW k, Owed(q, i, k)
        PROVE  i = m.inst /\ \A j \in (k + 1)..(m.n - 1) : Owed(q, i, j)
    <3>1. PICK l \in 1..Len(q) : q[l] = Publish(Compensation(i, k))
      BY <2>7 DEF Owed
    <3>2. l \in 2..m.n
      BY <2>4, <3>1 DEF Undoes, Publish, Compensation
    <3>3. Publish(Compensation(i, k)) = Publish(Compensation(m.inst, m.n + 1 - l))
      BY <2>3, <3>1, <3>2
    <3>4. i = m.inst /\ k = m.n + 1 - l
      BY <3>3 DEF Publish, Compensation
    <3>5. ASSUME NEW j \in (k + 1)..(m.n - 1) PROVE Owed(q, m.inst, j)
      <4>1. PICK x : x = m.n + 1 - j
        OBVIOUS
      <4>2. PICK c : c = m.n
        OBVIOUS
      <4>3. k \in Nat \ {0} /\ c \in Nat /\ j \in (k + 1)..(c - 1) /\ x = c + 1 - j
        <5>1. c \in Nat /\ l \in 2..c /\ k = c + 1 - l
          BY <2>2, <3>2, <3>4, <4>2
        <5>2. k \in Nat \ {0}
          BY ONLY <5>1
        <5>3. j \in (k + 1)..(c - 1) /\ x = c + 1 - j
          BY <4>1, <4>2
        <5>4. QED
          BY <5>1, <5>2, <5>3
      <4>4. x \in 2..c /\ c + 1 - x = j
        BY ONLY <4>3
      <4>5. Len(q) = c + 1
        BY <2>3, <4>2
      <4>6. x \in 1..Len(q)
        BY ONLY <4>3, <4>4, <4>5
      <4>7. q[x] = Publish(Compensation(m.inst, j))
        BY <2>3, <4>2, <4>4
      <4>8. QED
        BY <4>6, <4>7 DEF Owed
    <3>6. QED
      BY <3>4, <3>5
  <2>8. QED
    BY <1>1, <1>2, <2>1, <2>6, <2>7 DEF Rollback
<1>5. QED
  BY <1>3, <1>4

\* A task is taken.
LEMMA TakenUI ==
  ASSUME IInv, UInv, NEW w \in Workers, NEW m \in ready, Taken(w, m), NEW q,
         todo' = [todo EXCEPT ![w] = q], Rollback(q, m), mishaps \subseteq mishaps'
  PROVE  UInv'
<1>1. setup' = setup /\ Tasks' = Tasks
  BY DEF Taken, Tasks
<1>2. /\ todo'[w] = q /\ task'[w] = m
      /\ \A v \in Workers \ {w} : todo'[v] = todo[v] /\ task'[v] = task[v]
  BY DEF Taken, IInv, Shape
<1>3. ASSUME NEW v \in Workers \ {w} PROVE Descends(todo[v])' /\ Unwound(v)'
  BY <1>1, <1>2, UnwoundKept
<1>4. Descends(todo[w])' /\ Unwound(w)'
  <2>1. Descends(todo'[w])
    BY <1>2 DEF Rollback
  <2>2. \A i, k : Owed(todo'[w], i, k) =>
          \A j \in (k + 1)..(task'[w].n - 1) : Owed(todo'[w], i, j)
    BY <1>2 DEF Rollback
  <2>3. Descends(todo[w])'
    BY <2>1 DEF Descends, Undoes
  <2>4. \A i, k : Owed(todo[w], i, k)' <=> Owed(todo'[w], i, k)
    BY DEF Owed, Publish, Compensation
  <2>5. Unwound(w)'
    BY <2>2, <2>4 DEF Unwound
  <2>6. QED
    BY <2>3, <2>5
<1>5. QED
  BY <1>3, <1>4 DEF UInv

LEMMA TakingUI == ASSUME IInv, UInv, NEW w \in Workers, Take(w) PROVE UInv'
<1>1. PICK m \in ready :
        /\ Taken(w, m)
        /\ \/ RunStep(w, m) \/ Wake(w, m) \/ WakeNobody(w, m)
           \/ HandleCancel(w, m) \/ Compensate(w, m)
  BY DEF Take, Taken
<1>2. CASE RunStep(w, m)
  <2>1. setup \in Setups /\ m \in TaskSet /\ m.n # 0
    BY <1>2, ReadyTask DEF RunStep
  <2>2. /\ mishaps' = mishaps
        /\ \/ todo' = [todo EXCEPT ![w] = StepDone(m)]
           \/ todo' = [todo EXCEPT ![w] = StepError(m)]
           \/ todo' = [todo EXCEPT ![w] = StepSuspend(m)]
    BY <1>2 DEF RunStep
  <2>3. Rollback(StepDone(m), m) /\ Rollback(StepSuspend(m), m) /\ Rollback(StepError(m), m)
    BY <2>1, StepRollback
  <2>4. QED
    BY <1>1, <2>2, <2>3, TakenUI
<1>3. CASE Wake(w, m) \/ WakeNobody(w, m) \/ HandleCancel(w, m) \/ Compensate(w, m)
  <2>1. /\ mishaps \subseteq mishaps'
        /\ \/ todo' = [todo EXCEPT ![w] = <<Ack(m)>>]
           \/ todo' = [todo EXCEPT ![w] = <<Nack(m)>>]
           \/ todo' = [todo EXCEPT ![w] = <<Announce(Remove(m.inst)), Ack(m)>>]
           \/ todo' = [todo EXCEPT ![w] = Woken(m, suspended[w][m.inst])]
    BY <1>3 DEF Wake, WakeNobody, HandleCancel, Compensate, history
  <2>2. Rollback(<<Ack(m)>>, m) /\ Rollback(<<Nack(m)>>, m)
    BY QuietEffects, ShortQuiet, NoRollback
  <2>3. Rollback(<<Announce(Remove(m.inst)), Ack(m)>>, m)
    BY QuietEffects, ShortQuiet, NoRollback
  <2>4. ASSUME NEW n PROVE Rollback(Woken(m, n), m)
    BY ListForms, QuietEffects, ShortQuiet, NoRollback
  <2>5. QED
    BY <1>1, <2>1, <2>2, <2>3, <2>4, TakenUI
<1>4. QED
  BY <1>1, <1>2, <1>3

\* A send: the broker has the message, or the error was discarded.
LEMMA SendFacts ==
  ASSUME IInv, NEW w \in Workers, SendOK(w) \/ SendFails(w)
  PROVE  LET e == Head(todo[w])
             m == task[w]
         IN /\ todo[w] # <<>> /\ e.do \in Sends /\ e.msg.inst = m.inst /\ m.inst \in Instances
            /\ UNCHANGED <<setup, done>>
            /\ \/ Perform(w, Tail(todo[w])) /\ Accepted(e) /\ mishaps' = mishaps
               \/ /\ Perform(w, Tail(todo[w])) /\ mishaps' = mishaps \cup {m.inst}
                  /\ Accepted(e) \/ UNCHANGED <<delivered, ready, stateLog, dlq>>
               \/ /\ Perform(w, NackInstead(w)) /\ e.do = "republish" /\ mishaps' = mishaps
                  /\ Accepted(e) \/ UNCHANGED <<delivered, ready, stateLog, dlq>>
<1>1. todo[w] # <<>> /\ Head(todo[w]).do \in Sends /\ UNCHANGED <<setup, done>>
  BY DEF SendOK, SendFails, Perform
<1>2. task[w].inst \in Instances
  BY <1>1, HeadFacts DEF TaskSet
<1>3. Head(todo[w]).msg.inst = task[w].inst
  BY <1>1, HeadKinds
<1>4. CASE SendOK(w)
  BY <1>1, <1>2, <1>3, <1>4 DEF SendOK
<1>5. CASE SendFails(w)
  BY <1>1, <1>2, <1>3, <1>5 DEF SendFails
<1>6. QED
  BY <1>4, <1>5

\* What a send adds to the task stream and to the dead letters, if anything.
LEMMA SentFacts ==
  ASSUME IInv, NEW w \in Workers, SendOK(w) \/ SendFails(w)
  PROVE  LET e == Head(todo[w])
             m == task[w]
         IN /\ Tasks \subseteq Tasks'
            /\ \A x \in Tasks' \ Tasks : e.do \in {"publish", "republish"} /\ x = e.msg
            /\ e.do # "dlq" => dlq' = dlq
            /\ e.do = "dlq" => dlq' = dlq \/ dlq' = dlq \cup {<<m.inst, m.n>>}
            /\ Accepted(e) /\ e.do = "publish" => e.msg \in Tasks'
<1>1. PICK e : e = Head(todo[w])
  OBVIOUS
<1>2. Accepted(e) \/ UNCHANGED <<delivered, ready, stateLog, dlq>>
  BY <1>1, SendFacts
<1>3. e.do \in {"publish", "republish"} => MayStore(e.msg)
  BY <1>2 DEF Accepted, MayStore
<1>4. e.do \notin {"publish", "republish"} => Tasks' = Tasks
  BY <1>2 DEF Accepted, Tasks
<1>5. Tasks \subseteq Tasks' /\ \A x \in Tasks' \ Tasks : e.do \in {"publish", "republish"} /\ x = e.msg
  BY <1>3, <1>4, StoreFacts
<1>6. e.do = "dlq" => e.msg = task[w]
  BY <1>1, SendFacts, HeadKinds
<1>7. /\ e.do # "dlq" => dlq' = dlq
      /\ e.do = "dlq" => dlq' = dlq \/ dlq' = dlq \cup {<<task[w].inst, task[w].n>>}
  BY <1>2, <1>6 DEF Accepted
<1>8. Accepted(e) /\ e.do = "publish" => e.msg \in Tasks'
  BY AddTaskFacts DEF Accepted, IInv
<1>9. QED
  BY <1>1, <1>5, <1>7, <1>8

LEMMA SendingUI == ASSUME IInv, UInv, NEW w \in Workers, SendOK(w) \/ SendFails(w) PROVE UInv'
<1>1. Tasks \subseteq Tasks'
  BY SentFacts
<1>2. setup' = setup /\ mishaps \subseteq mishaps'
  BY SendFacts
<1>3. CASE Perform(w, Tail(todo[w]))
  <2>1. ASSUME NEW i \in Instances \ mishaps', NEW k, Head(todo[w]) = Publish(Compensation(i, k))
        PROVE  Compensation(i, k) \in Tasks'
    <3>1. /\ Head(todo[w]).do = "publish" /\ Head(todo[w]).msg = Compensation(i, k)
          /\ Head(todo[w]).msg.inst = i
      BY <2>1 DEF Publish, Compensation
    <3>2. Accepted(Head(todo[w]))
      BY <3>1, SendFacts
    <3>3. QED
      BY <3>1, <3>2, SentFacts
  <2>2. QED
    BY <1>1, <1>2, <1>3, <2>1, PerformUI
<1>4. CASE Perform(w, NackInstead(w))
  <2>1. /\ todo'[w] = <<Nack(task[w])>>
        /\ \A v \in Workers \ {w} : todo'[v] = todo[v] /\ task'[v] = task[v]
    BY <1>4, PerformFacts DEF NackInstead
  <2>2. ASSUME NEW v \in Workers \ {w} PROVE Descends(todo[v])' /\ Unwound(v)'
    BY <1>1, <1>2, <2>1, UnwoundKept
  <2>3. \A j \in 1..Len(todo'[w]) : ~Undoes(todo'[w][j])
    BY <2>1, QuietEffects, ShortQuiet
  <2>4. Descends(todo[w])'
    BY <2>3 DEF Descends, Undoes
  <2>5. \A i, k : ~Owed(todo'[w], i, k)
    BY <2>3 DEF Owed, Undoes, Publish, Compensation
  <2>6. Unwound(w)'
    BY <2>5 DEF Unwound, Owed, Publish, Compensation
  <2>7. QED
    BY <2>2, <2>4, <2>6 DEF UInv
<1>5. QED
  BY <1>3, <1>4, SendFacts

LEMMA ProcessUI == ASSUME IInv, UInv, NEW w \in Workers, ProcessStep(w) PROVE UInv'
<1>1. CASE Take(w)
  BY <1>1, TakingUI
<1>2. CASE SendOK(w) \/ SendFails(w)
  BY <1>2, SendingUI
<1>3. CASE StartTimer(w) \/ SendAck(w) \/ SendNack(w)
  <2>1. /\ Perform(w, Tail(todo[w])) /\ mishaps' = mishaps /\ Tasks' = Tasks
        /\ Head(todo[w]).do # "publish"
    BY <1>3 DEF StartTimer, SendAck, SendNack, stream, Tasks
  <2>2. \A i, k : Head(todo[w]) # Publish(Compensation(i, k))
    BY <2>1 DEF Publish
  <2>3. QED
    BY <2>1, <2>2, PerformUI
<1>4. QED
  BY <1>1, <1>2, <1>3 DEF ProcessStep

\* The rest of the system: nobody owes more than before.
Aside == \/ \E i \in Instances : Trigger(i) \/ Cancel(i) \/ \E w \in Workers : Resume(w, i)
         \/ \E w \in Workers : StateSync(w) \/ Crash(w) \/ AckWaitEnds(w)
         \/ UNCHANGED vars

\* It adds no compensation, no dead letter, no success and no trouble.
LEMMA AsideFacts ==
  ASSUME IInv, Aside
  PROVE  /\ UNCHANGED <<setup, dlq, done, mishaps>> /\ Tasks \subseteq Tasks'
         /\ \A x \in Tasks' \ Tasks : x.kind # "comp"
         /\ \A w \in Workers : todo'[w] = <<>> \/ (todo'[w] = todo[w] /\ task'[w] = task[w])
<1>1. ASSUME NEW m, m.kind # "comp", AddTask(m)
      PROVE  Tasks \subseteq Tasks' /\ \A x \in Tasks' \ Tasks : x.kind # "comp"
  BY <1>1, AddTaskFacts DEF IInv
<1>2. ASSUME NEW i \in Instances, Trigger(i) \/ Cancel(i) \/ \E w \in Workers : Resume(w, i)
      PROVE  /\ UNCHANGED <<setup, dlq, done, mishaps, todo, task>>
             /\ \E m : m.kind # "comp" /\ AddTask(m)
  BY <1>2 DEF Trigger, Cancel, Resume, workers, history, Step, CancelTask, ResumeTask
<1>3. ASSUME NEW w \in Workers, StateSync(w) \/ AckWaitEnds(w) \/ UNCHANGED vars
      PROVE  UNCHANGED <<setup, dlq, done, mishaps, todo, task, delivered>>
  BY <1>3 DEF StateSync, AckWaitEnds, workers, history, stream, vars
<1>4. ASSUME NEW w \in Workers, Crash(w)
      PROVE  /\ UNCHANGED <<setup, dlq, done, mishaps, delivered>>
             /\ \A v \in Workers : todo'[v] = <<>> \/ (todo'[v] = todo[v] /\ task'[v] = task[v])
  BY <1>4 DEF Crash, history, IInv, Shape
<1>5. CASE UNCHANGED vars
  BY <1>5 DEF vars, Tasks
<1>6. QED
  BY <1>1, <1>2, <1>3, <1>4, <1>5 DEF Aside, Tasks

LEMMA TimerFacts ==
  ASSUME IInv, NEW t \in timers, TimerFires(t)
  PROVE  /\ UNCHANGED <<setup, dlq, done, task, todo>> /\ Tasks \subseteq Tasks'
         /\ \A x \in Tasks' \ Tasks : x.kind # "comp"
         /\ t.inst \in Instances
         /\ mishaps' = mishaps \/ (mishaps' = mishaps \cup {t.inst} /\ Tasks' = Tasks)
<1>1. PICK m : m = TimeoutTask(t.inst, t.n)
  OBVIOUS
<1>2. m.kind # "comp"
  BY <1>1 DEF TimeoutTask
<1>3. UNCHANGED <<setup, dlq, done, task, todo>> /\ t.inst \in Instances
  BY DEF TimerFires, workers, IInv, Shape
<1>4. CASE AddTask(m) /\ mishaps' = mishaps
  BY <1>2, <1>3, <1>4, AddTaskFacts DEF IInv
<1>5. CASE mishaps' = mishaps \cup {t.inst} /\ delivered' = delivered
  BY <1>3, <1>5 DEF Tasks
<1>6. QED
  BY <1>1, <1>4, <1>5 DEF TimerFires

LEMMA NextUI == ASSUME IInv, UInv, [Next]_vars PROVE UInv'
<1>1. CASE Aside
  BY <1>1, AsideFacts, StillUI
<1>2. ASSUME NEW t \in timers, TimerFires(t) PROVE UInv'
  BY <1>2, TimerFacts, StillUI
<1>3. ASSUME NEW w \in Workers, ProcessStep(w) PROVE UInv'
  BY <1>3, ProcessUI
<1>4. QED
  BY <1>1, <1>2, <1>3 DEF Next, Aside

LEMMA InitUI == Init => UInv
  BY DEF Init, UInv, Descends, Unwound, Owed

LEMMA FourthInvariant == Spec => []UInv
<1>1. IInv /\ UInv /\ [Next]_vars => UInv'
  BY NextUI
<1>2. QED
  BY <1>1, InitUI, Invariant, PTL DEF Spec

-----------------------------------------------------------------------------
(* Saga: every step maps to a step.                                        *)

LEMMA SameCompensated ==
  ASSUME setup' = setup, Tasks \subseteq Tasks', \A x \in Tasks' \ Tasks : x.kind # "comp"
  PROVE  AbsCompensated' = AbsCompensated /\ Last' = Last /\ Steps' = Steps
<1>1. Last' = Last /\ Steps' = Steps
  BY DEF Last, Steps
<1>2. \A i, k : Compensation(i, k) \in Tasks' <=> Compensation(i, k) \in Tasks
  BY DEF Compensation
<1>3. \A p : (Compensation(p[1], p[2]) \in Tasks)' <=> Compensation(p[1], p[2]) \in Tasks'
  BY DEF Compensation
<1>4. QED
  BY <1>1, <1>2, <1>3 DEF AbsCompensated

\* Nothing that Saga knows of changes, or an error is discarded.
LEMMA DiscardOrStutter ==
  ASSUME UNCHANGED <<Last, done, dlq, AbsCompensated>>, NEW i \in Instances,
         mishaps' = mishaps \/ mishaps' = mishaps \cup {i}
  PROVE  Promise!SagaNext \/ UNCHANGED Promise!sagaVars
<1>1. CASE mishaps' = mishaps
  BY <1>1 DEF Promise!sagaVars
<1>2. CASE mishaps' = mishaps \cup {i}
  <2>1. Promise!Discard(i)
    BY <1>2 DEF Promise!Discard
  <2>2. QED
    BY <2>1 DEF Promise!SagaNext
<1>3. QED
  BY <1>1, <1>2

\* A handler has succeeded, or has not.
LEMMA SucceedOrSo ==
  ASSUME UNCHANGED <<Last, dlq, AbsCompensated>>, NEW i \in Instances, NEW n \in Steps,
         Before(done, i, n),
         \/ done' = done \cup {<<i, n>>} /\ mishaps' = mishaps
         \/ done' = done /\ (mishaps' = mishaps \/ mishaps' = mishaps \cup {i})
  PROVE  Promise!SagaNext \/ UNCHANGED Promise!sagaVars
<1>1. CASE done' = done \cup {<<i, n>>} /\ mishaps' = mishaps
  <2>1. Promise!Reached(i, n)
    BY DEF Promise!Reached, Before
  <2>2. Promise!Succeed(i, n)
    BY <1>1, <2>1 DEF Promise!Succeed
  <2>3. QED
    BY <2>2 DEF Promise!SagaNext, Steps
<1>2. CASE done' = done /\ (mishaps' = mishaps \/ mishaps' = mishaps \cup {i})
  BY <1>2, DiscardOrStutter
<1>3. QED
  BY <1>1, <1>2

LEMMA TakingImplements ==
  ASSUME IInv, NEW w \in Workers, Take(w)
  PROVE  Promise!SagaNext \/ UNCHANGED Promise!sagaVars
<1>1. PICK m \in ready :
        /\ Taken(w, m)
        /\ \/ RunStep(w, m) \/ Wake(w, m) \/ WakeNobody(w, m)
           \/ HandleCancel(w, m) \/ Compensate(w, m)
  BY DEF Take, Taken
<1>2. UNCHANGED <<Last, dlq, AbsCompensated>>
  <2>1. setup' = setup /\ dlq' = dlq /\ Tasks' = Tasks
    BY <1>1 DEF Taken, Tasks
  <2>2. QED
    BY <2>1, SameCompensated
<1>3. m.inst \in Instances
  BY ReadyTask
<1>4. CASE RunStep(w, m)
  <2>1. m.n \in Steps /\ Before(done, m.inst, m.n)
    BY <1>4, ReadyTask DEF RunStep
  <2>2. /\ mishaps' = mishaps
        /\ done' = done \cup {<<m.inst, m.n>>} \/ done' = done
    BY <1>4 DEF RunStep
  <2>3. QED
    BY <1>2, <1>3, <2>1, <2>2, SucceedOrSo
<1>5. CASE Wake(w, m)
  <2>1. PICK n : n = suspended[w][m.inst]
    OBVIOUS
  <2>2. n \in Steps /\ Before(done, m.inst, n)
    BY <1>5, <2>1 DEF Wake, IInv, Registry, Suspends
  <2>3. \/ done' = done \cup {<<m.inst, n>>} /\ mishaps' = mishaps
        \/ done' = done /\ (mishaps' = mishaps \/ mishaps' = mishaps \cup {m.inst})
    BY <1>5, <2>1 DEF Wake
  <2>4. QED
    BY <1>2, <1>3, <2>2, <2>3, SucceedOrSo
<1>6. CASE WakeNobody(w, m) \/ HandleCancel(w, m) \/ Compensate(w, m)
  <2>1. done' = done /\ mishaps' = mishaps
    BY <1>6 DEF WakeNobody, HandleCancel, Compensate, history
  <2>2. QED
    BY <1>2, <1>3, <2>1, DiscardOrStutter
<1>7. QED
  BY <1>1, <1>4, <1>5, <1>6

\* A dead letter: the step was reached.
LEMMA DeadLetterImplements ==
  ASSUME IInv, NEW w \in Workers, SendOK(w) \/ SendFails(w), Head(todo[w]).do = "dlq"
  PROVE  Promise!SagaNext \/ UNCHANGED Promise!sagaVars
<1>1. PICK i, n : i = task[w].inst /\ n = task[w].n
  OBVIOUS
<1>2. /\ todo[w] # <<>> /\ UNCHANGED <<setup, done>> /\ i \in Instances
      /\ mishaps' = mishaps \/ mishaps' = mishaps \cup {i}
  BY <1>1, SendFacts
<1>3. Tasks' = Tasks /\ (dlq' = dlq \/ dlq' = dlq \cup {<<i, n>>})
  BY <1>1, SentFacts
<1>4. UNCHANGED <<Last, AbsCompensated>>
  BY <1>2, <1>3, SameCompensated
<1>5. CASE dlq' = dlq
  BY <1>2, <1>4, <1>5, DiscardOrStutter
<1>6. CASE dlq' = dlq \cup {<<i, n>>}
  <2>1. EffectOK(done, task[w], Head(todo[w])) /\ (task[w].kind = "step" => Before(done, i, n))
    BY <1>1, <1>2, HeadFacts
  <2>2. n \in Steps
    BY <1>1, <1>2, HeadKinds
  <2>3. Before(done, i, n)
    BY <2>1 DEF EffectOK
  <2>4. Promise!Reached(i, n)
    BY <2>3 DEF Promise!Reached, Before
  <2>5. Promise!Fail(i, n)
    BY <1>2, <1>4, <1>6, <2>4 DEF Promise!Fail, Promise!MayDiscard
  <2>6. QED
    BY <1>2, <2>2, <2>5 DEF Promise!SagaNext, Steps
<1>7. QED
  BY <1>3, <1>5, <1>6

\* The effect at hand is a compensation: its step is done, and the rollback is there.
LEMMA RollbackHere ==
  ASSUME IInv, UInv, NEW w \in Workers, todo[w] # <<>>, Undoes(Head(todo[w]))
  PROVE  LET i == task[w].inst
             k == Head(todo[w]).msg.n
         IN /\ i \in Instances /\ k \in Steps /\ Head(todo[w]).msg = Compensation(i, k)
            /\ <<i, k>> \in done
            /\ i \in mishaps \/ \E n \in (k + 1)..Last : Promise!RolledBack(i, n, k)
<1>1. PICK e, m, i, k, n : /\ e = Head(todo[w]) /\ m = task[w]
                           /\ i = m.inst /\ k = e.msg.n /\ n = m.n
  OBVIOUS
<1>2. /\ setup \in Setups /\ m \in TaskSet /\ TaskOK(m) /\ (m.kind = "step" => Before(done, i, n))
      /\ EffectOK(done, m, e) /\ todo[w] \in Seq(Effects)
      /\ e = todo[w][1] /\ Len(todo[w]) \in Nat \ {0}
  BY <1>1, HeadFacts
<1>3. i \in Instances /\ n \in Nat
  BY <1>1, <1>2 DEF TaskSet
<1>4. e.do = "publish" /\ e.msg.kind = "comp"
  BY <1>1 DEF Undoes
<1>5. m.kind = "step" /\ k \in 1..(n - 1) /\ e.msg = Compensation(i, k)
  BY <1>1, <1>2, <1>4 DEF EffectOK, Step
<1>6. n \in Steps /\ Last \in Nat
  BY <1>1, <1>2, <1>5, Constants DEF TaskOK
<1>7. k \in Steps /\ n \in (k + 1)..Last /\ k \in Int
  BY <1>3, <1>5, <1>6 DEF Steps
<1>8. <<i, k>> \in done
  BY <1>2, <1>5 DEF Before
<1>9. e = Publish(Compensation(i, k))
  <2>1. e \in Effects
    BY <1>2
  <2>2. e = [do |-> e.do, msg |-> e.msg]
    BY <2>1 DEF Effects
  <2>3. QED
    BY <1>4, <1>5, <2>2 DEF Publish
<1>10. Owes(w, i, k) /\ Owed(todo[w], i, k)
  <2>1. 1 \in 1..Len(todo[w]) /\ todo[w][1] = Publish(Compensation(i, k))
    BY <1>2, <1>9
  <2>2. QED
    BY <2>1 DEF Owes, Owed
<1>11. ASSUME i \notin mishaps PROVE Promise!RolledBack(i, n, k)
  <2>1. <<i, n>> \in dlq
    <3>1. Letters(w)
      BY DEF IInv
    <3>2. Head(todo[w]).do = "dlq" \/ <<i, task[w].n>> \in dlq \/ i \in mishaps
      BY <1>3, <1>7, <1>10, <3>1 DEF Letters
    <3>3. QED
      BY <1>1, <1>4, <1>11, <3>2
  <2>2. ASSUME NEW j \in (k + 1)..(n - 1) PROVE Compensation(i, j) \in Tasks
    <3>1. j > k
      BY <1>7
    <3>2. Compensation(i, j) \in Tasks \/ Owed(todo[w], i, j)
      BY <1>1, <1>3, <1>7, <1>10, <1>11 DEF UInv, Unwound
    <3>3. CASE Owed(todo[w], i, j)
      <4>1. PICK l \in 1..Len(todo[w]) : todo[w][l] = Publish(Compensation(i, j))
        BY <3>3 DEF Owed
      <4>2. /\ Undoes(todo[w][l]) /\ todo[w][l].msg.n = j
            /\ Undoes(todo[w][1]) /\ todo[w][1].msg.n = k
        BY <1>1, <1>2, <4>1 DEF Undoes, Publish, Compensation
      <4>3. l # 1
        BY <3>1, <4>2, <1>7
      <4>4. 1 < l /\ 1 \in 1..Len(todo[w])
        BY <1>2, <4>3
      <4>5. j < k
        BY <4>2, <4>4 DEF UInv, Descends
      <4>6. QED
        BY <1>7, <3>1, <4>5
    <3>4. QED
      BY <3>2, <3>3
  <2>3. \A j \in (k + 1)..(n - 1) : <<i, j>> \in AbsCompensated
    <3> TAKE j \in (k + 1)..(n - 1)
    <3>1. j \in Steps
      BY <1>3, <1>6, <1>7 DEF Steps
    <3>2. QED
      BY <1>3, <2>2, <3>1 DEF AbsCompensated
  <2>4. QED
    BY <2>1, <2>3 DEF Promise!RolledBack
<1>12. QED
  BY <1>1, <1>3, <1>5, <1>7, <1>8, <1>11

\* A compensation is asked for.
LEMMA RollbackImplements ==
  ASSUME IInv, UInv, NEW w \in Workers, SendOK(w) \/ SendFails(w), Undoes(Head(todo[w]))
  PROVE  Promise!SagaNext \/ UNCHANGED Promise!sagaVars
<1>1. PICK i, k : i = task[w].inst /\ k = Head(todo[w]).msg.n
  OBVIOUS
<1>2. /\ todo[w] # <<>> /\ UNCHANGED <<setup, done>> /\ i \in Instances
      /\ mishaps' = mishaps \/ mishaps' = mishaps \cup {i}
  BY <1>1, SendFacts
<1>3. /\ k \in Steps /\ Head(todo[w]).msg = Compensation(i, k) /\ <<i, k>> \in done
      /\ i \in mishaps \/ \E n \in (k + 1)..Last : Promise!RolledBack(i, n, k)
  BY <1>1, <1>2, RollbackHere
<1>4. /\ Tasks \subseteq Tasks' /\ \A x \in Tasks' \ Tasks : x = Compensation(i, k)
      /\ dlq' = dlq
  BY <1>3, SentFacts DEF Undoes
<1>5. Last' = Last
  BY <1>2 DEF Last
<1>6. CASE Compensation(i, k) \notin Tasks'
  <2>1. Tasks' = Tasks
    BY <1>4, <1>6
  <2>2. AbsCompensated' = AbsCompensated
    BY <1>2, <2>1, SameCompensated
  <2>3. QED
    BY <1>2, <1>4, <1>5, <2>2, DiscardOrStutter
<1>7. CASE Compensation(i, k) \in Tasks'
  <2>1. \A j, l : Compensation(j, l) = Compensation(i, k) => j = i /\ l = k
    BY DEF Compensation
  <2>2. \A j, l : Compensation(j, l) \in Tasks' <=> Compensation(j, l) \in Tasks \/ (j = i /\ l = k)
    BY <1>4, <1>7, <2>1
  <2>3. Steps' = Steps /\ \A j, l : Compensation(j, l)' = Compensation(j, l)
    BY <1>2 DEF Steps, Last, Compensation
  <2>4. ASSUME NEW p \in Instances \X Steps
        PROVE  p \in AbsCompensated' <=> p \in AbsCompensated \/ p = <<i, k>>
    <3>1. PICK j \in Instances, l \in Steps : p = <<j, l>>
      OBVIOUS
    <3>2. p \in AbsCompensated <=> Compensation(j, l) \in Tasks
      BY <3>1 DEF AbsCompensated
    <3>3. p \in AbsCompensated' <=> Compensation(j, l) \in Tasks'
      BY <2>3, <3>1 DEF AbsCompensated, Compensation
    <3>4. QED
      BY <2>2, <3>1, <3>2, <3>3
  <2>5. AbsCompensated \subseteq Instances \X Steps /\ AbsCompensated' \subseteq Instances \X Steps
    BY <2>3 DEF AbsCompensated
  <2>6. AbsCompensated' = AbsCompensated \cup {<<i, k>>}
    BY <1>2, <1>3, <2>4, <2>5
  <2>7. Promise!Compensate(i, k)
    BY <1>2, <1>3, <1>4, <1>5, <2>6 DEF Promise!Compensate, Promise!MayDiscard
  <2>8. QED
    BY <1>2, <1>3, <2>7 DEF Promise!SagaNext, Steps
<1>8. QED
  BY <1>6, <1>7

LEMMA SendingImplements ==
  ASSUME IInv, UInv, NEW w \in Workers, SendOK(w) \/ SendFails(w)
  PROVE  Promise!SagaNext \/ UNCHANGED Promise!sagaVars
<1>1. CASE Head(todo[w]).do = "dlq"
  BY <1>1, DeadLetterImplements
<1>2. CASE Undoes(Head(todo[w]))
  BY <1>2, RollbackImplements
<1>3. CASE Head(todo[w]).do # "dlq" /\ ~Undoes(Head(todo[w]))
  <2>1. PICK i : i = task[w].inst
    OBVIOUS
  <2>2. /\ todo[w] # <<>> /\ UNCHANGED <<setup, done>> /\ i \in Instances
        /\ mishaps' = mishaps \/ mishaps' = mishaps \cup {i}
    BY <2>1, SendFacts
  <2>3. Head(todo[w]).do = "republish" => Head(todo[w]).msg.kind # "comp"
    <3>1. EffectOK(done, task[w], Head(todo[w]))
      BY <2>2, HeadFacts
    <3>2. QED
      BY <3>1 DEF EffectOK, Step
  <2>4. Tasks \subseteq Tasks' /\ dlq' = dlq /\ \A x \in Tasks' \ Tasks : x.kind # "comp"
    BY <1>3, <2>3, SentFacts DEF Undoes
  <2>5. UNCHANGED <<Last, AbsCompensated>>
    BY <2>2, <2>4, SameCompensated
  <2>6. QED
    BY <2>2, <2>4, <2>5, DiscardOrStutter
<1>4. QED
  BY <1>1, <1>2, <1>3

LEMMA StepImplements ==
  ASSUME IInv, UInv, [Next]_vars
  PROVE  Promise!SagaNext \/ UNCHANGED Promise!sagaVars
<1>1. CASE Aside
  <2>1. UNCHANGED <<Last, AbsCompensated, done, dlq, mishaps>>
    BY <1>1, AsideFacts, SameCompensated
  <2>2. QED
    BY <2>1 DEF Promise!sagaVars
<1>2. ASSUME NEW t \in timers, TimerFires(t)
      PROVE  Promise!SagaNext \/ UNCHANGED Promise!sagaVars
  <2>1. PICK i \in Instances : i = t.inst
    BY <1>2, TimerFacts
  <2>2. /\ UNCHANGED <<Last, AbsCompensated, done, dlq>>
        /\ mishaps' = mishaps \/ mishaps' = mishaps \cup {i}
    BY <1>2, <2>1, TimerFacts, SameCompensated
  <2>3. QED
    BY <2>2, DiscardOrStutter
<1>3. ASSUME NEW w \in Workers, ProcessStep(w)
      PROVE  Promise!SagaNext \/ UNCHANGED Promise!sagaVars
  <2>1. CASE Take(w)
    BY <2>1, TakingImplements
  <2>2. CASE SendOK(w) \/ SendFails(w)
    BY <2>2, SendingImplements
  <2>3. CASE StartTimer(w) \/ SendAck(w) \/ SendNack(w)
    <3>1. UNCHANGED <<setup, done, dlq, mishaps>> /\ Tasks' = Tasks
      BY <2>3 DEF StartTimer, SendAck, SendNack, stream, Tasks, Perform
    <3>2. UNCHANGED <<Last, AbsCompensated>>
      BY <3>1, SameCompensated
    <3>3. QED
      BY <3>1, <3>2 DEF Promise!sagaVars
  <2>4. QED
    BY <1>3, <2>1, <2>2, <2>3 DEF ProcessStep
<1>4. QED
  BY <1>1, <1>2, <1>3 DEF Next, Aside

\* The engine implements Saga: publishNextStep of any worker goes on from a step that
\* succeeded, and handleStepError's loop over the completed steps asks for their
\* compensations from the latest to the first, however the workers that were given the
\* same failed attempt, and their crashes, cut into one another.
THEOREM SagaImplemented == Spec => ImplementsSaga
<1>1. Init => Promise!SagaInit
  <2> SUFFICES ASSUME Init PROVE Promise!SagaInit
    OBVIOUS
  <2>1. Last \in Nat \ {0}
    BY Constants DEF Init
  <2>2. Tasks = {} /\ AbsCompensated = {}
    BY DEF Init, Tasks, AbsCompensated
  <2>3. QED
    BY <2>1, <2>2 DEF Init, Promise!SagaInit
<1>2. IInv /\ UInv /\ [Next]_vars => [Promise!SagaNext]_Promise!sagaVars
  BY StepImplements
<1>3. QED
  BY <1>1, <1>2, Invariant, FourthInvariant, PTL DEF Spec, ImplementsSaga, Promise!SagaSpec
=============================================================================
