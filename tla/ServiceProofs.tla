---------------------------- MODULE ServiceProofs ----------------------------
(* Proofs about Service, for any instances, calls and systems. *)
EXTENDS Service, TLAPS

-----------------------------------------------------------------------------
(* The inductive invariant.                                                *)

\* The functions keep their domains.
Shape ==
  /\ setup \in Setups
  /\ corrID \in [setup.instances -> Nat] /\ corr \in [setup.calls -> Nat]
  /\ DOMAIN handlers = setup.instances /\ DOMAIN pending = setup.instances
  /\ DOMAIN pc = setup.calls /\ DOMAIN result = setup.calls
  /\ DOMAIN ch = setup.calls /\ DOMAIN published = setup.calls
  /\ started \in [setup.calls -> Nat]
  /\ \A c \in setup.calls : started[c] <= setup.runs
  /\ closed \cup known \subseteq setup.instances

\* A request has a number once it has entered, and no two of an instance share one.
Numbers ==
  /\ \A c \in setup.calls :
       /\ corr[c] <= corrID[setup.from[c]]
       /\ pc[c] \in {"idle", "enter"} => corr[c] = 0
       /\ pc[c] \in {"publish", "sent", "waiting"} => corr[c] # 0
  /\ \A c, d \in setup.calls :
       corr[c] # 0 /\ corr[c] = corr[d] /\ setup.from[c] = setup.from[d] => c = d

\* An entry of the table leads to the call that drew its number.
Waiters ==
  \A i \in setup.instances : \A n \in DOMAIN pending[i] :
    /\ n \in Nat \ {0} /\ pending[i][n] \in setup.calls
    /\ setup.from[pending[i][n]] = i /\ corr[pending[i][n]] = n

\* Whatever runs for a call began as a message in the queue, and a handler runs only
\* under a name that begins the method.
NameOf(c, h) == \E i \in setup.workers : h \in setup.methods[i] /\ IsPrefix(h, setup.method[c])

Queued ==
  /\ \A c \in setup.calls :
       /\ published[c] # "no" => pc[c] \in {"sent", "waiting", "returned"}
       /\ published[c] # "no" /\ IsRequest(c) => corr[c] # 0
  /\ \A i \in setup.instances : handlers[i] \subseteq setup.methods[i]
  /\ ready \subseteq {c \in setup.calls : published[c] = "stored"} \ settled
  /\ settled \subseteq {c \in setup.calls : published[c] = "stored"}

Running ==
  \A r \in runs :
    /\ r.call \in setup.calls /\ published[r.call] = "stored"
    /\ r.st \in {"run", "reply", "ack", "nack"}
    /\ r.st = "reply" => IsRequest(r.call)
    /\ r.st # "nack" => NameOf(r.call, r.by)
    /\ r.st \in {"reply", "ack"} => r.call \in succeeded

\* A reply carries the number of the call it answers, to the instance that made it.
Answers ==
  \A m \in replies :
    /\ m.call \in succeeded /\ m.call \in setup.calls
    /\ m.to = setup.from[m.call] /\ m.corr = corr[m.call] /\ m.corr # 0
    /\ NameOf(m.call, m.by)

Received ==
  \A c \in setup.calls :
    /\ ch[c] # NoReply => ch[c].call = c /\ NameOf(c, ch[c].by) /\ c \in succeeded
    /\ result[c] = "ok" => ch[c] # NoReply
    /\ pc[c] # "returned" => result[c] = "none"

Handled ==
  /\ settled \subseteq succeeded
  /\ succeeded \subseteq {c \in setup.calls : published[c] = "stored"}

IInv == Shape /\ Numbers /\ Waiters /\ Queued /\ Running /\ Answers /\ Received /\ Handled

-----------------------------------------------------------------------------
LEMMA InitOK == Init => IInv
<1> SUFFICES ASSUME Init PROVE IInv
  OBVIOUS
<1> USE ServiceAssumption DEF Init
<1>1. Shape
  BY DEF Shape
<1>2. Numbers /\ Waiters /\ Queued
  BY DEF Numbers, Waiters, Queued
<1>3. Running /\ Answers /\ Received /\ Handled
  BY DEF Running, Answers, Received, Handled
<1>4. QED
  BY <1>1, <1>2, <1>3 DEF IInv

LEMMA BuildKeeps == ASSUME IInv, NEW i \in setup.instances, BuildStep(i) \/ Close(i) PROVE IInv'
<1> USE ServiceAssumption DEF IInv, request, queue, service
<1>1. UNCHANGED <<setup, corrID, request, queue, runs, replies, succeeded>>
  BY DEF BuildStep, Create, SubscribeWorker, SubscribeReply, Subscribe, Handle, Close
<1>2. Shape'
  <2>1. DOMAIN handlers' = DOMAIN handlers /\ DOMAIN pending' = DOMAIN pending
    BY DEF BuildStep, Create, SubscribeWorker, SubscribeReply, Subscribe, Handle, Close
  <2>2. closed' \cup known' \subseteq closed \cup known \cup {i}
    BY DEF BuildStep, Create, SubscribeWorker, SubscribeReply, Subscribe, Handle, Close
  <2>3. QED
    BY <1>1, <2>1, <2>2 DEF Shape
<1>3. Queued'
  <2>1. \A j \in setup.instances : handlers'[j] \subseteq setup.methods[j]
    BY DEF BuildStep, Create, SubscribeWorker, SubscribeReply, Subscribe, Handle, Close,
       Shape, Queued
  <2>2. QED
    BY <1>1, <2>1 DEF Queued, IsRequest
<1>4. Waiters'
  <2>1. CASE pending' = pending
    BY <1>1, <2>1 DEF Waiters
  <2>2. CASE Close(i)
    <3>1. pending' = [pending EXCEPT ![i] = <<>>] /\ DOMAIN <<>> = {}
      BY <2>2 DEF Close
    <3>2. QED
      BY <1>1, <3>1 DEF Shape, Waiters
  <2>3. QED
    BY <2>1, <2>2 DEF BuildStep, Create, SubscribeWorker, SubscribeReply, Subscribe, Handle
<1>5. Numbers' /\ Running' /\ Answers' /\ Received' /\ Handled'
  BY <1>1 DEF Numbers, Running, Answers, Received, Handled, NameOf, IsRequest
<1>6. QED
  BY <1>2, <1>4, <1>5, <1>3
-----------------------------------------------------------------------------
(* The calls.                                                              *)

LEMMA EnterKeeps == ASSUME IInv, NEW c \in setup.calls, Enter(c) PROVE IInv'
<1> DEFINE i == setup.from[c]
           n == corrID[i] + 1
<1>0. i \in setup.instances /\ corr[c] = 0 /\ n \in Nat \ {0} /\ pc[c] = "enter" /\ IsRequest(c)
  BY ServiceAssumption DEF IInv, Shape, Numbers, Enter
<1>1. /\ corrID' = [corrID EXCEPT ![i] = n] /\ corr' = [corr EXCEPT ![c] = n]
      /\ pc' = [pc EXCEPT ![c] = "publish"]
      /\ UNCHANGED <<setup, handlers, known, closed, ch, result, published, ready, settled,
                     started, runs, replies, succeeded>>
  BY DEF Enter, queue
<1>2. DOMAIN pending' = DOMAIN pending
  BY DEF Enter
<1>3. \A j \in setup.instances : \A k \in DOMAIN pending'[j] :
        IF j = i /\ k = n THEN pending'[j][k] = c
        ELSE k \in DOMAIN pending[j] /\ pending'[j][k] = pending[j][k]
  BY DEF Enter, IInv, Shape
<1>4. \A d \in setup.calls : corr[d] # 0 => corr'[d] = corr[d] /\ d # c
  BY <1>0, <1>1 DEF IInv, Shape
<1> HIDE DEF i, n
<1>5. Shape'
  BY <1>0, <1>1, <1>2 DEF IInv, Shape
<1>6. Numbers'
  <2>1. \A d \in setup.calls : corr'[d] = (IF d = c THEN n ELSE corr[d])
    BY <1>1 DEF IInv, Shape
  <2>2. \A d \in setup.calls : d # c => ~(corr[d] = n /\ setup.from[d] = i)
    BY ServiceAssumption DEF IInv, Shape, Numbers, i, n
  <2>3. \A d \in setup.calls : corr'[d] <= corrID'[setup.from[d]]
    BY <1>0, <1>1, <2>1, ServiceAssumption DEF IInv, Shape, Numbers, i, n
  <2>4. QED
    BY <1>0, <1>1, <2>1, <2>2, <2>3 DEF IInv, Shape, Numbers, i
<1>7. Waiters'
  BY <1>0, <1>1, <1>3, <1>4 DEF IInv, Shape, Waiters, i
<1>8. Queued'
  BY <1>0, <1>1, <1>4 DEF IInv, Shape, Queued, IsRequest
<1>9. Answers'
  BY <1>1, <1>4 DEF IInv, Answers, NameOf
<1>10. Running' /\ Received' /\ Handled'
  BY <1>0, <1>1 DEF IInv, Shape, Running, Received, Handled, NameOf, IsRequest
<1>11. QED
  BY <1>5, <1>6, <1>7, <1>8, <1>9, <1>10 DEF IInv

\* The steps of a call that neither draw a number nor send: it goes on, or returns,
\* and its entry may leave the table.
LEMMA CallKeeps ==
  ASSUME IInv, NEW c \in setup.calls,
         Resolve(c) \/ Publish(c) \/ Published(c) \/ EndWait(c) \/ SendOnly(c)
  PROVE  IInv'
<1> USE ServiceAssumption
<1>0. setup.from[c] \in setup.instances
  BY DEF IInv, Shape
<1>1. /\ UNCHANGED <<setup, handlers, closed, corrID, corr, ch, ready, settled, started,
                     runs, replies, succeeded>>
      /\ known \subseteq known' /\ known' \subseteq known \cup {setup.from[c]}
  BY DEF Resolve, Publish, Published, EndWait, SendOnly, request, service, queue
<1>2. /\ pc[c] # "returned"
      /\ \/ pc' = [pc EXCEPT ![c] = "returned"]
         \/ pc[c] = "idle" /\ pc' = [pc EXCEPT ![c] = "enter"] /\ UNCHANGED result
         \/ pc[c] = "publish" /\ pc' = [pc EXCEPT ![c] = "sent"] /\ UNCHANGED result
         \/ pc[c] = "sent" /\ pc' = [pc EXCEPT ![c] = "waiting"] /\ UNCHANGED result
  BY DEF Resolve, Publish, Published, EndWait, SendOnly, Return
<1>3. /\ result' = result \/ \E r \in {"ok", "timeout", "failed", "sent"} :
                                 result' = [result EXCEPT ![c] = r] /\ (r = "ok" => ch[c] # NoReply)
  BY DEF Resolve, Publish, Published, EndWait, SendOnly, Return
<1>4. \/ UNCHANGED published
      \/ /\ published' = [published EXCEPT ![c] = "flying"]
         /\ pc[c] \in {"publish", "enter"} /\ pc'[c] \in {"sent", "returned"}
         /\ IsRequest(c) => pc[c] = "publish"
  <2>1. CASE Resolve(c) \/ Published(c) \/ EndWait(c)
    BY <2>1 DEF Resolve, Published, EndWait, queue
  <2>2. CASE Publish(c)
    BY <2>2 DEF Publish, IInv, Shape
  <2>3. CASE SendOnly(c)
    BY <2>3 DEF SendOnly, Return, IInv, Shape
  <2>4. QED
    BY <2>1, <2>2, <2>3
<1>5. DOMAIN pending' = DOMAIN pending
  BY DEF Resolve, Publish, Published, EndWait, SendOnly, Leave, service
<1>6. \A i \in setup.instances : \A n \in DOMAIN pending'[i] :
        n \in DOMAIN pending[i] /\ pending'[i][n] = pending[i][n]
  BY DEF Resolve, Publish, Published, EndWait, SendOnly, Leave, service, Restrict, IInv, Shape
<1>7. Shape'
  BY <1>0, <1>1, <1>2, <1>3, <1>4, <1>5 DEF IInv, Shape
<1>8. Numbers'
  BY <1>1, <1>2 DEF IInv, Shape, Numbers
<1>9. Waiters'
  BY <1>1, <1>6 DEF IInv, Waiters
<1>10. \A d \in setup.calls : published[d] = "stored" => published'[d] = "stored"
  BY <1>2, <1>4 DEF IInv, Shape, Queued
<1>11. Queued'
  BY <1>1, <1>2, <1>4, <1>10 DEF IInv, Shape, Numbers, Queued, IsRequest
<1>12. Running' /\ Answers' /\ Handled'
  BY <1>1, <1>10 DEF IInv, Running, Answers, Handled, NameOf, IsRequest
<1>13. Received'
  BY <1>1, <1>2, <1>3 DEF IInv, Shape, Received, NameOf
<1>14. QED
  BY <1>7, <1>8, <1>9, <1>11, <1>12, <1>13 DEF IInv

-----------------------------------------------------------------------------
(* The queue and the handlers.                                             *)

\* What neither the callers nor the instances notice.
LEMMA QuietKeeps ==
  ASSUME IInv, UNCHANGED <<setup, handlers, known, closed, corrID, pending, corr, ch, pc, result>>,
         \A c \in setup.calls : published[c] = "stored" => published'[c] = "stored",
         \A c \in setup.calls : published[c] = "no" <=> published'[c] = "no",
         DOMAIN published' = DOMAIN published, Handled',
         started' \in [setup.calls -> Nat], \A c \in setup.calls : started'[c] <= setup.runs,
         ready' \subseteq {c \in setup.calls : published'[c] = "stored"} \ settled',
         settled' \subseteq {c \in setup.calls : published'[c] = "stored"},
         succeeded \subseteq succeeded', Running', Answers'
  PROVE  IInv'
<1>1. Shape' /\ Numbers' /\ Waiters'
  BY DEF IInv, Shape, Numbers, Waiters
<1>2. Queued'
  BY DEF IInv, Queued, IsRequest
<1>3. Received'
  BY DEF IInv, Received, NameOf
<1>4. QED
  BY <1>1, <1>2, <1>3 DEF IInv

LEMMA DeliverKeeps ==
  ASSUME IInv, NEW c \in setup.calls, NEW i \in setup.workers, Deliver(c, i)
  PROVE  IInv'
<1> USE ServiceAssumption
<1>0. i \in setup.instances /\ c \in ready /\ published[c] = "stored"
  BY DEF IInv, Shape, Queued, Deliver
<1>1. /\ UNCHANGED <<setup, build, bound, handlers, known, closed, corrID, pending, pc, corr,
                     ch, result, published, settled, replies, succeeded>>
      /\ ready' = ready \ {c}
  BY DEF Deliver, service, request
<1>2. /\ started' \in [setup.calls -> Nat]
      /\ \A d \in setup.calls : started'[d] <= setup.runs
  <2>1. setup.runs \in Nat
    BY DEF IInv, Shape
  <2>2. \/ UNCHANGED started
        \/ started[c] < setup.runs /\ started' = [started EXCEPT ![c] = @ + 1]
    BY DEF Deliver
  <2>3. QED
    BY <2>1, <2>2 DEF IInv, Shape
<1>3. \A r \in runs' \ runs :
        /\ r.call = c /\ r.st \in {"run", "nack"}
        /\ r.st # "nack" => r.by \in Matching(i, setup.method[c])
  BY DEF Deliver, Goroutine, Unhandled
<1>4. \A h \in Matching(i, setup.method[c]) : NameOf(c, h)
  BY <1>0 DEF Matching, NameOf, IInv, Queued
<1>5. Running'
  <2> SUFFICES ASSUME NEW r \in runs'
               PROVE  /\ r.call \in setup.calls /\ published[r.call] = "stored"
                      /\ r.st \in {"run", "reply", "ack", "nack"}
                      /\ r.st = "reply" => IsRequest(r.call)
                      /\ r.st # "nack" => NameOf(r.call, r.by)
                      /\ r.st \in {"reply", "ack"} => r.call \in succeeded
    BY <1>1 DEF Running, NameOf, IsRequest
  <2>1. CASE r \in runs
    BY <2>1 DEF IInv, Running
  <2>2. CASE r \notin runs
    BY <1>0, <1>3, <1>4, <2>2
  <2>3. QED
    BY <2>1, <2>2
<1>6. Answers' /\ Handled'
  BY <1>1 DEF IInv, Answers, Handled, NameOf
<1>7. QED
  BY <1>1, <1>2, <1>5, <1>6, QuietKeeps DEF IInv, Shape, Queued

\* A goroutine goes on under another state.
LEMMA RunKeeps ==
  ASSUME IInv, NEW c \in setup.calls, NEW n, RunStep(c, n)
  PROVE  IInv'
<1> USE ServiceAssumption
<1>0. PICK r \in runs : r.call = c /\ (HandlerReturns(r) \/ SendReply(r) \/ SettleRun(r))
  BY DEF RunStep
<1>1. /\ UNCHANGED <<setup, handlers, known, closed, corrID, pending, pc, corr,
                     ch, result, published, started>>
      /\ succeeded \subseteq succeeded' /\ settled \subseteq settled'
  BY <1>0 DEF HandlerReturns, SendReply, SettleRun, request, service, queue
<1>2. /\ published[c] = "stored"
      /\ r.st = "reply" => IsRequest(c)
      /\ r.st # "nack" => NameOf(c, r.by)
      /\ r.st \in {"reply", "ack"} => c \in succeeded
  BY <1>0 DEF IInv, Running
<1>3. Running'
  <2>1. \A q \in runs \ {r} : q \in runs /\ q.call \in setup.calls
    BY DEF IInv, Running
  <2>2. \A q \in runs' : q \in runs \/ \E st : Advance(r, st) /\ q = [r EXCEPT !.st = st]
                                   /\ (\/ st = "nack"
                                       \/ st = "ack" /\ r.st # "nack" /\ c \in succeeded'
                                       \/ st = "reply" /\ IsRequest(c) /\ r.st # "nack" /\ c \in succeeded')
    <3>1. CASE HandlerReturns(r)
      BY <1>0, <3>1 DEF HandlerReturns, Advance, AfterError, AfterSuccess
    <3>2. CASE SendReply(r)
      BY <1>0, <1>2, <3>2 DEF SendReply, Advance
    <3>3. CASE SettleRun(r)
      BY <3>3 DEF SettleRun
    <3>4. QED
      BY <1>0, <3>1, <3>2, <3>3
  <2>3. ASSUME NEW q \in runs'
        PROVE  /\ q.call \in setup.calls /\ published[q.call] = "stored"
               /\ q.st \in {"run", "reply", "ack", "nack"}
               /\ q.st = "reply" => IsRequest(q.call)
               /\ q.st # "nack" => NameOf(q.call, q.by)
               /\ q.st \in {"reply", "ack"} => q.call \in succeeded'
    <3>1. CASE q \in runs
      BY <1>1, <3>1 DEF IInv, Running
    <3>2. CASE q \notin runs
      <4>1. PICK st : /\ q = [r EXCEPT !.st = st]
                      /\ \/ st = "nack"
                         \/ st = "ack" /\ r.st # "nack" /\ c \in succeeded'
                         \/ st = "reply" /\ IsRequest(c) /\ r.st # "nack" /\ c \in succeeded'
        BY <2>2, <3>2
      <4>2. q.call = c /\ q.by = r.by /\ q.st = st
        BY <1>0, <4>1
      <4>3. QED
        BY <1>0, <1>2, <4>1, <4>2 DEF IInv, Running
    <3>3. QED
      BY <3>1, <3>2
  <2>4. QED
    BY <1>1, <2>3 DEF Running, NameOf, IsRequest
<1>4. Answers'
  BY <1>0, <1>1, <1>2 DEF HandlerReturns, SendReply, SettleRun, queue, IInv, Queued, Answers,
     NameOf
<1>5. Handled'
  BY <1>0, <1>1, <1>2 DEF HandlerReturns, SendReply, SettleRun, queue, IInv, Handled
<1>6. ready' \subseteq {d \in setup.calls : published[d] = "stored"} \ settled'
  BY <1>0, <1>2 DEF HandlerReturns, SendReply, SettleRun, queue, IInv, Queued
<1>7. settled' \subseteq {d \in setup.calls : published[d] = "stored"}
  BY <1>0, <1>2 DEF HandlerReturns, SendReply, SettleRun, queue, IInv, Queued
<1>8. QED
  BY <1>1, <1>3, <1>4, <1>5, <1>6, <1>7, QuietKeeps DEF IInv, Shape
LEMMA BrokerKeeps ==
  ASSUME IInv, NEW c \in setup.calls, Store(c) \/ Redeliver(c)
  PROVE  IInv'
<1>1. /\ UNCHANGED <<setup, handlers, known, closed, corrID, pending, pc, corr,
                     ch, result, settled, started, runs, replies, succeeded>>
      /\ ready' = ready \/ (ready' = ready \cup {c} /\ published'[c] = "stored" /\ c \notin settled)
      /\ \/ UNCHANGED published
         \/ /\ published[c] = "flying"
            /\ \E p \in {"stored", "refused"} : published' = [published EXCEPT ![c] = p]
  <2>1. c \in DOMAIN published
    BY DEF IInv, Shape
  <2>2. CASE Store(c)
    BY <2>1, <2>2 DEF Store, service, request, IInv, Queued
  <2>3. CASE Redeliver(c)
    BY <2>3 DEF Redeliver, service, request
  <2>4. QED
    BY <2>2, <2>3
<1>2. /\ \A d \in setup.calls : published[d] = "stored" => published'[d] = "stored"
      /\ \A d \in setup.calls : published[d] = "no" <=> published'[d] = "no"
      /\ DOMAIN published' = DOMAIN published
  BY <1>1 DEF IInv, Shape
<1>3. Running' /\ Answers'
  BY <1>1, <1>2 DEF IInv, Running, Answers, NameOf, IsRequest
<1>4. Handled'
  BY <1>1, <1>2 DEF IInv, Handled
<1>5. /\ ready' \subseteq {d \in setup.calls : published'[d] = "stored"} \ settled'
      /\ settled' \subseteq {d \in setup.calls : published'[d] = "stored"}
  BY <1>1, <1>2 DEF IInv, Queued
<1>6. QED
  BY <1>1, <1>2, <1>3, <1>4, <1>5, QuietKeeps DEF IInv, Shape

\* A reply finds the call whose number it carries, or nobody.
LEMMA ReplyKeeps ==
  ASSUME IInv, NEW m \in replies, ReplyArrives(m)
  PROVE  IInv'
<1>0. /\ m.call \in setup.calls /\ m.call \in succeeded /\ NameOf(m.call, m.by)
      /\ m.to = setup.from[m.call] /\ m.corr = corr[m.call] /\ m.corr # 0
  BY DEF IInv, Answers
<1>1. /\ UNCHANGED <<setup, build, bound, handlers, known, closed, corrID, pc, corr, result,
                     published, ready, settled, started, runs, succeeded>>
      /\ replies' \subseteq replies
  BY DEF ReplyArrives, queue
<1>2. m.to \in setup.instances
  BY <1>0, ServiceAssumption DEF IInv, Shape
<1>3. /\ DOMAIN pending' = DOMAIN pending
      /\ \A i \in setup.instances : \A n \in DOMAIN pending'[i] :
           n \in DOMAIN pending[i] /\ pending'[i][n] = pending[i][n]
  <2>1. CASE UNCHANGED pending
    BY <2>1
  <2>2. CASE \E n : pending' = [pending EXCEPT ![m.to] = Restrict(@, DOMAIN @ \ {n})]
    BY <1>2, <2>2 DEF Restrict, IInv, Shape
  <2>3. QED
    BY <2>1, <2>2 DEF ReplyArrives
<1>4. UNCHANGED ch \/ ch' = [ch EXCEPT ![m.call] = [call |-> m.call, by |-> m.by]]
  <2>1. ASSUME NEW n \in Waiter(m.to, m.corr) PROVE pending[m.to][n] = m.call
    BY <1>0, <1>2, <2>1 DEF Waiter, IInv, Waiters, Numbers
  <2>2. QED
    BY <2>1 DEF ReplyArrives
<1>5. Shape' /\ Numbers' /\ Waiters' /\ Queued'
  BY <1>1, <1>3, <1>4 DEF IInv, Shape, Numbers, Waiters, Queued, IsRequest
<1>6. Running' /\ Answers' /\ Handled'
  BY <1>1 DEF IInv, Running, Answers, Handled, NameOf, IsRequest
<1>7. Received'
  <2>1. [call |-> m.call, by |-> m.by] # NoReply
    <3>1. m.call # "none"
      BY <1>0, ServiceAssumption DEF IInv, Shape
    <3>2. QED
      BY <3>1 DEF NoReply
  <2>2. ASSUME NEW c \in setup.calls
        PROVE  /\ ch'[c] # NoReply => ch'[c].call = c /\ NameOf(c, ch'[c].by) /\ c \in succeeded
               /\ result[c] = "ok" => ch'[c] # NoReply
    <3>1. CASE ch'[c] = ch[c]
      BY <3>1 DEF IInv, Received
    <3>2. CASE ch'[c] # ch[c]
      <4>1. c = m.call /\ ch'[c] = [call |-> m.call, by |-> m.by]
        BY <1>4, <3>2 DEF IInv, Shape
      <4>2. QED
        BY <1>0, <2>1, <4>1
    <3>3. QED
      BY <3>1, <3>2
  <2>3. QED
    BY <1>1, <2>2 DEF IInv, Received, NameOf
<1>8. QED
  BY <1>5, <1>6, <1>7 DEF IInv
-----------------------------------------------------------------------------
(* The theorems.                                                           *)

LEMMA NextKeeps == IInv /\ [Next]_vars => IInv'
<1> SUFFICES ASSUME IInv, [Next]_vars PROVE IInv'
  OBVIOUS
<1>1. CASE UNCHANGED vars
  BY <1>1 DEF vars, IInv, Shape, Numbers, Waiters, Queued, Running, Answers, Received, Handled,
     NameOf, IsRequest
<1>2. ASSUME NEW i \in setup.instances, BuildStep(i) \/ Close(i) PROVE IInv'
  BY <1>2, BuildKeeps
<1>3. ASSUME NEW c \in setup.calls, CallStep(c) PROVE IInv'
  BY <1>3, EnterKeeps, CallKeeps DEF CallStep
<1>4. ASSUME NEW c \in setup.calls, Store(c) \/ Redeliver(c) PROVE IInv'
  BY <1>4, BrokerKeeps
<1>5. ASSUME NEW c \in setup.calls, NEW i \in setup.workers, Deliver(c, i) PROVE IInv'
  BY <1>5, DeliverKeeps
<1>6. ASSUME NEW c \in setup.calls, NEW n \in 0..MaxRuns, RunStep(c, n) PROVE IInv'
  BY <1>6, RunKeeps
<1>7. ASSUME ReplyStep PROVE IInv'
  BY <1>7, ReplyKeeps DEF ReplyStep
<1>8. QED
  BY <1>1, <1>2, <1>3, <1>4, <1>5, <1>6, <1>7 DEF Next

\* The invariant holds of every state of the two services and their queue.
THEOREM Inductive == Spec => []IInv
  BY InitOK, NextKeeps, PTL DEF Spec

\* The type invariant: the table holds numbers that were drawn, what the broker may
\* hand out is stored and not acked, and a Send is never answered.
THEOREM TypeCorrect == Spec => []TypeOK
<1>1. ASSUME IInv PROVE TypeOK
  <2> USE <1>1 DEF IInv
  <2>1. \A i \in setup.instances : DOMAIN pending[i] \subseteq 1..corrID[i]
    BY DEF Shape, Numbers, Waiters
  <2>2. \A c \in setup.calls : started[c] \in 0..setup.runs
    BY ServiceAssumption DEF Shape
  <2>3. QED
    BY <2>1, <2>2 DEF TypeOK, Shape, Queued, Running
<1>2. QED
  BY <1>1, Inductive, PTL

\* No request leaves the queue before a handler has returned no error for it,
\* whatever is lost, closed, half built or delivered again (dispatch).
THEOREM SettledOnlyHandled == Spec => []SettledWasHandled
<1>1. IInv => SettledWasHandled
  BY DEF IInv, Handled, SettledWasHandled
<1>2. QED
  BY <1>1, Inductive, PTL

\* A Request that succeeds has the answer of a handler to this very call, and of the
\* method it named unless one name begins another (Request, dispatch).
THEOREM OwnAnswer == Spec => []AnswersOwn
<1>1. IInv => AnswersOwn
  BY ServiceAssumption DEF IInv, Shape, Received, NameOf, AnswersOwn, Unambiguous
<1>2. QED
  BY <1>1, Inductive, PTL
-----------------------------------------------------------------------------
(* The refinement: each step of the services is one of RequestReply or none. *)

\* What the calls of RequestReply look at.
Seen == <<setup, corr, published, result, succeeded>>

LEMMA Invisible == ASSUME UNCHANGED Seen PROVE UNCHANGED RR!rrVars
BY DEF Seen, RR!rrVars, AbsStatus

LEMMA CallImplements ==
  ASSUME IInv, NEW c \in setup.calls, CallStep(c)
  PROVE  RR!RRNext \/ UNCHANGED RR!rrVars
<1> USE ServiceAssumption DEF request, service, queue
<1>0. c \in Calls /\ UNCHANGED <<setup, succeeded>>
  BY DEF IInv, Shape, CallStep, Resolve, Enter, Publish, Published, EndWait, SendOnly
<1>1. CASE Resolve(c)
  <2>1. corr[c] = 0 /\ published[c] = "no"
    BY <1>1 DEF Resolve, IInv, Numbers, Queued
  <2>2. UNCHANGED <<corr, published>> /\ \A d \in setup.calls \ {c} : result'[d] = result[d]
    BY <1>1 DEF Resolve, Return, IInv, Shape
  <2>3. AbsStatus' = AbsStatus
    BY <1>0, <2>1, <2>2 DEF AbsStatus
  <2>4. QED
    BY <1>0, <2>3 DEF RR!rrVars
<1>2. CASE Enter(c)
  <2>1. /\ corr[c] = 0 /\ published[c] = "no" /\ result[c] = "none"
        /\ UNCHANGED <<published, result>>
    BY <1>2 DEF Enter, IInv, Numbers, Queued, Received
  <2>2. corr'[c] # 0 /\ \A d \in setup.calls \ {c} : corr'[d] = corr[d]
    BY <1>2 DEF Enter, IInv, Shape
  <2>3. AbsStatus[c] = "new" /\ AbsStatus' = [AbsStatus EXCEPT ![c] = "open"]
    BY <1>0, <2>1, <2>2 DEF AbsStatus
  <2>4. QED
    BY <1>0, <2>3 DEF RR!RRNext, RR!Open
<1>3. CASE pc[c] \in {"publish", "sent", "waiting"} /\ UNCHANGED result /\ CallStep(c)
  <2>1. /\ corr[c] # 0 /\ UNCHANGED corr
        /\ \A d \in setup.calls \ {c} : published'[d] = published[d]
    BY <1>3 DEF CallStep, Resolve, Enter, Publish, Published, EndWait, SendOnly, IInv, Shape,
       Numbers
  <2>2. AbsStatus' = AbsStatus
    BY <1>0, <1>3, <2>1 DEF AbsStatus
  <2>3. QED
    BY <1>0, <2>2 DEF RR!rrVars
<1>4. CASE \E r \in {"ok", "timeout", "failed"} :
             Return(c, r) /\ (r = "ok" => ch[c] # NoReply)
             /\ (Publish(c) \/ Published(c) \/ EndWait(c))
  <2>1. /\ corr[c] # 0 /\ result[c] = "none" /\ UNCHANGED <<corr, published>>
    BY <1>4 DEF Publish, Published, EndWait, Return, IInv, Shape, Numbers, Received
  <2>2. PICK r \in {"ok", "timeout", "failed"} :
          result' = [result EXCEPT ![c] = r] /\ (r = "ok" => ch[c] # NoReply)
    BY <1>4 DEF Return
  <2>3. AbsStatus[c] = "open"
    BY <1>0, <2>1 DEF AbsStatus
  <2>4. AbsStatus' = [AbsStatus EXCEPT ![c] = IF r = "ok" THEN "ok" ELSE "failed"]
    BY <1>0, <2>1, <2>2 DEF AbsStatus, IInv, Shape
  <2>5. r = "ok" => c \in succeeded
    BY <2>2 DEF IInv, Received
  <2>6. QED
    BY <1>0, <2>3, <2>4, <2>5 DEF RR!RRNext, RR!Succeed, RR!Fail
<1>5. CASE SendOnly(c)
  <2>1. corr[c] = 0 /\ published[c] = "no" /\ UNCHANGED corr
    BY <1>5 DEF SendOnly, IInv, Numbers, Queued
  <2>2. /\ \A d \in setup.calls \ {c} : result'[d] = result[d] /\ published'[d] = published[d]
        /\ \/ UNCHANGED published
           \/ published'[c] = "flying" /\ result'[c] = "sent"
    BY <1>5 DEF SendOnly, Return, IInv, Shape
  <2>3. CASE UNCHANGED published
    <3>1. AbsStatus' = AbsStatus
      BY <1>0, <2>1, <2>2, <2>3 DEF AbsStatus
    <3>2. QED
      BY <1>0, <3>1 DEF RR!rrVars
  <2>4. CASE published'[c] = "flying" /\ result'[c] = "sent"
    <3>1. AbsStatus[c] = "new" /\ AbsStatus' = [AbsStatus EXCEPT ![c] = "open"]
      BY <1>0, <2>1, <2>2, <2>4 DEF AbsStatus
    <3>2. QED
      BY <1>0, <3>1 DEF RR!RRNext, RR!Open
  <2>5. QED
    BY <2>2, <2>3, <2>4
<1>6. QED
  <2>1. CASE Publish(c)
    BY <1>3, <1>4, <2>1 DEF Publish, CallStep
  <2>2. CASE Published(c)
    BY <1>3, <1>4, <2>2 DEF Published, CallStep
  <2>3. CASE EndWait(c)
    BY <1>4, <2>3 DEF EndWait
  <2>4. QED
    BY <1>1, <1>2, <1>5, <2>1, <2>2, <2>3 DEF CallStep

LEMMA RunImplements ==
  ASSUME IInv, NEW c \in setup.calls, NEW n, RunStep(c, n)
  PROVE  RR!RRNext \/ UNCHANGED RR!rrVars
<1>1. PICK r \in runs : r.call = c /\ (HandlerReturns(r) \/ SendReply(r) \/ SettleRun(r))
  BY DEF RunStep
<1>2. UNCHANGED <<setup, corr, published, result>>
  BY <1>1 DEF HandlerReturns, SendReply, SettleRun, request, service, queue
<1>3. AbsStatus' = AbsStatus
  BY <1>2 DEF AbsStatus
<1>4. succeeded' = succeeded \/ succeeded' = succeeded \cup {c}
  BY <1>1 DEF HandlerReturns, SendReply, SettleRun
<1>5. c \in Calls /\ AbsStatus[c] # "new"
  BY <1>1, ServiceAssumption DEF AbsStatus, IInv, Shape, Running
<1>6. QED
  BY <1>3, <1>4, <1>5 DEF RR!RRNext, RR!Execute, RR!rrVars

LEMMA StepImplements == IInv /\ [Next]_vars => [RR!RRNext]_(RR!rrVars)
<1> SUFFICES ASSUME IInv, [Next]_vars PROVE RR!RRNext \/ UNCHANGED RR!rrVars
  OBVIOUS
<1> USE DEF request, service, queue
<1>1. CASE UNCHANGED vars
  BY <1>1, Invisible DEF vars, Seen
<1>2. ASSUME NEW i \in setup.instances, BuildStep(i) \/ Close(i) PROVE UNCHANGED RR!rrVars
  BY <1>2, Invisible DEF BuildStep, Create, SubscribeWorker, SubscribeReply, Subscribe, Handle,
     Close, Seen
<1>3. ASSUME NEW c \in setup.calls, Store(c) PROVE UNCHANGED RR!rrVars
  <2>1. /\ UNCHANGED <<setup, corr, result, succeeded>> /\ published[c] # "no" /\ published'[c] # "no"
        /\ \A d \in setup.calls \ {c} : published'[d] = published[d]
    BY <1>3 DEF Store, IInv, Shape
  <2>2. AbsStatus' = AbsStatus
    BY <2>1 DEF AbsStatus
  <2>3. QED
    BY <2>1, <2>2 DEF RR!rrVars
<1>4. ASSUME NEW c \in setup.calls, NEW i \in setup.workers, Deliver(c, i)
      PROVE UNCHANGED RR!rrVars
  BY <1>4, Invisible DEF Deliver, Seen
<1>5. ASSUME NEW c \in setup.calls, Redeliver(c) PROVE UNCHANGED RR!rrVars
  BY <1>5, Invisible DEF Redeliver, Seen
<1>6. ASSUME NEW m \in replies, ReplyArrives(m) PROVE UNCHANGED RR!rrVars
  BY <1>6, Invisible DEF ReplyArrives, Seen
<1>7. QED
  BY <1>1, <1>2, <1>3, <1>4, <1>5, <1>6, CallImplements, RunImplements DEF Next, ReplyStep

\* Every behaviour of the services keeps the contract of RequestReply: a call ends
\* once, and with an answer only if a handler succeeded for it.
THEOREM Implements == Spec => ImplementsRequestReply
<1>1. Init => RR!RRInit
  BY ServiceAssumption DEF Init, RR!RRInit, AbsStatus
<1>2. QED
  BY <1>1, StepImplements, Inductive, PTL DEF Spec, ImplementsRequestReply, RR!RRSpec
=============================================================================
