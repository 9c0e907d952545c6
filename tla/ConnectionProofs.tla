-------------------------- MODULE ConnectionProofs --------------------------
(* What holds of one connection for any number of callers and any capacity. *)
EXTENDS Connection, TLAPS

\* Frames enter a queue at its tail and leave it at its head.
LEMMA QueueTypes ==
  ASSUME NEW S, NEW q \in Seq(S)
  PROVE  /\ \A f \in S : Append(q, f) \in Seq(S)
         /\ q # <<>> => Head(q) \in S /\ Tail(q) \in Seq(S)
  OBVIOUS

\* Every frame the model builds is a frame of its direction.
LEMMA FrameTypes ==
  /\ Ping \in OutFrame /\ \A n \in Nat : Request(n) \in OutFrame
  /\ Pong \in InFrame /\ Deliver \in InFrame /\ AuthError \in InFrame
  /\ \A n \in Nat : Reply(n) \in InFrame
  /\ \A f \in OutFrame : f.seq \in Nat
  BY DEF Ping, Request, Pong, Deliver, AuthError, Reply, OutFrame, InFrame

\* The state Dial leaves behind is well typed.
LEMMA TypeInit == Init => TypeOK
<1> SUFFICES ASSUME Init PROVE TypeOK
  OBVIOUS
<1> USE ConnectionAssumption DEF ConnectionAssumption
<1>1. FlagsOK
  BY DEF Init, FlagsOK
<1>2. CountersOK
  BY DEF Init, CountersOK
<1>3. CallersOK
  BY DEF Init, CallersOK
<1>4. QueuesOK
  BY DEF Init, QueuesOK
<1>5. GoroutinesOK
  BY DEF Init, GoroutinesOK
<1>6. QED
  BY <1>1, <1>2, <1>3, <1>4, <1>5 DEF TypeOK

\* The type invariant holds throughout: no step of SendExpectReply, of the
\* three goroutines of the connection or of Close leaves the state space.
THEOREM TypeCorrect == Spec => []TypeOK
<1> USE ConnectionAssumption DEF ConnectionAssumption, closeVars, callerVars,
      readerVars, writerVars, brokerVars, Panicked
<1>1. Init => TypeOK
  BY TypeInit
<1>2. TypeOK /\ [Next]_vars => TypeOK'
  <2> SUFFICES ASSUME TypeOK, [Next]_vars PROVE TypeOK'
    OBVIOUS
  <2> USE DEF TypeOK
  <2>1. ASSUME NEW c \in Callers, Register(c) PROVE TypeOK'
    BY <2>1 DEF FlagsOK, CountersOK, CallersOK, QueuesOK, GoroutinesOK, Register, NextSeq
  <2>2. ASSUME NEW c \in Callers, CheckClosed(c) PROVE TypeOK'
    <3>1. FlagsOK'
      BY <2>2 DEF FlagsOK, CheckClosed, GiveUp, Return, SendSeesClosed
    <3>2. CountersOK'
      BY <2>2 DEF CountersOK, CheckClosed, GiveUp, Return, SendSeesClosed
    <3>3. CallersOK'
      BY <2>2 DEF CallersOK, CheckClosed, GiveUp, Return, SendSeesClosed
    <3>4. QueuesOK'
      BY <2>2 DEF QueuesOK, CheckClosed, GiveUp, Return, SendSeesClosed
    <3>5. GoroutinesOK'
      BY <2>2 DEF GoroutinesOK, CheckClosed, GiveUp, Return, SendSeesClosed
    <3>6. QED
      BY <3>1, <3>2, <3>3, <3>4, <3>5
  <2>3. ASSUME NEW c \in Callers, Enqueue(c) PROVE TypeOK'
    <3>1. FlagsOK'
      BY <2>3 DEF FlagsOK, Enqueue, Request, OutFrame
    <3>2. CountersOK'
      BY <2>3 DEF CountersOK, Enqueue, Request, OutFrame
    <3>3. CallersOK'
      BY <2>3 DEF CallersOK, Enqueue, Request, OutFrame
    <3>4. QueuesOK'
      <4>1. writeCh' = Append(writeCh, Request(mySeq[c])) /\ mySeq[c] \in Nat
        BY <2>3 DEF Enqueue, CallersOK
      <4>2. writeCh' \in Seq(OutFrame)
        BY <4>1, FrameTypes, QueueTypes DEF QueuesOK
      <4>3. QED
        BY <2>3, <4>2 DEF QueuesOK, Enqueue
    <3>5. GoroutinesOK'
      BY <2>3 DEF GoroutinesOK, Enqueue, Request, OutFrame
    <3>6. QED
      BY <3>1, <3>2, <3>3, <3>4, <3>5
  <2>4. ASSUME NEW c \in Callers, FastPathFull(c) PROVE TypeOK'
    BY <2>4 DEF FlagsOK, CountersOK, CallersOK, QueuesOK, GoroutinesOK, FastPathFull
  <2>5. ASSUME NEW c \in Callers, StopBlocking(c) PROVE TypeOK'
    <3>1. FlagsOK'
      BY <2>5 DEF FlagsOK, StopBlocking, GiveUp, Return
    <3>2. CountersOK'
      BY <2>5 DEF CountersOK, StopBlocking, GiveUp, Return
    <3>3. CallersOK'
      BY <2>5 DEF CallersOK, StopBlocking, GiveUp, Return
    <3>4. QueuesOK'
      BY <2>5 DEF QueuesOK, StopBlocking, GiveUp, Return
    <3>5. GoroutinesOK'
      BY <2>5 DEF GoroutinesOK, StopBlocking, GiveUp, Return
    <3>6. QED
      BY <3>1, <3>2, <3>3, <3>4, <3>5
  <2>6. ASSUME NEW c \in Callers, EndWait(c) PROVE TypeOK'
    <3>1. FlagsOK'
      BY <2>6 DEF FlagsOK, EndWait, GiveUp, Return, WokenBy
    <3>2. CountersOK'
      BY <2>6 DEF CountersOK, EndWait, GiveUp, Return, WokenBy
    <3>3. CallersOK'
      BY <2>6 DEF CallersOK, EndWait, GiveUp, Return, WokenBy
    <3>4. QueuesOK'
      BY <2>6 DEF QueuesOK, EndWait, GiveUp, Return, WokenBy
    <3>5. GoroutinesOK'
      BY <2>6 DEF GoroutinesOK, EndWait, GiveUp, Return, WokenBy
    <3>6. QED
      BY <3>1, <3>2, <3>3, <3>4, <3>5
  <2>7. CASE WriterTake
    <3>1. FlagsOK'
      BY <2>7 DEF FlagsOK, WriterTake
    <3>2. CountersOK'
      BY <2>7 DEF CountersOK, WriterTake
    <3>3. CallersOK'
      BY <2>7 DEF CallersOK, WriterTake
    <3>4. QueuesOK'
      BY <2>7 DEF QueuesOK, WriterTake
    <3>5. GoroutinesOK'
      BY <2>7 DEF GoroutinesOK, WriterTake
    <3>6. QED
      BY <3>1, <3>2, <3>3, <3>4, <3>5
  <2>8. CASE WriterStartFlush
    BY <2>8 DEF FlagsOK, CountersOK, CallersOK, QueuesOK, GoroutinesOK, WriterStartFlush
  <2>9. CASE WriterWrite
    <3>1. FlagsOK'
      BY <2>9 DEF FlagsOK, WriterWrite
    <3>2. CountersOK'
      BY <2>9 DEF CountersOK, WriterWrite
    <3>3. CallersOK'
      BY <2>9 DEF CallersOK, WriterWrite
    <3>4. QueuesOK'
      <4> USE <2>9 DEF QueuesOK, WriterWrite
      <4>1. CASE sock = "open" /\ wbuf # <<>>
        <5>1. wire' = Append(wire, Head(wbuf)) /\ wbuf' = Tail(wbuf)
          BY <4>1
        <5>2. wire' \in Seq(OutFrame) /\ wbuf' \in Seq(OutFrame)
          BY <4>1, <5>1, QueueTypes
        <5>3. QED
          BY <5>2
      <4>2. CASE ~(sock = "open" /\ wbuf # <<>>)
        <5>1. wire' = wire /\ (wbuf' = wbuf \/ wbuf' = <<>>)
          BY <4>2
        <5>2. <<>> \in Seq(OutFrame)
          OBVIOUS
        <5>3. QED
          BY <5>1, <5>2
      <4>3. QED
        BY <4>1, <4>2
    <3>5. GoroutinesOK'
      BY <2>9 DEF GoroutinesOK, WriterWrite
    <3>6. QED
      BY <3>1, <3>2, <3>3, <3>4, <3>5
  <2>10. CASE WriterDone
    BY <2>10 DEF FlagsOK, CountersOK, CallersOK, QueuesOK, GoroutinesOK, WriterDone
  <2>11. CASE ReaderDispatch
    <3>1. FlagsOK'
      BY <2>11 DEF FlagsOK, ReaderDispatch, Registered, TakeOut
    <3>2. CountersOK'
      BY <2>11 DEF CountersOK, ReaderDispatch, Registered, TakeOut
    <3>3. CallersOK'
      BY <2>11 DEF CallersOK, ReaderDispatch, Registered, TakeOut
    <3>4. QueuesOK'
      BY <2>11 DEF QueuesOK, ReaderDispatch, Registered, TakeOut
    <3>5. GoroutinesOK'
      BY <2>11 DEF GoroutinesOK, ReaderDispatch, Registered, TakeOut
    <3>6. QED
      BY <3>1, <3>2, <3>3, <3>4, <3>5
  <2>12. CASE ReaderReply
    BY <2>12 DEF FlagsOK, CountersOK, CallersOK, QueuesOK, GoroutinesOK, ReaderReply
  <2>13. CASE ReaderDeliver
    <3>1. FlagsOK'
      BY <2>13 DEF FlagsOK, ReaderDeliver, SubHasRoom
    <3>2. CountersOK'
      BY <2>13 DEF CountersOK, ReaderDeliver, SubHasRoom
    <3>3. CallersOK'
      BY <2>13 DEF CallersOK, ReaderDeliver, SubHasRoom
    <3>4. QueuesOK'
      BY <2>13 DEF QueuesOK, ReaderDeliver, SubHasRoom
    <3>5. GoroutinesOK'
      BY <2>13 DEF GoroutinesOK, ReaderDeliver, SubHasRoom
    <3>6. QED
      BY <3>1, <3>2, <3>3, <3>4, <3>5
  <2>14. CASE ReaderFail
    <3>1. FlagsOK'
      BY <2>14 DEF FlagsOK, ReaderFail, MarkClosed
    <3>2. CountersOK'
      BY <2>14 DEF CountersOK, ReaderFail, MarkClosed
    <3>3. CallersOK'
      BY <2>14 DEF CallersOK, ReaderFail, MarkClosed
    <3>4. QueuesOK'
      BY <2>14 DEF QueuesOK, ReaderFail, MarkClosed
    <3>5. GoroutinesOK'
      BY <2>14 DEF GoroutinesOK, ReaderFail, MarkClosed
    <3>6. QED
      BY <3>1, <3>2, <3>3, <3>4, <3>5
  <2>15. CASE ReaderCloseAll
    <3>1. FlagsOK'
      BY <2>15 DEF FlagsOK, ReaderCloseAll, CloseAll
    <3>2. CountersOK'
      BY <2>15 DEF CountersOK, ReaderCloseAll, CloseAll
    <3>3. CallersOK'
      BY <2>15 DEF CallersOK, ReaderCloseAll, CloseAll
    <3>4. QueuesOK'
      BY <2>15 DEF QueuesOK, ReaderCloseAll, CloseAll
    <3>5. GoroutinesOK'
      BY <2>15 DEF GoroutinesOK, ReaderCloseAll, CloseAll
    <3>6. QED
      BY <3>1, <3>2, <3>3, <3>4, <3>5
  <2>16. CASE ReaderTestDone
    BY <2>16 DEF FlagsOK, CountersOK, CallersOK, QueuesOK, GoroutinesOK, ReaderTestDone
  <2>17. CASE ReaderCloseDone
    <3>1. FlagsOK'
      BY <2>17 DEF FlagsOK, ReaderCloseDone
    <3>2. CountersOK'
      BY <2>17 DEF CountersOK, ReaderCloseDone
    <3>3. CallersOK'
      BY <2>17 DEF CallersOK, ReaderCloseDone
    <3>4. QueuesOK'
      BY <2>17 DEF QueuesOK, ReaderCloseDone
    <3>5. GoroutinesOK'
      BY <2>17 DEF GoroutinesOK, ReaderCloseDone
    <3>6. QED
      BY <3>1, <3>2, <3>3, <3>4, <3>5
  <2>18. CASE SubscriptionReceive
    <3>1. FlagsOK'
      BY <2>18 DEF FlagsOK, SubscriptionReceive
    <3>2. CountersOK'
      BY <2>18 DEF CountersOK, SubscriptionReceive
    <3>3. CallersOK'
      BY <2>18 DEF CallersOK, SubscriptionReceive
    <3>4. QueuesOK'
      BY <2>18 DEF QueuesOK, SubscriptionReceive
    <3>5. GoroutinesOK'
      BY <2>18 DEF GoroutinesOK, SubscriptionReceive
    <3>6. QED
      BY <3>1, <3>2, <3>3, <3>4, <3>5
  <2>19. CASE CloseCall
    <3>1. FlagsOK'
      BY <2>19 DEF FlagsOK, CloseCall, CloseSwap
    <3>2. CountersOK'
      BY <2>19 DEF CountersOK, CloseCall, CloseSwap
    <3>3. CallersOK'
      BY <2>19 DEF CallersOK, CloseCall, CloseSwap
    <3>4. QueuesOK'
      BY <2>19 DEF QueuesOK, CloseCall, CloseSwap
    <3>5. GoroutinesOK'
      BY <2>19 DEF GoroutinesOK, CloseCall, CloseSwap
    <3>6. QED
      BY <3>1, <3>2, <3>3, <3>4, <3>5
  <2>20. CASE CloseDone
    <3>1. FlagsOK'
      BY <2>20 DEF FlagsOK, CloseDone
    <3>2. CountersOK'
      BY <2>20 DEF CountersOK, CloseDone
    <3>3. CallersOK'
      BY <2>20 DEF CallersOK, CloseDone
    <3>4. QueuesOK'
      BY <2>20 DEF QueuesOK, CloseDone
    <3>5. GoroutinesOK'
      BY <2>20 DEF GoroutinesOK, CloseDone
    <3>6. QED
      BY <3>1, <3>2, <3>3, <3>4, <3>5
  <2>21. CASE CloseAllPending
    <3>1. FlagsOK'
      BY <2>21 DEF FlagsOK, CloseAllPending, CloseAll
    <3>2. CountersOK'
      BY <2>21 DEF CountersOK, CloseAllPending, CloseAll
    <3>3. CallersOK'
      BY <2>21 DEF CallersOK, CloseAllPending, CloseAll
    <3>4. QueuesOK'
      BY <2>21 DEF QueuesOK, CloseAllPending, CloseAll
    <3>5. GoroutinesOK'
      BY <2>21 DEF GoroutinesOK, CloseAllPending, CloseAll
    <3>6. QED
      BY <3>1, <3>2, <3>3, <3>4, <3>5
  <2>22. CASE CloseSocket
    BY <2>22 DEF FlagsOK, CountersOK, CallersOK, QueuesOK, GoroutinesOK, CloseSocket
  <2>23. CASE HeartbeatTick
    <3>1. FlagsOK'
      BY <2>23 DEF FlagsOK, HeartbeatTick, CloseSwap, Stale, Ping, OutFrame
    <3>2. CountersOK'
      BY <2>23 DEF CountersOK, HeartbeatTick, CloseSwap, Stale, Ping, OutFrame
    <3>3. CallersOK'
      BY <2>23 DEF CallersOK, HeartbeatTick, CloseSwap, Stale, Ping, OutFrame
    <3>4. QueuesOK'
      <4>1. writeCh' = writeCh \/ writeCh' = Append(writeCh, Ping)
        BY <2>23 DEF HeartbeatTick
      <4>2. writeCh' \in Seq(OutFrame)
        BY <4>1, FrameTypes, QueueTypes DEF QueuesOK
      <4>3. QED
        BY <2>23, <4>2 DEF QueuesOK, HeartbeatTick
    <3>5. GoroutinesOK'
      BY <2>23 DEF GoroutinesOK, HeartbeatTick, CloseSwap, Stale, Ping, OutFrame
    <3>6. QED
      BY <3>1, <3>2, <3>3, <3>4, <3>5
  <2>24. CASE HeartbeatDone
    BY <2>24 DEF FlagsOK, CountersOK, CallersOK, QueuesOK, GoroutinesOK, HeartbeatDone
  <2>25. CASE BrokerHandshake
    <3>1. FlagsOK'
      BY <2>25 DEF FlagsOK, BrokerHandshake, AuthError, InFrame
    <3>2. CountersOK'
      BY <2>25 DEF CountersOK, BrokerHandshake, AuthError, InFrame
    <3>3. CallersOK'
      BY <2>25 DEF CallersOK, BrokerHandshake, AuthError, InFrame
    <3>4. QueuesOK'
      <4>1. inbound' = inbound \/ inbound' = Append(inbound, AuthError)
        BY <2>25 DEF BrokerHandshake
      <4>2. inbound' \in Seq(InFrame)
        BY <4>1, FrameTypes, QueueTypes DEF QueuesOK
      <4>3. QED
        BY <2>25, <4>2 DEF QueuesOK, BrokerHandshake
    <3>5. GoroutinesOK'
      BY <2>25 DEF GoroutinesOK, BrokerHandshake, AuthError, InFrame
    <3>6. QED
      BY <3>1, <3>2, <3>3, <3>4, <3>5
  <2>26. CASE BrokerAnswer
    <3>1. FlagsOK'
      BY <2>26 DEF FlagsOK, BrokerAnswer, Reply, Pong, InFrame, OutFrame
    <3>2. CountersOK'
      BY <2>26 DEF CountersOK, BrokerAnswer, Reply, Pong, InFrame, OutFrame
    <3>3. CallersOK'
      BY <2>26 DEF CallersOK, BrokerAnswer, Reply, Pong, InFrame, OutFrame
    <3>4. QueuesOK'
      <4>1. Head(wire) \in OutFrame /\ wire' \in Seq(OutFrame)
        BY <2>26, QueueTypes DEF QueuesOK, BrokerAnswer
      <4>2. PICK f \in InFrame : inbound' = Append(inbound, f)
        BY <2>26, <4>1, FrameTypes DEF BrokerAnswer
      <4>3. inbound' \in Seq(InFrame)
        BY <4>2, QueueTypes DEF QueuesOK
      <4>4. executed' \in SUBSET Nat
        <5>1. Head(wire).seq \in Nat
          BY <4>1, FrameTypes
        <5>2. executed' = executed \/ executed' = executed \cup {Head(wire).seq}
          BY <2>26 DEF BrokerAnswer
        <5>3. QED
          BY <5>1, <5>2 DEF QueuesOK
      <4>5. QED
        BY <2>26, <4>1, <4>3, <4>4 DEF QueuesOK, BrokerAnswer
    <3>5. GoroutinesOK'
      BY <2>26 DEF GoroutinesOK, BrokerAnswer, Reply, Pong, InFrame, OutFrame
    <3>6. QED
      BY <3>1, <3>2, <3>3, <3>4, <3>5
  <2>27. CASE BrokerPush
    BY <2>27 DEF FlagsOK, CountersOK, CallersOK, QueuesOK, GoroutinesOK, BrokerPush, Deliver, InFrame
  <2>28. CASE SocketBreaks
    BY <2>28 DEF FlagsOK, CountersOK, CallersOK, QueuesOK, GoroutinesOK, SocketBreaks
  <2>29. CASE UNCHANGED vars
    BY <2>29 DEF vars, FlagsOK, CountersOK, CallersOK, QueuesOK, GoroutinesOK
  <2>30. QED
    BY <2>1, <2>2, <2>3, <2>4, <2>5, <2>6, <2>7, <2>8, <2>9, <2>10, <2>11,
       <2>12, <2>13, <2>14, <2>15, <2>16, <2>17, <2>18, <2>19, <2>20, <2>21,
       <2>22, <2>23, <2>24, <2>25, <2>26, <2>27, <2>28, <2>29
       DEF Next, RequestStep, WriterStep, ReaderStep, CloserStep, HeartbeatStep, BrokerStep
<1>3. QED
  BY <1>1, <1>2, PTL DEF Spec

-----------------------------------------------------------------------------
\* Numbers in a queue stay numbers that were handed out.
LEMMA NumberedQueue ==
  ASSUME NEW q \in Seq(OutFrame), Numbered(q)
  PROVE  /\ \A f \in OutFrame :
               (f.kind = "request" => f.seq \in 1..(seq - 1)) => Numbered(Append(q, f))
         /\ q # <<>> => /\ Numbered(Tail(q))
                        /\ Head(q).kind = "request" => Head(q).seq \in 1..(seq - 1)
  BY DEF Numbered

\* PendingMap holds one entry per caller, and Resolve has taken out the one it
\* is answering: an entry is determined by its caller.
LEMMA EntriesDistinct ==
  ASSUME CallersOK, EntriesOwned
  PROVE  \A e, f \in Entries : e.ch = f.ch => e = f
  BY DEF CallersOK, EntriesOwned, Entries

\* A reply that enters or leaves the inbound queue keeps the others answered.
LEMMA AnsweredQueue ==
  ASSUME NEW q \in Seq(InFrame), NEW S,
         \A i \in 1..Len(q) : q[i].kind = "reply" => q[i].seq \in S
  PROVE  \A f \in InFrame : (f.kind = "reply" => f.seq \in S) =>
           \A i \in 1..Len(Append(q, f)) :
              Append(q, f)[i].kind = "reply" => Append(q, f)[i].seq \in S
  OBVIOUS

\* Remove(seq) takes out the caller's own entry and no other.
LEMMA RemoveIsOwn ==
  ASSUME CallersOK, NumbersUnique, EntriesOwned, NEW c \in Callers, pc[c] # "idle"
  PROVE  {e \in pending : e.seq # mySeq[c]} = {e \in pending : e.ch # c}
<1>1. ASSUME NEW e \in pending, e.seq = mySeq[c] PROVE e.ch = c
  BY <1>1 DEF CallersOK, NumbersUnique, EntriesOwned, Entries
<1>2. ASSUME NEW e \in pending, e.ch = c PROVE e.seq = mySeq[c]
  BY <1>2 DEF CallersOK, EntriesOwned, Entries
<1>3. QED
  BY <1>1, <1>2

\* Resolve answers the entry it took out: the frame carries the same number.
LEMMA ResolveTakes ==
  ASSUME CallersOK, ReaderDispatch, Head(inbound).kind = "reply"
  PROVE  /\ resolving' = {e \in pending : e.seq = Head(inbound).seq}
         /\ pending' = pending \ resolving'
<1> DEFINE n == Head(inbound).seq
<1>1. /\ resolving' = {[seq |-> n, ch |-> e.ch] : e \in Registered(n)}
      /\ pending' = pending \ Registered(n)
  BY DEF ReaderDispatch, TakeOut
<1>2. {[seq |-> n, ch |-> e.ch] : e \in Registered(n)} = Registered(n)
  <2>1. \A e \in Registered(n) : e = [seq |-> n, ch |-> e.ch]
    BY DEF CallersOK, Registered
  <2>2. QED
    BY <2>1
<1>3. QED
  BY <1>1, <1>2 DEF Registered

\* The inductive invariant: sequence numbers name their caller, an entry is in
\* exactly one place, and CloseAll is still due while a closed connection has
\* entries.
THEOREM Inductive == Spec => []IInv
<1> USE ConnectionAssumption DEF ConnectionAssumption, closeVars, callerVars,
      readerVars, writerVars, brokerVars, Panicked
<1>1. Init => IInv
  BY TypeInit DEF Init, IInv, NumbersUnique, FramesNumbered, Numbered, RepliesExecuted,
     EntriesOwned, WaiterIsKnown, ClosedMeansCloseAllDue, ClosedFirst, Entries,
     Active, CloseAllDue, Done
<1>2. IInv /\ TypeOK' /\ [Next]_vars => IInv'
  <2> SUFFICES ASSUME IInv, TypeOK', [Next]_vars PROVE IInv'
    OBVIOUS
  <2>0. CountersOK /\ CallersOK /\ QueuesOK /\ GoroutinesOK /\ FlagsOK
    BY DEF IInv, TypeOK
  <2> USE DEF IInv
  <2>1. ASSUME NEW c \in Callers, Register(c) PROVE IInv'
    <3>1. NumbersUnique'
      <4>1. /\ pc' = [pc EXCEPT ![c] = "check"] /\ pc[c] = "idle"
            /\ mySeq' = [mySeq EXCEPT ![c] = seq] /\ seq' = seq + 1
        BY <2>1 DEF Register, NextSeq
      <4>2. /\ \A d \in Callers : pc'[d] = "idle" => mySeq'[d] = 0
            /\ \A d \in Callers : pc'[d] # "idle" => mySeq'[d] \in 1..(seq' - 1)
        BY <2>0, <4>1 DEF CallersOK, NumbersUnique
      <4>3. \A d, e \in Callers : mySeq'[d] = mySeq'[e] /\ mySeq'[d] # 0 => d = e
        BY <2>0, <4>1 DEF CallersOK, NumbersUnique
      <4>4. ASSUME NEW n \in 1..(seq' - 1) PROVE \E d \in Callers : mySeq'[d] = n
        <5>1. CASE n = seq
          BY <2>0, <4>1, <5>1 DEF CallersOK
        <5>2. CASE n # seq
          <6>1. n \in 1..(seq - 1)
            BY <2>0, <4>1, <5>2 DEF CallersOK
          <6>2. PICK d \in Callers : mySeq[d] = n
            BY <6>1 DEF NumbersUnique
          <6>3. d # c
            BY <4>1, <6>1, <6>2 DEF NumbersUnique
          <6>4. QED
            BY <2>0, <4>1, <6>2, <6>3 DEF CallersOK
        <5>3. QED
          BY <5>1, <5>2
      <4>5. QED
        BY <4>2, <4>3, <4>4 DEF NumbersUnique
    <3>2. FramesNumbered'
      <4>1. UNCHANGED <<writeCh, wbuf, wire, executed>>
        BY <2>1 DEF Register, NextSeq
      <4>2. 1..(seq - 1) \subseteq 1..(seq' - 1)
        BY <2>0, <2>1 DEF CallersOK, Register, NextSeq
      <4>3. QED
        BY <4>1, <4>2 DEF FramesNumbered, Numbered
    <3>3. EntriesOwned'
      BY <2>0, <2>1 DEF EntriesOwned, Entries, Active, CallersOK, QueuesOK,
         Register, NextSeq
    <3>4. WaiterIsKnown'
      <4>1. /\ pc' = [pc EXCEPT ![c] = "check"] /\ pc[c] = "idle"
            /\ mySeq' = [mySeq EXCEPT ![c] = seq]
            /\ pending' = {e \in pending : e.seq # seq} \cup {[seq |-> seq, ch |-> c]}
            /\ UNCHANGED <<reply, chClosed, resolving>>
        BY <2>1 DEF Register, NextSeq
      <4>2. \A e \in pending : e.seq # seq
        BY <2>0 DEF CallersOK, EntriesOwned, Entries, NumbersUnique
      <4>3. Entries' = Entries \cup {[seq |-> seq, ch |-> c]}
        BY <4>1, <4>2 DEF Entries
      <4>4. \A d \in Callers : Active(d)' => d = c \/ Active(d)
        BY <2>0, <4>1 DEF CallersOK, Active
      <4>5. ASSUME NEW d \in Callers, Active(d)'
            PROVE  \/ \E e \in Entries' : e.ch = d
                   \/ d \in chClosed'
                   \/ reply'[d] # 0
        <5>1. CASE d = c
          <6>1. [seq |-> seq, ch |-> c] \in Entries' /\ [seq |-> seq, ch |-> c].ch = c
            BY <4>3
          <6>2. QED
            BY <5>1, <6>1
        <5>2. CASE Active(d)
          BY <4>1, <4>3, <5>2 DEF WaiterIsKnown
        <5>3. QED
          BY <4>4, <4>5, <5>1, <5>2
      <4>6. QED
        BY <4>5 DEF WaiterIsKnown
    <3>5. ClosedMeansCloseAllDue'
      BY <2>0, <2>1 DEF ClosedMeansCloseAllDue, CloseAllDue, CallersOK,
         QueuesOK, Register, NextSeq
    <3>6. RepliesExecuted' /\ ClosedFirst'
      BY <2>1 DEF RepliesExecuted, ClosedFirst, Done, Register
    <3>7. QED
      BY <3>1, <3>2, <3>3, <3>4, <3>5, <3>6
  <2>2. ASSUME NEW c \in Callers, CheckClosed(c) PROVE IInv'
    <3>1. NumbersUnique'
      BY <2>0, <2>2 DEF NumbersUnique, CallersOK, QueuesOK, CheckClosed,
         GiveUp, Return, SendSeesClosed
    <3>2. EntriesOwned'
      <4>1. pc[c] # "idle" /\ pc' = [pc EXCEPT ![c] = pc'[c]] /\ pc'[c] # "idle"
        BY <2>0, <2>2 DEF CallersOK, CheckClosed, GiveUp, Return
      <4>2. \/ pending' = {e \in pending : e.ch # c} /\ pc'[c] = "returned"
            \/ pending' = pending /\ (pc[c] = "check" /\ pc'[c] = "send")
        BY <2>0, <4>1, <2>2, RemoveIsOwn DEF CheckClosed, GiveUp, Return, CallersOK, WokenBy
      <4>3. UNCHANGED <<mySeq, reply, chClosed, resolving>>
        BY <2>2 DEF CheckClosed
      <4>4. \A e \in pending' : Active(e.ch)'
        BY <2>0, <4>1, <4>2, <4>3 DEF CallersOK, EntriesOwned, Entries, Active
      <4>5. pending' \subseteq pending
        BY <4>2
      <4>6. QED
        BY <2>0, <4>1, <4>3, <4>4, <4>5 DEF CallersOK, EntriesOwned, Entries
    <3>3. WaiterIsKnown'
      <4>1. pc[c] # "idle" /\ pc' = [pc EXCEPT ![c] = pc'[c]] /\ pc'[c] # "idle"
        BY <2>0, <2>2 DEF CallersOK, CheckClosed, GiveUp, Return
      <4>2. \/ pending' = {e \in pending : e.ch # c} /\ pc'[c] = "returned"
            \/ pending' = pending /\ (pc[c] = "check" /\ pc'[c] = "send")
        BY <2>0, <4>1, <2>2, RemoveIsOwn DEF CheckClosed, GiveUp, Return, CallersOK, WokenBy
      <4>3. UNCHANGED <<mySeq, reply, chClosed, resolving>>
        BY <2>2 DEF CheckClosed
      <4>4. ASSUME NEW d \in Callers, Active(d)'
            PROVE  \/ \E e \in Entries' : e.ch = d
                   \/ d \in chClosed'
                   \/ reply'[d] # 0
        <5>1. CASE d = c
          <6>1. pending' = pending /\ Active(c)
            BY <2>0, <4>1, <4>2, <4>4, <5>1, <2>2 DEF CallersOK, Active, CheckClosed, GiveUp, Return
          <6>2. QED
            BY <4>3, <5>1, <6>1 DEF WaiterIsKnown, Entries
        <5>2. CASE d # c
          <6>1. Active(d)
            BY <2>0, <4>1, <4>4, <5>2 DEF CallersOK, Active
          <6>2. QED
            BY <4>2, <4>3, <5>2, <6>1 DEF WaiterIsKnown, Entries
        <5>3. QED
          BY <5>1, <5>2
      <4>5. QED
        BY <4>4 DEF WaiterIsKnown
    <3>4. ClosedMeansCloseAllDue'
      BY <2>0, <2>2 DEF ClosedMeansCloseAllDue, CloseAllDue, CallersOK,
         QueuesOK, CheckClosed, GiveUp, Return, SendSeesClosed
    <3>5. FramesNumbered' /\ RepliesExecuted' /\ ClosedFirst'
      BY <2>2 DEF FramesNumbered, Numbered, RepliesExecuted, ClosedFirst,
         Done, CheckClosed
    <3>6. QED
      BY <3>1, <3>2, <3>3, <3>4, <3>5
  <2>3. ASSUME NEW c \in Callers, Enqueue(c) PROVE IInv'
    <3>1. NumbersUnique'
      BY <2>0, <2>3 DEF NumbersUnique, CallersOK, QueuesOK, Enqueue, Request
    <3>2. FramesNumbered'
      <4>1. mySeq[c] \in 1..(seq - 1)
        BY <2>0, <2>3 DEF NumbersUnique, CallersOK, Enqueue
      <4>2. writeCh' = Append(writeCh, Request(mySeq[c])) /\ Request(mySeq[c]) \in OutFrame
        BY <2>0, <4>1, <2>3, FrameTypes DEF CallersOK, Enqueue
      <4>3. Numbered(writeCh')
        BY <2>0, <4>1, <4>2, NumberedQueue DEF QueuesOK, FramesNumbered, Request
      <4>4. QED
        BY <4>3, <2>3 DEF FramesNumbered, Numbered, Enqueue
    <3>3. EntriesOwned'
      BY <2>0, <2>3 DEF EntriesOwned, Entries, Active, CallersOK, QueuesOK,
         Enqueue, Request
    <3>4. WaiterIsKnown'
      BY <2>0, <2>3 DEF WaiterIsKnown, EntriesOwned, Entries, Active,
         CallersOK, QueuesOK, Enqueue, Request
    <3>5. ClosedMeansCloseAllDue'
      BY <2>0, <2>3 DEF ClosedMeansCloseAllDue, CloseAllDue, CallersOK,
         QueuesOK, Enqueue, Request
    <3>6. RepliesExecuted' /\ ClosedFirst'
      BY <2>3 DEF RepliesExecuted, ClosedFirst, Done, Enqueue
    <3>7. QED
      BY <3>1, <3>2, <3>3, <3>4, <3>5, <3>6
  <2>4. ASSUME NEW c \in Callers, FastPathFull(c) PROVE IInv'
    <3>1. NumbersUnique'
      BY <2>0, <2>4 DEF NumbersUnique, CallersOK, QueuesOK, FastPathFull
    <3>2. EntriesOwned'
      BY <2>0, <2>4 DEF EntriesOwned, Entries, Active, CallersOK, QueuesOK,
         FastPathFull
    <3>3. WaiterIsKnown'
      BY <2>0, <2>4 DEF WaiterIsKnown, EntriesOwned, Entries, Active,
         CallersOK, QueuesOK, FastPathFull
    <3>4. ClosedMeansCloseAllDue'
      BY <2>0, <2>4 DEF ClosedMeansCloseAllDue, CloseAllDue, CallersOK,
         QueuesOK, FastPathFull
    <3>5. FramesNumbered' /\ RepliesExecuted' /\ ClosedFirst'
      BY <2>4 DEF FramesNumbered, Numbered, RepliesExecuted, ClosedFirst,
         Done, FastPathFull
    <3>6. QED
      BY <3>1, <3>2, <3>3, <3>4, <3>5
  <2>5. ASSUME NEW c \in Callers, StopBlocking(c) PROVE IInv'
    <3>1. NumbersUnique'
      BY <2>0, <2>5 DEF NumbersUnique, CallersOK, QueuesOK, StopBlocking,
         GiveUp, Return
    <3>2. EntriesOwned'
      <4>1. pc[c] # "idle" /\ pc' = [pc EXCEPT ![c] = pc'[c]] /\ pc'[c] # "idle"
        BY <2>0, <2>5 DEF CallersOK, StopBlocking, GiveUp, Return
      <4>2. \/ pending' = {e \in pending : e.ch # c} /\ pc'[c] = "returned"
            \/ pending' = pending /\ (FALSE)
        BY <2>0, <4>1, <2>5, RemoveIsOwn DEF StopBlocking, GiveUp, Return, CallersOK, WokenBy
      <4>3. UNCHANGED <<mySeq, reply, chClosed, resolving>>
        BY <2>5 DEF StopBlocking
      <4>4. \A e \in pending' : Active(e.ch)'
        BY <2>0, <4>1, <4>2, <4>3 DEF CallersOK, EntriesOwned, Entries, Active
      <4>5. pending' \subseteq pending
        BY <4>2
      <4>6. QED
        BY <2>0, <4>1, <4>3, <4>4, <4>5 DEF CallersOK, EntriesOwned, Entries
    <3>3. WaiterIsKnown'
      <4>1. pc[c] # "idle" /\ pc' = [pc EXCEPT ![c] = pc'[c]] /\ pc'[c] # "idle"
        BY <2>0, <2>5 DEF CallersOK, StopBlocking, GiveUp, Return
      <4>2. \/ pending' = {e \in pending : e.ch # c} /\ pc'[c] = "returned"
            \/ pending' = pending /\ (FALSE)
        BY <2>0, <4>1, <2>5, RemoveIsOwn DEF StopBlocking, GiveUp, Return, CallersOK, WokenBy
      <4>3. UNCHANGED <<mySeq, reply, chClosed, resolving>>
        BY <2>5 DEF StopBlocking
      <4>4. ASSUME NEW d \in Callers, Active(d)'
            PROVE  \/ \E e \in Entries' : e.ch = d
                   \/ d \in chClosed'
                   \/ reply'[d] # 0
        <5>1. CASE d = c
          <6>1. pending' = pending /\ Active(c)
            BY <2>0, <4>1, <4>2, <4>4, <5>1, <2>5 DEF CallersOK, Active, StopBlocking, GiveUp, Return
          <6>2. QED
            BY <4>3, <5>1, <6>1 DEF WaiterIsKnown, Entries
        <5>2. CASE d # c
          <6>1. Active(d)
            BY <2>0, <4>1, <4>4, <5>2 DEF CallersOK, Active
          <6>2. QED
            BY <4>2, <4>3, <5>2, <6>1 DEF WaiterIsKnown, Entries
        <5>3. QED
          BY <5>1, <5>2
      <4>5. QED
        BY <4>4 DEF WaiterIsKnown
    <3>4. ClosedMeansCloseAllDue'
      BY <2>0, <2>5 DEF ClosedMeansCloseAllDue, CloseAllDue, CallersOK,
         QueuesOK, StopBlocking, GiveUp, Return
    <3>5. FramesNumbered' /\ RepliesExecuted' /\ ClosedFirst'
      BY <2>5 DEF FramesNumbered, Numbered, RepliesExecuted, ClosedFirst,
         Done, StopBlocking
    <3>6. QED
      BY <3>1, <3>2, <3>3, <3>4, <3>5
  <2>6. ASSUME NEW c \in Callers, EndWait(c) PROVE IInv'
    <3>1. NumbersUnique'
      BY <2>0, <2>6 DEF NumbersUnique, CallersOK, QueuesOK, EndWait, GiveUp,
         Return, WokenBy
    <3>2. EntriesOwned'
      <4>1. pc[c] # "idle" /\ pc' = [pc EXCEPT ![c] = pc'[c]] /\ pc'[c] # "idle"
        BY <2>0, <2>6 DEF CallersOK, EndWait, GiveUp, Return
      <4>2. \/ pending' = {e \in pending : e.ch # c} /\ pc'[c] = "returned"
            \/ pending' = pending /\ (reply[c] # 0 \/ c \in chClosed)
        BY <2>0, <4>1, <2>6, RemoveIsOwn DEF EndWait, GiveUp, Return, CallersOK, WokenBy
      <4>3. UNCHANGED <<mySeq, reply, chClosed, resolving>>
        BY <2>6 DEF EndWait
      <4>4. \A e \in pending' : Active(e.ch)'
        BY <2>0, <4>1, <4>2, <4>3 DEF CallersOK, EntriesOwned, Entries, Active
      <4>5. pending' \subseteq pending
        BY <4>2
      <4>6. QED
        BY <2>0, <4>1, <4>3, <4>4, <4>5 DEF CallersOK, EntriesOwned, Entries
    <3>3. WaiterIsKnown'
      <4>1. pc[c] # "idle" /\ pc' = [pc EXCEPT ![c] = pc'[c]] /\ pc'[c] # "idle"
        BY <2>0, <2>6 DEF CallersOK, EndWait, GiveUp, Return
      <4>2. \/ pending' = {e \in pending : e.ch # c} /\ pc'[c] = "returned"
            \/ pending' = pending /\ (reply[c] # 0 \/ c \in chClosed)
        BY <2>0, <4>1, <2>6, RemoveIsOwn DEF EndWait, GiveUp, Return, CallersOK, WokenBy
      <4>3. UNCHANGED <<mySeq, reply, chClosed, resolving>>
        BY <2>6 DEF EndWait
      <4>4. ASSUME NEW d \in Callers, Active(d)'
            PROVE  \/ \E e \in Entries' : e.ch = d
                   \/ d \in chClosed'
                   \/ reply'[d] # 0
        <5>1. CASE d = c
          <6>1. pending' = pending /\ Active(c)
            BY <2>0, <4>1, <4>2, <4>4, <5>1, <2>6 DEF CallersOK, Active, EndWait, GiveUp, Return
          <6>2. QED
            BY <4>3, <5>1, <6>1 DEF WaiterIsKnown, Entries
        <5>2. CASE d # c
          <6>1. Active(d)
            BY <2>0, <4>1, <4>4, <5>2 DEF CallersOK, Active
          <6>2. QED
            BY <4>2, <4>3, <5>2, <6>1 DEF WaiterIsKnown, Entries
        <5>3. QED
          BY <5>1, <5>2
      <4>5. QED
        BY <4>4 DEF WaiterIsKnown
    <3>4. ClosedMeansCloseAllDue'
      BY <2>0, <2>6 DEF ClosedMeansCloseAllDue, CloseAllDue, CallersOK,
         QueuesOK, EndWait, GiveUp, Return, WokenBy
    <3>5. FramesNumbered' /\ RepliesExecuted' /\ ClosedFirst'
      BY <2>6 DEF FramesNumbered, Numbered, RepliesExecuted, ClosedFirst,
         Done, EndWait
    <3>6. QED
      BY <3>1, <3>2, <3>3, <3>4, <3>5
  <2>7. CASE WriterTake
    <3>1. FramesNumbered'
      <4>1. wbuf' = Append(wbuf, Head(writeCh)) /\ writeCh' = Tail(writeCh) /\ writeCh # <<>>
        BY <2>7 DEF WriterTake
      <4>2. Numbered(wbuf') /\ Numbered(writeCh')
        BY <2>0, <4>1, NumberedQueue, QueueTypes DEF QueuesOK, FramesNumbered
      <4>3. QED
        BY <4>2, <2>7 DEF FramesNumbered, Numbered, WriterTake
    <3>2. NumbersUnique' /\ RepliesExecuted' /\ EntriesOwned' /\
          WaiterIsKnown' /\ ClosedMeansCloseAllDue' /\ ClosedFirst'
      BY <2>7 DEF NumbersUnique, RepliesExecuted, EntriesOwned, Entries,
         Active, WaiterIsKnown, ClosedMeansCloseAllDue, CloseAllDue,
         ClosedFirst, Done, WriterTake
    <3>3. QED
      BY <3>1, <3>2
  <2>8. CASE WriterStartFlush
    BY <2>8 DEF NumbersUnique, FramesNumbered, Numbered, RepliesExecuted,
       EntriesOwned, Entries, Active, WaiterIsKnown, ClosedMeansCloseAllDue,
       CloseAllDue, ClosedFirst, Done, WriterStartFlush
  <2>9. CASE WriterWrite
    <3>1. FramesNumbered'
      <4>1. \/ wire' = wire /\ (wbuf' = wbuf \/ wbuf' = <<>>)
            \/ wire' = Append(wire, Head(wbuf)) /\ wbuf' = Tail(wbuf) /\ wbuf # <<>>
        BY <2>9 DEF WriterWrite
      <4>2. Numbered(<<>>)
        BY DEF Numbered
      <4>3. Numbered(wbuf') /\ Numbered(wire')
        BY <2>0, <4>1, <4>2, NumberedQueue, QueueTypes DEF QueuesOK, FramesNumbered
      <4>4. QED
        BY <4>3, <2>9 DEF FramesNumbered, Numbered, WriterWrite
    <3>2. NumbersUnique' /\ RepliesExecuted' /\ EntriesOwned' /\
          WaiterIsKnown' /\ ClosedMeansCloseAllDue' /\ ClosedFirst'
      BY <2>9 DEF NumbersUnique, RepliesExecuted, EntriesOwned, Entries,
         Active, WaiterIsKnown, ClosedMeansCloseAllDue, CloseAllDue,
         ClosedFirst, Done, WriterWrite
    <3>3. QED
      BY <3>1, <3>2
  <2>10. CASE WriterDone
    BY <2>10 DEF NumbersUnique, FramesNumbered, Numbered, RepliesExecuted,
       EntriesOwned, Entries, Active, WaiterIsKnown, ClosedMeansCloseAllDue,
       CloseAllDue, ClosedFirst, Done, WriterDone
  <2>11. CASE ReaderDispatch
    <3>1. RepliesExecuted'
      <4>1. inbound' = Tail(inbound) /\ inbound # <<>>
        BY <2>11 DEF ReaderDispatch
      <4>2. /\ \A i \in 1..Len(inbound') : inbound'[i].kind = "reply" => inbound'[i].seq \in executed
            /\ Head(inbound).kind = "reply" => Head(inbound).seq \in executed
        BY <2>0, <4>1 DEF QueuesOK, RepliesExecuted
      <4>3. \A e \in resolving' : e.seq \in executed
        BY <4>2, <2>11 DEF RepliesExecuted, ReaderDispatch, Registered
      <4>4. QED
        BY <4>2, <4>3, <2>11 DEF RepliesExecuted, ReaderDispatch
    <3>2. EntriesOwned'
      <4>1. UNCHANGED <<pc, mySeq, reply, chClosed>>
        BY <2>11 DEF ReaderDispatch
      <4>2. CASE Head(inbound).kind = "reply"
        <5>1. /\ resolving' = {e \in pending : e.seq = Head(inbound).seq}
              /\ pending' = pending \ resolving'
          BY <2>0, <4>2, <2>11, ResolveTakes
        <5>2. \A e, f \in resolving' : e = f
          BY <2>0, <5>1 DEF CallersOK, EntriesOwned, Entries, NumbersUnique
        <5>3. Entries' \subseteq Entries
          BY <5>1 DEF Entries
        <5>4. QED
          BY <4>1, <5>1, <5>2, <5>3 DEF EntriesOwned, Active
      <4>3. CASE Head(inbound).kind # "reply"
        <5>1. UNCHANGED <<pending, resolving>>
          BY <4>3, <2>11 DEF ReaderDispatch
        <5>2. QED
          BY <4>1, <5>1 DEF EntriesOwned, Entries, Active
      <4>4. QED
        BY <4>2, <4>3
    <3>3. WaiterIsKnown'
      <4>1. UNCHANGED <<pc, reply, chClosed>>
        BY <2>11 DEF ReaderDispatch
      <4>2. Entries \subseteq Entries'
        <5>1. CASE Head(inbound).kind = "reply"
          <6>1. resolving = {} /\ pending \subseteq pending' \cup resolving'
            BY <2>0, <5>1, <2>11, ResolveTakes DEF ReaderDispatch
          <6>2. QED
            BY <6>1 DEF Entries
        <5>2. CASE Head(inbound).kind # "reply"
          BY <5>2, <2>11 DEF ReaderDispatch, Entries
        <5>3. QED
          BY <5>1, <5>2
      <4>3. QED
        BY <4>1, <4>2 DEF WaiterIsKnown, Active
    <3>4. ClosedMeansCloseAllDue'
      BY <2>0, <2>11 DEF ClosedMeansCloseAllDue, CloseAllDue, CallersOK,
         QueuesOK, ReaderDispatch, Registered, TakeOut
    <3>5. ClosedFirst'
      BY <2>0, <2>11 DEF ClosedFirst, Done, CallersOK, QueuesOK,
         ReaderDispatch, Registered, TakeOut
    <3>6. NumbersUnique' /\ FramesNumbered'
      BY <2>11 DEF NumbersUnique, FramesNumbered, Numbered, ReaderDispatch
    <3>7. QED
      BY <3>1, <3>2, <3>3, <3>4, <3>5, <3>6
  <2>12. CASE ReaderReply
    <3>1. RepliesExecuted'
      BY <2>0, <2>12 DEF RepliesExecuted, CallersOK, QueuesOK, ReaderReply
    <3>2. EntriesOwned'
      <4>1. PICK e \in resolving : reply' = [reply EXCEPT ![e.ch] = e.seq]
        BY <2>12 DEF ReaderReply
      <4>2. \A f \in pending : f.ch # e.ch
        BY <2>0, EntriesDistinct DEF Entries, EntriesOwned
      <4>3. QED
        BY <2>0, <4>1, <4>2, <2>12 DEF EntriesOwned, Entries, Active, CallersOK, ReaderReply
    <3>3. WaiterIsKnown'
      <4>1. PICK e \in resolving : reply' = [reply EXCEPT ![e.ch] = e.seq]
        BY <2>12 DEF ReaderReply
      <4>2. \A f \in resolving : f = e
        BY <4>1 DEF EntriesOwned
      <4>3. e \in [seq : Nat, ch : Callers] /\ e.seq # 0
        BY <2>0, <4>1 DEF CallersOK, EntriesOwned, Entries, NumbersUnique
      <4>4. reply'[e.ch] # 0 /\ \A d \in Callers : d # e.ch => reply'[d] = reply[d]
        BY <2>0, <4>1, <4>3 DEF CallersOK
      <4>5. QED
        BY <2>0, <4>2, <4>4, <2>12 DEF WaiterIsKnown, Entries, Active, ReaderReply
    <3>4. NumbersUnique' /\ FramesNumbered' /\ ClosedMeansCloseAllDue' /\
          ClosedFirst'
      BY <2>12 DEF NumbersUnique, FramesNumbered, Numbered,
         ClosedMeansCloseAllDue, CloseAllDue, ClosedFirst, Done, ReaderReply
    <3>5. QED
      BY <3>1, <3>2, <3>3, <3>4
  <2>13. CASE ReaderDeliver
    <3>1. ClosedMeansCloseAllDue'
      BY <2>0, <2>13 DEF ClosedMeansCloseAllDue, CloseAllDue, CallersOK,
         QueuesOK, ReaderDeliver, SubHasRoom
    <3>2. ClosedFirst'
      BY <2>0, <2>13 DEF ClosedFirst, Done, CallersOK, QueuesOK,
         ReaderDeliver, SubHasRoom
    <3>3. NumbersUnique' /\ FramesNumbered' /\ RepliesExecuted' /\
          EntriesOwned' /\ WaiterIsKnown'
      BY <2>13 DEF NumbersUnique, FramesNumbered, Numbered, RepliesExecuted,
         EntriesOwned, Entries, Active, WaiterIsKnown, ReaderDeliver
    <3>4. QED
      BY <3>1, <3>2, <3>3
  <2>14. CASE ReaderFail
    <3>1. ClosedMeansCloseAllDue'
      BY <2>0, <2>14 DEF ClosedMeansCloseAllDue, CloseAllDue, CallersOK,
         QueuesOK, ReaderFail, MarkClosed
    <3>2. ClosedFirst'
      BY <2>0, <2>14 DEF ClosedFirst, Done, CallersOK, QueuesOK, ReaderFail,
         MarkClosed
    <3>3. NumbersUnique' /\ FramesNumbered' /\ RepliesExecuted' /\
          EntriesOwned' /\ WaiterIsKnown'
      BY <2>14 DEF NumbersUnique, FramesNumbered, Numbered, RepliesExecuted,
         EntriesOwned, Entries, Active, WaiterIsKnown, ReaderFail
    <3>4. QED
      BY <3>1, <3>2, <3>3
  <2>15. CASE ReaderCloseAll
    <3>1. EntriesOwned'
      <4>1. \A e \in pending, f \in resolving : e.ch # f.ch
        BY <2>0, EntriesDistinct DEF Entries, EntriesOwned
      <4>2. pending' = {} /\ chClosed' = chClosed \cup {e.ch : e \in pending}
        BY <2>15 DEF ReaderCloseAll, CloseAll
      <4>3. QED
        BY <2>0, <4>1, <4>2, <2>15 DEF EntriesOwned, Entries, Active, CallersOK, ReaderCloseAll
    <3>2. WaiterIsKnown'
      BY <2>0, <2>15 DEF WaiterIsKnown, EntriesOwned, Entries, Active,
         CallersOK, QueuesOK, ReaderCloseAll, CloseAll
    <3>3. ClosedMeansCloseAllDue'
      BY <2>0, <2>15 DEF ClosedMeansCloseAllDue, CloseAllDue, CallersOK,
         QueuesOK, ReaderCloseAll, CloseAll
    <3>4. ClosedFirst'
      BY <2>0, <2>15 DEF ClosedFirst, Done, CallersOK, QueuesOK,
         ReaderCloseAll, CloseAll
    <3>5. NumbersUnique' /\ FramesNumbered' /\ RepliesExecuted'
      BY <2>15 DEF NumbersUnique, FramesNumbered, Numbered, RepliesExecuted,
         ReaderCloseAll
    <3>6. QED
      BY <3>1, <3>2, <3>3, <3>4, <3>5
  <2>16. CASE ReaderTestDone
    <3>1. ClosedMeansCloseAllDue'
      BY <2>0, <2>16 DEF ClosedMeansCloseAllDue, CloseAllDue, CallersOK,
         QueuesOK, ReaderTestDone
    <3>2. ClosedFirst'
      BY <2>0, <2>16 DEF ClosedFirst, Done, CallersOK, QueuesOK,
         ReaderTestDone
    <3>3. NumbersUnique' /\ FramesNumbered' /\ RepliesExecuted' /\
          EntriesOwned' /\ WaiterIsKnown'
      BY <2>16 DEF NumbersUnique, FramesNumbered, Numbered, RepliesExecuted,
         EntriesOwned, Entries, Active, WaiterIsKnown, ReaderTestDone
    <3>4. QED
      BY <3>1, <3>2, <3>3
  <2>17. CASE ReaderCloseDone
    <3>1. ClosedMeansCloseAllDue'
      BY <2>0, <2>17 DEF ClosedMeansCloseAllDue, CloseAllDue, CallersOK,
         QueuesOK, ReaderCloseDone
    <3>2. ClosedFirst'
      BY <2>0, <2>17 DEF ClosedFirst, Done, CallersOK, QueuesOK,
         ReaderCloseDone
    <3>3. NumbersUnique' /\ FramesNumbered' /\ RepliesExecuted' /\
          EntriesOwned' /\ WaiterIsKnown'
      BY <2>17 DEF NumbersUnique, FramesNumbered, Numbered, RepliesExecuted,
         EntriesOwned, Entries, Active, WaiterIsKnown, ReaderCloseDone
    <3>4. QED
      BY <3>1, <3>2, <3>3
  <2>18. CASE SubscriptionReceive
    BY <2>18 DEF NumbersUnique, FramesNumbered, Numbered, RepliesExecuted,
       EntriesOwned, Entries, Active, WaiterIsKnown, ClosedMeansCloseAllDue,
       CloseAllDue, ClosedFirst, Done, SubscriptionReceive
  <2>19. CASE CloseCall
    <3>1. ClosedMeansCloseAllDue'
      BY <2>0, <2>19 DEF ClosedMeansCloseAllDue, CloseAllDue, CallersOK,
         QueuesOK, CloseCall, CloseSwap
    <3>2. ClosedFirst'
      BY <2>0, <2>19 DEF ClosedFirst, Done, CallersOK, QueuesOK, CloseCall,
         CloseSwap
    <3>3. NumbersUnique' /\ FramesNumbered' /\ RepliesExecuted' /\
          EntriesOwned' /\ WaiterIsKnown'
      BY <2>19 DEF NumbersUnique, FramesNumbered, Numbered, RepliesExecuted,
         EntriesOwned, Entries, Active, WaiterIsKnown, CloseCall
    <3>4. QED
      BY <3>1, <3>2, <3>3
  <2>20. CASE CloseDone
    <3>1. ClosedMeansCloseAllDue'
      BY <2>0, <2>20 DEF ClosedMeansCloseAllDue, CloseAllDue, CallersOK,
         QueuesOK, CloseDone
    <3>2. ClosedFirst'
      BY <2>0, <2>20 DEF ClosedFirst, Done, CallersOK, QueuesOK, CloseDone
    <3>3. NumbersUnique' /\ FramesNumbered' /\ RepliesExecuted' /\
          EntriesOwned' /\ WaiterIsKnown'
      BY <2>20 DEF NumbersUnique, FramesNumbered, Numbered, RepliesExecuted,
         EntriesOwned, Entries, Active, WaiterIsKnown, CloseDone
    <3>4. QED
      BY <3>1, <3>2, <3>3
  <2>21. CASE CloseAllPending
    <3>1. EntriesOwned'
      <4>1. \A e \in pending, f \in resolving : e.ch # f.ch
        BY <2>0, EntriesDistinct DEF Entries, EntriesOwned
      <4>2. pending' = {} /\ chClosed' = chClosed \cup {e.ch : e \in pending}
        BY <2>21 DEF CloseAllPending, CloseAll
      <4>3. QED
        BY <2>0, <4>1, <4>2, <2>21 DEF EntriesOwned, Entries, Active, CallersOK, CloseAllPending
    <3>2. WaiterIsKnown'
      BY <2>0, <2>21 DEF WaiterIsKnown, EntriesOwned, Entries, Active,
         CallersOK, QueuesOK, CloseAllPending, CloseAll
    <3>3. ClosedMeansCloseAllDue'
      BY <2>0, <2>21 DEF ClosedMeansCloseAllDue, CloseAllDue, CallersOK,
         QueuesOK, CloseAllPending, CloseAll
    <3>4. ClosedFirst'
      BY <2>0, <2>21 DEF ClosedFirst, Done, CallersOK, QueuesOK,
         CloseAllPending, CloseAll
    <3>5. NumbersUnique' /\ FramesNumbered' /\ RepliesExecuted'
      BY <2>21 DEF NumbersUnique, FramesNumbered, Numbered, RepliesExecuted,
         CloseAllPending
    <3>6. QED
      BY <3>1, <3>2, <3>3, <3>4, <3>5
  <2>22. CASE CloseSocket
    <3>1. ClosedMeansCloseAllDue'
      BY <2>0, <2>22 DEF ClosedMeansCloseAllDue, CloseAllDue, CallersOK,
         QueuesOK, CloseSocket
    <3>2. ClosedFirst'
      BY <2>0, <2>22 DEF ClosedFirst, Done, CallersOK, QueuesOK, CloseSocket
    <3>3. NumbersUnique' /\ FramesNumbered' /\ RepliesExecuted' /\
          EntriesOwned' /\ WaiterIsKnown'
      BY <2>22 DEF NumbersUnique, FramesNumbered, Numbered, RepliesExecuted,
         EntriesOwned, Entries, Active, WaiterIsKnown, CloseSocket
    <3>4. QED
      BY <3>1, <3>2, <3>3
  <2>23. CASE HeartbeatTick
    <3>1. FramesNumbered'
      <4>1. writeCh' = writeCh \/ writeCh' = Append(writeCh, Ping)
        BY <2>23 DEF HeartbeatTick
      <4>2. Numbered(writeCh')
        BY <2>0, <4>1, NumberedQueue, FrameTypes DEF QueuesOK, FramesNumbered, Ping
      <4>3. QED
        BY <4>2, <2>23 DEF FramesNumbered, Numbered, HeartbeatTick
    <3>2. ClosedMeansCloseAllDue'
      BY <2>0, <2>23 DEF ClosedMeansCloseAllDue, CloseAllDue, CallersOK,
         QueuesOK, HeartbeatTick, CloseSwap, Stale, Ping
    <3>3. ClosedFirst'
      BY <2>0, <2>23 DEF ClosedFirst, Done, CallersOK, QueuesOK,
         HeartbeatTick, CloseSwap, Stale, Ping
    <3>4. NumbersUnique' /\ RepliesExecuted' /\ EntriesOwned' /\
          WaiterIsKnown'
      BY <2>23 DEF NumbersUnique, RepliesExecuted, EntriesOwned, Entries,
         Active, WaiterIsKnown, HeartbeatTick
    <3>5. QED
      BY <3>1, <3>2, <3>3, <3>4
  <2>24. CASE HeartbeatDone
    BY <2>24 DEF NumbersUnique, FramesNumbered, Numbered, RepliesExecuted,
       EntriesOwned, Entries, Active, WaiterIsKnown, ClosedMeansCloseAllDue,
       CloseAllDue, ClosedFirst, Done, HeartbeatDone
  <2>25. CASE BrokerHandshake
    <3>1. RepliesExecuted'
      <4>1. inbound' = inbound \/ inbound' = Append(inbound, AuthError)
        BY <2>25 DEF BrokerHandshake
      <4>2. \A i \in 1..Len(inbound') : inbound'[i].kind = "reply" => inbound'[i].seq \in executed
        BY <2>0, <4>1, FrameTypes, AnsweredQueue DEF QueuesOK, RepliesExecuted, AuthError
      <4>3. QED
        BY <4>2, <2>25 DEF RepliesExecuted, BrokerHandshake
    <3>2. NumbersUnique' /\ FramesNumbered' /\ EntriesOwned' /\ WaiterIsKnown'
          /\ ClosedMeansCloseAllDue' /\ ClosedFirst'
      BY <2>25 DEF NumbersUnique, FramesNumbered, Numbered, EntriesOwned,
         Entries, Active, WaiterIsKnown, ClosedMeansCloseAllDue, CloseAllDue,
         ClosedFirst, Done, BrokerHandshake
    <3>3. QED
      BY <3>1, <3>2
  <2>26. CASE BrokerAnswer
    <3>1. FramesNumbered'
      <4>1. wire' = Tail(wire) /\ wire # <<>>
        BY <2>26 DEF BrokerAnswer
      <4>2. /\ Numbered(wire')
            /\ Head(wire).kind = "request" => Head(wire).seq \in 1..(seq - 1)
        BY <2>0, <4>1, NumberedQueue DEF QueuesOK, FramesNumbered
      <4>3. executed' \subseteq 1..(seq - 1)
        <5>1. \/ executed' = executed
              \/ Head(wire).kind = "request" /\ executed' = executed \cup {Head(wire).seq}
          BY <2>26 DEF BrokerAnswer
        <5>2. QED
          BY <4>2, <5>1 DEF FramesNumbered
      <4>4. QED
        BY <4>2, <4>3, <2>26 DEF FramesNumbered, Numbered, BrokerAnswer
    <3>2. RepliesExecuted'
      <4>1. PICK f \in InFrame : inbound' = Append(inbound, f) /\ (f.kind = "reply" => f.seq \in executed')
        <5>1. Head(wire) \in OutFrame
          BY <2>0, <2>26, QueueTypes DEF QueuesOK, BrokerAnswer
        <5>2. \/ inbound' = Append(inbound, Reply(Head(wire).seq)) /\ Head(wire).seq \in executed'
              \/ inbound' = Append(inbound, Pong)
          BY <2>26 DEF BrokerAnswer
        <5>3. QED
          BY <5>1, <5>2, FrameTypes DEF Reply, Pong
      <4>2. executed \subseteq executed'
        BY <2>26 DEF BrokerAnswer
      <4>3. \A i \in 1..Len(inbound') : inbound'[i].kind = "reply" => inbound'[i].seq \in executed'
        BY <2>0, <4>1, <4>2, AnsweredQueue DEF QueuesOK, RepliesExecuted
      <4>4. QED
        BY <4>2, <4>3, <2>26 DEF RepliesExecuted, BrokerAnswer
    <3>3. NumbersUnique' /\ EntriesOwned' /\ WaiterIsKnown' /\
          ClosedMeansCloseAllDue' /\ ClosedFirst'
      BY <2>26 DEF NumbersUnique, EntriesOwned, Entries, Active,
         WaiterIsKnown, ClosedMeansCloseAllDue, CloseAllDue, ClosedFirst,
         Done, BrokerAnswer
    <3>4. QED
      BY <3>1, <3>2, <3>3
  <2>27. CASE BrokerPush
    <3>0. /\ inbound' = Append(inbound, Deliver)
          /\ UNCHANGED <<executed, resolving, reply>>
      BY <2>27 DEF BrokerPush, callerVars, readerVars
    <3>1. RepliesExecuted'
      BY <2>0, <3>0 DEF RepliesExecuted, CallersOK, QueuesOK, Deliver
    <3>2. NumbersUnique' /\ FramesNumbered' /\ EntriesOwned' /\ WaiterIsKnown'
          /\ ClosedMeansCloseAllDue' /\ ClosedFirst'
      BY <2>27 DEF NumbersUnique, FramesNumbered, Numbered, EntriesOwned,
         Entries, Active, WaiterIsKnown, ClosedMeansCloseAllDue, CloseAllDue,
         ClosedFirst, Done, BrokerPush
    <3>3. QED
      BY <3>1, <3>2
  <2>28. CASE SocketBreaks
    BY <2>28 DEF NumbersUnique, FramesNumbered, Numbered, RepliesExecuted,
       EntriesOwned, Entries, Active, WaiterIsKnown, ClosedMeansCloseAllDue,
       CloseAllDue, ClosedFirst, Done, SocketBreaks
  <2>29. CASE UNCHANGED vars
    BY <2>29 DEF vars, NumbersUnique, FramesNumbered, Numbered,
       RepliesExecuted, EntriesOwned, WaiterIsKnown, ClosedMeansCloseAllDue,
       ClosedFirst, Entries, Active, CloseAllDue, Done
  <2>30. QED
    BY <2>1, <2>2, <2>3, <2>4, <2>5, <2>6, <2>7, <2>8, <2>9, <2>10, <2>11,
       <2>12, <2>13, <2>14, <2>15, <2>16, <2>17, <2>18, <2>19, <2>20, <2>21,
       <2>22, <2>23, <2>24, <2>25, <2>26, <2>27, <2>28, <2>29
       DEF Next, RequestStep, WriterStep, ReaderStep, CloserStep, HeartbeatStep, BrokerStep
<1>3. QED
  BY <1>1, <1>2, TypeCorrect, PTL DEF Spec

-----------------------------------------------------------------------------
\* PendingMap correlates: a reply handed to a caller answers the caller's own
\* request, and the broker has executed it.
THEOREM ReplyCorrelation == Spec => []ReplyAnswersOwnRequest
<1>1. IInv => ReplyAnswersOwnRequest
  BY DEF IInv, EntriesOwned, RepliesExecuted, ReplyAnswersOwnRequest
<1>2. QED
  BY <1>1, Inductive, PTL

\* Resolve, which sends after it released the lock, never sends on a channel
\* that CloseAll closed nor on one that is full.
THEOREM ResolveIsSafe == Spec => []ResolveFindsChannelOpen
<1>1. IInv => ResolveFindsChannelOpen
  BY DEF IInv, EntriesOwned, Entries, ResolveFindsChannelOpen
<1>2. QED
  BY <1>1, Inductive, PTL

\* No request is forgotten: a caller in SendExpectReply is in the map, being
\* answered, or already woken.
THEOREM NoForgottenWaiter == Spec => []WaiterIsKnown
<1>1. IInv => WaiterIsKnown
  BY DEF IInv
<1>2. QED
  BY <1>1, Inductive, PTL

\* Send's look at the closed flag before it enqueues is enough: whoever got
\* past it is still in the map when CloseAll runs.
THEOREM CloseAllCoversWaiters == Spec => []ClosedMeansCloseAllDue
<1>1. IInv => ClosedMeansCloseAllDue
  BY DEF IInv
<1>2. QED
  BY <1>1, Inductive, PTL

\* Done() never fires before the closed flag is set.
THEOREM DoneAfterClosed == Spec => []DoneImpliesClosed
<1>1. IInv => DoneImpliesClosed
  BY DEF IInv, TypeOK, FlagsOK, ClosedFirst, DoneImpliesClosed
<1>2. QED
  BY <1>1, Inductive, PTL

-----------------------------------------------------------------------------
\* A step that leaves these variables alone is invisible to the contract.
LEMMA Invisible ==
  ASSUME UNCHANGED <<pc, mySeq, result, executed>>
  PROVE  UNCHANGED RR!rrVars
  BY DEF RR!rrVars, AbsStatus, AbsExecuted

\* Every step of the connection is a step of the contract or invisible to it.
LEMMA StepImplements == IInv /\ IInv' /\ [Next]_vars => [RR!RRNext]_(RR!rrVars)
<1> SUFFICES ASSUME IInv, [Next]_vars PROVE RR!RRNext \/ UNCHANGED RR!rrVars
  OBVIOUS
<1> USE DEF closeVars, callerVars, readerVars, writerVars, brokerVars
<1>0. CallersOK /\ QueuesOK /\ NumbersUnique /\ FramesNumbered
  BY DEF IInv, TypeOK
<1>1. ASSUME NEW c \in Callers, Register(c) PROVE RR!Open(c)
  <2>1. /\ pc' = [pc EXCEPT ![c] = "check"] /\ pc[c] = "idle"
        /\ mySeq' = [mySeq EXCEPT ![c] = seq] /\ UNCHANGED <<result, executed>>
    BY <1>1 DEF Register, NextSeq
  <2>2. AbsStatus[c] = "new" /\ AbsStatus' = [AbsStatus EXCEPT ![c] = "open"]
    BY <1>0, <2>1 DEF AbsStatus, CallersOK
  <2>3. mySeq[c] \notin executed /\ seq \notin executed
    BY <1>0, <2>1 DEF CallersOK, NumbersUnique, FramesNumbered
  <2>4. AbsExecuted' = AbsExecuted
    BY <1>0, <2>1, <2>3 DEF AbsExecuted, CallersOK
  <2>5. QED
    BY <2>2, <2>4 DEF RR!Open
<1>2. ASSUME NEW c \in Callers,
             pc' = [pc EXCEPT ![c] = "returned"], pc[c] \in {"check", "send", "blocked", "wait"},
             NEW r \in {"closed", "queuefull", "cancelled"},
             result' = [result EXCEPT ![c] = r], UNCHANGED <<mySeq, executed>>
      PROVE  RR!Fail(c)
  <2>1. AbsStatus[c] = "open" /\ AbsStatus' = [AbsStatus EXCEPT ![c] = "failed"]
    BY <1>0, <1>2 DEF AbsStatus, CallersOK
  <2>2. AbsExecuted' = AbsExecuted
    BY <1>2 DEF AbsExecuted
  <2>3. QED
    BY <2>1, <2>2 DEF RR!Fail
<1>3. ASSUME NEW c \in Callers,
             pc' = [pc EXCEPT ![c] = pc'[c]], pc[c] \in {"check", "send", "blocked"},
             pc'[c] \in {"send", "blocked", "wait"},
             UNCHANGED <<result, mySeq, executed>>
      PROVE  UNCHANGED RR!rrVars
  <2>1. AbsStatus' = AbsStatus
    BY <1>0, <1>3 DEF AbsStatus, CallersOK
  <2>2. QED
    BY <1>3, <2>1 DEF RR!rrVars, AbsExecuted
<1>4. ASSUME NEW c \in Callers, CheckClosed(c) PROVE RR!Fail(c) \/ UNCHANGED RR!rrVars
  <2>1. CASE closed
    BY <1>2, <1>4, <2>1 DEF CheckClosed, GiveUp, Return, SendSeesClosed
  <2>2. CASE ~closed
    BY <1>0, <1>3, <1>4, <2>2 DEF CheckClosed, CallersOK, SendSeesClosed
  <2>3. QED
    BY <2>1, <2>2
<1>5. ASSUME NEW c \in Callers, Enqueue(c) \/ FastPathFull(c) PROVE UNCHANGED RR!rrVars
  BY <1>0, <1>3, <1>5 DEF Enqueue, FastPathFull, CallersOK
<1>6. ASSUME NEW c \in Callers, StopBlocking(c) PROVE RR!Fail(c)
  BY <1>2, <1>6 DEF StopBlocking, GiveUp, Return
<1>7. ASSUME NEW c \in Callers, EndWait(c) PROVE RR!Fail(c) \/ RR!Succeed(c)
  <2>1. CASE Return(c, "closed") \/ Return(c, "cancelled")
    BY <1>2, <1>7, <2>1 DEF EndWait, Return
  <2>2. CASE reply[c] # 0 /\ Return(c, "ok")
    <3>1. AbsStatus[c] = "open" /\ AbsStatus' = [AbsStatus EXCEPT ![c] = "ok"]
      BY <1>0, <1>7, <2>2 DEF EndWait, Return, AbsStatus, CallersOK
    <3>2. c \in AbsExecuted
      BY <2>2 DEF IInv, EntriesOwned, RepliesExecuted, AbsExecuted
    <3>3. AbsExecuted' = AbsExecuted
      BY <1>7 DEF EndWait, AbsExecuted
    <3>4. QED
      BY <3>1, <3>2, <3>3 DEF RR!Succeed
  <2>3. QED
    BY <1>7, <2>1, <2>2 DEF EndWait, GiveUp, WokenBy
<1>8. ASSUME BrokerAnswer PROVE RR!RRNext \/ UNCHANGED RR!rrVars
  <2>1. UNCHANGED <<pc, mySeq, result>>
    BY <1>8 DEF BrokerAnswer
  <2>2. AbsStatus' = AbsStatus
    BY <2>1 DEF AbsStatus
  <2>3. CASE executed' = executed
    BY <2>1, <2>3, Invisible
  <2>4. CASE executed' # executed
    <3>1. Head(wire).kind = "request" /\ executed' = executed \cup {Head(wire).seq} /\ wire # <<>>
      BY <1>8, <2>4 DEF BrokerAnswer
    <3>2. Head(wire).seq \in 1..(seq - 1)
      BY <1>0, <3>1, NumberedQueue DEF FramesNumbered, QueuesOK
    <3>3. PICK c \in Callers : mySeq[c] = Head(wire).seq
      BY <1>0, <3>2 DEF NumbersUnique
    <3>4. c \notin AbsExecuted /\ AbsStatus[c] # "new"
      BY <1>0, <2>4, <3>1, <3>2, <3>3 DEF AbsExecuted, AbsStatus, NumbersUnique
    <3>5. AbsExecuted' = AbsExecuted \cup {c}
      BY <1>0, <2>1, <3>1, <3>2, <3>3 DEF AbsExecuted, NumbersUnique
    <3>6. QED
      BY <2>2, <3>4, <3>5 DEF RR!Execute, RR!RRNext
  <2>5. QED
    BY <2>3, <2>4
<1>9. CASE WriterStep \/ ReaderStep \/ CloserStep
  BY <1>9, Invisible DEF WriterStep, WriterTake, WriterStartFlush, WriterWrite,
     WriterDone, ReaderStep, ReaderDispatch, ReaderReply, ReaderDeliver, ReaderFail,
     ReaderCloseAll, ReaderTestDone, ReaderCloseDone, CloserStep, CloseDone,
     CloseAllPending, CloseSocket
<1>10. CASE \/ SubscriptionReceive \/ CloseCall \/ HeartbeatStep
            \/ BrokerHandshake \/ BrokerPush \/ SocketBreaks \/ UNCHANGED vars
  BY <1>10, Invisible DEF SubscriptionReceive, CloseCall, HeartbeatStep, HeartbeatTick,
     HeartbeatDone, BrokerHandshake, BrokerPush, SocketBreaks, vars
<1>11. QED
  BY <1>1, <1>4, <1>5, <1>6, <1>7, <1>8, <1>9, <1>10
     DEF Next, RequestStep, BrokerStep, RR!RRNext

\* The connection implements the request/reply contract of RequestReply.tla.
THEOREM Implements == Spec => ImplementsRequestReply
<1>1. Init => RR!RRInit
  BY DEF Init, RR!RRInit, AbsStatus, AbsExecuted
<1>2. QED
  BY <1>1, StepImplements, Inductive, PTL DEF Spec, ImplementsRequestReply, RR!RRSpec

=============================================================================
