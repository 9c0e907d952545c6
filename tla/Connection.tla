----------------------------- MODULE Connection -----------------------------
(***************************************************************************)
(* One TCP connection of the client (internal/conn): the goroutines that   *)
(* wait for replies in SendExpectReply, the bounded write queue and its    *)
(* writer, the pending map, the reader and its blocking dispatch, the      *)
(* heartbeat watchdog and Close.                                           *)
(*                                                                         *)
(* Every atomic step of the code that another goroutine can observe is an  *)
(* action of its own: an atomic flag, a channel operation, a critical      *)
(* section of PendingMap.  Frames are reduced to what tells them apart: a  *)
(* request is its sequence number, a reply the number it answers.          *)
(*                                                                         *)
(* The broker and the network are external: the broker answers a request   *)
(* or a ping, pushes deliveries, refuses the credentials during the        *)
(* handshake, or stops answering; the socket may break at any time.        *)
(***************************************************************************)
EXTENDS Integers, Sequences, FiniteSets

CONSTANTS
  Callers,           \* goroutines that each make one request
  Patient,           \* callers whose context never ends
  WriteQueueCap,     \* Config.WriteQueueCap: room in writeCh
  BufferCap,         \* frames the bufio.Writer holds before it must flush
  NetCap,            \* frames in flight in each direction of the socket
  SubCap,            \* room in the subscription channel the reader fills
  KeepAliveTimeout,  \* in heartbeat ticks
  Setups             \* the uses of a connection to look at

\* One use: the callers that make a request, those among them that drain the
\* subscription between requests, whether KeepAliveInterval > 0 and the
\* heartbeat goroutine runs, whether the application may call Close; and a
\* bound on the deliveries the broker pushes.
Setup == [callers : SUBSET Callers, handlers : SUBSET Callers,
          keepAlive : BOOLEAN, closable : BOOLEAN, deliveries : Nat]

ASSUME ConnectionAssumption ==
  /\ Patient \subseteq Callers
  /\ WriteQueueCap \in Nat \ {0}
  /\ BufferCap \in Nat \ {0}
  /\ NetCap \in Nat \ {0}
  /\ SubCap \in Nat \ {0}
  /\ KeepAliveTimeout \in Nat
  /\ Setups \subseteq Setup

VARIABLES
  setup,         \* the use at hand; it never changes
  closed,        \* Connection.closed
  doneCloses,    \* how often close(done) has run; a second one panics
  sock,          \* "open", "broken" by the peer or network, "closed" by us
  authRejected,  \* Connection.authRejected
  seq,           \* the next number NextSeq hands to a request
  pending,       \* PendingMap.entries: records [seq, ch]
  pc,            \* where each caller is in SendExpectReply
  mySeq,         \* the number the caller's request was given
  reply,         \* what its reply channel buffers; 0 is nothing
  chClosed,      \* the callers whose reply channel was closed
  result,        \* what SendExpectReply returned
  writeCh,       \* the write queue
  writer,        \* writeLoop: "select", "drain", "flush" or "exited"
  wbuf,          \* frames in the bufio.Writer
  wire,          \* frames on their way to the broker
  inbound,       \* frames on their way to the reader
  reader,        \* readLoop
  resolving,     \* the entry Resolve took out and must still answer, if any
  subCh,         \* number of messages in the subscription channel
  heartbeat,     \* heartbeatLoop: "run" or "exited"
  sincePong,     \* ticks since lastPongMs was stamped
  closer,        \* the one Close call that won the swap
  broker,        \* the broker's view: "handshake", "serving" or "refused"
  delivered,     \* deliveries pushed so far
  executed       \* the requests the broker has executed

callerVars == <<pc, mySeq, reply, chClosed, result>>
readerVars == <<reader, resolving, subCh>>
writerVars == <<writer, wbuf>>
closeVars  == <<closed, doneCloses, closer>>
brokerVars == <<broker, delivered, executed>>
vars == <<setup, closed, doneCloses, sock, authRejected, seq, pending, pc, mySeq,
          reply, chClosed, result, writeCh, writer, wbuf, wire, inbound,
          reader, resolving, subCh, heartbeat, sincePong, closer, broker,
          delivered, executed>>

\* A second close(done) panics: it takes the process and all its goroutines
\* down, so every action of the client requires ~Panicked.
Done     == doneCloses > 0
Panicked == doneCloses > 1

\* Frames.  A request and its reply carry the number NextSeq gave; the other
\* kinds are not correlated and carry 0.
Request(s) == [kind |-> "request", seq |-> s]
Reply(s)   == [kind |-> "reply", seq |-> s]
Ping       == [kind |-> "ping", seq |-> 0]
Pong       == [kind |-> "pong", seq |-> 0]
Deliver    == [kind |-> "deliver", seq |-> 0]
AuthError  == [kind |-> "autherr", seq |-> 0]

Init ==
  /\ setup \in Setups
  /\ closed = FALSE /\ doneCloses = 0 /\ sock = "open"
  /\ authRejected = FALSE
  /\ seq = 1
  /\ pending = {}
  /\ pc = [c \in Callers |-> "idle"]
  /\ mySeq = [c \in Callers |-> 0]
  /\ reply = [c \in Callers |-> 0]
  /\ chClosed = {}
  /\ result = [c \in Callers |-> "none"]
  /\ writeCh = <<>> /\ writer = "select" /\ wbuf = <<>>
  /\ wire = <<>> /\ inbound = <<>>
  /\ reader = "read" /\ resolving = {} /\ subCh = 0
  /\ heartbeat = IF setup.keepAlive THEN "run" ELSE "exited"
  /\ sincePong = 0
  /\ closer = "none"
  /\ broker = "handshake" /\ delivered = 0 /\ executed = {}

-----------------------------------------------------------------------------
(* SendExpectReply and Send, one request per caller.                       *)

NextSeqStuck(s) == s  \* mutant: the counter is read, not advanced
NextSeq(s) == s + 1

\* The caller takes a number and registers its reply channel under it.  No
\* other request can be given that number, so the two steps are one here.  A
\* ping takes a number of the same counter and never registers it.
Register(c) ==
  /\ ~Panicked
  /\ pc[c] = "idle" /\ c \in setup.callers
  /\ mySeq' = [mySeq EXCEPT ![c] = seq]
  /\ seq' = NextSeq(seq)
  /\ pending' = {e \in pending : e.seq # seq} \cup {[seq |-> seq, ch |-> c]}
  /\ pc' = [pc EXCEPT ![c] = "check"]
  /\ UNCHANGED <<setup, closeVars, sock, authRejected, reply, chClosed, result,
                 writeCh, writerVars, wire, inbound, readerVars, heartbeat,
                 sincePong, brokerVars>>

\* SendExpectReply returns r.  When it gives up by itself it removes its entry.
Return(c, r) ==
  /\ pc' = [pc EXCEPT ![c] = "returned"]
  /\ result' = [result EXCEPT ![c] = r]

GiveUp(c, r) ==
  /\ Return(c, r)
  /\ pending' = {e \in pending : e.seq # mySeq[c]}

SendTestsDone == Done  \* mutant: Send looks at done instead of the flag
SendSeesClosed == closed

\* Send looks at the closed flag once, before it touches the queue.
CheckClosed(c) ==
  /\ ~Panicked
  /\ pc[c] = "check"
  /\ IF SendSeesClosed
     THEN GiveUp(c, "closed")
     ELSE /\ pc' = [pc EXCEPT ![c] = "send"]
          /\ UNCHANGED <<result, pending>>
  /\ UNCHANGED <<setup, closeVars, sock, authRejected, seq, mySeq, reply, chClosed,
                 writeCh, writerVars, wire, inbound, readerVars, heartbeat,
                 sincePong, brokerVars>>

\* The fast path and the slow path's queue arm.
Enqueue(c) ==
  /\ ~Panicked
  /\ pc[c] \in {"send", "blocked"}
  /\ Len(writeCh) < WriteQueueCap
  /\ writeCh' = Append(writeCh, Request(mySeq[c]))
  /\ pc' = [pc EXCEPT ![c] = "wait"]
  /\ UNCHANGED <<setup, closeVars, sock, authRejected, seq, pending, mySeq, reply,
                 chClosed, result, writerVars, wire, inbound, readerVars, heartbeat,
                 sincePong, brokerVars>>

FastPathFull(c) ==
  /\ ~Panicked
  /\ pc[c] = "send"
  /\ Len(writeCh) = WriteQueueCap
  /\ pc' = [pc EXCEPT ![c] = "blocked"]
  /\ UNCHANGED <<setup, closeVars, sock, authRejected, seq, pending, mySeq, reply,
                 chClosed, result, writeCh, writerVars, wire, inbound, readerVars,
                 heartbeat, sincePong, brokerVars>>

\* The slow path's other arms: maxBlock or the context's deadline runs out,
\* the context is cancelled, or done is closed.
StopBlocking(c) ==
  /\ ~Panicked
  /\ pc[c] = "blocked"
  /\ \/ GiveUp(c, "queuefull")
     \/ c \notin Patient /\ GiveUp(c, "cancelled")
     \/ Done /\ GiveUp(c, "closed")
  /\ UNCHANGED <<setup, closeVars, sock, authRejected, seq, mySeq, reply, chClosed,
                 writeCh, writerVars, wire, inbound, readerVars, heartbeat,
                 sincePong, brokerVars>>

NilIsAReply(c) == "ok"  \* mutant: the nil of a closed channel passes for a reply
WokenBy(c) == IF reply[c] # 0 THEN "ok" ELSE "closed"

\* The final select: a reply, a closed channel, or the end of the context.
EndWait(c) ==
  /\ ~Panicked
  /\ pc[c] = "wait"
  /\ \/ /\ reply[c] # 0 \/ c \in chClosed
        /\ Return(c, WokenBy(c)) /\ UNCHANGED pending
     \/ c \notin Patient /\ GiveUp(c, "cancelled")
  /\ UNCHANGED <<setup, closeVars, sock, authRejected, seq, mySeq, reply, chClosed,
                 writeCh, writerVars, wire, inbound, readerVars, heartbeat,
                 sincePong, brokerVars>>

-----------------------------------------------------------------------------
(* The writer goroutine.                                                   *)

\* One frame out of the queue into the buffered writer.  A full buffer is
\* flushed by bufio before it takes another frame.
WriterTake ==
  /\ ~Panicked
  /\ writer \in {"select", "drain"}
  /\ writeCh # <<>>
  /\ Len(wbuf) < BufferCap
  /\ wbuf' = Append(wbuf, Head(writeCh))
  /\ writeCh' = Tail(writeCh)
  /\ writer' = "drain"
  /\ UNCHANGED <<setup, closeVars, sock, authRejected, seq, pending, callerVars,
                 wire, inbound, readerVars, heartbeat, sincePong, brokerVars>>

\* The queue is empty: flush and go back to the select.  Or the buffer is full
\* and bufio writes it out by itself, in the middle of the drain.
WriterStartFlush ==
  /\ ~Panicked
  /\ writer = "drain"
  /\ \/ writeCh = <<>> /\ writer' = "flush"
     \/ writeCh # <<>> /\ Len(wbuf) = BufferCap /\ writer' = "spill"
  /\ UNCHANGED <<setup, closeVars, sock, authRejected, seq, pending, callerVars,
                 writeCh, wbuf, wire, inbound, readerVars, heartbeat, sincePong,
                 brokerVars>>

\* The socket accepts the buffered frames one by one, as far as the peer's
\* window allows.  On a dead socket Flush makes the writer exit, closing
\* nothing; the error of a spilling Write is ignored and its frames are gone.
WriterWrite ==
  /\ ~Panicked
  /\ writer \in {"spill", "flush"}
  /\ \/ /\ sock = "open" /\ wbuf # <<>>
        /\ Len(wire) < NetCap
        /\ wire' = Append(wire, Head(wbuf))
        /\ wbuf' = Tail(wbuf)
        /\ UNCHANGED writer
     \/ /\ sock = "open" /\ wbuf = <<>>
        /\ writer' = IF writer = "spill" THEN "drain" ELSE "select"
        /\ UNCHANGED <<wire, wbuf>>
     \/ /\ sock # "open"
        /\ writer' = IF writer = "spill" THEN "drain" ELSE "exited"
        /\ wbuf' = <<>>
        /\ UNCHANGED wire
  /\ UNCHANGED <<setup, closeVars, sock, authRejected, seq, pending, callerVars,
                 writeCh, inbound, readerVars, heartbeat, sincePong, brokerVars>>

\* The done arm: what is still in writeCh is never written.
WriterDone ==
  /\ ~Panicked
  /\ writer = "select"
  /\ Done
  /\ writer' = "exited"
  /\ UNCHANGED <<setup, closeVars, sock, authRejected, seq, pending, callerVars,
                 writeCh, wbuf, wire, inbound, readerVars, heartbeat, sincePong,
                 brokerVars>>

-----------------------------------------------------------------------------
(* The reader goroutine: dispatch runs inside the loop, so whatever blocks *)
(* dispatch blocks every frame behind it.                                  *)

\* Resolve's critical section: the entry registered under n, and the map
\* without it.
OldestEntry(n) ==  \* mutant: replies are assumed to come in request order
  {e \in pending : \A f \in pending : e.seq <= f.seq}
Registered(n) == {e \in pending : e.seq = n}

TakeNothing(es) == pending  \* mutant: the entry stays in the map
TakeOut(es) == pending \ es

\* One frame is read and dispatched.  Resolve takes the entry out of the map
\* under the lock and hands the frame over after it; a reply nobody waits for
\* is dropped.  Credentials refused: the flag is set and the socket closed.
\* A delivery parks the reader until the subscription channel has room.
ReaderDispatch ==
  /\ ~Panicked
  /\ reader = "read" /\ resolving = {}
  /\ inbound # <<>>
  /\ LET f == Head(inbound) IN
     \/ /\ f.kind = "reply"
        /\ resolving' = {[seq |-> f.seq, ch |-> e.ch] : e \in Registered(f.seq)}
        /\ pending' = TakeOut(Registered(f.seq))
        /\ UNCHANGED <<authRejected, sock, reader, sincePong>>
     \/ /\ f.kind = "pong"
        /\ sincePong' = 0
        /\ UNCHANGED <<resolving, pending, authRejected, sock, reader>>
     \/ /\ f.kind = "deliver"
        /\ reader' = "deliver"
        /\ UNCHANGED <<resolving, pending, authRejected, sock, sincePong>>
     \/ /\ f.kind = "autherr"
        /\ authRejected' = TRUE
        /\ sock' = "closed"
        /\ UNCHANGED <<resolving, pending, reader, sincePong>>
  /\ inbound' = Tail(inbound)
  /\ UNCHANGED <<setup, closeVars, seq, callerVars, writeCh, writerVars, wire,
                 subCh, heartbeat, brokerVars>>

\* The second half of Resolve: the send on the caller's channel.
ReaderReply ==
  /\ ~Panicked
  /\ \E e \in resolving : reply' = [reply EXCEPT ![e.ch] = e.seq]
  /\ resolving' = {}
  /\ UNCHANGED <<setup, closeVars, sock, authRejected, seq, pending, pc, mySeq,
                 chClosed, result, writeCh, writerVars, wire, inbound, reader,
                 subCh, heartbeat, sincePong, brokerVars>>

NoLimit == TRUE  \* mutant: the channel is taken for unbounded
SubHasRoom == subCh < SubCap

ReaderDeliver ==
  /\ ~Panicked
  /\ reader = "deliver"
  /\ SubHasRoom
  /\ subCh' = subCh + 1
  /\ reader' = "read"
  /\ UNCHANGED <<setup, closeVars, sock, authRejected, seq, pending, callerVars,
                 writeCh, writerVars, wire, inbound, resolving, heartbeat,
                 sincePong, brokerVars>>

MarkClosed == closed' = TRUE

\* A read error ends the loop; the deferred function then runs step by step.
\* Frames the bufio.Reader already holds may or may not be dispatched first.
ReaderFail ==
  /\ ~Panicked
  /\ reader = "read" /\ resolving = {}
  /\ sock # "open"
  /\ reader' = "closeall"
  /\ MarkClosed
  /\ UNCHANGED <<setup, doneCloses, closer, sock, authRejected, seq, pending,
                 callerVars, writeCh, writerVars, wire, inbound, resolving, subCh,
                 heartbeat, sincePong, brokerVars>>

ForgetAll ==  \* mutant: the map is emptied and nobody is woken
  /\ UNCHANGED chClosed
  /\ pending' = {}
CloseAll ==
  /\ chClosed' = chClosed \cup {e.ch : e \in pending}
  /\ pending' = {}

ReaderCloseAll ==
  /\ ~Panicked
  /\ reader = "closeall"
  /\ CloseAll
  /\ reader' = "testdone"
  /\ UNCHANGED <<setup, closeVars, sock, authRejected, seq, pc, mySeq, reply,
                 result, writeCh, writerVars, wire, inbound, resolving, subCh,
                 heartbeat, sincePong, brokerVars>>

\* The select that asks whether done is closed already ...
ReaderTestDone ==
  /\ ~Panicked
  /\ reader = "testdone"
  /\ reader' = IF Done THEN "exited" ELSE "closedone"
  /\ UNCHANGED <<setup, closeVars, sock, authRejected, seq, pending, callerVars,
                 writeCh, writerVars, wire, inbound, resolving, subCh, heartbeat,
                 sincePong, brokerVars>>

\* ... and its default arm, a step later.
ReaderCloseDone ==
  /\ ~Panicked
  /\ reader = "closedone"
  /\ doneCloses' = doneCloses + 1
  /\ reader' = "exited"
  /\ UNCHANGED <<setup, closed, closer, sock, authRejected, seq, pending,
                 callerVars, writeCh, writerVars, wire, inbound, resolving, subCh,
                 heartbeat, sincePong, brokerVars>>

\* The application receives a message; a handler that is itself inside a
\* request does not come back to its channel before the request ends.
SubscriptionReceive ==
  /\ ~Panicked
  /\ subCh > 0
  /\ \A c \in setup.handlers : pc[c] \in {"idle", "returned"}
  /\ subCh' = subCh - 1
  /\ UNCHANGED <<setup, closeVars, sock, authRejected, seq, pending, callerVars,
                 writeCh, writerVars, wire, inbound, reader, resolving, heartbeat,
                 sincePong, brokerVars>>

-----------------------------------------------------------------------------
(* Close, called by the application or by the watchdog.                    *)

\* Only the call that turns the flag on goes on; every other returns at once.
CloseSwap ==
  IF closed
  THEN UNCHANGED closeVars
  ELSE closed' = TRUE /\ closer' = "closedone" /\ UNCHANGED doneCloses

CloseCall ==
  /\ ~Panicked
  /\ setup.closable
  /\ ~closed
  /\ CloseSwap
  /\ UNCHANGED <<setup, sock, authRejected, seq, pending, callerVars, writeCh,
                 writerVars, wire, inbound, readerVars, heartbeat, sincePong,
                 brokerVars>>

CloseDone ==
  /\ ~Panicked
  /\ closer = "closedone"
  /\ doneCloses' = doneCloses + 1
  /\ closer' = "closeall"
  /\ UNCHANGED <<setup, closed, sock, authRejected, seq, pending, callerVars,
                 writeCh, writerVars, wire, inbound, readerVars, heartbeat,
                 sincePong, brokerVars>>

CloseAllPending ==
  /\ ~Panicked
  /\ closer = "closeall"
  /\ CloseAll
  /\ closer' = "closesock"
  /\ UNCHANGED <<setup, closed, doneCloses, sock, authRejected, seq, pc, mySeq,
                 reply, result, writeCh, writerVars, wire, inbound, readerVars,
                 heartbeat, sincePong, brokerVars>>

CloseSocket ==
  /\ ~Panicked
  /\ closer = "closesock"
  /\ sock' = "closed"
  /\ closer' = "returned"
  /\ UNCHANGED <<setup, closed, doneCloses, authRejected, seq, pending, callerVars,
                 writeCh, writerVars, wire, inbound, readerVars, heartbeat,
                 sincePong, brokerVars>>

-----------------------------------------------------------------------------
(* The heartbeat goroutine.  One tick is KeepAliveInterval of time; the    *)
(* clock stops counting once it is past the timeout.                       *)

NoWatchdog == FALSE  \* mutant: pings are sent and pongs never missed
Stale == KeepAliveTimeout > 0 /\ sincePong > KeepAliveTimeout

HeartbeatTick ==
  /\ ~Panicked
  /\ heartbeat = "run"
  /\ \/ /\ Stale
        /\ CloseSwap
        /\ heartbeat' = "exited"
        /\ UNCHANGED <<writeCh, sincePong>>
     \/ /\ ~Stale
        /\ writeCh' = IF ~closed /\ Len(writeCh) < WriteQueueCap
                      THEN Append(writeCh, Ping) ELSE writeCh
        /\ sincePong' = IF sincePong > KeepAliveTimeout THEN sincePong
                         ELSE sincePong + 1
        /\ UNCHANGED <<closeVars, heartbeat>>
  /\ UNCHANGED <<setup, sock, authRejected, seq, pending, callerVars, writerVars,
                 wire, inbound, readerVars, brokerVars>>

HeartbeatDone ==
  /\ ~Panicked
  /\ heartbeat = "run"
  /\ Done
  /\ heartbeat' = "exited"
  /\ UNCHANGED <<setup, closeVars, sock, authRejected, seq, pending, callerVars,
                 writeCh, writerVars, wire, inbound, readerVars, sincePong,
                 brokerVars>>

-----------------------------------------------------------------------------
(* The broker and the network (external).                                  *)

BrokerHandshake ==
  /\ broker = "handshake" /\ sock = "open"
  /\ \/ broker' = "serving" /\ UNCHANGED inbound
     \/ broker' = "refused" /\ inbound' = Append(inbound, AuthError)
  /\ UNCHANGED <<setup, closeVars, sock, authRejected, seq, pending, callerVars,
                 writeCh, writerVars, wire, readerVars, heartbeat, sincePong,
                 delivered, executed>>

BrokerAnswer ==
  /\ broker = "serving" /\ sock = "open"
  /\ wire # <<>> /\ Len(inbound) < NetCap
  /\ wire' = Tail(wire)
  /\ LET f == Head(wire) IN
     \/ /\ f.kind = "request"
        /\ executed' = executed \cup {f.seq}
        /\ inbound' = Append(inbound, Reply(f.seq))
     \/ /\ f.kind = "ping"
        /\ inbound' = Append(inbound, Pong)
        /\ UNCHANGED executed
  /\ UNCHANGED <<setup, closeVars, sock, authRejected, seq, pending, callerVars,
                 writeCh, writerVars, readerVars, heartbeat, sincePong, broker,
                 delivered>>

BrokerPush ==
  /\ broker = "serving" /\ sock = "open"
  /\ delivered < setup.deliveries /\ Len(inbound) < NetCap
  /\ delivered' = delivered + 1
  /\ inbound' = Append(inbound, Deliver)
  /\ UNCHANGED <<setup, closeVars, sock, authRejected, seq, pending, callerVars,
                 writeCh, writerVars, wire, readerVars, heartbeat, sincePong,
                 broker, executed>>

SocketBreaks ==
  /\ sock = "open"
  /\ sock' = "broken"
  /\ UNCHANGED <<setup, closeVars, authRejected, seq, pending, callerVars, writeCh,
                 writerVars, wire, inbound, readerVars, heartbeat, sincePong,
                 brokerVars>>

-----------------------------------------------------------------------------
RequestStep(c) ==
  CheckClosed(c) \/ Enqueue(c) \/ FastPathFull(c) \/ StopBlocking(c) \/ EndWait(c)

WriterStep == WriterTake \/ WriterStartFlush \/ WriterWrite \/ WriterDone

ReaderStep ==
  ReaderDispatch \/ ReaderReply \/ ReaderDeliver \/ ReaderFail
  \/ ReaderCloseAll \/ ReaderTestDone \/ ReaderCloseDone

CloserStep == CloseDone \/ CloseAllPending \/ CloseSocket

HeartbeatStep == HeartbeatTick \/ HeartbeatDone

BrokerStep == BrokerHandshake \/ BrokerAnswer \/ BrokerPush \/ SocketBreaks

Next ==
  \/ \E c \in Callers : Register(c) \/ RequestStep(c)
  \/ WriterStep \/ ReaderStep \/ SubscriptionReceive
  \/ CloseCall \/ CloserStep \/ HeartbeatStep \/ BrokerStep

Spec == Init /\ [][Next]_vars

\* The Go scheduler runs every goroutine that can run and the ticker ticks;
\* nothing is assumed of the broker, the network or the application.
Fairness ==
  /\ \A c \in Callers : WF_vars(RequestStep(c))
  /\ WF_vars(WriterStep)
  /\ WF_vars(ReaderStep)
  /\ WF_vars(CloserStep)
  /\ WF_vars(HeartbeatTick)
  /\ WF_vars(HeartbeatDone)

LiveSpec == Spec /\ Fairness

-----------------------------------------------------------------------------
(* Properties.                                                             *)

Active(c)    == pc[c] \in {"check", "send", "blocked", "wait"}
Entries      == pending \cup resolving
CloseAllDue  == reader = "closeall" \/ closer \in {"closedone", "closeall"}

OutFrame == [kind : {"request", "ping"}, seq : Nat]
InFrame  == [kind : {"reply", "pong", "deliver", "autherr"}, seq : Nat]

FlagsOK ==
  /\ closed \in BOOLEAN
  /\ authRejected \in BOOLEAN
  /\ sock \in {"open", "broken", "closed"}

CountersOK ==
  /\ doneCloses \in 0..2
  /\ sincePong \in Nat
  /\ subCh \in 0..SubCap
  /\ delivered \in Nat

CallersOK ==
  /\ seq \in Nat \ {0}
  /\ pc \in [Callers -> {"idle", "check", "send", "blocked", "wait", "returned"}]
  /\ mySeq \in [Callers -> Nat]
  /\ reply \in [Callers -> Nat]
  /\ chClosed \in SUBSET Callers
  /\ result \in [Callers -> {"none", "ok", "closed", "queuefull", "cancelled"}]
  /\ pending \in SUBSET [seq : Nat, ch : Callers]
  /\ resolving \in SUBSET [seq : Nat, ch : Callers]

QueuesOK ==
  /\ writeCh \in Seq(OutFrame) /\ wbuf \in Seq(OutFrame) /\ wire \in Seq(OutFrame)
  /\ inbound \in Seq(InFrame)
  /\ executed \in SUBSET Nat

GoroutinesOK ==
  /\ writer \in {"select", "drain", "spill", "flush", "exited"}
  /\ reader \in {"read", "deliver", "closeall", "testdone", "closedone", "exited"}
  /\ heartbeat \in {"run", "exited"}
  /\ closer \in {"none", "closedone", "closeall", "closesock", "returned"}
  /\ broker \in {"handshake", "serving", "refused"}

\* Types of the variables; a queue holds only frames of its own direction.
TypeOK == FlagsOK /\ CountersOK /\ CallersOK /\ QueuesOK /\ GoroutinesOK

\* A reply that reached a caller answers the caller's own request, which the
\* broker has executed: PendingMap correlates by the number NextSeq gave.
ReplyAnswersOwnRequest ==
  \A c \in Callers : reply[c] # 0 => reply[c] = mySeq[c] /\ reply[c] \in executed

\* Resolve sends on the reply channel after it released the lock; CloseAll
\* must not have closed that channel meanwhile (a panic), and the channel of
\* capacity 1 must be empty (the reader would block for ever).
ResolveFindsChannelOpen ==
  \A e \in resolving : e.ch \notin chClosed /\ reply[e.ch] = 0

\* No caller waits for a wake-up nobody owes it: its entry is in the map, or
\* its reply is being handed over, or its channel has been closed or filled.
WaiterIsKnown ==
  \A c \in Callers : Active(c) =>
    \/ \E e \in Entries : e.ch = c
    \/ c \in chClosed
    \/ reply[c] # 0

\* SendExpectReply does not select on done: once the connection is closed a
\* caller past the closed check is only woken by CloseAll, so an entry left in
\* the map needs a CloseAll that is still to run (Send against Close).
ClosedMeansCloseAllDue ==
  closed => \A e \in pending : pc[e.ch] \in {"send", "blocked", "wait"} => CloseAllDue

\* Whoever sees Done() fire finds the closed flag set, so that no Send that
\* starts after it can enqueue a frame for the dead writer; and no CloseAll is
\* missing at that point except the one of the Close call under way.
DoneImpliesClosed == Done => closed

\* The inductive invariant behind the five properties above.  Numbers are
\* handed out once and name their caller ...
NumbersUnique ==
  /\ \A c \in Callers : pc[c] = "idle" => mySeq[c] = 0
  /\ \A c \in Callers : pc[c] # "idle" => mySeq[c] \in 1..(seq - 1)
  /\ \A c, d \in Callers : mySeq[c] = mySeq[d] /\ mySeq[c] # 0 => c = d
  /\ \A n \in 1..(seq - 1) : \E c \in Callers : mySeq[c] = n

\* ... the broker sees only numbers that were handed out ...
Numbered(q) == \A i \in 1..Len(q) : q[i].kind = "request" => q[i].seq \in 1..(seq - 1)

FramesNumbered ==
  /\ Numbered(writeCh) /\ Numbered(wbuf) /\ Numbered(wire)
  /\ executed \subseteq 1..(seq - 1)

\* ... and replies exist only for requests it has executed ...
RepliesExecuted ==
  /\ \A i \in 1..Len(inbound) : inbound[i].kind = "reply" => inbound[i].seq \in executed
  /\ \A e \in resolving : e.seq \in executed
  /\ \A c \in Callers : reply[c] # 0 => reply[c] \in executed

\* ... an entry, in the map or being answered, is its caller's own and its
\* channel has been neither filled nor closed ...
EntriesOwned ==
  /\ \A e \in Entries : /\ e.seq = mySeq[e.ch]
                        /\ pc[e.ch] # "idle"
                        /\ reply[e.ch] = 0 /\ e.ch \notin chClosed
  /\ \A e \in pending : Active(e.ch) /\ e \notin resolving
  /\ \A e, f \in resolving : e = f
  /\ \A c \in Callers : reply[c] # 0 => reply[c] = mySeq[c] /\ pc[c] # "idle"
  /\ \A c \in chClosed : pc[c] # "idle"

\* ... and nobody tears the connection down before the closed flag is set.
ClosedFirst ==
  ~closed => closer = "none" /\ reader \in {"read", "deliver"} /\ ~Done

IInv ==
  /\ TypeOK
  /\ NumbersUnique /\ FramesNumbered /\ RepliesExecuted /\ EntriesOwned
  /\ WaiterIsKnown /\ ClosedMeansCloseAllDue /\ ClosedFirst

\* The documented contract of Close and of the reader's guarded close(done).
CloseIsGraceful == ~Panicked

\* Every request ends, whatever the broker and the socket do, for callers
\* whose context never ends: the watchdog notices a broker that stopped
\* answering and a reader parked behind a full subscription channel.
RequestsEnd ==
  \A c \in Callers :
    pc[c] = "check" /\ setup.keepAlive ~> pc[c] = "returned" \/ Panicked

\* A broken socket is eventually signalled to the reconnect supervisor, also
\* when the reader is parked in dispatch and cannot see the read error.
BreakIsSignalled == sock # "open" /\ setup.keepAlive ~> Done \/ Panicked

\* The connection implements the request/reply contract: a request ends at
\* most once, and successfully only if the broker executed that request.
AbsStatus ==
  [c \in Callers |-> IF pc[c] = "idle" THEN "new"
                     ELSE IF pc[c] # "returned" THEN "open"
                     ELSE IF result[c] = "ok" THEN "ok" ELSE "failed"]

AbsExecuted == {c \in Callers : mySeq[c] \in executed}

RR == INSTANCE RequestReply WITH status <- AbsStatus, executed <- AbsExecuted

ImplementsRequestReply == RR!RRSpec
=============================================================================
