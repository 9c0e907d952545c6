# arbitro-go: a verification project

TLA+ models of the Go client for the Arbitro message broker, the TLC runs that
check them and the theorems TLAPS proves about them. Everything here is read off
the code under `src/`; the broker, the network and the file system are external
and modelled only as the client can observe them.

Contents: 1 the system; 2 the modules; 3 the runs; 4 bounds; 5 fairness;
6 proofs; 7 known deviations; 8 what is not modelled; 9 the plan.

## 1. The system

One `Client` (`arbitro.go`) owns one TCP connection at a time. Publishing,
subscribing, crons, services and workflows are built on two primitives of that
connection: *send and expect a reply* and *dispatch what the broker pushes*.

| component | source | state | operations |
|---|---|---|---|
| Connection | `internal/conn/{connection,pending,writer}.go` | `closed`, `done`, `seq`, pending map, write queue | Send, SendExpectReply, Close, read/write/heartbeat loops |
| Ack batcher | `internal/conn/ackbatcher.go` | channel of 4096, per-consumer batches | Ack, run, flush, recordFailed |
| Ack relay (hot tier) | `internal/ackrel/relay.go` | per-consumer pending seqs, generation | Record, Confirm, ConfirmUpTo, EnsureGeneration, sweep |
| Ack store (dedup) | `internal/ackstore/*.go` | WAL file, slots: exact set, fifo, bounds | Slot, Record, Seen, Confirm, ConfirmUpTo, DeleteSlot, Sync, Compact, Restore |
| Client, reconnect supervisor | `arbitro.go`, `internal/conn/reconnect.go` | current connection, generation, cursor cache | Publish*, doReconnect, replay*, Close |
| Subscriptions, registry | `subscription.go`, `registry.go` | routes, siblings, dedup slot | Subscribe, SubscribeBatch, Close, dispatch, fan-out, Msg.Ack |
| Cron | `cron.go` | handler registry | Run, Stop, dispatchCronFire, runCronHandler |
| Service | `service.go` | waiters, handlers, correlation counter | Build, Handle, Request, Send, dispatch, Close |
| Workflow | `workflow.go` | parked steps, engine goroutines | Start, trigger, process, resume, cancel, timeout |
| Wire format | `internal/proto/*.go` | none | encode, decode |
| Management, streams, options | `client_manage.go`, `stream*.go`, `options.go`, `config.go`, `errors.go` | stream-id cache | one request each |

### How they interact

* A caller of `SendExpectReply` registers a channel in the pending map, puts a
  frame on the write queue and waits; the reader resolves the entry. Both `Close`
  and the reader's exit wake every waiter through `CloseAll`.
* `Msg.Ack` hands the sequence number to the ack batcher of the current connection,
  then records it in the dedup slot; what the batcher cannot put on the write
  queue goes to the relay, which is replayed after a reconnect.
* The reader runs `dispatch` itself: delivery callbacks, cron and service
  dispatch run on it, or park it when a channel is full.
* When `done` fires the supervisor redials, installs the new connection under
  the client's lock and replays ack state, subscriptions and crons.

### What is hard, and what makes each component correct

* **Connection.** Callers, writer, reader, heartbeat and `Close` share flags,
  channels and the pending map, with no common lock. It is correct when a reply
  reaches the caller whose request it answers and no other, no caller waits for a
  wake-up nobody owes it, the pending map survives `Resolve` against `CloseAll`,
  a dead connection is noticed even when the reader is parked, and `Close` may
  race everything.
* **Ack path.** An ack crosses the batcher's channel, a batch, the write queue,
  the socket and perhaps the relay, and every one of them can die under it. It is
  correct when the broker releases only what was acked, every ack arrives in the
  end, and nothing recorded in its order is run again.
* **Ack store.** A bounded set with a lock-free gate in front and a log behind,
  crashing anywhere. It is correct when it never claims a number its consumer did
  not record, keeps what `Sync` covered, and compaction changes nothing.
* **Delivery.** The reader walks routes that callers change under it. It is
  correct when routes and siblings agree, a copy reaches exactly those it is for,
  a released message was handled, and a closed handle receives nothing.
* **Supervisor.** A reconnect swaps the connection while calls, closes and
  registrations go on. It is correct when every registration the application
  holds follows to the new connection, a closed one does not come back, every
  call ends, and each reply is for its own request.
* **Workflow.** Workers share a task stream and keep each a registry of suspended
  instances, in step through a state stream only. A task comes back after a nack, an
  expired AckWait or a crash. It is correct when no instance is lost, exactly
  the completed steps of a failed one are compensated, the registries agree, and
  every instance ends.
* **Cron.** A fire's goroutine outlives the connection it came over, its handler may
  never return, and the ack leaves over the connection of the moment. It is correct when
  each such goroutine ends and no cron is forgotten by a reconnect.
* **Publishing.** A batch is several frames, of which the first only is awaited. It is
  correct when the broker has them in order, the first before all others.
* **Service.** Two queues, handlers in goroutines of their own, a request handed
  out again by AckWait, replies that outlive their waiter, workers half built or
  closed. It is correct when a Request returns an answer to itself, a request leaves the
  queue only handled, and one sound worker is enough for an answer.

## 2. The modules

| module | models | extends or composes |
|---|---|---|
| `RequestReply` | the abstract contract of one connection | |
| `Connection` | one TCP connection | implements `RequestReply` |
| `ConnectionProofs` | theorems about `Connection` | `Connection` |
| `AckSlot` | operators on one dedup slot | |
| `AckStoreMemory` | the volatile store | `AckSlot` |
| `AckStoreProofs` | theorems about `AckStoreMemory` | `AckStoreMemory` |
| `AckLog` | the log's records, scan, replay and compaction as operators | `AckSlot` |
| `AckStoreWAL` | the persistent store | `AckLog` |
| `AckStoreWALProofs` | theorems about `AckLog` and `AckStoreWAL` | `AckStoreWAL` |
| `Delivery` | registry, dispatch, life of a subscription | `AckSlot` |
| `DeliveryProofs` | theorems about `Delivery` | `Delivery` |
| `DeferredAcks` | operators on one consumer's relay state | |
| `AckPath` | batcher, slot, relay, ack-state handlers, replay | `DeferredAcks`, `AckSlot` |
| `AckPathProofs` | theorems about `DeferredAcks` and `AckPath` | `AckPath` |
| `Supervisor` | the client over its connections, its crons and batches | |
| `SupervisorProofs` | theorems about `Supervisor` | `Supervisor` |
| `Service` | request/reply between services | implements `RequestReply` |
| `ServiceProofs` | theorems about `Service` | `Service` |
| `Saga` | the abstract contract of the saga engine | |
| `Workflow` | the saga engine on one or two workers | implements `Saga` |
| `WorkflowProofs` | theorems about `Workflow` | `Workflow` |
| `MC...` | the instances TLC checks | the module of that name |

**`Connection`.** An action is one step another goroutine can observe: an atomic
flag, a channel operation, a critical section of `PendingMap`. A caller goes
`Register`, `CheckClosed`, `Enqueue` (or `FastPathFull`, then `StopBlocking`),
`EndWait`, as `SendExpectReply` and `Send` do. `writeCh` is the write queue,
`wbuf` the `bufio.Writer`, `wire` and `inbound` the two directions of the socket.
`pending` is the map; `resolving` holds the entry `Resolve` has taken out and not
yet answered, because the send happens outside the lock. The reader's deferred
function is three steps (`ReaderCloseAll`, `ReaderTestDone`, `ReaderCloseDone`),
`Close` four (`CloseCall`, `CloseDone`, `CloseAllPending`, `CloseSocket`). `doneCloses` counts
`close(done)`: two is the panic. `ReaderDeliver` is the blocking send to a
subscription channel; a caller in `handlers` drains that channel only between
requests. The setup says who calls, who of them is patient or a handler, whether there is
a keep-alive and whether the application may close.

**`RequestReply`.** A request is opened once, the broker executes it at most once,
it ends at most once, and successfully only if executed. `Connection` implements
it with `status` read off `pc` and `result`, and `executed` off the broker's
executed numbers. `Service` implements it a level up: a call is a request, executed
when some handler has succeeded for it.

**`AckSlot`, `AckLog`, `AckStoreMemory`, `AckStoreWAL`.** A slot is a record: the live numbers
with their times, the insertion order (`fifo`), the bounds `min` and `max` of the
lock-free gate. Each operation is an operator on that record; where the memory
backend and the WAL differ there are two (`ConfirmUpTo`, `MemConfirmUpTo`). A
slot's change and its log record are one step: both happen under the slot's mutex
and `Compact` reads the file, not the slots. `log` is the sequence of framed
records, `flushed` of which are in the file. `Restart` keeps those and any number
of the rest, scans them record by record (`Scan`: `Accumulated` is the accumulator of an
id after each record, a recursive function), materializes the
slots and computes the next id. `CompactFails` is a compaction that stops at a
rename or reopen: the old log goes on, or the writer is left with a closed file
(`dead`) while memory goes on and `Sync` reports errors. The ghosts `recorded` and `synced` remember what
was recorded at all and what a `Sync` covered.

**`Delivery`.** `route` and `sibs` are the registry's two tables; `RegisterAll`,
`RemoveRoutes` and `SetFanout` are its operations under its lock. `copy` is the
copy of a message the reader is handing out, with the recipients it still has to
serve: it has left the registry's lock, so the tables may change meanwhile.
`Ack`/`AckRecord` and `CloseMark`/`CloseRemove`/`CloseChannel` are the steps of
`Msg.Ack` and `Subscription.Close`. The broker part keeps one pending entry per
subscription in fanout mode and one per message in queue mode.

**`DeferredAcks`, `AckPath`.** `ch` is the batcher's channel, `queue` the write
queue, `net` and `inbox` what is under way in the two directions, `relay` the
relay's state of this consumer, `sweep` what `sweepOnce` read before it sends,
`slot` the dedup slot, the record of `AckSlot` in the memory backend. `Ack` and `AckRecord`
are the two steps of `Msg.Ack`, the batcher first; `unrecorded` has the numbers between them,
so two acks of one number that are both under way are recorded as one. The reader probes
the slot as the code does, behind the gate (`Recorded`, `Store!Seen`). `Notice`, `Reconnect`, `ReplaySubscriptions` and
`ReplayAckState` are the supervisor's part. A consumer may be deleted and created
again, with the next generation (`BrokerDelete`, `BrokerCreate`), and retention
may settle a message (`BrokerTrim`). The ghost `done` collects the numbers of this
generation's consumer that the slot took with no later one before them (`InOrder`), and gives
up what the slot's capacity pushes out again (`PushedOut`).

**`Supervisor`.** A call of a thread (publish, batch, subscribe, close, run, stop) is
`Begin`, `ReadGate` (the load of the gate in `getConn`), `LoadForNumber` and
`LoadToSend` (the two loads of `connPtr` every call makes), `Return` or `GiveUp`. A
batch goes through these once per chunk (`sent`). A fire is a frame of the broker
(`BrokerFire`) that the reader turns into a goroutine (`StartHandler`); when the handler
returns or its time is out (`HandlerDone`) the goroutine makes one more call, the CronAck.
The supervisor goes through `sup`: `watch`, `lost`, `dial`, then the replay of the
tables it copied. `table` is what the client would replay, `bound` what the broker
of the current connection knows. Three ghosts mark calls the properties except:
`crossed` (a number of one connection used on another), `late` (a cron whose
reply came before its table entry and lost the connection in between), `hasty`
(a Close or Stop whose wait at the gate ran out). A fourth, `stored`, keeps the order
in which the broker took the chunks of a batch.

**`Service`.** An instance is a `Service` value or a builder on its way there (`build`):
`Create`, `SubscribeWorker`, `SubscribeReply`, any of which may fail and leave what was
done. `bound` is the broker's view. A call goes `Resolve`, `Enter` (number and waiter),
`Publish`, `Published`, `EndWait`; a Send ends at `SendOnly`. `ready` and `settled` are the
request queue. `Deliver` is the queue handing a request to a worker together with
`dispatch`, which starts a goroutine (`runs`) that goes `HandlerReturns`, `SendReply`,
`SettleRun`; `Redeliver` is AckWait. `ReplyArrives` is `dispatch` on the reply side.
Methods are short sequences, so that one may begin another as in the code's prefix
match. The ghost `succeeded` has the calls some handler returned no error for.

**`Workflow`.** A worker's `processLoop` takes a task (`Take`) and its handler decides
what is to be done: a list of effects in `todo` (publish a task, announce a state
event, dead letter, start a timer, ack, nack), performed one by one
(`SendOK`, `SendFails`, `StartTimer`, `SendAck`, `SendNack`). So the order of the
calls in a handler is the order of the list (`StepDone`, `StepError`,
`StepSuspend`, `Woken`), others come in between, and `Crash` cuts it anywhere.
`RunStep`, `Wake`, `WakeNobody`, `HandleCancel` and `Compensate` are the branches of
the loop; `suspended` is the worker's registry and `StateSync` the goroutine that
follows the state stream into it. A task and a state event are the fields
their message id is made of, so that the broker's deduplication is equality. Three
ghosts: `done` (handlers that succeeded), `over` (cancelled or timed out without a
handler), `mishaps` (instances for which an error was discarded, which the
properties exempt; section 7).

**`Saga`.** The steps of an instance succeed in order, a step fails for good only when it
was reached, and the rollback walks back: a compensation is asked for when its step
succeeded and, from a failed step down to it, those of all the steps between were
asked for before. `Workflow` implements it with `succeeded` read off `done`, `failed` off
the dead letters, `compensated` off the task stream and `troubled` off `mishaps`. What is
ordered is the asking (the publishes): several workers may run the compensations in
any order, and neither the code nor `Saga` promises more.

Definitions marked `\* mutant` are plausible errors in the definition next to
them. No specification uses them; they show which property would notice.

The modules that bring several setups take them as the CONSTANT `Setups`; `Init`
picks one and the variable `setup` keeps it. One run then answers one question on
several small instances.

## 3. The runs

| run | module, configuration | properties | shows |
|---|---|---|---|
| `conn` | `MCConnection`, `_sound` | `TypeOK`, `ReplyAnswersOwnRequest`, `ResolveFindsChannelOpen`, `WaiterIsKnown`, `ImplementsRequestReply`, `RequestsEnd`, `BreakIsSignalled` | replies are correlated, the map is safe against `CloseAll`, nobody is forgotten; the watchdog frees a reader parked behind a full channel, a silent broker and a broken socket are noticed |
| `mem` | `MCAckStoreMemory` | `CapHolds`, `FreshMeansUnseen` | capacity and gate of the volatile store |
| `wal` | `MCAckStoreWAL`, `_sound` | `TypeOK`, `SeenIsSound`, `SyncedSurvives`, `LogCoversMemory`, `FreshMeansUnseen` | crashes anywhere in the log, compactions that succeed or fail, TTL, deletes and re-registrations |
| `ackpath` | `MCAckPath` | `TypeOK`, `ReleasedWasAcked`, `OldestCovers`, `DeferredUntilSettled`, `NotRerun`, `AckArrives` | no ack is invented, given up early or lost in the end, and what was recorded in order is not run again |
| `delivery` | `MCDelivery`, `_sound` | `RoutesAgree`, `ReleasedWasHandled`, `NoRouteWithoutOwner`, `CopyReachesAll` | routing, fan-out and dedup while siblings come and go |
| `supervisor` | `MCSupervisor`, `_sound` | `TypeOK`, `RegistrationsFollow`, `ClosedStaysClosed`, `BatchInOrder`, `MatchUnlessCrossed`, `CallsEnd` | one or two reconnects under calls, batches, fires, closes, timeouts and a client that gives up |
| `service` | `MCService`, `_sound` | `AnswersOwn`, `SettledWasHandled`, `ImplementsRequestReply`, `RequestsAnswered` | own answers, nothing unhandled settled and an answer in the end, under loss, redelivery, half built and closed workers |
| `workflow` | `MCWorkflow`, `_sound` | `TypeOK`, `NotLost`, `CompensatesExactly`, `RegistryAgrees`, `ImplementsSaga`, `InstanceEnds` | no instance is lost without an error, exact compensation, from the latest step back, agreeing registries, an end for each |
| `wal_idreuse` | `MCAckStoreWAL`, `_idreuse` | `SeenIsSound` | violated: a compacted slot's id goes to another consumer |
| `delivery_shared` | `MCDelivery`, `_shared` | `ReleasedWasHandled` | violated: one sibling's ack answers for another |
| `supervisor_crossing` | `MCSupervisor`, `_crossing` | `RepliesMatch` | violated: a number of one connection used on the next |
| `workflow_twice` | `MCWorkflow`, `_twice` | `NotLost` | violated: the removal of one suspension deletes the next |

The first eight pass. The other four each check one promise the repository makes
(quoted in `PROJECT.json`) and show the code breaking it; section 7 tells them.
Deadlock is not checked: in every module the application may simply have nothing
more to do, and the bounded clients stop.

## 4. Bounds, and why they are enough

* `conn`: two connections. `Contended`: two callers, one patient and one whose context may
  end, are what correlation, overtaking and a late reply need, against `Close` and a
  socket that breaks. `Watched`: one caller that is also the handler, so that the reader
  can be parked by the very goroutine that waits for its reply; a timeout of one tick. A
  write queue of one makes the slow path of `Send` and `ErrQueueFull` happen. One frame
  in flight per direction still reorders across the two directions. A subscription
  channel of one and two deliveries park the reader.
* `mem`: capacity two and four numbers overflow the fifo and put a number in it
  twice; two slot ids leave a handle of a deleted slot next to a live one. One name
  acknowledges in order, one in any order.
* `wal`: four stores. `Crashing`: two names, two ids, snapshots every two records and
  two crashes, so a restart meets the remains of an earlier one. `Compacting`: a TTL
  of one over three ticks, compaction at three records. `InOrderOnly`: three numbers
  over a capacity of two, and a restart. `Failing`: compactions at two records that
  fail, three numbers over a capacity of two and two crashes, so that a log that was cut
  off at a failed compaction is written to and read again. Names are interchangeable (symmetry).
* `ackpath`: six clients, each bringing out one case: a consumer created anew
  between two connections with copies of the old one still in hand (`CreatedAnew`), one that
  stays, with replies and copies under way together and retention (`KeptOn`), two messages
  recorded in either order and sent again meanwhile (`Unordered`), two messages deferred at
  different times against the TTL (`Expiring`), the TTL over two connections
  (`ExpiringTwice`), two messages in one frame over two connections without store and TTL
  (`Unstored`). A write queue of one frame refuses the second. A slot of two entries is full
  when both messages are recorded, or one twice (a confirmed number stays in the fifo and is
  recorded again by a copy in hand), so that evictions happen in `CreatedAnew` and
  `Unordered`. In `Unordered` and `Unstored` the relay's ticker, 100 ms, is not due in the
  time looked at (`sweeps`): refused acks come through by redelivery or the replay alone.
* `delivery`: two queue members with the ack store and overdue copies; three
  fanout siblings with different filters, one walking, one coming and one
  going; the same as one batch with refused entries and a lost reply.
* `supervisor`: nine clients of one or two threads and up to three connections:
  publishers, a subscription with a cron, a second loss during the replay,
  waits that run out, redialling that fails for good, `Client.Close`, a batch of three
  chunks (the least with two chunks nobody waits for) over three connections, and a cron
  whose fire's goroutine meets a reconnect.
* `service`: nine systems of one or two calls and one or two workers. `Calling`: a worker that calls
  itself while another instance calls it under the same number. `Naming`, `Lossy`: two
  calls of one instance to methods of which one begins the other. `SharingLossy`,
  `Closing`, `CallerCloses`, `HalfBuilt`, `Silent`, `Sending`: one call, two workers and two
  handler runs, the least with a failure, or an expired AckWait, before a success. The
  last run a call has left does not fail (`MaxRuns`), and a request that comes back after it
  waits.

* `workflow`: seven workflows and one instance. `Plain`, `Slow` and `Unsure`: three steps,
  the least with two compensations in a row, and
  two attempts per step, on two workers of which one dies, on two with an AckWait that ends
  early, on one whose publishes fail with or without effect. The others have two steps. `Suspending` and `Dying`: a
  suspend step on two workers with resume, timeout and cancel, or a crash. `Alone` and
  `Discarding`: a normal and a suspend step on one worker with failing handlers, with
  and without a timeout handler. Two attempts are the least with a retry that is
  not the last, and make MaxDeliver two, so a task can come back once (the client sends
  the broker no such limit, section 7). Instances
  share nothing but the workers, so one is enough.

Counters (numbers, copies, connections, clock, log length) stop in the guards at
bounds named in the modules; a bound stops the environment or the clock and never
a goroutine in the middle of an operation.

## 5. Fairness

Safety is checked without fairness, except that five runs (`conn`, `ackpath`, `supervisor`,
`service`, `workflow`) use the fair specification for all their properties.
Fairness removes no finite behaviour, so this does not weaken the safety properties.

* `Connection`: weak fairness of each goroutine that can run and of the heartbeat's
  ticker. Nothing is assumed of the broker, the network or the application, which
  is what makes `RequestsEnd` a statement about the watchdog. The patient caller is
  the one whose context never ends: others end by it.
* `AckPath`: weak fairness of each goroutine (batcher, writer, reader, sweep, supervisor)
  and of the reader noticing a broken socket.
  Strong fairness of the broker taking a frame and sending a copy again: both are
  disabled again and again by a connection that dies. The application acknowledges
  what it has taken: `AckArrives` is about acks, and redelivery is one of its two
  ways. `AckArrives` is stated for a consumer that is not deleted.
* `Supervisor`: weak fairness of calls, reader and supervisor, and of a broker that
  answers; redialling ends one way or the other. No fairness of `GiveUp`:
  `CallsEnd` holds although no wait runs out, and although a cron's handler may never
  return: its timeout ends the goroutine.
* `Service`: weak fairness of each call's goroutine, of each handler run and of the
  builder, and of a broker that stores what it is sent, brings a reply and brings back what is
  not acked. Strong fairness of handing a request to each bound worker: the request is in
  the queue again and again, and a group serves its members in turn, so a worker that
  swallows requests does not get all of them for ever. Handlers return, and the
  application registers them after Build. `RequestsAnswered` is stated for systems that
  lose no frame and whose waits do not run out.

* `Workflow`: weak fairness of each worker's two goroutines and of the sleeping
  timers. `InstanceEnds` is stated for a single worker: with several, a timeout can find
  its entry on none of them twice and be acked as stale before the park event comes.

Weak fairness of a `select` as a whole is what Go gives: the goroutine runs, which
ready branch it picks is free.

## 6. Proofs

Eight modules hold theorems, for every value of the constants.

**`ConnectionProofs`** assumes only `ConnectionAssumption` (any set of callers, some
of them patient and some draining the subscription; positive capacities). The five safety properties are not
inductive. `IInv` adds: numbers are handed out once and name their caller
(`NumbersUnique`); the broker and the queues see only numbers that were handed out
(`FramesNumbered`); replies exist only for executed requests (`RepliesExecuted`); an
entry, in the map or being answered, belongs to its caller and its channel is
neither filled nor closed (`EntriesOwned`); nobody tears the connection down before
the closed flag is set (`ClosedFirst`). Each is needed: without `EntriesOwned` the
step of `Resolve` outside the lock could find the channel closed; without
`NumbersUnique` a reply could fill the channel of another caller; without
`ClosedFirst` a caller could pass the closed test after the last `CloseAll`. From
`Inductive` follow `ReplyCorrelation`, `ResolveIsSafe`, `NoForgottenWaiter`,
`CloseAllCoversWaiters` and `DoneAfterClosed`; `TypeCorrect` stands alone. `Implements` maps every step to a step of
`RequestReply` or a stutter: `Register` to `Open`, the broker's answer to
`Execute`, `EndWait` with a reply to `Succeed`, every error return to `Fail`.

**`AckStoreProofs`** assumes `MemoryAssumption` (a positive capacity, finite bounds).
`SlotOK` says of each slot: the fifo fits and contains every live number, `max`
bounds the live numbers, a deleted slot is empty, and for a name acknowledged in
order the fifo is sorted and `min` passes no live number. One lemma per operator
(`CheckRecordOK`, `ConfirmOK`, `ConfirmUpToOK`, `DeleteOK`) shows that it keeps
`SlotOK`, and `UpdateKeeps` that an operation through a handle touches nothing else.
`TypeCorrect`, `CapacityRespected`, `HighBound`, `DeletedSlots` and `GateIsSound`
follow; the first, third and fourth have no run of their own.

**`AckPathProofs`** assumes `AckPathAssumption` (positive capacities, finite bounds; any TTL). One lemma per
relay operation shows that it keeps `RelayOK`: `oldestTs` is set exactly while something is deferred and never
later than an entry. `IInv` follows an ack: every place it can be in (the
batcher's channel, the write queue, the wire, the relay, the sweep, the slot) holds
acknowledged numbers only. That is needed because the broker releases what a frame names,
and a frame may have been built from any of these. `NoForeignAck` and `TTLFindsAll`
are its consequences. `NoRerun` needs a second invariant, `NInv`, about order: what a reply on
its way lets the slot drop is behind the broker's cursor, no copy of it follows the
reply (`Ordered`), the replies of a living connection speak of the consumer that
is there (`Current`), and what was recorded in order (`done`) is in the slot where the gate lets it
through, or will not come again (`Recognized`). The gate is the subtle part: its low bound is
the head of the fifo after a record and the least live number after a cursor. `GateOK` says of a
number that the bounds enclose it and that one of its entries in the fifo has nothing greater in
front, so that neither bound can pass it while it is there; `RecordOK` and `ConfirmedOK` show
that every operation keeps this, and that a number not below the high bound gains it. Out of
order it is false, and so would the theorem be (see section 7). Without
`Current`, the reply of an old generation could free a number the new one has just
sent. It rests on `CursorOK`: the cursor counts a prefix without a pending number.
`DeferredIsKept` needs a third, `Settled`: what a reply drops the broker has settled. `TypeCorrect` rests on `Bounded`: a
capacity or a counter is not exceeded because each step that fills it is guarded, or takes
what a guard left room for (a connection that was lost leaves a number for the next,
a copy goes out only while the application has a hand free).

**`DeliveryProofs`** assumes `DeliveryAssumption`. `IInv` adds to the types: what
the slot holds some subscription has acknowledged (`SlotOK`); who is in the slice of siblings is said by
the life of each subscription, and the routes are those of the members, each with its own
position (`MembersOK`); a reply was decided before it was on the wire, and a batch gives
nobody the handle of a refused entry (`VerdictOK`); once a call has returned the mode is known
to all siblings, later ones included (`ModeOK`); every ack on its way or with the broker
answers for a handler that ran (`HandledOK`).
`TypeCorrect`, `RegistryAgrees` and `RoutesHaveOwners` follow as they are. `ReleasesAreHandled` has the
premise that fanout and dedup are not used together: that is the deviation `delivery_shared`
shows. `CopiesReachAll` has the premise that only batches may be refused: the error of a
single Subscribe that is refused reads as queue mode, and the client then asks one member.
`KeptMembers` is what stands in for the induction over the sequence that is filtered when a
sibling leaves: it counts positions (`RanksCount`).

**`ServiceProofs`** assumes `ServiceAssumption`. `IInv` adds to the properties: numbers are drawn once per
instance (`Numbers`); an entry of `pending` leads to the call that drew its number
(`Waiters`); what runs began as a stored request, under a handler whose name begins the
method (`Queued`, `Running`); a reply carries the number and the instance of the call it
answers, which succeeded (`Answers`); what a call has received answers it
(`Received`); only handled requests are settled (`Handled`). `Numbers` is what keeps a
second or late reply from the channel of another call; `Answers` is what makes
`ReplyArrives` safe after any redelivery. `TypeCorrect` (of a `TypeOK` that no run repeats), `SettledOnlyHandled` and `OwnAnswer` follow, and
`Implements` maps every step to one of `RequestReply` or a stutter.

**`SupervisorProofs`** assumes `SupervisorAssumption`, in which the replay is not one of the callers
(`Replayer \notin Threads`). `IInv` says what each phase of the supervisor implies about
its copy of the tables (`PhaseOK`); that a waiting number is that of a call on its way
(`PendingOK`); what a frame on the wire says of the call that sent it (`FramesOK`,
`CallsOK`); which numbers each connection has handed out (`NumbersOK`); how far a batch is,
on the wire and with the broker (`BatchOK`); that what the table holds is bound, or will be
replayed (`FollowOK`); and that what was closed is in neither (`ClosedOK`). `BatchesInOrder`,
`RegistrationsDo` and `ClosedStay` are the properties of the run, `RepliesCorrelate` is
`MatchUnlessCrossed`: a reply is for the request it is taken for, but for a call that drew its
number before a reconnect and sent it after (`crossed`; the run `supervisor_crossing` shows that
the exception is needed).

**`WorkflowProofs`** assumes `WorkflowAssumption`. `IInv` adds to the types
(`Shape`): a task is in one place and goes out at most `MaxDeliver` times (`Stream`); whoever is named by a
task, an event or a registry has its earlier steps done (`Path`, `Log`, `Registry`); each
delivery has one holder, which owes what its branch of the loop still has to do (`Holders`,
`Worker`); a step that failed for good owes, or has sent, the compensation of
every earlier one (`Letters`, `Compensated`, `Final`).
`TypeCorrect` and `CompensationsExact` follow: an instance that failed has, in the end, exactly
the steps compensated that were completed, however often a task was brought back.
`RegistriesAgree` has an invariant of its own, `RInv`: the registry of a worker is what the
events it has read amount to. So has `NothingLost`, `NInv`, and a premise, `Sheltered` with a worker
alive: a definition with at most one suspend step, and no cancelling where workers die. With
two suspend steps the code does lose an instance (run `workflow_twice`). `SagaImplemented` maps
every step to one of `Saga` or a stutter: a handler that returns without an error to
`Succeed`, the dead letter to `Fail`, the publish of a compensation to `Compensate`, a
discarded error to `Discard`. `IInv` says that the step was done and a later one failed;
that the rollback has come down to it takes `UInv`: a worker's list names the compensations in
descending order (`Descends`), and while it owes one, each later one up to the failed
step is still on its list or in the stream (`Unwound`). This holds of each worker alone,
so neither a second delivery of the last attempt nor a crash in the middle matters.

**`AckStoreWALProofs`** assumes `WALAssumption`: stores of any capacity, TTL, thresholds and
bounds, and names other than the two markers of a scan. The first half is about `AckLog`, by
induction over the length of a log: the recursion has a solution (`Unfold`), it stays in its
types (`Accumulates`), records appended continue it (`Grows`) and a cut leaves what came
before (`Prefix`), a later cutoff drops only what is too old (`LaterScan`), `Ascending` lists a
set (`Listed`), and a compacted log says of each id what the old one said (`CompactedOK`).
`Store` is the invariant of every store, concurrent resolvers, failed compactions
and restarts included: slots in order (`SlotsOK`: the fifo contains the live numbers, the gate
encloses them when acknowledgements are in order), tables (`TablesOK`), log (`LogOK`) and
`Covers`, that the log restores what the slots hold with no earlier time. From it follow
`TypeCorrect`, `LogCovers` and `FreshIsUnseen`.
`SeenSound` and `DurableOnceSynced` have a premise, `Premise`: the store has not been restarted
yet, or it is `Plain`, its log never compacted and a name resolved by one goroutine at a
time. Without it the code does break them (run `wal_idreuse`; `WAL.Slot` under §7). Their
invariant `Promise` adds that in a `Plain` store every cut of the log replays well
(`Replayable`): an accumulator with a name holds only what was recorded for that name
(`LogSound`), no two ids have one name (`LogUnique`), the whole log names exactly the slots
that are registered (`Linked`, `InMemory`), and every cut behind the last flush has what `Sync`
found (`Durable`). The cuts are quantified in the invariant because a crash may follow
any append.

Only model-checked: `SeenIsSound` and `SyncedSurvives` after the restart of a store that
compacts (the slot is then never empty, `Failing`); `NotLost` outside `Sheltered`, and
`ReleasedWasHandled` and `CopyReachesAll` outside their premises; all liveness (`RequestsEnd`,
`BreakIsSignalled`, `AckArrives`, `CallsEnd`, `RequestsAnswered`, `InstanceEnds`). Out of the
prover's reach for good are liveness under fairness, `ENABLED`, and the induction theorems of the
library, which take an operator as a parameter. Induction over the naturals itself is
possible, from the least counterexample of a set.

## 7. Known deviations

### Shown by a run

* `wal_idreuse` (`compact.go:213`). Compaction drops every slot without a live
  number, its Register record included, while the slot stays in use. What it records
  next belongs to no registered id in the file; after a restart the id goes to another
  consumer, which then takes a message for processed that its handler never saw.
* `delivery_shared` (`arbitro.go:663`). One slot per consumer answers for all fanout
  siblings: when one has acked a message and another has not, the copy sent
  again for the second is acked on its behalf and never handled.
* `supervisor_crossing` (`arbitro.go:325`). A call loads the connection twice, for
  `NextSeq` and for the send. After a reconnect in between, its number is
  one the new connection hands out too, and replies go to the wrong caller.
* `workflow_twice` (`workflow.go:892`). A remove event names the instance and not the
  step, and comes after the next step's task: if that step suspends, its entry is deleted
  on every worker and nothing can wake the instance.

### Stated in a module, in no run

* `CloseIsGraceful` (`Connection`): `Close` closes `done` unconditionally
  (`connection.go:362`) while the reader's deferred function tests and closes it in two
  steps (`connection.go:421-425`). Add it as an INVARIANT to
  `MCConnection_sound.cfg` to see the second close.
* `NoSendOnClosedChannel` (`Delivery`): a reader that looked a route up before `Close`
  removed it selects on a closed channel (`arbitro.go:805`) and may panic.
  Add it to `MCDelivery_sound.cfg`.

### Met while modelling

Connection and client:

* `Send` may return `ErrQueueFull` for a dead connection (`connection.go:298`), which
  `connection.go:277-279` says must not be conflated: several branches of the
  select are ready.
* The reader of a new connection waits at the gate (`arbitro.go:664`) for a replay that
  needs this reader, until the waits run out. `Supervisor` models it; registrations
  are sent all the same.
* `Client.Close` that races `doReconnect` leaves a live connection (`arbitro.go:832`,
  `879` against `233-234`).
* A cron whose connection dies between its reply and the table insert is not
  replayed (`cron.go:105`), though `README.md:281` says crons are re-registered.
* `PublishBatch` "atomically publishes" (`arbitro.go:438`), but the chunks after the first
  go out without a reply (`480-492`): any of them may be lost, in the middle too, while
  the caller gets nil.
* The cache of stream ids is not cleared by `DeleteStream` (`client_manage.go:56-71`): a
  stream created again is published to under its old id.

Cron:

* `CronAck` names the cron and not the fire (`cron.go:231-234`), and leaves over the
  connection of the moment: after a reconnect it may answer another fire.
* A fire that arrives before the table entry (`cron.go:104-118`) or after `Stop` is dropped
  without an ack (`190`).
* A handler that is timed out goes on running (`cron.go:227-228`): with overlap off the
  next fire may run beside it.
* `Stop` deletes by name (`cron.go:137`): of two `Run` under one name, the first handle's
  Stop removes the second's entry. Ending the context given to `Run` deregisters nothing
  (`122-125`).

Acks:

* The low bound of the gate is the oldest insertion, not the least number (`memory.go:143`,
  `wal.go:462`): after acks of 2 and then of 1 the bound is 2 and `Seen(1)` false, and a
  redelivery of 1 is handed to the handler again, although `store.go:98-99` calls such a
  number "definitely not seen". So it is for a consumer created again whose numbers
  start below those the slot has of the old one. `AckPath` has this behaviour (`Unordered`
  reaches it: TLC refutes `NotRerun` with `Processed` in place of `done`). Therefore
  `NotRerun` is stated for numbers recorded in order and `FreshMeansUnseen` for names
  acknowledged in order. A sweep of the WAL, or a cursor, sets the low bound to the least
  live number and lets them through again.
* `WAL.Slot` publishes a slot before its Register record is logged (`wal.go:270`
  against `wal.go:20`): with two goroutines on one name a crash loses what the other
  recorded and synced. `AckStoreWAL` has one goroutine per name.
* `sweepOnce` reads the numbers and the generation under separate locks
  (`relay.go:362-369`): old numbers may go out with a new generation.
* What the replay sends again after a failed batch loses its subscription id
  (`ackbatcher.go:144`).

Subscriptions:

* Fanout copies that outrun the first Subscribe reply reach one sibling only
  (`subscription.go:406` against `402-403`).
* A Subscribe that fails after registering leaves its route (`subscription.go:397`),
  which a batch does not (`682-683`). `Subscribe` ignores an error reply
  (`subscription.go:404`), which a batch does not (`552-553`).

Service:

* `Close` "cancels pending requests" (`service.go:160`) but wakes none: they end by their
  timeout. A closed instance stays subscribed and swallows requests without ack or
  nack (`170`): each waits for AckWait. `RequestsAnswered` shows that they get through.
* `Request` ignores an error reply to its publish (`135`) and waits for its timeout.
* Handlers are found by prefix in the map's order (`194-201`): with names of which one
  begins another, either may run. `AnswersOwn` says which systems are free of this.
* `Msg.reply` drops its error and the request is acked all the same
  (`subscription.go:158`): the answer may be lost for good. A handler that returns no bytes
  sends no reply, and the caller waits for its timeout.
* `Build` reads no error reply of its two subscribes, and when the second fails it leaves
  the first: a worker without handlers that nacks what it gets (`419-422`).
* Instance ids start at 1 in every process (`306`): two processes of one service share the
  reply consumer's name and its subjects.

Workflow:

* `MaxDeliver` is set on the task consumers (`workflow.go:466`), and by applications
  (`README.md:222`), but never sent: neither `ensureConsumer` (`subscription.go:492-498`) nor
  `createConsumerPayload` (`manage.go:236-248`) has it. That a task comes back at most so often
  is an assumption of the model about the broker; attempts are counted in the task and do not
  depend on it.
* Errors of every publish but a retry's are discarded (`workflow.go:1059`, against
  `CHANGELOG.md:146-151`), and a failing resume or timeout handler nacks after its entry is gone
  (`848-882`): the instance may end half way. These are the `mishaps`.
* A park event that comes back to its own worker may put the entry in again
  after a resume took it out (`LoadOrStore` in `stateSync`), and two workers
  each have an entry: resume and timeout handlers may both run for one suspension.
* A worker that gets a resume or timeout twice before the park event reaches it acks
  it as stale: the instance stays suspended for good.
* Resume ids use a counter per handle (`619-622`): the first `Resume` of a
  second handle has the id of the first handle's and is dropped as a duplicate.
* `Cancel` of a running instance is a no-op (`626-627`) that also uses up the cancel and remove
  ids, while `README.md:333` says "Cancel a running or suspended instance".
* `genInstanceID` starts at 1 in every process (`268-275`): automatic instance ids
  of two processes collide and the second trigger is dropped.
* Timeouts are sleeping goroutines (`983-989`) and die with the process.
* A last attempt that failed, was compensated and then redelivered because its ack was lost may
  succeed and go on.
* The context a resume or timeout handler returns is not measured; the next step's
  guard (`773-776`) acks and drops the task.

## 8. What is not modelled

* **Wire format, buffer pool, options, errors, management calls.** Byte layout, plain
  data, or one request and one reply, which `Connection` covers.
* **Directory and file lock of the ack store, write errors of the log.** One system call at
  open; outside a compaction every file operation succeeds or the process dies.
* **Seen cache** (`ackrel/seen.go`), `Relay.Confirm`, `Relay.BumpGeneration`. No caller outside
  tests.
* **Time.** Backoff, NackDelay, AckWait and keep-alive intervals appear as
  steps that may happen, not as durations; TTLs as a small clock.
* **Callback handlers of subscriptions, consumer creation, subject matching.** A filter
  is the set of messages it accepts.
* **Workflow**: the trigger and source loops, Stop, context size guards, a worker that
  starts again under its old name, the end of the broker's idempotency window. State events
  reach a worker in order and once.
* **Service**: instances of several processes, whose ids collide (section 7), and a stream
  that is deleted under them.
* **Cron**: which worker of several the broker gives a fire to.

## 9. The plan

Written so far, in this order: `Connection` with its abstract contract, the ack
store, `AckPath`, `Delivery`, `Supervisor` with crons and batches, `Workflow`, `Service`;
proofs about each of them. Next:

1. An abstract specification of delivery (at least once, at most once after a
   recorded ack), with a refinement mapping.
2. The trigger and source loops of `Workflow`, and its `Stop`.
3. Write errors of the log outside a compaction, and two processes of one service.
