# A verification project for the adaptive batching engine

The repository is an inference gateway in Go. HTTP handlers put requests into a
matrix of queues, one goroutine (the batcher) forms batches of requests of one
kind, a pool of workers posts the batches to an upstream server and hands each
handler its result. Beside that path, a metrics loop measures latency and steers
how long the batcher waits for a batch to fill.

This directory holds TLA+ modules that model the parts whose correctness depends
on the order in which goroutines take their steps, TLC configurations that check
them on small instances, and proofs that TLAPS checks for every instance.
Paths below are relative to `src/`; `qm.go` is
`internal/batcher/packing/queue_matrix.go`.

## 1. Inventory

| component | state | operations | where it is hard |
|---|---|---|---|
| QueueMatrix (`qm.go`) | 48 channels, an atomic depth counter, a wake channel of capacity 1, a closed flag, an RWMutex | Submit, Drain, DrainFrom, DrainAll, HasHigherPriorityThan, Signal, EventChan, Depth, Close | every method runs concurrently with every other one; only Submit and Close exclude each other |
| AdaptiveBatcher (`internal/batcher/adaptive.go`) | strategy pointer, stopping and started flags, stop and stopped channels, the batch being formed | Submit, Start (run, formBatch, accumulate, dispatch, drain), Stop, SetStrategy, UpdateStrategyMetrics | coalesced wakes, the accumulation window, pre-emption, blocking dispatch, shutdown from two sides |
| Batching strategies (`internal/batcher/strategies`) | fixed and queue_depth: none; latency_aware: a multiplier | CalculateTimeout, ShouldFlush | a feedback loop over values another goroutine publishes |
| CircuitBreaker (`internal/worker/circuit.go`) | state, failure count, time of the last failure | RecordSuccess, RecordFailure, CanExecute, State, Reset | which calls come in which order, and who makes them |
| ProxyWorker (`internal/worker/proxy.go`) | the batch in hand, status, counters | Run (nested selects), process (filter, post, decode, fan out) | a post that races its timeout, the departure of its clients and the shutdown |
| WorkerPool (`internal/worker/pool.go`) | four batch channels, breakers, the unhealthy flag, the ping loop's failure count | Start, BatchChans, CloseBatchChans, AllWorkersUnhealthy, GetStatus, ping loop | the flag and the breakers are read without a snapshot; shutdown order |
| Inference handlers (`internal/api/handlers/inference.go`) | the request object and its context | admission, Submit, wait for the result or the context, reply | the reply races the worker's answer |
| main and HTTP server (`cmd/server/main.go`, `internal/api/server.go`) | an errgroup, the listener and its connections | wiring, shutdown order, grace period, the metrics push loop | four parties wait for each other at shutdown: channels are closed when the batcher has returned, workers leave by themselves, the server waits for handlers |
| Latency tracker, collector, aggregator, exporter (`internal/metrics`) | a reservoir of samples, percentiles, ring buffers, counters | Add, materialise, BuildSnapshot, downsample, GetHistory | readers see values published one at a time; rings wrap around |
| Snapshot publisher and WebSocket (`internal/api/handlers/ws.go`) | the pointer to the published snapshot; per connection a context, a push loop and a reader | publish, push, read, close | snapshots are built from values published one at a time and marshalled while the next is built; two goroutines of a connection wait for each other |
| Admin and metrics endpoints (`internal/api/handlers`) | none of their own | swap the strategy, read history and snapshots | the swap falls between two steps of the batcher |
| Simulator (`simulation`) | a run's contexts, WaitGroup, counters and samples | generate, submit, wait, record, sum up | the end of a run: generator, handlers, gateway and grace race |
| Configuration, routing, middleware, models | plain data | load, validate, convert | nothing concurrent |
| Mock upstream, simulator command, dashboard | none of the server's | random answers, tables, presentation | outside the server |

How they interact: a handler calls `Submit` on the batcher, which calls `Submit`
on the matrix; the loop receives from the wake channel, calls `Drain` and
`DrainFrom`, and sends a batch on the channel of its priority; a worker receives
it, posts it and sends each result on the request's `ResultChan`, where the
handler waits. The handler's context reaches the worker inside the request. The
ping loop writes a flag that handlers and workers read. The cancellation of the
errgroup's context reaches the loop, the workers and the ping loop at the same
moment; main closes the batch channels when the loop has returned. The HTTP server
stops accepting, gives its handlers ten seconds, and main logs whether they made it.
The publish loop reads the tracker's percentiles and the depth and stores a pointer
that the push loop of every connection loads. The simulator runs the same batcher and
pool in one process and submits to them directly.

What makes each of them correct:

* **QueueMatrix**: a request is in one place; the counter differs from the truth
  by exactly the updates under way; a walk in priority order passes over nothing
  that was there before it; nobody sends on a closed channel; drains return.
* **AdaptiveBatcher**: nothing accepted is lost, duplicated, reordered or mixed
  with another kind, whatever wakes are coalesced; the loop never sleeps over
  work; shutdown answers what it finds and ends.
* **Worker pool, workers, breakers, handlers**: a request has one owner until it
  is answered, once; a client that waits is never forgotten; strict priority
  between formed batches; breaker and ping flag mean what they say.
* **main and HTTP server**: after a signal the process exits; it says "clean" only when
  no client was cut off, and cuts off only those nobody would have answered.
* **Snapshots and WebSocket**: a dashboard sees whole snapshots and none older than it
  has seen; it catches up while it reads; a dead connection leaves no goroutine.
* **Simulator**: a run returns whatever the gateway does; its result accounts for every
  request, and never for one twice.
* **Metrics and strategies**: what is published was observed; a window keeps its
  bounds whatever the configuration; the multiplier ends where the error pushes it;
  a history is complete and in order as far as its rings reach, and across the seam of
  the rings exactly what the short one still held at a tick is in the means.

## 2. Modules

| module | models | lines of code |
|---|---|---|
| `QueueMatrix` | every method of the matrix, one action for each access to shared memory | `qm.go` |
| `BatchingService` | the abstract promise of the batching layer: a first-in first-out line per sub-queue | `batcher.go`, the `Batcher` interface |
| `AdaptiveBatcher` | `EXTENDS QueueMatrix`: the loop, Stop and Submit on top of the matrix's steps; `Service == INSTANCE BatchingService WITH ...` is the refinement mapping | `adaptive.go` |
| `CircuitBreaker` | the breaker's methods as operators on its state | `circuit.go` |
| `WorkerPool` | `EXTENDS CircuitBreaker`: handlers, an arbitrary batcher, channels, workers, breakers, the ping loop, shutdown | `inference.go`, `pool.go`, `proxy.go`, main's coordination |
| `Gateway` | `EXTENDS WorkerPool`: the process from start to exit, the HTTP server with its grace period, the errgroup | `main.go`, `server.go` |
| `LatencyControl` | the feedback loop: reservoir, percentile and average, push loop, strategies, their replacement | `latency.go`, `strategies/*.go`, `runMetricsPush` in main, `admin.go`, `adaptive.go:331-361` |
| `TimeSeries` | one metric's two rings, the downsampler, GetHistory | `aggregator.go` |
| `Snapshots` | the percentiles' way to a dashboard: tracker, publish loop, push loop and reader of each connection, its peer | `ws.go`, `collector.go`, `latency.go` |
| `Simulation` | one Run of the simulator: generator, handlers, accumulator, the runner's wait and sum | `simulation/runner.go`, `simulation/workload.go` |
| `MCQueueMatrix`, `MCAdaptiveBatcher`, `MCWorkerPool`, `MCGateway`, `MCLatencyControl`, `MCSnapshots`, `MCSimulation` | the instances TLC checks; `TimeSeries` needs none beside its cfg | |
| `QueueMatrixProofs`, `AdaptiveBatcherProofs`, `WorkerPoolProofs`, `GatewayProofs`, `LatencyControlProofs`, `TimeSeriesProofs`, `SnapshotsProofs`, `SimulationProofs` | the theorems; each `EXTENDS` its module, `AdaptiveBatcherProofs` (with the refinement of `BatchingService`) also `QueueMatrixProofs`, `GatewayProofs` also `WorkerPoolProofs` | |

### QueueMatrix

`queues`, `depth`, `eventChan` and `closed` are the fields of the struct.
`submitter[r]` says how far the Submit of request `r` has come; `call`, `cursor`,
`limit` and `out` are the program counter and the locals of the drain a caller is
executing. A Submit is `SubmitLock` (or `SubmitClosed`), `SubmitSend` (or
`SubmitFull`), `SubmitCount`, `SubmitWake`; a Drain is `DrainBegin`, then for each
sub-queue `WalkSkip` or `WalkEnter`, `Pull`s, `PullStop` and `Settle`.

* Sub-queues are named by their position in the walk of Drain: priority, request
  type and token bucket are constants of a request. The code's `priorityIndex`,
  `typeIndex` and `bucketIndex` are `SubQueueOf`.
* `RLock` and the closed check are one step, and `RUnlock` belongs to the step that
  decides the result: between them only holders of the same read lock can act.
* `Close` is one step, at the moment its last channel is closed. Submits are locked
  out meanwhile. A drain takes no lock and may meet channels of which only some are
  closed: at an open one it behaves as before Close, and at a closed and empty one
  it either moves on as it does before Close or spins, which changes nothing.
* `ok = false` in `drainSubqueue` leaves only the select (`qm.go:231`), so
  `PullOver` is false on a closed and empty sub-queue with room left in the batch:
  the goroutine spins. `drainChannel` returns instead, so `SweepNext` has no such
  guard.
* `HasHigherPriorityThan` reads the channels one after the other in the code and
  at once in the model. A request that arrives during the scan brings a wake, which
  the property about it allows for.
* Early returns for a nil request, a nil channel or `max <= 0` have no action: no
  caller in the server passes those.
* `seen` and `swept` are history variables; no guard reads them.

### AdaptiveBatcher

`pc["loop"]` is the control state of the goroutine that runs Start,
`pc["stopper"]` that of Stop. A call of a drain is three kinds of steps: the action
that calls it (`CallDrain`), the matrix's own steps (`InDrain`) and the action that
uses its result (`Drained`). So Submits interleave with every receive of a drain.

* Timers are not timed: `WindowOver` may happen whenever the loop waits in the
  window. This covers every `CalculateTimeout` and the floor `minFormBatchWait`;
  `UpdateStrategyMetrics` changes nothing else.
* `ShouldFlush` is the rule that fixed and queue_depth share and latency_aware
  delegates: a full batch, or a depth of at least `MaxBatchSize`. It reads the
  counter, with all its inaccuracy.
* `using` is the strategy loaded at the top of formBatch: SetStrategy takes effect
  at the next formBatch.
* The select in dispatch chooses at random among its ready cases, so
  `DispatchSend` and `DispatchFail` are both enabled when both are ready.
* The counters of `Metrics` and the dispatch hook depend on nothing else and decide
  nothing; they are left out. `WorkerReceive` is the whole worker pool.
* Drain has strict priorities: a request starves behind unending traffic in the
  sub-queues before its own. An instance has each request submitted once; `QuietAhead` says
  of which behaviours of the server `QueuedIsDispatched` speaks.
* A request that is cancelled while it waits in the matrix is not treated in any
  special way by the batcher; `SubmitReject` covers a context that is done before.

### WorkerPool

Requests are slots: `Arrive` uses a slot again once its handler has returned and
nobody in the pool holds the old request object, so an instance with one slot has
unboundedly many requests. `HandleCompletions` and `HandleEmbeddings` differ only
in their data and are one handler. The batcher is arbitrary: it forms any batch of
at most `MaxBatchSize` queued requests of one priority, and at shutdown answers
some requests and leaves the rest, as `AdaptiveBatcher` may.

* `level[w]` is the nesting depth of Run's select. `SelectReceive` takes from any
  ready channel of that select, `SelectDefault` goes one deeper.
* `AllWorkersUnhealthy` reads the flag, then one breaker after another (`ScanOpen`,
  `ScanUsable`) in the random order of a Go map.
* `filterCancelled` and the fan-outs are loops over a batch; each is one step. A
  context that ends in the middle of the loop is a context that ends before or
  after it, for the requests are independent of each other.
* A post ends by `PostOk` (a head with a status below 500) or `PostFail`
  (refused, a 5xx, the timeout, the watcher, the shutdown). `FanOutResults(w, n)`
  has results for the first `n` requests: fewer than posted when the body is cut
  off, shorter, or no JSON array.
* An error of `json.Encode` or `NewRequestWithContext` is not modelled: the first
  cannot happen for these types, the second has the effect of `PostFail`.
* `RequestResult.Error` is tagged `json:"-"`, so an upstream cannot report an error
  for one request: it comes out as `answer` or `blank`.
* The breaker's `failureCount` and the ping loop's `consecutiveFailures` are only
  compared with the threshold and saturate there. `elapsed` in the breaker says
  that `recoveryTimeout` has passed since the last failure.
* Nothing bounds a ping (`pool.go:204`, `220-231`: neither its context nor its client has
  a deadline; a post has `RequestTimeout`). One that a hanging upstream has accepted
  (`PingSwallowed`) is no longer a matter of what the upstream does with new connections: it
  may be answered late or lose its connection, or neither, whatever the upstream is by
  then, and only the end of the context is sure to end it.
* The two counters and the status of `GetStatus` are functions of the control state.
  `CircuitBreaker.Reset` is called by tests only.
* `offered` is a history variable.

### Gateway

`server` and `main` are added to the variables of the pool; `shutdown` is the
errgroup's context. Every action of the pool happens under `InPool`, as long as the
process is there, so the exit may fall between any two steps of a handler.

* A request may arrive until the server has drained: Shutdown closes the listener and
  the idle connections at once, but a connection that is new then, or that outlives
  the grace, may still bring one.
* `Drained` is the poll of Shutdown that finds every connection idle; `GraceOver` the
  end of `shutdownGrace`, whatever handlers are left.
* `ListenFails` is an error of ListenAndServe: it ends the server without a grace and
  cancels the context of everybody else.
* `MainExits` waits for the batcher (its channels are closed when it has returned), the
  workers, the ping loop and the server. `runMetricsPush` returns when the context is
  done and nobody depends on it; its return is part of `MainExits`.

### LatencyControl

Four goroutines share atomics: `Record` is an HTTP handler, `MaterializeCopy`,
`MaterializeStore` and `MaterializeSmooth` are a tick of the tracker's loop,
`PushRead` and `PushStore` one of `runMetricsPush`, `LoadStrategy` and `OpenWindow`
(or `SkipWindow`) the batcher's loop, `SetStrategy` the admin endpoint.

* Latencies are whole numbers of some unit, multipliers thousandths, timeouts
  microseconds. `Blends` allows every value that some `alpha` in (0, 1] gives, so the
  smoothing factor is no constant.
* `IsPercentile` says which element of the reservoir `pctile` picks, without sorting.
* `held` and `replaced` are the strategy that formBatch has loaded when it is
  replaced meanwhile: the old object takes the step, the new one does not.
* `metrics = 0` stands for the nil pointer and for a latency of 0, which the
  controller treats alike.
* `MetricsMiddleware` records every route and truncates to whole milliseconds; that
  is a choice of `Latencies`, with 0 among them.

### TimeSeries

The unit of time is the interval of the pushes. `Add` may be left out in any unit (a
dropped tick), at most `MaxDropped` times before the clock stops, which is a bound;
`Downsample` may be late by `MaxDelay`. A mean is the set of the
additions it is the mean of, so that a history can be compared with what was added.
`ReadRingBackward` and `GetHistory` are pure functions with the code's index
arithmetic. What they return is a function from places to points, in the order of the
places: where the code's loop skips an entry, its place is missing, and the places of the
means come behind those of the short ring. The code's slice closes up these gaps. A reader or writer reads the clock before it takes the series' mutex; it
is assumed to get the mutex in the same unit.

### Snapshots

A percentile is the number of the materialisation it comes from, a timestamp the number
of the snapshot. `cells` are the variables that pointers refer to: `Publish` fills a
new one, since the code's `snap` is declared inside the loop, and `current` is the
pointer. `BuildSnapshot` is three steps (`BuildBegin`, `LoadP50`, `LoadP99`) between the
stores of the tracker (`StoreP50`, `StoreP99`); marshalling is two (`Marshal`,
`MarshalP99`). P50 and P99 stand for all that is read one after the other.

* A connection is a push loop (`handler`), a read goroutine (`reader`), a context and a
  socket with room for `SocketBuffer` messages. Its peer reads, has stopped reading
  or vanished without a word ("stalled"), or is gone.
* `WriteFails` is a reset connection, or the five seconds of the write deadline, which
  pass only for a peer that has not read meanwhile.
* The context of a hijacked request is not cancelled by the server, and Shutdown leaves
  hijacked connections alone; so neither has an action here.
* `Connect` is an upgrade that succeeds. Section 4 says why it does not in the wired
  server; the module shows what the handler does where it is mounted without the
  middleware.
* A client's `seen` lasts from one connection to the next.

### Simulation

One action for each step of the generator (`Make`, `Emit`, `Return`), of
`handleRequest` and of `Run`. The Poisson, bursty and steady generators differ in when
they tick, which is any moment here. The gateway is abstract: it accepts until it has
stopped, answers a held request once or never, with a result or an error, and returns
some time after its context is cancelled, which is what `Gateway`'s `MainReturns`, `BatchingService` and
`WorkerPool` promise together.

* `genDone` is the context of the generator and, as the parent, of every request;
  `runDone` that of the run and of the gateway. `expired` are requests whose
  own `RequestDeadline` has passed.
* `emitting` meets the runner's range loop: the channel has no buffer. The
  counter, the WaitGroup and the start of the goroutine are one step, for the loop does
  them in a row and nobody else looks before the channel is closed.
* The deferred `mock.Close()` (`runner.go:98`) is left out: the mock upstream is not in
  the model, and whoever posts to it has returned or given up by then.
* Samples and counters are sets of requests; `build` reads their sizes one after the
  other.

## 3. Runs

Twelve runs; `tlc -workers 2 -config X.cfg M` repeats one. Deadlock is checked in
all of them: `QueueMatrix` always has `Signal`, `LatencyControl` always records, a client
of `Snapshots` may always connect or leave,
`Terminated` in the batcher, the pool and the simulator and `Exited` in the gateway are
enabled only when the goroutines they model have returned, and `Ended` in `TimeSeries`
only at the end of its clock.

| run | instance | states | what it shows |
|---|---|---|---|
| `matrix` | 2 requests for one slot, 2 callers, Close | 1.5 M | `TypeOK`, `CloseExcludesSubmit`, `DepthAccounting`, `InOnePlace` |
| `batcher_service` | 3 requests in 2 sub-queues, as the server runs it | 97 k | `BatcherTypeOK`, `NoLostWakeup`, `NoMissedArrival`, `NothingLeftBehind`, `ImplementsService`, `QueuedIsDispatched` |
| `batcher_stop` | 2 requests one after the other, Stop, SetStrategy, no strategy | 132 k | `NeverDrainsClosed`, `ImplementsService`, `DrainAnswersAllItSaw`, `ShutdownCompletes`, `StopCompletes` |
| `batcher_stranded` | 2 requests | | violates `NoneLeftInMatrix` |
| `pool_answers` | 2 slots of one priority, batches of 2, 2 workers, threshold 2, no shutdown | 455 k | `NobodyForgotten`, `OneOwner`, `BreakerConsistent` |
| `pool_priority` | 3 slots of 3 priorities, 2 workers | 31 k | `StrictPriority`, `CriticalIsServed` |
| `pool_probe` | 1 slot, upstream up for good from some time on | | violates `ProbesAgain` |
| `gateway` | 1 slot, 1 worker, threshold 1, from start to exit | 128 k | `CleanExitLeavesNobody`, `CutOffWereAbandoned`, `WorkerComesBack`, `FlagFollowsUpstream`, `MainReturns` |
| `control` | 3 latencies about the target, a reservoir of 2 | 228 k | `PublishedWasObserved`, `WindowBounded`, `ControllerSettles` |
| `history` | rings of 3 and 2, a minute of 6, 20 units of time | 1.8 M | `TypeOK`, `HistoryComplete`, `HourCovered` |
| `snapshots` | 1 dashboard, again and again, 2 materialisations, 2 snapshots | 74 k | `AtMostOneOlder`, `MessagesAreSnapshots`, `NeverGoesBack`, `ConnectionsEnd`, `DashboardsCatchUp` |
| `simulation` | 3 requests, one with a deadline that can pass | 340 k | `ResultAddsUp`, `NeverOvercounts`, `HandlersCanLeave`, `RunReturns` |

Why these bounds are enough to be interesting:

* In `matrix` two Submits want the one slot of a sub-queue, so one may find it full,
  and two callers drain it, against each other and against Close. The server drains
  in one goroutine: the matrix is checked for more than its caller asks.
* Two sub-queues, in the batcher's runs, are one of a higher and one of a lower
  priority: a pinned one and one that pre-empts it. The walk visits one after the
  other, so every relation of an arrival to the cursor occurs.
* `MaxBatchSize = 2` has batches that are full at once, that fill up in a window and
  that are flushed with one request. Three requests are a full batch of the low
  sub-queue and one that pre-empts it; the matrix has 48 sub-queues, of which a drain
  touches one.
* In `batcher_stop` two Submits do not overlap (`OneInside` of `MCAdaptiveBatcher`), as
  they do in `batcher_service`: what it adds is the order of one Submit, Stop, Start, the
  cancellation, a new strategy and the two drains. `DrainAnswers`, `ClosedIsNeverDrained`
  and `BatcherImplementsService` have any number of Submits at once.
* `ChanCapacity = 1` lets dispatch block after one batch.
* One slot of the pool is used again and again. Two slots share a batch of two or
  are in two batches; two workers compete for the same channel. In `pool_answers`
  the ping loop is idle, so that the flag stays clear, the upstream does not hang and
  nobody shuts the server down; all three are in `gateway`, where hanging is one more way
  for a post to fail. `NobodyIsForgotten`, `RequestsHaveOneOwner` and
  `BreakersAreConsistent` have all of them together.
* `pool_answers` has threshold 2, so that a breaker is different at the first and the
  second failure. `gateway` has threshold 1, where it opens at the first, and one client
  who may be anywhere when the process ends. `GatewayProofs` has any threshold and any
  number of clients and workers.
* In `control` latencies are too small to measure, below the target and above it; a
  reservoir of two is filling, full, and overwritten in part. The depth is negative,
  between the thresholds and at the upper one. With a gain of one the controller
  crosses its interval in a few steps. The thresholds and waits have one order here,
  the sensible one; `WindowsAreBounded` has every order and every gain.
* In `history` a minute has twice as many points as the short ring and the short window is
  longer than the ring, as at the shipped 100 ms (600 points, 300 places, 3000 units). Both
  rings wrap around, and means leave the short window and are overwritten in the long
  ring. Of the points of a minute, the early ones are overwritten before its tick and the late
  ones are in its mean; up to five dropped pushes (`MaxDropped`) make an early one late
  enough. So both halves of `HourCovered` have their cases. A minute that fits into the ring
  is a special case of the theorem, which has rings, windows and minutes of any length.
* In `snapshots` one dashboard is every dashboard, for connections share nothing but
  the pointer; the socket holds one message, so that it is empty or full. Two
  snapshots are one that is shown or marshalled while the other is built and published.
  `SnapshotsProofs` has any number of each.
* In `simulation` three requests are one that is answered, one that is given up and one
  that is still under way when the run ends; one may also meet its own deadline.
* Every bound is a constant of a `.cfg` file or a name of an `MC` module; no state
  constraint cuts off behaviours.

Symmetry is used in `pool_answers` (workers, and requests of one priority), which has no
liveness property.

### Fairness

`Fairness` of the batcher and of the pool assume weak
fairness of each goroutine's next step: the Go scheduler runs a goroutine that can
go on. Where goroutines are alike and each takes every step of its own only once, as the
Submits of the batcher do, one condition stands for all of them: none can keep the
others waiting for ever. So it does for the workers' receives, for each takes a batch
away, and for the loop and its start. For `PullOver` on a closed queue this is no help, for the loop does not
change anything. Nobody has to submit, cancel, leave, swap the strategy, call Stop
or begin a shutdown; the upstream has no fairness at all, except where
`PatientSpec` says that it is up from some time on. Weak fairness of `Run(w)`
includes the end of a hanging post, by `RequestTimeout`; that of `Recover(w)` is
the passage of `recoveryTimeout`. `PingReturn` is strongly fair: the ping loop's
select chooses at random when its ticker and the end of its context are both
ready, so it does not choose the ticker for ever. `PingDue` leaves out the end of a
swallowed ping before the shutdown: nothing has to bring it about. `GFairSpec` has the same for the
whole process; there `GraceOver` is the passage of `shutdownGrace`, and no client has to
be served or to leave. `CompetingSpec` of `pool_priority`
has only `ServingFairness`, without the ping loop, which does not run there.
`BusySpec` of `LatencyControl` has the tickers tick, and windows open for ever, which
is no matter of scheduling: it says that requests keep coming, and without them the
multiplier rightly stays where it is.

`FairSpec` of `Snapshots` has the publish loop's ticker and steps, the steps of every
push loop and reader, the deadline of a blocked write, and a peer that "is reading" read.
Nobody has to connect, to recover or to leave, and latencies need not come in.
`FairSpec` of `Simulation` has the end of the scenario, the goroutines' steps and the
return of the gateway after its context is done. It does not assume that the gateway
answers, that a tick or a deadline comes, or that the two seconds of the grace pass.

## 4. What the violations show

* `batcher_stranded`: `drain()` empties the matrix and then closes it. A Submit in
  between is accepted and never answered; its handler waits for its own timeout.
* `pool_probe`: only `CanExecute` moves a breaker from Open to HalfOpen, and only a
  batch makes a worker call it. With every breaker Open the handlers admit nothing,
  so there is no batch: the gateway answers 503 until it is restarted.

Read from the code, without a run of their own:

* The watcher of `proxy.go:257` cancels a post whose clients have all left. `Do` returns
  an error, and `proxy.go:155` records it as a failure of the upstream: clients that
  leave open the breakers of a healthy upstream, although `circuit.go:64-66` has
  RecordFailure called only for transport errors and 5xx responses. `BreakerConsistent`
  and the pool's other properties hold nevertheless.
* `RecordSuccess` (`proxy.go:163`) is called for the response's head, before the body is
  read, although `circuit.go:52-54` asks for a complete response; a body that is cut off
  or too short reaches the clients as a success with neither
  a result nor an error ("blank" in `WorkerPool`).
* A ping that a hanging upstream has swallowed stops the ping loop: the comment at
  `pool.go:218-219` speaks of "the context deadline", but the context is that of the errgroup
  and has none. The flag then stays as it is until the shutdown, set although the
  upstream is back (and with it set, workers post nothing), or clear although it is down.
  `FlagFollowsUpstream` names this as the one exception (`frozen`).
* A request starves behind unending traffic of sub-queues before its own
  (`qm.go:106`, `adaptive.go:279`): priorities are strict, and no age raises one.
  `QueuedIsDispatched` says that it is dispatched once that traffic dies down.
* Workers that leave by the end of their context leave batches behind in the channels,
  and the batcher answers only what it holds. The handlers of those requests wait for
  their own timeout, `write_timeout` less a second and so up to 29 s, which is longer than the
  grace of 10 s: Shutdown returns an error and main logs "shutdown with error", although
  `batcher.go:24` and `docs/spec/05-api.md:424-425` promise every queued request an answer.
  `CutOffWereAbandoned` says that these are the only ones cut off.
* No upgrade to a WebSocket succeeds in the wired server: the `statusRecorder` of
  `tracking.go:48` has neither `Hijack` nor `Unwrap`, so the upgrader finds no
  `http.Hijacker` behind the middleware and answers 500. `docs/spec/05-api.md:303` and
  `:440-441` say that the route is live.
* The throughput of a simulation (`runner.go:238-248`) is submitted less errors: requests
  that had not finished when the grace passed count as successes.
* The comment at `runner.go:305-308` says that stopping the batcher frees the handlers;
  the batcher is stopped after the wait. What frees them is the end of the generator's
  context (`HandlersCanLeave`). The list of errors at `workload.go:54-58` lacks
  `ErrQueueFull`.
* `runner.go:106` starts the tracker with the context of the caller, not of the run: each
  Run leaves a materialise loop behind until the command ends. On a signal
  the command returns without printing the results of the scenarios that are finished
  (`cmd/simulator/main.go:73-75`).
* `MetricsMiddleware` (`tracking.go:93-103`) records the latency of every route, health
  and metrics requests included, in the tracker that steers the batching window.
* The `break` at `qm.go:231` leaves the select, not the loop. A Drain that has
  emptied a closed sub-queue with room left in its batch spins for ever, although
  `qm.go:206-209` calls queued requests drainable after Close. The batcher does not
  run into it: `NeverDrainsClosed` in `batcher_stop` checks that.
* The short ring has 300 points whatever the interval. At the shipped
  `collection_interval` of 100 ms it holds 30 seconds, not the 5 minutes of
  `aggregator.go:15-18`: a query for less gets the last 30 seconds, and a minute's mean is one
  of its last 30 seconds. `HistoryComplete` (`duration < ShortLen`) and `HourCovered` say
  this exactly: which points are returned and which are in no mean. At intervals above
  a second it reaches further back than the short window, and for longer durations
  GetHistory puts means behind points older than they are: the answer repeats what
  it has and is not "newest first" (`aggregator.go:60`).
* `RecordRequest` is called by the simulator only (`runner.go:171`), so `throughput_rps`
  of the server is always 0.
* A latency below a millisecond is recorded as 0, and a 99th percentile of 0 is taken
  for "nothing measured" (`latency_aware.go:43`): the multiplier then stays.

## 5. Proofs

`QueueMatrixProofs` proves, for all finite sets of requests and callers, any number
of sub-queues, any capacity and any batch size (`QueueMatrixAssumption`):

| theorem | statement |
|---|---|
| `TypeCorrect` | `QMSpec => []TypeOK` |
| `CloseIsExclusive` | `QMSpec => []CloseExcludesSubmit` |
| `PlacesAreExclusive` | `QMSpec => []InOnePlace` |
| `WalkLeavesNothing` | `QMSpec => []NothingLeftBehind` |
| `DepthIsAccounted` | `QMSpec => []DepthAccounting` |

The argument has four layers, each an inductive invariant that contains the one
before.

1. `TypeInv` is `TypeOK` and the fact that the cursor of a caller inside
   `drainSubqueue` is a sub-queue (it may be one past the last otherwise).
   `CloseExcludesSubmit` is inductive beside it: `SubmitLock` needs an open matrix,
   `Close` needs a matrix that nobody holds.
2. `PlaceInv` adds `InOnePlace` and `LocalsOK`. A request moves in two ways only.
   `SubmitSend` appends one that is in no place yet, since its Submit was at
   "locked" and `InOnePlace` says that what is in a place has been sent.
   `Receive` takes the head of a sub-queue that a set of drains, one of them the
   mover, holds nothing of. The lemmas about `Append`, `Head`, `Tail`, `ToSet` and
   `IsInjective` that these need are stated once. `LocalsOK` says which locals of a
   drain are empty in which phase, and that what a walk has seen had been sent.
3. `NothingLeftBehind` is inductive relative to `PlaceInv`: no step puts a request
   that a walk has seen into a sub-queue (`NothingSeenArrives`: only an unsent one
   can arrive), and a cursor that moves on with something seen leaves an empty
   sub-queue behind (`CursorPassesEmpty`: in `PullNothing` the batch is empty and the
   limit is not 0, so the loop ended because the channel was empty).
4. `DepthAccounting` is inductive relative to `PlaceInv` as well, which says that the
   sets it counts are disjoint where a request moves: an `Add(1)` takes one request
   out of `Uncounted`, `Receive` takes one from `Queued` to `Unsettled`, and an
   `Add(-n)` takes the `n` different requests of one drain out of `Unsettled`. The
   counting is done with `FiniteSetTheorems`.

`AdaptiveBatcherProofs` proves, for the same constants and any `ChanCapacity`
(`AdaptiveBatcherAssumption`; the callers of the matrix are the loop and Stop):

| theorem | statement |
|---|---|
| `BatcherDrivesMatrix` | `Spec => QMSpec`: the batcher uses the matrix as its specification says |
| `BatcherTypeCorrect` | `Spec => []BatcherTypeOK` |
| `BatcherLeavesNothing` | `Spec => []NothingLeftBehind` |
| `NoWakeIsLost` | `Spec => []NoLostWakeup` |
| `NoArrivalIsMissed` | `Spec => []NoMissedArrival` |
| `ClosedIsNeverDrained` | `Spec => []NeverDrainsClosed` |
| `DrainAnswers` | `Spec => DrainAnswersAllItSaw` |

None of these is inductive; `BatcherInv` is. Beside the invariants of the matrix
it has a part for each thing the goroutines rely on without looking:

* `CallOK`: a goroutine is inside a drain exactly where its control state says so.
* `BatchOK`: there is room in the batch for all that the drain under way may return,
  which is why no batch exceeds `MaxBatchSize`.
* `ExitOK`: whoever sweeps or closes does so when the loop is out of formBatch for good.
  `NeverDrainsClosed` follows.
* `WakeOK`: what the loop has seen empty is empty still, or a token is in the channel or
  about to be sent. `NoLostWakeup` and `NoMissedArrival` speak of the two states in which the
  loop blocks; `WakeOK` says the same of those in which it has looked and not yet
  blocked (after `RearmSignal`, while dispatch waits, after the top-up), where
  a coalesced wake would do the harm. The depth the loop looks at is not the number of queued
  requests: `DepthAccounting` says which Submits and drains make the difference.
* `SeenOK` and `SweepOK`: what a drain() saw queued is queued, in a result or
  answered, and a sweep that returns has been everywhere.

Its last part proves `BatcherImplementsService`: `Spec => ImplementsService`.
Initial states map to initial states, and every step of the batcher maps to a step of the
service or to a stutter:

| step of the batcher | step of the service |
|---|---|
| `SubmitSend` | `Accept` |
| `DispatchSend` | `Form` with the whole batch |
| `DispatchFail` | `Refuse` with the whole batch |
| a receive of DrainAll | `Refuse` with one request |
| `WorkerReceive` | `Deliver` |
| everything else | none |

A line of the service is what the loop holds of that sub-queue followed by what is queued
in it, so a receive of Drain or DrainFrom is a stutter: the head of a queue
moves to the end of the hand (`HeadMoves`). That needs `BatcherInv` and `HandOK`,
that what a Drain has received comes from the sub-queue under its cursor.

`LatencyControlProofs` proves, for any latencies, reservoir, gain, target, thresholds
and waits in any order (`LatencyControlAssumption`):

| theorem | statement |
|---|---|
| `TypeCorrect` | `Spec => []TypeOK` |
| `OnlyObservedIsPublished` | `Spec => []PublishedWasObserved` |
| `WindowsAreBounded` | `Spec => []WindowBounded` |

`TypeOK` is inductive and says that the multiplier is between a half and two, which
`ClampBounds` gives at the one place where it moves. `PublishedWasObserved` is not
inductive: it needs that the reservoir holds observed values only
(`SamplesObserved`). With it, recording widens the interval of what was observed
(`RecordWidens`), a percentile is a sample, and a blend of two observed values was
observed (`BlendObserved`). `WindowBounded` follows from `TypeOK` by arithmetic: the
timeout of queue_depth is a weighted mean of the two waits, rounded down
(`WeightedMean`, `DivBetween`), or 0, and the floor takes care of what is not positive.

`WorkerPoolProofs` proves, for any requests and workers, any assignment of priorities,
batch size and threshold (the assumptions of `WorkerPool`):

| theorem | statement |
|---|---|
| `TypeCorrect` | `Spec => []TypeOK` |
| `BreakersAreConsistent` | `Spec => []BreakerConsistent` |
| `NobodyIsForgotten` | `Spec => []NobodyForgotten` |
| `RequestsHaveOneOwner` | `Spec => []OneOwner` |
| `PriorityIsStrict` | `Spec => StrictPriority` |

`TypeInv` is `TypeOK` with the fact that every batch in a channel has a request in it.
`BreakerConsistent` and `NobodyForgotten` are inductive relative to it; the second is
proved along the parties that may lose a request: handlers, batcher, workers and their
surroundings (`HandlerRemembers`, `BatcherRemembers`, `WorkerRemembers`,
`SurroundingsRemember`). `OneOwner` is not inductive. A batch may be formed from a
request that was submitted a moment ago, and nothing in `OneOwner` says that this
request is not in a channel already. `Fresh` does: nobody owns, or has answered, a request whose
handler has yet to submit it. `OwnerInv` is both. Its lemmas follow a batch from the queue into a
channel, into the hands of a worker, through the filter and out.

`StrictPriority` speaks of one step, the receive, but depends on the three selects before
it. `SortedInv` carries that knowledge: every channel holds batches of its own priority
only; a select begins at its first level; and every batch that was waiting when a worker's
select began, and that nobody has taken since, is in a channel that this worker has not
looked at yet. `SelectDefault` keeps the last part because it goes deeper only when
all channels of its level are empty, a receive of another worker because `offered`
loses the batch it takes.
`OnlySelectsReceive` shows that no other step of the pool brings a worker from its select
to a batch.

`GatewayProofs` proves, for the same constants:

| theorem | statement |
|---|---|
| `GatewayDrivesPool` | `GSpec => Spec`: the process refines the pool |
| `GatewayKeepsPoolPromises` | `GSpec => []NobodyForgotten /\ []OneOwner /\ []BreakerConsistent /\ StrictPriority` |
| `CleanExits` | `GSpec => []CleanExitLeavesNobody` |
| `ExitsCutOffOnlyAbandoned` | `GSpec => []CutOffWereAbandoned` |

Every step of the process is one of the pool or leaves its variables alone, so what
`WorkerPoolProofs` proves holds of the process too. `ExitInv` says what main has seen before it exits: all
workers gone, and, if it says "clean", a server that drained and no handler since. With
`NobodyForgotten` of the pool, whoever still waits is in the queue or in a channel.

`SimulationProofs` proves, for any finite set of requests and any of them with a deadline:

| theorem | statement |
|---|---|
| `ResultsAddUp` | `Spec => []ResultAddsUp` |
| `ResultsNeverOvercount` | `Spec => []NeverOvercounts` |
| `HandlersNeedNoGateway` | `Spec => []HandlersCanLeave` |

`Accounts` relates the WaitGroup and the accumulator to the handlers: whoever has recorded
is on exactly one side, whoever has started and not finished is counted. `Reading`
says what of it the runner has read: what `build` has read is at most what there is now,
and equal to it once nobody records any more. The cardinality lemmas
(`FiniteSetTheorems`) turn the disjoint union of the two sides into a sum.

`SnapshotsProofs` proves, for any number of dashboards, any socket buffer and any bound:

| theorem | statement |
|---|---|
| `TypeCorrect` | `Spec => []TypeOK` |
| `SnapshotsAreRecent` | `Spec => []AtMostOneOlder` |
| `SnapshotsAreImmutable` | `Spec => []MessagesAreSnapshots` |
| `DashboardsNeverGoBack` | `Spec => NeverGoesBack` |

The inductive invariant has a part per party. `TrackerInv`: the two percentiles differ by
at most one materialisation. `PublisherInv`: the snapshot under construction is newer
than the published one, and its P50 not newer than the tracker's. `CellsInv`: a
published cell holds a built snapshot with its own number. `HandlerInv`: what a push loop
has marshalled so far is what its pointer refers to, and the pointer is not behind what it has
written. `SocketInv`: a socket holds built snapshots in order, none older than what
the dashboard shows.

`TimeSeriesProofs` proves, for rings, windows and minutes of any length and any lateness
of the downsampler below a minute (`TimeSeriesAssumption`):

| theorem | statement |
|---|---|
| `TypeCorrect` | `Spec => []TypeOK` |
| `HistoryIsComplete` | `Spec => []HistoryComplete` |
| `HourIsCovered` | `Spec => []HourCovered` |

The rings are indexed modulo their length, so the proofs speak of `Shorts` and `Longs`,
the rings as `Backward` reads them: a write puts its entry in the first place and moves
every other entry up by one (`RingMoves`). The inductive invariant is `HistoryInv`:

* `ShortInv`: the short ring holds points added, newest first, at least as many units
  apart as places, and every addition is in it unless it is full of newer ones. A query
  for less than `ShortLen` units then stops before it gets to what has been overwritten.
* `ClockInv`: the ticker keeps up with the clock but for `MaxDelay`.
* `LongInv`: the means are in order and older than the next tick.
* `CountInv`: place `k` of the short ring is followed by exactly `k - 1` additions. So the
  ring still holds a point just when fewer than `ShortLen` followed it (`StillHeld`).
* `CoverageInv`: a point added between two ticks and still held at the later one is in its
  mean, and that mean moves up one place with each tick until it falls off the long ring.
* `LostInv`: what is in a mean had fewer than `ShortLen` followers when its tick was due.

`HourIsCovered` has no condition on the lengths: of a minute of 60 points in a ring of 300,
the documented second, it says that all are in the means, and of one of 600 points, the
shipped 100 ms, which are not (section 4).

Only model-checked: every liveness property, for the prover has neither fairness nor
ENABLED. They are `QueuedIsDispatched`, `ShutdownCompletes`, `StopCompletes`,
`CriticalIsServed`, `WorkerComesBack`, `FlagFollowsUpstream`, `MainReturns`,
`ControllerSettles`, `RunReturns`, `ConnectionsEnd` and `DashboardsCatchUp`. Every safety
invariant and every action property that a run checks is a theorem.

## 6. Not modelled

* The Prometheus gauges of the collector and its request counter: nobody reads the
  first in the process, nobody adds to the second in the server. The counter is
  reset by every `BuildSnapshot`, so its consumers would share an interval if anybody did.
* Configuration, routes, logging, validation, JSON: sequential conversions. Their
  bounds are the assumptions on the constants.
* `CircuitBreaker.Reset` and `LatencyTracker.Reset`: tests only.
* The mock upstream and the simulator's command: random delays and failures, which the
  arbitrary upstream covers, and a loop over scenarios that prints tables. The dashboard:
  presentation in a browser.
* The random order in which the generators draw priorities and sizes: data.
* Real time: timers may fire whenever the code waits for them, which covers every
  duration; what depends on the length of one (30 seconds against 60) is in section 4.

## 7. Plan

Done, in this order: the matrix with its proofs; the batcher, the service it
implements, and the proof that it does; the pool with handlers, workers and breakers,
and its proofs; the process from start to exit, which is shown to drive the pool; the
feedback loop with its proofs; the snapshots on their way to a dashboard and the
simulator, both with their proofs; strict priority and the time series, the last safety
properties that were only model-checked. What is left, the most important first:

1. `AdaptiveBatcher` in place of the arbitrary batcher of `Gateway`: the pool's
   batcher forms any batch, so what holds of it holds of the composition. The step from
   the batcher's own steps to `FormAny` and `BatcherStop`, as a refinement, would make
   that an argument the prover checks.
2. The safety part of the liveness properties: that no reachable state of the pool or the
   batcher has a goroutine blocked for ever, which is an invariant without ENABLED once
   the guards are spelled out.
