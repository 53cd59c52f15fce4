----------------------------- MODULE WorkerPool -----------------------------
(***************************************************************************)
(* The worker pool of internal/worker between the HTTP handlers, the       *)
(* batcher and the upstream server.                                        *)
(*                                                                         *)
(* A request object is created by a handler (internal/api/handlers),       *)
(* queued by the batcher, carried in a batch through one of four priority  *)
(* channels to a worker, posted upstream and answered on its ResultChan.   *)
(* Requests are slots: a slot is used again once neither its handler nor   *)
(* the pool holds the old request object any more.                         *)
(*                                                                         *)
(* The batcher is any one that batches queued requests of one priority and *)
(* answers or abandons the rest when it stops: AdaptiveBatcher is one.     *)
(***************************************************************************)
EXTENDS CircuitBreaker, FiniteSets, SequencesExt

CONSTANTS
  Requests,        \* slots for request objects
  Workers,         \* workers.count of them, named by their circuit
  PriorityOf,      \* request -> its priority
  MaxBatchSize

Priorities == 0..3

ASSUME WorkerPoolAssumption ==
  /\ IsFiniteSet(Requests)
  /\ IsFiniteSet(Workers) /\ Workers # {}
  /\ PriorityOf \in [Requests -> Priorities]
  /\ MaxBatchSize \in Nat \ {0}

\* buffer of each batch channel
ChanCapacity == Cardinality(Workers)

VARIABLES
  handler,            \* request -> where its HTTP handler is
  opened,             \* request -> breakers AllWorkersUnhealthy found Open
  ctxDone,            \* request -> its context is done
  results,            \* request -> what its ResultChan (capacity 1) holds
  queued,             \* accepted requests that are in no batch yet
  batcher,            \* the batcher's life: running, then stopped
  batchChans,         \* priority -> batches waiting for a worker
  chansClosed,        \* priorities whose channel main has closed
  pc,                 \* worker -> control state of Run and process
  level,              \* worker -> nesting depth of the select it is at
  work,               \* worker -> the batch it processes, scrubbed or not
  offered,            \* history: worker -> batches that were waiting when its
                      \* select began, and still are
  circuit,            \* worker -> its breaker
  upstream,           \* how the inference server behaves
  upstreamUnhealthy,  \* the flag of the ping loop
  ping,               \* the ping loop: between ticks, in a ping that has yet to
                      \* reach the upstream, in one that a hanging upstream has
                      \* swallowed, returned
  pingFailures,       \* consecutiveFailures, which saturates at the threshold
  shutdown            \* the context of main's errgroup is cancelled

handlerVars == <<handler, opened, ctxDone>>
batcherVars == <<queued, batcher, chansClosed>>
workerVars == <<batchChans, pc, level, work, offered, circuit>>
pingVars == <<upstreamUnhealthy, ping, pingFailures>>
envVars == <<upstream, shutdown>>
vars == <<handlerVars, results, batcherVars, workerVars, pingVars, envVars>>

HandlerStates ==
  {"idle",      \* no request, or replied
   "check",     \* AllWorkersUnhealthy: the shared flag
   "scan",      \* AllWorkersUnhealthy: one breaker after another
   "submit",    \* about to call Submit
   "waiting"}   \* in the select on ResultChan and ctx.Done()

Results ==
  {"empty",
   "answer",               \* the upstream's result for this request
   "blank",                \* neither a result nor an error
   "ErrWorkerUnavailable", "cancelled", "ErrShuttingDown"}

WorkerStates ==
  {"select",    \* Run's nested select
   "received",  \* process: upstreamUnhealthy.Load()
   "permit",    \* process: CanExecute
   "filter",    \* process: filterCancelled
   "post",      \* process: in httpClient.Do
   "fanOut",    \* success recorded: decode and fanOutResults
   "fanError",  \* failure recorded: fanOutError
   "exited"}    \* Run has returned

Busy(w) == pc[w] \notin {"select", "exited"}

\* the formed batches that no worker has taken, and the requests in them
Waiting == UNION {ToSet(batchChans[p]) : p \in Priorities}
InChannels == UNION {ToSet(b) : b \in Waiting}
InHands == UNION {ToSet(work[w]) : w \in Workers}

\* somebody holds the request and has yet to answer it
Owned == queued \cup InChannels \cup InHands

TypeOK ==
  /\ handler \in [Requests -> HandlerStates]
  /\ opened \in [Requests -> SUBSET Workers]
  /\ ctxDone \in [Requests -> BOOLEAN]
  /\ results \in [Requests -> Results]
  /\ queued \in SUBSET Requests
  /\ batcher \in {"running", "stopped"}
  /\ batchChans \in [Priorities -> Seq(Seq(Requests))]
  /\ \A p \in Priorities : Len(batchChans[p]) <= ChanCapacity
  /\ chansClosed \in SUBSET Priorities
  /\ pc \in [Workers -> WorkerStates]
  /\ level \in [Workers -> 1..4]
  /\ work \in [Workers -> Seq(Requests)]
  /\ \A w \in Workers : work[w] # <<>> <=> Busy(w)
  /\ offered \in [Workers -> SUBSET Seq(Requests)]
  /\ circuit \in [Workers -> Breakers]
  /\ upstream \in {"up", "down", "hung"}
  /\ upstreamUnhealthy \in BOOLEAN
  /\ ping \in {"sleep", "sent", "swallowed", "returned"}
  /\ pingFailures \in 0..FailureThreshold
  /\ shutdown \in BOOLEAN

Init ==
  /\ handler = [r \in Requests |-> "idle"]
  /\ opened = [r \in Requests |-> {}]
  /\ ctxDone = [r \in Requests |-> FALSE]
  /\ results = [r \in Requests |-> "empty"]
  /\ queued = {}
  /\ batcher = "running"
  /\ batchChans = [p \in Priorities |-> <<>>]
  /\ chansClosed = {}
  /\ pc = [w \in Workers |-> "select"]
  /\ level = [w \in Workers |-> 1]
  /\ work = [w \in Workers |-> <<>>]
  /\ offered = [w \in Workers |-> {}]
  /\ circuit = [w \in Workers |-> NewCircuitBreaker]
  /\ upstream = "up"
  /\ upstreamUnhealthy = FALSE
  /\ ping = "sleep"
  /\ pingFailures = 0
  /\ shutdown = FALSE

-----------------------------------------------------------------------------
(* HandleCompletions and HandleEmbeddings                                  *)

HandlerStep(r, from, to) ==
  /\ handler[r] = from
  /\ handler' = [handler EXCEPT ![r] = to]
  /\ UNCHANGED <<workerVars, pingVars, envVars>>

\* the handler writes its response and returns; its deferred cancel runs
Reply(r, from) ==
  /\ HandlerStep(r, from, "idle")
  /\ ctxDone' = [ctxDone EXCEPT ![r] = TRUE]
  /\ opened' = [opened EXCEPT ![r] = {}]

\* a valid request arrives
Arrive(r) ==
  /\ r \notin Owned
  /\ HandlerStep(r, "idle", "check")
  /\ ctxDone' = [ctxDone EXCEPT ![r] = FALSE]
  /\ results' = [results EXCEPT ![r] = "empty"]
  /\ UNCHANGED <<opened, batcherVars>>

\* AllWorkersUnhealthy: the flag is set, 503
CheckUnhealthy(r) ==
  /\ upstreamUnhealthy
  /\ Reply(r, "check")
  /\ UNCHANGED <<results, batcherVars>>

CheckHealthy(r) ==
  /\ ~upstreamUnhealthy
  /\ HandlerStep(r, "check", "scan")
  /\ UNCHANGED <<opened, ctxDone, results, batcherVars>>

\* the breakers are read one by one, in the order of a map iteration
ScanOpen(r, w) ==
  /\ handler[r] = "scan" /\ w \notin opened[r] /\ circuit[w].state = "Open"
  /\ opened' = [opened EXCEPT ![r] = @ \cup {w}]
  /\ UNCHANGED <<handler, ctxDone, results, batcherVars, workerVars, pingVars, envVars>>

ScanUsable(r, w) ==
  /\ w \notin opened[r] /\ circuit[w].state # "Open"
  /\ HandlerStep(r, "scan", "submit")
  /\ opened' = [opened EXCEPT ![r] = {}]
  /\ UNCHANGED <<ctxDone, results, batcherVars>>

\* every breaker was Open, 503
ScanAllOpen(r) ==
  /\ opened[r] = Workers
  /\ Reply(r, "scan")
  /\ UNCHANGED <<results, batcherVars>>

Submit(r) ==
  /\ batcher = "running"
  /\ HandlerStep(r, "submit", "waiting")
  /\ queued' = queued \cup {r}
  /\ UNCHANGED <<opened, ctxDone, results, batcher, chansClosed>>

\* ErrQueueFull, ErrShuttingDown or the error of the context
SubmitRejected(r) ==
  /\ Reply(r, "submit")
  /\ UNCHANGED <<results, batcherVars>>

\* <-ResultChan
Result(r) ==
  /\ results[r] # "empty"
  /\ results' = [results EXCEPT ![r] = "empty"]
  /\ Reply(r, "waiting")
  /\ UNCHANGED batcherVars

\* <-ctx.Done(), 504
TimedOut(r) ==
  /\ ctxDone[r]
  /\ Reply(r, "waiting")
  /\ UNCHANGED <<results, batcherVars>>

\* the client disconnects, or write_timeout - 1s has passed
CtxDone(r) ==
  /\ handler[r] # "idle" /\ ~ctxDone[r]
  /\ ctxDone' = [ctxDone EXCEPT ![r] = TRUE]
  /\ UNCHANGED <<handler, opened, results, batcherVars, workerVars, pingVars, envVars>>

Handle(r) ==
  \/ CheckUnhealthy(r) \/ CheckHealthy(r)
  \/ \E w \in Workers : ScanOpen(r, w) \/ ScanUsable(r, w)
  \/ ScanAllOpen(r)
  \/ Submit(r) \/ SubmitRejected(r)
  \/ Result(r) \/ TimedOut(r)

-----------------------------------------------------------------------------
(* The batcher, and main's coordination of its end                         *)

\* a non-blocking send of value to the ResultChan of each request
Send(reqs, value) ==
  results' = [r \in Requests |->
                IF r \in reqs /\ results[r] = "empty" THEN value ELSE results[r]]

\* dispatch: a batch of one priority, once its channel has room
Form(batch) ==
  LET p == PriorityOf[Head(batch)]
  IN  /\ batcher = "running"
      /\ \A r \in ToSet(batch) : PriorityOf[r] = p
      /\ Len(batchChans[p]) < ChanCapacity
      /\ batchChans' = [batchChans EXCEPT ![p] = Append(@, batch)]
      /\ queued' = queued \ ToSet(batch)
      /\ UNCHANGED <<handlerVars, results, batcher, chansClosed, pc, level, work, offered,
                     circuit, pingVars, envVars>>

FormAny ==
  \E S \in (SUBSET queued) \ {{}} :
    /\ Cardinality(S) <= MaxBatchSize
    /\ \E batch \in SetToSeqs(S) : Form(batch)

\* failBatch and drain answer some; Start returns whatever else is queued
BatcherStop ==
  /\ shutdown /\ batcher = "running"
  /\ batcher' = "stopped"
  /\ \E S \in SUBSET queued : Send(S, "ErrShuttingDown") /\ queued' = queued \ S
  /\ UNCHANGED <<handlerVars, chansClosed, workerVars, pingVars, envVars>>

\* CloseBatchChans, one channel after the other from PriorityLow
CloseBatchChan(p) ==
  /\ batcher = "stopped"
  /\ chansClosed = 0..p - 1
  /\ chansClosed' = 0..p
  /\ UNCHANGED <<handlerVars, results, queued, batcher, workerVars, pingVars, envVars>>

-----------------------------------------------------------------------------
(* ProxyWorker.Run: four selects, each inside the default of the one       *)
(* before, each looking at one more channel; only the last one blocks.     *)

\* Mutants of Selecting: one flat select, and the lowest priority first.
SelectingAny(w) == Priorities
SelectingLowFirst(w) == {p \in Priorities : p < level[w]}

\* the channels of the select that worker w is at
Selecting(w) == {p \in Priorities : p >= 4 - level[w]}

WorkerStep(w, from, to) ==
  /\ pc[w] = from
  /\ pc' = [pc EXCEPT ![w] = to]
  /\ UNCHANGED <<handlerVars, batcherVars, pingVars, envVars>>

SelectReceive(w, p) ==
  /\ WorkerStep(w, "select", "received")
  /\ p \in Selecting(w) /\ batchChans[p] # <<>>
  /\ batchChans' = [batchChans EXCEPT ![p] = Tail(@)]
  /\ work' = [work EXCEPT ![w] = Head(batchChans[p])]
  /\ level' = [level EXCEPT ![w] = 1]
  /\ offered' = [v \in Workers |->
                   IF v = w THEN {} ELSE offered[v] \ {Head(batchChans[p])}]
  /\ UNCHANGED <<results, circuit>>

\* default: every channel looked at is open and empty
SelectDefault(w) ==
  /\ WorkerStep(w, "select", "select")
  /\ level[w] < 4
  /\ \A p \in Selecting(w) : batchChans[p] = <<>> /\ p \notin chansClosed
  /\ level' = [level EXCEPT ![w] = @ + 1]
  /\ UNCHANGED <<results, batchChans, work, offered, circuit>>

\* Mutant of SelectExit: a closed channel is not noticed.
SelectExitDone(w) ==
  /\ WorkerStep(w, "select", "exited")
  /\ level[w] = 4 /\ shutdown
  /\ level' = [level EXCEPT ![w] = 1]
  /\ offered' = [offered EXCEPT ![w] = {}]
  /\ UNCHANGED <<results, batchChans, work, circuit>>

\* a receive from a closed and empty channel, or <-ctx.Done()
SelectExit(w) ==
  /\ WorkerStep(w, "select", "exited")
  /\ \/ \E p \in Selecting(w) : batchChans[p] = <<>> /\ p \in chansClosed
     \/ level[w] = 4 /\ shutdown
  /\ level' = [level EXCEPT ![w] = 1]
  /\ offered' = [offered EXCEPT ![w] = {}]
  /\ UNCHANGED <<results, batchChans, work, circuit>>

-----------------------------------------------------------------------------
(* ProxyWorker.process                                                     *)

ProcessStep(w, from, to) ==
  /\ WorkerStep(w, from, to)
  /\ UNCHANGED <<batchChans, level, offered>>

\* process returns, and Run's select begins anew
ProcessEnd(w, from) ==
  /\ WorkerStep(w, from, "select")
  /\ work' = [work EXCEPT ![w] = <<>>]
  /\ offered' = [offered EXCEPT ![w] = Waiting]
  /\ UNCHANGED <<batchChans, level>>

\* unhealthy.Load(): failBatch
RefuseUnhealthy(w) ==
  /\ upstreamUnhealthy
  /\ ProcessEnd(w, "received")
  /\ Send(ToSet(work[w]), "ErrWorkerUnavailable")
  /\ UNCHANGED circuit

PassHealthy(w) ==
  /\ ~upstreamUnhealthy
  /\ ProcessStep(w, "received", "permit")
  /\ UNCHANGED <<results, work, circuit>>

\* Mutant of RefuseOpen: process returns without failBatch.
RefuseOpenSilent(w) ==
  /\ ~CanExecute(circuit[w])
  /\ ProcessEnd(w, "permit")
  /\ UNCHANGED <<results, circuit>>

\* !CanExecute(): failBatch
RefuseOpen(w) ==
  /\ ~CanExecute(circuit[w])
  /\ ProcessEnd(w, "permit")
  /\ Send(ToSet(work[w]), "ErrWorkerUnavailable")
  /\ UNCHANGED circuit

PassCircuit(w) ==
  /\ CanExecute(circuit[w])
  /\ ProcessStep(w, "permit", "filter")
  /\ circuit' = [circuit EXCEPT ![w] = Executed(@)]
  /\ UNCHANGED <<results, work>>

\* filterCancelled; nothing is posted when every client is gone
Gone(w) == {r \in ToSet(work[w]) : ctxDone[r]}
Kept(w) == {i \in DOMAIN work[w] : ~ctxDone[work[w][i]]}

\* the only sequence that has the requests at the places Kept(w), in their order
Scrubbed(w) ==
  {[i \in DOMAIN f |-> work[w][f[i]]] :
     f \in {g \in [1..Cardinality(Kept(w)) -> Kept(w)] :
              \A i, j \in DOMAIN g : i < j => g[i] < g[j]}}

FilterNone(w) ==
  /\ Kept(w) = {}
  /\ ProcessEnd(w, "filter")
  /\ Send(Gone(w), "cancelled")
  /\ UNCHANGED circuit

\* Mutant of FilterSome: the batch is posted and answered as it came.
FilterSomeUnscrubbed(w) ==
  /\ Kept(w) # {}
  /\ ProcessStep(w, "filter", "post")
  /\ Send(Gone(w), "cancelled")
  /\ UNCHANGED <<work, circuit>>

FilterSome(w) ==
  /\ Kept(w) # {}
  /\ ProcessStep(w, "filter", "post")
  /\ Send(Gone(w), "cancelled")
  /\ \E live \in Scrubbed(w) : work' = [work EXCEPT ![w] = live]
  /\ UNCHANGED circuit

\* Mutant of DoFails: reqCtx has no timeout.
DoFailsUntimed(w) ==
  \/ upstream = "down"
  \/ Gone(w) = ToSet(work[w])
  \/ shutdown

\* Do returns an error or a 5xx: connection refused, 503, RequestTimeout, or
\* a cancellation of reqCtx by the watcher or by the shutdown
DoFails(w) ==
  \/ upstream # "up"
  \/ Gone(w) = ToSet(work[w])
  \/ shutdown

PostFail(w) ==
  /\ DoFails(w)
  /\ ProcessStep(w, "post", "fanError")
  /\ circuit' = [circuit EXCEPT ![w] = RecordFailure(@)]
  /\ UNCHANGED <<results, work>>

FanOutError(w) ==
  /\ ProcessEnd(w, "fanError")
  /\ Send(ToSet(work[w]), "ErrWorkerUnavailable")
  /\ UNCHANGED circuit

\* Do returns the head of a response whose status is below 500
PostOk(w) ==
  /\ upstream = "up"
  /\ ProcessStep(w, "post", "fanOut")
  /\ circuit' = [circuit EXCEPT ![w] = RecordSuccess(@)]
  /\ UNCHANGED <<results, work>>

\* The body has results for the first n requests: fewer than posted when it
\* is cut off, is no JSON array (a 4xx page) or is shorter than the batch.
\* Requests whose client has gone since are dropped.
FanOutResults(w, n) ==
  LET batch == work[w]
      answered == {batch[i] : i \in 1..n}
  IN  /\ n <= Len(batch)
      /\ ProcessEnd(w, "fanOut")
      /\ results' = [r \in Requests |->
                       IF r \in ToSet(batch) \ Gone(w) /\ results[r] = "empty"
                       THEN IF r \in answered THEN "answer" ELSE "blank"
                       ELSE results[r]]
      /\ UNCHANGED circuit

Process(w) ==
  \/ RefuseUnhealthy(w) \/ PassHealthy(w)
  \/ RefuseOpen(w) \/ PassCircuit(w)
  \/ FilterNone(w) \/ FilterSome(w)
  \/ PostFail(w) \/ FanOutError(w)
  \/ PostOk(w) \/ \E n \in 0..MaxBatchSize : FanOutResults(w, n)

Run(w) ==
  \/ \E p \in Priorities : SelectReceive(w, p)
  \/ SelectDefault(w) \/ SelectExit(w)
  \/ Process(w)

-----------------------------------------------------------------------------
(* pingLoop                                                                *)

PingStep(from, to) ==
  /\ ping = from
  /\ ping' = to
  /\ UNCHANGED <<handlerVars, results, batcherVars, workerVars, envVars>>

\* tick
PingSend ==
  /\ PingStep("sleep", "sent")
  /\ UNCHANGED <<upstreamUnhealthy, pingFailures>>

\* The client has no timeout.  A ping that a hanging upstream has accepted stays
\* in Do, whatever the upstream does from then on with new connections.
PingSwallowed ==
  /\ upstream = "hung"
  /\ PingStep("sent", "swallowed")
  /\ UNCHANGED <<upstreamUnhealthy, pingFailures>>

\* Mutant of PingOk: the flag is not cleared.
PingOkSticky ==
  /\ upstream = "up"
  /\ \E from \in {"sent", "swallowed"} : PingStep(from, "sleep")
  /\ pingFailures' = 0
  /\ UNCHANGED upstreamUnhealthy

\* a swallowed ping may, but need not, be answered when the upstream goes on
PingOk ==
  /\ upstream = "up"
  /\ \E from \in {"sent", "swallowed"} : PingStep(from, "sleep")
  /\ upstreamUnhealthy' = FALSE
  /\ pingFailures' = 0

\* refused or a 5xx, the end of the context, or the loss of its own connection,
\* which may end a swallowed ping at any time
PingFail ==
  /\ \/ PingStep("sent", "sleep") /\ (upstream = "down" \/ shutdown)
     \/ PingStep("swallowed", "sleep")
  /\ pingFailures' = Saturate(pingFailures + 1)
  /\ upstreamUnhealthy' = (pingFailures + 1 >= FailureThreshold \/ upstreamUnhealthy)

PingReturn ==
  /\ shutdown
  /\ PingStep("sleep", "returned")
  /\ UNCHANGED <<upstreamUnhealthy, pingFailures>>

PingLoop == PingSend \/ PingSwallowed \/ PingOk \/ PingFail \/ PingReturn

\* the steps that come by themselves: only the end of the context is sure to end
\* a swallowed ping
PingDue == (ping = "swallowed" => shutdown) /\ PingLoop

-----------------------------------------------------------------------------
(* The environment                                                         *)

UpstreamBecomes(how) ==
  /\ upstream # how /\ upstream' = how
  /\ UNCHANGED <<handlerVars, results, batcherVars, workerVars, pingVars, shutdown>>

\* recoveryTimeout passes
Recover(w) ==
  /\ RecoveryDue(circuit[w])
  /\ circuit' = [circuit EXCEPT ![w].elapsed = TRUE]
  /\ UNCHANGED <<handlerVars, results, batcherVars, batchChans, pc, level, work, offered,
                 pingVars, envVars>>

\* SIGTERM, or the HTTP server fails
Shutdown ==
  /\ ~shutdown /\ shutdown' = TRUE
  /\ UNCHANGED <<handlerVars, results, batcherVars, workerVars, pingVars, upstream>>

\* the pool has returned and no handler is left
Terminated ==
  /\ \A w \in Workers : pc[w] = "exited"
  /\ ping = "returned" /\ \A r \in Requests : handler[r] = "idle"
  /\ UNCHANGED vars

\* what clients, the batcher and the workers do
Serve ==
  \/ \E r \in Requests : Arrive(r) \/ Handle(r) \/ CtxDone(r)
  \/ FormAny \/ BatcherStop \/ \E p \in Priorities : CloseBatchChan(p)
  \/ \E w \in Workers : Run(w) \/ Recover(w)

Next ==
  \/ Serve \/ PingLoop
  \/ \E how \in {"up", "down", "hung"} : UpstreamBecomes(how)
  \/ Shutdown
  \/ Terminated

Spec == Init /\ [][Next]_vars

(* Fairness: goroutines are scheduled, tickers tick, recoveryTimeout       *)
(* passes, RequestTimeout ends a post that hangs.  A select chooses among  *)
(* its ready cases at random, so the ping loop cannot take the tick rather *)
(* than the end of its context for ever.  Nothing but that end has to end  *)
(* a swallowed ping.  Nobody has to send a request or to leave, and the    *)
(* upstream does what it likes.                                            *)
ServingFairness ==
  /\ \A r \in Requests : WF_vars(Handle(r))
  /\ WF_vars(FormAny)
  /\ WF_vars(BatcherStop)
  /\ WF_vars(\E p \in Priorities : CloseBatchChan(p))
  /\ \A w \in Workers : WF_vars(Run(w)) /\ WF_vars(Recover(w))

Fairness == ServingFairness /\ WF_vars(PingDue) /\ SF_vars(PingReturn)

-----------------------------------------------------------------------------
(* Properties.                                                             *)

(* A request has one owner until it is answered, and none when its answer  *)
(* is in its ResultChan: it is in the queue, in one batch of one channel   *)
(* or in the hands of one worker, once.  So the non-blocking sends         *)
(* (proxy.go:180-186, 219-222, 231-236) never find the one-place buffer    *)
(* full, and no request is answered twice.                                 *)
OneOwner ==
  /\ \A r \in Owned : results[r] = "empty"
  /\ queued \cap (InChannels \cup InHands) = {}
  /\ InChannels \cap InHands = {}
  /\ \A v, w \in Workers : v # w => ToSet(work[v]) \cap ToSet(work[w]) = {}
  /\ \A w \in Workers : IsInjective(work[w])
  /\ \A p, q \in Priorities : \A i \in DOMAIN batchChans[p], j \in DOMAIN batchChans[q] :
       /\ IsInjective(batchChans[p][i])
       /\ <<p, i>> # <<q, j>> => ToSet(batchChans[p][i]) \cap ToSet(batchChans[q][j]) = {}

(* While a client waits and has not given up, its answer has come or       *)
(* somebody holds its request: the drops of filterCancelled and            *)
(* fanOutResults (proxy.go:178, 204) only hit clients that are gone.       *)
NobodyForgotten ==
  \A r \in Requests :
    handler[r] = "waiting" /\ ~ctxDone[r] => results[r] # "empty" \/ r \in Owned

(* A breaker is Closed exactly while fewer than failure_threshold failures *)
(* have come in a row, and no post is under way past an Open breaker:      *)
(* Open and HalfOpen do not reset the count (circuit.go:55-98), which is   *)
(* why one failed probe opens the breaker again.                           *)
BreakerConsistent ==
  \A w \in Workers :
    /\ Consistent(circuit[w])
    /\ pc[w] \in {"filter", "post"} => circuit[w].state # "Open"

(* Strict priority between formed batches (docs/spec/shared/invariants.md  *)
(* I8): a worker never takes a batch while one of a higher priority, that  *)
(* was waiting when the worker's select began, is waiting still.           *)
StrictPriority ==
  [][\A w \in Workers : pc[w] = "select" /\ pc'[w] = "received" =>
       \A b \in offered[w] :
         PriorityOf[Head(b)] <= PriorityOf[Head(work'[w])]]_vars

(* A worker that takes a batch comes back for the next, whatever upstream  *)
(* does: every path of process (proxy.go:117-170) returns.                 *)
WorkerComesBack == \A w \in Workers : Busy(w) ~> pc[w] = "select"

(* A critical batch is taken, whatever other priorities keep arriving,     *)
(* unless the workers leave.                                               *)
CriticalIsServed ==
  \A r \in Requests :
    (\E b \in ToSet(batchChans[3]) : r \in ToSet(b)) ~>
      (r \in InHands \/ shutdown)

(* The flag follows the upstream: in a lasting outage, of whatever kinds,  *)
(* it is set for good, and when the upstream is back for good it is        *)
(* cleared for good (pool.go:190-216), unless a ping is swallowed for      *)
(* good: nothing bounds a ping (pool.go:204, 220-231), and the flag is     *)
(* frozen for as long as one takes, whatever becomes of the upstream.      *)
FlagFollowsUpstream ==
  LET frozen == ping = "swallowed"
  IN  /\ <>[](upstream # "up" /\ ~shutdown) => <>[]upstreamUnhealthy \/ <>[]frozen
      /\ <>[](upstream = "up" /\ ~shutdown) => <>[]~upstreamUnhealthy \/ <>[]frozen

(* circuit.go:42-43: an open breaker "probes again after recoveryTimeout". *)
ProbesAgain == \A w \in Workers : circuit[w].state = "Open" ~> circuit[w].state # "Open"
=============================================================================
