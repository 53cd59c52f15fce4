----------------------------- MODULE Simulation -----------------------------
(***************************************************************************)
(* One Run of the load simulator (simulation): a generator emits requests  *)
(* on an unbuffered channel, the runner starts a goroutine for each that   *)
(* submits it to the gateway and waits for its result, and when the        *)
(* channel is closed the runner waits for these goroutines, at most 2 s,   *)
(* stops the gateway and sums up what they recorded.                       *)
(*                                                                         *)
(* Of the gateway only this is assumed: it may accept a request until it   *)
(* has stopped, it answers a request that it holds at most once, or never, *)
(* and it stops after its context is cancelled (Gateway: MainReturns).     *)
(* Run's deferred mock.Close() (runner.go:98), after the last step here,   *)
(* is left out: the mock upstream is outside, and whoever posts to it has  *)
(* returned or given up by then.                                           *)
(***************************************************************************)
EXTENDS FiniteSets, Naturals

CONSTANTS
  Requests,     \* the requests that the generator can emit in this run
  Deadlines     \* those whose RequestDeadline can pass before the scenario ends

ASSUME SimulationAssumption ==
  IsFiniteSet(Requests) /\ Deadlines \in SUBSET Requests

VARIABLES
  generator,    \* the goroutine of Generate: in its select, in emit, or returned
  emitting,     \* the request it has made and not yet sent, in a set
  genDone,      \* genCtx, the parent of the contexts of the requests, is done
  runDone,      \* runCtx, the parent of genCtx and of the gateway's, is done
  expired,      \* requests whose own deadline has passed
  handler,      \* request -> where its handleRequest is
  inChan,       \* request -> what its ResultChan holds
  held,         \* requests accepted by the gateway, and not yet answered
  gateway,      \* the errgroup of batcher, pool and metrics push
  inflight,     \* handlers that the WaitGroup counts
  errors, latencies,  \* requests in the accumulator
  runner,       \* control state of Run
  graceOver,    \* waitWithTimeout gave up
  result        \* what build has read so far

ctxVars == <<genDone, runDone, expired>>
genVars == <<generator, emitting>>
gatewayVars == <<held, gateway>>
accVars == <<errors, latencies>>
runVars == <<runner, graceOver, result>>
vars == <<ctxVars, genVars, handler, inChan, gatewayVars, inflight, accVars, runVars>>

HandlerStates ==
  {"none",      \* not emitted
   "started",   \* its goroutine exists, Submit has yet to be called
   "waiting",   \* in the select on ResultChan and req.Ctx.Done()
   "failing",   \* about to record an error
   "answered",  \* about to record a latency
   "recorded",  \* about to call wg.Done
   "done"}

RunnerStates ==
  {"receive", "wait", "cancel", "group", "samples", "submitted", "errors", "returned"}

\* Mutant of CtxDone: requests are made with the context of the run.
CtxDoneOfRun(r) == runDone \/ r \in expired

CtxDone(r) == genDone \/ r \in expired

\* Mutant of Submitted: a request is counted when its handler returns.
SubmittedLate == {r \in Requests : handler[r] = "done"}

\* resultAccumulator.submitted
Submitted == {r \in Requests : handler[r] # "none"}

TypeOK ==
  /\ generator \in {"select", "emit", "closed"}
  /\ emitting \in SUBSET Requests /\ Cardinality(emitting) <= 1
  /\ genDone \in BOOLEAN /\ runDone \in BOOLEAN /\ expired \in SUBSET Deadlines
  /\ handler \in [Requests -> HandlerStates]
  /\ inChan \in [Requests -> {"empty", "result", "error"}]
  /\ held \in SUBSET Requests
  /\ gateway \in {"running", "returned"}
  /\ inflight \in SUBSET Requests
  /\ errors \in SUBSET Requests /\ latencies \in SUBSET Requests
  /\ runner \in RunnerStates
  /\ graceOver \in BOOLEAN
  /\ result \in [samples : Nat, total : Nat, errors : Nat]

Init ==
  /\ generator = "select" /\ emitting = {}
  /\ genDone = FALSE /\ runDone = FALSE /\ expired = {}
  /\ handler = [r \in Requests |-> "none"]
  /\ inChan = [r \in Requests |-> "empty"]
  /\ held = {} /\ gateway = "running"
  /\ inflight = {} /\ errors = {} /\ latencies = {}
  /\ runner = "receive" /\ graceOver = FALSE
  /\ result = [samples |-> 0, total |-> 0, errors |-> 0]

-----------------------------------------------------------------------------
(* Contexts                                                                *)

\* scenario.Duration has passed, or the caller aborts the run
RunTimeout ==
  /\ ~runDone
  /\ runDone' = TRUE /\ genDone' = TRUE
  /\ UNCHANGED <<expired, genVars, handler, inChan, gatewayVars, inflight, accVars, runVars>>

\* the generator's own Config.Duration has passed
GenTimeout ==
  /\ ~genDone
  /\ genDone' = TRUE
  /\ UNCHANGED <<runDone, expired, genVars, handler, inChan, gatewayVars, inflight, accVars,
                 runVars>>

\* RequestDeadline has passed since the request was made
Expire(r) ==
  /\ r \in Deadlines \ expired
  /\ r \in emitting \/ handler[r] # "none"
  /\ expired' = expired \cup {r}
  /\ UNCHANGED <<genDone, runDone, genVars, handler, inChan, gatewayVars, inflight, accVars,
                 runVars>>

-----------------------------------------------------------------------------
(* Generate                                                                *)

GeneratorStep(from, to) ==
  /\ generator = from
  /\ generator' = to
  /\ UNCHANGED <<ctxVars, inChan, gatewayVars, accVars, graceOver, result>>

\* a tick: a request is made with genCtx, or a deadline under it
Make(r) ==
  /\ handler[r] = "none"
  /\ GeneratorStep("select", "emit")
  /\ emitting' = {r}
  /\ UNCHANGED <<handler, inflight, runner>>

\* <-genCtx.Done(), in the loop or in emit: the deferred calls close the channel
Return(from) ==
  /\ genDone
  /\ GeneratorStep(from, "closed")
  /\ emitting' = {}
  /\ UNCHANGED <<handler, inflight, runner>>

\* emit meets the runner's range loop: submitted.Add, inflight.Add, go
Emit(r) ==
  /\ r \in emitting /\ runner = "receive"
  /\ GeneratorStep("emit", "select")
  /\ emitting' = {}
  /\ handler' = [handler EXCEPT ![r] = "started"]
  /\ inflight' = inflight \cup {r}
  /\ UNCHANGED runner

-----------------------------------------------------------------------------
(* handleRequest                                                           *)

HandlerStep(r, from, to) ==
  /\ handler[r] = from
  /\ handler' = [handler EXCEPT ![r] = to]
  /\ UNCHANGED <<ctxVars, genVars, gateway, runVars>>

Submit(r) ==
  /\ gateway = "running"
  /\ HandlerStep(r, "started", "waiting")
  /\ held' = held \cup {r}
  /\ UNCHANGED <<inChan, inflight, accVars>>

\* ErrQueueFull, ErrShuttingDown, or the error of the context
SubmitFails(r) ==
  /\ HandlerStep(r, "started", "failing")
  /\ UNCHANGED <<inChan, held, inflight, accVars>>

\* <-ResultChan
Receive(r) ==
  /\ inChan[r] # "empty"
  /\ HandlerStep(r, "waiting", IF inChan[r] = "result" THEN "answered" ELSE "failing")
  /\ inChan' = [inChan EXCEPT ![r] = "empty"]
  /\ UNCHANGED <<held, inflight, accVars>>

\* Mutant of GiveUp: only a deadline of the request's own is watched.
GiveUpExpired(r) ==
  /\ r \in expired
  /\ HandlerStep(r, "waiting", "failing")
  /\ UNCHANGED <<inChan, held, inflight, accVars>>

\* <-req.Ctx.Done()
GiveUp(r) ==
  /\ CtxDone(r)
  /\ HandlerStep(r, "waiting", "failing")
  /\ UNCHANGED <<inChan, held, inflight, accVars>>

RecordError(r) ==
  /\ HandlerStep(r, "failing", "recorded")
  /\ errors' = errors \cup {r}
  /\ UNCHANGED <<inChan, held, inflight, latencies>>

RecordLatency(r) ==
  /\ HandlerStep(r, "answered", "recorded")
  /\ latencies' = latencies \cup {r}
  /\ UNCHANGED <<inChan, held, inflight, errors>>

\* the deferred wg.Done
Finish(r) ==
  /\ HandlerStep(r, "recorded", "done")
  /\ inflight' = inflight \ {r}
  /\ UNCHANGED <<inChan, held, accVars>>

HandleRequest(r) ==
  \/ Submit(r) \/ SubmitFails(r)
  \/ Receive(r) \/ GiveUp(r)
  \/ RecordError(r) \/ RecordLatency(r)
  \/ Finish(r)

-----------------------------------------------------------------------------
(* The gateway: adaptive.Start, pool.Start and pushStrategyMetrics         *)

Answer(r) ==
  /\ r \in held /\ gateway = "running"
  /\ held' = held \ {r}
  /\ \E answer \in {"result", "error"} : inChan' = [inChan EXCEPT ![r] = answer]
  /\ UNCHANGED <<ctxVars, genVars, handler, gateway, inflight, accVars, runVars>>

GatewayReturns ==
  /\ runDone /\ gateway = "running"
  /\ gateway' = "returned"
  /\ UNCHANGED <<ctxVars, genVars, handler, inChan, held, inflight, accVars, runVars>>

-----------------------------------------------------------------------------
(* Run                                                                     *)

RunnerStep(from, to) ==
  /\ runner = from
  /\ runner' = to
  /\ UNCHANGED <<genVars, expired, handler, inChan, gatewayVars, inflight, accVars>>

\* the channel is closed
LoopEnds ==
  /\ generator = "closed"
  /\ RunnerStep("receive", "wait")
  /\ UNCHANGED <<genDone, runDone, graceOver, result>>

\* Mutant of WaitEnds: handlers call inflight.Add themselves, when they start.
WaitEndsEarly ==
  /\ \A r \in inflight : handler[r] = "started"
  /\ RunnerStep("wait", "cancel")
  /\ UNCHANGED <<genDone, runDone, graceOver, result>>

WaitEnds ==
  /\ inflight = {}
  /\ RunnerStep("wait", "cancel")
  /\ UNCHANGED <<genDone, runDone, graceOver, result>>

\* waitWithTimeout: two seconds have passed
GraceOver ==
  /\ inflight # {}
  /\ RunnerStep("wait", "cancel")
  /\ graceOver' = TRUE
  /\ UNCHANGED <<genDone, runDone, result>>

Cancel ==
  /\ RunnerStep("cancel", "group")
  /\ runDone' = TRUE /\ genDone' = TRUE
  /\ UNCHANGED <<graceOver, result>>

\* g.Wait
GroupEnds ==
  /\ gateway = "returned"
  /\ RunnerStep("group", "samples")
  /\ UNCHANGED <<genDone, runDone, graceOver, result>>

\* build: the latencies under the mutex, then the two counters
CopySamples ==
  /\ RunnerStep("samples", "submitted")
  /\ result' = [result EXCEPT !.samples = Cardinality(latencies)]
  /\ UNCHANGED <<genDone, runDone, graceOver>>

LoadSubmitted ==
  /\ RunnerStep("submitted", "errors")
  /\ result' = [result EXCEPT !.total = Cardinality(Submitted)]
  /\ UNCHANGED <<genDone, runDone, graceOver>>

LoadErrors ==
  /\ RunnerStep("errors", "returned")
  /\ result' = [result EXCEPT !.errors = Cardinality(errors)]
  /\ UNCHANGED <<genDone, runDone, graceOver>>

Run ==
  \/ LoopEnds \/ WaitEnds \/ Cancel \/ GroupEnds
  \/ CopySamples \/ LoadSubmitted \/ LoadErrors

Generate == (\E r \in Requests : Emit(r)) \/ \E from \in {"select", "emit"} : Return(from)

\* the caller goes on
Terminated == runner = "returned" /\ UNCHANGED vars

Next ==
  \/ RunTimeout \/ GenTimeout
  \/ \E r \in Requests : Expire(r) \/ Make(r) \/ HandleRequest(r) \/ Answer(r)
  \/ Generate
  \/ GatewayReturns
  \/ Run \/ GraceOver
  \/ Terminated

Spec == Init /\ [][Next]_vars

(* Fairness: the scenario's time passes, goroutines are scheduled, and the *)
(* gateway returns after its context is cancelled.  Nothing says that it   *)
(* answers, that a tick or a request's deadline comes, or that the two     *)
(* seconds of waitWithTimeout pass.                                        *)
FairSpec ==
  /\ Spec
  /\ WF_vars(RunTimeout) /\ WF_vars(Generate) /\ WF_vars(GatewayReturns) /\ WF_vars(Run)
  /\ \A r \in Requests : WF_vars(HandleRequest(r))

-----------------------------------------------------------------------------
(* Properties.                                                             *)

(* The result of a run whose grace did not pass adds up: every request     *)
(* that was submitted is an error or a latency sample, so the throughput   *)
(* of build (runner.go:238-248), which is what was submitted and is no     *)
(* error, counts answers only.                                             *)
ResultAddsUp ==
  runner = "returned" /\ ~graceOver =>
    result.total = result.errors + result.samples

(* Even when handlers are still recording while build reads one counter    *)
(* after the other, no request is counted on both sides, and the rates are *)
(* never negative (runner.go:225-248).                                     *)
NeverOvercounts ==
  runner = "returned" => result.errors + result.samples <= result.total

(* When the request channel is closed, no handler needs the gateway any    *)
(* more: the context of every request in flight is done, because all are   *)
(* children of the context that ended the generator (workload.go:113-122). *)
(* This, and not the drain that the comment of waitWithTimeout speaks of   *)
(* (runner.go:305-308; the batcher is stopped later), frees the handlers.  *)
HandlersCanLeave ==
  generator = "closed" => \A r \in inflight : CtxDone(r)

(* Run returns, with a gateway that answers nothing and without the two    *)
(* seconds: nobody waits for a handler that waits for the gateway          *)
(* (runner.go:141-156).                                                    *)
RunReturns == <>(runner = "returned")
=============================================================================
