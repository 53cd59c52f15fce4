-------------------------- MODULE AdaptiveBatcher --------------------------
(***************************************************************************)
(* The batcher of internal/batcher/adaptive.go on top of the QueueMatrix.  *)
(*                                                                         *)
(* Two goroutines use the matrix from inside: "loop" runs Start's formBatch*)
(* loop, "stopper" runs Stop.  Handlers run Submit; the worker pool is the *)
(* receiving end of the four batch channels.  A drain is the sequence of   *)
(* QueueMatrix steps between the action that calls it and the one that     *)
(* uses its result.                                                        *)
(*                                                                         *)
(* Timers are not timed: an accumulation window may expire whenever the    *)
(* loop waits in it, which covers every CalculateTimeout of a strategy.    *)
(***************************************************************************)
EXTENDS QueueMatrix

CONSTANTS
  ChanCapacity    \* buffer of each batch channel: the number of workers

ASSUME AdaptiveBatcherAssumption ==
  /\ Callers = {"loop", "stopper"}
  /\ ChanCapacity \in Nat \ {0}

VARIABLES
  entry,       \* request -> has it passed the checks at the top of Submit
  pc,          \* caller -> control state of its goroutine
  ctxDone,     \* the context given to Start is cancelled
  strategy,    \* is a strategy installed (b.strategy is not nil)
  using,       \* the strategy formBatch loaded when it began
  batch,       \* the requests the loop has collected (reqs)
  batchChans,  \* priority -> batches waiting for a worker
  received,    \* requests a worker has received
  results      \* request -> what its ResultChan (capacity 1) holds

loopVars == <<pc, using, batch>>
envVars == <<entry, ctxDone, strategy, received>>
abVars == <<loopVars, envVars, batchChans, results>>
vars == <<qmVars, abVars>>

LoopStates ==
  {"unstarted",
   "check",      \* top of run's loop
   "wait",       \* formBatch's first select
   "woken",      \* a wake was received, Drain comes next
   "draining",   \* inside Drain
   "decide",     \* Drain returned requests: flush or accumulate
   "topUp",      \* accumulate: DrainFrom comes next
   "toppingUp",  \* inside DrainFrom
   "judge",      \* accumulate: flush, yield to a higher priority, or wait
   "window",     \* accumulate's select
   "rearm",      \* formBatch's deferred re-arm
   "dispatch"}   \* dispatch's select

\* drain() of either goroutine
DrainStates == {"drain", "sweeping", "close"}

StopStates ==
  {"idle",       \* Stop not called
   "flagged",    \* stopping is set
   "signalled",  \* stopCh is closed
   "waiting",    \* Stop's select
   "gaveUp"}     \* Stop returned its context's error

\* stopping.Load(), <-stopCh, started.Load()
Stopping == pc["stopper"] # "idle"
StopSignalled == pc["stopper"] \notin {"idle", "flagged"}
Started == pc["loop"] # "unstarted"

\* ctx.Done() or stopCh is ready in one of the loop's selects
ShuttingDown == ctxDone \/ StopSignalled

\* the sub-queue the collected requests come from
Pinned == SubQueueOf[Head(batch)]

\* strategyShouldFlush: every strategy of NewStrategy has this rule
ShouldFlush == ~using \/ Len(batch) >= MaxBatchSize \/ depth >= MaxBatchSize

BatcherTypeOK ==
  /\ entry \in [Requests -> {"new", "admitted", "rejected"}]
  /\ pc \in [Callers -> LoopStates \cup DrainStates \cup StopStates \cup {"stopped"}]
  /\ ctxDone \in BOOLEAN
  /\ strategy \in BOOLEAN
  /\ using \in BOOLEAN
  /\ batch \in Seq(Requests)
  /\ Len(batch) <= MaxBatchSize
  /\ batchChans \in [Priorities -> Seq(Seq(Requests))]
  /\ \A p \in Priorities : Len(batchChans[p]) <= ChanCapacity
  /\ received \in SUBSET Requests
  /\ results \in [Requests -> {"empty", "ErrShuttingDown"}]

Init ==
  /\ QMInit
  /\ entry = [r \in Requests |-> "new"]
  /\ pc = [c \in Callers |-> IF c = "loop" THEN "unstarted" ELSE "idle"]
  /\ ctxDone = FALSE
  /\ strategy \in BOOLEAN
  /\ using = FALSE
  /\ batch = <<>>
  /\ batchChans = [p \in Priorities |-> <<>>]
  /\ received = {}
  /\ results = [r \in Requests |-> "empty"]

Goto(c, from, to) ==
  /\ pc[c] = from
  /\ pc' = [pc EXCEPT ![c] = to]

-----------------------------------------------------------------------------
(* Submit(ctx, req)                                                        *)

Enter(r, to) ==
  /\ entry[r] = "new"
  /\ entry' = [entry EXCEPT ![r] = to]
  /\ UNCHANGED <<qmVars, loopVars, ctxDone, strategy, received, batchChans, results>>

SubmitAdmit(r) == ~Stopping /\ Enter(r, "admitted")

\* stopping is set, or the request's own context is already done
SubmitReject(r) == Enter(r, "rejected")

\* qm.Submit
SubmitToMatrix(r) ==
  /\ entry[r] = "admitted"
  /\ SubmitLock(r) \/ SubmitClosed(r)
  /\ UNCHANGED abVars

SubmitContinue(r) == SubmitStep(r) /\ UNCHANGED abVars

-----------------------------------------------------------------------------
(* run and shouldExit                                                      *)

Start ==
  /\ Goto("loop", "unstarted", "check")
  /\ UNCHANGED <<qmVars, using, batch, envVars, batchChans, results>>

LoopExit ==
  /\ ShuttingDown
  /\ Goto("loop", "check", "drain")
  /\ UNCHANGED <<qmVars, using, batch, envVars, batchChans, results>>

\* formBatch begins: it loads the strategy before it waits
LoopForm ==
  /\ ~ShuttingDown
  /\ Goto("loop", "check", "wait")
  /\ using' = strategy
  /\ UNCHANGED <<qmVars, batch, envVars, batchChans, results>>

-----------------------------------------------------------------------------
(* formBatch                                                               *)

\* a step of the loop that changes nothing of its own but its pc
Step(from, to) ==
  /\ Goto("loop", from, to)
  /\ UNCHANGED <<using, batch, envVars, batchChans, results>>

WaitEvent == Step("wait", "woken") /\ TakeEvent

\* Mutants of WaitShutdown: the select lacks ctx.Done(), or stopCh.
WaitStop == StopSignalled /\ Step("wait", "rearm") /\ UNCHANGED qmVars
WaitCtx == ctxDone /\ Step("wait", "rearm") /\ UNCHANGED qmVars

WaitShutdown == ShuttingDown /\ Step("wait", "rearm") /\ UNCHANGED qmVars

CallDrain == Step("woken", "draining") /\ DrainBegin("loop", MaxBatchSize)

Drained ==
  LET reqs == out["loop"]
  IN  /\ Goto("loop", "draining", IF reqs = <<>> THEN "rearm" ELSE "decide")
      /\ Return("loop")
      /\ batch' = reqs
      /\ UNCHANGED <<using, envVars, batchChans, results>>

DecideFlush == ShouldFlush /\ Step("decide", "rearm") /\ UNCHANGED qmVars

DecideAccumulate == ~ShouldFlush /\ Step("decide", "topUp") /\ UNCHANGED qmVars

-----------------------------------------------------------------------------
(* accumulate                                                              *)

CallDrainFrom ==
  /\ Step("topUp", "toppingUp")
  /\ DrainFromBegin("loop", Pinned, MaxBatchSize - Len(batch))

\* Mutant of ToppedUp: what came is appended before the test of the length and again after it.
ToppedUpTwice ==
  /\ Goto("loop", "toppingUp", "judge")
  /\ Return("loop")
  /\ batch' = batch \o out["loop"] \o out["loop"]
  /\ UNCHANGED <<using, envVars, batchChans, results>>

ToppedUp ==
  /\ Goto("loop", "toppingUp", "judge")
  /\ Return("loop")
  /\ batch' = batch \o out["loop"]
  /\ UNCHANGED <<using, envVars, batchChans, results>>

\* Mutant of Enough: no pre-emption by a higher priority.
EnoughFlush == ShouldFlush

\* the returns before the select; ShouldFlush includes the full batch
Enough == ShouldFlush \/ HasHigherPriorityThan(Pinned)

JudgeFlush == pc["loop"] = "judge" /\ Enough /\ Step("judge", "rearm") /\ UNCHANGED qmVars

JudgeWait == pc["loop"] = "judge" /\ ~Enough /\ Step("judge", "window") /\ UNCHANGED qmVars

WindowEvent == Step("window", "topUp") /\ TakeEvent

\* Mutant of WindowOver: the timer is never armed.
WindowShutdown == ShuttingDown /\ Step("window", "rearm") /\ UNCHANGED qmVars

\* timer.C, ctx.Done() or stopCh
WindowOver == Step("window", "rearm") /\ UNCHANGED qmVars

-----------------------------------------------------------------------------
(* formBatch's defer, dispatch and failBatch                               *)

AfterForm == IF batch = <<>> THEN "check" ELSE "dispatch"

\* Mutant of RearmSignal: no deferred re-arm.
RearmForgotten == depth > 0 /\ Step("rearm", AfterForm) /\ UNCHANGED qmVars

RearmSignal == depth > 0 /\ Step("rearm", AfterForm) /\ Signal

RearmQuiet == ~(depth > 0) /\ Step("rearm", AfterForm) /\ UNCHANGED qmVars

\* Mutant of DispatchSend: the channels are indexed the other way round.
DispatchSendReversed ==
  LET p == 3 - PriorityOf[Pinned]
  IN  /\ Goto("loop", "dispatch", "check")
      /\ Len(batchChans[p]) < ChanCapacity
      /\ batchChans' = [batchChans EXCEPT ![p] = Append(@, batch)]
      /\ batch' = <<>>
      /\ UNCHANGED <<qmVars, using, envVars, results>>

DispatchSend ==
  LET p == PriorityOf[Pinned]
  IN  /\ Goto("loop", "dispatch", "check")
      /\ Len(batchChans[p]) < ChanCapacity
      /\ batchChans' = [batchChans EXCEPT ![p] = Append(@, batch)]
      /\ batch' = <<>>
      /\ UNCHANGED <<qmVars, using, envVars, results>>

\* notifyShuttingDown: a non-blocking send on each ResultChan
Notify(reqs) ==
  results' = [r \in Requests |->
                IF r \in ToSet(reqs) /\ results[r] = "empty"
                THEN "ErrShuttingDown" ELSE results[r]]

\* Mutant of DispatchFail: no failBatch.
DispatchFailSilent ==
  /\ ShuttingDown
  /\ Goto("loop", "dispatch", "drain")
  /\ batch' = <<>>
  /\ UNCHANGED <<qmVars, using, envVars, batchChans, results>>

\* the select takes ctx.Done() or stopCh, even when the channel has room
DispatchFail ==
  /\ ShuttingDown
  /\ Goto("loop", "dispatch", "drain")
  /\ Notify(batch)
  /\ batch' = <<>>
  /\ UNCHANGED <<qmVars, using, envVars, batchChans>>

-----------------------------------------------------------------------------
(* drain(), by the loop on its way out or by a Stop before Start           *)

CallDrainAll(c) ==
  /\ Goto(c, "drain", "sweeping")
  /\ DrainAllBegin(c)
  /\ UNCHANGED <<using, batch, envVars, batchChans, results>>

\* Mutant of DrainedAll: what remained is not answered.
DrainedAllSilent(c) ==
  /\ Goto(c, "sweeping", "close")
  /\ Return(c)
  /\ UNCHANGED <<using, batch, envVars, batchChans, results>>

DrainedAll(c) ==
  /\ Goto(c, "sweeping", "close")
  /\ Return(c)
  /\ Notify(out[c])
  /\ UNCHANGED <<using, batch, envVars, batchChans>>

CloseMatrix(c) ==
  /\ Goto(c, "close", "stopped")
  /\ Close
  /\ UNCHANGED <<using, batch, envVars, batchChans, results>>

\* the steps of a drain of the matrix, whoever called it
InDrain(c) == DrainStep(c) /\ UNCHANGED abVars

LoopStep ==
  \/ LoopExit \/ LoopForm
  \/ WaitEvent \/ WaitShutdown \/ CallDrain \/ Drained
  \/ DecideFlush \/ DecideAccumulate
  \/ CallDrainFrom \/ ToppedUp \/ JudgeFlush \/ JudgeWait
  \/ WindowEvent \/ WindowOver
  \/ RearmSignal \/ RearmQuiet \/ DispatchSend \/ DispatchFail
  \/ CallDrainAll("loop") \/ DrainedAll("loop") \/ CloseMatrix("loop")
  \/ InDrain("loop")

-----------------------------------------------------------------------------
(* Stop(ctx)                                                               *)

StopMove(from, to) ==
  /\ Goto("stopper", from, to)
  /\ UNCHANGED <<qmVars, using, batch, envVars, batchChans, results>>

\* stopping.Store(true)
StopCall == StopMove("idle", "flagged")

\* close(stopCh)
StopClose == StopMove("flagged", "signalled")

\* Mutant of StopChoose: it does not look whether the loop has started.
StopChooseDrain == StopMove("signalled", "drain")

\* started.Load(): a loop that never ran cannot answer the queued requests
StopChoose == StopMove("signalled", IF Started THEN "waiting" ELSE "drain")

\* <-stoppedCh
StopReturn == pc["loop"] = "stopped" /\ StopMove("waiting", "stopped")

\* Stop's own context ends first
StopGiveUp == StopMove("waiting", "gaveUp")

StopStep ==
  \/ StopClose \/ StopChoose \/ StopReturn
  \/ CallDrainAll("stopper") \/ DrainedAll("stopper") \/ CloseMatrix("stopper")
  \/ InDrain("stopper")

-----------------------------------------------------------------------------
(* The environment                                                         *)

\* SIGTERM, or another member of main's errgroup fails
CtxCancel ==
  /\ ~ctxDone /\ ctxDone' = TRUE
  /\ UNCHANGED <<qmVars, loopVars, entry, strategy, received, batchChans, results>>

SetStrategy ==
  /\ ~strategy /\ strategy' = TRUE
  /\ UNCHANGED <<qmVars, loopVars, entry, ctxDone, received, batchChans, results>>

\* some worker receives from a batch channel
WorkerReceive(p) ==
  /\ batchChans[p] # <<>>
  /\ received' = received \cup ToSet(Head(batchChans[p]))
  /\ batchChans' = [batchChans EXCEPT ![p] = Tail(@)]
  /\ UNCHANGED <<qmVars, loopVars, entry, ctxDone, strategy, results>>

\* run has returned; a process that has shut down takes no more steps
Terminated ==
  /\ pc["loop"] = "stopped"
  /\ pc["stopper"] \in {"idle", "stopped", "gaveUp"}
  /\ UNCHANGED vars

Next ==
  \/ \E r \in Requests :
       SubmitAdmit(r) \/ SubmitReject(r) \/ SubmitToMatrix(r) \/ SubmitContinue(r)
  \/ Start \/ LoopStep
  \/ StopCall \/ StopGiveUp \/ StopStep
  \/ CtxCancel \/ SetStrategy
  \/ \E p \in Priorities : WorkerReceive(p)
  \/ Terminated

Spec == Init /\ [][Next]_vars

(* Fairness: a goroutine that can take a step is scheduled.  main starts   *)
(* the loop and the workers keep receiving; nobody has to submit, cancel,  *)
(* swap the strategy or call Stop.  One condition serves for all Submits,  *)
(* and one for all channels: each request takes each of its steps once, so *)
(* none can keep the others waiting for ever.                              *)
Fairness ==
  /\ WF_vars(\E r \in Requests : SubmitContinue(r))
  /\ WF_vars(Start \/ LoopStep)
  /\ WF_vars(StopStep)
  /\ WF_vars(\E p \in Priorities : WorkerReceive(p))

FairSpec == Spec /\ Fairness

-----------------------------------------------------------------------------
(* Properties.                                                             *)

\* a Submit whose request is queued and whose wake is still to come
WakeOnTheWay == \E r \in Requests : submitter[r] \in {"sent", "counted"}

(* No lost wake-up.  The wake channel holds one token, wakes coalesce, and *)
(* the loop consumes a wake before it drains only one sub-queue; yet it is *)
(* never blocked in formBatch's select over a queued request without a     *)
(* token, unless a Submit is about to send one: the deferred re-arm        *)
(* (adaptive.go:225-229) makes up for every wake that was spent, although  *)
(* it consults the depth counter, which may read low.                      *)
NoLostWakeup ==
  pc["loop"] = "wait" /\ ~eventChan => Queued = {} \/ WakeOnTheWay

(* No missed pre-emption or top-up.  Blocked in the accumulation window    *)
(* without a token, the loop overlooks neither a request of a higher       *)
(* priority nor one for the batch it is filling (adaptive.go:269-292).     *)
NoMissedArrival ==
  pc["loop"] = "window" /\ ~eventChan =>
    \/ queues[Pinned] = <<>> /\ ~HasHigherPriorityThan(Pinned)
    \/ WakeOnTheWay

(* The batcher never drains a closed matrix, where drainSubqueue would not *)
(* return: neither its own drain() nor that of a Stop that found the loop  *)
(* not started closes the matrix under a formBatch.                        *)
NeverDrainsClosed == closed => call["loop"] \notin {"walkPull", "pull"}

(* When drain() has collected the matrix, each request that was queued     *)
(* when it began has its ErrShuttingDown, or the other goroutine's drain() *)
(* holds it and is about to answer.                                        *)
DrainAnswersAllItSaw ==
  [][\A c \in Callers : pc[c] = "sweeping" /\ pc'[c] = "close" =>
       \A r \in seen[c] :
         \/ results'[r] = "ErrShuttingDown"
         \/ \E d \in Callers \ {c} : r \in ToSet(out[d])]_vars

\* the collected requests, including those a drain in progress has received
InHand ==
  IF pc["loop"] \in {"draining", "toppingUp"} THEN batch \o out["loop"] ELSE batch

Service == INSTANCE BatchingService WITH
  fresh <- {r \in Requests : submitter[r] \notin {"sent", "counted", "accepted"}},
  line <- [q \in SubQueues |->
             IF InHand # <<>> /\ SubQueueOf[Head(InHand)] = q
               THEN InHand \o queues[q] ELSE queues[q]],
  channel <- batchChans,
  delivered <- received,
  refused <- {r \in Requests :
                \/ results[r] = "ErrShuttingDown"
                \/ \E c \in Callers : pc[c] = "sweeping" /\ r \in ToSet(out[c])}

(* The batcher implements the service: no request is lost, duplicated or   *)
(* reordered within its sub-queue, every batch is a run of one sub-queue   *)
(* of at most MaxBatchSize requests on the channel of its priority, and    *)
(* only requests that are in no batch are refused.                         *)
ImplementsService == Service!Spec

\* the traffic in the sub-queues that a Drain visits before r's dies down
QuietAhead(r) ==
  <>[][\A s \in Requests : SubQueueOf[s] < SubQueueOf[r] =>
         ~(submitter[s] = "locked" /\ submitter'[s] = "sent")]_vars

(* A queued request is taken into a batch that reaches its channel, unless *)
(* a shutdown begins: no strategy, wake, pre-emption or full channel holds *)
(* it back for ever while workers keep receiving and the traffic ahead of  *)
(* it dies down.  Under such traffic without end it does starve: Drain     *)
(* begins at the first sub-queue each time (queue_matrix.go:106), and what *)
(* pre-empts a window goes first (adaptive.go:279).  An instance submits   *)
(* each request once, so its traffic always dies down; the condition says  *)
(* what of the server's unending traffic the property is about.            *)
QueuedIsDispatched ==
  \A r \in Requests :
    QuietAhead(r) =>
      (r \in Queued \cup ToSet(InHand) ~>
         \/ r \in received \cup
                  UNION {ToSet(b) : b \in UNION {ToSet(batchChans[p]) : p \in Priorities}}
         \/ ctxDone \/ Stopping)

(* A loop told to shut down returns, wherever it was and whether or not a  *)
(* worker ever receives again: Close waits only for Submits that return.   *)
ShutdownCompletes == ctxDone \/ StopSignalled ~> pc["loop"] = "stopped"

(* Stop returns: it waits for a loop that it has signalled, or drains the  *)
(* matrix itself when there is none.                                       *)
StopCompletes == Stopping ~> pc["stopper"] \in {"stopped", "gaveUp"}

(* batcher.go:24-25: "queued requests receive ErrShuttingDown", and        *)
(* adaptive.go:363-364: drain answers every request still sitting in the   *)
(* matrix and then closes it.  So none is left there when the loop is done.*)
NoneLeftInMatrix == pc["loop"] = "stopped" => Queued = {}
=============================================================================
