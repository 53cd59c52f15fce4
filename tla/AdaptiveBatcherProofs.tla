----------------------- MODULE AdaptiveBatcherProofs -----------------------
(***************************************************************************)
(* Machine-checked theorems about AdaptiveBatcher, that it implements      *)
(* BatchingService the last of them, for any requests, any sub-queues, any *)
(* batch size and any number of workers.                                   *)
(***************************************************************************)
EXTENDS AdaptiveBatcher, QueueMatrixProofs, SequenceTheorems

-----------------------------------------------------------------------------
(* The inductive invariant.                                                *)

\* A goroutine is inside a drain exactly where its control state says so.
CallOK ==
  /\ pc["loop"] \in LoopStates \cup DrainStates \cup {"stopped"}
  /\ pc["stopper"] \in StopStates \cup DrainStates \cup {"stopped"}
  /\ pc["loop"] = "draining" => call["loop"] \in {"walk", "walkPull", "settle", "done"}
  /\ pc["loop"] = "toppingUp" => call["loop"] \in {"pull", "settle", "done"}
  /\ \A c \in Callers : pc[c] = "sweeping" => call[c] \in {"sweep", "done"}
  /\ \A c \in Callers : pc[c] \notin {"draining", "toppingUp", "sweeping"} => call[c] = "idle"

\* control states in which the loop has no requests, or some
EmptyHanded == {"unstarted", "check", "wait", "woken", "draining",
                "drain", "sweeping", "close", "stopped"}
Filling == {"decide", "topUp", "toppingUp", "judge", "window", "dispatch"}

\* There is room in the batch for all that the drain under way may return.
BatchOK ==
  /\ pc["loop"] \in EmptyHanded => batch = <<>>
  /\ pc["loop"] \in Filling => batch # <<>>
  /\ pc["loop"] \in {"topUp", "window"} => Len(batch) < MaxBatchSize
  /\ pc["loop"] \in {"draining", "toppingUp"} => Len(out["loop"]) <= limit["loop"]
  /\ pc["loop"] = "toppingUp" =>
       Len(batch) + limit["loop"] = MaxBatchSize /\ cursor["loop"] = Pinned

\* the loop is not in formBatch, and will not be once the shutdown has begun
LoopOut == pc["loop"] \in {"unstarted", "check"} \cup DrainStates \cup {"stopped"}

\* A DrainAll or a Close finds no formBatch under way.
ExitOK ==
  /\ pc["stopper"] \in DrainStates \cup {"stopped"} => LoopOut
  /\ swept => \E c \in Callers : pc[c] \in {"sweeping", "close", "stopped"}
  /\ closed => \E c \in Callers : pc[c] = "stopped"

\* the loop has a wake token, or a Submit is about to send one
Attended == eventChan \/ WakeOnTheWay

\* What the loop has seen empty is empty still, or a wake announces the change.
WakeOK ==
  /\ pc["loop"] \in {"unstarted", "check", "wait", "dispatch"} => Queued = {} \/ Attended
  /\ pc["loop"] = "toppingUp" /\ call["loop"] \in {"settle", "done"} =>
       queues[Pinned] = <<>> \/ Len(batch) + Len(out["loop"]) = MaxBatchSize \/ Attended
  /\ pc["loop"] = "judge" =>
       queues[Pinned] = <<>> \/ Len(batch) = MaxBatchSize \/ Attended
  /\ pc["loop"] = "window" =>
       (queues[Pinned] = <<>> /\ ~HasHigherPriorityThan(Pinned)) \/ Attended

\* What a drain() saw queued is queued, in a result, or answered.
SeenOK ==
  \A c \in Callers : pc[c] = "sweeping" =>
    \A r \in seen[c] :
      \/ r \in Queued
      \/ \E d \in Callers : r \in ToSet(out[d])
      \/ results[r] = "ErrShuttingDown"

\* A drain() that is about to return has been through every sub-queue.
SweepOK ==
  \A c \in Callers : pc[c] = "sweeping" /\ call[c] = "done" => cursor[c] = NumQueues + 1

BatcherInv ==
  /\ PlaceInv /\ DepthAccounting
  /\ BatcherTypeOK /\ CallOK /\ BatchOK /\ ExitOK /\ WakeOK /\ SeenOK /\ SweepOK

-----------------------------------------------------------------------------
(* The batcher uses the matrix as QMSpec says.                             *)

\* The matrix has two callers.
LEMMA TheCallers == /\ "loop" \in Callers /\ "stopper" \in Callers
                    /\ \A c \in Callers : c = "loop" \/ c = "stopper"
  BY AdaptiveBatcherAssumption

\* A step of Submit is one of the matrix and changes no variable of the batcher.
LEMMA SubmitterSteps ==
  ASSUME NEW r \in Requests, SubmitToMatrix(r) \/ SubmitContinue(r)
  PROVE  (SubmitLock(r) \/ SubmitClosed(r) \/ SubmitStep(r)) /\ UNCHANGED abVars
  BY DEF SubmitToMatrix, SubmitContinue

\* what the loop asks the matrix for
LEMMA LoopCallsMatrix ==
  ASSUME BatcherTypeOK, BatchOK
  PROVE  /\ CallDrain => \E max \in 1..MaxBatchSize : DrainBegin("loop", max)
         /\ CallDrainFrom => \E max \in 1..MaxBatchSize, q \in SubQueues :
                               DrainFromBegin("loop", q, max)
<1>1. MaxBatchSize \in 1..MaxBatchSize
  BY QueueMatrixAssumption
<1>2. ASSUME CallDrainFrom
      PROVE  MaxBatchSize - Len(batch) \in 1..MaxBatchSize /\ Pinned \in SubQueues
  <2>1. pc["loop"] = "topUp"
    BY <1>2 DEF CallDrainFrom, Step, Goto
  <2>2. batch \in Seq(Requests) /\ batch # <<>> /\ Len(batch) < MaxBatchSize /\ Len(batch) \in Nat
    BY <2>1 DEF BatchOK, Filling, BatcherTypeOK
  <2>3. Head(batch) \in Requests /\ Len(batch) # 0
    BY <2>2
  <2> QED BY <2>2, <2>3, QueueMatrixAssumption DEF Pinned
<1> QED BY <1>1, <1>2 DEF CallDrain, CallDrainFrom

\* the actions of the batcher that take no step of the matrix
LEMMA MatrixUntouched ==
  ASSUME \/ \E r \in Requests : SubmitAdmit(r) \/ SubmitReject(r)
         \/ Start \/ LoopExit \/ LoopForm \/ WaitShutdown
         \/ DecideFlush \/ DecideAccumulate \/ JudgeFlush \/ JudgeWait \/ WindowOver
         \/ RearmQuiet \/ DispatchSend \/ DispatchFail
         \/ StopCall \/ StopClose \/ StopChoose \/ StopReturn \/ StopGiveUp
         \/ CtxCancel \/ SetStrategy
         \/ \E p \in Priorities : WorkerReceive(p)
         \/ Terminated \/ UNCHANGED vars
  PROVE  UNCHANGED qmVars
  BY DEF SubmitAdmit, SubmitReject, Enter, Start, LoopExit, LoopForm, WaitShutdown, DecideFlush,
         DecideAccumulate, JudgeFlush, JudgeWait, WindowOver, RearmQuiet, DispatchSend, DispatchFail,
         StopCall, StopClose, StopChoose, StopReturn, StopGiveUp, StopMove, CtxCancel, SetStrategy,
         WorkerReceive, Terminated, vars

\* Every step of the batcher is a step of the matrix or leaves it alone.
LEMMA MatrixStep == BatcherTypeOK /\ BatchOK /\ [Next]_vars => [QMNext]_qmVars
<1> SUFFICES ASSUME BatcherTypeOK, BatchOK, [Next]_vars PROVE [QMNext]_qmVars
  OBVIOUS
<1>1. ASSUME NEW r \in Requests, SubmitToMatrix(r) \/ SubmitContinue(r) PROVE QMNext
  BY <1>1, SubmitterSteps DEF QMNext
<1>2. CASE CallDrain \/ CallDrainFrom
  BY <1>2, LoopCallsMatrix, TheCallers DEF QMNext
<1>3. CASE WaitEvent \/ WindowEvent
  BY <1>3 DEF WaitEvent, WindowEvent, QMNext
<1>4. CASE RearmSignal
  BY <1>4 DEF RearmSignal, QMNext
<1>5. CASE Drained \/ ToppedUp
  BY <1>5, TheCallers DEF Drained, ToppedUp, QMNext
<1>6. ASSUME NEW c \in Callers, CallDrainAll(c) \/ DrainedAll(c) \/ CloseMatrix(c) \/ InDrain(c)
      PROVE  QMNext
  BY <1>6 DEF CallDrainAll, DrainedAll, CloseMatrix, InDrain, QMNext
<1> QED BY <1>1, <1>2, <1>3, <1>4, <1>5, <1>6, MatrixUntouched, TheCallers
        DEF Next, LoopStep, StopStep

\* the batcher's own variables are left alone
LEMMA AbUnchanged ==
  ASSUME \/ \E r \in Requests : SubmitToMatrix(r) \/ SubmitContinue(r)
         \/ \E c \in Callers : InDrain(c)
         \/ UNCHANGED vars
         \/ Terminated
  PROVE  UNCHANGED abVars
  BY DEF SubmitToMatrix, SubmitContinue, InDrain, Terminated, vars

\* the batch collected when the loop leaves a drain
LEMMA Collected ==
  ASSUME TypeInv, BatcherTypeOK, BatchOK, Drained \/ ToppedUp
  PROVE  /\ batch' \in Seq(Requests)
         /\ Len(batch') = Len(batch) + Len(out["loop"])
         /\ Len(batch') <= MaxBatchSize
<1>1. /\ out["loop"] \in Seq(Requests) /\ batch \in Seq(Requests) /\ limit["loop"] \in 0..MaxBatchSize
      /\ Len(out["loop"]) \in Nat /\ Len(batch) \in Nat
  BY TheCallers DEF TypeInv, TypeOK, BatcherTypeOK
<1>2. Len(out["loop"]) <= limit["loop"]
  BY DEF Drained, ToppedUp, Goto, BatchOK
<1>3. CASE Drained
  <2>1. batch = <<>> /\ batch' = out["loop"]
    BY <1>3 DEF Drained, Goto, BatchOK, EmptyHanded
  <2> QED BY <1>1, <1>2, <2>1, QueueMatrixAssumption
<1>4. CASE ToppedUp
  <2>1. batch' = batch \o out["loop"] /\ Len(batch) + limit["loop"] = MaxBatchSize
    BY <1>4 DEF ToppedUp, Goto, BatchOK
  <2>2. batch \o out["loop"] \in Seq(Requests)
        /\ Len(batch \o out["loop"]) = Len(batch) + Len(out["loop"])
    BY <1>1
  <2> QED BY <1>1, <1>2, <2>1, <2>2, QueueMatrixAssumption
<1> QED BY <1>3, <1>4

\* One step per action of Next, here and in the lemmas below.
LEMMA BatcherTypeStep ==
  TypeInv /\ BatcherTypeOK /\ BatchOK /\ [Next]_vars => BatcherTypeOK'
<1> SUFFICES ASSUME TypeInv, BatcherTypeOK, BatchOK, [Next]_vars PROVE BatcherTypeOK'
  OBVIOUS
<1> USE TheCallers
<1> DEFINE States == LoopStates \cup DrainStates \cup StopStates \cup {"stopped"}
<1>1. ASSUME UNCHANGED abVars PROVE BatcherTypeOK'
  BY <1>1 DEF abVars, loopVars, envVars, BatcherTypeOK
<1>2. ASSUME NEW c \in Callers, NEW from, NEW to \in States, Goto(c, from, to)
      PROVE  pc' \in [Callers -> States]
  BY <1>2 DEF Goto, BatcherTypeOK
<1>3. ASSUME NEW r \in Requests, SubmitAdmit(r) \/ SubmitReject(r) PROVE BatcherTypeOK'
  BY <1>3 DEF SubmitAdmit, SubmitReject, Enter, loopVars, BatcherTypeOK
<1>4. CASE Start \/ LoopExit \/ LoopForm
  BY <1>4, <1>2 DEF Start, LoopExit, LoopForm, Goto, envVars, BatcherTypeOK, LoopStates, DrainStates
<1>5. ASSUME NEW from, NEW to \in States, Step(from, to) PROVE BatcherTypeOK'
  BY <1>5, <1>2 DEF Step, envVars, BatcherTypeOK
<1>6. CASE WaitEvent \/ WaitShutdown \/ CallDrain \/ DecideFlush \/ DecideAccumulate
           \/ CallDrainFrom \/ JudgeFlush \/ JudgeWait \/ WindowEvent \/ WindowOver
  <2>1. \E from : \E to \in States : Step(from, to)
    BY <1>6 DEF WaitEvent, WaitShutdown, CallDrain, DecideFlush, DecideAccumulate, CallDrainFrom,
                JudgeFlush, JudgeWait, WindowEvent, WindowOver, LoopStates
  <2> QED BY <1>5, <2>1
<1>7. CASE RearmSignal \/ RearmQuiet
  BY <1>5, <1>7 DEF RearmSignal, RearmQuiet, AfterForm, LoopStates
<1>8. CASE Drained \/ ToppedUp
  <2>1. pc' \in [Callers -> States]
    BY <1>2, <1>8 DEF Drained, ToppedUp, LoopStates
  <2> QED BY <1>8, <2>1, Collected DEF Drained, ToppedUp, envVars, BatcherTypeOK
<1>9. CASE DispatchSend
  <2> DEFINE p == PriorityOf[Pinned]
  <2>1. batchChans[p] \in Seq(Seq(Requests)) /\ Len(batchChans[p]) <= ChanCapacity - 1
        /\ batch \in Seq(Requests) /\ p \in Priorities
    <3>1. batch \in Seq(Requests) /\ batch # <<>>
      BY <1>9 DEF DispatchSend, Goto, BatchOK, Filling, BatcherTypeOK
    <3>2. Head(batch) \in Requests
      BY <3>1
    <3>3. p \in Priorities
      BY <3>2, QueueMatrixAssumption DEF Pinned
    <3>4. batchChans[p] \in Seq(Seq(Requests))
      BY <3>3 DEF BatcherTypeOK
    <3>5. Len(batchChans[p]) \in Nat /\ Len(batchChans[p]) < ChanCapacity
      BY <1>9, <3>4 DEF DispatchSend
    <3> QED BY <3>1, <3>3, <3>4, <3>5, AdaptiveBatcherAssumption
  <2>2. /\ Append(batchChans[p], batch) \in Seq(Seq(Requests))
        /\ Len(Append(batchChans[p], batch)) <= ChanCapacity
    BY <2>1, AdaptiveBatcherAssumption
  <2>3. pc' \in [Callers -> States]
    BY <1>2, <1>9 DEF DispatchSend, LoopStates
  <2>4. batchChans' = [batchChans EXCEPT ![p] = Append(@, batch)]
    BY <1>9 DEF DispatchSend
  <2> HIDE DEF p
  <2>5. /\ batchChans' \in [Priorities -> Seq(Seq(Requests))]
        /\ \A x \in Priorities : Len(batchChans'[x]) <= ChanCapacity
    BY <2>1, <2>2, <2>4 DEF BatcherTypeOK
  <2>6. batch' \in Seq(Requests) /\ Len(batch') <= MaxBatchSize
    BY <1>9, QueueMatrixAssumption DEF DispatchSend
  <2> QED BY <1>9, <2>3, <2>5, <2>6 DEF DispatchSend, envVars, BatcherTypeOK
<1>10. ASSUME NEW s, Notify(s) PROVE results' \in [Requests -> {"empty", "ErrShuttingDown"}]
  BY <1>10 DEF Notify, BatcherTypeOK
<1>11. CASE DispatchFail
  <2>1. pc' \in [Callers -> States]
    BY <1>2, <1>11 DEF DispatchFail, DrainStates
  <2>2. batch' \in Seq(Requests) /\ Len(batch') <= MaxBatchSize
    BY <1>11, QueueMatrixAssumption DEF DispatchFail
  <2> QED BY <1>10, <1>11, <2>1, <2>2 DEF DispatchFail, envVars, BatcherTypeOK
<1>12. ASSUME NEW c \in Callers, CallDrainAll(c) \/ DrainedAll(c) \/ CloseMatrix(c)
       PROVE  BatcherTypeOK'
  <2>1. pc' \in [Callers -> States]
    BY <1>2, <1>12 DEF CallDrainAll, DrainedAll, CloseMatrix, DrainStates
  <2>2. results' \in [Requests -> {"empty", "ErrShuttingDown"}]
    BY <1>10, <1>12 DEF CallDrainAll, DrainedAll, CloseMatrix, BatcherTypeOK
  <2> QED BY <1>12, <2>1, <2>2 DEF CallDrainAll, DrainedAll, CloseMatrix, envVars, BatcherTypeOK
<1>13. CASE StopCall \/ StopClose \/ StopChoose \/ StopReturn \/ StopGiveUp
  <2>1. /\ pc' \in [Callers -> States]
        /\ UNCHANGED <<using, batch, envVars, batchChans, results>>
    BY <1>2, <1>13 DEF StopCall, StopClose, StopChoose, StopReturn, StopGiveUp, StopMove,
                       StopStates, DrainStates
  <2> QED BY <2>1 DEF envVars, BatcherTypeOK
<1>14. CASE CtxCancel \/ SetStrategy
  BY <1>14 DEF CtxCancel, SetStrategy, loopVars, BatcherTypeOK
<1>15. ASSUME NEW p \in Priorities, WorkerReceive(p) PROVE BatcherTypeOK'
  <2>1. batchChans[p] \in Seq(Seq(Requests)) /\ batchChans[p] # <<>>
        /\ Len(batchChans[p]) <= ChanCapacity
    BY <1>15 DEF WorkerReceive, BatcherTypeOK
  <2>2. /\ Tail(batchChans[p]) \in Seq(Seq(Requests)) /\ Head(batchChans[p]) \in Seq(Requests)
        /\ Len(Tail(batchChans[p])) <= ChanCapacity
    BY <2>1, AdaptiveBatcherAssumption
  <2>3. /\ batchChans' \in [Priorities -> Seq(Seq(Requests))]
        /\ \A x \in Priorities : Len(batchChans'[x]) <= ChanCapacity
    BY <1>15, <2>2 DEF WorkerReceive, BatcherTypeOK
  <2>4. received' \in SUBSET Requests
    BY <1>15, <2>2 DEF WorkerReceive, BatcherTypeOK, ToSet
  <2> QED BY <1>15, <2>3, <2>4 DEF WorkerReceive, loopVars, BatcherTypeOK
<1> QED BY <1>1, <1>3, <1>4, <1>6, <1>7, <1>8, <1>9, <1>11, <1>12, <1>13, <1>14, <1>15,
           AbUnchanged, Zenon DEF Next, LoopStep, StopStep

-----------------------------------------------------------------------------
(* Control.                                                                *)

\* how a drain moves through its phases, and what of its locals it changes
LEMMA DrainPhases ==
  ASSUME TypeInv, NEW c \in Callers, DrainStep(c)
  PROVE  /\ \A d \in Callers \ {c} : /\ call'[d] = call[d] /\ out'[d] = out[d]
                                     /\ cursor'[d] = cursor[d]
         /\ UNCHANGED <<limit, seen, swept, eventChan, submitVars>>
         /\ \/ call[c] \in {"walk", "walkPull"} /\ call'[c] \in {"walk", "walkPull", "settle", "done"}
            \/ /\ call[c] = "pull" /\ call'[c] \in {"pull", "settle", "done"}
               /\ cursor'[c] = cursor[c]
            \/ /\ call[c] = "settle" /\ call'[c] = "done"
               /\ cursor'[c] = cursor[c] /\ out'[c] = out[c]
            \/ /\ call[c] = "sweep" /\ call'[c] \in {"sweep", "done"}
               /\ call'[c] = "done" => cursor'[c] = NumQueues + 1
         /\ \/ out'[c] = out[c]
            \/ call[c] = "sweep"
            \/ Len(out[c]) < limit[c] /\ out'[c] = Append(out[c], Head(queues[cursor[c]]))
<1> USE DEF TypeInv, TypeOK, Phase, submitVars
<1>1. CASE WalkSkip(c) \/ WalkEnter(c) \/ WalkEnd(c)
  BY <1>1 DEF WalkSkip, WalkEnter, WalkEnd
<1>2. CASE Pull(c)
  BY <1>2 DEF Pull, Receive
<1>3. CASE PullStop(c) \/ PullNothing(c) \/ PullNone(c) \/ Settle(c)
  BY <1>3 DEF PullStop, PullNothing, PullNone, Settle
<1>4. CASE Sweep(c)
  BY <1>4 DEF Sweep, Receive
<1>5. CASE SweepNext(c) \/ SweepEnd(c)
  BY <1>5 DEF SweepNext, SweepEnd
<1> QED BY <1>1, <1>2, <1>3, <1>4, <1>5 DEF DrainStep

\* a Submit changes nothing of a drain
LEMMA SubmitSteps ==
  ASSUME NEW r \in Requests, SubmitToMatrix(r) \/ SubmitContinue(r)
  PROVE  UNCHANGED <<closed, drainVars, abVars>>
  BY SubmitterSteps DEF SubmitLock, SubmitClosed, SubmitStep, SubmitSend, SubmitFull, SubmitCount,
                        SubmitWake, SubmitPhase

\* Calls of drains begin and end with the control states around them.
LEMMA CallStep ==
  ASSUME TypeInv, BatcherTypeOK, CallOK, [Next]_vars
  PROVE  CallOK'
<1> USE TheCallers DEF CallOK
<1>1. ASSUME UNCHANGED <<pc, call>> PROVE CallOK'
  BY <1>1
<1>2. ASSUME NEW r \in Requests,
             SubmitAdmit(r) \/ SubmitReject(r) \/ SubmitToMatrix(r) \/ SubmitContinue(r)
      PROVE  UNCHANGED <<pc, call>>
  BY <1>2, SubmitSteps DEF SubmitAdmit, SubmitReject, Enter, loopVars, qmVars, abVars, drainVars
<1>3. CASE \/ CtxCancel \/ SetStrategy \/ Terminated \/ UNCHANGED vars
           \/ \E p \in Priorities : WorkerReceive(p)
  BY <1>1, <1>3 DEF CtxCancel, SetStrategy, Terminated, WorkerReceive, vars, loopVars, qmVars,
                    abVars, drainVars
<1>4. ASSUME NEW c \in Callers, InDrain(c) PROVE CallOK'
  <2>1. pc' = pc
    BY <1>4, AbUnchanged DEF abVars, loopVars
  <2> QED BY <1>4, <2>1, DrainPhases DEF InDrain
\* steps of one goroutine between two states outside a drain
<1>5. ASSUME NEW from, NEW to, Goto("loop", from, to), call' = call,
             from \notin {"draining", "toppingUp", "sweeping"},
             to \notin {"draining", "toppingUp", "sweeping"},
             to \in LoopStates \cup DrainStates \cup {"stopped"}
      PROVE  CallOK'
  BY <1>5 DEF Goto, BatcherTypeOK
<1>6. CASE \/ Start \/ LoopExit \/ LoopForm \/ WaitEvent \/ WaitShutdown
           \/ DecideFlush \/ DecideAccumulate \/ JudgeFlush \/ JudgeWait
           \/ WindowEvent \/ WindowOver \/ RearmSignal \/ RearmQuiet
           \/ DispatchSend \/ DispatchFail
  <2>1. call' = call
    BY <1>6 DEF Start, LoopExit, LoopForm, WaitEvent, WaitShutdown, DecideFlush, DecideAccumulate,
                JudgeFlush, JudgeWait, WindowEvent, WindowOver, RearmSignal, RearmQuiet,
                DispatchSend, DispatchFail, TakeEvent, Signal, qmVars, drainVars
  <2>2. \E from, to : /\ Goto("loop", from, to)
                      /\ from \notin {"draining", "toppingUp", "sweeping"}
                      /\ to \notin {"draining", "toppingUp", "sweeping"}
                      /\ to \in LoopStates \cup DrainStates \cup {"stopped"}
    BY <1>6 DEF Start, LoopExit, LoopForm, WaitEvent, WaitShutdown, DecideFlush, DecideAccumulate,
                JudgeFlush, JudgeWait, WindowEvent, WindowOver, RearmSignal, RearmQuiet, AfterForm,
                DispatchSend, DispatchFail, Step, LoopStates, DrainStates
  <2> QED BY <1>5, <2>1, <2>2
<1>7. CASE CallDrain \/ CallDrainFrom
  <2>1. call["loop"] = "idle" /\ pc'["stopper"] = pc["stopper"] /\ call'["stopper"] = call["stopper"]
    BY <1>7 DEF CallDrain, CallDrainFrom, Step, Goto, DrainBegin, DrainFromBegin, Phase,
                TypeInv, TypeOK, BatcherTypeOK
  <2>2. \/ pc'["loop"] = "draining" /\ call'["loop"] = "walk"
        \/ pc'["loop"] = "toppingUp" /\ call'["loop"] \in {"pull", "done"}
    BY <1>7 DEF CallDrain, CallDrainFrom, Step, Goto, DrainBegin, DrainFromBegin, Phase,
                TypeInv, TypeOK, BatcherTypeOK
  <2> QED BY <2>1, <2>2 DEF LoopStates
<1>8. CASE Drained \/ ToppedUp
  <2>1. /\ call'["loop"] = "idle" /\ call'["stopper"] = call["stopper"]
        /\ pc'["loop"] \in {"rearm", "decide", "judge"} /\ pc'["stopper"] = pc["stopper"]
    BY <1>8 DEF Drained, ToppedUp, Goto, Return, Phase, TypeInv, TypeOK, BatcherTypeOK
  <2> QED BY <2>1 DEF LoopStates
<1>9. ASSUME NEW c \in Callers, CallDrainAll(c) \/ DrainedAll(c) \/ CloseMatrix(c)
      PROVE  CallOK'
  <2>1. /\ pc'[c] \in DrainStates \cup {"stopped"}
        /\ \A d \in Callers \ {c} : pc'[d] = pc[d] /\ call'[d] = call[d]
        /\ \/ pc'[c] = "sweeping" /\ call'[c] = "sweep"
           \/ pc'[c] \notin {"draining", "toppingUp", "sweeping"} /\ call'[c] = "idle"
    BY <1>9 DEF CallDrainAll, DrainedAll, CloseMatrix, Goto, DrainAllBegin, Return, Close, Phase,
                drainVars, DrainStates, TypeInv, TypeOK, BatcherTypeOK
  <2>2. pc'[c] \notin {"draining", "toppingUp"}
    BY <2>1 DEF DrainStates
  <2> QED BY <2>1, <2>2
<1>10. CASE StopCall \/ StopClose \/ StopChoose \/ StopReturn \/ StopGiveUp
  <2>1. /\ call' = call /\ pc'["loop"] = pc["loop"]
        /\ pc'["stopper"] \in StopStates \cup DrainStates \cup {"stopped"}
        /\ pc["stopper"] \notin {"draining", "toppingUp", "sweeping"}
        /\ pc'["stopper"] \notin {"draining", "toppingUp", "sweeping"}
    BY <1>10 DEF StopCall, StopClose, StopChoose, StopReturn, StopGiveUp, StopMove, Goto,
                 StopStates, DrainStates, qmVars, drainVars, BatcherTypeOK
  <2> QED BY <2>1
<1> QED BY <1>1, <1>2, <1>3, <1>4, <1>6, <1>7, <1>8, <1>9, <1>10, Zenon
        DEF Next, LoopStep, StopStep

\* Nothing is added to a batch beyond the limit its drain was called with.
LEMMA BatchStep ==
  ASSUME TypeInv, LocalsOK, BatcherTypeOK, CallOK, BatchOK, [Next]_vars
  PROVE  BatchOK'
<1> USE TheCallers DEF BatchOK
<1>1. ASSUME pc'["loop"] = pc["loop"], batch' = batch,
             out'["loop"] = out["loop"], limit'["loop"] = limit["loop"],
             cursor'["loop"] = cursor["loop"]
      PROVE  BatchOK'
  BY <1>1 DEF Pinned
<1>2. ASSUME NEW r \in Requests,
             SubmitAdmit(r) \/ SubmitReject(r) \/ SubmitToMatrix(r) \/ SubmitContinue(r)
      PROVE  UNCHANGED <<pc, batch, out, limit, cursor>>
  BY <1>2, SubmitSteps DEF SubmitAdmit, SubmitReject, Enter, loopVars, qmVars, abVars, drainVars
<1>3. CASE \/ CtxCancel \/ SetStrategy \/ Terminated \/ UNCHANGED vars
           \/ \E p \in Priorities : WorkerReceive(p)
  BY <1>1, <1>3 DEF CtxCancel, SetStrategy, Terminated, WorkerReceive, vars, loopVars, qmVars,
                    abVars, drainVars
<1>4. ASSUME NEW c \in Callers, InDrain(c) PROVE BatchOK'
  <2>1. pc' = pc /\ batch' = batch
    BY <1>4, AbUnchanged DEF abVars, loopVars
  <2>2. CASE c = "stopper"
    BY <1>1, <1>4, <2>1, <2>2, DrainPhases DEF InDrain
  <2>3. CASE c = "loop"
    <3>1. pc["loop"] = "sweeping" => BatchOK'
      BY <2>1 DEF EmptyHanded, Filling
    <3>2. /\ limit'["loop"] = limit["loop"]
          /\ Len(out["loop"]) <= limit["loop"] => \/ call["loop"] = "sweep"
                                                  \/ Len(out'["loop"]) <= limit["loop"]
      <4>1. out["loop"] \in Seq(Requests) /\ Len(out["loop"]) \in Nat /\ limit["loop"] \in Nat
        BY QueueMatrixAssumption DEF TypeInv, TypeOK
      <4>2. \A x : Len(Append(out["loop"], x)) = Len(out["loop"]) + 1
        BY <4>1
      <4> QED BY <1>4, <2>3, <4>1, <4>2, DrainPhases DEF InDrain
    <3>3. pc["loop"] = "toppingUp" => cursor'["loop"] = cursor["loop"]
      BY <1>4, <2>3, DrainPhases DEF InDrain, CallOK
    <3>4. pc["loop"] \in {"draining", "toppingUp"} => call["loop"] # "sweep"
      BY DEF CallOK
    <3>5. Pinned' = Pinned
      BY <2>1 DEF Pinned
    <3> QED BY <2>1, <3>1, <3>2, <3>3, <3>4, <3>5 DEF EmptyHanded
  <2> QED BY <2>2, <2>3
\* steps of the loop that keep the batch and stay outside a drain
<1>5. ASSUME NEW from, NEW to, Goto("loop", from, to), batch' = batch,
             to \notin {"draining", "toppingUp"},
             to \in EmptyHanded => batch = <<>>,
             to \in Filling => batch # <<>>,
             to \in {"topUp", "window"} => Len(batch) < MaxBatchSize
      PROVE  BatchOK'
  BY <1>5 DEF Goto, BatcherTypeOK
<1>6. CASE Start \/ LoopExit \/ LoopForm \/ WaitEvent \/ WaitShutdown
  <2>1. \E from \in EmptyHanded : \E to \in {"check", "drain", "wait", "woken", "rearm"} :
          Goto("loop", from, to) /\ batch' = batch
    BY <1>6 DEF Start, LoopExit, LoopForm, WaitEvent, WaitShutdown, Step, EmptyHanded
  <2>2. batch = <<>>
    BY <2>1 DEF Goto
  <2> QED BY <1>5, <2>1, <2>2 DEF EmptyHanded, Filling
<1>7. CASE \/ DecideFlush \/ DecideAccumulate \/ JudgeFlush \/ JudgeWait \/ WindowEvent \/ WindowOver
  <2>1. \E from \in Filling : \E to \in {"rearm", "topUp", "window"} :
          Goto("loop", from, to) /\ batch' = batch
    BY <1>7 DEF DecideFlush, DecideAccumulate, JudgeFlush, JudgeWait, WindowEvent, WindowOver, Step,
                Filling
  <2>2. batch # <<>>
    BY <2>1 DEF Goto
  <2>3. \/ pc'["loop"] = "rearm"
        \/ Len(batch) < MaxBatchSize
    <3>1. Len(batch) \in Nat
      BY DEF BatcherTypeOK
    <3>2. (DecideAccumulate \/ JudgeWait) => ~(Len(batch) >= MaxBatchSize)
      BY DEF DecideAccumulate, JudgeWait, Enough, ShouldFlush
    <3> QED BY <1>7, <3>1, <3>2, QueueMatrixAssumption
            DEF DecideFlush, JudgeFlush, WindowEvent, WindowOver, Step, Goto, BatcherTypeOK
  <2>4. PICK from \in Filling : \E to \in {"rearm", "topUp", "window"} :
          Goto("loop", from, to) /\ batch' = batch
    BY <2>1
  <2>5. PICK to \in {"rearm", "topUp", "window"} : Goto("loop", from, to) /\ batch' = batch
    BY <2>4
  <2>6. pc'["loop"] = to
    BY <2>5 DEF Goto, BatcherTypeOK
  <2> QED BY <1>5, <2>2, <2>3, <2>5, <2>6 DEF EmptyHanded, Filling
<1>8. CASE RearmSignal \/ RearmQuiet
  <2>1. Goto("loop", "rearm", IF batch = <<>> THEN "check" ELSE "dispatch") /\ batch' = batch
    BY <1>8 DEF RearmSignal, RearmQuiet, Step, AfterForm
  <2> QED BY <1>5, <2>1 DEF EmptyHanded, Filling
<1>9. CASE DispatchSend \/ DispatchFail
  BY <1>9 DEF DispatchSend, DispatchFail, Goto, BatcherTypeOK, EmptyHanded, Filling
<1>10. CASE CallDrain
  <2>1. /\ pc'["loop"] = "draining" /\ batch' = batch /\ pc["loop"] = "woken"
        /\ out'["loop"] = out["loop"] /\ limit'["loop"] = MaxBatchSize
    BY <1>10 DEF CallDrain, Step, Goto, DrainBegin, Phase, BatcherTypeOK, TypeInv, TypeOK
  <2>2. out["loop"] = <<>> /\ batch = <<>>
    BY <1>10, <2>1 DEF CallDrain, DrainBegin, Phase, LocalsOK, EmptyHanded
  <2>3. Len(out'["loop"]) <= limit'["loop"]
    BY <2>1, <2>2, QueueMatrixAssumption
  <2> QED BY <2>1, <2>2, <2>3 DEF EmptyHanded, Filling
<1>11. CASE CallDrainFrom
  <2>1. /\ pc'["loop"] = "toppingUp" /\ batch' = batch /\ pc["loop"] = "topUp"
        /\ out'["loop"] = out["loop"] /\ limit'["loop"] = MaxBatchSize - Len(batch)
        /\ cursor'["loop"] = Pinned
    BY <1>11 DEF CallDrainFrom, Step, Goto, DrainFromBegin, Phase, BatcherTypeOK, TypeInv, TypeOK
  <2>2. out["loop"] = <<>> /\ batch # <<>> /\ Len(batch) < MaxBatchSize
    BY <1>11, <2>1 DEF CallDrainFrom, DrainFromBegin, Phase, LocalsOK, Filling
  <2>3. Len(out'["loop"]) <= limit'["loop"] /\ Len(batch) + limit'["loop"] = MaxBatchSize
    <3>1. Len(batch) \in Nat /\ Len(out["loop"]) = 0
      BY <2>2 DEF BatcherTypeOK
    <3> QED BY <2>1, <2>2, <3>1, QueueMatrixAssumption
  <2> QED BY <2>1, <2>2, <2>3 DEF EmptyHanded, Filling, Pinned
<1>12. CASE Drained
  BY <1>12 DEF Drained, Goto, BatcherTypeOK, EmptyHanded, Filling
<1>13. CASE ToppedUp
  BY <1>13, Collected DEF ToppedUp, Goto, BatcherTypeOK, EmptyHanded, Filling
<1>14. ASSUME CallDrainAll("loop") \/ DrainedAll("loop") \/ CloseMatrix("loop")
       PROVE  BatchOK'
  <2>1. \E from \in EmptyHanded : \E to \in {"sweeping", "close", "stopped"} :
          Goto("loop", from, to) /\ batch' = batch
    BY <1>14 DEF CallDrainAll, DrainedAll, CloseMatrix, EmptyHanded
  <2>2. batch = <<>>
    BY <2>1 DEF Goto
  <2> QED BY <1>5, <2>1, <2>2 DEF Filling
<1>15. ASSUME CallDrainAll("stopper") \/ DrainedAll("stopper") \/ CloseMatrix("stopper")
       PROVE  BatchOK'
  BY <1>1, <1>15 DEF CallDrainAll, DrainedAll, CloseMatrix, Goto, DrainAllBegin, Return, Close,
                     Phase, drainVars, TypeInv, TypeOK, BatcherTypeOK
<1>16. CASE StopCall \/ StopClose \/ StopChoose \/ StopReturn \/ StopGiveUp
  BY <1>1, <1>16 DEF StopCall, StopClose, StopChoose, StopReturn, StopGiveUp, StopMove, Goto,
                     qmVars, drainVars, BatcherTypeOK
<1> QED BY <1>1, <1>2, <1>3, <1>4, <1>6, <1>7, <1>8, <1>9, <1>10, <1>11, <1>12, <1>13, <1>14,
           <1>15, <1>16, Zenon DEF Next, LoopStep, StopStep

-----------------------------------------------------------------------------
(* Shutdown.                                                               *)

\* A goroutine sweeps or closes only when no formBatch can follow.
LEMMA ExitStep ==
  ASSUME BatcherTypeOK, CallOK, ExitOK, [Next]_vars
  PROVE  ExitOK'
<1> USE TheCallers DEF ExitOK
\* what is stopped stays stopped, what sweeps goes on to stop
<1>1. ASSUME UNCHANGED <<pc, swept, closed>> PROVE ExitOK'
  BY <1>1 DEF LoopOut
<1>2. ASSUME NEW r \in Requests,
             SubmitAdmit(r) \/ SubmitReject(r) \/ SubmitToMatrix(r) \/ SubmitContinue(r)
      PROVE  UNCHANGED <<pc, swept, closed>>
  BY <1>2, SubmitSteps DEF SubmitAdmit, SubmitReject, Enter, loopVars, qmVars, submitVars, abVars,
                           drainVars
<1>3. CASE \/ CtxCancel \/ SetStrategy \/ Terminated \/ UNCHANGED vars
           \/ \E p \in Priorities : WorkerReceive(p)
  BY <1>1, <1>3 DEF CtxCancel, SetStrategy, Terminated, WorkerReceive, vars, loopVars, qmVars,
                    submitVars, abVars, drainVars
<1>4. ASSUME NEW c \in Callers, InDrain(c) PROVE UNCHANGED <<pc, swept, closed>>
  BY <1>4, AbUnchanged DEF InDrain, abVars, loopVars, DrainStep, WalkSkip, WalkEnter, WalkEnd, Pull,
       PullStop, PullNothing, PullNone, Settle, Sweep, SweepNext, SweepEnd, Phase, submitVars
\* a step of the loop that is not its drain()
<1>5. ASSUME NEW from \in LoopStates, NEW to, Goto("loop", from, to), UNCHANGED <<swept, closed>>,
             ~LoopOut \/ to \in {"check", "drain"}
      PROVE  ExitOK'
  <2>1. pc'["loop"] = to /\ pc'["stopper"] = pc["stopper"]
        /\ pc["loop"] \notin {"sweeping", "close", "stopped"}
    BY <1>5 DEF Goto, BatcherTypeOK, LoopStates
  <2>2. pc["stopper"] \in DrainStates \cup {"stopped"} => LoopOut'
    BY <1>5, <2>1 DEF LoopOut, DrainStates
  <2> QED BY <1>5, <2>1, <2>2
<1>6. CASE Start \/ LoopExit
  BY <1>5, <1>6 DEF Start, LoopExit, LoopStates, qmVars, submitVars, drainVars
<1>7. CASE LoopForm
  <2>1. pc["stopper"] \in {"idle", "flagged"}
    BY <1>7 DEF LoopForm, ShuttingDown, StopSignalled
  <2>2. pc'["loop"] = "wait" /\ pc'["stopper"] = pc["stopper"] /\ UNCHANGED <<swept, closed>>
        /\ pc["loop"] = "check"
    BY <1>7 DEF LoopForm, Goto, BatcherTypeOK, qmVars, submitVars, drainVars
  <2> QED BY <2>1, <2>2 DEF DrainStates
<1>8. CASE \/ WaitEvent \/ WaitShutdown \/ CallDrain \/ Drained
           \/ DecideFlush \/ DecideAccumulate \/ CallDrainFrom \/ ToppedUp
           \/ JudgeFlush \/ JudgeWait \/ WindowEvent \/ WindowOver \/ RearmSignal \/ RearmQuiet
           \/ DispatchSend \/ DispatchFail
  <2>1. UNCHANGED <<swept, closed>>
    BY <1>8 DEF WaitEvent, WaitShutdown, CallDrain, Drained, DecideFlush, DecideAccumulate,
         CallDrainFrom, ToppedUp, JudgeFlush, JudgeWait, WindowEvent, WindowOver, RearmSignal,
         RearmQuiet, DispatchSend, DispatchFail, TakeEvent, Signal, DrainBegin, DrainFromBegin,
         Return, Phase, qmVars, submitVars, drainVars
  <2>2. \E from \in LoopStates \ {"unstarted", "check"} : \E to : Goto("loop", from, to)
    BY <1>8 DEF WaitEvent, WaitShutdown, CallDrain, Drained, DecideFlush, DecideAccumulate,
         CallDrainFrom, ToppedUp, JudgeFlush, JudgeWait, WindowEvent, WindowOver, RearmSignal,
         RearmQuiet, DispatchSend, DispatchFail, Step, LoopStates
  <2>3. PICK from \in LoopStates \ {"unstarted", "check"} : \E to : Goto("loop", from, to)
    BY <2>2
  <2>4. ~LoopOut
    BY <2>3 DEF Goto, LoopOut, LoopStates, DrainStates
  <2> QED BY <1>5, <2>1, <2>3, <2>4
<1>9. ASSUME NEW c \in Callers, CallDrainAll(c) \/ DrainedAll(c) \/ CloseMatrix(c)
      PROVE  ExitOK'
  <2>1. /\ pc[c] \in DrainStates /\ pc'[c] \in {"sweeping", "close", "stopped"}
        /\ \A d \in Callers \ {c} : pc'[d] = pc[d]
        /\ pc[c] = "sweeping" => pc'[c] = "close"
        /\ swept' => swept \/ pc'[c] = "sweeping"
        /\ closed' => closed \/ pc'[c] = "stopped"
    BY <1>9 DEF CallDrainAll, DrainedAll, CloseMatrix, Goto, DrainAllBegin, Return, Close, Phase,
                submitVars, drainVars, DrainStates, BatcherTypeOK
  <2>2. pc'["stopper"] \in DrainStates \cup {"stopped"} => pc["stopper"] \in DrainStates \cup {"stopped"}
    BY <2>1
  <2>3. LoopOut => LoopOut'
    BY <2>1 DEF LoopOut, DrainStates
  <2>4. \A d \in Callers : pc[d] = "stopped" => pc'[d] = "stopped"
    BY <2>1 DEF DrainStates
  <2> QED BY <2>1, <2>2, <2>3, <2>4
<1>10. CASE StopCall \/ StopClose \/ StopGiveUp
  <2>1. /\ UNCHANGED <<swept, closed>> /\ pc'["loop"] = pc["loop"]
        /\ pc["stopper"] \in StopStates /\ pc'["stopper"] \in StopStates
    BY <1>10 DEF StopCall, StopClose, StopGiveUp, StopMove, Goto, StopStates, qmVars, submitVars,
                 drainVars, BatcherTypeOK
  <2> QED BY <2>1 DEF StopStates, DrainStates, LoopOut
<1>11. CASE StopChoose \/ StopReturn
  <2>1. /\ UNCHANGED <<swept, closed>> /\ pc'["loop"] = pc["loop"]
        /\ pc["stopper"] \in StopStates
        /\ \/ pc'["stopper"] = "waiting"
           \/ pc["loop"] \in {"unstarted", "stopped"}
    BY <1>11 DEF StopChoose, StopReturn, StopMove, Goto, Started, StopStates, qmVars, submitVars,
                 drainVars, BatcherTypeOK
  <2>2. pc'["stopper"] \in DrainStates \cup {"stopped"} => LoopOut'
    BY <2>1 DEF LoopOut, DrainStates
  <2> QED BY <2>1, <2>2 DEF StopStates
<1> QED BY <1>1, <1>2, <1>3, <1>4, <1>6, <1>7, <1>8, <1>9, <1>10, <1>11, Zenon
        DEF Next, LoopStep, StopStep

\* no formBatch is under way once a DrainAll has begun
LEMMA SweepFindsLoopOut ==
  ASSUME BatcherTypeOK, CallOK, ExitOK,
         swept \/ closed \/ \E c \in Callers : pc[c] = "sweeping"
  PROVE  LoopOut
  BY TheCallers DEF ExitOK, LoopOut, DrainStates

\* The closed matrix has no Drain or DrainFrom under way.
LEMMA ClosedAfterDrains == CallOK /\ BatcherTypeOK /\ ExitOK => NeverDrainsClosed
<1> SUFFICES ASSUME CallOK, BatcherTypeOK, ExitOK, closed
             PROVE  call["loop"] \notin {"walkPull", "pull"}
  BY DEF NeverDrainsClosed
<1>1. pc["loop"] \notin {"draining", "toppingUp"}
  BY SweepFindsLoopOut DEF LoopOut, DrainStates
<1> QED BY <1>1, TheCallers DEF CallOK

-----------------------------------------------------------------------------
(* Wake-ups.                                                               *)

\* No request is queued exactly when every sub-queue is empty.
LEMMA EmptyQueues == TypeInv => (Queued = {} <=> \A q \in SubQueues : queues[q] = <<>>)
<1> SUFFICES ASSUME TypeInv PROVE Queued = {} <=> \A q \in SubQueues : queues[q] = <<>>
  OBVIOUS
<1>1. ASSUME NEW q \in SubQueues PROVE ToSet(queues[q]) = {} <=> queues[q] = <<>>
  <2>1. queues[q] \in Seq(Requests)
    BY DEF TypeInv, TypeOK
  <2>2. queues[q] # <<>> => Head(queues[q]) \in ToSet(queues[q])
    BY <2>1 DEF ToSet
  <2>3. ToSet(<<>>) = {}
    BY DEF ToSet
  <2> QED BY <2>2, <2>3
<1>2. Queued = {} <=> \A q \in SubQueues : ToSet(queues[q]) = {}
  BY DEF Queued
<1> QED BY <1>1, <1>2

\* Only the loop takes a token; a Submit turns its promise of one into a token.
LEMMA AttendedStays ==
  ASSUME TypeInv, Attended, [QMNext]_qmVars, ~TakeEvent
  PROVE  Attended'
<1> USE DEF Attended, WakeOnTheWay
<1>1. ASSUME NEW r \in Requests, SubmitLock(r) \/ SubmitClosed(r) \/ SubmitStep(r)
      PROVE  Attended'
  <2>1. CASE SubmitWake(r)
    BY <2>1 DEF SubmitWake
  <2>2. CASE ~SubmitWake(r)
    <3>1. eventChan' = eventChan
      BY <1>1, <2>2 DEF SubmitLock, SubmitClosed, SubmitStep, SubmitSend, SubmitFull, SubmitCount
    <3>2. \A x \in Requests : submitter[x] \in {"sent", "counted"} => submitter'[x] \in {"sent", "counted"}
      BY <1>1, <2>2 DEF SubmitLock, SubmitClosed, SubmitStep, SubmitSend, SubmitFull, SubmitCount,
                        SubmitPhase, TypeInv, TypeOK
    <3> QED BY <3>1, <3>2
  <2> QED BY <2>1, <2>2
<1>2. ASSUME NEW c \in Callers, DrainStep(c) PROVE Attended'
  BY <1>2, DrainPhases DEF submitVars
<1>3. ASSUME NEW c \in Callers,
             \/ \E max \in 1..MaxBatchSize : DrainBegin(c, max)
             \/ \E max \in 1..MaxBatchSize, q \in SubQueues : DrainFromBegin(c, q, max)
             \/ DrainAllBegin(c)
             \/ Return(c)
      PROVE  Attended'
  BY <1>3 DEF DrainBegin, DrainFromBegin, DrainAllBegin, Return, Phase, submitVars
<1>4. CASE Signal \/ Close \/ UNCHANGED qmVars
  BY <1>4 DEF Signal, Close, qmVars, submitVars
<1> QED BY <1>1, <1>2, <1>3, <1>4 DEF QMNext

\* A sub-queue is filled only by a Submit that is about to send a token.
LEMMA ArrivalIsAttended ==
  ASSUME PlaceInv, [QMNext]_qmVars, ~Attended', NEW q \in SubQueues, queues[q] = <<>>
  PROVE  queues'[q] = <<>>
<1> TypeInv /\ InOnePlace
  BY DEF PlaceInv
<1>1. ASSUME NEW r \in Requests, SubmitLock(r) \/ SubmitClosed(r) \/ SubmitStep(r)
      PROVE  queues' = queues
  <2>1. ~SubmitSend(r)
    BY DEF SubmitSend, SubmitPhase, Attended, WakeOnTheWay, TypeInv, TypeOK
  <2> QED BY <1>1, <2>1 DEF SubmitLock, SubmitClosed, SubmitStep, SubmitFull, SubmitCount, SubmitWake
<1>2. ASSUME NEW c \in Callers, DrainStep(c) PROVE queues'[q] = <<>>
  <2>1. CASE Pull(c) \/ Sweep(c)
    <3>1. queues[cursor[c]] # <<>> /\ queues' = [queues EXCEPT ![cursor[c]] = Tail(@)]
      BY <2>1 DEF Pull, Sweep, Receive
    <3> QED BY <3>1 DEF TypeInv, TypeOK
  <2>2. CASE ~(Pull(c) \/ Sweep(c))
    BY <1>2, <2>2 DEF DrainStep, WalkSkip, WalkEnter, WalkEnd, PullStop, PullNothing, PullNone,
                      Settle, SweepNext, SweepEnd
  <2> QED BY <2>1, <2>2
<1>3. ASSUME NEW c \in Callers,
             \/ \E max \in 1..MaxBatchSize : DrainBegin(c, max)
             \/ \E max \in 1..MaxBatchSize, p \in SubQueues : DrainFromBegin(c, p, max)
             \/ DrainAllBegin(c)
             \/ Return(c)
      PROVE  queues' = queues
  BY <1>3 DEF DrainBegin, DrainFromBegin, DrainAllBegin, Return
<1>4. CASE Signal \/ TakeEvent \/ Close \/ UNCHANGED qmVars
  BY <1>4 DEF Signal, TakeEvent, Close, qmVars
<1> QED BY <1>1, <1>2, <1>3, <1>4 DEF QMNext

\* The depth counter reads too low only while a Submit is between its send and
\* its Add(1); so what the deferred re-arm does not see is announced.
LEMMA LowDepthIsAttended ==
  ASSUME PlaceInv, DepthAccounting, BatcherTypeOK, CallOK, ExitOK,
         pc["loop"] = "rearm", ~(depth > 0)
  PROVE  Queued = {} \/ Attended
<1> TypeInv
  BY DEF PlaceInv
<1>1. ~swept
  BY SweepFindsLoopOut DEF LoopOut, DrainStates
<1>2. \A c \in Callers : call[c] \notin Unsettling
  BY TheCallers DEF CallOK, Unsettling, StopStates, DrainStates
<1>3. Unsettled = {}
  BY <1>2, UnsettledIs
<1>4. /\ Cardinality(Queued) \in Nat /\ Cardinality(Uncounted) \in Nat /\ depth \in Int
      /\ depth = Cardinality(Queued) + 0 - Cardinality(Uncounted)
  BY <1>1, <1>3, CountedTypes, CardType, FS_EmptySet DEF DepthAccounting, TypeInv, TypeOK
<1>5. CASE Uncounted = {}
  <2>1. Cardinality(Queued) = 0
    BY <1>4, <1>5, FS_EmptySet
  <2>2. Queued = {}
    BY <2>1, CountedTypes, CardType, FS_EmptySet
  <2> QED BY <2>2
<1>6. CASE Uncounted # {}
  BY <1>6 DEF Uncounted, Attended, WakeOnTheWay
<1> QED BY <1>5, <1>6

\* the actions that leave the loop where it is and take no token
LEMMA OthersKeepWake ==
  ASSUME PlaceInv, BatcherTypeOK, BatchOK, WakeOK, [QMNext]_qmVars, ~TakeEvent, batch' = batch,
         pc'["loop"] = pc["loop"], call'["loop"] = call["loop"], out'["loop"] = out["loop"]
  PROVE  WakeOK'
<1> TypeInv
  BY DEF PlaceInv
<1>1. CASE Attended'
  BY <1>1 DEF WakeOK
<1>2. CASE ~Attended'
  <2>1. ~Attended
    BY <1>2, AttendedStays
  <2>2. \A q \in SubQueues : queues[q] = <<>> => queues'[q] = <<>>
    BY <1>2, ArrivalIsAttended
  <2>3. Queued = {} => Queued' = {}
    <3>1. Queued = {} => \A q \in SubQueues : queues'[q] = <<>>
      BY <2>2, EmptyQueues
    <3>2. ToSet(<<>>) = {}
      BY DEF ToSet
    <3>3. (\A q \in SubQueues : queues'[q] = <<>>) => Queued' = {}
      BY <3>2 DEF Queued
    <3> QED BY <3>1, <3>3
  <2>4. Pinned' = Pinned
    BY DEF Pinned
  <2>5. ~HasHigherPriorityThan(Pinned) => ~HasHigherPriorityThan(Pinned)'
    <3>1. ASSUME NEW q, ~HasHigherPriorityThan(q) PROVE ~HasHigherPriorityThan(q)'
      BY <2>2, <3>1 DEF HasHigherPriorityThan
    <3> QED BY <2>4, <3>1 DEF HasHigherPriorityThan
  <2>6. ASSUME queues[Pinned] = <<>>, batch # <<>>
        PROVE  queues'[Pinned'] = <<>>
    <3>1. Head(batch) \in Requests
      BY <2>6 DEF BatcherTypeOK
    <3>2. Pinned \in SubQueues
      BY <3>1, QueueMatrixAssumption DEF Pinned
    <3> QED BY <2>2, <2>4, <2>6, <3>2
  <2>7. pc["loop"] \in {"toppingUp", "judge", "window"} => batch # <<>>
    BY DEF BatchOK, Filling
  <2>8. pc["loop"] \in {"unstarted", "check", "wait", "dispatch"} => Queued' = {}
    BY <2>1, <2>3 DEF WakeOK
  <2>9. pc["loop"] = "toppingUp" /\ call["loop"] \in {"settle", "done"} =>
          queues'[Pinned'] = <<>> \/ Len(batch) + Len(out["loop"]) = MaxBatchSize
    BY <2>1, <2>6, <2>7 DEF WakeOK
  <2>10. pc["loop"] = "judge" => queues'[Pinned'] = <<>> \/ Len(batch) = MaxBatchSize
    BY <2>1, <2>6, <2>7 DEF WakeOK
  <2>11. pc["loop"] = "window" =>
           queues'[Pinned'] = <<>> /\ ~HasHigherPriorityThan(Pinned)'
    BY <2>1, <2>5, <2>6, <2>7 DEF WakeOK
  <2> QED BY <2>8, <2>9, <2>10, <2>11 DEF WakeOK
<1> QED BY <1>1, <1>2

\* the loop's own drain ends because it is full or finds the sub-queue empty
LEMMA OwnDrainKeepsWake ==
  ASSUME PlaceInv, BatcherTypeOK, CallOK, BatchOK, WakeOK, InDrain("loop")
  PROVE  WakeOK'
<1> TypeInv /\ LocalsOK
  BY DEF PlaceInv
<1> USE TheCallers
<1>1. pc' = pc /\ batch' = batch /\ Pinned' = Pinned /\ DrainStep("loop")
  BY AbUnchanged DEF InDrain, abVars, loopVars, Pinned
<1>2. CASE pc["loop"] # "toppingUp"
  BY <1>1, <1>2 DEF WakeOK, CallOK, InDrain, DrainStep, WalkSkip, WalkEnter, WalkEnd, Pull,
       PullStop, PullNothing, PullNone, Settle, Sweep, SweepNext, SweepEnd, Phase, LoopStates, DrainStates
<1>3. CASE pc["loop"] = "toppingUp"
  <2>1. /\ call["loop"] \in {"pull", "settle", "done"} /\ cursor["loop"] = Pinned
        /\ Len(batch) + limit["loop"] = MaxBatchSize
    BY <1>3 DEF CallOK, BatchOK
  <2>2. CASE Pull("loop")
    BY <1>1, <1>3, <2>1, <2>2 DEF Pull, WakeOK
  <2>3. CASE PullStop("loop")
    <3>1. UNCHANGED <<queues, out>>
          /\ (Len(out["loop"]) = limit["loop"] \/ queues[cursor["loop"]] = <<>>)
      BY <2>3 DEF PullStop, PullOver
    <3>2. queues'[Pinned'] = <<>> \/ Len(batch') + Len(out'["loop"]) = MaxBatchSize
      BY <1>1, <2>1, <3>1
    <3> QED BY <1>1, <1>3, <3>2 DEF WakeOK
  <2>4. CASE PullNone("loop")
    <3>1. limit["loop"] \in 1..MaxBatchSize /\ out["loop"] = <<>> /\ queues' = queues
      BY <2>4 DEF PullNone, Phase, LocalsOK
    <3>2. Len(out["loop"]) # limit["loop"]
      BY <3>1
    <3>3. queues'[Pinned'] = <<>>
      BY <1>1, <2>1, <2>4, <3>1, <3>2 DEF PullNone, PullOver
    <3> QED BY <1>1, <1>3, <3>3 DEF WakeOK
  <2>5. CASE Settle("loop")
    <3>1. UNCHANGED <<queues, out, eventChan, submitter>> /\ call["loop"] = "settle"
      BY <2>5 DEF Settle, Phase, submitVars
    <3> QED BY <1>1, <1>3, <3>1 DEF WakeOK, Attended, WakeOnTheWay
  <2> QED BY <1>1, <2>1, <2>2, <2>3, <2>4, <2>5 DEF DrainStep, WalkSkip, WalkEnter, WalkEnd,
             PullNothing, Sweep, SweepNext, SweepEnd, Phase
<1> QED BY <1>2, <1>3

\* where the loop has just looked, or need not have looked
LEMMA LoopKeepsWake ==
  ASSUME PlaceInv, DepthAccounting, BatcherTypeOK, CallOK, BatchOK, ExitOK, WakeOK,
         Start \/ (LoopStep /\ ~InDrain("loop"))
  PROVE  WakeOK'
<1> TypeInv
  BY DEF PlaceInv
<1> USE TheCallers
<1>1. ASSUME pc'["loop"] \notin {"unstarted", "check", "wait", "dispatch", "toppingUp", "judge", "window"}
      PROVE  WakeOK'
  BY <1>1 DEF WakeOK
<1>2. ASSUME NEW from, NEW to, Goto("loop", from, to)
      PROVE  pc["loop"] = from /\ pc'["loop"] = to
  BY <1>2 DEF Goto, BatcherTypeOK
<1>3. CASE \/ LoopExit \/ WaitEvent \/ WaitShutdown \/ CallDrain \/ Drained
           \/ DecideFlush \/ DecideAccumulate \/ JudgeFlush \/ WindowEvent \/ WindowOver
           \/ DispatchFail \/ CallDrainAll("loop") \/ DrainedAll("loop") \/ CloseMatrix("loop")
  <2>1. \E from : \E to \in {"drain", "woken", "rearm", "draining", "decide", "topUp", "sweeping",
                             "close", "stopped"} : Goto("loop", from, to)
    BY <1>3 DEF LoopExit, WaitEvent, WaitShutdown, CallDrain, Drained, DecideFlush, DecideAccumulate,
         JudgeFlush, WindowEvent, WindowOver, DispatchFail, CallDrainAll, DrainedAll, CloseMatrix, Step
  <2> QED BY <1>1, <1>2, <2>1
<1>4. CASE Start \/ LoopForm \/ DispatchSend
  <2>1. /\ UNCHANGED <<queues, eventChan, submitter>>
        /\ pc["loop"] \in {"unstarted", "check", "dispatch"}
        /\ pc'["loop"] \in {"check", "wait"}
    BY <1>2, <1>4 DEF Start, LoopForm, DispatchSend, qmVars, submitVars
  <2>2. Queued' = Queued /\ Attended' = Attended
    BY <2>1 DEF Queued, Attended, WakeOnTheWay
  <2> QED BY <2>1, <2>2 DEF WakeOK
<1>5. CASE CallDrainFrom
  <2>1. /\ pc'["loop"] = "toppingUp" /\ Pinned' = Pinned /\ queues' = queues
        /\ call'["loop"] = IF queues[Pinned] = <<>> THEN "done" ELSE "pull"
    BY <1>2, <1>5 DEF CallDrainFrom, Step, DrainFromBegin, Phase, Pinned, TypeInv, TypeOK
  <2> QED BY <2>1 DEF WakeOK
<1>6. CASE ToppedUp
  <2>1. /\ pc["loop"] = "toppingUp" /\ pc'["loop"] = "judge" /\ batch' = batch \o out["loop"]
        /\ call["loop"] = "done" /\ UNCHANGED <<queues, eventChan, submitter>>
    BY <1>2, <1>6 DEF ToppedUp, Return, Phase, submitVars
  <2>2. batch # <<>> /\ batch \in Seq(Requests) /\ out["loop"] \in Seq(Requests)
    BY <2>1 DEF BatchOK, Filling, BatcherTypeOK, TypeInv, TypeOK
  <2>3. Head(batch') = Head(batch) /\ Len(batch') = Len(batch) + Len(out["loop"])
    BY <2>1, <2>2
  <2>4. Pinned' = Pinned
    BY <2>3 DEF Pinned
  <2>5. queues[Pinned] = <<>> \/ Len(batch') = MaxBatchSize \/ Attended
    BY <2>1, <2>3 DEF WakeOK
  <2>6. Attended' = Attended
    BY <2>1 DEF Attended, WakeOnTheWay
  <2> QED BY <2>1, <2>4, <2>5, <2>6 DEF WakeOK
<1>7. CASE JudgeWait
  <2>1. /\ pc["loop"] = "judge" /\ pc'["loop"] = "window" /\ ~Enough /\ batch' = batch
        /\ UNCHANGED <<queues, eventChan, submitter>>
    BY <1>2, <1>7 DEF JudgeWait, Step, qmVars, submitVars
  <2>2. Len(batch) # MaxBatchSize
    BY <2>1, QueueMatrixAssumption DEF Enough, ShouldFlush
  <2>3. queues[Pinned] = <<>> \/ Attended
    BY <2>1, <2>2 DEF WakeOK
  <2>4. ~HasHigherPriorityThan(Pinned)
    BY <2>1 DEF Enough
  <2>5. /\ Attended' = Attended /\ Pinned' = Pinned
        /\ HasHigherPriorityThan(Pinned)' = HasHigherPriorityThan(Pinned)
    BY <2>1 DEF Attended, WakeOnTheWay, HasHigherPriorityThan, Pinned
  <2> QED BY <2>1, <2>3, <2>4, <2>5 DEF WakeOK
<1>8. CASE RearmSignal
  <2>1. pc'["loop"] \in {"check", "dispatch"} /\ eventChan'
    BY <1>2, <1>8 DEF RearmSignal, Step, AfterForm, Signal
  <2> QED BY <2>1 DEF WakeOK, Attended
<1>9. CASE RearmQuiet
  <2>1. /\ pc'["loop"] \in {"check", "dispatch"} /\ pc["loop"] = "rearm" /\ ~(depth > 0)
        /\ UNCHANGED <<queues, eventChan, submitter>>
    BY <1>2, <1>9 DEF RearmQuiet, Step, AfterForm, qmVars, submitVars
  <2>2. Queued' = Queued /\ Attended' = Attended
    BY <2>1 DEF Queued, Attended, WakeOnTheWay
  <2> QED BY <2>1, <2>2, LowDepthIsAttended DEF WakeOK
<1> QED BY <1>3, <1>4, <1>5, <1>6, <1>7, <1>8, <1>9, Zenon DEF LoopStep

\* what the actions of everyone but the loop leave alone
LEMMA OthersSpareLoop ==
  ASSUME TypeInv, BatcherTypeOK, CallOK, [Next]_vars, ~Start, ~LoopStep
  PROVE  /\ UNCHANGED <<batch>> /\ ~TakeEvent
         /\ pc'["loop"] = pc["loop"] /\ call'["loop"] = call["loop"] /\ out'["loop"] = out["loop"]
         /\ cursor'["loop"] = cursor["loop"]
<1> USE TheCallers
<1> DEFINE Goal == /\ UNCHANGED <<batch>> /\ ~TakeEvent
                   /\ pc'["loop"] = pc["loop"] /\ call'["loop"] = call["loop"]
                   /\ out'["loop"] = out["loop"] /\ cursor'["loop"] = cursor["loop"]
<1>1. ASSUME NEW r \in Requests,
             SubmitAdmit(r) \/ SubmitReject(r) \/ SubmitToMatrix(r) \/ SubmitContinue(r)
      PROVE  Goal
  <2>1. UNCHANGED <<batch, pc, call, out, cursor>>
    BY <1>1, SubmitSteps DEF SubmitAdmit, SubmitReject, Enter, loopVars, qmVars, abVars, drainVars
  <2>2. eventChan' = eventChan \/ eventChan'
    BY <1>1, SubmitterSteps DEF SubmitAdmit, SubmitReject, Enter, qmVars, SubmitLock, SubmitClosed,
         SubmitStep, SubmitSend, SubmitFull, SubmitCount, SubmitWake
  <2> QED BY <2>1, <2>2 DEF TakeEvent
<1>2. CASE \/ CtxCancel \/ SetStrategy \/ Terminated \/ UNCHANGED vars
           \/ \E p \in Priorities : WorkerReceive(p)
           \/ StopCall \/ StopClose \/ StopChoose \/ StopReturn \/ StopGiveUp
  <2>1. UNCHANGED <<batch, call, out, cursor, eventChan>> /\ pc'["loop"] = pc["loop"]
    BY <1>2 DEF CtxCancel, SetStrategy, Terminated, WorkerReceive, vars, loopVars, qmVars, abVars,
         drainVars, StopCall, StopClose, StopChoose, StopReturn, StopGiveUp, StopMove, Goto,
         BatcherTypeOK
  <2> QED BY <2>1 DEF TakeEvent
<1>3. CASE InDrain("stopper")
  <2>1. UNCHANGED abVars
    BY <1>3, AbUnchanged
  <2> QED BY <1>3, <2>1, DrainPhases DEF InDrain, abVars, loopVars, TakeEvent
<1>4. CASE CallDrainAll("stopper") \/ DrainedAll("stopper") \/ CloseMatrix("stopper")
  <2>1. UNCHANGED <<batch, eventChan>> /\ pc'["loop"] = pc["loop"]
        /\ call'["loop"] = call["loop"] /\ out'["loop"] = out["loop"]
        /\ cursor'["loop"] = cursor["loop"]
    BY <1>4 DEF CallDrainAll, DrainedAll, CloseMatrix, Goto, DrainAllBegin, Return, Close, Phase,
                drainVars, TypeInv, TypeOK, BatcherTypeOK
  <2> QED BY <2>1 DEF TakeEvent
<1> QED BY <1>1, <1>2, <1>3, <1>4, Zenon DEF Next, StopStep

\* A wake is consumed only to look, and a look that finds work acts on it.
LEMMA WakeStep ==
  ASSUME PlaceInv, DepthAccounting, BatcherTypeOK, CallOK, BatchOK, ExitOK, WakeOK, [Next]_vars
  PROVE  WakeOK'
<1>1. [QMNext]_qmVars /\ TypeInv
  BY MatrixStep DEF PlaceInv
<1>2. CASE Start \/ LoopStep
  BY <1>2, LoopKeepsWake, OwnDrainKeepsWake
<1>3. CASE ~(Start \/ LoopStep)
  BY <1>1, <1>3, OthersSpareLoop, OthersKeepWake
<1> QED BY <1>2, <1>3

-----------------------------------------------------------------------------
(* Answers.                                                                *)

\* somewhere on its way to an answer
Accounted(r) ==
  \/ r \in Queued
  \/ \E d \in Callers : r \in ToSet(out[d])
  \/ results[r] = "ErrShuttingDown"

\* notifyShutdown turns what a drain() holds into answers.
LEMMA NotifyAnswers ==
  ASSUME BatcherTypeOK, NEW s, Notify(s), NEW r \in Requests
  PROVE  /\ r \in ToSet(s) => results'[r] = "ErrShuttingDown"
         /\ results[r] = "ErrShuttingDown" => results'[r] = "ErrShuttingDown"
<1>1. results[r] \in {"empty", "ErrShuttingDown"}
  BY DEF BatcherTypeOK
<1> QED BY <1>1 DEF Notify

\* Inside the matrix a request only moves from a sub-queue to a result.
LEMMA MovesAreAccounted ==
  ASSUME PlaceInv, NEW r, Accounted(r), results' = results,
         \/ \E x \in Requests : SubmitLock(x) \/ SubmitClosed(x) \/ SubmitStep(x)
         \/ \E c \in Callers : DrainStep(c)
         \/ UNCHANGED <<queues, out>>
  PROVE  Accounted(r)'
<1> TypeInv /\ InOnePlace
  BY DEF PlaceInv
<1>1. CASE UNCHANGED <<queues, out>>
  BY <1>1 DEF Accounted, Queued
<1>2. ASSUME NEW x \in Requests, SubmitLock(x) \/ SubmitClosed(x) \/ SubmitStep(x)
      PROVE  Accounted(r)'
  <2>1. CASE SubmitSend(x)
    <3>1. Queued' = Queued \cup {x}
      BY Zenon, <2>1, SendPlaces
    <3>2. out' = out
      BY <2>1 DEF SubmitSend, SubmitPhase, drainVars
    <3> QED BY <3>1, <3>2 DEF Accounted
  <2>2. CASE ~SubmitSend(x)
    BY <1>1, <1>2, <2>2 DEF SubmitLock, SubmitClosed, SubmitStep, SubmitFull, SubmitCount, SubmitWake,
                            SubmitPhase, drainVars
  <2> QED BY <2>1, <2>2
<1>3. ASSUME NEW c \in Callers, DrainStep(c) PROVE Accounted(r)'
  <2>1. CASE Pull(c) \/ Sweep(c)
    <3>1. cursor[c] \in SubQueues /\ Receive(c, cursor[c])
      BY <2>1 DEF Pull, Sweep, TypeInv, CursorOK
    <3> DEFINE h == Head(queues[cursor[c]])
    <3>2. /\ Queued' = Queued \ {h} /\ ToSet(out'[c]) = ToSet(out[c]) \cup {h}
          /\ \A d \in Callers \ {c} : out'[d] = out[d]
      BY <3>1, ReceivePlaces
    <3> HIDE DEF h
    <3> QED BY <3>2 DEF Accounted
  <2>2. CASE ~(Pull(c) \/ Sweep(c))
    BY <1>1, <1>3, <2>2 DEF DrainStep, WalkSkip, WalkEnter, WalkEnd, PullStop, PullNothing, PullNone,
                            Settle, SweepNext, SweepEnd
  <2> QED BY <2>1, <2>2
<1> QED BY <1>1, <1>2, <1>3

\* What a drain() saw moves only into a result or to its answer.
LEMMA SeenStep ==
  ASSUME PlaceInv, BatcherTypeOK, CallOK, ExitOK, SeenOK, [Next]_vars
  PROVE  SeenOK'
<1> TypeInv /\ LocalsOK
  BY DEF PlaceInv
<1> USE TheCallers
<1> SUFFICES ASSUME NEW c \in Callers, pc'[c] = "sweeping", NEW r \in seen'[c]
             PROVE  Accounted(r)'
  BY DEF SeenOK, Accounted
<1>1. ASSUME pc[c] = "sweeping", seen'[c] = seen[c], results' = results,
             \/ \E x \in Requests : SubmitLock(x) \/ SubmitClosed(x) \/ SubmitStep(x)
             \/ \E d \in Callers : DrainStep(d)
             \/ UNCHANGED <<queues, out>>
      PROVE  Accounted(r)'
  <2>1. Accounted(r)
    BY <1>1 DEF SeenOK, Accounted
  <2> QED BY <1>1, <2>1, MovesAreAccounted
<1>2. ASSUME pc[c] = "sweeping", seen'[c] = seen[c], UNCHANGED <<queues>>,
             NEW s, Notify(s),
             \A d \in Callers : ToSet(out[d]) \subseteq ToSet(out'[d]) \cup ToSet(s)
      PROVE  Accounted(r)'
  <2>1. Accounted(r) /\ r \in Requests
    BY <1>1, <1>2 DEF SeenOK, Accounted, TypeInv, TypeOK
  <2>2. Queued' = Queued
    BY <1>2 DEF Queued
  <2> QED BY <1>2, <2>1, <2>2, NotifyAnswers DEF Accounted
<1>3. ASSUME NEW x \in Requests, SubmitToMatrix(x) \/ SubmitContinue(x) PROVE Accounted(r)'
  <2>1. pc[c] = "sweeping" /\ seen'[c] = seen[c] /\ results' = results
    BY <1>3, SubmitSteps DEF drainVars, abVars, loopVars
  <2> QED BY <1>1, <1>3, <2>1, SubmitterSteps
<1>4. ASSUME NEW d \in Callers, InDrain(d) PROVE Accounted(r)'
  <2>1. pc[c] = "sweeping" /\ seen'[c] = seen[c] /\ results' = results /\ DrainStep(d)
    BY <1>4, AbUnchanged, DrainPhases DEF abVars, loopVars, InDrain
  <2> QED BY <1>1, <2>1
<1>5. ASSUME NEW d \in Callers, NEW from, NEW to, Goto(d, from, to), to # "sweeping"
      PROVE  pc[c] = "sweeping" /\ d # c
  BY <1>5 DEF Goto, BatcherTypeOK
<1>6. CASE \/ \E x \in Requests : SubmitAdmit(x) \/ SubmitReject(x)
           \/ CtxCancel \/ SetStrategy \/ Terminated \/ UNCHANGED vars
           \/ \E p \in Priorities : WorkerReceive(p)
  <2>1. pc[c] = "sweeping" /\ UNCHANGED <<queues, out, seen, results>>
    BY <1>6 DEF SubmitAdmit, SubmitReject, Enter, CtxCancel, SetStrategy, Terminated, WorkerReceive,
                vars, loopVars, qmVars, abVars, drainVars
  <2> QED BY <1>1, <2>1
<1>7. CASE \/ Start \/ LoopExit \/ LoopForm \/ WaitEvent \/ WaitShutdown
           \/ DecideFlush \/ DecideAccumulate \/ JudgeFlush \/ JudgeWait
           \/ WindowEvent \/ WindowOver \/ RearmSignal \/ RearmQuiet \/ DispatchSend
           \/ StopCall \/ StopClose \/ StopChoose \/ StopReturn \/ StopGiveUp
           \/ \E d \in Callers : CloseMatrix(d)
  <2>1. UNCHANGED <<queues, out, seen, results>>
    BY <1>7 DEF Start, LoopExit, LoopForm, WaitEvent, WaitShutdown, DecideFlush, DecideAccumulate,
         JudgeFlush, JudgeWait, WindowEvent, WindowOver, RearmSignal, RearmQuiet, DispatchSend,
         StopCall, StopClose, StopChoose, StopReturn, StopGiveUp, StopMove, CloseMatrix, Step,
         TakeEvent, Signal, Close, qmVars, drainVars
  <2>2. \E d \in Callers : \E from, to : Goto(d, from, to) /\ to # "sweeping"
    BY <1>7 DEF Start, LoopExit, LoopForm, WaitEvent, WaitShutdown, DecideFlush, DecideAccumulate,
         JudgeFlush, JudgeWait, WindowEvent, WindowOver, RearmSignal, RearmQuiet, DispatchSend,
         StopCall, StopClose, StopChoose, StopReturn, StopGiveUp, StopMove, CloseMatrix, Step, AfterForm
  <2> QED BY <1>1, <1>5, <2>1, <2>2
<1>8. CASE CallDrain \/ CallDrainFrom
  <2>1. \E from, to : Goto("loop", from, to) /\ to # "sweeping"
    BY <1>8 DEF CallDrain, CallDrainFrom, Step
  <2>2. c = "stopper" /\ pc[c] = "sweeping"
    BY <1>5, <2>1
  <2>3. UNCHANGED <<queues, out, results>> /\ seen'[c] = seen[c]
    BY <1>8, <2>2 DEF CallDrain, CallDrainFrom, Step, DrainBegin, DrainFromBegin, TypeInv, TypeOK
  <2> QED BY <1>1, <2>2, <2>3
<1>9. CASE Drained \/ ToppedUp
  <2>1. \E from \in {"draining", "toppingUp"} : \E to : Goto("loop", from, to) /\ to # "sweeping"
    BY <1>9 DEF Drained, ToppedUp
  <2>2. pc[c] = "sweeping" /\ pc["loop"] \in {"draining", "toppingUp"}
    BY <1>5, <2>1 DEF Goto
  <2> QED BY <2>2, SweepFindsLoopOut DEF LoopOut, DrainStates
<1>10. CASE DispatchFail
  <2>1. pc[c] = "sweeping"
    BY <1>5, <1>10 DEF DispatchFail
  <2>2. UNCHANGED <<queues, out, seen>> /\ Notify(batch)
    BY <1>10 DEF DispatchFail, qmVars, drainVars
  <2> QED BY <1>2, <2>1, <2>2
<1>11. ASSUME NEW d \in Callers, CallDrainAll(d) PROVE Accounted(r)'
  <2>1. UNCHANGED <<queues, out, results>> /\ seen'[d] = Queued
        /\ \A e \in Callers \ {d} : seen'[e] = seen[e] /\ pc'[e] = pc[e]
    BY <1>11 DEF CallDrainAll, Goto, DrainAllBegin, TypeInv, TypeOK, BatcherTypeOK
  <2>2. CASE c = d
    BY <2>1, <2>2 DEF Accounted, Queued
  <2>3. CASE c # d
    BY <1>1, <2>1, <2>3
  <2> QED BY <2>2, <2>3
<1>12. ASSUME NEW d \in Callers, DrainedAll(d) PROVE Accounted(r)'
  <2>1. c # d /\ pc[c] = "sweeping"
    BY <1>5, <1>12 DEF DrainedAll
  <2>2. /\ queues' = queues /\ seen'[c] = seen[c] /\ Notify(out[d])
        /\ \A e \in Callers \ {d} : out'[e] = out[e]
    BY <1>12, <2>1 DEF DrainedAll, Return, TypeInv, TypeOK
  <2>3. \A e \in Callers : ToSet(out[e]) \subseteq ToSet(out'[e]) \cup ToSet(out[d])
    BY <2>2
  <2> QED BY <1>2, <2>1, <2>2, <2>3
<1> QED BY <1>3, <1>4, <1>6, <1>7, <1>8, <1>9, <1>10, <1>11, <1>12, Zenon
        DEF Next, LoopStep, StopStep

\* The walk of DrainAll ends past the last sub-queue.
LEMMA SweepStep ==
  ASSUME TypeInv, BatcherTypeOK, CallOK, SweepOK, [Next]_vars
  PROVE  SweepOK'
<1> USE TheCallers
<1> SUFFICES ASSUME NEW c \in Callers, pc'[c] = "sweeping", call'[c] = "done"
             PROVE  cursor'[c] = NumQueues + 1
  BY DEF SweepOK
<1>1. ASSUME pc[c] = "sweeping", call'[c] = call[c], cursor'[c] = cursor[c]
      PROVE  cursor'[c] = NumQueues + 1
  BY <1>1 DEF SweepOK
<1>2. ASSUME NEW d \in Callers, NEW from, NEW to, Goto(d, from, to), to # "sweeping"
      PROVE  pc[c] = "sweeping" /\ d # c
  BY <1>2 DEF Goto, BatcherTypeOK
<1>3. CASE \/ \E r \in Requests : \/ SubmitAdmit(r) \/ SubmitReject(r)
                                  \/ SubmitToMatrix(r) \/ SubmitContinue(r)
           \/ CtxCancel \/ SetStrategy \/ Terminated \/ UNCHANGED vars
           \/ \E p \in Priorities : WorkerReceive(p)
  <2>1. UNCHANGED <<pc, call, cursor>>
    BY <1>3, SubmitSteps DEF SubmitAdmit, SubmitReject, Enter, CtxCancel, SetStrategy, Terminated,
         WorkerReceive, vars, loopVars, qmVars, abVars, drainVars
  <2> QED BY <1>1, <2>1
<1>4. ASSUME NEW d \in Callers, InDrain(d) PROVE cursor'[c] = NumQueues + 1
  <2>1. pc[c] = "sweeping" /\ DrainStep(d)
    BY <1>4, AbUnchanged DEF abVars, loopVars, InDrain
  <2>2. CASE c # d
    BY <1>1, <2>1, <2>2, DrainPhases
  <2>3. CASE c = d
    <3>1. call[c] = "sweep"
      BY <2>1, <2>3, DrainPhases DEF CallOK
    <3> QED BY <2>1, <2>3, <3>1, DrainPhases
  <2> QED BY <2>2, <2>3
<1>5. CASE \/ Start \/ LoopExit \/ LoopForm \/ WaitEvent \/ WaitShutdown
           \/ DecideFlush \/ DecideAccumulate \/ JudgeFlush \/ JudgeWait
           \/ WindowEvent \/ WindowOver \/ RearmSignal \/ RearmQuiet \/ DispatchSend \/ DispatchFail
           \/ StopCall \/ StopClose \/ StopChoose \/ StopReturn \/ StopGiveUp
           \/ \E d \in Callers : CloseMatrix(d)
  <2>1. UNCHANGED <<call, cursor>>
    BY <1>5 DEF Start, LoopExit, LoopForm, WaitEvent, WaitShutdown, DecideFlush, DecideAccumulate,
         JudgeFlush, JudgeWait, WindowEvent, WindowOver, RearmSignal, RearmQuiet, DispatchSend,
         DispatchFail, StopCall, StopClose, StopChoose, StopReturn, StopGiveUp, StopMove, CloseMatrix,
         Step, TakeEvent, Signal, Close, qmVars, drainVars
  <2>2. \E d \in Callers : \E from, to : Goto(d, from, to) /\ to # "sweeping"
    BY <1>5 DEF Start, LoopExit, LoopForm, WaitEvent, WaitShutdown, DecideFlush, DecideAccumulate,
         JudgeFlush, JudgeWait, WindowEvent, WindowOver, RearmSignal, RearmQuiet, DispatchSend,
         DispatchFail, StopCall, StopClose, StopChoose, StopReturn, StopGiveUp, StopMove, CloseMatrix,
         Step, AfterForm
  <2> QED BY <1>1, <1>2, <2>1, <2>2
<1>6. CASE CallDrain \/ CallDrainFrom \/ Drained \/ ToppedUp
  <2>1. \E from, to : Goto("loop", from, to) /\ to # "sweeping"
    BY <1>6 DEF CallDrain, CallDrainFrom, Drained, ToppedUp, Step
  <2>2. c = "stopper" /\ pc[c] = "sweeping"
    BY <1>2, <2>1
  <2>3. call'[c] = call[c] /\ cursor'[c] = cursor[c]
    BY <1>6, <2>2 DEF CallDrain, CallDrainFrom, Drained, ToppedUp, DrainBegin, DrainFromBegin, Return,
                      Phase, TypeInv, TypeOK
  <2> QED BY <1>1, <2>2, <2>3
<1>7. ASSUME NEW d \in Callers, CallDrainAll(d) PROVE cursor'[c] = NumQueues + 1
  <2>1. /\ call'[d] = "sweep"
        /\ \A e \in Callers \ {d} : call'[e] = call[e] /\ cursor'[e] = cursor[e] /\ pc'[e] = pc[e]
    BY <1>7 DEF CallDrainAll, Goto, DrainAllBegin, Phase, TypeInv, TypeOK, BatcherTypeOK
  <2> QED BY <1>1, <2>1
<1>8. ASSUME NEW d \in Callers, DrainedAll(d) PROVE cursor'[c] = NumQueues + 1
  <2>1. c # d /\ pc[c] = "sweeping"
    BY <1>2, <1>8 DEF DrainedAll
  <2>2. call'[c] = call[c] /\ cursor'[c] = cursor[c]
    BY <1>8, <2>1 DEF DrainedAll, Return, Phase, TypeInv, TypeOK
  <2> QED BY <1>1, <2>1, <2>2
<1> QED BY <1>3, <1>4, <1>5, <1>6, <1>7, <1>8, Zenon DEF Next, LoopStep, StopStep

\* only DrainedAll takes a goroutine from sweeping to close
LEMMA SweepsEndAnswered ==
  ASSUME BatcherTypeOK, [Next]_vars, NEW c \in Callers, pc[c] = "sweeping", pc'[c] = "close"
  PROVE  DrainedAll(c)
<1> USE TheCallers
<1>1. ASSUME NEW d \in Callers, NEW from, NEW to, Goto(d, from, to), from # "sweeping"
      PROVE  FALSE
  BY <1>1 DEF Goto, BatcherTypeOK
<1>2. pc' # pc
  OBVIOUS
<1>3. CASE \/ \E r \in Requests : \/ SubmitAdmit(r) \/ SubmitReject(r)
                                  \/ SubmitToMatrix(r) \/ SubmitContinue(r)
           \/ CtxCancel \/ SetStrategy \/ Terminated \/ UNCHANGED vars
           \/ \E p \in Priorities : WorkerReceive(p)
           \/ \E d \in Callers : InDrain(d)
  BY <1>2, <1>3, SubmitSteps, AbUnchanged DEF SubmitAdmit, SubmitReject, Enter, CtxCancel, SetStrategy,
       Terminated, WorkerReceive, vars, loopVars, abVars
<1>4. CASE \/ Start \/ LoopExit \/ LoopForm \/ WaitEvent \/ WaitShutdown \/ CallDrain \/ Drained
           \/ DecideFlush \/ DecideAccumulate \/ CallDrainFrom \/ ToppedUp \/ JudgeFlush \/ JudgeWait
           \/ WindowEvent \/ WindowOver \/ RearmSignal \/ RearmQuiet \/ DispatchSend \/ DispatchFail
           \/ StopCall \/ StopClose \/ StopChoose \/ StopReturn \/ StopGiveUp
           \/ \E d \in Callers : CallDrainAll(d) \/ CloseMatrix(d)
  <2>1. \E d \in Callers : \E from, to : Goto(d, from, to) /\ from # "sweeping"
    BY <1>4 DEF Start, LoopExit, LoopForm, WaitEvent, WaitShutdown, CallDrain, Drained, DecideFlush,
         DecideAccumulate, CallDrainFrom, ToppedUp, JudgeFlush, JudgeWait, WindowEvent, WindowOver,
         RearmSignal, RearmQuiet, DispatchSend, DispatchFail, StopCall, StopClose, StopChoose,
         StopReturn, StopGiveUp, StopMove, CallDrainAll, CloseMatrix, Step
  <2> QED BY <1>1, <2>1
<1>5. ASSUME NEW d \in Callers, DrainedAll(d) PROVE d = c
  BY <1>5 DEF DrainedAll, Goto, BatcherTypeOK
<1> QED BY <1>3, <1>4, <1>5, Zenon DEF Next, LoopStep, StopStep

-----------------------------------------------------------------------------
(* The theorems.                                                           *)

\* The batcher starts empty and outside every drain.
LEMMA BatcherInit == Init => BatcherInv
<1> SUFFICES ASSUME Init PROVE BatcherInv
  OBVIOUS
<1> USE TheCallers
<1>1. PlaceInv /\ DepthAccounting
  BY TypeInit, PlaceInit, DepthInit DEF Init, PlaceInv
<1>2. BatcherTypeOK
  <2>1. pc \in [Callers -> LoopStates \cup DrainStates \cup StopStates \cup {"stopped"}]
    BY DEF Init, LoopStates, StopStates
  <2>2. \A p \in Priorities : batchChans[p] = <<>> /\ Len(batchChans[p]) <= ChanCapacity
    BY AdaptiveBatcherAssumption DEF Init
  <2>3. batch \in Seq(Requests) /\ Len(batch) <= MaxBatchSize
    BY QueueMatrixAssumption DEF Init
  <2>4. batchChans \in [Priorities -> Seq(Seq(Requests))]
    BY DEF Init
  <2>5. /\ entry \in [Requests -> {"new", "admitted", "rejected"}]
        /\ results \in [Requests -> {"empty", "ErrShuttingDown"}]
        /\ received \in SUBSET Requests
    BY DEF Init
  <2>6. ctxDone \in BOOLEAN /\ strategy \in BOOLEAN /\ using \in BOOLEAN
    BY Zenon DEF Init
  <2> QED BY <2>1, <2>2, <2>3, <2>4, <2>5, <2>6 DEF BatcherTypeOK
<1>3. pc["loop"] = "unstarted" /\ pc["stopper"] = "idle" /\ \A c \in Callers : call[c] = "idle"
  BY DEF Init, QMInit
<1>4. CallOK /\ BatchOK
  BY <1>3 DEF Init, CallOK, BatchOK, LoopStates, StopStates, EmptyHanded, Filling
<1>5. ExitOK /\ SeenOK /\ SweepOK
  BY <1>3 DEF Init, QMInit, ExitOK, DrainStates, SeenOK, SweepOK
<1>6. WakeOK
  <2>1. ToSet(<<>>) = {}
    BY DEF ToSet
  <2>2. Queued = {}
    BY <2>1 DEF Init, QMInit, Queued
  <2> QED BY <1>3, <2>2 DEF WakeOK
<1> QED BY <1>1, <1>2, <1>4, <1>5, <1>6 DEF BatcherInv

\* The parts together are inductive.
LEMMA BatcherStep == BatcherInv /\ [Next]_vars => BatcherInv'
<1> SUFFICES ASSUME BatcherInv, [Next]_vars PROVE BatcherInv'
  OBVIOUS
<1>1. PlaceInv /\ TypeInv /\ LocalsOK /\ DepthAccounting /\ BatcherTypeOK /\ CallOK /\ BatchOK
      /\ ExitOK /\ WakeOK /\ SeenOK /\ SweepOK
  BY DEF BatcherInv, PlaceInv
<1>2. [QMNext]_qmVars
  BY <1>1, MatrixStep
<1>3. PlaceInv' /\ DepthAccounting'
  BY <1>1, <1>2, PlaceStep, DepthStep
<1>4. BatcherTypeOK'
  BY <1>1, BatcherTypeStep
<1>5. CallOK' /\ BatchOK' /\ ExitOK'
  BY <1>1, CallStep, BatchStep, ExitStep
<1>6. WakeOK' /\ SeenOK' /\ SweepOK'
  BY <1>1, WakeStep, SeenStep, SweepStep
<1> QED BY <1>3, <1>4, <1>5, <1>6 DEF BatcherInv

\* The inductive invariant holds of every behaviour.
LEMMA BatcherInvHolds == Spec => []BatcherInv
  BY BatcherInit, BatcherStep, PTL DEF Spec

(* Start, formBatch, accumulate, drain and Stop use the matrix only as its *)
(* specification allows: never two drains of one goroutine at a time, and  *)
(* never a DrainFrom for fewer than one request.  All that is proved of    *)
(* QMSpec therefore holds of the batcher.                                  *)
THEOREM BatcherDrivesMatrix == Spec => QMSpec
<1>1. Init => QMInit
  BY DEF Init
<1>2. BatcherInv /\ [Next]_vars => [QMNext]_qmVars
  BY MatrixStep DEF BatcherInv
<1> QED BY <1>1, <1>2, BatcherInvHolds, PTL DEF Spec, QMSpec

(* Type correctness; its core is that no batch outgrows MaxBatchSize,      *)
(* although accumulate tops it up as often as a wake comes                 *)
(* (adaptive.go:269-273).                                                  *)
THEOREM BatcherTypeCorrect == Spec => []BatcherTypeOK
<1>1. BatcherInv => BatcherTypeOK
  BY DEF BatcherInv
<1> QED BY <1>1, BatcherInvHolds, PTL

(* A batch never overtakes a request of a higher priority that was queued  *)
(* when its Drain began (queue_matrix.go:106-120), now for the matrix as   *)
(* the batcher drives it.                                                  *)
THEOREM BatcherLeavesNothing == Spec => []NothingLeftBehind
  BY BatcherDrivesMatrix, WalkLeavesNothing, PTL

(* formBatch never blocks over a queued request without a wake             *)
(* (adaptive.go:225-241), for any number of requests, sub-queues and       *)
(* handlers.                                                               *)
THEOREM NoWakeIsLost == Spec => []NoLostWakeup
<1>1. BatcherInv => NoLostWakeup
  BY DEF BatcherInv, WakeOK, Attended, NoLostWakeup
<1> QED BY <1>1, BatcherInvHolds, PTL

(* accumulate never waits over a request it should take or yield to        *)
(* (adaptive.go:269-292).                                                  *)
THEOREM NoArrivalIsMissed == Spec => []NoMissedArrival
<1>1. BatcherInv => NoMissedArrival
  BY DEF BatcherInv, WakeOK, Attended, NoMissedArrival
<1> QED BY <1>1, BatcherInvHolds, PTL

(* No drainSubqueue runs on a closed matrix, where it would not return     *)
(* (adaptive.go:366-374, queue_matrix.go:227-247).                         *)
THEOREM ClosedIsNeverDrained == Spec => []NeverDrainsClosed
<1>1. BatcherInv => NeverDrainsClosed
  BY ClosedAfterDrains DEF BatcherInv
<1> QED BY <1>1, BatcherInvHolds, PTL

(* drain() answers all it saw queued, even when Stop's and the loop's race *)
(* (adaptive.go:366-374, 376-391).                                         *)
THEOREM DrainAnswers == Spec => DrainAnswersAllItSaw
<1> DEFINE Answers == \A c \in Callers : pc[c] = "sweeping" /\ pc'[c] = "close" =>
             \A r \in seen[c] :
               \/ results'[r] = "ErrShuttingDown"
               \/ \E d \in Callers \ {c} : r \in ToSet(out[d])
<1>1. BatcherInv /\ NothingLeftBehind /\ [Next]_vars => [Answers]_vars
  <2> SUFFICES ASSUME BatcherInv, NothingLeftBehind, [Next]_vars,
                      NEW c \in Callers, pc[c] = "sweeping", pc'[c] = "close",
                      NEW r \in seen[c], \A d \in Callers \ {c} : r \notin ToSet(out[d])
               PROVE  results'[r] = "ErrShuttingDown"
    OBVIOUS
  <2>1. PlaceInv /\ BatcherTypeOK /\ CallOK /\ SeenOK /\ SweepOK /\ TypeInv
    BY DEF BatcherInv, PlaceInv
  <2>2. DrainedAll(c)
    BY <2>1, SweepsEndAnswered
  <2>3. call[c] = "done" /\ Notify(out[c])
    BY <2>2 DEF DrainedAll, Return, Phase
  <2>4. \A q \in SubQueues : r \notin ToSet(queues[q])
    <3>1. cursor[c] = NumQueues + 1
      BY <2>1, <2>3 DEF SweepOK
    <3>2. \A q \in SubQueues : q < cursor[c]
      BY <3>1, QueueMatrixAssumption DEF SubQueues
    <3> QED BY <3>2 DEF NothingLeftBehind
  <2>5. r \notin Queued
    BY <2>4 DEF Queued
  <2>6. r \in ToSet(out[c]) \/ results[r] = "ErrShuttingDown"
    BY <2>1, <2>5 DEF SeenOK
  <2>7. r \in Requests
    BY <2>1 DEF TypeInv, TypeOK
  <2> QED BY <2>1, <2>3, <2>6, <2>7, NotifyAnswers
<1> QED BY <1>1, BatcherInvHolds, BatcherLeavesNothing, PTL DEF Spec, DrainAnswersAllItSaw

-----------------------------------------------------------------------------
(* AdaptiveBatcher implements BatchingService: sequences.                  *)

\* Sequences are put together from shorter ones in one way.
LEMMA AppendAfter ==
  ASSUME NEW S, NEW s \in Seq(S), NEW t \in Seq(S), NEW x \in S
  PROVE  s \o Append(t, x) = Append(s \o t, x)
<1>1. <<x>> \in Seq(S) /\ s \o t \in Seq(S)
  BY ConcatProperties
<1>2. Append(t, x) = t \o <<x>> /\ Append(s \o t, x) = (s \o t) \o <<x>>
  BY <1>1, AppendIsConcat
<1> QED BY <1>1, <1>2, ConcatAssociative

\* the head of the second moves to the end of the first
LEMMA HeadMoves ==
  ASSUME NEW S, NEW s \in Seq(S), NEW t \in Seq(S), t # <<>>
  PROVE  Append(s, Head(t)) \o Tail(t) = s \o t
<1>1. /\ Head(t) \in S /\ Tail(t) \in Seq(S) /\ <<Head(t)>> \in Seq(S)
      /\ Append(s, Head(t)) = s \o <<Head(t)>>
  BY HeadTailProperties, AppendIsConcat
<1>2. t = <<Head(t)>> \o Tail(t)
  <2> DEFINE u == <<Head(t)>> \o Tail(t)
  <2>1. /\ Len(t) \in Nat \ {0} /\ Len(Tail(t)) = Len(t) - 1 /\ Head(t) = t[1]
        /\ \A i \in 1..Len(t) - 1 : Tail(t)[i] = t[i + 1]
    BY HeadTailProperties
  <2>2. /\ u \in Seq(S) /\ Len(u) = Len(t)
        /\ \A i \in 1..Len(t) : u[i] = IF i <= 1 THEN t[1] ELSE Tail(t)[i - 1]
    <3>1. Len(<<Head(t)>>) = 1 /\ <<Head(t)>>[1] = t[1]
      BY <2>1
    <3>2. /\ u \in Seq(S) /\ Len(u) = 1 + Len(Tail(t))
          /\ \A i \in 1..1 + Len(Tail(t)) :
               u[i] = IF i <= 1 THEN <<Head(t)>>[i] ELSE Tail(t)[i - 1]
      BY <1>1, <3>1, ConcatProperties
    <3> HIDE DEF u
    <3>3. \A i \in 1..Len(t) : i <= 1 => i = 1
      BY <2>1
    <3> QED BY <2>1, <3>1, <3>2, <3>3
  <2> HIDE DEF u
  <2>3. \A i \in 1..Len(t) : u[i] = t[i]
    BY <2>1, <2>2
  <2>4. u = t
    BY <2>2, <2>3, SeqEqual
  <2> QED BY <2>4 DEF u
<1> QED BY <1>1, <1>2, ConcatAssociative

\* what precedes and what follows in a concatenation
LEMMA SplitConcat ==
  ASSUME NEW S, NEW s \in Seq(S), NEW t \in Seq(S), s # <<>>
  PROVE  /\ SubSeq(s \o t, 1, Len(s)) = s
         /\ SubSeq(s \o t, Len(s) + 1, Len(s \o t)) = t
<1>1. Len(s) \in Nat \ {0} /\ Len(t) \in Nat /\ Len(s \o t) = Len(s) + Len(t)
  BY EmptySeq, LenProperties, ConcatProperties
<1>2. SubSeq(s \o t, 1, Len(s)) = s
  <2>1. SubSeq(s \o t, 1, Len(s)) = SubSeq(s, 1, Len(s))
    BY <1>1, SubSeqOfConcat1
  <2> QED BY <2>1, SubSeqFull
<1>3. CASE t = <<>>
  <2>1. SubSeq(s \o t, Len(s) + 1, Len(s \o t)) = <<>>
    <3>1. Len(t) = 0
      BY <1>3
    <3> QED BY <1>1, <3>1, SubSeqEmpty
  <2> QED BY <1>2, <1>3, <2>1
<1>4. CASE t # <<>>
  <2>1. Len(t) # 0
    BY <1>4, EmptySeq
  <2>2. SubSeq(s \o t, Len(s) + 1, Len(s) + Len(t)) = SubSeq(t, 1, Len(t))
    <3>1. Len(s) + 1 \in Len(s) + 1..Len(s) + Len(t) /\ Len(s) + Len(t) \in Len(s) + 1..Len(s) + Len(t)
      BY <1>1, <2>1
    <3>2. SubSeq(s \o t, Len(s) + 1, Len(s) + Len(t))
            = SubSeq(t, (Len(s) + 1) - Len(s), (Len(s) + Len(t)) - Len(s))
      BY <3>1, SubSeqOfConcat2
    <3>3. (Len(s) + 1) - Len(s) = 1 /\ (Len(s) + Len(t)) - Len(s) = Len(t)
      BY <1>1
    <3> QED BY <3>2, <3>3
  <2> QED BY <1>1, <1>2, <2>2, SubSeqFull
<1> QED BY <1>3, <1>4

\* the first element, and the rest
LEMMA SplitHead ==
  ASSUME NEW S, NEW s \in Seq(S), s # <<>>
  PROVE  /\ Len(s) \in Nat \ {0}
         /\ ToSet(SubSeq(s, 1, 1)) = {Head(s)}
         /\ SubSeq(s, 1 + 1, Len(s)) = Tail(s)
<1>1. Len(s) \in Nat \ {0} /\ Head(s) = s[1]
  BY EmptySeq
<1>2. SubSeq(s, 2, Len(s)) = Tail(s)
  BY TailIsSubSeq
<1>3. SubSeq(s, 1, 1) = <<s[1]>>
  <2> DEFINE u == SubSeq(s, 1, 1)
  <2>1. \A i \in 1..1 : s[i] \in S
    BY <1>1, ElementOfSeq
  <2>2. u \in Seq(S) /\ Len(u) = 1 /\ u[1] = s[1]
    BY <1>1, <2>1, SubSeqProperties
  <2> HIDE DEF u
  <2>3. <<s[1]>> \in Seq(S) /\ Len(<<s[1]>>) = 1 /\ <<s[1]>>[1] = s[1]
    BY <1>1, ElementOfSeq
  <2>4. \A i \in 1..Len(u) : u[i] = <<s[1]>>[i]
    BY <2>2, <2>3
  <2>5. u = <<s[1]>>
    BY <2>2, <2>3, <2>4, SeqEqual
  <2> QED BY <2>5 DEF u
<1>4. ToSet(<<s[1]>>) = {s[1]}
  BY DEF ToSet
<1>5. ToSet(SubSeq(s, 1, 1)) = {Head(s)}
  BY Zenon, <1>1, <1>3, <1>4
<1>6. 1 + 1 = 2
  OBVIOUS
<1>7. SubSeq(s, 1 + 1, Len(s)) = Tail(s)
  BY Zenon, <1>2, <1>6
<1> QED BY Zenon, <1>1, <1>5, <1>7

\* The head of a sequence is one of its elements.
LEMMA HeadInSet ==
  ASSUME NEW S, NEW s \in Seq(S), s # <<>>
  PROVE  Head(s) \in ToSet(s)
  BY DEF ToSet

\* The empty sequence is neutral on both sides.
LEMMA EmptyConcat ==
  ASSUME NEW S, NEW s \in Seq(S)
  PROVE  <<>> \o s = s /\ s \o <<>> = s
  BY ConcatEmptySeq

-----------------------------------------------------------------------------
(* The state of the service, as AdaptiveBatcher maps it.                   *)

Fresh == {r \in Requests : submitter[r] \notin {"sent", "counted", "accepted"}}

Line == [q \in SubQueues |->
           IF InHand # <<>> /\ SubQueueOf[Head(InHand)] = q
             THEN InHand \o queues[q] ELSE queues[q]]

Refused == {r \in Requests :
              \/ results[r] = "ErrShuttingDown"
              \/ \E c \in Callers : pc[c] = "sweeping" /\ r \in ToSet(out[c])}

\* What Drain has received so far comes from the sub-queue under its cursor.
HandOK ==
  pc["loop"] = "draining" /\ out["loop"] # <<>> =>
    SubQueueOf[Head(out["loop"])] = cursor["loop"]

\* The service has its ToSet from the same community module.
LEMMA ServiceToSet == \A s : Service!ToSet(s) = ToSet(s)
  BY DEF Service!ToSet, ToSet

\* Changes of the mapped state that are an Accept.
LEMMA ServiceAccepts ==
  ASSUME NEW r \in Requests, r \in Fresh, Fresh' = Fresh \ {r},
         Line' = [Line EXCEPT ![SubQueueOf[r]] = Append(@, r)],
         UNCHANGED <<batchChans, received, Refused>>
  PROVE  Service!Next
  BY DEF Service!Next, Service!Accept, Fresh, Line, Refused

\* Changes of the mapped state that are a Form.
LEMMA ServiceForms ==
  ASSUME NEW q \in SubQueues, NEW n \in 1..MaxBatchSize, n <= Len(Line[q]),
         Line' = [Line EXCEPT ![q] = SubSeq(@, n + 1, Len(@))],
         Len(batchChans[PriorityOf[q]]) < ChanCapacity,
         batchChans' = [batchChans EXCEPT ![PriorityOf[q]] = Append(@, SubSeq(Line[q], 1, n))],
         UNCHANGED <<Fresh, received, Refused>>
  PROVE  Service!Next
<1>1. Service!Form(q, n)
  BY DEF Service!Form, Service!Take, Fresh, Line, Refused
<1> QED BY <1>1 DEF Service!Next

\* Changes of the mapped state that are a Refuse.
LEMMA ServiceRefuses ==
  ASSUME NEW q \in SubQueues, NEW n \in 1..MaxBatchSize, n <= Len(Line[q]),
         Line' = [Line EXCEPT ![q] = SubSeq(@, n + 1, Len(@))],
         Refused' = Refused \cup ToSet(SubSeq(Line[q], 1, n)),
         UNCHANGED <<Fresh, batchChans, received>>
  PROVE  Service!Next
<1>1. Service!Refuse(q, n)
  BY ServiceToSet DEF Service!Refuse, Service!Take, Fresh, Line, Refused
<1> QED BY <1>1 DEF Service!Next

\* Changes of the mapped state that are a Deliver.
LEMMA ServiceDelivers ==
  ASSUME NEW p \in Priorities, batchChans[p] # <<>>,
         batchChans' = [batchChans EXCEPT ![p] = Tail(@)],
         received' = received \cup ToSet(Head(batchChans[p])),
         UNCHANGED <<Fresh, Line, Refused>>
  PROVE  Service!Next
  BY ServiceToSet DEF Service!Next, Service!Deliver, Fresh, Line, Refused

\* Nothing of the mapped state changes.
LEMMA ServiceRests ==
  ASSUME UNCHANGED <<Fresh, Line, batchChans, received, Refused>>
  PROVE  UNCHANGED Service!vars
  BY DEF Service!vars, Fresh, Line, Refused

-----------------------------------------------------------------------------
(* What the loop holds.                                                    *)

\* Drain settles as soon as it has something and leaves a sub-queue.
LEMMA HandStep ==
  ASSUME PlaceInv, BatcherTypeOK, CallOK, HandOK, [Next]_vars
  PROVE  HandOK'
<1> TypeInv /\ InOnePlace /\ LocalsOK
  BY DEF PlaceInv
<1> USE TheCallers
<1> SUFFICES ASSUME pc'["loop"] = "draining", out'["loop"] # <<>>
             PROVE  SubQueueOf[Head(out'["loop"])] = cursor'["loop"]
  BY DEF HandOK
<1>1. CASE ~Start /\ ~LoopStep
  BY <1>1, OthersSpareLoop DEF HandOK
<1>2. ASSUME NEW from, NEW to, Goto("loop", from, to) PROVE to = "draining"
  BY <1>2 DEF Goto, BatcherTypeOK
<1>3. CASE CallDrain
  BY <1>3 DEF CallDrain, DrainBegin, Phase, LocalsOK
<1>4. CASE InDrain("loop")
  <2>1. pc["loop"] = "draining" /\ DrainStep("loop")
    BY <1>4, AbUnchanged DEF InDrain, abVars, loopVars
  <2>2. call["loop"] \in {"walk", "walkPull", "settle", "done"}
    BY <2>1 DEF CallOK
  <2>3. CASE Pull("loop")
    <3>1. /\ cursor["loop"] \in SubQueues /\ queues[cursor["loop"]] # <<>>
          /\ cursor' = cursor
          /\ out'["loop"] = Append(out["loop"], Head(queues[cursor["loop"]]))
      BY <2>3 DEF Pull, Receive, TypeInv, TypeOK, CursorOK
    <3>2. /\ out["loop"] \in Seq(Requests) /\ queues[cursor["loop"]] \in Seq(Requests)
          /\ Head(queues[cursor["loop"]]) \in Requests
      BY <3>1 DEF TypeInv, TypeOK
    <3>3. Head(queues[cursor["loop"]]) \in ToSet(queues[cursor["loop"]])
      BY <3>1, <3>2, HeadInSet
    <3>4. SubQueueOf[Head(queues[cursor["loop"]])] = cursor["loop"]
      BY <3>1, <3>3 DEF InOnePlace
    <3>5. Head(out'["loop"]) = IF out["loop"] = <<>> THEN Head(queues[cursor["loop"]])
                                                   ELSE Head(out["loop"])
      BY <3>1, <3>2, HeadTailAppend
    <3> QED BY <2>1, <3>1, <3>4, <3>5 DEF HandOK
  <2>4. CASE ~Pull("loop")
    <3>1. out' = out /\ (out["loop"] = <<>> \/ cursor' = cursor)
      BY <2>1, <2>2, <2>4 DEF DrainStep, WalkSkip, WalkEnter, WalkEnd, PullStop, PullNothing,
           PullNone, Settle, Sweep, SweepNext, SweepEnd, Phase, LocalsOK
    <3> QED BY <2>1, <3>1 DEF HandOK
  <2> QED BY <2>3, <2>4
<1>5. CASE Start \/ (LoopStep /\ ~CallDrain /\ ~InDrain("loop"))
  <2>1. \E from, to : Goto("loop", from, to) /\ to # "draining"
    BY <1>5 DEF LoopStep, Start, LoopExit, LoopForm, WaitEvent, WaitShutdown, Drained, DecideFlush,
         DecideAccumulate, CallDrainFrom, ToppedUp, JudgeFlush, JudgeWait, WindowEvent, WindowOver,
         RearmSignal, RearmQuiet, AfterForm, DispatchSend, DispatchFail, CallDrainAll, DrainedAll,
         CloseMatrix, Step
  <2> QED BY <1>2, <2>1
<1> QED BY <1>1, <1>3, <1>4, <1>5

\* the collected requests come from one sub-queue
LEMMA HandType ==
  ASSUME PlaceInv, BatcherTypeOK
  PROVE  /\ InHand \in Seq(Requests)
         /\ InHand # <<>> => Head(InHand) \in Requests /\ SubQueueOf[Head(InHand)] \in SubQueues
         /\ \A q \in SubQueues : queues[q] \in Seq(Requests)
<1>1. batch \in Seq(Requests) /\ out["loop"] \in Seq(Requests)
  BY TheCallers DEF BatcherTypeOK, PlaceInv, TypeInv, TypeOK
<1>2. InHand \in Seq(Requests)
  BY <1>1, ConcatProperties DEF InHand
<1>3. \A q \in SubQueues : queues[q] \in Seq(Requests)
  BY DEF PlaceInv, TypeInv, TypeOK
<1> QED BY <1>2, <1>3, QueueMatrixAssumption

\* outside formBatch the loop holds nothing
LEMMA HandEmpty ==
  ASSUME BatchOK, LoopOut
  PROVE  InHand = <<>> /\ batch = <<>> /\ \A q \in SubQueues : Line[q] = queues[q]
<1>1. batch = <<>> /\ InHand = batch
  BY DEF BatchOK, LoopOut, DrainStates, EmptyHanded, InHand
<1> QED BY <1>1 DEF Line

\* a step that changes neither the sub-queues nor what the loop holds
LEMMA LineRests ==
  ASSUME queues' = queues, InHand' = InHand
  PROVE  Line' = Line
  BY DEF Line

\* the loop's hand when it is outside a drain
LEMMA HandIsBatch ==
  pc["loop"] \notin {"draining", "toppingUp"} => InHand = batch
  BY DEF InHand

\* how one line changes
LEMMA LineSet ==
  ASSUME NEW q \in SubQueues, NEW x,
         \A p \in SubQueues \ {q} : Line'[p] = Line[p], Line'[q] = x
  PROVE  Line' = [Line EXCEPT ![q] = x]
<1>1. Line = [p \in SubQueues |-> Line[p]] /\ Line' = [p \in SubQueues |-> Line'[p]]
  BY DEF Line
<1> QED BY <1>1

-----------------------------------------------------------------------------
(* The steps of the service.                                               *)

\* a send into a sub-queue is the acceptance of the request
LEMMA SendAccepts ==
  ASSUME PlaceInv, BatcherTypeOK, NEW r \in Requests, SubmitSend(r), UNCHANGED abVars
  PROVE  Service!Next
<1> TypeInv
  BY DEF PlaceInv
<1> DEFINE q == SubQueueOf[r]
<1>1. /\ q \in SubQueues /\ InHand' = InHand /\ UNCHANGED <<batchChans, received, Refused>>
      /\ submitter[r] = "locked" /\ submitter' = [submitter EXCEPT ![r] = "sent"]
      /\ queues' = [queues EXCEPT ![q] = Append(@, r)]
  BY QueueMatrixAssumption DEF SubmitSend, SubmitPhase, drainVars, abVars, loopVars, envVars, InHand,
                               Refused
<1>2. r \in Fresh /\ Fresh' = Fresh \ {r}
  BY <1>1 DEF Fresh, TypeInv, TypeOK
<1>3. queues'[q] = Append(queues[q], r) /\ \A p \in SubQueues \ {q} : queues'[p] = queues[p]
  BY <1>1 DEF TypeInv, TypeOK
<1> HIDE DEF q
<1>4. Line'[q] = Append(Line[q], r)
  <2>1. InHand \o Append(queues[q], r) = Append(InHand \o queues[q], r)
    BY <1>1, HandType, AppendAfter
  <2> QED BY <1>1, <1>3, <2>1 DEF Line
<1>5. \A p \in SubQueues \ {q} : Line'[p] = Line[p]
  BY <1>1, <1>3 DEF Line
<1>6. Line' = [Line EXCEPT ![q] = Append(Line[q], r)]
  BY <1>1, <1>4, <1>5, LineSet
<1> QED BY <1>1, <1>2, <1>6, ServiceAccepts DEF q

\* a request the loop receives moves from a sub-queue to the loop's hand
LEMMA PullRests ==
  ASSUME PlaceInv, BatcherTypeOK, CallOK, BatchOK, HandOK, Pull("loop"), UNCHANGED abVars
  PROVE  UNCHANGED Service!vars
<1> TypeInv /\ InOnePlace
  BY DEF PlaceInv
<1> USE TheCallers
<1> DEFINE q == cursor["loop"]
           h == Head(queues[q])
<1>1. /\ q \in SubQueues /\ queues[q] # <<>> /\ queues' = [queues EXCEPT ![q] = Tail(@)]
      /\ out' = [out EXCEPT !["loop"] = Append(@, h)]
      /\ UNCHANGED <<submitter, pc, batch, batchChans, received, results>>
      /\ pc["loop"] \in {"draining", "toppingUp"}
  BY DEF Pull, Receive, TypeInv, CursorOK, CallOK, submitVars, abVars, loopVars, envVars
<1>2. /\ queues[q] \in Seq(Requests) /\ h \in Requests /\ SubQueueOf[h] = q
      /\ batch \in Seq(Requests) /\ out["loop"] \in Seq(Requests)
  <2>1. queues[q] \in Seq(Requests) /\ queues[q] # <<>>
    BY <1>1 DEF TypeInv, TypeOK
  <2>2. h \in ToSet(queues[q]) /\ h \in Requests
    BY <2>1, HeadInSet
  <2> QED BY <1>1, <2>1, <2>2 DEF InOnePlace, BatcherTypeOK, TypeInv, TypeOK
<1>3. /\ queues'[q] = Tail(queues[q]) /\ \A p \in SubQueues \ {q} : queues'[p] = queues[p]
      /\ out'["loop"] = Append(out["loop"], h)
  BY <1>1 DEF TypeInv, TypeOK
<1> HIDE DEF h
<1>4. InHand = batch \o out["loop"] /\ InHand' = Append(InHand, h) /\ InHand \in Seq(Requests)
  <2>1. InHand = batch \o out["loop"] /\ InHand' = batch \o Append(out["loop"], h)
    BY <1>1, <1>3 DEF InHand
  <2> QED BY <1>2, <2>1, AppendAfter, ConcatProperties
<1>5. InHand # <<>> => SubQueueOf[Head(InHand)] = q
  <2>1. CASE pc["loop"] = "draining"
    <3>1. batch = <<>> /\ InHand = out["loop"]
      BY <1>2, <1>4, <2>1, EmptyConcat DEF BatchOK, EmptyHanded
    <3> QED BY <2>1, <3>1 DEF HandOK
  <2>2. CASE pc["loop"] = "toppingUp"
    <3>1. batch # <<>> /\ SubQueueOf[Head(batch)] = q
      BY <2>2 DEF BatchOK, Filling, Pinned
    <3>2. Head(InHand) = Head(batch)
      BY <1>2, <1>4, <3>1
    <3> QED BY <3>1, <3>2
  <2> QED BY <1>1, <2>1, <2>2
<1>6. InHand' # <<>> /\ SubQueueOf[Head(InHand')] = q
  <2>1. /\ Append(InHand, h) # <<>>
        /\ Head(Append(InHand, h)) = IF InHand = <<>> THEN h ELSE Head(InHand)
    BY <1>2, <1>4, HeadTailAppend, AppendProperties
  <2> QED BY <1>2, <1>4, <1>5, <2>1
<1>7. InHand' \o queues'[q] = InHand \o queues[q]
  <2>1. Append(InHand, Head(queues[q])) \o Tail(queues[q]) = InHand \o queues[q]
    BY <1>1, <1>2, <1>4, HeadMoves
  <2>2. h = Head(queues[q])
    BY DEF h
  <2> QED BY <1>3, <1>4, <2>1, <2>2
<1>8. Line'[q] = Line[q]
  <2>1. InHand = <<>> => InHand \o queues[q] = queues[q]
    BY <1>2, EmptyConcat
  <2> QED BY <1>1, <1>5, <1>6, <1>7, <2>1 DEF Line
<1>9. \A p \in SubQueues \ {q} : Line'[p] = Line[p]
  BY <1>3, <1>5, <1>6 DEF Line
<1>10. Line' = Line
  BY <1>8, <1>9 DEF Line
<1>11. Fresh' = Fresh /\ Refused' = Refused
  <2>1. Fresh' = Fresh
    BY <1>1 DEF Fresh
  <2>2. \A c \in Callers : pc[c] = "sweeping" => out'[c] = out[c]
    BY <1>1 DEF TypeInv, TypeOK
  <2>3. Refused' = Refused
    BY <1>1, <2>2 DEF Refused
  <2> QED BY <2>1, <2>3
<1> QED BY <1>1, <1>10, <1>11, ServiceRests

\* a request that a drain() receives leaves its line to be refused
LEMMA SweepRefuses ==
  ASSUME PlaceInv, BatcherTypeOK, CallOK, BatchOK, ExitOK,
         NEW c \in Callers, Sweep(c), UNCHANGED abVars
  PROVE  Service!Next
<1> TypeInv /\ LocalsOK
  BY DEF PlaceInv
<1> USE TheCallers
<1> DEFINE q == cursor[c]
           h == Head(queues[q])
<1>1. /\ q \in SubQueues /\ queues[q] # <<>> /\ queues' = [queues EXCEPT ![q] = Tail(@)]
      /\ out' = [out EXCEPT ![c] = Append(@, h)]
      /\ UNCHANGED <<submitter, pc, batch, batchChans, received, results>>
      /\ call[c] = "sweep"
  BY DEF Sweep, Receive, submitVars, abVars, loopVars, envVars
<1>a. pc[c] = "sweeping"
  BY <1>1 DEF CallOK, StopStates, DrainStates
<1>2. /\ queues[q] \in Seq(Requests) /\ h \in Requests /\ out[c] \in Seq(Requests)
      /\ queues'[q] = Tail(queues[q]) /\ \A p \in SubQueues \ {q} : queues'[p] = queues[p]
      /\ out'[c] = Append(out[c], h) /\ \A d \in Callers \ {c} : out'[d] = out[d]
  BY <1>1 DEF TypeInv, TypeOK
<1> HIDE DEF h
<1>3. LoopOut /\ InHand = <<>> /\ InHand' = InHand /\ \A p \in SubQueues : Line[p] = queues[p]
  <2>1. LoopOut
    BY <1>a, SweepFindsLoopOut
  <2>2. pc["loop"] \notin {"draining", "toppingUp"}
    BY <2>1 DEF LoopOut, DrainStates
  <2> QED BY <1>1, <2>1, <2>2, HandEmpty DEF InHand
<1>4. \A p \in SubQueues : Line'[p] = queues'[p]
  BY <1>3 DEF Line
<1>5. /\ Len(queues[q]) \in Nat \ {0}
      /\ ToSet(SubSeq(queues[q], 1, 1)) = {h}
      /\ SubSeq(queues[q], 1 + 1, Len(queues[q])) = Tail(queues[q])
  BY <1>1, <1>2, SplitHead DEF h
<1>6. Line' = [Line EXCEPT ![q] = SubSeq(Line[q], 1 + 1, Len(Line[q]))]
  <2>1. Line'[q] = SubSeq(Line[q], 1 + 1, Len(Line[q]))
    BY <1>1, <1>2, <1>3, <1>4, <1>5
  <2>2. \A p \in SubQueues \ {q} : Line'[p] = Line[p]
    BY <1>2, <1>3, <1>4
  <2> QED BY <1>1, <2>1, <2>2, LineSet
<1>7. Refused' = Refused \cup ToSet(SubSeq(Line[q], 1, 1))
  <2>1. ToSet(out'[c]) = ToSet(out[c]) \cup {h}
    BY <1>2, AppendElements
  <2>2. \A r \in Requests : r \in Refused' <=> r \in Refused \/ r = h
    BY <1>a, <1>1, <1>2, <2>1 DEF Refused
  <2>3. Refused' = Refused \cup {h}
    BY <1>2, <2>2 DEF Refused
  <2> QED BY <1>1, <1>3, <1>5, <2>3
<1>8. 1 \in 1..MaxBatchSize /\ 1 <= Len(Line[q])
  BY <1>1, <1>3, <1>5, QueueMatrixAssumption
<1>9. Fresh' = Fresh
  BY <1>1 DEF Fresh
<1> HIDE DEF q
<1> QED BY <1>1, <1>6, <1>7, <1>8, <1>9, ServiceRefuses

\* a loop about to dispatch holds a batch at the front of its line
LEMMA BatchIsPrefix ==
  ASSUME PlaceInv, BatcherTypeOK, BatchOK, pc["loop"] = "dispatch"
  PROVE  /\ Pinned \in SubQueues /\ Len(batch) \in 1..MaxBatchSize
         /\ Len(batch) <= Len(Line[Pinned])
         /\ SubSeq(Line[Pinned], 1, Len(batch)) = batch
         /\ SubSeq(Line[Pinned], Len(batch) + 1, Len(Line[Pinned])) = queues[Pinned]
         /\ \A p \in SubQueues \ {Pinned} : Line[p] = queues[p]
<1>1. /\ batch \in Seq(Requests) /\ batch # <<>> /\ Len(batch) <= MaxBatchSize
      /\ InHand = batch
  BY HandIsBatch DEF BatchOK, Filling, BatcherTypeOK
<1>2. Len(batch) \in Nat \ {0} /\ Head(batch) \in Requests
  BY <1>1, EmptySeq
<1>3. Pinned \in SubQueues /\ Len(batch) \in 1..MaxBatchSize
  BY <1>1, <1>2, QueueMatrixAssumption DEF Pinned
<1>4. Line[Pinned] = batch \o queues[Pinned] /\ queues[Pinned] \in Seq(Requests)
  BY <1>1, <1>3, HandType DEF Line, Pinned
<1>5. /\ SubSeq(batch \o queues[Pinned], 1, Len(batch)) = batch
      /\ SubSeq(batch \o queues[Pinned], Len(batch) + 1, Len(batch \o queues[Pinned])) = queues[Pinned]
  BY <1>1, <1>4, SplitConcat
<1>6. Len(batch \o queues[Pinned]) = Len(batch) + Len(queues[Pinned]) /\ Len(queues[Pinned]) \in Nat
  BY <1>1, <1>4, ConcatProperties, LenProperties
<1>7. Len(batch) <= Len(Line[Pinned])
  BY <1>2, <1>4, <1>6
<1>8. \A p \in SubQueues \ {Pinned} : Line[p] = queues[p]
  BY <1>1 DEF Line, Pinned
<1> QED BY <1>3, <1>4, <1>5, <1>7, <1>8

\* the batch leaves its line when the loop lets go of it
LEMMA BatchLeaves ==
  ASSUME PlaceInv, BatcherTypeOK, BatchOK, pc["loop"] = "dispatch",
         batch' = <<>>, pc'["loop"] \notin {"draining", "toppingUp"}, queues' = queues
  PROVE  Line' = [Line EXCEPT ![Pinned] = SubSeq(Line[Pinned], Len(batch) + 1, Len(Line[Pinned]))]
<1>1. InHand' = <<>>
  BY DEF InHand
<1>2. \A p \in SubQueues : Line'[p] = queues[p]
  BY <1>1 DEF Line
<1>3. Line'[Pinned] = SubSeq(Line[Pinned], Len(batch) + 1, Len(Line[Pinned]))
  BY <1>2, BatchIsPrefix
<1>4. \A p \in SubQueues \ {Pinned} : Line'[p] = Line[p]
  BY <1>2, BatchIsPrefix
<1>5. Pinned \in SubQueues
  BY BatchIsPrefix
<1> QED BY <1>3, <1>4, <1>5, LineSet

\* A batch that is sent leaves the front of its line as a whole.
LEMMA DispatchForms ==
  ASSUME PlaceInv, BatcherTypeOK, BatchOK, DispatchSend
  PROVE  Service!Next
<1> USE TheCallers
<1>1. /\ pc["loop"] = "dispatch" /\ pc' = [pc EXCEPT !["loop"] = "check"] /\ batch' = <<>>
      /\ UNCHANGED <<queues, submitter, out, received, results>>
      /\ Len(batchChans[PriorityOf[Pinned]]) < ChanCapacity
      /\ batchChans' = [batchChans EXCEPT ![PriorityOf[Pinned]] = Append(@, batch)]
  BY DEF DispatchSend, Goto, qmVars, submitVars, drainVars, envVars
<1>2. pc'["loop"] = "check" /\ pc'["stopper"] = pc["stopper"]
  BY <1>1 DEF BatcherTypeOK
<1>3. Line' = [Line EXCEPT ![Pinned] = SubSeq(Line[Pinned], Len(batch) + 1, Len(Line[Pinned]))]
  BY <1>1, <1>2, BatchLeaves
<1>4. /\ Pinned \in SubQueues /\ Len(batch) \in 1..MaxBatchSize
      /\ Len(batch) <= Len(Line[Pinned]) /\ SubSeq(Line[Pinned], 1, Len(batch)) = batch
  BY <1>1, BatchIsPrefix
<1>5. Fresh' = Fresh /\ Refused' = Refused
  <2>1. \A c \in Callers : pc'[c] = "sweeping" <=> pc[c] = "sweeping"
    BY <1>1, <1>2
  <2> QED BY <1>1, <2>1 DEF Fresh, Refused
<1> QED BY <1>1, <1>3, <1>4, <1>5, ServiceForms

\* A batch that cannot be sent is refused as a whole.
LEMMA FailRefuses ==
  ASSUME PlaceInv, BatcherTypeOK, BatchOK, DispatchFail
  PROVE  Service!Next
<1> USE TheCallers
<1>1. /\ pc["loop"] = "dispatch" /\ pc' = [pc EXCEPT !["loop"] = "drain"] /\ batch' = <<>>
      /\ UNCHANGED <<queues, submitter, out, received, batchChans>> /\ Notify(batch)
  BY DEF DispatchFail, Goto, qmVars, submitVars, drainVars, envVars
<1>2. pc'["loop"] = "drain" /\ pc'["stopper"] = pc["stopper"]
  BY <1>1 DEF BatcherTypeOK
<1>3. Line' = [Line EXCEPT ![Pinned] = SubSeq(Line[Pinned], Len(batch) + 1, Len(Line[Pinned]))]
  BY <1>1, <1>2, BatchLeaves
<1>4. /\ Pinned \in SubQueues /\ Len(batch) \in 1..MaxBatchSize
      /\ Len(batch) <= Len(Line[Pinned]) /\ SubSeq(Line[Pinned], 1, Len(batch)) = batch
  BY <1>1, BatchIsPrefix
<1>5. Fresh' = Fresh
  BY <1>1 DEF Fresh
<1>6. Refused' = Refused \cup ToSet(batch)
  <2>1. \A c \in Callers : pc'[c] = "sweeping" <=> pc[c] = "sweeping"
    BY <1>1, <1>2
  <2>2. \A r \in Requests : results'[r] = "ErrShuttingDown" <=>
          results[r] = "ErrShuttingDown" \/ r \in ToSet(batch)
    BY <1>1 DEF Notify, BatcherTypeOK
  <2>3. ToSet(batch) \subseteq Requests
    BY DEF BatcherTypeOK, ToSet
  <2>4. \A r \in Requests : r \in Refused' <=> r \in Refused \/ r \in ToSet(batch)
    BY <1>1, <2>1, <2>2 DEF Refused
  <2> QED BY <2>3, <2>4 DEF Refused
<1> QED BY <1>1, <1>3, <1>4, <1>5, <1>6, ServiceRefuses

\* A worker takes the oldest batch of a channel.
LEMMA ReceiveDelivers ==
  ASSUME NEW p \in Priorities, WorkerReceive(p)
  PROVE  Service!Next
<1>1. /\ UNCHANGED <<queues, submitter, out, pc, batch, results>> /\ batchChans[p] # <<>>
      /\ batchChans' = [batchChans EXCEPT ![p] = Tail(@)]
      /\ received' = received \cup ToSet(Head(batchChans[p]))
  BY DEF WorkerReceive, qmVars, submitVars, drainVars, loopVars
<1>2. Fresh' = Fresh /\ Line' = Line /\ Refused' = Refused
  BY <1>1 DEF Fresh, Line, Refused, InHand
<1> QED BY <1>1, <1>2, ServiceDelivers

-----------------------------------------------------------------------------
(* The steps the service does not see.                                     *)

\* a goroutine moves between two states outside a drain, or not at all
LEMMA MovesRest ==
  ASSUME BatcherTypeOK, UNCHANGED <<queues, out, batch, results, batchChans, received, Fresh>>,
         \/ pc' = pc
         \/ \E c \in Callers : \E from, to :
              /\ Goto(c, from, to)
              /\ from \notin {"draining", "toppingUp", "sweeping"}
              /\ to \notin {"draining", "toppingUp", "sweeping"}
  PROVE  UNCHANGED Service!vars
<1>1. \A c \in Callers : \A s \in {"draining", "toppingUp", "sweeping"} : pc'[c] = s <=> pc[c] = s
  BY DEF Goto, BatcherTypeOK
<1>2. InHand' = InHand
  BY <1>1, TheCallers DEF InHand
<1>3. Line' = Line
  BY <1>2, LineRests
<1>4. Refused' = Refused
  BY <1>1 DEF Refused
<1> QED BY <1>3, <1>4, ServiceRests

\* The other steps of Submit change nothing the service knows of.
LEMMA SubmitsRest ==
  ASSUME PlaceInv, BatcherTypeOK, NEW r \in Requests,
         SubmitLock(r) \/ SubmitClosed(r) \/ SubmitFull(r) \/ SubmitCount(r) \/ SubmitWake(r),
         UNCHANGED abVars
  PROVE  UNCHANGED Service!vars
<1>1. Fresh' = Fresh
  BY DEF SubmitLock, SubmitClosed, SubmitFull, SubmitCount, SubmitWake, SubmitPhase, Fresh,
         PlaceInv, TypeInv, TypeOK
<1>2. UNCHANGED <<queues, out>>
  BY DEF SubmitLock, SubmitClosed, SubmitFull, SubmitCount, SubmitWake, SubmitPhase, drainVars
<1>3. UNCHANGED <<pc, batch, results, batchChans, received>>
  BY DEF abVars, loopVars, envVars
<1> QED BY <1>1, <1>2, <1>3, MovesRest

\* Nor do the steps of a drain that receive nothing.
LEMMA DrainsRest ==
  ASSUME BatcherTypeOK, NEW c \in Callers, InDrain(c), ~Pull(c), ~Sweep(c)
  PROVE  UNCHANGED Service!vars
<1>1. UNCHANGED <<queues, out, submitter>>
  BY DEF InDrain, DrainStep, WalkSkip, WalkEnter, WalkEnd, PullStop, PullNothing, PullNone, Settle,
         SweepNext, SweepEnd, Phase, submitVars
<1>2. UNCHANGED <<pc, batch, results, batchChans, received>>
  BY DEF InDrain, abVars, loopVars, envVars
<1>3. Fresh' = Fresh
  BY <1>1 DEF Fresh
<1> QED BY <1>1, <1>2, <1>3, MovesRest

\* Nor do the steps of the loop and of Stop that only decide.
LEMMA ControlRests ==
  ASSUME BatcherTypeOK,
         \/ \E r \in Requests : SubmitAdmit(r) \/ SubmitReject(r)
         \/ CtxCancel \/ SetStrategy \/ Terminated \/ UNCHANGED vars
         \/ Start \/ LoopExit \/ LoopForm \/ WaitEvent \/ WaitShutdown
         \/ DecideFlush \/ DecideAccumulate \/ JudgeFlush \/ JudgeWait
         \/ WindowEvent \/ WindowOver \/ RearmSignal \/ RearmQuiet
         \/ \E c \in Callers : CloseMatrix(c)
         \/ StopCall \/ StopClose \/ StopChoose \/ StopReturn \/ StopGiveUp
  PROVE  UNCHANGED Service!vars
<1> USE TheCallers
<1>1. UNCHANGED <<queues, out, batch, results, batchChans, received, submitter>>
  BY DEF SubmitAdmit, SubmitReject, Enter, CtxCancel, SetStrategy, Terminated, Start, LoopExit,
         LoopForm, WaitEvent, WaitShutdown, DecideFlush, DecideAccumulate, JudgeFlush, JudgeWait,
         WindowEvent, WindowOver, RearmSignal, RearmQuiet, CloseMatrix, StopCall, StopClose,
         StopChoose, StopReturn, StopGiveUp, StopMove, Step, TakeEvent, Signal, Close,
         vars, qmVars, submitVars, drainVars, abVars, loopVars, envVars
<1>2. \/ pc' = pc
      \/ \E c \in Callers : \E from, to :
           /\ Goto(c, from, to)
           /\ from \notin {"draining", "toppingUp", "sweeping"}
           /\ to \notin {"draining", "toppingUp", "sweeping"}
  BY DEF SubmitAdmit, SubmitReject, Enter, CtxCancel, SetStrategy, Terminated, Start, LoopExit,
         LoopForm, WaitEvent, WaitShutdown, DecideFlush, DecideAccumulate, JudgeFlush, JudgeWait,
         WindowEvent, WindowOver, RearmSignal, RearmQuiet, AfterForm, CloseMatrix, StopCall,
         StopClose, StopChoose, StopReturn, StopGiveUp, StopMove, Step, vars, abVars, loopVars
<1>3. Fresh' = Fresh
  BY <1>1 DEF Fresh
<1> QED BY <1>1, <1>2, <1>3, MovesRest

\* the loop's hand is the same before a drain is called and after it returned
LEMMA HandoverRests ==
  ASSUME PlaceInv, BatcherTypeOK, BatchOK, CallDrain \/ CallDrainFrom \/ Drained \/ ToppedUp
  PROVE  UNCHANGED Service!vars
<1> USE TheCallers
<1> TypeInv /\ LocalsOK
  BY DEF PlaceInv
<1>1. /\ UNCHANGED <<queues, submitter, results, batchChans, received>>
      /\ pc["loop"] # "sweeping" /\ pc'["loop"] # "sweeping"
      /\ pc'["stopper"] = pc["stopper"] /\ out'["stopper"] = out["stopper"]
  BY DEF CallDrain, CallDrainFrom, Drained, ToppedUp, Step, Goto, DrainBegin, DrainFromBegin, Return,
         Phase, submitVars, envVars, BatcherTypeOK, TypeInv, TypeOK
<1>2. batch \in Seq(Requests) /\ out["loop"] \in Seq(Requests)
  BY DEF BatcherTypeOK, TypeInv, TypeOK
<1>3. InHand' = InHand
  <2>1. CASE CallDrain \/ CallDrainFrom
    <3>1. /\ batch' = batch /\ out'["loop"] = <<>>
          /\ pc["loop"] \notin {"draining", "toppingUp"} /\ pc'["loop"] \in {"draining", "toppingUp"}
      BY <2>1 DEF CallDrain, CallDrainFrom, Step, Goto, DrainBegin, DrainFromBegin, Phase, LocalsOK,
                  BatcherTypeOK
    <3> QED BY <1>2, <3>1, EmptyConcat DEF InHand
  <2>2. CASE Drained
    <3>1. /\ pc["loop"] = "draining" /\ pc'["loop"] \notin {"draining", "toppingUp"}
          /\ batch' = out["loop"]
      BY <2>2 DEF Drained, Goto, BatcherTypeOK
    <3>2. batch = <<>>
      BY <3>1 DEF BatchOK, EmptyHanded
    <3> QED BY <1>2, <3>1, <3>2, EmptyConcat DEF InHand
  <2>3. CASE ToppedUp
    <3>1. /\ pc["loop"] = "toppingUp" /\ pc'["loop"] \notin {"draining", "toppingUp"}
          /\ batch' = batch \o out["loop"]
      BY <2>3 DEF ToppedUp, Goto, BatcherTypeOK
    <3> QED BY <3>1 DEF InHand
  <2> QED BY <2>1, <2>2, <2>3
<1>4. Fresh' = Fresh /\ Line' = Line
  BY <1>1, <1>3, LineRests DEF Fresh
<1>5. Refused' = Refused
  BY <1>1 DEF Refused
<1> QED BY <1>1, <1>4, <1>5, ServiceRests

\* what a drain() holds is refused already, and answered when it returns
LEMMA DrainAllRests ==
  ASSUME PlaceInv, BatcherTypeOK, BatchOK, NEW c \in Callers, CallDrainAll(c) \/ DrainedAll(c)
  PROVE  UNCHANGED Service!vars
<1> USE TheCallers
<1> TypeInv /\ LocalsOK
  BY DEF PlaceInv
<1>1. /\ UNCHANGED <<queues, submitter, batch, batchChans, received>>
      /\ \A d \in Callers \ {c} : pc'[d] = pc[d] /\ out'[d] = out[d]
      /\ pc[c] \notin {"draining", "toppingUp"} /\ pc'[c] \notin {"draining", "toppingUp"}
  BY DEF CallDrainAll, DrainedAll, Goto, DrainAllBegin, Return, Phase, submitVars, envVars,
         BatcherTypeOK, TypeInv, TypeOK
<1>2. InHand' = InHand
  BY <1>1 DEF InHand
<1>3. Fresh' = Fresh /\ Line' = Line
  BY <1>1, <1>2, LineRests DEF Fresh
<1>4. CASE CallDrainAll(c)
  <2>1. /\ results' = results /\ pc[c] # "sweeping" /\ out'[c] = <<>>
    BY <1>4 DEF CallDrainAll, Goto, DrainAllBegin, Phase, LocalsOK
  <2>2. \A r : r \notin ToSet(out'[c])
    BY <2>1 DEF ToSet
  <2>3. \A r \in Requests : r \in Refused' <=> r \in Refused
    BY <1>1, <2>1, <2>2 DEF Refused
  <2>4. Refused' = Refused
    BY <2>3 DEF Refused
  <2> QED BY <1>1, <1>3, <2>4, ServiceRests
<1>5. CASE DrainedAll(c)
  <2>1. /\ pc[c] = "sweeping" /\ pc'[c] # "sweeping" /\ Notify(out[c])
    BY <1>5 DEF DrainedAll, Goto, BatcherTypeOK
  <2>2. \A r \in Requests : results'[r] = "ErrShuttingDown" <=>
          results[r] = "ErrShuttingDown" \/ r \in ToSet(out[c])
    BY <2>1 DEF Notify, BatcherTypeOK
  <2>3. \A r \in Requests : r \in Refused' <=> r \in Refused
    BY <1>1, <2>1, <2>2 DEF Refused
  <2>4. Refused' = Refused
    BY <2>3 DEF Refused
  <2> QED BY <1>1, <1>3, <2>4, ServiceRests
<1> QED BY <1>4, <1>5

-----------------------------------------------------------------------------
(* The refinement.                                                         *)

\* Initial states map to initial states.
LEMMA ServiceInit == Init => Service!Init
<1> SUFFICES ASSUME Init PROVE Service!Init
  OBVIOUS
<1>1. /\ submitter = [r \in Requests |-> "outside"] /\ batch = <<>>
      /\ queues = [q \in SubQueues |-> <<>>] /\ batchChans = [p \in Priorities |-> <<>>]
      /\ received = {} /\ results = [r \in Requests |-> "empty"]
      /\ \A c \in Callers : pc[c] \in {"unstarted", "idle"}
  BY DEF Init, QMInit
<1>2. InHand = <<>>
  BY <1>1, TheCallers DEF InHand
<1>3. Fresh = Requests /\ Line = [q \in SubQueues |-> <<>>] /\ Refused = {}
  BY <1>1, <1>2 DEF Fresh, Line, Refused
<1> QED BY <1>1, <1>3 DEF Service!Init, Fresh, Line, Refused

\* Every step maps to a step of the service or to a stutter.
LEMMA ServiceStep ==
  ASSUME BatcherInv, HandOK, [Next]_vars
  PROVE  [Service!Next]_(Service!vars)
<1>1. PlaceInv /\ TypeInv /\ BatcherTypeOK /\ CallOK /\ BatchOK /\ ExitOK
  BY DEF BatcherInv, PlaceInv
<1> USE <1>1, TheCallers
<1>2. ASSUME NEW r \in Requests, SubmitToMatrix(r) \/ SubmitContinue(r)
      PROVE  Service!Next \/ UNCHANGED Service!vars
  BY <1>2, SubmitterSteps, SendAccepts, SubmitsRest DEF SubmitStep
<1>3. ASSUME NEW c \in Callers, InDrain(c)
      PROVE  Service!Next \/ UNCHANGED Service!vars
  <2>1. UNCHANGED abVars
    BY <1>3 DEF InDrain
  <2>2. Pull(c) => c = "loop"
    BY DEF Pull, CallOK, StopStates, DrainStates
  <2> QED BY <1>3, <2>1, <2>2, PullRests, SweepRefuses, DrainsRest
<1>4. ASSUME NEW p \in Priorities, WorkerReceive(p) PROVE Service!Next
  BY <1>4, ReceiveDelivers
<1> QED BY <1>2, <1>3, <1>4, DispatchForms, FailRefuses, ControlRests, HandoverRests, DrainAllRests,
           Zenon DEF Next, LoopStep, StopStep

(* The batcher implements the service: through any interleaving of Submits,*)
(* drains, shutdowns and receives of the workers, no accepted request is   *)
(* lost, duplicated or reordered within its sub-queue, a batch is a run of *)
(* at most MaxBatchSize requests of one sub-queue on the channel of its    *)
(* priority, and only requests of no batch are refused (adaptive.go:164-   *)
(* 374, queue_matrix.go:72-264).                                           *)
THEOREM BatcherImplementsService == Spec => ImplementsService
<1>1. Init => HandOK
  BY TheCallers DEF Init, QMInit, HandOK
<1>2. BatcherInv /\ HandOK /\ [Next]_vars => HandOK'
  BY HandStep DEF BatcherInv
<1> QED BY <1>1, <1>2, ServiceInit, ServiceStep, BatcherInvHolds, PTL
        DEF Spec, ImplementsService, Service!Spec
=============================================================================
