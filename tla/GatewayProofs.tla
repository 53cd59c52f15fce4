---------------------------- MODULE GatewayProofs ----------------------------
(***************************************************************************)
(* Machine-checked theorems about Gateway: the server process drives the   *)
(* worker pool only through its steps, so what holds of the pool holds of  *)
(* the process, and what an exit may leave behind.                         *)
(***************************************************************************)
EXTENDS Gateway, WorkerPoolProofs

LEMMA ServerSteps ==
  ASSUME ListenFails \/ BeginGrace \/ Drained \/ GraceOver
  PROVE  [Next]_vars
<1>1. CASE ListenFails
  <2>1. /\ shutdown' = TRUE
        /\ UNCHANGED <<handlerVars, results, batcherVars, workerVars, pingVars, upstream>>
    BY <1>1 DEF ListenFails, ServerStep
  <2>2. CASE shutdown
    BY <2>1, <2>2, Zenon DEF vars, envVars, handlerVars, batcherVars, workerVars, pingVars
  <2>3. CASE ~shutdown
    BY <2>1, <2>3 DEF Shutdown, Next
  <2> QED BY <2>2, <2>3
<1>2. CASE BeginGrace \/ Drained \/ GraceOver
  BY <1>2 DEF BeginGrace, Drained, GraceOver, ServerStep, vars, envVars
<1> QED BY <1>1, <1>2

LEMMA StepIsPoolStep == [GNext]_gVars => [Next]_vars
<1> SUFFICES ASSUME [GNext]_gVars PROVE [Next]_vars
  OBVIOUS
<1>1. ASSUME NEW r \in Requests, Requested(r) \/ Handled(r) \/ Departs(r) PROVE [Next]_vars
  BY <1>1 DEF Requested, Handled, Departs, Next, Serve
<1>2. CASE Batched \/ Stopped \/ \E p \in Priorities : Closed(p)
  BY <1>2 DEF Batched, Stopped, Closed, Next, Serve
<1>3. ASSUME NEW w \in Workers, Runs(w) \/ Recovers(w) PROVE [Next]_vars
  BY <1>3 DEF Runs, Recovers, Next, Serve
<1>4. CASE Pings \/ Signalled \/ UpstreamChanges
  BY <1>4 DEF Pings, Signalled, UpstreamChanges, Next
<1>5. CASE ListenFails \/ BeginGrace \/ Drained \/ GraceOver
  BY <1>5, ServerSteps
<1>6. CASE MainExits \/ Exited \/ UNCHANGED gVars
  BY <1>6 DEF MainExits, Exited, gVars
<1> QED BY <1>1, <1>2, <1>3, <1>4, <1>5, <1>6 DEF GNext

(* Every behaviour of the server process is one of the worker pool: the    *)
(* errgroup, the HTTP server and main (main.go:92-126, server.go:101-131)  *)
(* add no step of their own to it but the cancellation of the context.     *)
THEOREM GatewayDrivesPool == GSpec => Spec
<1>1. GInit => Init
  BY DEF GInit
<1> QED BY <1>1, StepIsPoolStep, PTL DEF GSpec, Spec

(* In the composed process, from its start through its shutdown to its     *)
(* exit, no client is forgotten, no request is answered twice, breakers    *)
(* and their counts agree, and workers keep to the priorities.             *)
THEOREM GatewayKeepsPoolPromises ==
  GSpec => /\ []NobodyForgotten /\ []OneOwner /\ []BreakerConsistent
           /\ StrictPriority
  BY GatewayDrivesPool, NobodyIsForgotten, RequestsHaveOneOwner, BreakersAreConsistent,
     PriorityIsStrict, PTL

-----------------------------------------------------------------------------
(* The exit.                                                               *)

\* main has gone only when the pool has, and "clean" only after a drain
ExitInv ==
  /\ main # "waiting" => \A w \in Workers : pc[w] = "exited"
  /\ server = "drained" => \A r \in Requests : handler[r] = "idle"
  /\ main = "clean" => server = "drained"

LEMMA ExitInit == GInit => ExitInv
  BY DEF GInit, ExitInv

LEMMA ExitStep == TypeInv /\ ExitInv /\ [GNext]_gVars => ExitInv'
<1> SUFFICES ASSUME TypeInv, ExitInv, [GNext]_gVars PROVE ExitInv'
  OBVIOUS
<1>1. handler \in [Requests -> HandlerStates]
  BY DEF TypeInv, TypeOK
\* steps of the pool: the process is there, and idle handlers stay idle
<1>2. ASSUME InPool, \A r \in Requests : handler[r] = "idle" => handler'[r] = "idle"
      PROVE  ExitInv'
  BY <1>2 DEF ExitInv, InPool, gatewayVars
<1>3. ASSUME NEW r \in Requests, Handled(r) \/ Departs(r) PROVE ExitInv'
  BY <1>1, <1>2, <1>3 DEF Handled, Departs, Handle, CtxDone, CheckUnhealthy, CheckHealthy, ScanOpen,
     ScanUsable, ScanAllOpen, Submit, SubmitRejected, Result, TimedOut, Reply, HandlerStep
<1>4. ASSUME NEW r \in Requests, Requested(r) PROVE ExitInv'
  BY <1>4 DEF Requested, InPool, gatewayVars, ExitInv
<1>5. CASE Batched \/ Stopped \/ \E p \in Priorities : Closed(p)
  BY <1>2, <1>5 DEF Batched, Stopped, Closed, FormAny, Form, BatcherStop, CloseBatchChan, handlerVars
<1>6. ASSUME NEW w \in Workers, Runs(w) \/ Recovers(w) PROVE ExitInv'
  <2>1. handler' = handler
    BY <1>6 DEF Runs, Recovers, Recover, Run, SelectReceive, SelectDefault, SelectExit, Process,
       RefuseUnhealthy, PassHealthy, RefuseOpen, PassCircuit, FilterNone, FilterSome, PostFail,
       FanOutError, PostOk, FanOutResults, ProcessEnd, ProcessStep, WorkerStep, handlerVars
  <2> QED BY <1>2, <1>6, <2>1 DEF Runs, Recovers
<1>7. CASE Pings \/ Signalled \/ UpstreamChanges
  <2>1. handler' = handler
    BY <1>7 DEF Pings, Signalled, UpstreamChanges, PingLoop, PingSend, PingSwallowed, PingOk, PingFail, PingReturn,
       PingStep, Shutdown, UpstreamBecomes, handlerVars
  <2> QED BY <1>2, <1>7, <2>1 DEF Pings, Signalled, UpstreamChanges
<1>8. CASE ListenFails \/ BeginGrace \/ Drained \/ GraceOver
  BY <1>8 DEF ListenFails, BeginGrace, Drained, GraceOver, ServerStep, ExitInv, handlerVars
<1>9. CASE MainExits
  BY <1>9 DEF MainExits, ExitInv, vars, handlerVars, workerVars
<1>10. CASE Exited \/ UNCHANGED gVars
  BY <1>10 DEF Exited, gVars, gatewayVars, ExitInv, vars, handlerVars, workerVars
<1> QED BY <1>3, <1>4, <1>5, <1>6, <1>7, <1>8, <1>9, <1>10 DEF GNext

LEMMA ExitInvariant == GSpec => [](TypeInv /\ ExitInv)
<1>1. GInit => TypeInv /\ ExitInv
  BY ExitInit, TypeInit DEF GInit
<1>2. TypeInv /\ ExitInv /\ [GNext]_gVars => TypeInv' /\ ExitInv'
  BY ExitStep, StepIsPoolStep, TypeStep
<1> QED BY <1>1, <1>2, PTL DEF GSpec

(* "shutdown clean" is logged only when no client lost its connection      *)
(* (main.go:119-126, server.go:118-127).                                   *)
THEOREM CleanExits == GSpec => []CleanExitLeavesNobody
<1>1. ExitInv => CleanExitLeavesNobody
  BY DEF ExitInv, CleanExitLeavesNobody
<1> QED BY <1>1, ExitInvariant, PTL

(* A client that the exit cuts off had its request in the queue or in a    *)
(* channel: the workers have finished every batch they took                *)
(* (pool.go:113-126), for any number of them.                              *)
THEOREM ExitsCutOffOnlyAbandoned == GSpec => []CutOffWereAbandoned
<1>1. TypeInv /\ ExitInv /\ NobodyForgotten => CutOffWereAbandoned
  <2> SUFFICES ASSUME TypeInv, ExitInv, NobodyForgotten, main # "waiting"
               PROVE  /\ InHands = {}
                      /\ \A r \in Requests :
                           handler[r] = "waiting" /\ ~ctxDone[r] /\ results[r] = "empty" =>
                             r \in queued \cup InChannels
    BY DEF CutOffWereAbandoned
  <2>1. \A w \in Workers : work[w] = <<>>
    BY DEF ExitInv, TypeInv, TypeOK, Busy
  <2>2. InHands = {}
    <3>1. ToSet(<<>>) = {}
      BY DEF ToSet
    <3> QED BY <2>1, <3>1 DEF InHands
  <2> QED BY <2>2 DEF NobodyForgotten, Owned
<1> QED BY <1>1, ExitInvariant, GatewayKeepsPoolPromises, PTL
=============================================================================
