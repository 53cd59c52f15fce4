------------------------------ MODULE Gateway ------------------------------
(***************************************************************************)
(* The life of the server process: main of cmd/server and Server.Start of  *)
(* internal/api around the worker pool.                                    *)
(*                                                                         *)
(* main starts the goroutines of an errgroup (the batcher and then         *)
(* CloseBatchChans, the pool, the HTTP server, the metrics push) and waits *)
(* for all of them.  A signal, or an error of one of them, cancels the     *)
(* context they share, which is shutdown of WorkerPool.                    *)
(***************************************************************************)
EXTENDS WorkerPool

VARIABLES
  server,   \* Server.Start: "serving", in its "grace" period, or returned:
            \* "drained" or "failed"
  main      \* main: "waiting" in g.Wait, or exited, and what it logged:
            \* "clean" or "error"

gatewayVars == <<server, main>>
gVars == <<vars, gatewayVars>>

GInit == Init /\ server = "serving" /\ main = "waiting"

-----------------------------------------------------------------------------
(* Server.Start                                                            *)

ServerStep(from, to) ==
  /\ main = "waiting" /\ server = from
  /\ server' = to
  /\ UNCHANGED <<handlerVars, results, batcherVars, workerVars, pingVars, upstream, main>>

\* ListenAndServe returns an error, which cancels the errgroup's context
ListenFails ==
  /\ ServerStep("serving", "failed")
  /\ shutdown' = TRUE

\* <-ctx.Done(): the listener is closed, Shutdown polls the connections
BeginGrace ==
  /\ shutdown
  /\ ServerStep("serving", "grace")
  /\ UNCHANGED shutdown

\* Mutant of Drained: the server is closed without waiting for its handlers.
DrainedAtOnce ==
  /\ ServerStep("grace", "drained")
  /\ UNCHANGED shutdown

\* Shutdown finds every connection idle and closes it
Drained ==
  /\ \A r \in Requests : handler[r] = "idle"
  /\ ServerStep("grace", "drained")
  /\ UNCHANGED shutdown

\* shutdownGrace is over: Shutdown returns an error, handlers live on
GraceOver ==
  /\ ServerStep("grace", "failed")
  /\ UNCHANGED shutdown

-----------------------------------------------------------------------------
(* main                                                                    *)

\* Mutant of MainExits: the pool runs outside of the errgroup.
MainExitsEarly ==
  /\ main = "waiting"
  /\ chansClosed = Priorities
  /\ server \in {"drained", "failed"}
  /\ shutdown
  /\ main' = IF server = "drained" THEN "clean" ELSE "error"
  /\ UNCHANGED <<vars, server>>

\* g.Wait returns the error of the server, if any: nobody else returns one.
\* runMetricsPush, which nobody depends on, has returned after <-ctx.Done().
MainExits ==
  /\ main = "waiting"
  /\ chansClosed = Priorities
  /\ ping = "returned" /\ \A w \in Workers : pc[w] = "exited"
  /\ server \in {"drained", "failed"}
  /\ shutdown
  /\ main' = IF server = "drained" THEN "clean" ELSE "error"
  /\ UNCHANGED <<vars, server>>

\* a step of the pool and its surroundings, while the process is there
InPool == main = "waiting" /\ UNCHANGED gatewayVars

\* A connection that Shutdown has closed brings no request.  One that is
\* new when the listener is closed, or that outlives the grace, may.
Requested(r) == InPool /\ server # "drained" /\ Arrive(r)
Handled(r) == InPool /\ Handle(r)
Departs(r) == InPool /\ CtxDone(r)
Batched == InPool /\ FormAny
Stopped == InPool /\ BatcherStop
Closed(p) == InPool /\ CloseBatchChan(p)
Runs(w) == InPool /\ Run(w)
Recovers(w) == InPool /\ Recover(w)
Pings == InPool /\ PingLoop
Signalled == InPool /\ Shutdown
UpstreamChanges == InPool /\ \E how \in {"up", "down", "hung"} : UpstreamBecomes(how)

Exited == main # "waiting" /\ UNCHANGED gVars

GNext ==
  \/ \E r \in Requests : Requested(r) \/ Handled(r) \/ Departs(r)
  \/ Batched \/ Stopped \/ \E p \in Priorities : Closed(p)
  \/ \E w \in Workers : Runs(w) \/ Recovers(w)
  \/ Pings \/ Signalled \/ UpstreamChanges
  \/ ListenFails \/ BeginGrace \/ Drained \/ GraceOver
  \/ MainExits
  \/ Exited

GSpec == GInit /\ [][GNext]_gVars

\* GraceOver is the passage of time; no client has to be served or to leave
GFairSpec ==
  /\ GSpec
  /\ \A r \in Requests : WF_gVars(Handled(r))
  /\ WF_gVars(Batched) /\ WF_gVars(Stopped)
  /\ WF_gVars(\E p \in Priorities : Closed(p))
  /\ \A w \in Workers : WF_gVars(Runs(w)) /\ WF_gVars(Recovers(w))
  /\ WF_gVars(InPool /\ PingDue) /\ SF_gVars(InPool /\ PingReturn)
  /\ WF_gVars(BeginGrace \/ Drained \/ GraceOver)
  /\ WF_gVars(MainExits)
-----------------------------------------------------------------------------
(* Properties.                                                             *)

(* However the shutdown begins and whatever the upstream and the clients   *)
(* do meanwhile, every goroutine of the errgroup returns and the process   *)
(* exits (main.go:92-126): no worker waits for a channel that is never     *)
(* closed, and nobody waits for a handler that waits for a worker.         *)
MainReturns == shutdown ~> main # "waiting"

(* "shutdown clean" is logged only when no client lost its connection: no  *)
(* handler was left when the process ended (server.go:118-127).  Handlers  *)
(* whose batch was abandoned in a channel show up as an error instead.     *)
CleanExitLeavesNobody == main = "clean" => \A r \in Requests : handler[r] = "idle"

(* A client that is cut off by the exit was waiting for somebody who has   *)
(* left: its request is in the matrix or in a channel, and no worker was   *)
(* cut off in the middle of a batch (pool.go:113-126).                     *)
CutOffWereAbandoned ==
  main # "waiting" =>
    /\ InHands = {}
    /\ \A r \in Requests :
         handler[r] = "waiting" /\ ~ctxDone[r] /\ results[r] = "empty" =>
           r \in queued \cup InChannels
=============================================================================
