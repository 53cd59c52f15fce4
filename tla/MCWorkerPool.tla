---------------------------- MODULE MCWorkerPool ----------------------------
(* The instances of WorkerPool that TLC checks: one or two request slots,  *)
(* which are used again and again, and one or two workers.                 *)
EXTENDS WorkerPool

CONSTANTS r1, r2, r3, w1, w2

OneRequest == {r1}
TwoRequests == {r1, r2}
ThreeRequests == {r1, r2, r3}

OneWorker == {w1}
TwoWorkers == {w1, w2}

OnePriority == (r1 :> 1)

\* both of the same priority, so that they can share a batch
SamePriority == (r1 :> 1) @@ (r2 :> 1)

\* one request for each of three channels
ThreePriorities == (r1 :> 3) @@ (r2 :> 2) @@ (r3 :> 0)

\* workers are alike, and so are requests of one priority
Alike == Permutations(Workers) \cup Permutations(Requests)

\* no health ping, so that nobody sees the flag set, no shutdown, and the upstream
\* answers or fails at once: what is left of Next
UnpingedHandle(r) ==
  \/ CheckHealthy(r)
  \/ \E w \in Workers : ScanOpen(r, w) \/ ScanUsable(r, w)
  \/ ScanAllOpen(r)
  \/ Submit(r) \/ SubmitRejected(r)
  \/ Result(r) \/ TimedOut(r)
UnpingedRun(w) ==
  \/ \E p \in Priorities : SelectReceive(w, p)
  \/ SelectDefault(w)
  \/ PassHealthy(w)
  \/ RefuseOpen(w) \/ PassCircuit(w)
  \/ FilterNone(w) \/ FilterSome(w)
  \/ PostFail(w) \/ FanOutError(w)
  \/ PostOk(w) \/ \E n \in 0..MaxBatchSize : FanOutResults(w, n)
UnpingedNext ==
  \/ \E r \in Requests : Arrive(r) \/ UnpingedHandle(r) \/ CtxDone(r)
  \/ FormAny
  \/ \E w \in Workers : UnpingedRun(w) \/ Recover(w)
  \/ \E how \in {"up", "down"} : UpstreamBecomes(how)
UnpingedSpec == Init /\ [][UnpingedNext]_vars

\* nobody shuts the server down, and clients wait for their reply
Patient == ~shutdown' /\ \A r \in Requests : ctxDone'[r] => ctxDone[r] \/ handler'[r] = "idle"

\* clients compete for the workers of a healthy upstream
CompetingSpec == Init /\ [][Serve /\ Patient]_vars /\ ServingFairness

\* clients come again and again, and the upstream, whatever it did before, is
\* up from some time on
PatientSpec ==
  /\ Init /\ [][Next /\ Patient]_vars
  /\ Fairness
  /\ \A r \in Requests : WF_vars(Arrive(r))
  /\ <>[](upstream = "up")
=============================================================================
