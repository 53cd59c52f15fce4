------------------------- MODULE MCAdaptiveBatcher -------------------------
(* The instances of AdaptiveBatcher that TLC checks: a critical and a low   *)
(* priority sub-queue, batches of two.  MaxBatchSize = 2 leaves both a      *)
(* batch that is full at once and one that has to accumulate.               *)
EXTENDS AdaptiveBatcher

CONSTANTS r1, r2, r3

MCCallers == {"loop", "stopper"}
MCPriorityOf == <<3, 0>>

\* one request for each sub-queue
TwoRequests == {r1, r2}
TwoSubQueueOf == (r1 :> 1) @@ (r2 :> 2)

\* a critical request, and two low ones that make a full batch
ThreeRequests == {r1, r2, r3}
ThreeSubQueueOf == (r1 :> 1) @@ (r2 :> 2) @@ (r3 :> 2)

\* the server: main builds a strategy before the batcher and never calls Stop,
\* a shutdown is the cancellation of the context
ProductionInit == Init /\ strategy
ProductionSpec == ProductionInit /\ [][Next /\ ~Stopping']_vars
FairProductionSpec == ProductionSpec /\ Fairness

\* Submits come one after the other, each from its lock to its return: what is
\* left are the orders of Start, Stop, the cancellation, the loop and one Submit
OneInside ==
  \A r, s \in Requests :
    r # s => ~({submitter[r], submitter[s]} \subseteq {"locked", "sent", "counted"})
OrderlySpec == Init /\ [][Next /\ OneInside']_vars /\ Fairness
=============================================================================
