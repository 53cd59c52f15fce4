---------------------------- MODULE MCQueueMatrix ----------------------------
(* The instance of QueueMatrix that TLC checks: a critical and a low        *)
(* priority sub-queue.                                                      *)
EXTENDS QueueMatrix

CONSTANTS r1, r2

MCPriorityOf == <<3, 0>>

\* both for the low sub-queue and its one slot
TwoRequests == {r1, r2}
BothLow == (r1 :> 2) @@ (r2 :> 2)
=============================================================================
