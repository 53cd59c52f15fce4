----------------------------- MODULE MCGateway -----------------------------
(* The instance of Gateway that TLC checks: one client, one worker, and a  *)
(* breaker and a ping loop of threshold 1.                                 *)
EXTENDS Gateway

CONSTANTS r1, w1

OneRequest == {r1}
OneWorker == {w1}
OnePriority == (r1 :> 1)
=============================================================================
