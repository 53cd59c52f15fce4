---------------------------- MODULE MCSimulation ----------------------------
(* The instance of Simulation that TLC checks: three requests, one of them *)
(* with a deadline that can pass.                                          *)
EXTENDS Simulation

CONSTANTS r1, r2, r3

ThreeRequests == {r1, r2, r3}
OneDeadline == {r1}
=============================================================================
