---------------------------- MODULE MCSnapshots -----------------------------
(* The instance of Snapshots that TLC checks: one dashboard that connects  *)
(* again and again, two materialisations and two snapshots.                *)
EXTENDS Snapshots

CONSTANTS c1

OneClient == {c1}
=============================================================================
