-------------------------- MODULE MCLatencyControl --------------------------
(* The instance of LatencyControl that TLC checks: a reservoir of two.      *)
EXTENDS LatencyControl

\* below a millisecond, below the target of 2 and above it
AroundTarget == {0, 1, 3}

\* negative, as Depth may be for a moment, and around both thresholds
AroundThresholds == {-1, 2, 4}
=============================================================================
