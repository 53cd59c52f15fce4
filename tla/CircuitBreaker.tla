--------------------------- MODULE CircuitBreaker ---------------------------
(***************************************************************************)
(* The per-worker breaker of internal/worker/circuit.go as operators on    *)
(* its state.  Every method holds the mutex for its whole body, so each is *)
(* one step of its caller.                                                 *)
(*                                                                         *)
(* Time: `elapsed` says that recoveryTimeout has passed since the last     *)
(* recorded failure.  A failure resets it, the passage of time sets it.    *)
(* failureCount is compared with the threshold only, so it saturates there.*)
(***************************************************************************)
EXTENDS Integers

CONSTANT FailureThreshold    \* health.failure_threshold, validated to be >= 1

ASSUME FailureThresholdAssumption == FailureThreshold \in Nat \ {0}

CircuitStates == {"Closed", "Open", "HalfOpen"}

Breakers == [state : CircuitStates, failureCount : 0..FailureThreshold, elapsed : BOOLEAN]

NewCircuitBreaker == [state |-> "Closed", failureCount |-> 0, elapsed |-> FALSE]

Saturate(n) == IF n > FailureThreshold THEN FailureThreshold ELSE n

\* Mutant of RecordSuccess: the failures are not forgotten.
RecordSuccessKeeps(cb) ==
  [cb EXCEPT !.state = IF @ = "HalfOpen" THEN "Closed" ELSE @]

RecordSuccess(cb) ==
  [cb EXCEPT !.failureCount = 0,
             !.state = IF @ = "HalfOpen" THEN "Closed" ELSE @]

RecordFailure(cb) ==
  [state |-> IF cb.failureCount + 1 >= FailureThreshold THEN "Open" ELSE cb.state,
   failureCount |-> Saturate(cb.failureCount + 1),
   elapsed |-> FALSE]

\* the result of CanExecute, and what it leaves behind
CanExecute(cb) == cb.state = "Open" => cb.elapsed

Executed(cb) ==
  IF cb.state = "Open" /\ cb.elapsed THEN [cb EXCEPT !.state = "HalfOpen"] ELSE cb

\* time.Since(lastFailureTime) reaches recoveryTimeout, which matters in Open
RecoveryDue(cb) == cb.state = "Open" /\ ~cb.elapsed

\* A breaker that lets everything through has seen fewer consecutive
\* failures than the threshold; one that does not has seen enough.
Consistent(cb) == cb.state = "Closed" <=> cb.failureCount < FailureThreshold
=============================================================================
