--------------------------- MODULE LatencyControl ---------------------------
(***************************************************************************)
(* The feedback loop from observed latency to the batcher's accumulation   *)
(* window, through four goroutines that share atomics only:                *)
(*   - HTTP handlers record latencies in the reservoir of LatencyTracker;  *)
(*   - the tracker's loop publishes the 99th percentile and smooths it;    *)
(*   - runMetricsPush of main hands the smoothed value to the batcher;     *)
(*   - the batcher's loop asks its strategy for a timeout, once for each   *)
(*     window, and the latency_aware strategy moves its multiplier then.   *)
(* The strategy may be replaced at any moment (POST /admin/strategy).      *)
(*                                                                         *)
(* Latencies are whole numbers of a unit that may be as fine as one likes, *)
(* multipliers are in thousandths, and so timeouts, which are milliseconds *)
(* times a multiplier, are in microseconds.                                *)
(***************************************************************************)
EXTENDS Integers, FiniteSets, SequencesExt

CONSTANTS
  Latencies,      \* the latencies that are recorded
  WindowSize,     \* percentile_window_size, at least 1 (NewLatencyTracker)
  TargetP99Ms,
  Gain,           \* kP, in thousandths
  MinWaitMs, MaxWaitMs,
  LowThreshold, HighThreshold,
  Depths          \* what QueueMatrix.Depth may return

ASSUME LatencyControlAssumption ==
  /\ Latencies \subseteq Nat
  /\ WindowSize \in Nat \ {0}
  /\ TargetP99Ms \in Nat
  /\ Gain \in Nat
  /\ MinWaitMs \in Int /\ MaxWaitMs \in Int
  /\ LowThreshold \in Int /\ HighThreshold \in Int
  /\ Depths \subseteq Int

VARIABLES
  samples,      \* the reservoir
  raw99,        \* materialize's local, or NoValue outside it
  p99,          \* the published percentile
  p99Smoothed,  \* its moving average
  seeded,       \* p99Smoothed has had its first value
  pushing,      \* runMetricsPush's local, or NoValue outside it
  metrics,      \* P99LatencyMs of the batcher's StrategyMetrics, 0 for nil
  strategy,     \* the strategy object the batcher uses
  held,         \* is formBatch about to ask "none", it, or one "replaced" since
  replaced,     \* that replaced object
  fastest, slowest  \* history: least and greatest latency recorded

trackerVars == <<samples, raw99, p99, p99Smoothed, seeded, fastest, slowest>>
pushVars == <<pushing, metrics>>
strategyVars == <<strategy, held, replaced>>
vars == <<trackerVars, pushVars, strategyVars>>

NoValue == -1

LowestMultiplier == 500
HighestMultiplier == 2000
MinFormBatchWait == 1000

\* the strategy objects that NewStrategy and buildStrategy make
NewStrategy(kind) == [kind |-> kind, multiplier |-> 1000]
Kinds == {"fixed", "queue_depth", "latency_aware"}
Strategies == [kind : Kinds, multiplier : LowestMultiplier..HighestMultiplier]

TypeOK ==
  /\ samples \in Seq(Latencies) /\ Len(samples) <= WindowSize
  /\ raw99 \in Latencies \cup {NoValue}
  /\ p99 \in Nat /\ p99Smoothed \in Nat
  /\ seeded \in BOOLEAN
  /\ pushing \in Nat \cup {NoValue}
  /\ metrics \in Nat
  /\ strategy \in Strategies /\ replaced \in Strategies
  /\ held \in {"none", "current", "replaced"}
  /\ fastest \in Latencies \cup {NoValue}
  /\ slowest \in Latencies \cup {NoValue}

Init ==
  /\ samples = <<>>
  /\ raw99 = NoValue
  /\ p99 = 0 /\ p99Smoothed = 0 /\ seeded = FALSE
  /\ pushing = NoValue /\ metrics = 0
  /\ \E kind \in Kinds : strategy = NewStrategy(kind)
  /\ held = "none" /\ replaced = NewStrategy("fixed")
  /\ fastest = NoValue /\ slowest = NoValue

-----------------------------------------------------------------------------
(* LatencyTracker                                                          *)

\* MetricsMiddleware has written a response: RecordLatency, Add
Record(latency) ==
  /\ \/ /\ Len(samples) < WindowSize
        /\ samples' = Append(samples, latency)
     \/ /\ Len(samples) = WindowSize
        /\ \/ \E j \in 1..WindowSize : samples' = [samples EXCEPT ![j] = latency]
           \/ UNCHANGED samples
  /\ fastest' = IF fastest = NoValue \/ latency < fastest THEN latency ELSE fastest
  /\ slowest' = IF latency > slowest THEN latency ELSE slowest
  /\ UNCHANGED <<raw99, p99, p99Smoothed, seeded, pushVars, strategyVars>>

\* v is the element pctile picks from the sorted sequence s, p percent along
IsPercentile(v, s, p) ==
  LET idx == (Len(s) * p) \div 100
      i == IF idx < Len(s) THEN idx ELSE Len(s) - 1
  IN  /\ Cardinality({k \in DOMAIN s : s[k] < v}) <= i
      /\ i < Cardinality({k \in DOMAIN s : s[k] <= v})

\* a tick: the samples are copied under the lock and sorted
MaterializeCopy ==
  /\ raw99 = NoValue /\ samples # <<>>
  /\ raw99' \in {v \in ToSet(samples) : IsPercentile(v, samples, 99)}
  /\ UNCHANGED <<samples, p99, p99Smoothed, seeded, fastest, slowest, pushVars, strategyVars>>

\* p99 is nobody else's to write: it tells whether its store is done
MaterializeStore ==
  /\ raw99 # NoValue /\ p99 # raw99
  /\ p99' = raw99
  /\ UNCHANGED <<samples, raw99, p99Smoothed, seeded, fastest, slowest, pushVars, strategyVars>>

\* the values alpha * raw + (1 - alpha) * prev has for alpha in (0, 1]
Blends(raw, prev) ==
  {v \in 0..(raw + prev) : (raw < v /\ v < prev) \/ (prev < v /\ v < raw) \/ v = raw}

\* Mutant of MaterializeSmooth: the first value is smoothed towards 0.
MaterializeSmoothUnseeded ==
  /\ raw99 # NoValue /\ p99 = raw99
  /\ p99Smoothed' \in Blends(raw99, p99Smoothed)
  /\ seeded' = TRUE
  /\ raw99' = NoValue
  /\ UNCHANGED <<samples, p99, fastest, slowest, pushVars, strategyVars>>

MaterializeSmooth ==
  /\ raw99 # NoValue /\ p99 = raw99
  /\ p99Smoothed' \in IF seeded THEN Blends(raw99, p99Smoothed) ELSE {raw99}
  /\ seeded' = TRUE
  /\ raw99' = NoValue
  /\ UNCHANGED <<samples, p99, fastest, slowest, pushVars, strategyVars>>

Materialize == MaterializeCopy \/ MaterializeStore \/ MaterializeSmooth

-----------------------------------------------------------------------------
(* runMetricsPush and UpdateStrategyMetrics                                *)

PushRead ==
  /\ pushing = NoValue
  /\ pushing' = p99Smoothed
  /\ UNCHANGED <<trackerVars, metrics, strategyVars>>

PushStore ==
  /\ pushing # NoValue
  /\ metrics' = pushing
  /\ pushing' = NoValue
  /\ UNCHANGED <<trackerVars, strategyVars>>

Push == PushRead \/ PushStore

-----------------------------------------------------------------------------
(* The strategies                                                          *)

\* QueueDepthStrategy.CalculateTimeout: the deeper the queue, the shorter;
\* a configuration may have its thresholds, or its waits, in any order
QueueDepthWait(depth) ==
  LET span == HighThreshold - LowThreshold
  IN  IF depth <= LowThreshold THEN MaxWaitMs
      ELSE IF depth >= HighThreshold THEN MinWaitMs
      ELSE LET waitMs == (MaxWaitMs * span - (depth - LowThreshold) * (MaxWaitMs - MinWaitMs)) \div span
           IN  IF waitMs < 0 THEN 0 ELSE waitMs

\* the timeout of the strategy itself, or of the one latency_aware wraps
BaseWait(kind, depth) ==
  IF kind = "fixed" THEN MaxWaitMs ELSE QueueDepthWait(depth)

Clamp(v) ==
  IF v < LowestMultiplier THEN LowestMultiplier
  ELSE IF v > HighestMultiplier THEN HighestMultiplier
  ELSE v

\* Mutant of Corrected: the sign of the error is wrong.
CorrectedAway(s) ==
  IF s.kind = "latency_aware" /\ metrics > 0 /\ TargetP99Ms > 0
  THEN [s EXCEPT !.multiplier = Clamp(@ + (Gain * (metrics - TargetP99Ms)) \div TargetP99Ms)]
  ELSE s

\* one proportional step, unless nothing has been measured
Corrected(s) ==
  IF s.kind = "latency_aware" /\ metrics > 0 /\ TargetP99Ms > 0
  THEN [s EXCEPT !.multiplier = Clamp(@ - (Gain * (metrics - TargetP99Ms)) \div TargetP99Ms)]
  ELSE s

-----------------------------------------------------------------------------
(* AdaptiveBatcher                                                         *)

\* activeStrategy at the top of formBatch
LoadStrategy ==
  /\ held = "none"
  /\ held' = "current"
  /\ UNCHANGED <<trackerVars, pushVars, strategy, replaced>>

\* formBatch finds enough to flush without a window
SkipWindow ==
  /\ held # "none"
  /\ held' = "none" /\ replaced' = NewStrategy("fixed")
  /\ UNCHANGED <<trackerVars, pushVars, strategy>>

\* Mutant of Window: nextTimeout returns the strategy's timeout as it is.
WindowUnfloored(s, depth) == BaseWait(s.kind, depth) * s.multiplier

\* the length of the window that strategy s sets at some depth
Window(s, depth) ==
  LET wait == BaseWait(s.kind, depth) * s.multiplier
  IN  IF wait < MinFormBatchWait THEN MinFormBatchWait ELSE wait

\* nextTimeout: the strategy takes a step and sets the timer of the window
OpenWindow ==
  /\ held # "none"
  /\ strategy' = IF held = "current" THEN Corrected(strategy) ELSE strategy
  /\ held' = "none" /\ replaced' = NewStrategy("fixed")
  /\ UNCHANGED <<trackerVars, pushVars>>

\* POST /admin/strategy makes a new object
SetStrategy(kind) ==
  /\ strategy' = NewStrategy(kind)
  /\ held' = IF held = "current" THEN "replaced" ELSE held
  /\ replaced' = IF held = "current" THEN strategy ELSE replaced
  /\ UNCHANGED <<trackerVars, pushVars>>

Next ==
  \/ \E latency \in Latencies : Record(latency)
  \/ Materialize
  \/ Push
  \/ LoadStrategy \/ SkipWindow \/ OpenWindow
  \/ \E kind \in Kinds : SetStrategy(kind)

Spec == Init /\ [][Next]_vars

(* Fairness: the two tickers tick.  Windows open for ever: this is no      *)
(* matter of scheduling, it says that requests keep coming.                *)
BusySpec ==
  /\ Spec
  /\ WF_vars(Materialize) /\ WF_vars(Push)
  /\ WF_vars(LoadStrategy)
  /\ SF_vars(OpenWindow)

-----------------------------------------------------------------------------
(* Properties.                                                             *)

Observed(v) == fastest # NoValue /\ fastest <= v /\ v <= slowest

(* What the tracker publishes and the push loop hands on was observed: 0   *)
(* before the first materialisation, a value between the least and the     *)
(* greatest latency recorded after it.  In particular the average never    *)
(* starts from 0 (latency.go:98-105, "seeded"): a controller that reads a  *)
(* value too low makes the windows longer when latency is already high.    *)
PublishedWasObserved ==
  /\ raw99 # NoValue => Observed(raw99)
  /\ p99 # 0 => Observed(p99)
  /\ IF seeded THEN Observed(p99Smoothed) ELSE p99Smoothed = 0
  /\ pushing > 0 => Observed(pushing)
  /\ metrics > 0 => Observed(metrics)

ShortestWaitMs == IF MinWaitMs < MaxWaitMs THEN MinWaitMs ELSE MaxWaitMs
LongestWaitMs == IF MinWaitMs < MaxWaitMs THEN MaxWaitMs ELSE MinWaitMs

(* Whatever the latencies, the depth (which may be inaccurate, even        *)
(* negative) and the order of the configured thresholds, the next window   *)
(* is at least half the shorter and at most twice the longer configured    *)
(* wait, and never shorter than minFormBatchWait (adaptive.go:345-354,     *)
(* latency_aware.go:41-54).  It holds of a strategy that was replaced      *)
(* after it had been loaded as of any other.  An instance has one order    *)
(* of the thresholds and waits; the theorem about it has every order.      *)
WindowBounded ==
  \A s \in {strategy, replaced}, depth \in Depths :
    LET window == Window(Corrected(s), depth)
    IN  /\ window >= MinFormBatchWait
        /\ window > MinFormBatchWait =>
             window \in LowestMultiplier * ShortestWaitMs .. HighestMultiplier * LongestWaitMs

\* every sample is beyond the target, or below it and measurable, and the
\* strategy looks at it
Controlled == strategy.kind = "latency_aware" /\ samples # <<>>
Slow == Controlled /\ \A latency \in ToSet(samples) : latency > TargetP99Ms
Fast == Controlled /\ \A latency \in ToSet(samples) : latency \in 1..TargetP99Ms - 1

(* The loop is closed: when all samples stay above the target and nobody   *)
(* swaps the strategy any more, the multiplier ends at its lower bound,    *)
(* and at its upper bound when they stay below and measurable              *)
(* (docs/spec/08-testing.md:86-95, for the controller alone).              *)
ControllerSettles ==
  \/ []<><<\E kind \in Kinds : SetStrategy(kind)>>_vars
  \/ /\ <>[]Slow => <>[](strategy.multiplier = LowestMultiplier)
     /\ <>[]Fast => <>[](strategy.multiplier = HighestMultiplier)
=============================================================================
