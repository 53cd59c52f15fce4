------------------------ MODULE LatencyControlProofs ------------------------
(***************************************************************************)
(* Proofs about LatencyControl, for any recorded latencies, any size of    *)
(* the reservoir and any configuration of the strategies.                  *)
(***************************************************************************)
EXTENDS LatencyControl, TLAPS

USE LatencyControlAssumption DEF NoValue

-----------------------------------------------------------------------------
(* Type correctness                                                        *)

\* clampMultiplier returns a multiplier of its interval (latency_aware.go:68-76)
LEMMA ClampBounds == ASSUME NEW v \in Int PROVE Clamp(v) \in LowestMultiplier..HighestMultiplier
  BY DEF Clamp, LowestMultiplier, HighestMultiplier

\* one step of the controller leaves a strategy object (latency_aware.go:41-48)
LEMMA CorrectedType ==
  ASSUME NEW s \in Strategies, metrics \in Nat
  PROVE  Corrected(s) \in Strategies
<1>1. CASE s.kind = "latency_aware" /\ metrics > 0 /\ TargetP99Ms > 0
  <2> DEFINE step == (Gain * (metrics - TargetP99Ms)) \div TargetP99Ms
             v == s.multiplier - step
  <2>1. Gain * (metrics - TargetP99Ms) \in Int
    OBVIOUS
  <2>2. step \in Int
    BY <2>1, <1>1
  <2>3. v \in Int
    <3>1. s.multiplier \in Int
      BY DEF Strategies, LowestMultiplier, HighestMultiplier
    <3> HIDE DEF step
    <3> QED
      BY <2>2, <3>1
  <2>4. Clamp(v) \in LowestMultiplier..HighestMultiplier
    BY <2>3, ClampBounds
  <2>5. Corrected(s) = [s EXCEPT !.multiplier = Clamp(v)]
    BY <1>1 DEF Corrected
  <2> QED
    BY <2>4, <2>5 DEF Strategies
<1>2. CASE ~(s.kind = "latency_aware" /\ metrics > 0 /\ TargetP99Ms > 0)
  BY <1>2 DEF Corrected
<1> QED
  BY <1>1, <1>2

\* a smoothed value is a natural number
LEMMA BlendsType == ASSUME NEW raw \in Nat, NEW prev \in Nat PROVE Blends(raw, prev) \subseteq Nat
  BY DEF Blends

\* buildStrategy makes a strategy object
LEMMA NewStrategyType == \A kind \in Kinds : NewStrategy(kind) \in Strategies
  BY DEF NewStrategy, Strategies, LowestMultiplier, HighestMultiplier

LEMMA FixedIsKind == "fixed" \in Kinds
  BY DEF Kinds

\* the initial state is well formed
LEMMA InitType == Init => TypeOK
<1> SUFFICES ASSUME Init PROVE TypeOK
  OBVIOUS
<1>1. samples \in Seq(Latencies) /\ Len(samples) <= WindowSize
  BY DEF Init
<1>2. seeded \in BOOLEAN /\ held \in {"none", "current", "replaced"}
  BY Zenon DEF Init
<1>3. strategy \in Strategies /\ replaced \in Strategies
  BY NewStrategyType, FixedIsKind DEF Init
<1>4. /\ raw99 \in Latencies \cup {NoValue}
      /\ p99 \in Nat /\ p99Smoothed \in Nat
      /\ pushing \in Nat \cup {NoValue} /\ metrics \in Nat
      /\ fastest \in Latencies \cup {NoValue} /\ slowest \in Latencies \cup {NoValue}
  BY DEF Init
<1> QED
  BY <1>1, <1>2, <1>3, <1>4 DEF TypeOK

\* every step keeps the state well formed
LEMMA NextType == TypeOK /\ [Next]_vars => TypeOK'
<1> SUFFICES ASSUME TypeOK, [Next]_vars PROVE TypeOK'
  OBVIOUS
<1>1. ASSUME NEW latency \in Latencies, Record(latency) PROVE TypeOK'
  <2>1. samples' \in Seq(Latencies) /\ Len(samples') <= WindowSize
    <3>1. CASE Len(samples) < WindowSize /\ samples' = Append(samples, latency)
      BY <3>1 DEF TypeOK
    <3>2. CASE Len(samples) = WindowSize /\ \E j \in 1..WindowSize : samples' = [samples EXCEPT ![j] = latency]
      BY <3>2 DEF TypeOK
    <3>3. CASE UNCHANGED samples
      BY <3>3 DEF TypeOK
    <3> QED
      BY <1>1, <3>1, <3>2, <3>3 DEF Record
  <2>2. fastest' \in Latencies \cup {NoValue} /\ slowest' \in Latencies \cup {NoValue}
    BY <1>1 DEF Record, TypeOK
  <2> QED
    BY <1>1, <2>1, <2>2 DEF Record, TypeOK, pushVars, strategyVars
<1>2. CASE MaterializeCopy
  <2>1. ToSet(samples) \subseteq Latencies
    BY DEF TypeOK, ToSet
  <2> QED
    BY <1>2, <2>1 DEF MaterializeCopy, TypeOK, pushVars, strategyVars
<1>3. CASE MaterializeStore
  BY <1>3 DEF MaterializeStore, TypeOK, pushVars, strategyVars
<1>4. CASE MaterializeSmooth
  <2>1. raw99 \in Nat
    BY <1>4 DEF MaterializeSmooth, TypeOK
  <2>2. Blends(raw99, p99Smoothed) \subseteq Nat
    BY <2>1, BlendsType DEF TypeOK
  <2> QED
    BY <1>4, <2>1, <2>2 DEF MaterializeSmooth, TypeOK, pushVars, strategyVars
<1>5. CASE Push
  BY <1>5 DEF Push, PushRead, PushStore, TypeOK, trackerVars, strategyVars
<1>6. CASE LoadStrategy
  BY <1>6 DEF LoadStrategy, TypeOK, trackerVars, pushVars
<1>7. CASE SkipWindow
  BY <1>7, NewStrategyType, FixedIsKind DEF SkipWindow, TypeOK, trackerVars, pushVars
<1>8. CASE OpenWindow
  <2>1. Corrected(strategy) \in Strategies
    BY CorrectedType DEF TypeOK
  <2> QED
    BY <1>8, <2>1, NewStrategyType, FixedIsKind DEF OpenWindow, TypeOK, trackerVars, pushVars
<1>9. ASSUME NEW kind \in Kinds, SetStrategy(kind) PROVE TypeOK'
  BY <1>9, NewStrategyType DEF SetStrategy, TypeOK, trackerVars, pushVars
<1>10. CASE UNCHANGED vars
  BY <1>10 DEF vars, trackerVars, pushVars, strategyVars, TypeOK
<1> QED
  BY <1>1, <1>2, <1>3, <1>4, <1>5, <1>6, <1>7, <1>8, <1>9, <1>10 DEF Next, Materialize

(* Every reachable state of the feedback loop is well formed; above all    *)
(* the multiplier is between a half and two (latency_aware.go:46).         *)
THEOREM TypeCorrect == Spec => []TypeOK
<1>1. Init => TypeOK
  BY InitType
<1>2. TypeOK /\ [Next]_vars => TypeOK'
  BY NextType
<1> QED
  BY <1>1, <1>2, PTL DEF Spec

-----------------------------------------------------------------------------
(* What is published was observed                                          *)

\* what is in the reservoir was recorded
SamplesObserved == \A i \in DOMAIN samples : Observed(samples[i])

ObservedInv == TypeOK /\ SamplesObserved /\ PublishedWasObserved

\* nothing has been recorded or published at first
LEMMA ObservedInit == Init => ObservedInv
<1> SUFFICES ASSUME Init PROVE ObservedInv
  OBVIOUS
<1>1. TypeOK
  BY InitType
<1>2. SamplesObserved
  BY DEF Init, SamplesObserved
<1>3. PublishedWasObserved
  <2>1. ~seeded
    BY Zenon DEF Init
  <2> QED
    BY <2>1 DEF Init, PublishedWasObserved
<1> QED
  BY <1>1, <1>2, <1>3 DEF ObservedInv

\* v was observed by the end of the step
ObservedAfter(v) == fastest' # NoValue /\ fastest' <= v /\ v <= slowest'

\* the interval of what was observed only grows, and takes in what is recorded
LEMMA RecordWidens ==
  ASSUME TypeOK, NEW latency \in Latencies, Record(latency)
  PROVE  /\ \A v \in Nat : Observed(v) => ObservedAfter(v)
         /\ ObservedAfter(latency)
  BY DEF TypeOK, Record, Observed, ObservedAfter

\* recording a latency puts it in the reservoir and leaves the others where they are
LEMMA RecordReplaces ==
  ASSUME samples \in Seq(Latencies), NEW latency \in Latencies, Record(latency),
         NEW i \in DOMAIN samples', samples'[i] # latency
  PROVE  i \in DOMAIN samples /\ samples'[i] = samples[i]
<1>1. CASE samples' = Append(samples, latency)
  <2>1. i \in 1..(Len(samples) + 1)
    BY <1>1
  <2>2. i # Len(samples) + 1
    BY <1>1
  <2>3. i \in 1..Len(samples)
    BY <2>1, <2>2
  <2> QED
    BY <1>1, <2>3
<1>2. ASSUME NEW j \in 1..WindowSize, samples' = [samples EXCEPT ![j] = latency]
      PROVE  i \in DOMAIN samples /\ samples'[i] = samples[i]
  <2>1. DOMAIN samples' = DOMAIN samples
    BY <1>2
  <2>2. samples'[i] = IF i = j THEN latency ELSE samples[i]
    BY <1>2, <2>1
  <2> QED
    BY <2>1, <2>2
<1>3. CASE UNCHANGED samples
  BY <1>3
<1>4. \/ samples' = Append(samples, latency)
      \/ \E j \in 1..WindowSize : samples' = [samples EXCEPT ![j] = latency]
      \/ UNCHANGED samples
  BY Zenon DEF Record
<1> QED
  BY <1>1, <1>2, <1>3, <1>4

\* a blend of two observed values was observed
LEMMA BlendObserved ==
  ASSUME TypeOK, NEW raw \in Nat, NEW prev \in Nat, Observed(raw), Observed(prev),
         NEW v \in Blends(raw, prev)
  PROVE  Observed(v)
  BY DEF TypeOK, Observed, Blends

\* every step keeps what is published within what was observed
LEMMA ObservedNext == ObservedInv /\ TypeOK' /\ [Next]_vars => ObservedInv'
<1> SUFFICES ASSUME ObservedInv, TypeOK', [Next]_vars PROVE ObservedInv'
  OBVIOUS
<1> USE DEF ObservedInv
<1>0. raw99 # NoValue => raw99 \in Nat
  BY DEF TypeOK
<1>1. ASSUME NEW latency \in Latencies, Record(latency) PROVE ObservedInv'
  <2>1. /\ \A v \in Nat : Observed(v) => ObservedAfter(v)
        /\ ObservedAfter(latency)
    BY <1>1, RecordWidens
  <2>2. SamplesObserved'
    <3> SUFFICES ASSUME NEW i \in DOMAIN samples' PROVE ObservedAfter(samples'[i])
      BY DEF SamplesObserved, Observed, ObservedAfter
    <3>1. CASE samples'[i] = latency
      BY <2>1, <3>1
    <3>2. CASE samples'[i] # latency
      <4>1. i \in DOMAIN samples /\ samples'[i] = samples[i]
        BY <1>1, <3>2, RecordReplaces DEF TypeOK
      <4>2. samples[i] \in Nat
        <5>1. samples \in Seq(Latencies)
          BY DEF TypeOK
        <5>2. i \in 1..Len(samples)
          BY <4>1, <5>1
        <5>3. samples[i] \in Latencies
          BY <5>1, <5>2
        <5> QED
          BY <5>3
      <4>3. Observed(samples[i])
        BY <4>1 DEF SamplesObserved
      <4> QED
        BY <2>1, <4>1, <4>2, <4>3
    <3> QED
      BY <3>1, <3>2
  <2>3. PublishedWasObserved'
    <3>1. UNCHANGED <<raw99, p99, p99Smoothed, seeded, pushing, metrics>>
      BY <1>1 DEF Record, pushVars
    <3>2. /\ raw99 # NoValue => ObservedAfter(raw99)
          /\ p99 # 0 => ObservedAfter(p99)
      BY <1>0, <2>1 DEF PublishedWasObserved, TypeOK
    <3>3. IF seeded THEN ObservedAfter(p99Smoothed) ELSE p99Smoothed = 0
      BY <2>1 DEF PublishedWasObserved, TypeOK
    <3>4. /\ pushing > 0 => ObservedAfter(pushing)
          /\ metrics > 0 => ObservedAfter(metrics)
      BY <2>1 DEF PublishedWasObserved, TypeOK
    <3> QED
      BY <3>1, <3>2, <3>3, <3>4 DEF PublishedWasObserved, Observed, ObservedAfter
  <2> QED
    BY <2>2, <2>3
<1>2. CASE MaterializeCopy
  <2>1. PICK i \in DOMAIN samples : raw99' = samples[i]
    BY <1>2 DEF MaterializeCopy, ToSet
  <2> QED
    BY <1>2, <2>1 DEF MaterializeCopy, SamplesObserved, PublishedWasObserved, Observed, pushVars
<1>3. CASE MaterializeStore
  BY <1>3 DEF MaterializeStore, SamplesObserved, PublishedWasObserved, Observed, pushVars
<1>4. CASE MaterializeSmooth
  <2>1. Observed(raw99) /\ raw99 \in Nat
    BY <1>0, <1>4 DEF MaterializeSmooth, PublishedWasObserved
  <2>2. Observed(p99Smoothed')
    <3>1. CASE seeded
      <4>1. Observed(p99Smoothed) /\ p99Smoothed \in Nat
        BY <3>1 DEF PublishedWasObserved, TypeOK
      <4>2. p99Smoothed' \in Blends(raw99, p99Smoothed)
        BY <1>4, <3>1 DEF MaterializeSmooth
      <4> QED
        BY <2>1, <4>1, <4>2, BlendObserved
    <3>2. CASE ~seeded
      BY <1>4, <2>1, <3>2 DEF MaterializeSmooth
    <3> QED
      BY <3>1, <3>2
  <2>3. seeded'
    BY <1>4 DEF MaterializeSmooth
  <2> QED
    BY <1>4, <2>2, <2>3 DEF MaterializeSmooth, SamplesObserved, PublishedWasObserved, Observed, pushVars
<1>5. CASE PushRead
  <2>1. p99Smoothed > 0 => Observed(p99Smoothed)
    BY DEF PublishedWasObserved
  <2> QED
    BY <1>5, <2>1 DEF PushRead, SamplesObserved, PublishedWasObserved, Observed, trackerVars
<1>6. CASE PushStore
  BY <1>6 DEF PushStore, SamplesObserved, PublishedWasObserved, Observed, trackerVars
<1>7. CASE UNCHANGED <<trackerVars, pushVars>>
  BY <1>7 DEF SamplesObserved, PublishedWasObserved, Observed, trackerVars, pushVars
<1> QED
  BY <1>1, <1>2, <1>3, <1>4, <1>5, <1>6, <1>7
     DEF Next, Materialize, Push, LoadStrategy, SkipWindow, OpenWindow, SetStrategy, vars

(* No latency that nobody observed is published or reaches the controller, *)
(* whatever the smoothing factor (latency.go:82-106, main.go:196-199).     *)
THEOREM OnlyObservedIsPublished == Spec => []PublishedWasObserved
<1>1. Init => ObservedInv
  BY ObservedInit
<1>2. ObservedInv /\ [Next]_vars => ObservedInv'
  BY ObservedNext, NextType DEF ObservedInv
<1>3. ObservedInv => PublishedWasObserved
  BY DEF ObservedInv
<1> QED
  BY <1>1, <1>2, <1>3, PTL DEF Spec

-----------------------------------------------------------------------------
(* The window keeps its bounds                                             *)

\* a product of naturals is a natural
LEMMA ProductNat == ASSUME NEW a \in Nat, NEW b \in Nat PROVE a * b \in Nat
  OBVIOUS

\* integer division stays between bounds
LEMMA DivBetween ==
  ASSUME NEW x \in Int, NEW n \in Nat \ {0}, NEW lo \in Int, NEW hi \in Int,
         lo * n <= x, x <= hi * n
  PROVE  x \div n \in lo..hi
<1> DEFINE q == x \div n
           r == x % n
<1>1. q \in Int /\ r \in Nat /\ r < n /\ x = n * q + r
  BY SMTT(30)
<1> HIDE DEF q, r
<1>2. lo <= q
  <2> SUFFICES ASSUME q + 1 <= lo PROVE FALSE
    BY <1>1
  <2>1. lo - (q + 1) \in Nat
    BY <1>1
  <2>2. (lo - (q + 1)) * n \in Nat
    BY <2>1, ProductNat
  <2>3. (lo - (q + 1)) * n = lo * n - (n * q + n)
    BY <1>1, SMTT(30)
  <2>4. lo * n \in Int /\ n * q \in Int
    BY <1>1
  <2> QED
    BY <1>1, <2>2, <2>3, <2>4
<1>3. q <= hi
  <2> SUFFICES ASSUME hi + 1 <= q PROVE FALSE
    BY <1>1
  <2>1. q - (hi + 1) \in Nat
    BY <1>1
  <2>2. (q - (hi + 1)) * n \in Nat
    BY <2>1, ProductNat
  <2>3. (q - (hi + 1)) * n = n * q - (hi * n + n)
    BY <1>1, SMTT(30)
  <2>4. hi * n \in Int /\ n * q \in Int
    BY <1>1
  <2> QED
    BY <1>1, <2>2, <2>3, <2>4
<1> QED
  BY <1>1, <1>2, <1>3 DEF q

\* a mean of a and b with the weights m - d and d, rounded down, is between them
LEMMA WeightedMean ==
  ASSUME NEW a \in Int, NEW b \in Int, NEW m \in Nat \ {0}, NEW d \in 0..m
  PROVE  /\ a <= b => (a * m - d * (a - b)) \div m \in a..b
         /\ b <= a => (a * m - d * (a - b)) \div m \in b..a
<1> DEFINE x == a * m - d * (a - b)
<1>1. x \in Int /\ a * m \in Int /\ b * m \in Int
  OBVIOUS
<1>2. x - a * m = d * (b - a) /\ a * m - x = d * (a - b)
  BY SMTT(30)
<1>3. b * m - x = (m - d) * (b - a) /\ x - b * m = (m - d) * (a - b)
  BY SMTT(30)
<1>4. d \in Nat /\ m - d \in Nat
  OBVIOUS
<1> HIDE DEF x
<1>5. ASSUME a <= b PROVE x \div m \in a..b
  <2>1. b - a \in Nat
    BY <1>5
  <2>2. d * (b - a) \in Nat /\ (m - d) * (b - a) \in Nat
    BY <1>4, <2>1, ProductNat
  <2>3. a * m <= x /\ x <= b * m
    BY <1>1, <1>2, <1>3, <2>2
  <2> QED
    BY <1>1, <2>3, DivBetween
<1>6. ASSUME b <= a PROVE x \div m \in b..a
  <2>1. a - b \in Nat
    BY <1>6
  <2>2. d * (a - b) \in Nat /\ (m - d) * (a - b) \in Nat
    BY <1>4, <2>1, ProductNat
  <2>3. b * m <= x /\ x <= a * m
    BY <1>1, <1>2, <1>3, <2>2
  <2> QED
    BY <1>1, <2>3, DivBetween
<1> QED
  BY <1>5, <1>6 DEF x

\* the timeout of a base strategy is 0 or between the configured waits
LEMMA BaseWaitBounds ==
  ASSUME NEW kind, NEW depth \in Int
  PROVE  BaseWait(kind, depth) = 0 \/ BaseWait(kind, depth) \in ShortestWaitMs..LongestWaitMs
<1>1. MinWaitMs \in ShortestWaitMs..LongestWaitMs /\ MaxWaitMs \in ShortestWaitMs..LongestWaitMs
  BY DEF ShortestWaitMs, LongestWaitMs
<1>2. QueueDepthWait(depth) = 0 \/ QueueDepthWait(depth) \in ShortestWaitMs..LongestWaitMs
  <2>1. CASE depth <= LowThreshold \/ depth >= HighThreshold
    BY <1>1, <2>1 DEF QueueDepthWait
  <2>2. CASE LowThreshold < depth /\ depth < HighThreshold
    <3> DEFINE span == HighThreshold - LowThreshold
               waitMs == (MaxWaitMs * span - (depth - LowThreshold) * (MaxWaitMs - MinWaitMs)) \div span
    <3>1. span \in Nat \ {0} /\ depth - LowThreshold \in 0..span
      BY <2>2
    <3> HIDE DEF span
    <3>2. waitMs \in ShortestWaitMs..LongestWaitMs
      <4>1. /\ MaxWaitMs <= MinWaitMs => waitMs \in MaxWaitMs..MinWaitMs
            /\ MinWaitMs <= MaxWaitMs => waitMs \in MinWaitMs..MaxWaitMs
        BY <3>1, WeightedMean
      <4> HIDE DEF waitMs
      <4> QED
        BY <4>1 DEF ShortestWaitMs, LongestWaitMs
    <3>3. QueueDepthWait(depth) = IF waitMs < 0 THEN 0 ELSE waitMs
      BY <2>2 DEF QueueDepthWait, span
    <3> HIDE DEF waitMs
    <3> QED
      BY <3>2, <3>3
  <2> QED
    BY <2>1, <2>2
<1> QED
  BY <1>1, <1>2 DEF BaseWait

(* Every window is between half the shorter and twice the longer wait, for *)
(* every configuration, depth and history of latencies                     *)
(* (adaptive.go:345-354, queue_depth.go:34-51, latency_aware.go:41-54).    *)
THEOREM WindowsAreBounded == Spec => []WindowBounded
<1>1. TypeOK => WindowBounded
  <2> SUFFICES ASSUME TypeOK, NEW s \in {strategy, replaced}, NEW depth \in Depths
               PROVE  LET window == Window(Corrected(s), depth)
                      IN  /\ window >= MinFormBatchWait
                          /\ window > MinFormBatchWait =>
                               window \in LowestMultiplier * ShortestWaitMs .. HighestMultiplier * LongestWaitMs
    BY DEF WindowBounded
  <2> DEFINE c == Corrected(s)
             base == BaseWait(c.kind, depth)
             mult == c.multiplier
  <2>1. c \in Strategies
    BY CorrectedType DEF TypeOK
  <2>2. mult \in 500..2000
    BY <2>1 DEF Strategies, LowestMultiplier, HighestMultiplier
  <2>3. ShortestWaitMs \in Int /\ LongestWaitMs \in Int
    BY DEF ShortestWaitMs, LongestWaitMs
  <2>4. base = 0 \/ base \in ShortestWaitMs..LongestWaitMs
    BY BaseWaitBounds
  <2>5. Window(c, depth) = IF base * mult < 1000 THEN 1000 ELSE base * mult
    BY DEF Window, MinFormBatchWait
  <2> HIDE DEF c, base, mult
  <2>6. base \in Int /\ base * mult \in Int
    BY <2>2, <2>3, <2>4
  <2>7. ASSUME base * mult > 1000
        PROVE  base * mult \in 500 * ShortestWaitMs .. 2000 * LongestWaitMs
    <3>1. base > 0
      <4> SUFFICES ASSUME 0 - base \in Nat PROVE FALSE
        BY <2>6
      <4>1. (0 - base) * mult \in Nat
        BY <2>2, ProductNat
      <4>2. (0 - base) * mult = 0 - base * mult
        BY <2>2, <2>6, SMTT(30)
      <4> QED
        BY <2>6, <2>7, <4>1, <4>2
    <3>2. base \in ShortestWaitMs..LongestWaitMs
      BY <2>4, <3>1
    <3>3. base * (mult - 500) \in Nat /\ base * (2000 - mult) \in Nat
      <4>1. base \in Nat /\ mult - 500 \in Nat /\ 2000 - mult \in Nat
        BY <2>2, <2>6, <3>1
      <4> QED
        BY <4>1, ProductNat
    <3>4. base * (mult - 500) = base * mult - 500 * base /\ base * (2000 - mult) = 2000 * base - base * mult
      BY <2>2, <2>6, SMTT(30)
    <3>5. 500 * base <= base * mult /\ base * mult <= 2000 * base
      BY <2>6, <3>3, <3>4
    <3> QED
      BY <2>3, <2>6, <3>2, <3>5
  <2> QED
    BY <2>5, <2>6, <2>7 DEF c, MinFormBatchWait, LowestMultiplier, HighestMultiplier
<1>2. Spec => []TypeOK
  BY TypeCorrect
<1> QED
  BY <1>1, <1>2, PTL
=============================================================================
