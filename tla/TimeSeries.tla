----------------------------- MODULE TimeSeries -----------------------------
(***************************************************************************)
(* One metric's history in internal/metrics/aggregator.go: a short ring of *)
(* points and a long ring of their means, written by runMetricsPush and by *)
(* the downsampler, read by GET /metrics/history and CSVExport.            *)
(*                                                                         *)
(* The unit of time is metrics.collection_interval, so the metric gets at  *)
(* most one point in a unit.  A mean is modelled by the additions it is    *)
(* the mean of.  Every access to the rings holds the series' mutex and is  *)
(* one step; the clock is read a moment earlier, in the same unit.         *)
(***************************************************************************)
EXTENDS Integers, FiniteSets, Functions

CONSTANTS
  ShortLen, LongLen,  \* lengths of the rings: 300 and 60
  ShortWindow,        \* five minutes
  Minute,
  MaxDelay,           \* bound: lateness of the downsampler
  MaxTime,            \* bound of the clock
  MaxDropped          \* bound: pushes that are dropped

ASSUME TimeSeriesAssumption ==
  /\ ShortLen \in Nat \ {0} /\ LongLen \in Nat \ {0}
  /\ ShortWindow \in Nat /\ Minute \in Nat \ {0}
  /\ MaxDelay \in 0..Minute - 1 /\ MaxTime \in Nat \ {0} /\ MaxDropped \in Nat

VARIABLES
  now,
  short, shortHead,   \* the short ring and the index written next
  long, longHead,     \* the long ring, likewise
  nextTick,           \* when the downsampler's ticker fires next
  added               \* history: when points were added

shortRing == <<short, shortHead, added>>
longRing == <<long, longHead, nextTick>>
vars == <<now, shortRing, longRing>>

\* a point of time `at` that stands for the additions `of`; Zero is IsZero
Point(at, of) == [at |-> at, of |-> of]
Zero == Point(0, {})
Points == [at : 0..MaxTime, of : SUBSET (1..MaxTime)]

TypeOK ==
  /\ now \in 1..MaxTime
  /\ short \in [0..ShortLen - 1 -> Points] /\ shortHead \in 0..ShortLen - 1
  /\ long \in [0..LongLen - 1 -> Points] /\ longHead \in 0..LongLen - 1
  /\ nextTick \in Nat
  /\ added \subseteq 1..now

\* getOrCreate's empty series, which reads as no series does
Init ==
  /\ now = 1
  /\ short = [i \in 0..ShortLen - 1 |-> Zero] /\ shortHead = 0
  /\ long = [i \in 0..LongLen - 1 |-> Zero] /\ longHead = 0
  /\ nextTick = Minute
  /\ added = {}

-----------------------------------------------------------------------------
(* Writers                                                                 *)

\* Mutant of Add: the head advances before the write.
AddAhead ==
  /\ now \notin added
  /\ shortHead' = (shortHead + 1) % ShortLen
  /\ short' = [short EXCEPT ![shortHead'] = Point(now, {now})]
  /\ added' = added \cup {now}
  /\ UNCHANGED <<now, longRing>>

\* a tick of runMetricsPush, which its ticker may also drop
Add ==
  /\ now \notin added
  /\ short' = [short EXCEPT ![shortHead] = Point(now, {now})]
  /\ shortHead' = (shortHead + 1) % ShortLen
  /\ added' = added \cup {now}
  /\ UNCHANGED <<now, longRing>>

\* the points downsampleAll takes the mean of
LastMinute == {p \in {short[i] : i \in DOMAIN short} : p # Zero /\ p.at > now - Minute}

\* Mutant of StoreMean: the head does not wrap around.
StoreMeanUnwrapped(of) ==
  /\ long' = [long EXCEPT ![longHead] = Point(now, of)]
  /\ longHead' = longHead + 1

StoreMean(of) ==
  /\ long' = [long EXCEPT ![longHead] = Point(now, of)]
  /\ longHead' = (longHead + 1) % LongLen

\* a tick of downsampleLoop; a minute without points leaves no mean
Downsample ==
  /\ now >= nextTick
  /\ IF LastMinute = {} THEN UNCHANGED <<long, longHead>>
     ELSE StoreMean(UNION {p.of : p \in LastMinute})
  /\ nextTick' = nextTick + Minute
  /\ UNCHANGED <<now, shortRing>>

Tick ==
  /\ now < MaxTime /\ now < nextTick + MaxDelay
  /\ Cardinality((1..now) \ added) <= MaxDropped
  /\ now' = now + 1
  /\ UNCHANGED <<shortRing, longRing>>

\* the bound of the clock has been reached
Ended == now = MaxTime /\ UNCHANGED vars

Next == Add \/ Downsample \/ Tick \/ Ended

Spec == Init /\ [][Next]_vars

-----------------------------------------------------------------------------
(* Readers: pure functions of the state                                    *)

\* the whole ring, last written entry first
Backward(ring, head) ==
  LET n == Cardinality(DOMAIN ring) IN [k \in 1..n |-> ring[(head - k + n) % n]]

(* What has been read is a function from places to points, in the order of *)
(* the places; the code's slice closes up the gaps between them.  Entries  *)
(* never written are skipped, the first old one ends the walk.             *)
ReadRingBackward(ring, head, cutoff) ==
  LET points == Backward(ring, head)
      written == {k \in DOMAIN points : points[k] # Zero}
  IN  Restrict(points, {k \in written : \A j \in written : j <= k => points[j].at >= cutoff})

\* Mutant of BeforeShortWindow: the filter of the merge is the wrong way round.
InsideShortWindow(points) ==
  Restrict(points, {k \in DOMAIN points : points[k].at >= now - ShortWindow})

\* the means that GetHistory keeps of those it has read
BeforeShortWindow(points) ==
  Restrict(points, {k \in DOMAIN points : points[k].at < now - ShortWindow})

\* the recent points and, in the places behind the short ring's, the means
GetHistory(duration) ==
  LET recent == ReadRingBackward(short, shortHead, now - duration)
      older == BeforeShortWindow(ReadRingBackward(long, longHead, now - duration))
  IN  IF duration <= ShortWindow THEN recent
      ELSE [k \in DOMAIN recent \cup {ShortLen + j : j \in DOMAIN older} |->
              IF k <= ShortLen THEN recent[k] ELSE older[k - ShortLen]]

-----------------------------------------------------------------------------
(* Properties.                                                             *)

(* A query for less than the short ring spans returns every point added    *)
(* since then, and nothing else, newest first, however often the ring has  *)
(* wrapped around and whichever pushes were dropped (aggregator.go:59-60). *)
(* At one point a second that is all of the five minutes of the short      *)
(* window, at the shipped 100 ms it is the last 30 seconds of them: what   *)
(* duration < ShortLen says.                                               *)
HistoryComplete ==
  \A duration \in 1..ShortWindow :
    duration < ShortLen =>
      LET history == GetHistory(duration)
      IN  /\ {history[k].at : k \in DOMAIN history} = {t \in added : t >= now - duration}
          /\ \A j, k \in DOMAIN history : j < k => history[j].at > history[k].at

\* how many points were added after t and before a later time
Followers(t, until) == Cardinality({s \in added : t < s /\ s < until})

\* when the downsampler is due next after t
TickAfter(t) == t - (t % Minute) + Minute

(* Across the seam of the two rings, GetHistory knows of a point exactly   *)
(* when the short ring still held it as the downsampler came by: once the  *)
(* point has left the short window, and its mean too (a minute later), and *)
(* while the long ring reaches back to it, it is in one of the means       *)
(* returned if fewer than ShortLen others followed it until the tick, late *)
(* as that may be, and in none if so many followed it before the tick was  *)
(* due.  Where a minute has more points than the short ring, as at the     *)
(* shipped interval of 100 ms, the second part says that the hour is made  *)
(* of fractions of its minutes.  Excepted are points added about when the  *)
(* downsampler was due: each tick has its own cutoff, so one between two   *)
(* may be in no mean (aggregator.go:79-93, 117-149).                       *)
HourCovered ==
  \A t \in added :
    /\ t < now - ShortWindow - Minute - MaxDelay
    /\ t >= now - LongLen * Minute
    /\ t % Minute > MaxDelay
    => \A duration \in now - t .. MaxTime :
         LET history == GetHistory(duration)
             returned == \E k \in DOMAIN history : t \in history[k].of
         IN  /\ Followers(t, TickAfter(t) + MaxDelay + 1) < ShortLen => returned
             /\ Followers(t, TickAfter(t)) >= ShortLen => ~returned
=============================================================================
