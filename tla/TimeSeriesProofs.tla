-------------------------- MODULE TimeSeriesProofs --------------------------
(***************************************************************************)
(* Machine-checked theorems about TimeSeries, for any lengths of the two   *)
(* rings, any window and any bound on the downsampler's lateness: what the *)
(* rings hold after any number of wraps, and what a query makes of it.     *)
(***************************************************************************)
EXTENDS TimeSeries, FiniteSetTheorems, TLAPS

USE TimeSeriesAssumption

-----------------------------------------------------------------------------
(* Rings.                                                                  *)

\* the remainders that occur: nothing, or once the length of the ring, too much
LEMMA ModSmall ==
  ASSUME NEW n \in Nat \ {0}, NEW a \in 0..n - 1
  PROVE  a % n = a /\ (a + n) % n = a
  OBVIOUS

\* the index of the entry in place k, and the index that is written next
Index(n, head, k) == IF k <= head THEN head - k ELSE head - k + n
Ahead(n, head) == IF head = n - 1 THEN 0 ELSE head + 1

\* the place read k-th lies in the ring, and is what the code computes with %
LEMMA IndexIs ==
  ASSUME NEW n \in Nat \ {0}, NEW head \in 0..n - 1, NEW k \in 1..n
  PROVE  (head - k + n) % n = Index(n, head, k) /\ Index(n, head, k) \in 0..n - 1
<1>1. CASE k <= head
  <2>1. head - k \in 0..n - 1
    BY <1>1
  <2> QED BY <1>1, <2>1, ModSmall DEF Index
<1>2. CASE ~(k <= head)
  <2>1. head - k + n \in 0..n - 1
    BY <1>2
  <2> QED BY <1>2, <2>1, ModSmall DEF Index
<1> QED BY <1>1, <1>2

\* every index is that of a place
LEMMA IndexOnto ==
  ASSUME NEW n \in Nat \ {0}, NEW head \in 0..n - 1, NEW i \in 0..n - 1
  PROVE  \E k \in 1..n : Index(n, head, k) = i
<1>1. CASE i < head
  <2>1. head - i \in 1..n /\ Index(n, head, head - i) = i
    BY <1>1 DEF Index
  <2> QED BY <2>1
<1>2. CASE ~(i < head)
  <2>1. head - i + n \in 1..n /\ Index(n, head, head - i + n) = i
    BY <1>2 DEF Index
  <2> QED BY <2>1
<1> QED BY <1>1, <1>2

\* so is the next place to write
LEMMA AheadIs ==
  ASSUME NEW n \in Nat \ {0}, NEW head \in 0..n - 1
  PROVE  (head + 1) % n = Ahead(n, head) /\ Ahead(n, head) \in 0..n - 1
<1>1. CASE head = n - 1
  <2>1. (0 + n) % n = 0
    BY ModSmall
  <2> QED BY <1>1, <2>1 DEF Ahead
<1>2. CASE head # n - 1
  <2>1. head + 1 \in 0..n - 1
    BY <1>2
  <2> QED BY <1>2, <2>1, ModSmall DEF Ahead
<1> QED BY <1>1, <1>2

\* the ring as it is read backward
LEMMA BackwardIs ==
  ASSUME NEW n \in Nat \ {0}, NEW ring, DOMAIN ring = 0..n - 1, NEW head \in 0..n - 1
  PROVE  Backward(ring, head) = [k \in 1..n |-> ring[Index(n, head, k)]]
<1>1. Cardinality(0..n - 1) = n
  BY FS_Interval
<1>2. Backward(ring, head) = [k \in 1..n |-> ring[(head - k + n) % n]]
  BY <1>1 DEF Backward
<1> QED BY <1>2, IndexIs

\* when the head moves on, every place is read one later
LEMMA IndexMoves ==
  ASSUME NEW n \in Nat \ {0}, NEW head \in 0..n - 1
  PROVE  /\ Index(n, Ahead(n, head), 1) = head
         /\ \A k \in 1..n - 1 : /\ Index(n, Ahead(n, head), k + 1) = Index(n, head, k)
                               /\ Index(n, head, k) # head
  BY DEF Index, Ahead

\* ring2 is the ring with the entry written at the head
Overwrites(n, head, entry, ring, ring2) ==
  /\ DOMAIN ring = 0..n - 1 /\ DOMAIN ring2 = 0..n - 1
  /\ ring2[head] = entry
  /\ \A i \in 0..n - 1 : i # head => ring2[i] = ring[i]

\* a write puts its entry first and moves the others up by one place
LEMMA RingMoves ==
  ASSUME NEW n \in Nat \ {0}, NEW head \in 0..n - 1, NEW entry, NEW ring, NEW ring2,
         Overwrites(n, head, entry, ring, ring2)
  PROVE  /\ Backward(ring2, Ahead(n, head))[1] = entry
         /\ \A k \in 1..n - 1 : Backward(ring2, Ahead(n, head))[k + 1] = Backward(ring, head)[k]
<1>1. Ahead(n, head) \in 0..n - 1
  BY AheadIs
<1>2. Backward(ring2, Ahead(n, head)) = [k \in 1..n |-> ring2[Index(n, Ahead(n, head), k)]]
  BY <1>1, BackwardIs DEF Overwrites
<1>3. Backward(ring, head) = [k \in 1..n |-> ring[Index(n, head, k)]]
  BY BackwardIs DEF Overwrites
<1>4. Backward(ring2, Ahead(n, head))[1] = entry
  <2>1. 1 \in 1..n
    OBVIOUS
  <2> QED BY <1>2, <2>1, IndexMoves DEF Overwrites
<1>5. ASSUME NEW k \in 1..n - 1
      PROVE  Backward(ring2, Ahead(n, head))[k + 1] = Backward(ring, head)[k]
  <2>1. k \in 1..n /\ k + 1 \in 1..n /\ Index(n, head, k) \in 0..n - 1
    BY IndexIs
  <2>2. /\ Backward(ring2, Ahead(n, head))[k + 1] = ring2[Index(n, Ahead(n, head), k + 1)]
        /\ Backward(ring, head)[k] = ring[Index(n, head, k)]
    BY <1>2, <1>3, <2>1
  <2>3. /\ Index(n, Ahead(n, head), k + 1) = Index(n, head, k)
        /\ Index(n, head, k) # head
    BY IndexMoves
  <2> QED BY <2>1, <2>2, <2>3 DEF Overwrites
<1> QED BY <1>4, <1>5

\* a write keeps the type of a ring
LEMMA RingWrite ==
  ASSUME NEW n \in Nat \ {0}, NEW V, NEW ring \in [0..n - 1 -> V], NEW head \in 0..n - 1,
         NEW entry \in V
  PROVE  LET ring2 == [ring EXCEPT ![head] = entry]
         IN  /\ ring2 \in [0..n - 1 -> V] /\ (head + 1) % n \in 0..n - 1
             /\ Overwrites(n, head, entry, ring, ring2)
  BY AheadIs DEF Overwrites

-----------------------------------------------------------------------------
(* Type correctness.                                                       *)

LEMMA PointType ==
  ASSUME NEW at \in 1..MaxTime, NEW of \in SUBSET (1..MaxTime)
  PROVE  /\ Point(at, of) \in Points /\ Point(at, of) # Zero
         /\ Point(at, of).at = at /\ Point(at, of).of = of
  BY DEF Point, Points, Zero

\* an entry never written is one of the points
LEMMA ZeroType == Zero \in Points /\ Zero.at = 0 /\ Zero.of = {}
  BY DEF Point, Points, Zero

\* a mean stands for additions
LEMMA LastMinuteType ==
  ASSUME TypeOK
  PROVE  UNION {p.of : p \in LastMinute} \in SUBSET (1..MaxTime)
<1>1. \A p \in LastMinute : p \in Points
  BY DEF LastMinute, TypeOK
<1> QED BY <1>1 DEF Points

LEMMA TypeStep == TypeOK /\ [Next]_vars => TypeOK'
<1> SUFFICES ASSUME TypeOK, [Next]_vars PROVE TypeOK'
  OBVIOUS
<1>1. CASE Add
  <2>1. Point(now, {now}) \in Points
    BY PointType DEF TypeOK
  <2>2. /\ short' = [short EXCEPT ![shortHead] = Point(now, {now})]
        /\ shortHead' = (shortHead + 1) % ShortLen
        /\ added' = added \cup {now} /\ UNCHANGED <<now, long, longHead, nextTick>>
    BY <1>1 DEF Add, longRing
  <2>3. short' \in [0..ShortLen - 1 -> Points] /\ shortHead' \in 0..ShortLen - 1
    BY <2>1, <2>2, RingWrite DEF TypeOK
  <2> QED BY <2>2, <2>3 DEF TypeOK
<1>2. CASE Downsample
  <2>1. /\ UNCHANGED <<now, short, shortHead, added>> /\ nextTick' = nextTick + Minute
    BY <1>2 DEF Downsample, shortRing
  <2>2. long' \in [0..LongLen - 1 -> Points] /\ longHead' \in 0..LongLen - 1
    <3>1. CASE LastMinute = {}
      BY <1>2, <3>1 DEF Downsample, TypeOK
    <3>2. CASE LastMinute # {}
      <4> DEFINE mean == Point(now, UNION {p.of : p \in LastMinute})
      <4>1. mean \in Points
        BY LastMinuteType, PointType DEF TypeOK
      <4>2. long' = [long EXCEPT ![longHead] = mean] /\ longHead' = (longHead + 1) % LongLen
        BY <1>2, <3>2 DEF Downsample, StoreMean
      <4> HIDE DEF mean
      <4> QED BY <4>1, <4>2, RingWrite DEF TypeOK
    <3> QED BY <3>1, <3>2
  <2> QED BY <2>1, <2>2 DEF TypeOK
<1>3. CASE Tick
  BY <1>3 DEF Tick, TypeOK, shortRing, longRing
<1>4. CASE UNCHANGED vars
  BY <1>4 DEF TypeOK, vars, shortRing, longRing
<1> QED BY <1>1, <1>2, <1>3, <1>4 DEF Next, Ended

LEMMA TypeInit == Init => TypeOK
  BY ZeroType DEF Init, TypeOK

(* Both heads stay inside their rings and every entry is a point or Zero,  *)
(* however often the rings wrap around (aggregator.go:25-30, 142-147).     *)
THEOREM TypeCorrect == Spec => []TypeOK
  BY TypeInit, TypeStep, PTL DEF Spec

-----------------------------------------------------------------------------
(* The short ring.                                                         *)

\* the entries of the rings, the last one written first
Shorts == Backward(short, shortHead)
Longs == Backward(long, longHead)

\* what is read backward is a ring's length of points
LEMMA EntryType ==
  ASSUME TypeOK
  PROVE  /\ DOMAIN Shorts = 1..ShortLen /\ \A k \in 1..ShortLen : Shorts[k] \in Points
         /\ DOMAIN Longs = 1..LongLen /\ \A k \in 1..LongLen : Longs[k] \in Points
<1>1. /\ DOMAIN short = 0..ShortLen - 1 /\ shortHead \in 0..ShortLen - 1
      /\ DOMAIN long = 0..LongLen - 1 /\ longHead \in 0..LongLen - 1
      /\ \A i \in 0..ShortLen - 1 : short[i] \in Points
      /\ \A i \in 0..LongLen - 1 : long[i] \in Points
  BY DEF TypeOK
<1>2. ShortLen \in Nat \ {0} /\ LongLen \in Nat \ {0}
  OBVIOUS
<1>3. Shorts = [k \in 1..ShortLen |-> short[Index(ShortLen, shortHead, k)]]
  BY <1>1, <1>2, BackwardIs DEF Shorts
<1>4. Longs = [k \in 1..LongLen |-> long[Index(LongLen, longHead, k)]]
  BY <1>1, <1>2, BackwardIs DEF Longs
<1> QED BY <1>1, <1>3, <1>4, IndexIs

\* what an Add and a mean of the downsampler do to the rings
LEMMA AddShifts ==
  ASSUME TypeOK, Add
  PROVE  /\ Shorts'[1] = Point(now, {now})
         /\ \A k \in 1..ShortLen - 1 : Shorts'[k + 1] = Shorts[k]
<1> DEFINE point == Point(now, {now})
<1>1. point \in Points
  BY PointType DEF TypeOK
<1>2. /\ short' = [short EXCEPT ![shortHead] = point]
      /\ shortHead' = (shortHead + 1) % ShortLen
  BY DEF Add
<1> HIDE DEF point
<1>3. short \in [0..ShortLen - 1 -> Points] /\ shortHead \in 0..ShortLen - 1
  BY DEF TypeOK
<1>4. Overwrites(ShortLen, shortHead, point, short, short')
  BY <1>1, <1>2, <1>3, RingWrite
<1>5. shortHead' = Ahead(ShortLen, shortHead)
  BY <1>2, <1>3, AheadIs
<1>6. /\ Backward(short', shortHead')[1] = point
      /\ \A k \in 1..ShortLen - 1 :
           Backward(short', shortHead')[k + 1] = Backward(short, shortHead)[k]
  BY <1>3, <1>4, <1>5, RingMoves
<1> QED BY <1>6 DEF Shorts, point

LEMMA MeanShifts ==
  ASSUME TypeOK, NEW of \in SUBSET (1..MaxTime), StoreMean(of)
  PROVE  /\ Longs'[1] = Point(now, of)
         /\ \A k \in 1..LongLen - 1 : Longs'[k + 1] = Longs[k]
<1>1. Point(now, of) \in Points
  BY PointType DEF TypeOK
<1>2. /\ long' = [long EXCEPT ![longHead] = Point(now, of)]
      /\ longHead' = (longHead + 1) % LongLen
  BY DEF StoreMean
<1>3. long \in [0..LongLen - 1 -> Points] /\ longHead \in 0..LongLen - 1
  BY DEF TypeOK
<1>4. Overwrites(LongLen, longHead, Point(now, of), long, long')
  BY <1>1, <1>2, <1>3, RingWrite
<1>5. longHead' = Ahead(LongLen, longHead)
  BY <1>2, <1>3, AheadIs
<1>6. /\ Backward(long', longHead')[1] = Point(now, of)
      /\ \A k \in 1..LongLen - 1 :
           Backward(long', longHead')[k + 1] = Backward(long, longHead)[k]
  BY <1>3, <1>4, <1>5, RingMoves
<1> QED BY <1>6 DEF Longs

\* both rings begin empty
LEMMA RingsInit ==
  ASSUME Init
  PROVE  /\ \A k \in 1..ShortLen : Shorts[k] = Zero
         /\ \A k \in 1..LongLen : Longs[k] = Zero
<1>1. /\ DOMAIN short = 0..ShortLen - 1 /\ shortHead \in 0..ShortLen - 1
      /\ DOMAIN long = 0..LongLen - 1 /\ longHead \in 0..LongLen - 1
      /\ \A i \in 0..ShortLen - 1 : short[i] = Zero
      /\ \A i \in 0..LongLen - 1 : long[i] = Zero
  BY DEF Init
<1>2. ShortLen \in Nat \ {0} /\ LongLen \in Nat \ {0}
  OBVIOUS
<1>3. Shorts = [k \in 1..ShortLen |-> short[Index(ShortLen, shortHead, k)]]
  BY <1>1, <1>2, BackwardIs DEF Shorts
<1>4. Longs = [k \in 1..LongLen |-> long[Index(LongLen, longHead, k)]]
  BY <1>1, <1>2, BackwardIs DEF Longs
<1> QED BY <1>1, <1>3, <1>4, IndexIs

\* an entry but for the first is the one before it was before the write
LEMMA Moved ==
  ASSUME NEW n \in Nat \ {0}, NEW k \in 1..n, k # 1
  PROVE  k - 1 \in 1..n - 1 /\ k - 1 \in 1..n /\ (k - 1) + 1 = k
  OBVIOUS

\* the short ring holds points added, one a unit at most and the newest first,
\* and it holds every one unless it is full of newer ones
Remembers(t) ==
  \/ \E k \in 1..ShortLen : Shorts[k].at = t
  \/ \A k \in 1..ShortLen : Shorts[k] # Zero /\ Shorts[k].at > t
ShortInv ==
  /\ \A k \in 1..ShortLen :
       Shorts[k] # Zero => Shorts[k].at \in added /\ Shorts[k].of = {Shorts[k].at}
  /\ \A j, k \in 1..ShortLen :
       j < k /\ Shorts[k] # Zero => Shorts[j] # Zero /\ Shorts[j].at - Shorts[k].at >= k - j
  /\ \A t \in added : Remembers(t)

LEMMA ShortKept ==
  ASSUME ShortInv, UNCHANGED <<short, shortHead, added>>
  PROVE  ShortInv'
  BY DEF ShortInv, Remembers, Shorts

LEMMA ShortAdd ==
  ASSUME TypeOK, ShortInv, Add
  PROVE  ShortInv'
<1>1. now \in 1..MaxTime /\ added \subseteq 1..now /\ now \notin added
      /\ added' = added \cup {now}
  BY DEF TypeOK, Add
<1>2. \A k \in 1..ShortLen : Shorts[k].at \in Int
  BY EntryType DEF Points
<1>3. /\ Shorts'[1] # Zero /\ Shorts'[1].at = now /\ Shorts'[1].of = {now}
  BY <1>1, AddShifts, PointType
<1>4. \A k \in 1..ShortLen : k # 1 => k - 1 \in 1..ShortLen /\ Shorts'[k] = Shorts[k - 1]
  BY AddShifts, Moved
<1>5. ASSUME NEW k \in 1..ShortLen, Shorts[k] # Zero
      PROVE  now - Shorts[k].at >= k
  <2>1. 1 \in 1..ShortLen
    OBVIOUS
  <2>2. Shorts[1] # Zero /\ Shorts[1].at - Shorts[k].at >= k - 1
    <3>1. CASE k = 1
      BY <1>2, <1>5, <3>1
    <3>2. CASE k # 1
      BY <1>5, <2>1, <3>2 DEF ShortInv
    <3> QED BY <3>1, <3>2
  <2>3. Shorts[1].at \in added
    BY <2>1, <2>2 DEF ShortInv
  <2>4. Shorts[1].at <= now - 1
    <3>1. Shorts[1].at \in 1..now /\ Shorts[1].at # now
      BY <1>1, <2>3
    <3> QED BY <1>1, <3>1
  <2> QED BY <1>1, <1>2, <2>1, <2>2, <2>4
<1>6. ASSUME NEW k \in 1..ShortLen, Shorts'[k] # Zero
      PROVE  Shorts'[k].at \in added' /\ Shorts'[k].of = {Shorts'[k].at}
  <2>1. CASE k = 1
    BY <1>1, <1>3, <2>1
  <2>2. CASE k # 1
    BY <1>1, <1>4, <1>6, <2>2 DEF ShortInv
  <2> QED BY <2>1, <2>2
<1>7. ASSUME NEW j \in 1..ShortLen, NEW k \in 1..ShortLen, j < k, Shorts'[k] # Zero
      PROVE  Shorts'[j] # Zero /\ Shorts'[j].at - Shorts'[k].at >= k - j
  <2>1. k # 1 /\ k - 1 \in 1..ShortLen /\ Shorts'[k] = Shorts[k - 1] /\ Shorts[k - 1] # Zero
    BY <1>4, <1>7
  <2>2. CASE j = 1
    BY <1>3, <1>5, <2>1, <2>2
  <2>3. CASE j # 1
    <3>1. j - 1 \in 1..ShortLen /\ Shorts'[j] = Shorts[j - 1] /\ j - 1 < k - 1
      BY <1>4, <1>7, <2>3
    <3>2. Shorts[j - 1] # Zero /\ Shorts[j - 1].at - Shorts[k - 1].at >= (k - 1) - (j - 1)
      BY <2>1, <3>1 DEF ShortInv
    <3> QED BY <2>1, <3>1, <3>2
  <2> QED BY <2>2, <2>3
<1>8. ASSUME NEW t \in added' PROVE Remembers(t)'
  <2>0. 1 \in 1..ShortLen
    OBVIOUS
  <2>1. CASE t = now
    BY <1>3, <2>0, <2>1 DEF Remembers
  <2>2. CASE t # now
    <3>1. t \in added /\ t < now
      BY <1>1, <1>8, <2>2
    <3>2. ASSUME NEW k \in 1..ShortLen, Shorts[k].at = t PROVE Remembers(t)'
      <4>1. CASE k # ShortLen
        <5>1. k \in 1..ShortLen - 1 /\ k + 1 \in 1..ShortLen
          BY <4>1
        <5> QED BY <3>2, <5>1, AddShifts DEF Remembers
      <4>2. CASE k = ShortLen
        <5>1. Shorts[k] # Zero
          BY <1>1, <3>1, <3>2, ZeroType
        <5>2. ASSUME NEW j \in 1..ShortLen PROVE Shorts'[j] # Zero /\ Shorts'[j].at > t
          <6>1. CASE j = 1
            BY <1>3, <3>1, <6>1
          <6>2. CASE j # 1
            <7>1. j - 1 \in 1..ShortLen /\ Shorts'[j] = Shorts[j - 1] /\ j - 1 < k
              BY <1>4, <4>2, <6>2
            <7>2. Shorts[j - 1] # Zero /\ Shorts[j - 1].at - Shorts[k].at >= k - (j - 1)
              BY <5>1, <7>1 DEF ShortInv
            <7> QED BY <1>2, <3>2, <7>1, <7>2
          <6> QED BY <6>1, <6>2
        <5> QED BY <5>2 DEF Remembers
      <4> QED BY <4>1, <4>2
    <3>3. ASSUME \A k \in 1..ShortLen : Shorts[k] # Zero /\ Shorts[k].at > t
          PROVE  Remembers(t)'
      <4>1. \A j \in 1..ShortLen : Shorts'[j] # Zero /\ Shorts'[j].at > t
        BY <1>3, <1>4, <3>1, <3>3
      <4> QED BY <4>1 DEF Remembers
    <3> QED BY <3>1, <3>2, <3>3 DEF ShortInv, Remembers
  <2> QED BY <2>1, <2>2
<1> QED BY <1>6, <1>7, <1>8 DEF ShortInv

LEMMA ShortInit == Init => ShortInv
<1> SUFFICES ASSUME Init PROVE ShortInv
  OBVIOUS
<1>1. added = {}
  BY DEF Init
<1> QED BY <1>1, RingsInit DEF ShortInv

LEMMA ShortStep == TypeOK /\ ShortInv /\ [Next]_vars => ShortInv'
<1> SUFFICES ASSUME TypeOK, ShortInv, [Next]_vars PROVE ShortInv'
  OBVIOUS
<1>1. CASE Add
  BY <1>1, ShortAdd
<1>2. CASE Downsample \/ Tick \/ Ended \/ UNCHANGED vars
  <2>1. UNCHANGED <<short, shortHead, added>>
    BY <1>2 DEF Downsample, Tick, Ended, vars, shortRing
  <2> QED BY <2>1, ShortKept
<1> QED BY <1>1, <1>2 DEF Next

\* the points added after t are finitely many
Newer(t) == {s \in added : s > t}

LEMMA NewerFinite ==
  ASSUME TypeOK, NEW t
  PROVE  IsFiniteSet(Newer(t)) /\ IsFiniteSet(added)
<1>1. now \in Nat /\ added \subseteq 1..now
  BY DEF TypeOK
<1>2. IsFiniteSet(1..now)
  BY <1>1, FS_Interval
<1>3. IsFiniteSet(added)
  BY <1>1, <1>2, FS_Subset
<1>4. Newer(t) \subseteq added
  BY DEF Newer
<1> QED BY <1>3, <1>4, FS_Subset

\* an entry is in the k-th place after k - 1 others were added
CountInv ==
  \A k \in 1..ShortLen : Shorts[k] # Zero => Cardinality(Newer(Shorts[k].at)) = k - 1

LEMMA CountAdd ==
  ASSUME TypeOK, ShortInv, CountInv, Add
  PROVE  CountInv'
<1>1. now \in 1..MaxTime /\ added \subseteq 1..now /\ now \notin added
      /\ added' = added \cup {now}
  BY DEF TypeOK, Add
<1> SUFFICES ASSUME NEW k \in 1..ShortLen, Shorts'[k] # Zero
             PROVE  Cardinality({s \in added' : s > Shorts'[k].at}) = k - 1
  BY DEF CountInv, Newer
<1>2. CASE k = 1
  <2>1. Shorts'[1].at = now
    BY <1>1, AddShifts, PointType
  <2>2. \A s \in added' : ~(s > now)
    BY <1>1
  <2>3. {s \in added' : s > Shorts'[k].at} = {}
    <3>1. {s \in added' : s > now} = {}
      BY <2>2
    <3> QED BY <1>2, <2>1, <3>1
  <2> QED BY <1>2, <2>3, FS_EmptySet
<1>3. CASE k # 1
  <2>1. k - 1 \in 1..ShortLen /\ Shorts'[k] = Shorts[k - 1]
    BY <1>3, AddShifts, Moved
  <2> DEFINE t == Shorts[k - 1].at
  <2>2. t \in added /\ Cardinality(Newer(t)) = k - 2
    BY <2>1 DEF ShortInv, CountInv
  <2>3. {s \in added' : s > Shorts'[k].at} = Newer(t) \cup {now} /\ now \notin Newer(t)
    <3>1. {s \in added' : s > Shorts'[k].at} = {s \in added \cup {now} : s > t}
      BY <1>1, <2>1
    <3>2. now > t
      <4>1. t \in 1..now /\ t # now
        BY <1>1, <2>2
      <4> QED BY <1>1, <4>1
    <3> QED BY <1>1, <3>1, <3>2 DEF Newer
  <2>4. Cardinality(Newer(t) \cup {now}) = Cardinality(Newer(t)) + 1
    BY <2>3, NewerFinite, FS_AddElement
  <2>5. Cardinality(Newer(t)) + 1 = k - 1
    BY <2>2
  <2> HIDE DEF t
  <2> QED BY <2>3, <2>4, <2>5
<1> QED BY <1>2, <1>3

LEMMA CountStep == TypeOK /\ ShortInv /\ CountInv /\ [Next]_vars => CountInv'
<1> SUFFICES ASSUME TypeOK, ShortInv, CountInv, [Next]_vars PROVE CountInv'
  OBVIOUS
<1>1. CASE Add
  BY <1>1, CountAdd
<1>2. CASE Downsample \/ Tick \/ Ended \/ UNCHANGED vars
  <2>1. UNCHANGED <<short, shortHead, added>>
    BY <1>2 DEF Downsample, Tick, Ended, vars, shortRing
  <2> QED BY <2>1 DEF CountInv, Newer, Shorts
<1> QED BY <1>1, <1>2 DEF Next

\* a point that fewer than ShortLen others followed is in the short ring
LEMMA StillHeld ==
  ASSUME TypeOK, ShortInv, CountInv, NEW t \in added, Cardinality(Newer(t)) < ShortLen
  PROVE  \E k \in 1..ShortLen : Shorts[k].at = t
<1> SUFFICES ASSUME \A k \in 1..ShortLen : Shorts[k] # Zero /\ Shorts[k].at > t
             PROVE  FALSE
  BY DEF ShortInv, Remembers
<1>1. ShortLen \in 1..ShortLen
  OBVIOUS
<1> DEFINE oldest == Shorts[ShortLen].at
<1>2. oldest \in added /\ oldest > t /\ Cardinality(Newer(oldest)) = ShortLen - 1
  BY <1>1 DEF ShortInv, CountInv
<1>3. oldest \notin Newer(oldest) /\ Newer(oldest) \cup {oldest} \subseteq Newer(t)
  <2>1. added \subseteq Int
    BY DEF TypeOK
  <2> HIDE DEF oldest
  <2> QED BY <1>2, <2>1 DEF Newer
<1>4. Cardinality(Newer(oldest) \cup {oldest}) = ShortLen
  <2> HIDE DEF oldest
  <2>1. Cardinality(Newer(oldest) \cup {oldest}) = Cardinality(Newer(oldest)) + 1
    BY <1>3, NewerFinite, FS_AddElement
  <2> QED BY <1>2, <2>1
<1>5. ShortLen <= Cardinality(Newer(t)) /\ Cardinality(Newer(t)) \in Nat
  <2>1. IsFiniteSet(Newer(t))
    BY NewerFinite
  <2> QED BY <1>3, <1>4, <2>1, FS_Subset, FS_CardinalityType
<1> QED BY <1>5

-----------------------------------------------------------------------------
(* What a query reads.                                                     *)

\* in a ring whose entries get older from place to place, the walk keeps those
\* that are not older than the cutoff
LEMMA WalkKeeps ==
  ASSUME NEW ring, NEW head, NEW cutoff \in Int, NEW n \in Nat,
         NEW points, points = Backward(ring, head), DOMAIN points = 1..n,
         \A k \in 1..n : points[k].at \in Int,
         \A j, k \in 1..n :
           j < k /\ points[j] # Zero /\ points[k] # Zero => points[j].at > points[k].at
  PROVE  LET read == ReadRingBackward(ring, head, cutoff)
         IN  \A k : /\ k \in DOMAIN read <=>
                          k \in 1..n /\ points[k] # Zero /\ points[k].at >= cutoff
                    /\ k \in DOMAIN read => read[k] = points[k]
<1> DEFINE written == {k \in 1..n : points[k] # Zero}
           kept == {k \in written : \A j \in written : j <= k => points[j].at >= cutoff}
<1>1. ReadRingBackward(ring, head, cutoff) = [k \in kept |-> points[k]]
  BY DEF ReadRingBackward, Restrict
<1>2. \A j, k \in written : j <= k => points[j].at >= points[k].at
  <2> SUFFICES ASSUME NEW j \in written, NEW k \in written, j <= k
               PROVE  points[j].at >= points[k].at
    OBVIOUS
  <2>1. CASE j = k
    BY <2>1
  <2>2. CASE j < k
    BY <2>2
  <2> QED BY <2>1, <2>2
<1>3. kept = {k \in 1..n : points[k] # Zero /\ points[k].at >= cutoff}
  <2>1. \A k \in kept : points[k].at >= cutoff
    OBVIOUS
  <2>2. \A k \in written : points[k].at >= cutoff => k \in kept
    <3> SUFFICES ASSUME NEW k \in written, points[k].at >= cutoff,
                        NEW j \in written, j <= k
                 PROVE  points[j].at >= cutoff
      OBVIOUS
    <3>1. points[j].at >= points[k].at /\ points[j].at \in Int /\ points[k].at \in Int
      BY <1>2
    <3> QED BY <3>1
  <2> QED BY <2>1, <2>2
<1> HIDE DEF kept
<1> QED BY <1>1, <1>3

\* a query reads those entries of the short ring that are recent enough
LEMMA ReadsShort ==
  ASSUME TypeOK, ShortInv, NEW cutoff \in Int
  PROVE  LET recent == ReadRingBackward(short, shortHead, cutoff)
         IN  \A k : /\ k \in DOMAIN recent <=>
                          k \in 1..ShortLen /\ Shorts[k] # Zero /\ Shorts[k].at >= cutoff
                    /\ k \in DOMAIN recent => recent[k] = Shorts[k]
<1>1. DOMAIN Shorts = 1..ShortLen /\ \A k \in 1..ShortLen : Shorts[k].at \in Int
  BY EntryType DEF Points
<1>2. \A j, k \in 1..ShortLen : j < k /\ Shorts[j] # Zero /\ Shorts[k] # Zero =>
        Shorts[j].at > Shorts[k].at
  <2> SUFFICES ASSUME NEW j \in 1..ShortLen, NEW k \in 1..ShortLen, j < k, Shorts[k] # Zero
               PROVE  Shorts[j].at > Shorts[k].at
    OBVIOUS
  <2>1. Shorts[j].at - Shorts[k].at >= k - j
    BY DEF ShortInv
  <2> QED BY <1>1, <2>1
<1>3. ShortLen \in Nat
  OBVIOUS
<1>4. Shorts = Backward(short, shortHead)
  BY DEF Shorts
<1> QED BY <1>1, <1>2, <1>3, <1>4, WalkKeeps

\* within the short window that is what was added
LEMMA ShortIsComplete == TypeOK /\ ShortInv => HistoryComplete
<1> SUFFICES ASSUME TypeOK, ShortInv, NEW duration \in 1..ShortWindow, duration < ShortLen
             PROVE  LET history == GetHistory(duration)
                    IN  /\ {history[k].at : k \in DOMAIN history} =
                             {t \in added : t >= now - duration}
                        /\ \A j, k \in DOMAIN history : j < k => history[j].at > history[k].at
  BY DEF HistoryComplete
<1> DEFINE history == ReadRingBackward(short, shortHead, now - duration)
<1>0. GetHistory(duration) = history
  BY DEF GetHistory
<1>1. now \in 1..MaxTime /\ added \subseteq 1..now /\ now - duration \in Int
  BY DEF TypeOK
<1>2. \A k : /\ k \in DOMAIN history <=>
                   k \in 1..ShortLen /\ Shorts[k] # Zero /\ Shorts[k].at >= now - duration
             /\ k \in DOMAIN history => history[k] = Shorts[k]
  BY <1>1, ReadsShort
<1> HIDE DEF history
<1>3. \A k \in 1..ShortLen : Shorts[k].at \in Int
  BY EntryType DEF Points
<1>4. ASSUME NEW k \in DOMAIN history
      PROVE  history[k].at \in added /\ history[k].at >= now - duration
  BY <1>2 DEF ShortInv
<1>5. ASSUME NEW t \in added, t >= now - duration
      PROVE  \E k \in DOMAIN history : history[k].at = t
  <2>1. CASE \E k \in 1..ShortLen : Shorts[k].at = t
    <3>1. PICK k \in 1..ShortLen : Shorts[k].at = t
      BY <2>1
    <3>2. Shorts[k] # Zero
      BY <1>1, <3>1, ZeroType
    <3> QED BY <1>2, <1>5, <3>1, <3>2
  <2>2. CASE \A k \in 1..ShortLen : Shorts[k] # Zero /\ Shorts[k].at > t
    <3>1. 1 \in 1..ShortLen /\ ShortLen \in 1..ShortLen
      OBVIOUS
    <3>2. Shorts[1].at - Shorts[ShortLen].at >= ShortLen - 1
      <4>1. CASE ShortLen = 1
        BY <1>3, <3>1, <4>1
      <4>2. CASE ShortLen # 1
        BY <2>2, <3>1, <4>2 DEF ShortInv
      <4> QED BY <4>1, <4>2
    <3>3. Shorts[1].at \in added
      BY <2>2, <3>1 DEF ShortInv
    <3>4. Shorts[1].at \in 1..now /\ t \in 1..now
      BY <1>1, <3>3
    <3>5. Shorts[ShortLen].at > t
      BY <2>2, <3>1
    <3> QED BY <1>1, <1>3, <1>5, <3>1, <3>2, <3>4, <3>5
  <2> QED BY <2>1, <2>2 DEF ShortInv, Remembers
<1>6. ASSUME NEW j \in DOMAIN history, NEW k \in DOMAIN history, j < k
      PROVE  history[j].at > history[k].at
  <2>1. /\ j \in 1..ShortLen /\ k \in 1..ShortLen /\ Shorts[k] # Zero
        /\ history[j] = Shorts[j] /\ history[k] = Shorts[k]
    BY <1>2
  <2>2. Shorts[j].at - Shorts[k].at >= k - j
    BY <1>6, <2>1 DEF ShortInv
  <2> QED BY <1>3, <1>6, <2>1, <2>2
<1>7. {history[k].at : k \in DOMAIN history} = {t \in added : t >= now - duration}
  BY <1>4, <1>5
<1> QED BY <1>0, <1>6, <1>7

(* A query within the short window returns every point added since then    *)
(* and nothing else, newest first (aggregator.go:59-60, 172-187), whatever *)
(* the length of the ring, however often it has wrapped around and         *)
(* whichever pushes were dropped, as long as the query asks for less than  *)
(* the ring spans.                                                         *)
THEOREM HistoryIsComplete == Spec => []HistoryComplete
  BY TypeInit, TypeStep, ShortInit, ShortStep, ShortIsComplete, PTL DEF Spec

-----------------------------------------------------------------------------
(* The clock and the long ring.                                            *)

\* the downsampler keeps up with the clock
ClockInv ==
  /\ \E c \in Nat : nextTick = c * Minute
  /\ nextTick <= now + Minute /\ now <= nextTick + MaxDelay

LEMMA ClockStep == TypeOK /\ ClockInv /\ [Next]_vars => ClockInv'
<1> SUFFICES ASSUME TypeOK, ClockInv, [Next]_vars PROVE ClockInv'
  OBVIOUS
<1>0. now \in Nat /\ nextTick \in Nat
  BY DEF TypeOK
<1>1. CASE Downsample
  <2>1. now >= nextTick /\ nextTick' = nextTick + Minute /\ now' = now
    BY <1>1 DEF Downsample
  <2>2. PICK c \in Nat : nextTick = c * Minute
    BY DEF ClockInv
  <2>3. nextTick' = (c + 1) * Minute /\ c + 1 \in Nat
    BY <2>1, <2>2
  <2>4. nextTick' <= now' + Minute /\ now' <= nextTick' + MaxDelay
    BY <1>0, <2>1 DEF ClockInv
  <2> QED BY <2>3, <2>4 DEF ClockInv
<1>2. CASE Tick
  <2>1. now < nextTick + MaxDelay /\ now' = now + 1 /\ nextTick' = nextTick
    BY <1>2 DEF Tick, longRing
  <2>2. nextTick' <= now' + Minute /\ now' <= nextTick' + MaxDelay
    BY <1>0, <2>1 DEF ClockInv
  <2> QED BY <2>1, <2>2 DEF ClockInv
<1>3. CASE Add \/ Ended \/ UNCHANGED vars
  <2>1. UNCHANGED <<now, nextTick>>
    BY <1>3 DEF Add, Ended, vars, longRing
  <2> QED BY <2>1 DEF ClockInv
<1> QED BY <1>1, <1>2, <1>3 DEF Next

\* the means are older than the next tick and in order
LongInv ==
  /\ \A k \in 1..LongLen : Longs[k] # Zero => Longs[k].at < nextTick
  /\ \A j, k \in 1..LongLen :
       j < k /\ Longs[k] # Zero => Longs[j] # Zero /\ Longs[j].at > Longs[k].at

\* what a tick of the downsampler leaves in the long ring
LEMMA DownsampleCases ==
  ASSUME TypeOK, ClockInv, Downsample
  PROVE  /\ now >= nextTick /\ now < nextTick' /\ nextTick' = nextTick + Minute
         /\ UNCHANGED <<now, short, shortHead, added>>
         /\ \/ LastMinute = {} /\ \A k \in 1..LongLen : Longs'[k] = Longs[k]
            \/ /\ LastMinute # {} /\ Longs'[1] # Zero /\ Longs'[1].at = now
               /\ Longs'[1].of = UNION {p.of : p \in LastMinute}
               /\ \A k \in 1..LongLen - 1 : Longs'[k + 1] = Longs[k]
<1>1. /\ now >= nextTick /\ nextTick' = nextTick + Minute
      /\ UNCHANGED <<now, short, shortHead, added>>
  BY DEF Downsample, shortRing
<1>2. now \in 1..MaxTime /\ nextTick \in Nat /\ now <= nextTick + MaxDelay
  BY DEF TypeOK, ClockInv
<1>3. now < nextTick'
  BY <1>1, <1>2
<1>4. CASE LastMinute = {}
  BY <1>1, <1>3, <1>4 DEF Downsample, Longs
<1>5. CASE LastMinute # {}
  <2> DEFINE of == UNION {p.of : p \in LastMinute}
  <2>1. of \in SUBSET (1..MaxTime)
    BY LastMinuteType
  <2>2. StoreMean(of)
    BY <1>5 DEF Downsample
  <2> HIDE DEF of
  <2>3. Longs'[1] = Point(now, of) /\ \A k \in 1..LongLen - 1 : Longs'[k + 1] = Longs[k]
    BY <2>1, <2>2, MeanShifts
  <2>4. Longs'[1] # Zero /\ Longs'[1].at = now /\ Longs'[1].of = of
    BY <1>2, <2>1, <2>3, PointType
  <2> QED BY <1>1, <1>3, <1>5, <2>3, <2>4 DEF of
<1> QED BY <1>4, <1>5

LEMMA LongStep == TypeOK /\ ClockInv /\ LongInv /\ [Next]_vars => LongInv'
<1> SUFFICES ASSUME TypeOK, ClockInv, LongInv, [Next]_vars PROVE LongInv'
  OBVIOUS
<1>0. now \in Nat /\ nextTick \in Nat /\ \A k \in 1..LongLen : Longs[k].at \in Int
  BY EntryType DEF TypeOK, Points
<1>1. CASE Downsample /\ LastMinute = {}
  <2>1. nextTick' > nextTick /\ \A k \in 1..LongLen : Longs'[k] = Longs[k]
    <3>1. now >= nextTick /\ now < nextTick'
      BY <1>1, DownsampleCases
    <3> QED BY <1>0, <1>1, <3>1, DownsampleCases DEF Downsample
  <2>2. \A k \in 1..LongLen : Longs'[k] # Zero => Longs'[k].at < nextTick'
    <3> SUFFICES ASSUME NEW k \in 1..LongLen, Longs[k] # Zero PROVE Longs[k].at < nextTick'
      BY <2>1
    <3>1. Longs[k].at < nextTick
      BY DEF LongInv
    <3>2. nextTick' \in Int
      BY <1>0, <1>1 DEF Downsample
    <3> QED BY <1>0, <2>1, <3>1, <3>2
  <2> QED BY <2>1, <2>2 DEF LongInv
<1>2. CASE Downsample /\ LastMinute # {}
  <2>1. /\ now >= nextTick /\ now < nextTick' /\ nextTick' \in Int
        /\ Longs'[1] # Zero /\ Longs'[1].at = now
        /\ \A k \in 1..LongLen - 1 : Longs'[k + 1] = Longs[k]
    BY <1>0, <1>2, DownsampleCases
  <2>2. \A k \in 1..LongLen : k # 1 => k - 1 \in 1..LongLen /\ Longs'[k] = Longs[k - 1]
    BY <2>1, Moved
  <2>3. \A k \in 1..LongLen : Longs[k] # Zero => Longs[k].at < now
    <3> SUFFICES ASSUME NEW k \in 1..LongLen, Longs[k] # Zero PROVE Longs[k].at < now
      OBVIOUS
    <3>1. Longs[k].at < nextTick
      BY DEF LongInv
    <3> QED BY <1>0, <2>1, <3>1
  <2>4. ASSUME NEW k \in 1..LongLen, Longs'[k] # Zero PROVE Longs'[k].at < nextTick'
    <3>1. CASE k = 1
      BY <2>1, <3>1
    <3>2. CASE k # 1
      <4>1. k - 1 \in 1..LongLen /\ Longs'[k] = Longs[k - 1]
        BY <2>2, <3>2
      <4>2. Longs[k - 1].at < now
        BY <2>3, <2>4, <4>1
      <4> QED BY <1>0, <2>1, <4>1, <4>2
    <3> QED BY <3>1, <3>2
  <2>5. ASSUME NEW j \in 1..LongLen, NEW k \in 1..LongLen, j < k, Longs'[k] # Zero
        PROVE  Longs'[j] # Zero /\ Longs'[j].at > Longs'[k].at
    <3>1. k # 1 /\ k - 1 \in 1..LongLen /\ Longs'[k] = Longs[k - 1]
      BY <2>2, <2>5
    <3>2. CASE j = 1
      <4>1. Longs[k - 1].at < now
        BY <2>3, <2>5, <3>1
      <4> QED BY <1>0, <2>1, <3>1, <3>2, <4>1
    <3>3. CASE j # 1
      <4>1. j - 1 \in 1..LongLen /\ Longs'[j] = Longs[j - 1] /\ j - 1 < k - 1
        BY <2>2, <2>5, <3>3
      <4> QED BY <2>5, <3>1, <4>1 DEF LongInv
    <3> QED BY <3>2, <3>3
  <2> QED BY <2>4, <2>5 DEF LongInv
<1>3. CASE Add \/ Tick \/ Ended \/ UNCHANGED vars
  <2>1. UNCHANGED <<long, longHead, nextTick>>
    BY <1>3 DEF Add, Tick, Ended, vars, longRing
  <2> QED BY <2>1 DEF LongInv, Longs
<1> QED BY <1>1, <1>2, <1>3 DEF Next

-----------------------------------------------------------------------------
(* The minute of a point and those that follow it.                         *)

\* the remainder of a number that is r more than a multiple of m
LEMMA RemainderIs ==
  ASSUME NEW m \in Nat \ {0}, NEW c \in Nat, NEW r \in 0..m - 1
  PROVE  (c * m + r) % m = r
  OBVIOUS

\* a tick at most a minute after a point is the next one after it
LEMMA TickIsNext ==
  ASSUME TypeOK, ClockInv, NEW t \in added, t < nextTick, nextTick <= t + Minute
  PROVE  /\ TickAfter(t) = nextTick
         /\ t % Minute > MaxDelay => t > now - Minute
<1>1. t \in Nat /\ now \in Nat /\ nextTick \in Nat /\ now <= nextTick + MaxDelay
  BY DEF TypeOK, ClockInv
<1>2. PICK c \in Nat : nextTick = c * Minute
  BY DEF ClockInv
<1>3. c # 0
  BY <1>1, <1>2
<1> DEFINE r == t - (nextTick - Minute)
<1>4. r \in 0..Minute - 1
  BY <1>1
<1>5. c - 1 \in Nat /\ t = (c - 1) * Minute + r
  BY <1>1, <1>2, <1>3
<1>6. t % Minute = r
  <2> HIDE DEF r
  <2> QED BY <1>4, <1>5, RemainderIs
<1> QED BY <1>1, <1>6 DEF TickAfter

\* a point that the downsampler finds, and that was not added about when it was
\* due, was added before that
LEMMA FoundIsBefore ==
  ASSUME TypeOK, ClockInv, NEW t \in added, t % Minute > MaxDelay, now >= nextTick,
         t > now - Minute
  PROVE  t < nextTick /\ nextTick <= t + Minute
<1>1. t \in Nat /\ now \in Nat /\ nextTick \in Nat /\ t <= now /\ now <= nextTick + MaxDelay
  BY DEF TypeOK, ClockInv
<1>2. PICK c \in Nat : nextTick = c * Minute
  BY DEF ClockInv
<1>3. ~(t >= nextTick)
  <2> SUFFICES ASSUME t >= nextTick PROVE FALSE
    OBVIOUS
  <2> DEFINE r == t - nextTick
  <2>1. r \in 0..Minute - 1 /\ r <= MaxDelay /\ t = c * Minute + r
    BY <1>1, <1>2
  <2>2. t % Minute = r
    <3> HIDE DEF r
    <3> QED BY <1>2, <2>1, RemainderIs
  <2> QED BY <2>1, <2>2
<1> QED BY <1>1, <1>3

\* the followers of a point are newer, and all the newer there are by then
LEMMA FollowersAre ==
  ASSUME TypeOK, NEW t \in added, NEW until \in Int
  PROVE  /\ Followers(t, until) \in Nat /\ Cardinality(Newer(t)) \in Nat
         /\ Followers(t, until) <= Cardinality(Newer(t))
         /\ now < until => Followers(t, until) = Cardinality(Newer(t))
<1> DEFINE between == {s \in added : t < s /\ s < until}
<1>1. added \subseteq 1..now /\ now \in Nat /\ t \in Nat
  BY DEF TypeOK
<1>2. IsFiniteSet(Newer(t)) /\ between \subseteq Newer(t)
  BY <1>1, NewerFinite DEF Newer
<1>3. now < until => between = Newer(t)
  <2>1. \A s \in added : now < until => s < until
    BY <1>1
  <2>2. \A s \in added : s > t <=> t < s
    BY <1>1
  <2> QED BY <2>1, <2>2 DEF Newer
<1>4. Followers(t, until) = Cardinality(between)
  BY DEF Followers
<1> HIDE DEF between
<1> QED BY <1>2, <1>3, <1>4, FS_Subset, FS_CardinalityType

\* an addition adds followers to the points of the present
LEMMA FollowersGrow ==
  ASSUME TypeOK, Add, NEW t \in added, NEW until \in Int
  PROVE  /\ Followers(t, until) \in Nat /\ Followers(t, until)' \in Nat
         /\ Followers(t, until) <= Followers(t, until)'
         /\ now >= until => Followers(t, until)' = Followers(t, until)
<1> DEFINE before == {s \in added : t < s /\ s < until}
           after == {s \in added \cup {now} : t < s /\ s < until}
<1>1. added \subseteq 1..now /\ now \in Nat /\ t \in Nat /\ added' = added \cup {now}
  BY DEF TypeOK, Add
<1>2. IsFiniteSet(after)
  <2>1. IsFiniteSet(added \cup {now})
    BY NewerFinite, FS_AddElement
  <2> QED BY <2>1, FS_Subset
<1>3. before \subseteq after /\ (now >= until => after = before)
  BY <1>1
<1>4. Followers(t, until) = Cardinality(before) /\ Followers(t, until)' = Cardinality(after)
  BY <1>1 DEF Followers
<1> HIDE DEF before, after
<1> QED BY <1>2, <1>3, <1>4, FS_Subset, FS_CardinalityType

-----------------------------------------------------------------------------
(* Which points are in the means.                                          *)

\* a point added between two ticks, and still held at the later one, is in the
\* mean of that one, which stays in the long ring for LongLen minutes
Averaged(t) ==
  \E k \in 1..LongLen : /\ t \in Longs[k].of
                        /\ t <= Longs[k].at /\ Longs[k].at < t + Minute
                        /\ nextTick > t + k * Minute
Due(t) == t % Minute > MaxDelay /\ nextTick > t + Minute
HeldAtTick(t) == Followers(t, TickAfter(t) + MaxDelay + 1) < ShortLen
CoverageInv ==
  \A t \in added :
    Due(t) /\ HeldAtTick(t) => Averaged(t) \/ nextTick > t + (LongLen + 1) * Minute

\* the points of the last minute that the short ring still holds
LEMMA LastMinuteHas ==
  ASSUME TypeOK, ShortInv, CountInv, NEW t \in added, t > now - Minute,
         Cardinality(Newer(t)) < ShortLen
  PROVE  \E p \in LastMinute : t \in p.of
<1>1. added \subseteq 1..now /\ now \in 1..MaxTime
  BY DEF TypeOK
<1>2. PICK k \in 1..ShortLen : Shorts[k].at = t
  BY StillHeld
<1>3. Shorts[k] # Zero /\ Shorts[k].of = {t}
  <2>1. Shorts[k] # Zero
    BY <1>1, <1>2, ZeroType
  <2> QED BY <1>2, <2>1 DEF ShortInv
<1>4. \E i \in DOMAIN short : Shorts[k] = short[i]
  <2>1. DOMAIN short = 0..ShortLen - 1 /\ shortHead \in 0..ShortLen - 1
    BY DEF TypeOK
  <2>2. Shorts[k] = short[Index(ShortLen, shortHead, k)]
    BY <2>1, BackwardIs DEF Shorts
  <2> QED BY <2>1, <2>2, IndexIs
<1>5. Shorts[k] \in LastMinute
  BY <1>2, <1>3, <1>4 DEF LastMinute
<1> QED BY <1>3, <1>5

\* and nothing else is taken into the mean
LEMMA LastMinuteOnly ==
  ASSUME TypeOK, ShortInv, NEW p \in LastMinute, NEW t \in p.of
  PROVE  /\ t \in added /\ t > now - Minute
         /\ \E k \in 1..ShortLen : Shorts[k] # Zero /\ Shorts[k].at = t
<1>1. DOMAIN short = 0..ShortLen - 1 /\ shortHead \in 0..ShortLen - 1
  BY DEF TypeOK
<1>2. PICK i \in 0..ShortLen - 1 : p = short[i] /\ p # Zero /\ p.at > now - Minute
  BY <1>1 DEF LastMinute
<1>3. PICK k \in 1..ShortLen : Index(ShortLen, shortHead, k) = i
  BY <1>1, IndexOnto
<1>4. Shorts[k] = p
  <2>1. Shorts[k] = short[Index(ShortLen, shortHead, k)]
    BY <1>1, BackwardIs DEF Shorts
  <2> QED BY <1>2, <1>3, <2>1
<1>5. p.at \in added /\ p.of = {p.at}
  BY <1>2, <1>4 DEF ShortInv
<1> QED BY <1>2, <1>4, <1>5

LEMMA CoverageStep ==
  TypeOK /\ ShortInv /\ CountInv /\ ClockInv /\ LongInv /\ CoverageInv /\ [Next]_vars =>
    CoverageInv'
<1> SUFFICES ASSUME TypeOK, ShortInv, CountInv, ClockInv, LongInv, CoverageInv, [Next]_vars,
                    NEW t \in added', Due(t)', HeldAtTick(t)'
             PROVE  Averaged(t)' \/ nextTick' > t + (LongLen + 1) * Minute
  BY DEF CoverageInv
<1>0. /\ now \in Nat /\ nextTick \in Nat /\ added \subseteq Nat
      /\ now <= nextTick + MaxDelay /\ nextTick <= now + Minute
      /\ t % Minute > MaxDelay /\ nextTick' > t + Minute
  BY DEF TypeOK, ClockInv, Due
<1>1. CASE Downsample /\ nextTick > t + Minute
  <2>1. /\ t \in added /\ Due(t) /\ HeldAtTick(t) /\ nextTick' = nextTick + Minute
        /\ now >= nextTick /\ t \in Nat
    <3>1. added' = added /\ nextTick' = nextTick + Minute /\ now >= nextTick
      BY <1>1, DownsampleCases
    <3> QED BY <1>0, <1>1, <3>1 DEF Due, HeldAtTick, Followers
  <2>2. CASE nextTick > t + (LongLen + 1) * Minute
    <3>1. (LongLen + 1) * Minute \in Nat
      OBVIOUS
    <3> QED BY <1>0, <2>1, <2>2, <3>1
  <2>3. CASE Averaged(t)
    <3>1. PICK k \in 1..LongLen : /\ t \in Longs[k].of
                                  /\ t <= Longs[k].at /\ Longs[k].at < t + Minute
                                  /\ nextTick > t + k * Minute
      BY <2>3 DEF Averaged
    <3>2. nextTick' > t + (k + 1) * Minute
      <4>1. k * Minute \in Nat /\ (k + 1) * Minute = k * Minute + Minute
        OBVIOUS
      <4> QED BY <1>0, <2>1, <3>1, <4>1
    <3>3. CASE LastMinute = {}
      <4>1. Longs'[k] = Longs[k] /\ nextTick' > t + k * Minute
        <5>1. Longs'[k] = Longs[k]
          BY <1>1, <3>3, DownsampleCases
        <5>2. k * Minute \in Nat
          OBVIOUS
        <5> QED BY <1>0, <2>1, <3>1, <5>1, <5>2
      <4> QED BY <3>1, <4>1 DEF Averaged
    <3>4. CASE LastMinute # {} /\ k # LongLen
      <4>1. k + 1 \in 1..LongLen /\ k \in 1..LongLen - 1
        BY <3>4
      <4>2. Longs'[k + 1] = Longs[k]
        BY <1>1, <3>4, <4>1, DownsampleCases
      <4> QED BY <3>1, <3>2, <4>1, <4>2 DEF Averaged
    <3>5. CASE k = LongLen
      BY <3>2, <3>5
    <3> QED BY <3>3, <3>4, <3>5
  <2> QED BY <2>1, <2>2, <2>3 DEF CoverageInv
<1>2. CASE Downsample /\ ~(nextTick > t + Minute)
  <2>1. /\ t \in added /\ t \in Nat /\ nextTick' = nextTick + Minute
        /\ now' = now /\ now >= nextTick /\ HeldAtTick(t)
    <3>1. added' = added /\ nextTick' = nextTick + Minute /\ now' = now /\ now >= nextTick
      BY <1>2, DownsampleCases
    <3> QED BY <1>0, <3>1 DEF HeldAtTick, Followers
  <2>2. t < nextTick /\ nextTick <= t + Minute
    BY <1>0, <1>2, <2>1
  <2>3. t > now - Minute /\ TickAfter(t) = nextTick
    BY <1>0, <2>1, <2>2, TickIsNext
  <2>4. PICK p \in LastMinute : t \in p.of
    <3>1. TickAfter(t) + MaxDelay + 1 \in Int /\ now < TickAfter(t) + MaxDelay + 1
      BY <1>0, <2>3
    <3>2. Cardinality(Newer(t)) < ShortLen
      BY <2>1, <3>1, FollowersAre DEF HeldAtTick
    <3> QED BY <2>1, <2>3, <3>2, LastMinuteHas
  <2>5. Longs'[1].at = now /\ t \in Longs'[1].of
    BY <1>2, <2>4, DownsampleCases
  <2>6. 1 \in 1..LongLen /\ nextTick' > t + 1 * Minute
    BY <1>0, <2>1
  <2>7. t <= now /\ now < t + Minute
    BY <1>0, <2>1, <2>2, <2>3
  <2> QED BY <2>5, <2>6, <2>7 DEF Averaged
<1>3. CASE Add
  <2>1. UNCHANGED <<long, longHead, nextTick>> /\ added' = added \cup {now}
    BY <1>3 DEF Add, longRing
  <2>2. t \in added
    BY <1>0, <2>1
  <2>3. Due(t)
    BY <1>0, <2>1 DEF Due
  <2>4. HeldAtTick(t)
    <3> DEFINE until == TickAfter(t) + MaxDelay + 1
    <3>1. until \in Int
      BY <1>0, <2>2 DEF TickAfter
    <3>2. Followers(t, until)' < ShortLen
      BY DEF HeldAtTick, TickAfter
    <3> HIDE DEF until
    <3>3. Followers(t, until) < ShortLen
      BY <1>3, <2>2, <3>1, <3>2, FollowersGrow
    <3> QED BY <3>3 DEF HeldAtTick, until
  <2> QED BY <2>1, <2>2, <2>3, <2>4 DEF CoverageInv, Averaged, Longs
<1>4. CASE Tick \/ Ended \/ UNCHANGED vars
  <2>1. UNCHANGED <<long, longHead, nextTick, added>>
    BY <1>4 DEF Tick, Ended, vars, longRing, shortRing
  <2> QED BY <2>1 DEF CoverageInv, Averaged, Longs, Due, HeldAtTick, Followers, TickAfter
<1> QED BY <1>1, <1>2, <1>3, <1>4 DEF Next

\* what is in a mean was added, and still held when the downsampler was due
LostInv ==
  \A k \in 1..LongLen : \A t \in Longs[k].of :
    /\ t \in added
    /\ t % Minute > MaxDelay => now >= TickAfter(t) /\ Followers(t, TickAfter(t)) < ShortLen

LEMMA LostStep ==
  TypeOK /\ ShortInv /\ CountInv /\ ClockInv /\ LongInv /\ LostInv /\ [Next]_vars => LostInv'
<1> SUFFICES ASSUME TypeOK, ShortInv, CountInv, ClockInv, LongInv, LostInv, [Next]_vars,
                    NEW k \in 1..LongLen, NEW t \in Longs'[k].of
             PROVE  /\ t \in added'
                    /\ t % Minute > MaxDelay =>
                         now' >= TickAfter(t) /\ Followers(t, TickAfter(t))' < ShortLen
  BY DEF LostInv, TickAfter
<1>0. now \in Nat /\ nextTick \in Nat /\ added \subseteq Nat
  BY DEF TypeOK
<1>1. CASE Downsample
  <2>1. added' = added /\ now' = now /\ now >= nextTick
    BY <1>1, DownsampleCases
  <2>2. CASE \E j \in 1..LongLen : t \in Longs[j].of
    BY <2>1, <2>2 DEF LostInv, Followers
  <2>3. CASE \E p \in LastMinute : t \in p.of
    <3>1. t \in added /\ t > now - Minute
      BY <2>3, LastMinuteOnly
    <3>2. PICK j \in 1..ShortLen : Shorts[j] # Zero /\ Shorts[j].at = t
      BY <2>3, LastMinuteOnly
    <3>3. ASSUME t % Minute > MaxDelay
          PROVE  now >= TickAfter(t) /\ Followers(t, TickAfter(t)) < ShortLen
      <4>1. TickAfter(t) = nextTick
        BY <2>1, <3>1, <3>3, FoundIsBefore, TickIsNext
      <4>2. Cardinality(Newer(t)) = j - 1
        BY <3>2 DEF CountInv
      <4>3. Followers(t, nextTick) \in Nat /\ Followers(t, nextTick) <= Cardinality(Newer(t))
        BY <1>0, <3>1, FollowersAre
      <4> QED BY <2>1, <4>1, <4>2, <4>3
    <3> QED BY <2>1, <3>1, <3>3 DEF Followers
  <2>4. (\E j \in 1..LongLen : t \in Longs[j].of) \/ (\E p \in LastMinute : t \in p.of)
    <3>1. CASE LastMinute = {}
      BY <1>1, <3>1, DownsampleCases
    <3>2. CASE LastMinute # {} /\ k = 1
      BY <1>1, <3>2, DownsampleCases
    <3>3. CASE LastMinute # {} /\ k # 1
      <4>1. k - 1 \in 1..LongLen /\ Longs'[k] = Longs[k - 1]
        BY <1>1, <3>3, DownsampleCases, Moved
      <4> QED BY <4>1
    <3> QED BY <3>1, <3>2, <3>3
  <2> QED BY <2>2, <2>3, <2>4
<1>2. CASE Add
  <2>1. UNCHANGED <<long, longHead, now>> /\ added' = added \cup {now}
    BY <1>2 DEF Add, longRing
  <2>2. t \in Longs[k].of
    BY <2>1 DEF Longs
  <2>3. t \in added
    BY <2>2 DEF LostInv
  <2>4. ASSUME t % Minute > MaxDelay
        PROVE  now >= TickAfter(t) /\ Followers(t, TickAfter(t))' < ShortLen
    <3> DEFINE until == TickAfter(t)
    <3>1. now >= until /\ Followers(t, until) < ShortLen
      BY <2>2, <2>4 DEF LostInv
    <3>2. until \in Int
      BY <1>0, <2>3 DEF TickAfter
    <3> HIDE DEF until
    <3>3. Followers(t, until)' < ShortLen
      BY <1>2, <2>3, <3>1, <3>2, FollowersGrow
    <3> QED BY <3>1, <3>3 DEF until, Followers, TickAfter
  <2> QED BY <2>1, <2>3, <2>4
<1>3. CASE Tick \/ Ended \/ UNCHANGED vars
  <2>1. UNCHANGED <<long, longHead, added>> /\ now' >= now /\ now' \in Int
    BY <1>0, <1>3 DEF Tick, Ended, vars, longRing, shortRing
  <2>2. t \in Longs[k].of
    BY <2>1 DEF Longs
  <2>3. t \in added /\ (t % Minute > MaxDelay =>
          now >= TickAfter(t) /\ Followers(t, TickAfter(t)) < ShortLen)
    BY <2>2 DEF LostInv
  <2>4. TickAfter(t) \in Int
    BY <1>0, <2>3 DEF TickAfter
  <2>5. t % Minute > MaxDelay => now' >= TickAfter(t)
    BY <1>0, <2>1, <2>3, <2>4
  <2> QED BY <2>1, <2>3, <2>5 DEF Followers, TickAfter
<1> QED BY <1>1, <1>2, <1>3 DEF Next

HistoryInv ==
  TypeOK /\ ShortInv /\ CountInv /\ ClockInv /\ LongInv /\ CoverageInv /\ LostInv

LEMMA HistoryInit == Init => HistoryInv
<1> SUFFICES ASSUME Init PROVE HistoryInv
  OBVIOUS
<1>1. now = 1 /\ nextTick = Minute /\ added = {}
  BY DEF Init
<1>2. ClockInv
  <2>1. nextTick = 1 * Minute
    BY <1>1
  <2>2. nextTick <= now + Minute /\ now <= nextTick + MaxDelay
    BY <1>1
  <2> QED BY <2>1, <2>2 DEF ClockInv
<1>3. LongInv /\ CoverageInv /\ CountInv /\ LostInv
  BY <1>1, RingsInit, ZeroType DEF LongInv, CoverageInv, CountInv, LostInv
<1> QED BY <1>2, <1>3, TypeInit, ShortInit DEF HistoryInv

-----------------------------------------------------------------------------
(* What a query across the seam reads.                                     *)

\* a query reads those means that are recent enough
LEMMA ReadsLong ==
  ASSUME TypeOK, LongInv, NEW cutoff \in Int
  PROVE  LET older == ReadRingBackward(long, longHead, cutoff)
         IN  \A k : /\ k \in DOMAIN older <=>
                         k \in 1..LongLen /\ Longs[k] # Zero /\ Longs[k].at >= cutoff
                    /\ k \in DOMAIN older => older[k] = Longs[k]
<1>1. DOMAIN Longs = 1..LongLen /\ \A k \in 1..LongLen : Longs[k].at \in Int
  BY EntryType DEF Points
<1>2. \A j, k \in 1..LongLen : j < k /\ Longs[j] # Zero /\ Longs[k] # Zero =>
        Longs[j].at > Longs[k].at
  BY DEF LongInv
<1>3. LongLen \in Nat
  OBVIOUS
<1>4. Longs = Backward(long, longHead)
  BY DEF Longs
<1> QED BY <1>1, <1>2, <1>3, <1>4, WalkKeeps

\* a mean that the query and the filter keep is in the answer, in the place
\* behind the short ring's
LEMMA MeanIsReturned ==
  ASSUME TypeOK, ShortInv, LongInv, NEW duration \in Int, duration > ShortWindow,
         NEW k \in 1..LongLen, Longs[k] # Zero,
         Longs[k].at >= now - duration, Longs[k].at < now - ShortWindow
  PROVE  LET history == GetHistory(duration)
         IN  ShortLen + k \in DOMAIN history /\ history[ShortLen + k] = Longs[k]
<1> DEFINE read == ReadRingBackward(long, longHead, now - duration)
           recent == ReadRingBackward(short, shortHead, now - duration)
           older == BeforeShortWindow(read)
           places == DOMAIN recent \cup {ShortLen + j : j \in DOMAIN older}
<1>1. now - duration \in Int
  BY DEF TypeOK
<1>2. k \in DOMAIN read /\ read[k] = Longs[k]
  BY <1>1, ReadsLong
<1>3. k \in DOMAIN older /\ older[k] = Longs[k]
  <2> HIDE DEF read
  <2> QED BY <1>2 DEF BeforeShortWindow, Restrict
<1>4. GetHistory(duration) =
        [i \in places |-> IF i <= ShortLen THEN recent[i] ELSE older[i - ShortLen]]
  BY DEF GetHistory
<1> HIDE DEF recent, older
<1>5. /\ ShortLen + k \in places
      /\ ~(ShortLen + k <= ShortLen) /\ (ShortLen + k) - ShortLen = k
  BY <1>3
<1> HIDE DEF places
<1> QED BY <1>3, <1>4, <1>5

\* and whatever is in the answer is an entry of one of the rings
LEMMA ReturnedIsEntry ==
  ASSUME TypeOK, ShortInv, LongInv, NEW duration \in Int,
         NEW place \in DOMAIN GetHistory(duration)
  PROVE  \/ \E k \in 1..ShortLen : Shorts[k] # Zero /\ GetHistory(duration)[place] = Shorts[k]
         \/ \E k \in 1..LongLen : GetHistory(duration)[place] = Longs[k]
<1> DEFINE read == ReadRingBackward(long, longHead, now - duration)
           recent == ReadRingBackward(short, shortHead, now - duration)
           older == BeforeShortWindow(read)
           places == DOMAIN recent \cup {ShortLen + j : j \in DOMAIN older}
<1>1. now - duration \in Int
  BY DEF TypeOK
<1>2. \A k \in DOMAIN recent : k \in 1..ShortLen /\ Shorts[k] # Zero /\ recent[k] = Shorts[k]
  BY <1>1, ReadsShort
<1>3. \A k \in DOMAIN older : k \in 1..LongLen /\ older[k] = Longs[k]
  <2>1. \A k \in DOMAIN read : k \in 1..LongLen /\ read[k] = Longs[k]
    BY <1>1, ReadsLong
  <2> HIDE DEF read
  <2> QED BY <2>1 DEF BeforeShortWindow, Restrict
<1>4. GetHistory(duration) =
        IF duration <= ShortWindow THEN recent
        ELSE [i \in places |-> IF i <= ShortLen THEN recent[i] ELSE older[i - ShortLen]]
  BY DEF GetHistory
<1> HIDE DEF recent, older
<1>5. CASE duration <= ShortWindow
  BY <1>2, <1>4, <1>5
<1>6. CASE ~(duration <= ShortWindow)
  <2>1. place \in places
    BY <1>4, <1>6
  <2>2. CASE place \in DOMAIN recent
    <3>1. place <= ShortLen
      BY <1>2, <2>2
    <3> QED BY <1>2, <1>4, <1>6, <2>1, <2>2, <3>1
  <2>3. CASE \E j \in DOMAIN older : place = ShortLen + j
    <3>1. PICK j \in DOMAIN older : place = ShortLen + j
      BY <2>3
    <3>2. ~(place <= ShortLen) /\ place - ShortLen = j
      BY <1>3, <3>1
    <3> HIDE DEF places
    <3> QED BY <1>3, <1>4, <1>6, <2>1, <3>2
  <2> QED BY <2>1, <2>2, <2>3
<1> QED BY <1>5, <1>6

\* what is in a mean is in the answer of every long enough query
LEMMA CoverageReaches ==
  ASSUME HistoryInv
  PROVE  HourCovered
<1> USE DEF HistoryInv
<1> SUFFICES ASSUME NEW t \in added, t < now - ShortWindow - Minute - MaxDelay,
                    t >= now - LongLen * Minute, t % Minute > MaxDelay,
                    NEW duration \in now - t .. MaxTime
             PROVE  LET history == GetHistory(duration)
                        returned == \E k \in DOMAIN history : t \in history[k].of
                    IN  /\ Followers(t, TickAfter(t) + MaxDelay + 1) < ShortLen => returned
                        /\ Followers(t, TickAfter(t)) >= ShortLen => ~returned
  BY DEF HourCovered
<1>1. /\ t \in Nat /\ now \in Nat /\ nextTick \in Nat /\ duration \in Int
      /\ now <= nextTick + MaxDelay /\ nextTick <= now + Minute
  BY DEF TypeOK, ClockInv
<1>2. LongLen * Minute \in Nat /\ (LongLen + 1) * Minute = LongLen * Minute + Minute
  OBVIOUS
<1>3. ASSUME Followers(t, TickAfter(t) + MaxDelay + 1) < ShortLen
      PROVE  \E k \in DOMAIN GetHistory(duration) : t \in GetHistory(duration)[k].of
  <2>1. Due(t) /\ HeldAtTick(t)
    BY <1>1, <1>3 DEF Due, HeldAtTick
  <2>2. ~(nextTick > t + (LongLen + 1) * Minute)
    BY <1>1, <1>2
  <2>3. PICK k \in 1..LongLen : t \in Longs[k].of /\ t <= Longs[k].at /\ Longs[k].at < t + Minute
    BY <2>1, <2>2 DEF CoverageInv, Averaged
  <2>4. Longs[k].at \in Int
    BY EntryType DEF Points
  <2>5. Longs[k] # Zero
    BY <2>3, ZeroType
  <2>6. Longs[k].at >= now - duration /\ Longs[k].at < now - ShortWindow
    BY <1>1, <2>3, <2>4
  <2>7. duration > ShortWindow
    BY <1>1
  <2>8. LET history == GetHistory(duration)
        IN  ShortLen + k \in DOMAIN history /\ history[ShortLen + k] = Longs[k]
    BY <1>1, <2>5, <2>6, <2>7, MeanIsReturned
  <2> QED BY <2>3, <2>8
<1>4. ASSUME Followers(t, TickAfter(t)) >= ShortLen,
             NEW place \in DOMAIN GetHistory(duration), t \in GetHistory(duration)[place].of
      PROVE  FALSE
  <2>1. CASE \E k \in 1..ShortLen : Shorts[k] # Zero /\ GetHistory(duration)[place] = Shorts[k]
    <3>1. PICK k \in 1..ShortLen : Shorts[k] # Zero /\ GetHistory(duration)[place] = Shorts[k]
      BY <2>1
    <3>2. Shorts[k].at = t
      BY <1>4, <3>1 DEF ShortInv
    <3>3. Cardinality(Newer(t)) = k - 1
      BY <3>1, <3>2 DEF CountInv
    <3>4. TickAfter(t) \in Int
      BY <1>1 DEF TickAfter
    <3>5. /\ Followers(t, TickAfter(t)) \in Nat
          /\ Followers(t, TickAfter(t)) <= Cardinality(Newer(t))
      BY <3>4, FollowersAre
    <3> QED BY <1>4, <3>3, <3>5
  <2>2. CASE \E k \in 1..LongLen : GetHistory(duration)[place] = Longs[k]
    <3>1. Followers(t, TickAfter(t)) < ShortLen
      BY <1>4, <2>2 DEF LostInv
    <3>2. TickAfter(t) \in Int
      BY <1>1 DEF TickAfter
    <3>3. Followers(t, TickAfter(t)) \in Nat
      BY <3>2, FollowersAre
    <3> QED BY <1>4, <3>1, <3>3
  <2> QED BY <1>1, <2>1, <2>2, ReturnedIsEntry
<1> QED BY <1>3, <1>4

(* Across the seam of the two rings, a point that has left the short       *)
(* window is in one of the means returned if fewer than ShortLen others    *)
(* followed it until the downsampler's tick, and in none if so many did    *)
(* before the tick was due (aggregator.go:79-93, 117-149), as long as the  *)
(* long ring reaches back to it and it was not added about when the        *)
(* downsampler was due: for any lengths of the rings, of the window and of *)
(* the minute, so for 1 point a second as for the 600 points of a minute   *)
(* at the shipped 100 ms.  The invariant counts the points that push a     *)
(* point out of the short ring, and follows it from there into the mean of *)
(* the next tick and from place to place of the long ring.                 *)
THEOREM HourIsCovered == Spec => []HourCovered
<1>1. HistoryInv /\ [Next]_vars => HistoryInv'
  BY TypeStep, ShortStep, CountStep, ClockStep, LongStep, CoverageStep, LostStep
  DEF HistoryInv
<1> QED BY <1>1, HistoryInit, CoverageReaches, PTL DEF Spec
=============================================================================
