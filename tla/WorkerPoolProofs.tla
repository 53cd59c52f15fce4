-------------------------- MODULE WorkerPoolProofs --------------------------
(***************************************************************************)
(* Machine-checked theorems about WorkerPool, for any finite sets of       *)
(* requests and workers, any priorities, any batch size and any failure    *)
(* threshold.                                                              *)
(***************************************************************************)
EXTENDS WorkerPool, FiniteSetTheorems, FunctionTheorems, TLAPS

-----------------------------------------------------------------------------
(* Batches as sets of requests.                                            *)

LEMMA ChanCapacityType == ChanCapacity \in Nat
  BY FS_CardinalityType, WorkerPoolAssumption DEF ChanCapacity

\* a batch formed of a set of requests has exactly these, once each
LEMMA SetToSeqsType ==
  ASSUME NEW S \in SUBSET Requests, S # {}, NEW batch \in SetToSeqs(S)
  PROVE  /\ batch \in Seq(Requests) /\ batch # <<>>
         /\ ToSet(batch) \subseteq S /\ IsInjective(batch)
<1>1. IsFiniteSet(S)
  BY FS_Subset, WorkerPoolAssumption
<1>2. Cardinality(S) \in Nat /\ Cardinality(S) # 0
  BY <1>1, FS_CardinalityType, FS_EmptySet
<1>3. /\ batch \in [1..Cardinality(S) -> S]
      /\ \A i, j \in 1..Cardinality(S) : i # j => batch[i] # batch[j]
  BY DEF SetToSeqs
<1>4. batch \in Seq(S) /\ Len(batch) = Cardinality(S)
  BY <1>2, <1>3
<1>5. batch \in Seq(Requests) /\ batch # <<>>
  BY <1>2, <1>4
<1>6. ToSet(batch) \subseteq S
  BY <1>3 DEF ToSet
<1>7. IsInjective(batch)
  BY <1>3 DEF IsInjective
<1> QED BY <1>5, <1>6, <1>7

\* an increasing function of natural numbers repeats nothing
LEMMA IncreasingIsInjective ==
  ASSUME NEW n \in Nat, NEW K \in SUBSET Nat, NEW g \in [1..n -> K],
         \A i, j \in 1..n : i < j => g[i] < g[j]
  PROVE  g \in Injection(1..n, K)
<1>1. ASSUME NEW i \in 1..n, NEW j \in 1..n, g[i] = g[j] PROVE i = j
  <2>1. g[i] \in Nat /\ g[j] \in Nat
    OBVIOUS
  <2>2. ~(i < j) /\ ~(j < i)
    BY <1>1, <2>1
  <2> QED BY <2>2
<1> QED BY <1>1 DEF Injection, IsInjective

\* what filterCancelled keeps: every request that is not gone, and no other
LEMMA ScrubbedType ==
  ASSUME NEW w \in Workers, work[w] \in Seq(Requests), NEW live \in Scrubbed(w)
  PROVE  /\ live \in Seq(Requests)
         /\ ToSet(live) = ToSet(work[w]) \ Gone(w)
         /\ IsInjective(work[w]) => IsInjective(live)
         /\ Kept(w) # {} => live # <<>>
<1> DEFINE K == Kept(w)
           n == Cardinality(K)
<1>1. Len(work[w]) \in Nat /\ DOMAIN work[w] = 1..Len(work[w])
  OBVIOUS
<1>2. K \in SUBSET (1..Len(work[w])) /\ IsFiniteSet(K)
  <2>1. K \in SUBSET (1..Len(work[w]))
    BY <1>1 DEF Kept
  <2>2. IsFiniteSet(1..Len(work[w]))
    BY <1>1, FS_Interval
  <2> QED BY <2>1, <2>2, FS_Subset
<1>3. n \in Nat /\ (K # {} => n # 0)
  BY <1>2, FS_CardinalityType, FS_EmptySet
<1>4. PICK f \in [1..n -> K] :
        /\ \A i, j \in 1..n : i < j => f[i] < f[j]
        /\ live = [i \in 1..n |-> work[w][f[i]]]
  <2>1. PICK f \in {g \in [1..n -> K] : \A i, j \in DOMAIN g : i < j => g[i] < g[j]} :
          live = [i \in DOMAIN f |-> work[w][f[i]]]
    BY DEF Scrubbed
  <2>2. f \in [1..n -> K] /\ DOMAIN f = 1..n
    BY <2>1
  <2> QED BY <2>1, <2>2
<1>5. f \in Injection(1..n, K)
  <2>1. K \in SUBSET Nat
    BY <1>2
  <2> HIDE DEF K, n
  <2> QED BY <1>3, <1>4, <2>1, IncreasingIsInjective
<1>6. f \in Surjection(1..n, K)
  <2>1. Cardinality(1..n) = n
    BY <1>3, FS_Interval
  <2> QED BY <1>2, <1>5, <2>1, FS_Injection
<1>7. \A k \in K : \E i \in 1..n : f[i] = k
  BY <1>6 DEF Surjection
<1>8. \A i \in 1..n : work[w][f[i]] \in Requests /\ ~ctxDone[work[w][f[i]]]
  <2> SUFFICES ASSUME NEW i \in 1..n
               PROVE  work[w][f[i]] \in Requests /\ ~ctxDone[work[w][f[i]]]
    OBVIOUS
  <2>1. f[i] \in K
    BY <1>4
  <2>2. f[i] \in 1..Len(work[w]) /\ ~ctxDone[work[w][f[i]]]
    BY <1>1, <2>1 DEF Kept
  <2> QED BY <1>1, <2>2
<1>9. live \in Seq(Requests) /\ (K # {} => live # <<>>)
  BY <1>3, <1>4, <1>8
<1>10. ToSet(live) = {work[w][k] : k \in K}
  BY <1>4, <1>7 DEF ToSet
<1>11. {work[w][k] : k \in K} = ToSet(work[w]) \ Gone(w)
  BY <1>1 DEF ToSet, Gone, Kept
<1>12. ASSUME IsInjective(work[w]) PROVE IsInjective(live)
  <2> SUFFICES ASSUME NEW i \in 1..n, NEW j \in 1..n, live[i] = live[j] PROVE i = j
    BY <1>4 DEF IsInjective
  <2>1. work[w][f[i]] = work[w][f[j]] /\ f[i] \in DOMAIN work[w] /\ f[j] \in DOMAIN work[w]
    BY <1>1, <1>2, <1>4
  <2>2. f[i] = f[j]
    BY <1>12, <2>1 DEF IsInjective
  <2> QED BY <1>5, <2>2 DEF Injection, IsInjective
<1> QED BY <1>9, <1>10, <1>11, <1>12

\* the members of a sequence, and of what Append and Tail make of it
LEMMA AppendMembers ==
  ASSUME NEW S, NEW s \in Seq(S), NEW e \in S
  PROVE  ToSet(Append(s, e)) = ToSet(s) \cup {e}
<1> DEFINE n == Len(s)
<1>1. /\ n \in Nat /\ DOMAIN s = 1..n /\ DOMAIN Append(s, e) = 1..n + 1
      /\ \A i \in 1..n : Append(s, e)[i] = s[i]
      /\ Append(s, e)[n + 1] = e
  OBVIOUS
<1>2. 1..n + 1 = (1..n) \cup {n + 1}
  BY <1>1
<1> HIDE DEF n
<1> QED BY <1>1, <1>2 DEF ToSet

LEMMA HeadAndTailMembers ==
  ASSUME NEW S, NEW s \in Seq(S), s # <<>>
  PROVE  /\ Head(s) \in ToSet(s)
         /\ ToSet(s) = {Head(s)} \cup ToSet(Tail(s))
<1> DEFINE n == Len(s)
<1>1. /\ n \in Nat \ {0} /\ DOMAIN s = 1..n /\ Head(s) = s[1] /\ DOMAIN Tail(s) = 1..n - 1
      /\ \A i \in 1..n - 1 : Tail(s)[i] = s[i + 1]
  OBVIOUS
<1> HIDE DEF n
<1>2. \A i \in 1..n : i = 1 \/ (i - 1 \in 1..n - 1 /\ (i - 1) + 1 = i)
  BY <1>1
<1>3. 1 \in 1..n /\ \A i \in 1..n - 1 : i + 1 \in 1..n
  BY <1>1
<1>4. ToSet(s) \subseteq {Head(s)} \cup ToSet(Tail(s))
  <2> SUFFICES ASSUME NEW i \in 1..n, i # 1 PROVE s[i] \in ToSet(Tail(s))
    BY <1>1 DEF ToSet
  <2>1. i - 1 \in 1..n - 1 /\ Tail(s)[i - 1] = s[i]
    BY <1>1, <1>2
  <2> QED BY <1>1, <2>1 DEF ToSet
<1>5. ToSet(Tail(s)) \subseteq ToSet(s) /\ Head(s) \in ToSet(s)
  BY <1>1, <1>3 DEF ToSet
<1> QED BY <1>4, <1>5

-----------------------------------------------------------------------------
(* Type correctness.                                                       *)

\* every formed batch has a request in it
BatchesNonempty == \A p \in Priorities : \A b \in ToSet(batchChans[p]) : b # <<>>

TypeInv == TypeOK /\ BatchesNonempty

LEMMA TypeInit == Init => TypeInv
<1> SUFFICES ASSUME Init PROVE TypeInv
  OBVIOUS
<1> USE FailureThresholdAssumption DEF Init
<1>1. /\ handler \in [Requests -> HandlerStates] /\ opened \in [Requests -> SUBSET Workers]
      /\ ctxDone \in [Requests -> BOOLEAN] /\ results \in [Requests -> Results]
  BY DEF HandlerStates, Results
<1>2. /\ queued \in SUBSET Requests /\ batcher \in {"running", "stopped"}
      /\ chansClosed \in SUBSET Priorities
  OBVIOUS
<1>3. /\ batchChans \in [Priorities -> Seq(Seq(Requests))]
      /\ \A p \in Priorities : Len(batchChans[p]) <= ChanCapacity
  BY ChanCapacityType
<1>4. /\ pc \in [Workers -> WorkerStates] /\ level \in [Workers -> 1..4]
      /\ work \in [Workers -> Seq(Requests)]
      /\ offered \in [Workers -> SUBSET Seq(Requests)]
  BY DEF WorkerStates
<1>5. \A w \in Workers : work[w] # <<>> <=> Busy(w)
  BY DEF Busy
<1>6. circuit \in [Workers -> Breakers]
  BY DEF NewCircuitBreaker, Breakers, CircuitStates
<1>7. /\ upstream \in {"up", "down", "hung"} /\ upstreamUnhealthy \in BOOLEAN
      /\ ping \in {"sleep", "sent", "swallowed", "returned"} /\ pingFailures \in 0..FailureThreshold
      /\ shutdown \in BOOLEAN
  <2>1. upstreamUnhealthy \in BOOLEAN /\ shutdown \in BOOLEAN
    BY Zenon
  <2>2. pingFailures \in 0..FailureThreshold
    OBVIOUS
  <2> QED BY <2>1, <2>2
<1>8. BatchesNonempty
  BY DEF BatchesNonempty, ToSet
<1> QED BY <1>1, <1>2, <1>3, <1>4, <1>5, <1>6, <1>7, <1>8 DEF TypeInv, TypeOK

LEMMA SendType ==
  ASSUME results \in [Requests -> Results], NEW S, NEW value \in Results, Send(S, value)
  PROVE  results' \in [Requests -> Results]
  BY DEF Send

LEMMA HandlerType ==
  ASSUME TypeInv, NEW r \in Requests, Arrive(r) \/ Handle(r) \/ CtxDone(r)
  PROVE  TypeInv'
<1> USE DEF HandlerStep, Reply, handlerVars, batcherVars, workerVars, pingVars, envVars
<1>1. UNCHANGED <<workerVars, pingVars, envVars, batcher, chansClosed>>
  BY DEF Arrive, Handle, CtxDone, CheckUnhealthy, CheckHealthy, ScanOpen, ScanUsable,
         ScanAllOpen, Submit, SubmitRejected, Result, TimedOut
<1>2. ASSUME handler' \in [Requests -> HandlerStates], opened' \in [Requests -> SUBSET Workers],
             ctxDone' \in [Requests -> BOOLEAN], results' \in [Requests -> Results],
             queued' \in SUBSET Requests
      PROVE  TypeInv'
  BY <1>1, <1>2 DEF TypeInv, TypeOK, BatchesNonempty, Busy, ToSet
<1>3. /\ handler' \in [Requests -> HandlerStates] /\ opened' \in [Requests -> SUBSET Workers]
      /\ ctxDone' \in [Requests -> BOOLEAN] /\ results' \in [Requests -> Results]
      /\ queued' \in SUBSET Requests
  <2> USE DEF TypeInv, TypeOK, HandlerStates, Results
  <2>1. CASE Arrive(r)
    BY <2>1 DEF Arrive
  <2>2. CASE CtxDone(r)
    BY <2>2 DEF CtxDone
  <2>3. CASE CheckUnhealthy(r) \/ CheckHealthy(r) \/ ScanAllOpen(r)
    BY <2>3 DEF CheckUnhealthy, CheckHealthy, ScanAllOpen
  <2>4. CASE \E w \in Workers : ScanOpen(r, w) \/ ScanUsable(r, w)
    <3>1. PICK w \in Workers : ScanOpen(r, w) \/ ScanUsable(r, w)
      BY <2>4
    <3>2. opened[r] \cup {w} \in SUBSET Workers
      OBVIOUS
    <3>3. CASE ScanOpen(r, w)
      BY <3>2, <3>3 DEF ScanOpen
    <3>4. CASE ScanUsable(r, w)
      BY <3>4 DEF ScanUsable
    <3> QED BY <3>1, <3>3, <3>4
  <2>5. CASE Submit(r) \/ SubmitRejected(r)
    BY <2>5 DEF Submit, SubmitRejected
  <2>6. CASE Result(r) \/ TimedOut(r)
    BY <2>6 DEF Result, TimedOut
  <2> QED BY <2>1, <2>2, <2>3, <2>4, <2>5, <2>6 DEF Handle
<1> QED BY <1>2, <1>3

LEMMA BatcherType ==
  ASSUME TypeInv, FormAny \/ BatcherStop \/ \E p \in Priorities : CloseBatchChan(p)
  PROVE  TypeInv'
<1> USE DEF handlerVars, workerVars, pingVars, envVars
<1>1. CASE FormAny
  <2>1. PICK S \in (SUBSET queued) \ {{}} : \E batch \in SetToSeqs(S) : Form(batch)
    BY <1>1 DEF FormAny
  <2>b. PICK batch \in SetToSeqs(S) : Form(batch)
    BY <2>1
  <2>a. S \in SUBSET Requests /\ S # {}
    BY DEF TypeInv, TypeOK
  <2>2. batch \in Seq(Requests) /\ batch # <<>>
    BY <2>a, SetToSeqsType
  <2> DEFINE p == PriorityOf[Head(batch)]
  <2>3. p \in Priorities
    BY <2>2, WorkerPoolAssumption
  <2>4. /\ Len(batchChans[p]) < ChanCapacity
        /\ batchChans' = [batchChans EXCEPT ![p] = Append(@, batch)]
        /\ queued' = queued \ ToSet(batch)
        /\ UNCHANGED <<handlerVars, results, batcher, chansClosed, pc, level, work, offered,
                       circuit, pingVars, envVars>>
    BY <2>b DEF Form
  <2> HIDE DEF p
  <2>5. batchChans[p] \in Seq(Seq(Requests))
    BY <2>3 DEF TypeInv, TypeOK
  <2>6. /\ Append(batchChans[p], batch) \in Seq(Seq(Requests))
        /\ Len(Append(batchChans[p], batch)) <= ChanCapacity
    BY <2>2, <2>4, <2>5, ChanCapacityType
  <2>7. /\ batchChans' \in [Priorities -> Seq(Seq(Requests))]
        /\ \A q \in Priorities : Len(batchChans'[q]) <= ChanCapacity
    BY <2>3, <2>4, <2>6 DEF TypeInv, TypeOK
  <2>8. BatchesNonempty'
    <3> SUFFICES ASSUME NEW q \in Priorities, NEW i \in DOMAIN batchChans'[q]
                 PROVE  batchChans'[q][i] # <<>>
      BY DEF BatchesNonempty, ToSet
    <3>1. CASE q # p
      BY <2>3, <2>4, <3>1 DEF TypeInv, TypeOK, BatchesNonempty, ToSet
    <3>2. CASE q = p
      <4>1. batchChans'[p] = Append(batchChans[p], batch)
        BY <2>3, <2>4 DEF TypeInv, TypeOK
      <4>2. \/ i \in DOMAIN batchChans[p] /\ batchChans'[q][i] = batchChans[p][i]
            \/ batchChans'[q][i] = batch
        BY <2>2, <2>5, <3>2, <4>1
      <4> QED BY <2>2, <2>3, <4>2 DEF TypeInv, BatchesNonempty, ToSet
    <3> QED BY <3>1, <3>2
  <2> QED BY <2>4, <2>7, <2>8 DEF TypeInv, TypeOK, Busy
<1>2. CASE BatcherStop
  <2>1. results' \in [Requests -> Results] /\ queued' \in SUBSET Requests
    <3>1. PICK S \in SUBSET queued : Send(S, "ErrShuttingDown") /\ queued' = queued \ S
      BY <1>2 DEF BatcherStop
    <3>2. "ErrShuttingDown" \in Results
      BY DEF Results
    <3> QED BY <3>1, <3>2, SendType DEF TypeInv, TypeOK
  <2>2. batcher' = "stopped" /\ UNCHANGED <<handlerVars, chansClosed, workerVars, pingVars, envVars>>
    BY <1>2 DEF BatcherStop
  <2> QED BY <2>1, <2>2 DEF TypeInv, TypeOK, Busy, BatchesNonempty, ToSet
<1>3. ASSUME NEW p \in Priorities, CloseBatchChan(p) PROVE TypeInv'
  <2>1. 0..p \in SUBSET Priorities
    BY DEF Priorities
  <2>2. chansClosed' = 0..p /\ UNCHANGED <<handlerVars, results, queued, batcher, workerVars, pingVars, envVars>>
    BY <1>3 DEF CloseBatchChan
  <2> QED BY <2>1, <2>2 DEF TypeInv, TypeOK, Busy, BatchesNonempty, ToSet
<1> QED BY <1>1, <1>2, <1>3

\* what a step of worker w may change
LEMMA WorkerFrame ==
  ASSUME TypeInv, NEW w \in Workers, NEW from, NEW to \in WorkerStates, WorkerStep(w, from, to),
         UNCHANGED batchChans,
         results' \in [Requests -> Results], level' \in [Workers -> 1..4],
         work' \in [Workers -> Seq(Requests)],
         \A v \in Workers : v # w => work'[v] = work[v],
         work'[w] # <<>> <=> to \notin {"select", "exited"},
         offered' \in [Workers -> SUBSET Seq(Requests)], circuit' \in [Workers -> Breakers]
  PROVE  TypeInv'
<1> USE DEF WorkerStep, handlerVars, batcherVars, pingVars, envVars
<1>1. pc' \in [Workers -> WorkerStates]
  BY DEF TypeInv, TypeOK
<1>2. \A v \in Workers : work'[v] # <<>> <=> Busy(v)'
  BY DEF TypeInv, TypeOK, Busy
<1>3. BatchesNonempty'
  BY DEF TypeInv, BatchesNonempty
<1> QED BY <1>1, <1>2, <1>3 DEF TypeInv, TypeOK

\* the batches in the channels are sequences of requests
LEMMA WaitingType == TypeOK => Waiting \in SUBSET Seq(Requests)
  BY DEF TypeOK, Waiting, ToSet

LEMMA SelectType ==
  ASSUME TypeInv, NEW w \in Workers,
         (\E p \in Priorities : SelectReceive(w, p)) \/ SelectDefault(w) \/ SelectExit(w)
  PROVE  TypeInv'
<1>1. ASSUME NEW p \in Priorities, SelectReceive(w, p) PROVE TypeInv'
  <2> DEFINE b == Head(batchChans[p])
  <2>1. /\ batchChans[p] \in Seq(Seq(Requests)) /\ batchChans[p] # <<>>
        /\ Len(batchChans[p]) <= ChanCapacity
    BY <1>1 DEF SelectReceive, TypeInv, TypeOK
  <2>2. /\ b \in Seq(Requests) /\ b \in ToSet(batchChans[p])
        /\ Tail(batchChans[p]) \in Seq(Seq(Requests))
        /\ Len(Tail(batchChans[p])) <= ChanCapacity
        /\ ToSet(Tail(batchChans[p])) \subseteq ToSet(batchChans[p])
    BY <2>1, ChanCapacityType DEF ToSet
  <2>3. b # <<>>
    BY <2>2 DEF TypeInv, BatchesNonempty
  <2>4. /\ batchChans' = [batchChans EXCEPT ![p] = Tail(@)]
        /\ work' = [work EXCEPT ![w] = b]
        /\ level' = [level EXCEPT ![w] = 1]
        /\ offered' = [v \in Workers |-> IF v = w THEN {} ELSE offered[v] \ {b}]
        /\ UNCHANGED <<results, circuit>>
        /\ pc' = [pc EXCEPT ![w] = "received"]
        /\ UNCHANGED <<handlerVars, batcherVars, pingVars, envVars>>
    BY <1>1 DEF SelectReceive, WorkerStep
  <2> HIDE DEF b
  <2>5. /\ batchChans' \in [Priorities -> Seq(Seq(Requests))]
        /\ \A q \in Priorities : Len(batchChans'[q]) <= ChanCapacity
    BY <2>2, <2>4 DEF TypeInv, TypeOK
  <2>6. BatchesNonempty'
    BY <2>2, <2>4 DEF TypeInv, TypeOK, BatchesNonempty
  <2>7. /\ work' \in [Workers -> Seq(Requests)] /\ level' \in [Workers -> 1..4]
        /\ offered' \in [Workers -> SUBSET Seq(Requests)]
        /\ pc' \in [Workers -> WorkerStates]
    BY <2>2, <2>4 DEF TypeInv, TypeOK, WorkerStates
  <2>8. \A v \in Workers : work'[v] # <<>> <=> Busy(v)'
    BY <2>3, <2>4 DEF TypeInv, TypeOK, Busy
  <2> QED BY <2>4, <2>5, <2>6, <2>7, <2>8
          DEF TypeInv, TypeOK, handlerVars, batcherVars, pingVars, envVars
<1>2. CASE SelectDefault(w)
  <2>1. /\ level[w] < 4 /\ pc[w] = "select" /\ WorkerStep(w, "select", "select")
        /\ level' = [level EXCEPT ![w] = @ + 1]
        /\ UNCHANGED <<results, batchChans, work, offered, circuit>>
    BY <1>2 DEF SelectDefault, WorkerStep
  <2>a. level \in [Workers -> 1..4]
    BY DEF TypeInv, TypeOK
  <2>b. level[w] + 1 \in 1..4
    BY <2>1, <2>a
  <2>2. level' \in [Workers -> 1..4] /\ "select" \in WorkerStates
    BY <2>1, <2>a, <2>b DEF WorkerStates
  <2>3. work[w] = <<>>
    BY <2>1 DEF TypeInv, TypeOK, Busy
  <2> QED BY <2>1, <2>2, <2>3, WorkerFrame DEF TypeInv, TypeOK
<1>3. CASE SelectExit(w)
  <2>1. /\ pc[w] = "select" /\ WorkerStep(w, "select", "exited")
        /\ level' = [level EXCEPT ![w] = 1] /\ offered' = [offered EXCEPT ![w] = {}]
        /\ UNCHANGED <<results, batchChans, work, circuit>>
    BY <1>3 DEF SelectExit, WorkerStep
  <2>2. /\ level' \in [Workers -> 1..4] /\ "exited" \in WorkerStates
        /\ offered' \in [Workers -> SUBSET Seq(Requests)]
    BY <2>1 DEF TypeInv, TypeOK, WorkerStates
  <2>3. work[w] = <<>>
    BY <2>1 DEF TypeInv, TypeOK, Busy
  <2> QED BY <2>1, <2>2, <2>3, WorkerFrame DEF TypeInv, TypeOK
<1> QED BY <1>1, <1>2, <1>3

\* the methods of a breaker keep it well formed, and consistent
LEMMA RecordSuccessType ==
  ASSUME NEW cb \in Breakers
  PROVE  /\ RecordSuccess(cb) \in Breakers
         /\ cb.state # "Open" => RecordSuccess(cb).state # "Open" /\ Consistent(RecordSuccess(cb))
<1> DEFINE healed == IF cb.state = "HalfOpen" THEN "Closed" ELSE cb.state
<1>1. cb.state \in CircuitStates /\ 0 \in 0..FailureThreshold
  BY FailureThresholdAssumption DEF Breakers
<1>2. healed \in CircuitStates /\ (cb.state # "Open" => healed = "Closed")
  BY <1>1 DEF CircuitStates
<1>3. RecordSuccess(cb) = [cb EXCEPT !.failureCount = 0, !.state = healed]
  BY DEF RecordSuccess
<1> HIDE DEF healed
<1>4. /\ RecordSuccess(cb) \in Breakers
      /\ RecordSuccess(cb).state = healed /\ RecordSuccess(cb).failureCount = 0
  BY <1>1, <1>2, <1>3 DEF Breakers
<1> QED BY <1>2, <1>4, FailureThresholdAssumption DEF Consistent

LEMMA RecordFailureType ==
  ASSUME NEW cb \in Breakers
  PROVE  /\ RecordFailure(cb) \in Breakers
         /\ Consistent(cb) => Consistent(RecordFailure(cb))
<1>1. /\ cb.state \in CircuitStates /\ cb.failureCount \in 0..FailureThreshold
      /\ Saturate(cb.failureCount + 1) \in 0..FailureThreshold
  BY FailureThresholdAssumption DEF Breakers, Saturate
<1>2. RecordFailure(cb) \in Breakers
  BY <1>1 DEF RecordFailure, Breakers, CircuitStates
<1>3. ASSUME Consistent(cb) PROVE Consistent(RecordFailure(cb))
  BY <1>1, <1>3, FailureThresholdAssumption DEF RecordFailure, Consistent, Saturate, CircuitStates
<1> QED BY <1>2, <1>3

LEMMA ExecutedType ==
  ASSUME NEW cb \in Breakers
  PROVE  /\ Executed(cb) \in Breakers
         /\ Consistent(cb) => Consistent(Executed(cb))
         /\ CanExecute(cb) => Executed(cb).state # "Open"
  BY DEF Executed, CanExecute, Consistent, Breakers, CircuitStates

LEMMA ProcessType ==
  ASSUME TypeInv, NEW w \in Workers, Process(w)
  PROVE  TypeInv'
<1>1. /\ results \in [Requests -> Results] /\ level \in [Workers -> 1..4]
      /\ work \in [Workers -> Seq(Requests)] /\ circuit \in [Workers -> Breakers]
      /\ offered \in [Workers -> SUBSET Seq(Requests)] /\ Waiting \in SUBSET Seq(Requests)
      /\ pc[w] \notin {"select", "exited"} => work[w] # <<>>
  BY WaitingType DEF TypeInv, TypeOK, Busy
\* process returns: the batch is put down
<1>2. ASSUME NEW from, ProcessEnd(w, from),
             results' \in [Requests -> Results], circuit' = circuit
      PROVE  TypeInv'
  <2>1. /\ WorkerStep(w, from, "select") /\ UNCHANGED <<batchChans, level>>
        /\ work' = [work EXCEPT ![w] = <<>>] /\ offered' = [offered EXCEPT ![w] = Waiting]
    BY <1>2 DEF ProcessEnd
  <2>2. /\ work' \in [Workers -> Seq(Requests)]
        /\ \A v \in Workers : v # w => work'[v] = work[v]
        /\ work'[w] = <<>>
        /\ offered' \in [Workers -> SUBSET Seq(Requests)]
        /\ "select" \in WorkerStates
    BY <1>1, <2>1 DEF WorkerStates
  <2> QED BY <1>1, <1>2, <2>1, <2>2, WorkerFrame
\* process goes on with the batch, or with what is left of it
<1>3. ASSUME NEW from \in WorkerStates \ {"select", "exited"},
             NEW to \in WorkerStates \ {"select", "exited"}, ProcessStep(w, from, to),
             results' \in [Requests -> Results], circuit' \in [Workers -> Breakers],
             work' = work \/ \E live \in Seq(Requests) \ {<<>>} : work' = [work EXCEPT ![w] = live]
      PROVE  TypeInv'
  <2>1. WorkerStep(w, from, to) /\ UNCHANGED <<batchChans, level, offered>> /\ pc[w] = from
    BY <1>3 DEF ProcessStep, WorkerStep
  <2>2. /\ work' \in [Workers -> Seq(Requests)]
        /\ \A v \in Workers : v # w => work'[v] = work[v]
        /\ work'[w] # <<>>
    BY <1>1, <1>3, <2>1
  <2> QED BY <1>1, <1>3, <2>1, <2>2, WorkerFrame
<1>4. {"ErrWorkerUnavailable", "cancelled"} \subseteq Results
  BY DEF Results
<1>5. {"received", "permit", "filter", "post", "fanOut", "fanError"} \subseteq WorkerStates
  BY DEF WorkerStates
<1>6. CASE RefuseUnhealthy(w) \/ RefuseOpen(w)
  BY <1>1, <1>2, <1>4, <1>6, SendType DEF RefuseUnhealthy, RefuseOpen
<1>7. CASE PassHealthy(w)
  BY <1>1, <1>3, <1>5, <1>7 DEF PassHealthy
<1>8. CASE PassCircuit(w)
  <2>1. Executed(circuit[w]) \in Breakers
    BY <1>1, ExecutedType
  <2>2. circuit' \in [Workers -> Breakers]
    BY <1>1, <1>8, <2>1 DEF PassCircuit
  <2> QED BY <1>1, <1>3, <1>5, <1>8, <2>2 DEF PassCircuit
<1>9. CASE FilterNone(w)
  BY <1>1, <1>2, <1>4, <1>9, SendType DEF FilterNone
<1>10. CASE FilterSome(w)
  <2>1. PICK live \in Scrubbed(w) : work' = [work EXCEPT ![w] = live]
    BY <1>10 DEF FilterSome
  <2>2. live \in Seq(Requests) \ {<<>>}
    BY <1>1, <1>10, ScrubbedType DEF FilterSome
  <2>3. results' \in [Requests -> Results]
    BY <1>1, <1>4, <1>10, SendType DEF FilterSome
  <2> QED BY <1>1, <1>3, <1>5, <1>10, <2>1, <2>2, <2>3 DEF FilterSome
<1>11. CASE PostFail(w)
  <2>1. RecordFailure(circuit[w]) \in Breakers
    BY <1>1, RecordFailureType
  <2>2. circuit' \in [Workers -> Breakers]
    BY <1>1, <1>11, <2>1 DEF PostFail
  <2> QED BY <1>1, <1>3, <1>5, <1>11, <2>2 DEF PostFail
<1>12. CASE FanOutError(w)
  BY <1>1, <1>2, <1>4, <1>12, SendType DEF FanOutError
<1>13. CASE PostOk(w)
  <2>1. RecordSuccess(circuit[w]) \in Breakers
    BY <1>1, RecordSuccessType
  <2>2. circuit' \in [Workers -> Breakers]
    BY <1>1, <1>13, <2>1 DEF PostOk
  <2> QED BY <1>1, <1>3, <1>5, <1>13, <2>2 DEF PostOk
<1>14. ASSUME NEW n \in 0..MaxBatchSize, FanOutResults(w, n) PROVE TypeInv'
  <2>1. results' \in [Requests -> Results]
    BY <1>1, <1>14 DEF FanOutResults, Results
  <2> QED BY <1>1, <1>2, <1>14, <2>1 DEF FanOutResults
<1> QED BY <1>6, <1>7, <1>8, <1>9, <1>10, <1>11, <1>12, <1>13, <1>14 DEF Process

LEMMA SurroundingsType ==
  ASSUME TypeInv,
         \/ \E w \in Workers : Recover(w)
         \/ PingLoop \/ \E how \in {"up", "down", "hung"} : UpstreamBecomes(how)
         \/ Shutdown \/ UNCHANGED vars
  PROVE  TypeInv'
<1> USE DEF handlerVars, batcherVars, workerVars, pingVars, envVars
<1>1. ASSUME NEW w \in Workers, Recover(w) PROVE TypeInv'
  <2>1. circuit' \in [Workers -> Breakers]
    BY <1>1 DEF Recover, TypeInv, TypeOK, Breakers
  <2> QED BY <1>1, <2>1 DEF Recover, TypeInv, TypeOK, BatchesNonempty, Busy, ToSet
<1>2. CASE PingLoop
  <2>1. UNCHANGED <<handlerVars, results, batcherVars, workerVars, envVars>>
    BY <1>2 DEF PingLoop, PingSend, PingSwallowed, PingOk, PingFail, PingReturn, PingStep
  <2>2. ping' \in {"sleep", "sent", "swallowed", "returned"}
    BY <1>2 DEF PingLoop, PingSend, PingSwallowed, PingOk, PingFail, PingReturn, PingStep
  <2>3. pingFailures' \in 0..FailureThreshold
    BY <1>2, FailureThresholdAssumption
       DEF PingLoop, PingSend, PingSwallowed, PingOk, PingFail, PingReturn, Saturate, TypeInv, TypeOK
  <2>4. upstreamUnhealthy' \in BOOLEAN
    <3>1. CASE PingFail
      BY Zenon, <3>1 DEF PingFail
    <3>2. CASE PingSend \/ PingSwallowed \/ PingOk \/ PingReturn
      BY Zenon, <3>2 DEF PingSend, PingSwallowed, PingOk, PingReturn, TypeInv, TypeOK
    <3> QED BY <1>2, <3>1, <3>2 DEF PingLoop
  <2> QED BY <2>1, <2>2, <2>3, <2>4 DEF TypeInv, TypeOK, BatchesNonempty, Busy, ToSet
<1>3. ASSUME NEW how \in {"up", "down", "hung"}, UpstreamBecomes(how) PROVE TypeInv'
  BY <1>3 DEF UpstreamBecomes, TypeInv, TypeOK, BatchesNonempty, Busy, ToSet
<1>4. CASE Shutdown
  BY <1>4 DEF Shutdown, TypeInv, TypeOK, BatchesNonempty, Busy, ToSet
<1>5. CASE UNCHANGED vars
  BY <1>5 DEF vars, TypeInv, TypeOK, BatchesNonempty, Busy, ToSet
<1> QED BY <1>1, <1>2, <1>3, <1>4, <1>5

LEMMA TypeStep == TypeInv /\ [Next]_vars => TypeInv'
  BY HandlerType, BatcherType, SelectType, ProcessType, SurroundingsType
     DEF Next, Serve, Run, Terminated

(* Type correctness of the pool, whatever clients, batcher, upstream and   *)
(* timers do: no channel is ever over its capacity (pool.go:51-55), only a *)
(* worker inside process holds a batch, and no batch without a request is  *)
(* taken or posted (proxy.go:126-129).                                     *)
THEOREM TypeCorrect == Spec => []TypeOK
<1>1. TypeInv => TypeOK
  BY DEF TypeInv
<1> QED BY <1>1, TypeInit, TypeStep, PTL DEF Spec

-----------------------------------------------------------------------------
(* Breakers.                                                               *)

(* A breaker is Closed exactly while it has seen fewer consecutive         *)
(* failures than the threshold, and no worker is past CanExecute with an   *)
(* Open breaker (circuit.go:55-98), for every threshold.                   *)
THEOREM BreakersAreConsistent == Spec => []BreakerConsistent
<1>1. Init => BreakerConsistent
  BY FailureThresholdAssumption DEF Init, BreakerConsistent, Consistent, NewCircuitBreaker
<1>2. TypeInv /\ BreakerConsistent /\ [Next]_vars => BreakerConsistent'
  <2> SUFFICES ASSUME TypeInv, BreakerConsistent, [Next]_vars PROVE BreakerConsistent'
    OBVIOUS
  <2>1. circuit \in [Workers -> Breakers] /\ pc \in [Workers -> WorkerStates]
    BY DEF TypeInv, TypeOK
  <2>2. CASE UNCHANGED <<circuit, pc>>
    BY <2>2 DEF BreakerConsistent
  \* one worker moves and leaves every breaker alone
  <2>3. ASSUME NEW w \in Workers, NEW from, NEW to, WorkerStep(w, from, to), circuit' = circuit,
               to \notin {"filter", "post"} \/ (to = "post" /\ from = "filter")
        PROVE  BreakerConsistent'
    BY <2>1, <2>3 DEF BreakerConsistent, WorkerStep
  \* one worker moves and uses its own breaker
  <2>4. ASSUME NEW w \in Workers, NEW from, NEW to, WorkerStep(w, from, to),
               NEW cb, circuit' = [circuit EXCEPT ![w] = cb], Consistent(cb),
               to \in {"filter", "post"} => cb.state # "Open"
        PROVE  BreakerConsistent'
    BY <2>1, <2>4 DEF BreakerConsistent, WorkerStep
  <2>5. ASSUME NEW w \in Workers, Run(w) PROVE BreakerConsistent'
    <3>1. ASSUME \/ SelectDefault(w) /\ WorkerStep(w, "select", "select")
                 \/ SelectExit(w) /\ WorkerStep(w, "select", "exited")
                 \/ \E p \in Priorities : SelectReceive(w, p) /\ WorkerStep(w, "select", "received")
          PROVE  BreakerConsistent'
      <4>1. circuit' = circuit
        BY <3>1 DEF SelectDefault, SelectExit, SelectReceive
      <4>2. \E to \in {"select", "exited", "received"} : WorkerStep(w, "select", to)
        BY <3>1
      <4> QED BY <2>3, <4>1, <4>2
    <3>2. ASSUME NEW from \in WorkerStates, ProcessEnd(w, from), circuit' = circuit
          PROVE  BreakerConsistent'
      BY <2>3, <3>2 DEF ProcessEnd
    <3>3. CASE RefuseUnhealthy(w)
      BY <3>2, <3>3 DEF RefuseUnhealthy, WorkerStates
    <3>4. CASE RefuseOpen(w)
      BY <3>2, <3>4 DEF RefuseOpen, WorkerStates
    <3>5. CASE FilterNone(w)
      BY <3>2, <3>5 DEF FilterNone, WorkerStates
    <3>6. CASE FanOutError(w)
      BY <3>2, <3>6 DEF FanOutError, WorkerStates
    <3>7. CASE \E n \in 0..MaxBatchSize : FanOutResults(w, n)
      BY <3>2, <3>7 DEF FanOutResults, WorkerStates
    <3>8. CASE PassHealthy(w)
      BY <2>3, <3>8 DEF PassHealthy, ProcessStep
    <3>9. CASE FilterSome(w)
      BY <2>3, <3>9 DEF FilterSome, ProcessStep
    <3>10. CASE PassCircuit(w)
      <4>1. Consistent(Executed(circuit[w])) /\ Executed(circuit[w]).state # "Open"
        BY <2>1, <3>10, ExecutedType DEF PassCircuit, BreakerConsistent
      <4>2. WorkerStep(w, "permit", "filter") /\ circuit' = [circuit EXCEPT ![w] = Executed(circuit[w])]
        BY <3>10 DEF PassCircuit, ProcessStep
      <4> QED BY <2>4, <4>1, <4>2
    <3>11. CASE PostFail(w)
      <4>1. Consistent(RecordFailure(circuit[w]))
        BY <2>1, RecordFailureType DEF BreakerConsistent
      <4>2. WorkerStep(w, "post", "fanError") /\ circuit' = [circuit EXCEPT ![w] = RecordFailure(circuit[w])]
        BY <3>11 DEF PostFail, ProcessStep
      <4>3. "fanError" \in {"filter", "post"} => RecordFailure(circuit[w]).state # "Open"
        OBVIOUS
      <4> QED BY <2>4, <4>1, <4>2, <4>3, Zenon
    <3>12. CASE PostOk(w)
      <4>1. circuit[w].state # "Open" /\ circuit[w] \in Breakers
        BY <2>1, <3>12 DEF PostOk, ProcessStep, WorkerStep, BreakerConsistent
      <4>2. Consistent(RecordSuccess(circuit[w]))
        BY <4>1, RecordSuccessType
      <4>3. WorkerStep(w, "post", "fanOut") /\ circuit' = [circuit EXCEPT ![w] = RecordSuccess(circuit[w])]
        BY <3>12 DEF PostOk, ProcessStep
      <4>4. "fanOut" \in {"filter", "post"} => RecordSuccess(circuit[w]).state # "Open"
        OBVIOUS
      <4> QED BY <2>4, <4>2, <4>3, <4>4, Zenon
    <3>13. CASE SelectDefault(w) \/ SelectExit(w) \/ \E p \in Priorities : SelectReceive(w, p)
      BY <3>1, <3>13 DEF SelectDefault, SelectExit, SelectReceive
    <3> QED BY <2>5, <3>3, <3>4, <3>5, <3>6, <3>7, <3>8, <3>9, <3>10, <3>11, <3>12, <3>13 DEF Run, Process
  <2>6. ASSUME NEW w \in Workers, Recover(w) PROVE BreakerConsistent'
    <3>1. circuit[w] \in Breakers /\ circuit[w].state = "Open"
      BY <2>1, <2>6 DEF Recover, RecoveryDue
    <3>2. /\ [circuit[w] EXCEPT !.elapsed = TRUE].state = circuit[w].state
          /\ [circuit[w] EXCEPT !.elapsed = TRUE].failureCount = circuit[w].failureCount
      BY <3>1 DEF Breakers
    <3> QED BY <2>1, <2>6, <3>1, <3>2 DEF Recover, BreakerConsistent, Consistent
  <2>7. ASSUME NEW r \in Requests, Arrive(r) \/ Handle(r) \/ CtxDone(r) PROVE UNCHANGED <<circuit, pc>>
    BY <2>7 DEF Arrive, Handle, CtxDone, CheckUnhealthy, CheckHealthy, ScanOpen, ScanUsable,
                ScanAllOpen, Submit, SubmitRejected, Result, TimedOut, Reply, HandlerStep, workerVars
  <2>8. ASSUME FormAny \/ BatcherStop \/ \E p \in Priorities : CloseBatchChan(p)
        PROVE  UNCHANGED <<circuit, pc>>
    BY <2>8 DEF FormAny, Form, BatcherStop, CloseBatchChan, workerVars
  <2>9. ASSUME PingLoop \/ Shutdown \/ Terminated \/ (UNCHANGED vars)
               \/ \E how \in {"up", "down", "hung"} : UpstreamBecomes(how)
        PROVE  UNCHANGED <<circuit, pc>>
    BY <2>9 DEF PingLoop, PingSend, PingSwallowed, PingOk, PingFail, PingReturn, PingStep, Shutdown, Terminated,
                UpstreamBecomes, vars, workerVars
  <2> QED BY <2>2, <2>5, <2>6, <2>7, <2>8, <2>9 DEF Next, Serve
<1> QED BY <1>1, <1>2, TypeInit, TypeStep, PTL DEF Spec

-----------------------------------------------------------------------------
(* Channels as places of requests.                                         *)

\* the requests in the batches of the channels, and that no two places of
\* them hold the same one
ContentOf(chans) == UNION {ToSet(b) : b \in UNION {ToSet(chans[p]) : p \in Priorities}}

Apart(chans) ==
  \A p, q \in Priorities : \A i \in DOMAIN chans[p], j \in DOMAIN chans[q] :
    /\ IsInjective(chans[p][i])
    /\ <<p, i>> # <<q, j>> => ToSet(chans[p][i]) \cap ToSet(chans[q][j]) = {}

LEMMA ContentMember ==
  ASSUME NEW chans, NEW r
  PROVE  r \in ContentOf(chans) <=>
           \E p \in Priorities : \E i \in DOMAIN chans[p] : r \in ToSet(chans[p][i])
<1>1. ASSUME NEW p \in Priorities, NEW i \in DOMAIN chans[p], r \in ToSet(chans[p][i])
      PROVE  r \in ContentOf(chans)
  <2>1. chans[p][i] \in ToSet(chans[p])
    BY DEF ToSet
  <2> QED BY <1>1, <2>1 DEF ContentOf
<1>2. ASSUME r \in ContentOf(chans)
      PROVE  \E p \in Priorities : \E i \in DOMAIN chans[p] : r \in ToSet(chans[p][i])
  <2>1. PICK p \in Priorities : \E b \in ToSet(chans[p]) : r \in ToSet(b)
    BY <1>2 DEF ContentOf
  <2>2. PICK b \in ToSet(chans[p]) : r \in ToSet(b)
    BY <2>1
  <2>3. PICK i \in DOMAIN chans[p] : b = chans[p][i]
    BY DEF ToSet
  <2> QED BY <2>2, <2>3
<1> QED BY <1>1, <1>2

\* a batch joins the end of a channel
LEMMA ChannelSend ==
  ASSUME NEW chans \in [Priorities -> Seq(Seq(Requests))], NEW p \in Priorities,
         NEW batch \in Seq(Requests), NEW chans2,
         chans2 = [chans EXCEPT ![p] = Append(@, batch)]
  PROVE  /\ ContentOf(chans2) = ContentOf(chans) \cup ToSet(batch)
         /\ Apart(chans) /\ IsInjective(batch) /\ ToSet(batch) \cap ContentOf(chans) = {}
              => Apart(chans2)
<1> DEFINE n == Len(chans[p])
<1>1. /\ chans[p] \in Seq(Seq(Requests)) /\ n \in Nat /\ DOMAIN chans[p] = 1..n
      /\ chans2[p] = Append(chans[p], batch)
      /\ \A q \in Priorities : q # p => chans2[q] = chans[q]
  OBVIOUS
<1>2. /\ DOMAIN chans2[p] = 1..n + 1 /\ chans2[p][n + 1] = batch
      /\ \A i \in 1..n : chans2[p][i] = chans[p][i]
  BY <1>1
<1> HIDE DEF n
<1>3. \A i \in 1..n : i \in 1..n + 1 /\ i # n + 1
  BY <1>1
<1>4. \A i \in 1..n + 1 : i = n + 1 \/ i \in 1..n
  BY <1>1
<1>5. n + 1 \in 1..n + 1
  BY <1>1
\* a place of chans2 is one of chans or the new one
<1>6. ASSUME NEW q \in Priorities, NEW i \in DOMAIN chans2[q]
      PROVE  \/ i \in DOMAIN chans[q] /\ chans2[q][i] = chans[q][i] /\ <<q, i>> # <<p, n + 1>>
             \/ <<q, i>> = <<p, n + 1>> /\ chans2[q][i] = batch
  BY <1>1, <1>2, <1>3, <1>4
<1>7. ASSUME NEW q \in Priorities, NEW i \in DOMAIN chans[q]
      PROVE  i \in DOMAIN chans2[q] /\ chans2[q][i] = chans[q][i]
  BY <1>1, <1>2, <1>3
<1>8. ContentOf(chans2) = ContentOf(chans) \cup ToSet(batch)
  <2>1. ASSUME NEW r \in ContentOf(chans2) PROVE r \in ContentOf(chans) \/ r \in ToSet(batch)
    <3>1. PICK q \in Priorities : \E i \in DOMAIN chans2[q] : r \in ToSet(chans2[q][i])
      BY ContentMember
    <3>2. PICK i \in DOMAIN chans2[q] : r \in ToSet(chans2[q][i])
      BY <3>1
    <3>3. CASE i \in DOMAIN chans[q] /\ chans2[q][i] = chans[q][i]
      BY <3>2, <3>3, ContentMember
    <3> QED BY <1>6, <3>2, <3>3
  <2>2. ASSUME NEW r \in ContentOf(chans) PROVE r \in ContentOf(chans2)
    <3>1. PICK q \in Priorities : \E i \in DOMAIN chans[q] : r \in ToSet(chans[q][i])
      BY ContentMember
    <3>2. PICK i \in DOMAIN chans[q] : r \in ToSet(chans[q][i])
      BY <3>1
    <3>3. i \in DOMAIN chans2[q] /\ r \in ToSet(chans2[q][i])
      BY <1>7, <3>2
    <3> QED BY <3>3, ContentMember
  <2>3. ASSUME NEW r \in ToSet(batch) PROVE r \in ContentOf(chans2)
    BY <1>2, <1>5, ContentMember
  <2> QED BY <2>1, <2>2, <2>3
<1>9. ASSUME Apart(chans), IsInjective(batch), ToSet(batch) \cap ContentOf(chans) = {}
      PROVE  Apart(chans2)
  <2>1. ASSUME NEW q \in Priorities, NEW i \in DOMAIN chans[q]
        PROVE  ToSet(batch) \cap ToSet(chans[q][i]) = {}
    BY <1>9, ContentMember
  <2> SUFFICES ASSUME NEW q1 \in Priorities, NEW q2 \in Priorities,
                      NEW i \in DOMAIN chans2[q1], NEW j \in DOMAIN chans2[q2]
               PROVE  /\ IsInjective(chans2[q1][i])
                      /\ <<q1, i>> # <<q2, j>> => ToSet(chans2[q1][i]) \cap ToSet(chans2[q2][j]) = {}
    BY DEF Apart
  <2>2. IsInjective(chans2[q1][i])
    BY <1>6, <1>9 DEF Apart
  <2>3. ASSUME <<q1, i>> # <<q2, j>> PROVE ToSet(chans2[q1][i]) \cap ToSet(chans2[q2][j]) = {}
    <3>1. CASE <<q1, i>> = <<p, n + 1>>
      <4>1. chans2[q1][i] = batch /\ j \in DOMAIN chans[q2] /\ chans2[q2][j] = chans[q2][j]
        BY <1>6, <2>3, <3>1
      <4> QED BY <2>1, <4>1
    <3>2. CASE <<q2, j>> = <<p, n + 1>>
      <4>1. chans2[q2][j] = batch /\ i \in DOMAIN chans[q1] /\ chans2[q1][i] = chans[q1][i]
        BY <1>6, <2>3, <3>2
      <4> QED BY <2>1, <4>1
    <3>3. CASE <<q1, i>> # <<p, n + 1>> /\ <<q2, j>> # <<p, n + 1>>
      <4>1. /\ i \in DOMAIN chans[q1] /\ chans2[q1][i] = chans[q1][i]
            /\ j \in DOMAIN chans[q2] /\ chans2[q2][j] = chans[q2][j]
        BY <1>6, <3>3
      <4> QED BY <1>9, <2>3, <4>1 DEF Apart
    <3> QED BY <3>1, <3>2, <3>3
  <2> QED BY <2>2, <2>3
<1> QED BY <1>8, <1>9

\* a worker takes the batch at the front of a channel
LEMMA ChannelReceive ==
  ASSUME NEW chans \in [Priorities -> Seq(Seq(Requests))], NEW p \in Priorities,
         chans[p] # <<>>, NEW chans2, chans2 = [chans EXCEPT ![p] = Tail(@)]
  PROVE  /\ ContentOf(chans) = ContentOf(chans2) \cup ToSet(Head(chans[p]))
         /\ Apart(chans) =>
              /\ Apart(chans2) /\ IsInjective(Head(chans[p]))
              /\ ContentOf(chans2) \cap ToSet(Head(chans[p])) = {}
<1> DEFINE n == Len(chans[p])
           b == Head(chans[p])
           old(q, i) == IF q = p THEN i + 1 ELSE i
<1>1. /\ chans[p] \in Seq(Seq(Requests)) /\ n \in Nat /\ n # 0 /\ DOMAIN chans[p] = 1..n
      /\ b = chans[p][1] /\ chans2[p] = Tail(chans[p])
      /\ \A q \in Priorities : q # p => chans2[q] = chans[q]
      /\ \A q \in Priorities : DOMAIN chans[q] = 1..Len(chans[q])
  OBVIOUS
<1>2. DOMAIN chans2[p] = 1..n - 1 /\ \A i \in 1..n - 1 : chans2[p][i] = chans[p][i + 1]
  BY <1>1
<1> HIDE DEF n, b
<1>3. \A i \in 1..n - 1 : i + 1 \in 1..n /\ i + 1 # 1
  BY <1>1
<1>4. \A i \in 1..n : i = 1 \/ (i - 1 \in 1..n - 1 /\ (i - 1) + 1 = i)
  BY <1>1
<1>5. 1 \in 1..n
  BY <1>1
\* a place of chans2 is one of chans, and not the front of channel p
<1>6. ASSUME NEW q \in Priorities, NEW i \in DOMAIN chans2[q]
      PROVE  /\ old(q, i) \in DOMAIN chans[q] /\ chans2[q][i] = chans[q][old(q, i)]
             /\ <<q, old(q, i)>> # <<p, 1>> /\ i \in Int
  BY <1>1, <1>2, <1>3
<1>7. ContentOf(chans2) \subseteq ContentOf(chans)
  <2> SUFFICES ASSUME NEW r \in ContentOf(chans2) PROVE r \in ContentOf(chans)
    OBVIOUS
  <2>1. PICK q \in Priorities : \E i \in DOMAIN chans2[q] : r \in ToSet(chans2[q][i])
    BY ContentMember
  <2>2. PICK i \in DOMAIN chans2[q] : r \in ToSet(chans2[q][i])
    BY <2>1
  <2> HIDE DEF old
  <2>3. r \in ToSet(chans[q][old(q, i)]) /\ old(q, i) \in DOMAIN chans[q]
    BY <1>6, <2>2
  <2> QED BY <2>3, ContentMember
<1>8. ToSet(b) \subseteq ContentOf(chans)
  BY <1>1, <1>5, ContentMember
<1>9. ContentOf(chans) \subseteq ContentOf(chans2) \cup ToSet(b)
  <2> SUFFICES ASSUME NEW r \in ContentOf(chans), r \notin ToSet(b) PROVE r \in ContentOf(chans2)
    OBVIOUS
  <2>1. PICK q \in Priorities : \E i \in DOMAIN chans[q] : r \in ToSet(chans[q][i])
    BY ContentMember
  <2>2. PICK i \in DOMAIN chans[q] : r \in ToSet(chans[q][i])
    BY <2>1
  <2>3. \E j \in DOMAIN chans2[q] : chans2[q][j] = chans[q][i]
    <3>1. CASE q # p
      BY <1>1, <3>1
    <3>2. CASE q = p
      <4>1. i \in 1..n /\ i # 1
        BY <1>1, <2>2, <3>2
      <4>2. i - 1 \in DOMAIN chans2[p] /\ chans2[p][i - 1] = chans[p][i]
        BY <1>2, <1>4, <4>1
      <4> QED BY <3>2, <4>2
    <3> QED BY <3>1, <3>2
  <2> QED BY <2>2, <2>3, ContentMember
<1>10. ASSUME Apart(chans)
       PROVE  Apart(chans2) /\ IsInjective(b) /\ ContentOf(chans2) \cap ToSet(b) = {}
  <2>1. IsInjective(b)
    BY <1>1, <1>5, <1>10 DEF Apart
  <2>2. Apart(chans2)
    <3> SUFFICES ASSUME NEW q1 \in Priorities, NEW q2 \in Priorities,
                        NEW i \in DOMAIN chans2[q1], NEW j \in DOMAIN chans2[q2]
                 PROVE  /\ IsInjective(chans2[q1][i])
                        /\ <<q1, i>> # <<q2, j>> => ToSet(chans2[q1][i]) \cap ToSet(chans2[q2][j]) = {}
      BY DEF Apart
    <3>1. <<q1, i>> # <<q2, j>> => <<q1, old(q1, i)>> # <<q2, old(q2, j)>>
      BY <1>6
    <3> HIDE DEF old
    <3>2. /\ old(q1, i) \in DOMAIN chans[q1] /\ chans2[q1][i] = chans[q1][old(q1, i)]
          /\ old(q2, j) \in DOMAIN chans[q2] /\ chans2[q2][j] = chans[q2][old(q2, j)]
      BY <1>6
    <3>3. IsInjective(chans[q1][old(q1, i)])
      BY Zenon, <1>10, <3>2 DEF Apart
    <3>4. <<q1, old(q1, i)>> # <<q2, old(q2, j)>> =>
            ToSet(chans[q1][old(q1, i)]) \cap ToSet(chans[q2][old(q2, j)]) = {}
      BY Zenon, <1>10, <3>2 DEF Apart
    <3> QED BY <3>1, <3>2, <3>3, <3>4
  <2>3. ContentOf(chans2) \cap ToSet(b) = {}
    <3> SUFFICES ASSUME NEW r \in ContentOf(chans2), r \in ToSet(b) PROVE FALSE
      OBVIOUS
    <3>1. PICK q \in Priorities : \E i \in DOMAIN chans2[q] : r \in ToSet(chans2[q][i])
      BY ContentMember
    <3>2. PICK i \in DOMAIN chans2[q] : r \in ToSet(chans2[q][i])
      BY <3>1
    <3> HIDE DEF old
    <3>3. /\ old(q, i) \in DOMAIN chans[q] /\ r \in ToSet(chans[q][old(q, i)])
          /\ <<q, old(q, i)>> # <<p, 1>>
      BY <1>6, <3>2
    <3>4. 1 \in DOMAIN chans[p] /\ chans[p][1] = b
      BY <1>1, <1>5
    <3>5. ToSet(chans[q][old(q, i)]) \cap ToSet(chans[p][1]) = {}
      BY Zenon, <1>10, <3>3, <3>4 DEF Apart
    <3> QED BY <3>2, <3>3, <3>4, <3>5
  <2> QED BY <2>1, <2>2, <2>3
<1> QED BY <1>7, <1>8, <1>9, <1>10 DEF b

-----------------------------------------------------------------------------
(* Who owns a request.                                                     *)

LEMMA ContentIsInChannels == InChannels = ContentOf(batchChans)
  BY DEF InChannels, Waiting, ContentOf

\* what all workers but w hold
Elsewhere(w) == UNION {ToSet(work[v]) : v \in Workers \ {w}}

\* worker w holds the sequence s instead
LEMMA HandsChange ==
  ASSUME NEW w \in Workers, NEW s, work \in [Workers -> Seq(Requests)],
         work' = [work EXCEPT ![w] = s]
  PROVE  InHands = Elsewhere(w) \cup ToSet(work[w]) /\ InHands' = Elsewhere(w) \cup ToSet(s)
<1>1. work'[w] = s /\ \A v \in Workers \ {w} : work'[v] = work[v]
  OBVIOUS
<1>2. InHands = Elsewhere(w) \cup ToSet(work[w])
  BY DEF InHands, Elsewhere
<1>3. InHands' = UNION {ToSet(work'[v]) : v \in Workers}
  BY DEF InHands
<1>4. \A r : r \in InHands' => r \in Elsewhere(w) \cup ToSet(s)
  <2> SUFFICES ASSUME NEW r, r \in InHands' PROVE r \in Elsewhere(w) \cup ToSet(s)
    OBVIOUS
  <2>1. PICK v \in Workers : r \in ToSet(work'[v])
    BY <1>3
  <2>2. CASE v = w
    BY <1>1, <2>1, <2>2
  <2>3. CASE v # w
    <3>1. r \in ToSet(work[v])
      BY <1>1, <2>1, <2>3
    <3> QED BY <2>3, <3>1 DEF Elsewhere
  <2> QED BY <2>2, <2>3
<1>5. \A r : r \in Elsewhere(w) \cup ToSet(s) => r \in InHands'
  <2> SUFFICES ASSUME NEW r, r \in Elsewhere(w) \cup ToSet(s) PROVE r \in InHands'
    OBVIOUS
  <2>1. CASE r \in ToSet(s)
    <3>1. r \in ToSet(work'[w])
      BY <1>1, <2>1
    <3> QED BY <1>3, <3>1
  <2>2. CASE r \in Elsewhere(w)
    <3>1. PICK v \in Workers \ {w} : r \in ToSet(work[v])
      BY <2>2 DEF Elsewhere
    <3>2. r \in ToSet(work'[v])
      BY <1>1, <3>1
    <3> QED BY <1>3, <3>1, <3>2
  <2> QED BY <2>1, <2>2
<1> QED BY <1>2, <1>4, <1>5

\* worker w puts down a part of its batch
LEMMA PutDownOwned ==
  ASSUME TypeInv, NEW w \in Workers, NEW s, work' = [work EXCEPT ![w] = s],
         ToSet(s) \subseteq ToSet(work[w]), UNCHANGED <<queued, batchChans>>
  PROVE  /\ Owned' \subseteq Owned
         /\ Owned \subseteq Owned' \cup (ToSet(work[w]) \ ToSet(s))
<1>1. work \in [Workers -> Seq(Requests)]
  BY DEF TypeInv, TypeOK
<1>2. InHands = Elsewhere(w) \cup ToSet(work[w]) /\ InHands' = Elsewhere(w) \cup ToSet(s)
  BY <1>1, HandsChange
<1>3. InChannels' = InChannels
  BY DEF InChannels, Waiting
<1>4. Owned = queued \cup InChannels \cup InHands /\ Owned' = queued \cup InChannels \cup InHands'
  BY <1>3 DEF Owned
<1> QED BY <1>2, <1>4

\* worker w takes the batch at the front of channel p
LEMMA TakeOwned ==
  ASSUME TypeInv, NEW w \in Workers, NEW p \in Priorities, SelectReceive(w, p)
  PROVE  /\ batchChans \in [Priorities -> Seq(Seq(Requests))] /\ batchChans[p] # <<>>
         /\ batchChans' = [batchChans EXCEPT ![p] = Tail(@)]
         /\ work \in [Workers -> Seq(Requests)] /\ work[w] = <<>>
         /\ work' = [work EXCEPT ![w] = Head(batchChans[p])]
         /\ UNCHANGED <<queued, results, handler, ctxDone>>
         /\ InHands' = InHands \cup ToSet(Head(batchChans[p]))
         /\ InChannels = InChannels' \cup ToSet(Head(batchChans[p]))
         /\ Owned' = Owned
<1> DEFINE b == Head(batchChans[p])
<1>1. /\ batchChans \in [Priorities -> Seq(Seq(Requests))] /\ batchChans[p] # <<>>
      /\ batchChans' = [batchChans EXCEPT ![p] = Tail(@)]
      /\ work \in [Workers -> Seq(Requests)] /\ work[w] = <<>>
      /\ work' = [work EXCEPT ![w] = b]
      /\ UNCHANGED <<queued, results, handler, ctxDone>>
  BY DEF SelectReceive, WorkerStep, TypeInv, TypeOK, Busy, handlerVars, batcherVars
<1>2. ToSet(work[w]) = {}
  BY <1>1 DEF ToSet
<1>3. InHands = Elsewhere(w) \cup ToSet(work[w]) /\ InHands' = Elsewhere(w) \cup ToSet(b)
  <2> HIDE DEF b
  <2> QED BY <1>1, HandsChange
<1>4. ContentOf(batchChans) = ContentOf(batchChans') \cup ToSet(b)
  <2>1. \A chans2 : chans2 = [batchChans EXCEPT ![p] = Tail(@)] =>
          ContentOf(batchChans) = ContentOf(chans2) \cup ToSet(b)
    BY <1>1, ChannelReceive, Zenon
  <2> QED BY <1>1, <2>1
<1>5. InChannels = ContentOf(batchChans) /\ InChannels' = ContentOf(batchChans')
  BY DEF InChannels, Waiting, ContentOf
<1> HIDE DEF b
<1>6. InHands' = InHands \cup ToSet(b) /\ InChannels = InChannels' \cup ToSet(b)
  BY <1>2, <1>3, <1>4, <1>5
<1>7. Owned = queued \cup InChannels \cup InHands /\ Owned' = queued \cup InChannels' \cup InHands'
  BY <1>1 DEF Owned
<1>8. Owned' = Owned
  BY <1>6, <1>7
<1> QED BY <1>1, <1>6, <1>8 DEF b

\* the batcher forms a batch of queued requests
LEMMA FormOwned ==
  ASSUME TypeInv, FormAny
  PROVE  \E batch \in Seq(Requests), p \in Priorities :
           /\ ToSet(batch) \subseteq queued /\ IsInjective(batch)
           /\ batchChans \in [Priorities -> Seq(Seq(Requests))]
           /\ batchChans' = [batchChans EXCEPT ![p] = Append(@, batch)]
           /\ queued' = queued \ ToSet(batch)
           /\ InChannels' = InChannels \cup ToSet(batch)
           /\ InHands' = InHands
           /\ Owned' = Owned
           /\ UNCHANGED <<work, results, handler, ctxDone>>
<1>1. PICK S \in (SUBSET queued) \ {{}} : \E batch \in SetToSeqs(S) : Form(batch)
  BY DEF FormAny
<1>2. PICK batch \in SetToSeqs(S) : Form(batch)
  BY <1>1
<1>3. S \in SUBSET Requests /\ S # {} /\ S \subseteq queued
  BY DEF TypeInv, TypeOK
<1>4. /\ batch \in Seq(Requests) /\ batch # <<>>
      /\ ToSet(batch) \subseteq queued /\ IsInjective(batch)
  BY <1>3, SetToSeqsType
<1> DEFINE p == PriorityOf[Head(batch)]
<1>5. p \in Priorities
  BY <1>4, WorkerPoolAssumption
<1>6. /\ batchChans \in [Priorities -> Seq(Seq(Requests))]
      /\ batchChans' = [batchChans EXCEPT ![p] = Append(@, batch)]
      /\ queued' = queued \ ToSet(batch)
      /\ UNCHANGED <<work, results, handler, ctxDone>>
  BY <1>2 DEF Form, TypeInv, TypeOK, handlerVars
<1> HIDE DEF p
<1>7. ContentOf(batchChans') = ContentOf(batchChans) \cup ToSet(batch)
  BY <1>4, <1>5, <1>6, ChannelSend
<1>8. InChannels = ContentOf(batchChans) /\ InChannels' = ContentOf(batchChans')
  BY DEF InChannels, Waiting, ContentOf
<1>9. InHands' = InHands
  BY <1>6 DEF InHands
<1>10. InChannels' = InChannels \cup ToSet(batch)
  BY <1>7, <1>8
<1>11. Owned = queued \cup InChannels \cup InHands /\ Owned' = queued' \cup InChannels' \cup InHands'
  BY DEF Owned
<1>12. Owned' = Owned
  BY <1>4, <1>6, <1>9, <1>10, <1>11
<1> QED BY <1>4, <1>5, <1>6, <1>9, <1>10, <1>12

-----------------------------------------------------------------------------
(* Nobody is forgotten.                                                    *)

\* a request that is given up gets something to receive, or has no reader
LEMMA StillRemembered ==
  ASSUME NobodyForgotten, UNCHANGED <<handler, ctxDone>>,
         \A r \in Requests : results[r] # "empty" => results'[r] # "empty",
         \A r \in Requests : r \in Owned /\ r \notin Owned' => results'[r] # "empty" \/ ctxDone[r]
  PROVE  NobodyForgotten'
<1> SUFFICES ASSUME NEW r \in Requests, handler'[r] = "waiting", ~ctxDone'[r]
             PROVE  results'[r] # "empty" \/ r \in Owned'
  BY Zenon DEF NobodyForgotten
<1>1. handler[r] = "waiting" /\ ~ctxDone[r]
  OBVIOUS
<1>2. results[r] # "empty" \/ r \in Owned
  BY <1>1 DEF NobodyForgotten
<1> QED BY <1>1, <1>2

\* what Send leaves in the ResultChans
LEMMA SendFills ==
  ASSUME results \in [Requests -> Results], NEW S, NEW value, value # "empty", Send(S, value)
  PROVE  \A r \in Requests :
           /\ results[r] # "empty" => results'[r] # "empty"
           /\ r \in S => results'[r] # "empty"
           /\ r \notin S => results'[r] = results[r]
  BY DEF Send

LEMMA HandlerRemembers ==
  ASSUME TypeInv, NobodyForgotten, NEW r \in Requests, Arrive(r) \/ Handle(r) \/ CtxDone(r)
  PROVE  NobodyForgotten'
<1> USE DEF HandlerStep, Reply, handlerVars, batcherVars, workerVars, pingVars, envVars
<1>1. /\ handler \in [Requests -> HandlerStates] /\ ctxDone \in [Requests -> BOOLEAN]
      /\ results \in [Requests -> Results]
  BY DEF TypeInv, TypeOK
<1>2. UNCHANGED <<batchChans, work>>
  BY DEF Arrive, Handle, CtxDone, CheckUnhealthy, CheckHealthy, ScanOpen, ScanUsable,
         ScanAllOpen, Submit, SubmitRejected, Result, TimedOut
<1>3. InChannels' = InChannels /\ InHands' = InHands
  BY <1>2 DEF InChannels, Waiting, InHands
<1>4. queued \subseteq queued' => Owned \subseteq Owned'
  BY <1>3 DEF Owned
\* only the slot of r moves, and it does not wait without being queued
<1>5. ASSUME \A s \in Requests \ {r} :
               handler'[s] = handler[s] /\ ctxDone'[s] = ctxDone[s] /\ results'[s] = results[s],
             queued \subseteq queued',
             \/ handler'[r] # "waiting"
             \/ ctxDone'[r]
             \/ r \in queued'
      PROVE  NobodyForgotten'
  <2> SUFFICES ASSUME NEW s \in Requests, handler'[s] = "waiting", ~ctxDone'[s]
               PROVE  results'[s] # "empty" \/ s \in Owned'
    BY Zenon DEF NobodyForgotten
  <2>1. CASE s = r
    BY <1>5, <2>1 DEF Owned
  <2>2. CASE s # r
    <3>1. handler[s] = "waiting" /\ ~ctxDone[s] /\ results'[s] = results[s]
      BY <1>5, <2>2
    <3>2. results[s] # "empty" \/ s \in Owned
      BY <3>1 DEF NobodyForgotten
    <3> QED BY <1>4, <1>5, <3>1, <3>2
  <2> QED BY <2>1, <2>2
<1>6. CASE Arrive(r)
  BY <1>1, <1>5, <1>6 DEF Arrive
<1>7. CASE CtxDone(r)
  BY <1>1, <1>5, <1>7 DEF CtxDone
<1>8. CASE CheckUnhealthy(r) \/ CheckHealthy(r) \/ ScanAllOpen(r) \/ SubmitRejected(r)
  BY <1>1, <1>5, <1>8 DEF CheckUnhealthy, CheckHealthy, ScanAllOpen, SubmitRejected
<1>9. ASSUME NEW w \in Workers, ScanOpen(r, w) \/ ScanUsable(r, w) PROVE NobodyForgotten'
  BY <1>1, <1>5, <1>9 DEF ScanOpen, ScanUsable
<1>10. CASE Submit(r)
  BY <1>1, <1>5, <1>10 DEF Submit
<1>11. CASE Result(r) \/ TimedOut(r)
  BY <1>1, <1>5, <1>11 DEF Result, TimedOut
<1> QED BY <1>6, <1>7, <1>8, <1>9, <1>10, <1>11 DEF Handle

LEMMA BatcherRemembers ==
  ASSUME TypeInv, NobodyForgotten,
         FormAny \/ BatcherStop \/ \E p \in Priorities : CloseBatchChan(p)
  PROVE  NobodyForgotten'
<1> USE DEF handlerVars, workerVars
<1>1. CASE FormAny
  <2>1. Owned' = Owned /\ UNCHANGED <<results, handler, ctxDone>>
    BY <1>1, FormOwned
  <2> QED BY <2>1, StillRemembered
<1>2. CASE BatcherStop
  <2>1. PICK S \in SUBSET queued : Send(S, "ErrShuttingDown") /\ queued' = queued \ S
    BY <1>2 DEF BatcherStop
  <2>2. UNCHANGED <<handler, ctxDone, batchChans, work>>
    BY <1>2 DEF BatcherStop
  <2>3. InChannels' = InChannels /\ InHands' = InHands
    BY <2>2 DEF InChannels, Waiting, InHands
  <2>4. \A r \in Requests : /\ results[r] # "empty" => results'[r] # "empty"
                            /\ r \in S => results'[r] # "empty"
    <3>1. results \in [Requests -> Results]
      BY DEF TypeInv, TypeOK
    <3> QED BY <2>1, <3>1, SendFills
  <2>5. \A r \in Requests : r \in Owned /\ r \notin Owned' => r \in S
    BY <2>1, <2>3 DEF Owned
  <2> QED BY <2>2, <2>4, <2>5, StillRemembered
<1>3. ASSUME NEW p \in Priorities, CloseBatchChan(p) PROVE NobodyForgotten'
  BY <1>3 DEF CloseBatchChan, NobodyForgotten, Owned, InChannels, Waiting, InHands
<1> QED BY <1>1, <1>2, <1>3

LEMMA WorkerRemembers ==
  ASSUME TypeInv, NobodyForgotten, NEW w \in Workers, Run(w)
  PROVE  NobodyForgotten'
<1>1. /\ results \in [Requests -> Results] /\ work \in [Workers -> Seq(Requests)]
      /\ Gone(w) \subseteq ToSet(work[w]) /\ \A r \in Gone(w) : ctxDone[r]
  BY DEF TypeInv, TypeOK, Gone
<1>2. UNCHANGED <<handler, ctxDone, queued>>
  BY DEF Run, SelectReceive, SelectDefault, SelectExit, Process, RefuseUnhealthy, PassHealthy,
         RefuseOpen, PassCircuit, FilterNone, FilterSome, PostFail, FanOutError, PostOk,
         FanOutResults, ProcessEnd, ProcessStep, WorkerStep, handlerVars, batcherVars
<1>3. ASSUME UNCHANGED <<batchChans, work, results>> PROVE NobodyForgotten'
  BY <1>2, <1>3 DEF NobodyForgotten, Owned, InChannels, Waiting, InHands
\* the worker puts down requests: all of them have an answer now, or are gone
<1>4. ASSUME NEW s, work' = [work EXCEPT ![w] = s], UNCHANGED batchChans,
             ToSet(s) \subseteq ToSet(work[w]),
             \A r \in Requests : results[r] # "empty" => results'[r] # "empty",
             \A r \in Requests : r \in ToSet(work[w]) /\ r \notin ToSet(s) =>
               results'[r] # "empty" \/ ctxDone[r]
      PROVE  NobodyForgotten'
  <2>1. Owned \subseteq Owned' \cup (ToSet(work[w]) \ ToSet(s))
    BY <1>2, <1>4, PutDownOwned
  <2> QED BY <1>2, <1>4, <2>1, StillRemembered
<1>5. ASSUME NEW from, ProcessEnd(w, from),
             \A r \in Requests : results[r] # "empty" => results'[r] # "empty",
             \A r \in Requests : r \in ToSet(work[w]) => results'[r] # "empty" \/ ctxDone[r]
      PROVE  NobodyForgotten'
  <2>1. work' = [work EXCEPT ![w] = <<>>] /\ UNCHANGED batchChans
    BY <1>5 DEF ProcessEnd
  <2>2. ToSet(<<>>) = {}
    BY DEF ToSet
  <2> QED BY <1>4, <1>5, <2>1, <2>2, Zenon
<1>6. CASE \E p \in Priorities : SelectReceive(w, p)
  <2>1. PICK p \in Priorities : SelectReceive(w, p)
    BY <1>6
  <2>2. Owned' = Owned /\ UNCHANGED <<results, handler, ctxDone>>
    BY <2>1, TakeOwned
  <2> QED BY <2>2, StillRemembered
<1>7. CASE SelectDefault(w) \/ SelectExit(w) \/ PassHealthy(w) \/ PassCircuit(w)
           \/ PostFail(w) \/ PostOk(w)
  BY <1>3, <1>7 DEF SelectDefault, SelectExit, PassHealthy, PassCircuit, PostFail, PostOk, ProcessStep
<1>8. CASE RefuseUnhealthy(w)
  <2>1. ProcessEnd(w, "received") /\ Send(ToSet(work[w]), "ErrWorkerUnavailable")
    BY <1>8 DEF RefuseUnhealthy
  <2> QED BY <1>1, <1>5, <2>1, SendFills
<1>9. CASE RefuseOpen(w)
  <2>1. ProcessEnd(w, "permit") /\ Send(ToSet(work[w]), "ErrWorkerUnavailable")
    BY <1>9 DEF RefuseOpen
  <2> QED BY <1>1, <1>5, <2>1, SendFills
<1>10. CASE FilterNone(w)
  <2>1. Kept(w) = {} /\ ProcessEnd(w, "filter") /\ Send(Gone(w), "cancelled")
    BY <1>10 DEF FilterNone
  <2>2. ToSet(work[w]) \subseteq Gone(w)
    BY <2>1 DEF Kept, Gone, ToSet
  <2> QED BY <1>1, <1>5, <2>1, <2>2, SendFills
<1>11. CASE FilterSome(w)
  <2>1. ProcessStep(w, "filter", "post") /\ Send(Gone(w), "cancelled")
    BY <1>11 DEF FilterSome
  <2>2. PICK live \in Scrubbed(w) : work' = [work EXCEPT ![w] = live]
    BY <1>11 DEF FilterSome
  <2>3. ToSet(live) = ToSet(work[w]) \ Gone(w)
    BY <1>1, ScrubbedType
  <2>4. UNCHANGED batchChans
    BY <2>1 DEF ProcessStep
  <2>5. \A r \in Requests : /\ results[r] # "empty" => results'[r] # "empty"
                            /\ r \in Gone(w) => results'[r] # "empty"
    BY <1>1, <2>1, SendFills
  <2> QED BY <1>4, <2>2, <2>3, <2>4, <2>5
<1>12. CASE FanOutError(w)
  <2>1. ProcessEnd(w, "fanError") /\ Send(ToSet(work[w]), "ErrWorkerUnavailable")
    BY <1>12 DEF FanOutError
  <2> QED BY <1>1, <1>5, <2>1, SendFills
<1>13. ASSUME NEW n \in 0..MaxBatchSize, FanOutResults(w, n) PROVE NobodyForgotten'
  <2>1. ProcessEnd(w, "fanOut")
    BY <1>13 DEF FanOutResults
  <2>2. \A r \in Requests :
          /\ results[r] # "empty" => results'[r] # "empty"
          /\ r \in ToSet(work[w]) \ Gone(w) => results'[r] # "empty"
    BY <1>1, <1>13 DEF FanOutResults
  <2> QED BY <1>1, <1>5, <2>1, <2>2
<1> QED BY <1>6, <1>7, <1>8, <1>9, <1>10, <1>11, <1>12, <1>13 DEF Run, Process

LEMMA SurroundingsRemember ==
  ASSUME NobodyForgotten,
         \/ \E w \in Workers : Recover(w)
         \/ PingLoop \/ \E how \in {"up", "down", "hung"} : UpstreamBecomes(how)
         \/ Shutdown \/ UNCHANGED vars
  PROVE  NobodyForgotten'
<1>1. UNCHANGED <<handlerVars, results, batcherVars, batchChans, work>>
  BY DEF Recover, PingLoop, PingSend, PingSwallowed, PingOk, PingFail, PingReturn, PingStep, UpstreamBecomes,
         Shutdown, vars, workerVars
<1> QED BY <1>1 DEF NobodyForgotten, Owned, InChannels, Waiting, InHands, handlerVars, batcherVars

(* While a client waits and has not given up, its answer is in its         *)
(* ResultChan or somebody holds its request: none of the ways out of       *)
(* process (proxy.go:117-170), of the scrubbing before the post and after  *)
(* it, and of the end of the batcher, loses a request.                     *)
THEOREM NobodyIsForgotten == Spec => []NobodyForgotten
<1>1. Init => NobodyForgotten
  BY DEF Init, NobodyForgotten
<1>2. TypeInv /\ NobodyForgotten /\ [Next]_vars => NobodyForgotten'
  BY HandlerRemembers, BatcherRemembers, WorkerRemembers, SurroundingsRemember
     DEF Next, Serve, Terminated
<1> QED BY <1>1, <1>2, TypeInit, TypeStep, PTL DEF Spec

-----------------------------------------------------------------------------
(* One owner.                                                              *)

\* nobody owns or has answered a request that has yet to be submitted
Fresh ==
  \A r \in Requests :
    handler[r] \in {"check", "scan", "submit"} => r \notin Owned /\ results[r] = "empty"

OwnerInv == TypeInv /\ OneOwner /\ Fresh

LEMMA OwnedType == TypeInv => Owned \subseteq Requests
<1> SUFFICES ASSUME TypeInv PROVE Owned \subseteq Requests
  OBVIOUS
<1>1. queued \subseteq Requests /\ work \in [Workers -> Seq(Requests)]
      /\ batchChans \in [Priorities -> Seq(Seq(Requests))]
  BY DEF TypeInv, TypeOK
<1> QED BY <1>1 DEF Owned, InHands, InChannels, Waiting, ToSet

\* OneOwner over the contents of the channels
LEMMA OneOwnerIs ==
  OneOwner <=>
    /\ \A r \in Owned : results[r] = "empty"
    /\ queued \cap (ContentOf(batchChans) \cup InHands) = {}
    /\ ContentOf(batchChans) \cap InHands = {}
    /\ \A v, w \in Workers : v # w => ToSet(work[v]) \cap ToSet(work[w]) = {}
    /\ \A w \in Workers : IsInjective(work[w])
    /\ Apart(batchChans)
  BY ContentIsInChannels, Zenon DEF OneOwner, Apart

\* channels and hands stay as they are
LEMMA PlacesKept ==
  ASSUME OneOwner, UNCHANGED <<batchChans, work>>,
         \A r \in Owned' : results'[r] = "empty",
         queued' \cap (InChannels' \cup InHands') = {}
  PROVE  OneOwner'
<1>1. InChannels' = InChannels /\ InHands' = InHands
  BY DEF InChannels, Waiting, InHands
<1>2. InChannels' \cap InHands' = {}
  BY <1>1 DEF OneOwner
<1>3. /\ \A v, w \in Workers : v # w => ToSet(work'[v]) \cap ToSet(work'[w]) = {}
      /\ \A w \in Workers : IsInjective(work'[w])
  BY OneOwnerIs
<1>4. Apart(batchChans')
  BY OneOwnerIs
<1> QED BY Zenon, <1>2, <1>3, <1>4 DEF OneOwner, Apart

LEMMA OwnerUnmoved ==
  ASSUME OneOwner, UNCHANGED <<queued, results, batchChans, work>>
  PROVE  OneOwner'
<1>1. Owned' = Owned /\ InChannels' = InChannels /\ InHands' = InHands
  BY DEF Owned, InChannels, Waiting, InHands
<1>2. /\ \A r \in Owned : results[r] = "empty"
      /\ queued \cap (InChannels \cup InHands) = {}
  BY DEF OneOwner
<1> QED BY <1>1, <1>2, PlacesKept

\* what the workers hold stays apart when worker w holds s instead
LEMMA HandsApart ==
  ASSUME NEW w \in Workers, NEW s, work \in [Workers -> Seq(Requests)],
         work' = [work EXCEPT ![w] = s],
         \A u, v \in Workers : u # v => ToSet(work[u]) \cap ToSet(work[v]) = {},
         \A v \in Workers : IsInjective(work[v]),
         ToSet(s) \cap Elsewhere(w) = {}, IsInjective(s)
  PROVE  /\ \A u, v \in Workers : u # v => ToSet(work'[u]) \cap ToSet(work'[v]) = {}
         /\ \A v \in Workers : IsInjective(work'[v])
<1>1. work'[w] = s /\ \A v \in Workers : v # w => work'[v] = work[v]
  OBVIOUS
<1>2. \A v \in Workers : v # w => ToSet(work[v]) \subseteq Elsewhere(w)
  BY DEF Elsewhere
<1>3. \A v \in Workers : IsInjective(work'[v])
  BY <1>1
<1>4. ASSUME NEW u \in Workers, NEW v \in Workers, u # v
      PROVE  ToSet(work'[u]) \cap ToSet(work'[v]) = {}
  <2>1. CASE u = w
    <3>1. work'[u] = s /\ work'[v] = work[v] /\ ToSet(work[v]) \subseteq Elsewhere(w)
      BY <1>1, <1>2, <1>4, <2>1
    <3> QED BY <3>1
  <2>2. CASE v = w
    <3>1. work'[v] = s /\ work'[u] = work[u] /\ ToSet(work[u]) \subseteq Elsewhere(w)
      BY <1>1, <1>2, <1>4, <2>2
    <3> QED BY <3>1
  <2>3. CASE u # w /\ v # w
    BY <1>1, <1>4, <2>3
  <2> QED BY <2>1, <2>2, <2>3
<1> QED BY <1>3, <1>4

\* a worker's own batch is apart from everything else
LEMMA HandApart ==
  ASSUME OneOwner, NEW w \in Workers
  PROVE  ToSet(work[w]) \cap (queued \cup ContentOf(batchChans) \cup Elsewhere(w)) = {}
<1>1. ToSet(work[w]) \subseteq InHands
  BY DEF InHands
<1>2. ToSet(work[w]) \cap Elsewhere(w) = {}
  BY OneOwnerIs DEF Elsewhere
<1> QED BY <1>1, <1>2, OneOwnerIs

\* worker w puts down a part of its batch, answered or not
LEMMA PutDownOwner ==
  ASSUME OwnerInv, NEW w \in Workers, NEW s, work' = [work EXCEPT ![w] = s],
         ToSet(s) \subseteq ToSet(work[w]), IsInjective(s),
         UNCHANGED <<queued, batchChans, handler>>,
         \A r \in Requests : r \notin ToSet(work[w]) \ ToSet(s) => results'[r] = results[r]
  PROVE  OneOwner' /\ Fresh'
<1>1. work \in [Workers -> Seq(Requests)]
  BY DEF OwnerInv, TypeInv, TypeOK
<1>2. InHands = Elsewhere(w) \cup ToSet(work[w]) /\ InHands' = Elsewhere(w) \cup ToSet(s)
  BY <1>1, HandsChange
<1>3. InChannels' = InChannels /\ InChannels = ContentOf(batchChans)
  BY ContentIsInChannels DEF InChannels, Waiting
<1>4. Owned = queued \cup InChannels \cup InHands /\ Owned' = queued \cup InChannels \cup InHands'
  BY <1>3 DEF Owned
<1>5. ToSet(work[w]) \cap (queued \cup InChannels \cup Elsewhere(w)) = {}
  BY <1>3, HandApart DEF OwnerInv
<1>6. Owned' \subseteq Owned /\ Owned' \cap (ToSet(work[w]) \ ToSet(s)) = {}
  BY <1>2, <1>4, <1>5
<1>7. Owned \subseteq Requests
  BY OwnedType DEF OwnerInv
<1>8. \A r \in Owned' : results'[r] = "empty"
  <2>1. \A r \in Owned : results[r] = "empty"
    BY OneOwnerIs DEF OwnerInv
  <2> QED BY <1>6, <1>7, <2>1
<1>9. /\ queued' \cap (InChannels' \cup InHands') = {}
      /\ InChannels' \cap InHands' = {}
  BY <1>2, <1>3, OneOwnerIs DEF OwnerInv
<1>10. /\ \A u, v \in Workers : u # v => ToSet(work'[u]) \cap ToSet(work'[v]) = {}
       /\ \A v \in Workers : IsInjective(work'[v])
  <2>1. ToSet(s) \cap Elsewhere(w) = {}
    BY <1>5
  <2>2. /\ \A u, v \in Workers : u # v => ToSet(work[u]) \cap ToSet(work[v]) = {}
        /\ \A v \in Workers : IsInjective(work[v])
    BY OneOwnerIs DEF OwnerInv
  <2> QED BY <1>1, <2>1, <2>2, HandsApart
<1>11. Apart(batchChans')
  <2>1. Apart(batchChans)
    BY OneOwnerIs DEF OwnerInv
  <2> QED BY <2>1
<1>12. OneOwner'
  BY Zenon, <1>8, <1>9, <1>10, <1>11 DEF OneOwner, Apart
<1>13. Fresh'
  <2> SUFFICES ASSUME NEW r \in Requests, handler[r] \in {"check", "scan", "submit"}
               PROVE  r \notin Owned' /\ results'[r] = "empty"
    BY DEF Fresh
  <2>1. r \notin Owned /\ results[r] = "empty"
    BY DEF OwnerInv, Fresh
  <2>2. r \notin ToSet(work[w])
    BY <1>2, <1>4, <2>1
  <2> QED BY <1>6, <2>1, <2>2
<1> QED BY <1>12, <1>13

LEMMA HandlerOwner ==
  ASSUME OwnerInv, NEW r \in Requests, Arrive(r) \/ Handle(r) \/ CtxDone(r)
  PROVE  OneOwner' /\ Fresh'
<1> USE DEF HandlerStep, Reply, handlerVars, batcherVars, workerVars, pingVars, envVars
<1>1. handler \in [Requests -> HandlerStates] /\ results \in [Requests -> Results]
  BY DEF OwnerInv, TypeInv, TypeOK
<1>2. UNCHANGED <<batchChans, work>>
  BY DEF Arrive, Handle, CtxDone, CheckUnhealthy, CheckHealthy, ScanOpen, ScanUsable,
         ScanAllOpen, Submit, SubmitRejected, Result, TimedOut
<1>3. InChannels' = InChannels /\ InHands' = InHands
  BY <1>2 DEF InChannels, Waiting, InHands
\* nothing is handed over, and r is not fresh unless it has no answer
<1>4. ASSUME queued' = queued,
             \A s \in Requests : s # r => handler'[s] = handler[s],
             \A s \in Requests : results'[s] = results[s] \/ results'[s] = "empty",
             \/ handler'[r] \notin {"check", "scan", "submit"}
             \/ handler[r] \in {"check", "scan", "submit"}
             \/ r \notin Owned /\ results'[r] = "empty"
      PROVE  OneOwner' /\ Fresh'
  <2>1. Owned' = Owned
    BY <1>3, <1>4 DEF Owned
  <2>2. \A s \in Owned : s \in Requests => results'[s] = "empty"
    BY <1>4, OneOwnerIs DEF OwnerInv
  <2>3. Owned \subseteq Requests
    BY OwnedType DEF OwnerInv
  <2>4. OneOwner'
    <3>1. \A s \in Owned' : results'[s] = "empty"
      BY <2>1, <2>2, <2>3
    <3>2. queued' \cap (InChannels' \cup InHands') = {}
      BY <1>3, <1>4 DEF OneOwner, OwnerInv
    <3> QED BY <1>2, <3>1, <3>2, PlacesKept DEF OwnerInv
  <2>5. Fresh'
    <3> SUFFICES ASSUME NEW s \in Requests, handler'[s] \in {"check", "scan", "submit"}
                 PROVE  s \notin Owned /\ results'[s] = "empty"
      BY <2>1 DEF Fresh
    <3>1. CASE s # r
      BY <1>4, <3>1 DEF OwnerInv, Fresh
    <3>2. CASE s = r
      BY <1>4, <3>2 DEF OwnerInv, Fresh
    <3> QED BY <3>1, <3>2
  <2> QED BY <2>4, <2>5
<1>5. CASE Arrive(r)
  BY <1>1, <1>4, <1>5 DEF Arrive
<1>6. CASE CtxDone(r)
  BY <1>1, <1>4, <1>6 DEF CtxDone
<1>7. CASE CheckUnhealthy(r) \/ ScanAllOpen(r) \/ SubmitRejected(r)
  BY <1>1, <1>4, <1>7 DEF CheckUnhealthy, ScanAllOpen, SubmitRejected
<1>8. CASE CheckHealthy(r)
  BY <1>1, <1>4, <1>8 DEF CheckHealthy
<1>9. ASSUME NEW w \in Workers, ScanOpen(r, w) \/ ScanUsable(r, w) PROVE OneOwner' /\ Fresh'
  BY <1>1, <1>4, <1>9 DEF ScanOpen, ScanUsable
<1>10. CASE Submit(r)
  <2>1. /\ handler[r] = "submit" /\ handler' = [handler EXCEPT ![r] = "waiting"]
        /\ queued' = queued \cup {r} /\ results' = results
    BY <1>10 DEF Submit
  <2>2. r \notin Owned /\ results[r] = "empty"
    BY <2>1 DEF OwnerInv, Fresh
  <2>3. Owned' = Owned \cup {r} /\ r \notin InChannels /\ r \notin InHands
    BY <1>3, <2>1, <2>2 DEF Owned
  <2>4. \A s \in Owned' : results'[s] = "empty"
    BY <2>1, <2>2, <2>3 DEF OwnerInv, OneOwner
  <2>5. queued' \cap (InChannels' \cup InHands') = {}
    BY <1>3, <2>1, <2>3 DEF OwnerInv, OneOwner
  <2>6. OneOwner'
    BY <1>2, <2>4, <2>5, PlacesKept DEF OwnerInv
  <2>7. Fresh'
    <3> SUFFICES ASSUME NEW s \in Requests, handler'[s] \in {"check", "scan", "submit"}
                 PROVE  s \notin Owned' /\ results'[s] = "empty"
      BY DEF Fresh
    <3>1. s # r /\ handler[s] \in {"check", "scan", "submit"}
      BY <1>1, <2>1
    <3> QED BY <2>1, <2>3, <3>1 DEF OwnerInv, Fresh
  <2> QED BY <2>6, <2>7
<1>11. CASE Result(r) \/ TimedOut(r)
  BY <1>1, <1>4, <1>11 DEF Result, TimedOut
<1> QED BY <1>5, <1>6, <1>7, <1>8, <1>9, <1>10, <1>11 DEF Handle

LEMMA BatcherOwner ==
  ASSUME OwnerInv, FormAny \/ BatcherStop \/ \E p \in Priorities : CloseBatchChan(p)
  PROVE  OneOwner' /\ Fresh'
<1> USE DEF handlerVars, workerVars
<1>1. CASE FormAny
  <2>1. PICK batch \in Seq(Requests), p \in Priorities :
           /\ ToSet(batch) \subseteq queued /\ IsInjective(batch)
           /\ batchChans \in [Priorities -> Seq(Seq(Requests))]
           /\ batchChans' = [batchChans EXCEPT ![p] = Append(@, batch)]
           /\ queued' = queued \ ToSet(batch)
           /\ InChannels' = InChannels \cup ToSet(batch)
           /\ InHands' = InHands
           /\ Owned' = Owned
           /\ UNCHANGED <<work, results, handler, ctxDone>>
    BY <1>1, FormOwned DEF OwnerInv
  <2>2. /\ queued \cap (InChannels \cup InHands) = {} /\ InChannels \cap InHands = {}
        /\ \A r \in Owned : results[r] = "empty"
    BY DEF OwnerInv, OneOwner
  <2>3. ToSet(batch) \cap ContentOf(batchChans) = {}
    BY <2>1, <2>2, ContentIsInChannels
  <2>4. Apart(batchChans')
    <3>1. Apart(batchChans)
      BY OneOwnerIs DEF OwnerInv
    <3>2. \A chans2 : chans2 = [batchChans EXCEPT ![p] = Append(@, batch)] => Apart(chans2)
      BY <2>1, <2>3, <3>1, ChannelSend, Zenon
    <3> QED BY <2>1, <3>2
  <2>5. queued' \cap (InChannels' \cup InHands') = {} /\ InChannels' \cap InHands' = {}
    BY <2>1, <2>2
  <2>6. \A r \in Owned' : results'[r] = "empty"
    BY <2>1, <2>2
  <2>7. /\ \A v, w \in Workers : v # w => ToSet(work'[v]) \cap ToSet(work'[w]) = {}
        /\ \A w \in Workers : IsInjective(work'[w])
    BY <2>1, OneOwnerIs DEF OwnerInv
  <2>8. OneOwner'
    BY Zenon, <2>4, <2>5, <2>6, <2>7 DEF OneOwner, Apart
  <2> QED BY <2>1, <2>8 DEF Fresh, OwnerInv
<1>2. CASE BatcherStop
  <2>1. PICK S \in SUBSET queued : Send(S, "ErrShuttingDown") /\ queued' = queued \ S
    BY <1>2 DEF BatcherStop
  <2>2. UNCHANGED <<handler, batchChans, work>>
    BY <1>2 DEF BatcherStop
  <2>3. InChannels' = InChannels /\ InHands' = InHands
    BY <2>2 DEF InChannels, Waiting, InHands
  <2>4. queued \cap (InChannels \cup InHands) = {}
    BY DEF OwnerInv, OneOwner
  <2>5. Owned' = Owned \ S
    BY <2>1, <2>3, <2>4 DEF Owned
  <2>6. \A r \in Requests : r \notin S => results'[r] = results[r]
    <3>1. results \in [Requests -> Results]
      BY DEF OwnerInv, TypeInv, TypeOK
    <3> QED BY <2>1, <3>1, SendFills
  <2>7. Owned \subseteq Requests
    BY OwnedType DEF OwnerInv
  <2>8. \A r \in Owned' : results'[r] = "empty"
    BY <2>5, <2>6, <2>7 DEF OwnerInv, OneOwner
  <2>9. queued' \cap (InChannels' \cup InHands') = {}
    BY <2>1, <2>3, <2>4
  <2>10. OneOwner'
    BY <2>2, <2>8, <2>9, PlacesKept DEF OwnerInv
  <2>11. Fresh'
    BY <2>1, <2>2, <2>5, <2>6 DEF Fresh, OwnerInv, Owned
  <2> QED BY <2>10, <2>11
<1>3. ASSUME NEW p \in Priorities, CloseBatchChan(p) PROVE OneOwner' /\ Fresh'
  <2>1. UNCHANGED <<handler, results, queued, batchChans, work>>
    BY <1>3 DEF CloseBatchChan
  <2>2. Owned' = Owned /\ InChannels' = InChannels /\ InHands' = InHands
    BY <2>1 DEF Owned, InChannels, Waiting, InHands
  <2>3. OneOwner'
    BY <2>1, <2>2, OwnerUnmoved DEF OwnerInv
  <2> QED BY <2>1, <2>2, <2>3 DEF Fresh, OwnerInv
<1> QED BY <1>1, <1>2, <1>3

LEMMA WorkerOwner ==
  ASSUME OwnerInv, NEW w \in Workers, Run(w)
  PROVE  OneOwner' /\ Fresh'
<1>1. /\ results \in [Requests -> Results] /\ work \in [Workers -> Seq(Requests)]
      /\ Gone(w) \subseteq ToSet(work[w]) /\ IsInjective(work[w]) /\ TypeInv
  BY DEF OwnerInv, TypeInv, TypeOK, Gone, OneOwner
<1>2. UNCHANGED <<handler, queued>>
  BY DEF Run, SelectReceive, SelectDefault, SelectExit, Process, RefuseUnhealthy, PassHealthy,
         RefuseOpen, PassCircuit, FilterNone, FilterSome, PostFail, FanOutError, PostOk,
         FanOutResults, ProcessEnd, ProcessStep, WorkerStep, handlerVars, batcherVars
<1>3. ASSUME UNCHANGED <<batchChans, work, results>> PROVE OneOwner' /\ Fresh'
  <2>1. Owned' = Owned /\ InChannels' = InChannels /\ InHands' = InHands
    BY <1>2, <1>3 DEF Owned, InChannels, Waiting, InHands
  <2>2. OneOwner'
    BY <1>2, <1>3, OwnerUnmoved DEF OwnerInv
  <2> QED BY <1>2, <1>3, <2>1, <2>2 DEF Fresh, OwnerInv
\* process returns, having answered or dropped its batch
<1>4. ASSUME NEW from, ProcessEnd(w, from),
             \A r \in Requests : r \notin ToSet(work[w]) => results'[r] = results[r]
      PROVE  OneOwner' /\ Fresh'
  <2>1. work' = [work EXCEPT ![w] = <<>>] /\ UNCHANGED batchChans
    BY <1>4 DEF ProcessEnd
  <2>2. ToSet(<<>>) = {} /\ IsInjective(<<>>)
    BY DEF ToSet, IsInjective
  <2>3. \A r \in Requests : r \notin ToSet(work[w]) \ ToSet(<<>>) => results'[r] = results[r]
    BY <1>4, <2>2
  <2> QED BY <1>2, <2>1, <2>2, <2>3, PutDownOwner
<1>5. CASE \E p \in Priorities : SelectReceive(w, p)
  <2>1. PICK p \in Priorities : SelectReceive(w, p)
    BY <1>5
  <2> DEFINE b == Head(batchChans[p])
  <2>2. /\ batchChans \in [Priorities -> Seq(Seq(Requests))] /\ batchChans[p] # <<>>
        /\ batchChans' = [batchChans EXCEPT ![p] = Tail(@)]
        /\ work[w] = <<>> /\ work' = [work EXCEPT ![w] = b]
        /\ UNCHANGED <<queued, results, handler>>
        /\ InHands' = InHands \cup ToSet(b)
        /\ InChannels = InChannels' \cup ToSet(b)
        /\ Owned' = Owned
    BY <1>1, <2>1, TakeOwned
  <2>3. Apart(batchChans') /\ IsInjective(b) /\ InChannels' \cap ToSet(b) = {}
    <3>1. Apart(batchChans)
      BY OneOwnerIs DEF OwnerInv
    <3>2. \A chans2 : chans2 = [batchChans EXCEPT ![p] = Tail(@)] =>
            Apart(chans2) /\ IsInjective(b) /\ ContentOf(chans2) \cap ToSet(b) = {}
      BY <2>2, <3>1, ChannelReceive, Zenon
    <3>3. InChannels' = ContentOf(batchChans')
      BY DEF InChannels, Waiting, ContentOf
    <3> QED BY <2>2, <3>2, <3>3
  <2> HIDE DEF b
  <2>4. /\ queued \cap (InChannels \cup InHands) = {} /\ InChannels \cap InHands = {}
        /\ \A r \in Owned : results[r] = "empty"
    BY DEF OwnerInv, OneOwner
  <2>5. /\ queued' \cap (InChannels' \cup InHands') = {} /\ InChannels' \cap InHands' = {}
        /\ \A r \in Owned' : results'[r] = "empty"
    BY <2>2, <2>3, <2>4
  <2>6. Elsewhere(w) \subseteq InHands
    BY DEF Elsewhere, InHands
  <2>7. ToSet(b) \cap Elsewhere(w) = {}
    BY <2>2, <2>4, <2>6
  <2>8. /\ \A u, v \in Workers : u # v => ToSet(work[u]) \cap ToSet(work[v]) = {}
        /\ \A v \in Workers : IsInjective(work[v])
    BY OneOwnerIs DEF OwnerInv
  <2>9. /\ \A u, v \in Workers : u # v => ToSet(work'[u]) \cap ToSet(work'[v]) = {}
        /\ \A v \in Workers : IsInjective(work'[v])
    BY <1>1, <2>2, <2>3, <2>7, <2>8, HandsApart
  <2>10. OneOwner'
    BY Zenon, <2>3, <2>5, <2>9 DEF OneOwner, Apart
  <2> QED BY <2>2, <2>10 DEF Fresh, OwnerInv
<1>6. CASE SelectDefault(w) \/ SelectExit(w) \/ PassHealthy(w) \/ PassCircuit(w)
           \/ PostFail(w) \/ PostOk(w)
  BY <1>3, <1>6 DEF SelectDefault, SelectExit, PassHealthy, PassCircuit, PostFail, PostOk, ProcessStep
<1>7. CASE RefuseUnhealthy(w)
  <2>1. ProcessEnd(w, "received") /\ Send(ToSet(work[w]), "ErrWorkerUnavailable")
    BY <1>7 DEF RefuseUnhealthy
  <2> QED BY <1>1, <1>4, <2>1, SendFills
<1>8. CASE RefuseOpen(w)
  <2>1. ProcessEnd(w, "permit") /\ Send(ToSet(work[w]), "ErrWorkerUnavailable")
    BY <1>8 DEF RefuseOpen
  <2> QED BY <1>1, <1>4, <2>1, SendFills
<1>9. CASE FilterNone(w)
  <2>1. ProcessEnd(w, "filter") /\ Send(Gone(w), "cancelled")
    BY <1>9 DEF FilterNone
  <2>2. \A r \in Requests : r \notin Gone(w) => results'[r] = results[r]
    BY <1>1, <2>1, SendFills
  <2> QED BY <1>1, <1>4, <2>1, <2>2
<1>10. CASE FilterSome(w)
  <2>1. ProcessStep(w, "filter", "post") /\ Send(Gone(w), "cancelled")
    BY <1>10 DEF FilterSome
  <2>2. PICK live \in Scrubbed(w) : work' = [work EXCEPT ![w] = live]
    BY <1>10 DEF FilterSome
  <2>3. ToSet(live) = ToSet(work[w]) \ Gone(w) /\ IsInjective(live)
    BY <1>1, ScrubbedType
  <2>4. UNCHANGED batchChans
    BY <2>1 DEF ProcessStep
  <2>5. \A r \in Requests : r \notin Gone(w) => results'[r] = results[r]
    BY <1>1, <2>1, SendFills
  <2>6. \A r \in Requests : r \notin ToSet(work[w]) \ ToSet(live) => results'[r] = results[r]
    BY <1>1, <2>3, <2>5
  <2> QED BY <1>2, <2>2, <2>3, <2>4, <2>6, PutDownOwner
<1>11. CASE FanOutError(w)
  <2>1. ProcessEnd(w, "fanError") /\ Send(ToSet(work[w]), "ErrWorkerUnavailable")
    BY <1>11 DEF FanOutError
  <2> QED BY <1>1, <1>4, <2>1, SendFills
<1>12. ASSUME NEW n \in 0..MaxBatchSize, FanOutResults(w, n) PROVE OneOwner' /\ Fresh'
  <2>1. ProcessEnd(w, "fanOut")
    BY <1>12 DEF FanOutResults
  <2>2. \A r \in Requests : r \notin ToSet(work[w]) => results'[r] = results[r]
    BY <1>1, <1>12 DEF FanOutResults
  <2> QED BY <1>1, <1>4, <2>1, <2>2
<1> QED BY <1>5, <1>6, <1>7, <1>8, <1>9, <1>10, <1>11, <1>12 DEF Run, Process

LEMMA SurroundingsOwner ==
  ASSUME OwnerInv,
         \/ \E w \in Workers : Recover(w)
         \/ PingLoop \/ \E how \in {"up", "down", "hung"} : UpstreamBecomes(how)
         \/ Shutdown \/ UNCHANGED vars
  PROVE  OneOwner' /\ Fresh'
<1>1. UNCHANGED <<handlerVars, results, batcherVars, batchChans, work>>
  BY DEF Recover, PingLoop, PingSend, PingSwallowed, PingOk, PingFail, PingReturn, PingStep, UpstreamBecomes,
         Shutdown, vars, workerVars
<1>2. Owned' = Owned /\ InChannels' = InChannels /\ InHands' = InHands
  BY <1>1 DEF Owned, InChannels, Waiting, InHands, batcherVars
<1>3. OneOwner'
  BY <1>1, OwnerUnmoved DEF OwnerInv, batcherVars
<1> QED BY <1>1, <1>2, <1>3 DEF Fresh, OwnerInv, handlerVars

(* A request has one owner until it is answered, and none when its answer  *)
(* is in its ResultChan: so the non-blocking sends (proxy.go:180-186,      *)
(* 219-222, 231-236) never find the one-place buffer full, and no request  *)
(* is answered twice, for any number of workers and requests.  It is       *)
(* inductive with Fresh: a request that Submit queues was owned by nobody. *)
THEOREM RequestsHaveOneOwner == Spec => []OneOwner
<1>1. Init => OneOwner /\ Fresh
  <2> SUFFICES ASSUME Init PROVE OneOwner /\ Fresh
    OBVIOUS
  <2>1. /\ \A p \in Priorities : batchChans[p] = <<>>
        /\ \A w \in Workers : work[w] = <<>>
        /\ \A r \in Requests : results[r] = "empty"
        /\ queued = {}
    BY DEF Init
  <2>2. ToSet(<<>>) = {} /\ IsInjective(<<>>)
    BY DEF ToSet, IsInjective
  <2>3. InChannels = {} /\ InHands = {}
    BY <2>1, <2>2 DEF InChannels, Waiting, InHands
  <2>4. Owned = {}
    BY <2>1, <2>3 DEF Owned
  <2>5. OneOwner
    BY <2>1, <2>2, <2>3, <2>4 DEF OneOwner
  <2> QED BY <2>1, <2>4, <2>5 DEF Fresh
<1>2. OwnerInv /\ [Next]_vars => OneOwner' /\ Fresh'
  BY HandlerOwner, BatcherOwner, WorkerOwner, SurroundingsOwner DEF Next, Serve, Terminated
<1>3. OwnerInv <=> TypeInv /\ OneOwner /\ Fresh
  BY DEF OwnerInv
<1> QED BY <1>1, <1>2, <1>3, TypeInit, TypeStep, PTL DEF Spec

-----------------------------------------------------------------------------
(* Priority.                                                               *)

\* main hands each priority its own channel, a select begins at its first
\* level, and a batch that was waiting then is in a channel not yet looked at
SortedInv ==
  /\ \A p \in Priorities : \A b \in ToSet(batchChans[p]) : PriorityOf[Head(b)] = p
  /\ \A w \in Workers : pc[w] # "select" => level[w] = 1
  /\ \A w \in Workers : \A b \in offered[w] :
       \E p \in Priorities : p <= 4 - level[w] /\ b \in ToSet(batchChans[p])

LEMMA SortedInit == Init => SortedInv
<1> SUFFICES ASSUME Init PROVE SortedInv
  OBVIOUS
<1>1. /\ \A p \in Priorities : batchChans[p] = <<>>
      /\ \A w \in Workers : level[w] = 1 /\ offered[w] = {}
  BY DEF Init
<1>2. ToSet(<<>>) = {}
  BY DEF ToSet
<1> QED BY <1>1, <1>2 DEF SortedInv

\* steps that neither select nor fill a channel
LEMMA SortedKept == SortedInv /\ UNCHANGED <<batchChans, pc, level, offered>> => SortedInv'
  BY DEF SortedInv

LEMMA SortedHandler ==
  ASSUME SortedInv, NEW r \in Requests, Arrive(r) \/ Handle(r) \/ CtxDone(r)
  PROVE  SortedInv'
<1>1. UNCHANGED workerVars
  BY DEF Arrive, Handle, CtxDone, CheckUnhealthy, CheckHealthy, ScanOpen, ScanUsable,
         ScanAllOpen, Submit, SubmitRejected, Result, TimedOut, Reply, HandlerStep
<1> QED BY <1>1, SortedKept DEF workerVars

LEMMA SortedBatcher ==
  ASSUME TypeInv, SortedInv,
         FormAny \/ BatcherStop \/ \E p \in Priorities : CloseBatchChan(p)
  PROVE  SortedInv'
<1>1. CASE FormAny
  <2>1. PICK S \in (SUBSET queued) \ {{}} : \E batch \in SetToSeqs(S) : Form(batch)
    BY <1>1 DEF FormAny
  <2>2. PICK batch \in SetToSeqs(S) : Form(batch)
    BY <2>1
  <2>3. S \in SUBSET Requests /\ S # {}
    BY <2>1 DEF TypeInv, TypeOK
  <2>4. batch \in Seq(Requests) /\ batch # <<>>
    BY <2>3, SetToSeqsType
  <2> DEFINE p == PriorityOf[Head(batch)]
  <2>5. p \in Priorities
    BY <2>4, WorkerPoolAssumption
  <2>6. /\ batchChans' = [batchChans EXCEPT ![p] = Append(@, batch)]
        /\ UNCHANGED <<pc, level, offered>>
    BY <2>2 DEF Form
  <2>7. batchChans[p] \in Seq(Seq(Requests))
    BY <2>5 DEF TypeInv, TypeOK
  <2>8. /\ ToSet(batchChans'[p]) = ToSet(batchChans[p]) \cup {batch}
        /\ \A q \in Priorities : q # p => batchChans'[q] = batchChans[q]
    <3>1. batchChans'[p] = Append(batchChans[p], batch)
      BY <2>5, <2>6 DEF TypeInv, TypeOK
    <3>2. ToSet(Append(batchChans[p], batch)) = ToSet(batchChans[p]) \cup {batch}
      BY <2>4, <2>7, AppendMembers
    <3> QED BY <2>6, <3>1, <3>2 DEF TypeInv, TypeOK
  <2>9. \A q \in Priorities : \A b \in ToSet(batchChans'[q]) : PriorityOf[Head(b)] = q
    BY <2>8 DEF SortedInv
  <2>10. \A q \in Priorities : ToSet(batchChans[q]) \subseteq ToSet(batchChans'[q])
    BY <2>8
  <2> HIDE DEF p
  <2> QED BY <2>6, <2>9, <2>10 DEF SortedInv
<1>2. CASE BatcherStop \/ \E p \in Priorities : CloseBatchChan(p)
  BY <1>2, SortedKept DEF BatcherStop, CloseBatchChan, workerVars
<1> QED BY <1>1, <1>2

LEMMA SortedSelect ==
  ASSUME TypeInv, SortedInv, NEW w \in Workers,
         (\E p \in Priorities : SelectReceive(w, p)) \/ SelectDefault(w) \/ SelectExit(w)
  PROVE  SortedInv'
<1>1. ASSUME NEW p \in Priorities, SelectReceive(w, p) PROVE SortedInv'
  <2> DEFINE b == Head(batchChans[p])
  <2>1. batchChans[p] \in Seq(Seq(Requests)) /\ batchChans[p] # <<>>
    BY <1>1 DEF SelectReceive, TypeInv, TypeOK
  <2>2. ToSet(batchChans[p]) = {b} \cup ToSet(Tail(batchChans[p]))
    BY <2>1, HeadAndTailMembers
  <2>3. /\ batchChans' = [batchChans EXCEPT ![p] = Tail(@)]
        /\ level' = [level EXCEPT ![w] = 1]
        /\ offered' = [v \in Workers |-> IF v = w THEN {} ELSE offered[v] \ {b}]
        /\ pc' = [pc EXCEPT ![w] = "received"]
    BY <1>1 DEF SelectReceive, WorkerStep
  <2> HIDE DEF b
  <2>4. \A q \in Priorities : /\ ToSet(batchChans'[q]) \subseteq ToSet(batchChans[q])
                              /\ ToSet(batchChans[q]) \subseteq ToSet(batchChans'[q]) \cup {b}
    BY <2>2, <2>3 DEF TypeInv, TypeOK
  <2>5. \A v \in Workers : level'[v] = IF v = w THEN 1 ELSE level[v]
    BY <2>3 DEF TypeInv, TypeOK
  <2>6. \A v \in Workers : v # w => pc'[v] = pc[v]
    BY <2>3 DEF TypeInv, TypeOK
  <2>7. \A q \in Priorities : \A c \in ToSet(batchChans'[q]) : PriorityOf[Head(c)] = q
    BY <2>4 DEF SortedInv
  <2>8. \A v \in Workers : pc'[v] # "select" => level'[v] = 1
    BY <2>5, <2>6 DEF SortedInv
  <2>9. ASSUME NEW v \in Workers, NEW c \in offered'[v]
        PROVE  \E q \in Priorities : q <= 4 - level'[v] /\ c \in ToSet(batchChans'[q])
    <3>1. v # w /\ c \in offered[v] /\ c # b
      BY <2>3, <2>9
    <3>2. PICK q \in Priorities : q <= 4 - level[v] /\ c \in ToSet(batchChans[q])
      BY <3>1 DEF SortedInv
    <3> QED BY <2>4, <2>5, <3>1, <3>2
  <2> QED BY <2>7, <2>8, <2>9 DEF SortedInv
<1>2. CASE SelectDefault(w)
  <2>1. /\ pc[w] = "select" /\ pc' = [pc EXCEPT ![w] = "select"]
        /\ level' = [level EXCEPT ![w] = @ + 1] /\ UNCHANGED <<batchChans, offered>>
        /\ \A p \in Priorities : p >= 4 - level[w] => batchChans[p] = <<>>
    BY <1>2 DEF SelectDefault, WorkerStep, Selecting
  <2>2. level[w] \in 1..4 /\ level'[w] = level[w] + 1
    BY <2>1 DEF TypeInv, TypeOK
  <2>3. ASSUME NEW b \in offered[w]
        PROVE  \E p \in Priorities : p <= 4 - level'[w] /\ b \in ToSet(batchChans[p])
    <3>1. PICK p \in Priorities : p <= 4 - level[w] /\ b \in ToSet(batchChans[p])
      BY <2>3 DEF SortedInv
    <3>2. batchChans[p] # <<>>
      BY <3>1 DEF ToSet
    <3>3. p <= 4 - level'[w]
      BY <2>1, <2>2, <3>1, <3>2 DEF Priorities
    <3> QED BY <3>1, <3>3
  <2>4. \A v \in Workers : v # w => pc'[v] = pc[v] /\ level'[v] = level[v]
    BY <2>1 DEF TypeInv, TypeOK
  <2>5. pc'[w] = "select"
    BY <2>1 DEF TypeInv, TypeOK
  <2> QED BY <2>1, <2>3, <2>4, <2>5 DEF SortedInv
<1>3. CASE SelectExit(w)
  <2>1. /\ pc' = [pc EXCEPT ![w] = "exited"] /\ level' = [level EXCEPT ![w] = 1]
        /\ offered' = [offered EXCEPT ![w] = {}] /\ UNCHANGED batchChans
    BY <1>3 DEF SelectExit, WorkerStep
  <2>2. \A v \in Workers : /\ v # w => pc'[v] = pc[v] /\ level'[v] = level[v]
                                       /\ offered'[v] = offered[v]
                           /\ v = w => level'[v] = 1 /\ offered'[v] = {}
    BY <2>1 DEF TypeInv, TypeOK
  <2> QED BY <2>1, <2>2 DEF SortedInv
<1> QED BY <1>1, <1>2, <1>3

LEMMA SortedProcess ==
  ASSUME TypeInv, SortedInv, NEW w \in Workers, Process(w)
  PROVE  SortedInv'
<1>1. ASSUME NEW from, from # "select", ProcessEnd(w, from) PROVE SortedInv'
  <2>1. /\ pc[w] = from /\ pc' = [pc EXCEPT ![w] = "select"]
        /\ offered' = [offered EXCEPT ![w] = Waiting] /\ UNCHANGED <<batchChans, level>>
    BY <1>1 DEF ProcessEnd, WorkerStep
  <2>2. level[w] = 1
    BY <1>1, <2>1 DEF SortedInv
  <2>3. \A b \in Waiting : \E p \in Priorities : p <= 4 - level[w] /\ b \in ToSet(batchChans[p])
    <3>1. \A p \in Priorities : p <= 4 - level[w]
      BY <2>2 DEF Priorities
    <3> QED BY <3>1 DEF Waiting
  <2>4. \A v \in Workers : /\ v # w => pc'[v] = pc[v] /\ offered'[v] = offered[v]
                           /\ v = w => pc'[v] = "select" /\ offered'[v] = Waiting
    BY <2>1 DEF TypeInv, TypeOK
  <2> QED BY <2>1, <2>3, <2>4 DEF SortedInv
<1>2. ASSUME NEW from, NEW to, from # "select", ProcessStep(w, from, to) PROVE SortedInv'
  <2>1. pc[w] = from /\ pc' = [pc EXCEPT ![w] = to] /\ UNCHANGED <<batchChans, level, offered>>
    BY <1>2 DEF ProcessStep, WorkerStep
  <2>2. \A v \in Workers : pc'[v] # "select" => level[v] = 1
    BY <1>2, <2>1 DEF SortedInv, TypeInv, TypeOK
  <2> QED BY <2>1, <2>2 DEF SortedInv
<1>3. CASE RefuseUnhealthy(w) \/ RefuseOpen(w) \/ FilterNone(w) \/ FanOutError(w)
           \/ \E n \in 0..MaxBatchSize : FanOutResults(w, n)
  BY <1>1, <1>3 DEF RefuseUnhealthy, RefuseOpen, FilterNone, FanOutError, FanOutResults
<1>4. CASE PassHealthy(w) \/ PassCircuit(w) \/ FilterSome(w) \/ PostFail(w) \/ PostOk(w)
  BY <1>2, <1>4 DEF PassHealthy, PassCircuit, FilterSome, PostFail, PostOk
<1> QED BY <1>3, <1>4 DEF Process

LEMMA SortedStep == TypeInv /\ SortedInv /\ [Next]_vars => SortedInv'
<1> SUFFICES ASSUME TypeInv, SortedInv, [Next]_vars PROVE SortedInv'
  OBVIOUS
<1>1. CASE Serve
  <2>1. ASSUME NEW w \in Workers, Recover(w) PROVE SortedInv'
    BY <2>1, SortedKept DEF Recover
  <2> QED BY <1>1, <2>1, SortedHandler, SortedBatcher, SortedSelect, SortedProcess
          DEF Serve, Run
<1>2. CASE PingLoop
  BY <1>2, SortedKept DEF PingLoop, PingSend, PingSwallowed, PingOk, PingFail, PingReturn, PingStep, workerVars
<1>3. CASE Shutdown \/ \E how \in {"up", "down", "hung"} : UpstreamBecomes(how)
  BY <1>3, SortedKept DEF Shutdown, UpstreamBecomes, workerVars
<1>4. CASE Terminated \/ UNCHANGED vars
  BY <1>4, SortedKept DEF Terminated, vars, workerVars
<1> QED BY <1>1, <1>2, <1>3, <1>4 DEF Next

\* only a receive takes a worker out of its select into process
LEMMA OnlySelectsReceive ==
  ASSUME TypeInv, [Next]_vars, NEW w \in Workers, pc[w] = "select", pc'[w] = "received"
  PROVE  \E p \in Priorities : SelectReceive(w, p)
<1>0. pc \in [Workers -> WorkerStates]
  BY DEF TypeInv, TypeOK
<1>1. pc' # pc
  OBVIOUS
<1>2. ASSUME NEW v \in Workers, NEW from, NEW to, WorkerStep(v, from, to)
      PROVE  v = w /\ from = "select" /\ to = "received"
  BY <1>0, <1>2 DEF WorkerStep
<1>3. \A v \in Workers : ~Process(v)
  <2> SUFFICES ASSUME NEW v \in Workers, Process(v) PROVE FALSE
    OBVIOUS
  <2>1. ~\E from, to : from # "select" /\ WorkerStep(v, from, to)
    BY <1>2
  <2> QED BY <2>1 DEF Process, RefuseUnhealthy, PassHealthy, RefuseOpen, PassCircuit, FilterNone,
             FilterSome, PostFail, FanOutError, PostOk, FanOutResults, ProcessStep, ProcessEnd
<1>4. \A v \in Workers : ~SelectDefault(v) /\ ~SelectExit(v)
  BY <1>2 DEF SelectDefault, SelectExit
<1>5. \A v \in Workers, p \in Priorities : SelectReceive(v, p) => v = w
  BY <1>2 DEF SelectReceive
<1>6. \A r \in Requests : ~(Arrive(r) \/ Handle(r) \/ CtxDone(r))
  BY <1>1 DEF Arrive, Handle, CtxDone, CheckUnhealthy, CheckHealthy, ScanOpen, ScanUsable,
         ScanAllOpen, Submit, SubmitRejected, Result, TimedOut, Reply, HandlerStep, workerVars
<1>7. ~(FormAny \/ BatcherStop \/ \E p \in Priorities : CloseBatchChan(p))
  BY <1>1 DEF FormAny, Form, BatcherStop, CloseBatchChan, workerVars
<1>8. \A v \in Workers : ~Recover(v)
  BY <1>1 DEF Recover
<1>9. ~(PingLoop \/ Shutdown \/ \E how \in {"up", "down", "hung"} : UpstreamBecomes(how))
  BY <1>1 DEF PingLoop, PingSend, PingSwallowed, PingOk, PingFail, PingReturn, PingStep, Shutdown,
         UpstreamBecomes, workerVars
<1>10. ~(Terminated \/ UNCHANGED vars)
  BY <1>1 DEF Terminated, vars, workerVars
<1> QED BY <1>3, <1>4, <1>5, <1>6, <1>7, <1>8, <1>9, <1>10 DEF Next, Serve, Run

(* A worker never takes a batch while one of a higher priority, that was   *)
(* waiting when the worker's select began, is waiting still (proxy.go:87-  *)
(* 115), for any number of workers and any interleaving with the batcher's *)
(* sends: each level of the select found its channels empty, and what has  *)
(* come since was not there when the select began.                         *)
THEOREM PriorityIsStrict == Spec => StrictPriority
<1>1. TypeInv /\ SortedInv /\ [Next]_vars =>
        [\A w \in Workers : pc[w] = "select" /\ pc'[w] = "received" =>
           \A b \in offered[w] : PriorityOf[Head(b)] <= PriorityOf[Head(work'[w])]]_vars
  <2> SUFFICES ASSUME TypeInv, SortedInv, [Next]_vars, NEW w \in Workers,
                      pc[w] = "select", pc'[w] = "received", NEW b \in offered[w]
               PROVE  PriorityOf[Head(b)] <= PriorityOf[Head(work'[w])]
    OBVIOUS
  <2>1. PICK p \in Priorities : SelectReceive(w, p)
    BY OnlySelectsReceive
  <2>2. /\ work'[w] = Head(batchChans[p]) /\ batchChans[p] # <<>> /\ p >= 4 - level[w]
    BY <2>1 DEF SelectReceive, Selecting, TypeInv, TypeOK
  <2>3. PriorityOf[Head(work'[w])] = p
    <3>1. batchChans[p] \in Seq(Seq(Requests))
      BY DEF TypeInv, TypeOK
    <3>2. Head(batchChans[p]) \in ToSet(batchChans[p])
      BY <2>2, <3>1, HeadAndTailMembers
    <3> QED BY <2>2, <3>2 DEF SortedInv
  <2>4. PICK q \in Priorities : q <= 4 - level[w] /\ b \in ToSet(batchChans[q])
    BY DEF SortedInv
  <2>5. PriorityOf[Head(b)] = q
    BY <2>4 DEF SortedInv
  <2>6. level[w] \in 1..4
    BY DEF TypeInv, TypeOK
  <2> QED BY <2>2, <2>3, <2>4, <2>5, <2>6 DEF Priorities
<1> QED BY <1>1, TypeInit, TypeStep, SortedInit, SortedStep, PTL DEF Spec, StrictPriority
=============================================================================
