------------------------- MODULE QueueMatrixProofs -------------------------
(***************************************************************************)
(* Machine-checked theorems about QueueMatrix, for any set of requests and *)
(* callers, any number of sub-queues and any capacity.                     *)
(***************************************************************************)
EXTENDS QueueMatrix, FiniteSetTheorems, FunctionTheorems, TLAPS

\* The cursor of a caller inside drainSubqueue points at a sub-queue.
CursorOK ==
  \A c \in Callers : call[c] \in {"walkPull", "pull", "settle"} => cursor[c] \in SubQueues

TypeInv == TypeOK /\ CursorOK

LEMMA TypeInit == QMInit => TypeInv
<1> SUFFICES ASSUME QMInit PROVE TypeInv
  OBVIOUS
<1>1. queues \in [SubQueues -> Seq(Requests)] /\ out \in [Callers -> Seq(Requests)]
  BY DEF QMInit
<1>2. 1 \in 1..NumQueues + 1 /\ 0 \in 0..MaxBatchSize
  BY QueueMatrixAssumption
<1>3. cursor \in [Callers -> 1..NumQueues + 1] /\ limit \in [Callers -> 0..MaxBatchSize]
  BY <1>2 DEF QMInit
<1>4. submitter \in [Requests -> SubmitPhases] /\ call \in [Callers -> CallPhases]
  BY DEF QMInit, SubmitPhases, CallPhases
<1>5. seen \in [Callers -> SUBSET Requests]
  BY DEF QMInit
<1>6. TypeOK
  <2>1. depth \in Int
    BY DEF QMInit
  <2>2. eventChan \in BOOLEAN /\ closed \in BOOLEAN /\ swept \in BOOLEAN
    BY Zenon DEF QMInit
  <2> QED BY <1>1, <1>3, <1>4, <1>5, <2>1, <2>2 DEF TypeOK
<1>7. CursorOK
  BY DEF QMInit, CursorOK
<1> QED BY <1>6, <1>7 DEF TypeInv

LEMMA SubmitType ==
  ASSUME TypeInv, NEW r \in Requests,
         SubmitLock(r) \/ SubmitClosed(r) \/ SubmitStep(r)
  PROVE  TypeInv'
<1> USE QueueMatrixAssumption DEF TypeInv, TypeOK, CursorOK, SubmitPhases, SubmitPhase, drainVars
<1>1. CASE SubmitLock(r)
  BY <1>1 DEF SubmitLock
<1>2. CASE SubmitClosed(r)
  BY <1>2 DEF SubmitClosed
<1>3. CASE SubmitSend(r)
  <2>1. Append(queues[SubQueueOf[r]], r) \in Seq(Requests)
    OBVIOUS
  <2> QED BY <1>3, <2>1 DEF SubmitSend
<1>4. CASE SubmitFull(r)
  BY <1>4 DEF SubmitFull
<1>5. CASE SubmitCount(r)
  BY <1>5 DEF SubmitCount
<1>6. CASE SubmitWake(r)
  BY <1>6 DEF SubmitWake
<1> QED BY <1>1, <1>2, <1>3, <1>4, <1>5, <1>6 DEF SubmitStep

\* the sub-queue loses its head to the caller's result
LEMMA ReceiveType ==
  ASSUME TypeInv, NEW c \in Callers, NEW q \in SubQueues, Receive(c, q)
  PROVE  /\ queues' \in [SubQueues -> Seq(Requests)]
         /\ out' \in [Callers -> Seq(Requests)]
<1>1. queues[q] \in Seq(Requests) /\ queues[q] # <<>> /\ out[c] \in Seq(Requests)
  BY DEF TypeInv, TypeOK, Receive
<1>2. Tail(queues[q]) \in Seq(Requests) /\ Append(out[c], Head(queues[q])) \in Seq(Requests)
  BY <1>1
<1> QED BY <1>2 DEF Receive, TypeInv, TypeOK

LEMMA DrainType ==
  ASSUME TypeInv, NEW c \in Callers, DrainStep(c)
  PROVE  TypeInv'
<1> USE QueueMatrixAssumption DEF TypeInv, TypeOK, CursorOK, CallPhases, Phase, submitVars, SubQueues
<1>1. CASE WalkSkip(c)
  BY <1>1, SMTT(20) DEF WalkSkip
<1>2. CASE WalkEnter(c)
  BY <1>2 DEF WalkEnter
<1>3. CASE WalkEnd(c)
  BY <1>3 DEF WalkEnd
<1>4. CASE Pull(c)
  BY <1>4, ReceiveType DEF Pull
<1>5. CASE PullStop(c)
  BY <1>5 DEF PullStop
<1>6. CASE PullNothing(c)
  <2>1. call[c] = "walkPull" /\ cursor[c] \in 1..NumQueues
    BY <1>6 DEF PullNothing
  <2>2. cursor[c] + 1 \in 1..NumQueues + 1
    BY <2>1
  <2>3. TypeOK'
    BY <1>6, <2>2 DEF PullNothing
  <2>4. CursorOK'
    BY <1>6 DEF PullNothing
  <2> QED BY <2>3, <2>4
<1>7. CASE PullNone(c)
  BY <1>7 DEF PullNone
<1>8. CASE Settle(c)
  BY <1>8 DEF Settle
<1>9. CASE Sweep(c)
  BY <1>9, ReceiveType DEF Sweep
<1>10. CASE SweepNext(c)
  BY <1>10, SMTT(20) DEF SweepNext
<1>11. CASE SweepEnd(c)
  BY <1>11 DEF SweepEnd
<1> QED BY <1>1, <1>2, <1>3, <1>4, <1>5, <1>6, <1>7, <1>8, <1>9, <1>10, <1>11 DEF DrainStep

LEMMA QueuedType == TypeOK => Queued \subseteq Requests
  BY DEF TypeOK, Queued, ToSet

LEMMA CallType ==
  ASSUME TypeInv, NEW c \in Callers,
         \/ \E max \in 1..MaxBatchSize : DrainBegin(c, max)
         \/ \E max \in 1..MaxBatchSize, q \in SubQueues : DrainFromBegin(c, q, max)
         \/ DrainAllBegin(c)
         \/ Return(c)
  PROVE  TypeInv'
<1> USE QueueMatrixAssumption, QueuedType DEF TypeInv, TypeOK, CursorOK, CallPhases, Phase, submitVars, SubQueues
<1>1. ASSUME NEW max \in 1..MaxBatchSize, DrainBegin(c, max) PROVE TypeInv'
  <2>1. 1 \in 1..NumQueues + 1 /\ max \in 0..MaxBatchSize
    OBVIOUS
  <2>2. TypeOK'
    BY <1>1, <2>1 DEF DrainBegin
  <2>3. CursorOK'
    BY <1>1 DEF DrainBegin
  <2> QED BY <2>2, <2>3
<1>2. ASSUME NEW max \in 1..MaxBatchSize, NEW q \in SubQueues, DrainFromBegin(c, q, max)
      PROVE TypeInv'
  <2>1. q \in 1..NumQueues + 1 /\ max \in 0..MaxBatchSize
    BY <1>2
  <2>2. TypeOK'
    BY <1>2, <2>1 DEF DrainFromBegin
  <2>3. CursorOK'
    BY <1>2 DEF DrainFromBegin
  <2> QED BY <2>2, <2>3
<1>3. CASE DrainAllBegin(c)
  BY <1>3 DEF DrainAllBegin
<1>4. CASE Return(c)
  BY <1>4 DEF Return
<1> QED BY <1>1, <1>2, <1>3, <1>4

LEMMA TypeStep == TypeInv /\ [QMNext]_qmVars => TypeInv'
<1> SUFFICES ASSUME TypeInv, [QMNext]_qmVars PROVE TypeInv'
  OBVIOUS
<1>1. CASE UNCHANGED qmVars
  BY <1>1 DEF qmVars, submitVars, drainVars, TypeInv, TypeOK, CursorOK
<1>2. CASE Signal \/ TakeEvent \/ Close
  BY <1>2 DEF Signal, TakeEvent, Close, submitVars, drainVars, TypeInv, TypeOK, CursorOK
<1> QED BY <1>1, <1>2, SubmitType, DrainType, CallType DEF QMNext

(* Type correctness of the matrix under any interleaving of its callers:   *)
(* the cursors of the walks of queue_matrix.go:106-120 and 169-175 stay    *)
(* within the sub-queues and no receive is from an empty channel.          *)
THEOREM TypeCorrect == QMSpec => []TypeOK
<1>1. TypeInv => TypeOK
  BY DEF TypeInv
<1> QED BY <1>1, TypeInit, TypeStep, PTL DEF QMSpec

-----------------------------------------------------------------------------
(* Close waits for every Submit that holds the read lock, and none takes   *)
(* it once the matrix is closed: no send on a closed channel.              *)
THEOREM CloseIsExclusive == QMSpec => []CloseExcludesSubmit
<1>1. QMInit => CloseExcludesSubmit
  BY DEF QMInit, CloseExcludesSubmit
<1>2. TypeInv /\ CloseExcludesSubmit /\ [QMNext]_qmVars => CloseExcludesSubmit'
  <2> SUFFICES ASSUME TypeInv, CloseExcludesSubmit, [QMNext]_qmVars
               PROVE  CloseExcludesSubmit'
    OBVIOUS
  <2> USE DEF CloseExcludesSubmit, ReadLocked, Holding
  <2>1. ASSUME NEW r \in Requests, SubmitLock(r) \/ SubmitClosed(r) \/ SubmitStep(r)
        PROVE  CloseExcludesSubmit'
    <3>1. closed' = closed /\ \E from, to : SubmitPhase(r, from, to)
      BY <2>1 DEF SubmitLock, SubmitClosed, SubmitStep, SubmitSend, SubmitFull,
                  SubmitCount, SubmitWake, SubmitPhase
    <3>2. closed => submitter' = [submitter EXCEPT ![r] = "ErrShuttingDown"]
      BY <2>1 DEF SubmitLock, SubmitClosed, SubmitStep, SubmitSend, SubmitFull,
                  SubmitCount, SubmitWake, SubmitPhase
    <3> QED BY <3>1, <3>2 DEF TypeInv, TypeOK
  <2>2. ASSUME UNCHANGED <<closed, submitter>> PROVE CloseExcludesSubmit'
    BY <2>2
  <2>3. CASE Close
    BY <2>3 DEF Close
  <2>4. ASSUME NEW c \in Callers, DrainStep(c) PROVE UNCHANGED <<closed, submitter>>
    BY <2>4 DEF DrainStep, WalkSkip, WalkEnter, WalkEnd, Pull, PullStop, PullNothing, PullNone,
                Settle, Sweep, SweepNext, SweepEnd, Phase, submitVars
  <2>5. ASSUME NEW c \in Callers,
               \/ \E max \in 1..MaxBatchSize : DrainBegin(c, max)
               \/ \E max \in 1..MaxBatchSize, q \in SubQueues : DrainFromBegin(c, q, max)
               \/ DrainAllBegin(c)
               \/ Return(c)
        PROVE  UNCHANGED <<closed, submitter>>
    BY <2>5 DEF DrainBegin, DrainFromBegin, DrainAllBegin, Return, Phase, submitVars
  <2>6. ASSUME Signal \/ TakeEvent \/ UNCHANGED qmVars PROVE UNCHANGED <<closed, submitter>>
    BY <2>6 DEF Signal, TakeEvent, qmVars, submitVars
  <2> QED BY <2>1, <2>2, <2>3, <2>4, <2>5, <2>6 DEF QMNext
<1> QED BY <1>1, <1>2, TypeInit, TypeStep, PTL DEF QMSpec

-----------------------------------------------------------------------------
(* Sequences without repetition, as sets.                                  *)

\* appending an element
LEMMA AppendElements ==
  ASSUME NEW S, NEW s \in Seq(S), NEW x \in S
  PROVE  ToSet(Append(s, x)) = ToSet(s) \cup {x}
<1> DEFINE t == Append(s, x)
<1>1. Len(s) \in Nat /\ DOMAIN s = 1..Len(s) /\ DOMAIN t = 1..Len(s) + 1
  OBVIOUS
<1>2. t[Len(s) + 1] = x /\ \A i \in 1..Len(s) : t[i] = s[i]
  OBVIOUS
<1>3. \A i \in DOMAIN t : i \in DOMAIN s \/ i = Len(s) + 1
  BY <1>1
<1>4. Len(s) + 1 \in DOMAIN t /\ \A i \in DOMAIN s : i \in DOMAIN t
  BY <1>1
<1> HIDE DEF t
<1>5. ToSet(t) = ToSet(s) \cup {x}
  BY <1>1, <1>2, <1>3, <1>4 DEF ToSet
<1> QED BY <1>5 DEF t

\* appending a new element
LEMMA AppendNew ==
  ASSUME NEW S, NEW s \in Seq(S), NEW x \in S, IsInjective(s), x \notin ToSet(s)
  PROVE  IsInjective(Append(s, x))
<1>1. /\ Len(s) \in Nat /\ DOMAIN s = 1..Len(s)
      /\ \A i \in 1..Len(s) : Append(s, x)[i] = s[i]
      /\ Append(s, x)[Len(s) + 1] = x
      /\ DOMAIN Append(s, x) = 1..Len(s) + 1
  OBVIOUS
<1> QED BY <1>1 DEF IsInjective, ToSet

\* removing the head
LEMMA TailInjective ==
  ASSUME NEW S, NEW s \in Seq(S), IsInjective(s), s # <<>>
  PROVE  /\ Head(s) \in ToSet(s)
         /\ IsInjective(Tail(s))
         /\ ToSet(Tail(s)) = ToSet(s) \ {Head(s)}
<1>1. /\ DOMAIN s = 1..Len(s) /\ Len(s) \in Nat \ {0} /\ s[1] = Head(s)
      /\ DOMAIN Tail(s) = 1..Len(s) - 1
      /\ \A i \in 1..Len(s) - 1 : Tail(s)[i] = s[i + 1]
  OBVIOUS
<1>2. Head(s) \in ToSet(s)
  BY <1>1 DEF ToSet
<1>3. IsInjective(Tail(s))
  BY <1>1 DEF IsInjective
<1>4. ToSet(Tail(s)) \subseteq ToSet(s) \ {Head(s)}
  <2>1. \A i \in 1..Len(s) - 1 : i + 1 \in 1..Len(s) /\ i + 1 # 1
    BY <1>1
  <2> QED BY <1>1, <2>1 DEF ToSet, IsInjective
<1>5. ToSet(s) \ {Head(s)} \subseteq ToSet(Tail(s))
  <2> SUFFICES ASSUME NEW i \in 1..Len(s), s[i] # s[1] PROVE s[i] \in ToSet(Tail(s))
    BY <1>1 DEF ToSet
  <2>1. i - 1 \in 1..Len(s) - 1 /\ (i - 1) + 1 = i
    BY <1>1
  <2>2. Tail(s)[i - 1] = s[i] /\ i - 1 \in DOMAIN Tail(s)
    BY <1>1, <2>1
  <2> QED BY <2>2 DEF ToSet
<1> QED BY <1>2, <1>3, <1>4, <1>5

-----------------------------------------------------------------------------
(* What a receive and a send do to the places of requests.                 *)

Submitted == {r \in Requests : submitter[r] \in {"sent", "counted", "accepted"}}

\* The head of sub-queue q moves from the queue to the caller's result.
LEMMA ReceivePlaces ==
  ASSUME TypeInv, InOnePlace, NEW c \in Callers, NEW q \in SubQueues, Receive(c, q)
  PROVE  LET h == Head(queues[q])
         IN  /\ h \in Queued
             /\ IsInjective(queues'[q]) /\ ToSet(queues'[q]) = ToSet(queues[q]) \ {h}
             /\ \A p \in SubQueues \ {q} : queues'[p] = queues[p] /\ h \notin ToSet(queues[p])
             /\ Queued' = Queued \ {h}
             /\ IsInjective(out'[c]) /\ ToSet(out'[c]) = ToSet(out[c]) \cup {h}
             /\ \A d \in Callers \ {c} : out'[d] = out[d]
<1> DEFINE h == Head(queues[q])
<1>1. /\ queues[q] \in Seq(Requests) /\ queues[q] # <<>>
      /\ queues'[q] = Tail(queues[q])
      /\ \A p \in SubQueues \ {q} : queues'[p] = queues[p]
      /\ out[c] \in Seq(Requests) /\ out'[c] = Append(out[c], h)
      /\ \A d \in Callers \ {c} : out'[d] = out[d]
  BY DEF TypeInv, TypeOK, Receive
<1>2. /\ h \in ToSet(queues[q])
      /\ IsInjective(queues'[q])
      /\ ToSet(queues'[q]) = ToSet(queues[q]) \ {h}
  BY <1>1, TailInjective DEF InOnePlace
<1>3. h \in Queued /\ SubQueueOf[h] = q
  BY <1>2 DEF Queued, InOnePlace
<1>4. \A p \in SubQueues \ {q} : h \notin ToSet(queues[p])
  BY <1>3 DEF InOnePlace
<1>5. Queued' = Queued \ {h}
  BY <1>1, <1>2, <1>4 DEF Queued
<1>6. h \in Requests /\ h \notin ToSet(out[c]) /\ IsInjective(out[c])
  BY <1>1, <1>3 DEF InOnePlace
<1>7. IsInjective(out'[c]) /\ ToSet(out'[c]) = ToSet(out[c]) \cup {h}
  BY <1>1, <1>6, AppendNew, AppendElements
<1> QED BY <1>1, <1>2, <1>3, <1>4, <1>5, <1>7

LEMMA ReceiveKeepsPlaces ==
  ASSUME TypeInv, InOnePlace, NEW c \in Callers, NEW q \in SubQueues, Receive(c, q),
         UNCHANGED submitter
  PROVE  InOnePlace'
<1> DEFINE h == Head(queues[q])
<1>1. /\ h \in Queued
      /\ IsInjective(queues'[q]) /\ ToSet(queues'[q]) = ToSet(queues[q]) \ {h}
      /\ \A p \in SubQueues \ {q} : queues'[p] = queues[p]
      /\ Queued' = Queued \ {h}
      /\ IsInjective(out'[c]) /\ ToSet(out'[c]) = ToSet(out[c]) \cup {h}
      /\ \A d \in Callers \ {c} : out'[d] = out[d]
  BY ReceivePlaces
<1> HIDE DEF h
<1>2. \A p \in SubQueues : IsInjective(queues'[p])
                           /\ \A r \in ToSet(queues'[p]) : SubQueueOf[r] = p
  BY <1>1 DEF InOnePlace
<1>3. \A d \in Callers : IsInjective(out'[d])
  BY <1>1 DEF InOnePlace
<1>4. \A d \in Callers : ToSet(out'[d]) \cap Queued' = {}
  BY <1>1 DEF InOnePlace
<1>5. \A d, e \in Callers : d # e => ToSet(out'[d]) \cap ToSet(out'[e]) = {}
  BY <1>1 DEF InOnePlace
<1>6. \A r \in Queued' \cup UNION {ToSet(out'[d]) : d \in Callers} :
        submitter'[r] \in {"sent", "counted", "accepted"}
  BY <1>1 DEF InOnePlace
<1> QED BY <1>2, <1>3, <1>4, <1>5, <1>6 DEF InOnePlace

LEMMA SendPlaces ==
  ASSUME TypeInv, InOnePlace, NEW r \in Requests, SubmitSend(r)
  PROVE  /\ r \notin Queued /\ \A c \in Callers : r \notin ToSet(out[c])
         /\ Queued' = Queued \cup {r}
         /\ \A q \in SubQueues : \A x \in ToSet(queues'[q]) :
              x \in ToSet(queues[q]) \/ (x = r /\ q = SubQueueOf[r])
         /\ \A q \in SubQueues : IsInjective(queues'[q])
<1> DEFINE s == SubQueueOf[r]
<1>1. s \in SubQueues /\ queues[s] \in Seq(Requests) /\ submitter[r] = "locked"
  BY QueueMatrixAssumption DEF TypeInv, TypeOK, SubmitSend, SubmitPhase
<1>2. r \notin Queued /\ \A c \in Callers : r \notin ToSet(out[c])
  BY <1>1 DEF InOnePlace
<1>3. queues'[s] = Append(queues[s], r) /\ \A q \in SubQueues \ {s} : queues'[q] = queues[q]
  BY <1>1 DEF SubmitSend, TypeInv, TypeOK
<1>4. r \notin ToSet(queues[s]) /\ IsInjective(queues[s])
  BY <1>1, <1>2 DEF Queued, InOnePlace
<1>5. ToSet(queues'[s]) = ToSet(queues[s]) \cup {r} /\ IsInjective(queues'[s])
  BY <1>1, <1>3, <1>4, AppendNew, AppendElements
<1>6. \A q \in SubQueues : IsInjective(queues[q])
  BY DEF InOnePlace
<1>7. \A q \in SubQueues : ToSet(queues'[q]) =
        IF q = s THEN ToSet(queues[q]) \cup {r} ELSE ToSet(queues[q])
  BY <1>3, <1>5
<1>8. Queued' = Queued \cup {r}
  <2>1. \A x : x \in Queued <=> \E q \in SubQueues : x \in ToSet(queues[q])
    BY DEF Queued
  <2>2. \A x : x \in Queued' <=> \E q \in SubQueues : x \in ToSet(queues'[q])
    BY DEF Queued
  <2>3. \A x : x \in Queued' <=> x \in Queued \/ x = r
    BY <1>1, <1>7, <2>1, <2>2
  <2> QED BY <2>3
<1>9. \A q \in SubQueues : IsInjective(queues'[q])
  BY <1>3, <1>5, <1>6
<1>10. \A q \in SubQueues : \A x \in ToSet(queues'[q]) :
         x \in ToSet(queues[q]) \/ (x = r /\ q = SubQueueOf[r])
  BY <1>7
<1> QED BY Zenon, <1>2, <1>8, <1>9, <1>10

-----------------------------------------------------------------------------
(* The locals of a drain agree with its phase, and what a walk saw queued  *)
(* had been sent.                                                          *)
LocalsOK ==
  \A c \in Callers :
    /\ call[c] \in {"idle", "walk"} => out[c] = <<>>
    /\ call[c] = "idle" => seen[c] = {}
    /\ call[c] \in {"walk", "walkPull", "pull"} => limit[c] \in 1..MaxBatchSize
    /\ call[c] = "sweep" => swept
    /\ seen[c] \subseteq Submitted

PlaceInv == TypeInv /\ InOnePlace /\ LocalsOK

LEMMA PlacedIsSubmitted ==
  TypeInv /\ InOnePlace =>
    \A x \in Queued \cup UNION {ToSet(out[c]) : c \in Callers} : x \in Submitted
<1> SUFFICES ASSUME TypeInv, InOnePlace
             PROVE  \A x \in Queued \cup UNION {ToSet(out[c]) : c \in Callers} : x \in Submitted
  OBVIOUS
<1>1. \A c \in Callers : ToSet(out[c]) \subseteq Requests
  BY DEF TypeInv, TypeOK, ToSet
<1> QED BY <1>1, QueuedType DEF TypeInv, InOnePlace, Submitted

LEMMA PlaceInit == QMInit => InOnePlace /\ LocalsOK
<1> SUFFICES ASSUME QMInit PROVE InOnePlace /\ LocalsOK
  OBVIOUS
<1>1. ToSet(<<>>) = {} /\ IsInjective(<<>>)
  BY DEF ToSet, IsInjective
<1>2. Queued = {}
  BY <1>1 DEF QMInit, Queued
<1>3. InOnePlace
  BY <1>1, <1>2 DEF QMInit, InOnePlace
<1>4. LocalsOK
  BY DEF QMInit, LocalsOK
<1> QED BY <1>3, <1>4

LEMMA SubmitKeepsPlaces ==
  ASSUME PlaceInv, NEW r \in Requests,
         SubmitLock(r) \/ SubmitClosed(r) \/ SubmitStep(r)
  PROVE  InOnePlace' /\ LocalsOK'
<1>1. UNCHANGED drainVars /\ \E from, to : SubmitPhase(r, from, to)
  BY DEF SubmitLock, SubmitClosed, SubmitStep, SubmitSend, SubmitFull, SubmitCount,
         SubmitWake, SubmitPhase
<1>2. Submitted \subseteq Submitted'
  BY DEF PlaceInv, TypeInv, TypeOK, Submitted, SubmitLock, SubmitClosed, SubmitStep,
         SubmitSend, SubmitFull, SubmitCount, SubmitWake, SubmitPhase
<1>3. LocalsOK'
  BY <1>1, <1>2 DEF PlaceInv, LocalsOK, drainVars
<1>4. CASE SubmitSend(r)
  <2>1. r \in Submitted'
    BY <1>4 DEF Submitted, SubmitSend, SubmitPhase, PlaceInv, TypeInv, TypeOK
  <2>2. InOnePlace'
    <3> TypeInv /\ InOnePlace
      BY DEF PlaceInv
    <3>1. /\ \A c \in Callers : r \notin ToSet(out[c])
          /\ Queued' = Queued \cup {r}
          /\ \A q \in SubQueues : \A x \in ToSet(queues'[q]) :
               x \in ToSet(queues[q]) \/ (x = r /\ q = SubQueueOf[r])
          /\ \A q \in SubQueues : IsInjective(queues'[q])
      BY Zenon, <1>4, SendPlaces
    <3>2. out' = out
      BY <1>1 DEF drainVars
    <3>3. \A q \in SubQueues : \A x \in ToSet(queues'[q]) : SubQueueOf[x] = q
      BY <3>1 DEF PlaceInv, InOnePlace
    <3>4. \A c \in Callers : ToSet(out'[c]) \cap Queued' = {}
      BY <3>1, <3>2 DEF PlaceInv, InOnePlace
    <3>5. \A x \in Queued \cup UNION {ToSet(out[c]) : c \in Callers} : x \in Submitted'
      BY <1>2, PlacedIsSubmitted DEF PlaceInv
    <3>6. \A x \in Queued' \cup UNION {ToSet(out'[c]) : c \in Callers} : x \in Submitted'
      BY <2>1, <3>1, <3>2, <3>5
    <3>7. \A c \in Callers : IsInjective(out'[c])
      BY <3>2 DEF PlaceInv, InOnePlace
    <3>8. \A c, d \in Callers : c # d => ToSet(out'[c]) \cap ToSet(out'[d]) = {}
      BY <3>2 DEF PlaceInv, InOnePlace
    <3> QED BY <3>1, <3>3, <3>4, <3>6, <3>7, <3>8 DEF InOnePlace, Submitted
  <2> QED BY <1>3, <2>2
<1>5. CASE UNCHANGED queues
  <2>1. Queued' = Queued /\ out' = out
    BY <1>1, <1>5 DEF Queued, drainVars
  <2>2. \A x \in Queued \cup UNION {ToSet(out[c]) : c \in Callers} : x \in Submitted
    BY PlacedIsSubmitted DEF PlaceInv
  <2>3. InOnePlace'
    BY <1>2, <1>5, <2>1, <2>2 DEF PlaceInv, InOnePlace, Submitted
  <2> QED BY <1>3, <2>3
<1> QED BY <1>4, <1>5 DEF SubmitLock, SubmitClosed, SubmitStep, SubmitFull, SubmitCount, SubmitWake

LEMMA DrainKeepsPlaces ==
  ASSUME PlaceInv, NEW c \in Callers, DrainStep(c)
  PROVE  InOnePlace' /\ LocalsOK'
<1> USE DEF PlaceInv
<1>1. UNCHANGED submitter /\ Submitted' = Submitted /\ UNCHANGED <<limit, seen, swept>>
  BY DEF DrainStep, WalkSkip, WalkEnter, WalkEnd, Pull, PullStop, PullNothing, PullNone,
         Settle, Sweep, SweepNext, SweepEnd, Phase, submitVars, Submitted
<1>2. CASE Pull(c) \/ Sweep(c)
  <2>1. cursor[c] \in SubQueues /\ Receive(c, cursor[c]) /\ UNCHANGED call
        /\ call[c] \notin {"idle", "walk"} /\ \A d \in Callers \ {c} : out'[d] = out[d]
    BY <1>2 DEF Pull, Sweep, TypeInv, CursorOK, TypeOK, Receive
  <2>2. InOnePlace'
    BY <1>1, <2>1, ReceiveKeepsPlaces
  <2>3. LocalsOK'
    BY <1>1, <2>1 DEF LocalsOK
  <2> QED BY <2>2, <2>3
<1>3. ASSUME UNCHANGED <<queues, out>> PROVE InOnePlace'
  BY <1>1, <1>3 DEF InOnePlace, Queued
<1>4. CASE WalkSkip(c) \/ WalkEnter(c) \/ WalkEnd(c)
  <2>1. LocalsOK'
    BY <1>1, <1>4 DEF WalkSkip, WalkEnter, WalkEnd, Phase, LocalsOK, TypeInv, TypeOK
  <2> QED BY <1>3, <1>4, <2>1 DEF WalkSkip, WalkEnter, WalkEnd
<1>5. CASE PullStop(c) \/ PullNothing(c) \/ PullNone(c) \/ Settle(c)
  <2>1. LocalsOK'
    BY <1>1, <1>5 DEF PullStop, PullNothing, PullNone, Settle, Phase, LocalsOK, TypeInv, TypeOK
  <2> QED BY <1>3, <1>5, <2>1 DEF PullStop, PullNothing, PullNone, Settle
<1>6. CASE SweepNext(c) \/ SweepEnd(c)
  <2>1. LocalsOK'
    BY <1>1, <1>6 DEF SweepNext, SweepEnd, Phase, LocalsOK, TypeInv, TypeOK
  <2> QED BY <1>3, <1>6, <2>1 DEF SweepNext, SweepEnd
<1> QED BY <1>2, <1>4, <1>5, <1>6 DEF DrainStep

\* DrainBegin, DrainFromBegin, DrainAllBegin and Return move no request; the
\* result of a Return has left the matrix.
LEMMA CallKeepsPlaces ==
  ASSUME PlaceInv, NEW c \in Callers,
         \/ \E max \in 1..MaxBatchSize : DrainBegin(c, max)
         \/ \E max \in 1..MaxBatchSize, q \in SubQueues : DrainFromBegin(c, q, max)
         \/ DrainAllBegin(c)
         \/ Return(c)
  PROVE  InOnePlace' /\ LocalsOK'
<1> TypeInv /\ InOnePlace /\ LocalsOK
  BY DEF PlaceInv
<1>1. Queued \subseteq Submitted /\ Queued' = Queued /\ UNCHANGED submitter /\ Submitted' = Submitted
  BY PlacedIsSubmitted DEF DrainBegin, DrainFromBegin, DrainAllBegin, Return, Phase,
                           submitVars, Queued, Submitted
<1>2. UNCHANGED <<queues, out>> => InOnePlace'
  BY <1>1 DEF InOnePlace
<1>3. ASSUME NEW max \in 1..MaxBatchSize, DrainBegin(c, max) PROVE InOnePlace' /\ LocalsOK'
  <2>1. LocalsOK'
    BY <1>1, <1>3 DEF DrainBegin, Phase, LocalsOK, TypeInv, TypeOK
  <2> QED BY <1>2, <1>3, <2>1 DEF DrainBegin
<1>4. ASSUME NEW max \in 1..MaxBatchSize, NEW q \in SubQueues, DrainFromBegin(c, q, max)
      PROVE InOnePlace' /\ LocalsOK'
  <2>1. LocalsOK'
    BY <1>1, <1>4 DEF DrainFromBegin, Phase, LocalsOK, TypeInv, TypeOK
  <2> QED BY <1>2, <1>4, <2>1 DEF DrainFromBegin
<1>5. CASE DrainAllBegin(c)
  <2>1. LocalsOK'
    BY <1>1, <1>5 DEF DrainAllBegin, Phase, LocalsOK, TypeInv, TypeOK
  <2> QED BY <1>2, <1>5, <2>1 DEF DrainAllBegin
<1>6. CASE Return(c)
  <2>1. LocalsOK'
    BY <1>1, <1>6 DEF Return, Phase, LocalsOK, TypeInv, TypeOK
  <2>2. ToSet(<<>>) = {} /\ IsInjective(<<>>)
    BY DEF ToSet, IsInjective
  <2>3. \A d \in Callers : out'[d] = out[d] \/ out'[d] = <<>>
    BY <1>6 DEF Return, TypeInv, TypeOK
  <2>4. \A d \in Callers : IsInjective(out'[d]) /\ ToSet(out'[d]) \subseteq ToSet(out[d])
    BY <2>2, <2>3 DEF InOnePlace
  <2>5. queues' = queues
    BY <1>6 DEF Return
  <2>6. UNION {ToSet(out'[d]) : d \in Callers} \subseteq UNION {ToSet(out[d]) : d \in Callers}
    BY <2>4
  <2>7. \A d, e \in Callers : d # e => ToSet(out'[d]) \cap ToSet(out'[e]) = {}
    BY <2>4 DEF InOnePlace
  <2>8. \A d \in Callers : IsInjective(out'[d]) /\ ToSet(out'[d]) \cap Queued = {}
    BY <2>4 DEF InOnePlace
  <2>9. \A r \in Queued \cup UNION {ToSet(out'[d]) : d \in Callers} :
          submitter[r] \in {"sent", "counted", "accepted"}
    BY <2>6 DEF InOnePlace
  <2>10. InOnePlace'
    BY <1>1, <2>5, <2>7, <2>8, <2>9 DEF InOnePlace
  <2> QED BY <2>1, <2>10
<1> QED BY <1>3, <1>4, <1>5, <1>6

LEMMA PlaceStep == PlaceInv /\ [QMNext]_qmVars => PlaceInv'
<1> SUFFICES ASSUME PlaceInv, [QMNext]_qmVars PROVE InOnePlace' /\ LocalsOK'
  BY TypeStep DEF PlaceInv
<1>1. CASE Signal \/ TakeEvent \/ Close \/ UNCHANGED qmVars
  <2>1. UNCHANGED <<queues, submitter, drainVars>>
    BY <1>1 DEF Signal, TakeEvent, Close, qmVars, submitVars
  <2>2. Queued' = Queued /\ Submitted' = Submitted
    BY <2>1 DEF Queued, Submitted
  <2> QED BY <2>1, <2>2 DEF drainVars, PlaceInv, InOnePlace, LocalsOK
<1> QED BY <1>1, SubmitKeepsPlaces, DrainKeepsPlaces, CallKeepsPlaces DEF QMNext

(* No request is ever in two places, whatever the interleaving of Submits, *)
(* Drains, DrainFroms and DrainAlls (queue_matrix.go:72-96, 225-264).      *)
THEOREM PlacesAreExclusive == QMSpec => []InOnePlace
<1>1. QMInit => PlaceInv
  BY TypeInit, PlaceInit DEF PlaceInv
<1>2. PlaceInv => InOnePlace
  BY DEF PlaceInv
<1> QED BY <1>1, <1>2, PlaceStep, PTL DEF QMSpec

-----------------------------------------------------------------------------
(* A walk passes only over empty sub-queues, so what it saw queued is not  *)
(* behind it; and what arrives behind it was not there when it began.      *)

\* What a step does to the sub-queues: one may get a request no walk saw.
LEMMA NothingSeenArrives ==
  ASSUME PlaceInv, [QMNext]_qmVars, NEW q \in SubQueues, NEW c \in Callers,
         NEW x \in seen[c], x \in ToSet(queues'[q])
  PROVE  x \in ToSet(queues[q])
<1> TypeInv /\ InOnePlace /\ LocalsOK
  BY DEF PlaceInv
<1>1. ASSUME NEW r \in Requests, SubmitSend(r) PROVE x \in ToSet(queues[q])
  <2>1. x \in ToSet(queues[q]) \/ x = r
    BY <1>1, SendPlaces
  <2>2. r \notin seen[c]
    BY <1>1 DEF LocalsOK, Submitted, SubmitSend, SubmitPhase
  <2> QED BY <2>1, <2>2
<1>2. ASSUME NEW d \in Callers, Receive(d, cursor[d]), cursor[d] \in SubQueues
      PROVE  x \in ToSet(queues[q])
  <2>1. /\ ToSet(queues'[cursor[d]]) \subseteq ToSet(queues[cursor[d]])
        /\ \A p \in SubQueues \ {cursor[d]} : queues'[p] = queues[p]
    BY <1>2, ReceivePlaces
  <2> QED BY <2>1
<1>3. CASE UNCHANGED queues
  BY <1>3
<1>4. CASE Signal \/ TakeEvent \/ Close \/ UNCHANGED qmVars
  BY <1>3, <1>4 DEF Signal, TakeEvent, Close, qmVars
<1>5. ASSUME NEW r \in Requests, SubmitLock(r) \/ SubmitClosed(r) \/ SubmitStep(r)
      PROVE  x \in ToSet(queues[q])
  BY <1>1, <1>3, <1>5 DEF SubmitLock, SubmitClosed, SubmitStep, SubmitFull, SubmitCount, SubmitWake
<1>6. ASSUME NEW d \in Callers, DrainStep(d) PROVE x \in ToSet(queues[q])
  <2>1. CASE Pull(d) \/ Sweep(d)
    <3>1. cursor[d] \in SubQueues /\ Receive(d, cursor[d])
      BY <2>1 DEF Pull, Sweep, TypeInv, CursorOK
    <3> QED BY <1>2, <3>1
  <2>2. CASE ~(Pull(d) \/ Sweep(d))
    BY <1>3, <1>6, <2>2 DEF DrainStep, WalkSkip, WalkEnter, WalkEnd, PullStop, PullNothing,
                            PullNone, Settle, SweepNext, SweepEnd
  <2> QED BY <2>1, <2>2
<1>7. ASSUME NEW d \in Callers,
             \/ \E max \in 1..MaxBatchSize : DrainBegin(d, max)
             \/ \E max \in 1..MaxBatchSize, p \in SubQueues : DrainFromBegin(d, p, max)
             \/ DrainAllBegin(d)
             \/ Return(d)
      PROVE  x \in ToSet(queues[q])
  BY <1>3, <1>7 DEF DrainBegin, DrainFromBegin, DrainAllBegin, Return
<1> QED BY <1>4, <1>5, <1>6, <1>7 DEF QMNext

\* When a cursor moves on with something seen, the sub-queue it leaves is empty.
LEMMA CursorPassesEmpty ==
  ASSUME PlaceInv, [QMNext]_qmVars, NEW c \in Callers
  PROVE  \/ cursor'[c] = 1
         \/ seen'[c] = {}
         \/ seen'[c] = seen[c] /\ cursor'[c] = cursor[c]
         \/ /\ seen'[c] = seen[c] /\ cursor'[c] = cursor[c] + 1
            /\ cursor[c] \in SubQueues /\ queues'[cursor[c]] = <<>>
<1> TypeInv /\ InOnePlace /\ LocalsOK
  BY DEF PlaceInv
<1> DEFINE Goal == \/ cursor'[c] = 1
                   \/ seen'[c] = {}
                   \/ seen'[c] = seen[c] /\ cursor'[c] = cursor[c]
                   \/ /\ seen'[c] = seen[c] /\ cursor'[c] = cursor[c] + 1
                      /\ cursor[c] \in SubQueues /\ queues'[cursor[c]] = <<>>
<1>1. CASE UNCHANGED <<cursor, seen>>
  BY <1>1
<1>2. CASE Signal \/ TakeEvent \/ Close \/ UNCHANGED qmVars
  BY <1>1, <1>2 DEF Signal, TakeEvent, Close, qmVars, drainVars
<1>3. ASSUME NEW r \in Requests, SubmitLock(r) \/ SubmitClosed(r) \/ SubmitStep(r)
      PROVE  Goal
  BY <1>1, <1>3 DEF SubmitLock, SubmitClosed, SubmitStep, SubmitSend, SubmitFull, SubmitCount,
                    SubmitWake, SubmitPhase, drainVars
<1>4. ASSUME NEW d \in Callers, DrainStep(d) PROVE Goal
  <2>1. CASE WalkSkip(d) \/ SweepNext(d)
    BY <2>1 DEF WalkSkip, SweepNext, TypeInv, TypeOK
  <2>2. CASE PullNothing(d)
    <3>1. cursor[d] \in SubQueues /\ limit[d] \in 1..MaxBatchSize /\ out[d] = <<>>
      BY <2>2 DEF PullNothing, Phase, TypeInv, CursorOK, LocalsOK
    <3>2. Len(out[d]) # limit[d]
      BY <3>1
    <3>3. queues[cursor[d]] = <<>>
      BY <2>2, <3>2 DEF PullNothing, PullOver
    <3> QED BY <2>2, <3>1, <3>3 DEF PullNothing, TypeInv, TypeOK
  <2>3. CASE ~(WalkSkip(d) \/ SweepNext(d) \/ PullNothing(d))
    BY <1>1, <1>4, <2>3 DEF DrainStep, WalkEnter, WalkEnd, Pull, PullStop, PullNone, Settle,
                            Sweep, SweepEnd
  <2> QED BY <2>1, <2>2, <2>3
<1>5. ASSUME NEW d \in Callers, NEW max \in 1..MaxBatchSize, NEW q \in SubQueues,
             DrainFromBegin(d, q, max)
      PROVE  Goal
  BY <1>5 DEF DrainFromBegin, Phase, LocalsOK, TypeInv, TypeOK
<1>6. ASSUME NEW d \in Callers,
             \/ \E max \in 1..MaxBatchSize : DrainBegin(d, max)
             \/ DrainAllBegin(d)
             \/ Return(d)
      PROVE  Goal
  BY <1>6 DEF DrainBegin, DrainAllBegin, Return, TypeInv, TypeOK
<1> QED BY <1>2, <1>3, <1>4, <1>5, <1>6 DEF QMNext

(* What was queued when a Drain or DrainAll began is never behind its      *)
(* cursor (queue_matrix.go:106-120, 169-175).                              *)
THEOREM WalkLeavesNothing == QMSpec => []NothingLeftBehind
<1>1. QMInit => PlaceInv /\ NothingLeftBehind
  <2> SUFFICES ASSUME QMInit PROVE NothingLeftBehind
    BY TypeInit, PlaceInit DEF PlaceInv
  <2> QED BY DEF QMInit, NothingLeftBehind
<1>2. PlaceInv /\ NothingLeftBehind /\ [QMNext]_qmVars => NothingLeftBehind'
  <2> SUFFICES ASSUME PlaceInv, NothingLeftBehind, [QMNext]_qmVars,
                      NEW c \in Callers, NEW q \in SubQueues, q < cursor'[c],
                      NEW x \in seen'[c], x \in ToSet(queues'[q])
               PROVE  FALSE
    BY DEF NothingLeftBehind
  <2>1. cursor[c] \in 1..NumQueues + 1 /\ NumQueues \in Nat /\ q \in 1..NumQueues
    BY QueueMatrixAssumption DEF PlaceInv, TypeInv, TypeOK, SubQueues
  <2>2. CASE cursor'[c] = 1
    BY <2>1, <2>2
  <2>3. CASE seen'[c] = seen[c] /\ cursor'[c] = cursor[c]
    BY <2>3, NothingSeenArrives DEF NothingLeftBehind
  <2>4. CASE /\ seen'[c] = seen[c] /\ cursor'[c] = cursor[c] + 1
             /\ cursor[c] \in SubQueues /\ queues'[cursor[c]] = <<>>
    <3>1. q < cursor[c] \/ q = cursor[c]
      BY <2>1, <2>4
    <3>2. q # cursor[c]
      BY <2>4 DEF ToSet
    <3> QED BY <2>4, <3>1, <3>2, NothingSeenArrives DEF NothingLeftBehind
  <2> QED BY <2>2, <2>3, <2>4, CursorPassesEmpty
<1> QED BY <1>1, <1>2, PlaceStep, PTL DEF QMSpec

-----------------------------------------------------------------------------
(* The depth counter.                                                      *)

LEMMA CardType ==
  ASSUME NEW S \in SUBSET Requests
  PROVE  IsFiniteSet(S) /\ Cardinality(S) \in Nat
  BY FS_Subset, FS_CardinalityType, QueueMatrixAssumption

LEMMA CardAdd ==
  ASSUME NEW S \in SUBSET Requests, NEW x, x \notin S
  PROVE  Cardinality(S \cup {x}) = Cardinality(S) + 1
  BY FS_AddElement, CardType

LEMMA CardRemove ==
  ASSUME NEW S \in SUBSET Requests, NEW x \in S
  PROVE  Cardinality(S \ {x}) = Cardinality(S) - 1
  BY FS_RemoveElement, CardType

\* a sequence without repetition is as long as its set is large
LEMMA CardOfSequence ==
  ASSUME NEW s \in Seq(Requests), IsInjective(s)
  PROVE  Cardinality(ToSet(s)) = Len(s)
<1>1. Len(s) \in Nat /\ DOMAIN s = 1..Len(s) /\ s \in [1..Len(s) -> ToSet(s)]
  BY DEF ToSet
<1>2. IsFiniteSet(1..Len(s)) /\ Cardinality(1..Len(s)) = Len(s)
  BY <1>1, FS_Interval
<1>3. s \in Bijection(1..Len(s), ToSet(s))
  <2>1. \A i, j \in 1..Len(s) : s[i] = s[j] => i = j
    BY <1>1 DEF IsInjective
  <2>2. \A x \in ToSet(s) : \E i \in 1..Len(s) : s[i] = x
    BY <1>1 DEF ToSet
  <2> QED BY <1>1, <2>1, <2>2 DEF Bijection, Injection, Surjection
<1>4. ExistsBijection(1..Len(s), ToSet(s))
  BY <1>3 DEF ExistsBijection
<1> QED BY <1>2, <1>4, FS_Bijection

\* removing what one drain has received
LEMMA CardWithout ==
  ASSUME NEW S \in SUBSET Requests, NEW s \in Seq(Requests), IsInjective(s), ToSet(s) \subseteq S
  PROVE  Cardinality(S \ ToSet(s)) = Cardinality(S) - Len(s)
<1>1. S \cap ToSet(s) = ToSet(s) /\ IsFiniteSet(S)
  BY CardType
<1>2. Cardinality(S \ ToSet(s)) = Cardinality(S) - Cardinality(S \cap ToSet(s))
  BY <1>1, FS_Difference
<1> QED BY <1>1, <1>2, CardOfSequence

Unsettling == {"walkPull", "pull", "settle"}

LEMMA UnsettledIs ==
  \A x : x \in Unsettled <=> \E d \in Callers : call[d] \in Unsettling /\ x \in ToSet(out[d])
  BY DEF Unsettled, Unsettling

LEMMA CountedTypes ==
  TypeInv => /\ Queued \in SUBSET Requests /\ Unsettled \in SUBSET Requests
             /\ Uncounted \in SUBSET Requests
  BY QueuedType, UnsettledIs DEF TypeInv, TypeOK, Uncounted, ToSet

\* a caller with nothing in its result may enter or leave drainSubqueue
LEMMA UnsettledSame ==
  ASSUME TypeInv, NEW c \in Callers, NEW to, call' = [call EXCEPT ![c] = to],
         \/ out' = out
         \/ out' = [out EXCEPT ![c] = <<>>] /\ call[c] \notin Unsettling,
         \/ call[c] \in Unsettling /\ to \in Unsettling
         \/ call[c] \notin Unsettling /\ to \notin Unsettling
         \/ out[c] = <<>>
  PROVE  Unsettled' = Unsettled
<1>1. \A d \in Callers \ {c} : call'[d] = call[d] /\ out'[d] = out[d]
  BY DEF TypeInv, TypeOK
<1>2. ToSet(<<>>) = {}
  BY DEF ToSet
<1>3. \A x : call'[c] \in Unsettling /\ x \in ToSet(out'[c])
               <=> call[c] \in Unsettling /\ x \in ToSet(out[c])
  BY <1>2 DEF TypeInv, TypeOK
<1>4. \A x : x \in Unsettled' <=> x \in Unsettled
  BY <1>1, <1>3, UnsettledIs DEF Unsettled, Unsettling
<1> QED BY <1>4

LEMMA SubmitCounts ==
  ASSUME PlaceInv, DepthAccounting, NEW r \in Requests,
         SubmitLock(r) \/ SubmitClosed(r) \/ SubmitStep(r)
  PROVE  DepthAccounting'
<1> TypeInv /\ InOnePlace
  BY DEF PlaceInv
<1> DEFINE n == Cardinality(Queued)
           u == Cardinality(Unsettled)
           k == Cardinality(Uncounted)
<1>1. Unsettled' = Unsettled /\ swept' = swept
  BY DEF Unsettled, SubmitLock, SubmitClosed, SubmitStep, SubmitSend, SubmitFull, SubmitCount,
         SubmitWake, SubmitPhase, drainVars
<1>2. n \in Nat /\ u \in Nat /\ k \in Nat /\ depth \in Int
  BY CountedTypes, CardType DEF TypeInv, TypeOK
<1>3. CASE SubmitSend(r)
  <2>1. r \notin Queued /\ Queued' = Queued \cup {r}
    BY Zenon, <1>3, SendPlaces
  <2>2. r \notin Uncounted /\ Uncounted' = Uncounted \cup {r}
    BY <1>3 DEF SubmitSend, SubmitPhase, Uncounted, TypeInv, TypeOK
  <2>3. Cardinality(Queued') = n + 1 /\ Cardinality(Uncounted') = k + 1
    BY <2>1, <2>2, CardAdd, CountedTypes
  <2>4. depth' = depth
    BY <1>3 DEF SubmitSend
  <2> QED BY <1>1, <1>2, <2>3, <2>4 DEF DepthAccounting
<1>4. CASE SubmitCount(r)
  <2>1. r \in Uncounted /\ Uncounted' = Uncounted \ {r}
    BY <1>4 DEF SubmitCount, SubmitPhase, Uncounted, TypeInv, TypeOK
  <2>2. Cardinality(Uncounted') = k - 1
    BY <2>1, CardRemove, CountedTypes
  <2>3. depth' = depth + 1 /\ Queued' = Queued
    BY <1>4 DEF SubmitCount, Queued
  <2> QED BY <1>1, <1>2, <2>2, <2>3 DEF DepthAccounting
<1>5. CASE SubmitLock(r) \/ SubmitClosed(r) \/ SubmitFull(r) \/ SubmitWake(r)
  <2>1. Uncounted' = Uncounted
    BY <1>5 DEF SubmitLock, SubmitClosed, SubmitFull, SubmitWake, SubmitPhase, Uncounted,
                TypeInv, TypeOK
  <2>2. depth' = depth /\ Queued' = Queued
    BY <1>5 DEF SubmitLock, SubmitClosed, SubmitFull, SubmitWake, Queued
  <2> QED BY <1>1, <2>1, <2>2 DEF DepthAccounting
<1> QED BY <1>3, <1>4, <1>5 DEF SubmitStep

\* the request leaves the sub-queue and is received but not settled
LEMMA PullCounts ==
  ASSUME PlaceInv, DepthAccounting, NEW c \in Callers, Pull(c)
  PROVE  DepthAccounting'
<1> TypeInv /\ InOnePlace
  BY DEF PlaceInv
<1> DEFINE q == cursor[c]
           h == Head(queues[q])
<1>1. /\ q \in SubQueues /\ Receive(c, q) /\ call[c] \in Unsettling
      /\ UNCHANGED <<call, depth, submitter, swept>>
  BY DEF Pull, TypeInv, CursorOK, Unsettling, submitVars
<1>2. /\ h \in Queued /\ Queued' = Queued \ {h}
      /\ ToSet(out'[c]) = ToSet(out[c]) \cup {h}
      /\ \A d \in Callers \ {c} : out'[d] = out[d]
  BY <1>1, ReceivePlaces
<1> HIDE DEF h, q
<1>3. h \notin Unsettled
  BY <1>2, UnsettledIs DEF InOnePlace
<1>4. Unsettled' = Unsettled \cup {h}
  <2>1. \A x : x \in Unsettled' <=>
          \E d \in Callers : call[d] \in Unsettling /\ x \in ToSet(out'[d])
    BY <1>1 DEF Unsettled, Unsettling
  <2>2. \A x : x \in Unsettled' <=> x \in Unsettled \/ x = h
    BY <1>1, <1>2, <2>1, UnsettledIs
  <2> QED BY <2>2
<1>5. /\ Cardinality(Queued') = Cardinality(Queued) - 1
      /\ Cardinality(Unsettled') = Cardinality(Unsettled) + 1
  BY <1>2, <1>3, <1>4, CardAdd, CardRemove, CountedTypes
<1>6. Uncounted' = Uncounted
  BY <1>1 DEF Uncounted
<1>7. /\ Cardinality(Queued) \in Nat /\ Cardinality(Unsettled) \in Nat
      /\ Cardinality(Uncounted) \in Nat
  BY CountedTypes, CardType
<1> QED BY <1>1, <1>5, <1>6, <1>7 DEF DepthAccounting

\* what was received is subtracted, and is settled
LEMMA SettleCounts ==
  ASSUME PlaceInv, DepthAccounting, NEW c \in Callers, Settle(c)
  PROVE  DepthAccounting'
<1> TypeInv /\ InOnePlace
  BY DEF PlaceInv
<1>1. /\ call[c] = "settle" /\ call'[c] = "done" /\ \A d \in Callers \ {c} : call'[d] = call[d]
      /\ depth' = depth - Len(out[c])
      /\ UNCHANGED <<queues, out, submitter, swept>>
  BY DEF Settle, Phase, submitVars, TypeInv, TypeOK
<1>2. out[c] \in Seq(Requests) /\ IsInjective(out[c]) /\ Len(out[c]) \in Nat
  BY DEF TypeInv, TypeOK, InOnePlace
<1>3. ToSet(out[c]) \subseteq Unsettled
  BY <1>1, UnsettledIs DEF Unsettling
<1>4. Unsettled' = Unsettled \ ToSet(out[c])
  <2>1. \A x : x \in Unsettled' <=>
          \E d \in Callers : call'[d] \in Unsettling /\ x \in ToSet(out[d])
    BY <1>1 DEF Unsettled, Unsettling
  <2>2. \A x, d : d \in Callers \ {c} /\ x \in ToSet(out[d]) => x \notin ToSet(out[c])
    BY DEF InOnePlace
  <2>3. \A x : x \in Unsettled' <=> x \in Unsettled /\ x \notin ToSet(out[c])
    BY <1>1, <2>1, <2>2, UnsettledIs DEF Unsettling
  <2> QED BY <2>3
<1>5. Cardinality(Unsettled') = Cardinality(Unsettled) - Len(out[c])
  BY <1>2, <1>3, <1>4, CardWithout, CountedTypes
<1>6. Queued' = Queued /\ Uncounted' = Uncounted
  BY <1>1 DEF Queued, Uncounted
<1>7. /\ Cardinality(Queued) \in Nat /\ Cardinality(Unsettled) \in Nat
      /\ Cardinality(Uncounted) \in Nat /\ depth \in Int
  BY CountedTypes, CardType DEF TypeInv, TypeOK
<1> QED BY <1>1, <1>2, <1>5, <1>6, <1>7 DEF DepthAccounting

\* the other steps of a drain move nothing, or come after a DrainAll
LEMMA DrainCounts ==
  ASSUME PlaceInv, DepthAccounting, NEW c \in Callers, DrainStep(c)
  PROVE  DepthAccounting'
<1> TypeInv /\ LocalsOK
  BY DEF PlaceInv
<1>1. ASSUME UNCHANGED <<queues, depth, submitter, swept>>, Unsettled' = Unsettled
      PROVE  DepthAccounting'
  BY <1>1 DEF DepthAccounting, Queued, Uncounted
<1>2. ASSUME call[c] = "sweep", swept' = swept PROVE DepthAccounting'
  BY <1>2 DEF LocalsOK, DepthAccounting
<1>3. CASE WalkSkip(c) \/ WalkEnter(c) \/ WalkEnd(c)
  <2>1. out[c] = <<>> /\ out' = out
    BY <1>3 DEF WalkSkip, WalkEnter, WalkEnd, Phase, LocalsOK
  <2>2. \E to : call' = [call EXCEPT ![c] = to]
    BY <1>3 DEF WalkSkip, WalkEnter, WalkEnd, Phase
  <2>3. Unsettled' = Unsettled
    BY <2>1, <2>2, UnsettledSame
  <2> QED BY <1>1, <1>3, <2>3 DEF WalkSkip, WalkEnter, WalkEnd, Phase, submitVars
<1>4. CASE PullNothing(c) \/ PullNone(c)
  <2>1. out[c] = <<>> /\ out' = out
    BY <1>4 DEF PullNothing, PullNone
  <2>2. \E to : call' = [call EXCEPT ![c] = to]
    BY <1>4 DEF PullNothing, PullNone, Phase
  <2>3. Unsettled' = Unsettled
    BY <2>1, <2>2, UnsettledSame
  <2> QED BY <1>1, <1>4, <2>3 DEF PullNothing, PullNone, Phase, submitVars
<1>5. CASE PullStop(c)
  <2>1. call[c] \in Unsettling /\ call' = [call EXCEPT ![c] = "settle"] /\ out' = out
    BY <1>5 DEF PullStop, Phase, Unsettling
  <2>2. Unsettled' = Unsettled
    BY <2>1, UnsettledSame DEF Unsettling
  <2> QED BY <1>1, <1>5, <2>2 DEF PullStop, Phase, submitVars
<1>6. CASE Sweep(c) \/ SweepNext(c) \/ SweepEnd(c)
  BY <1>2, <1>6 DEF Sweep, SweepNext, SweepEnd, Phase
<1> QED BY <1>3, <1>4, <1>5, <1>6, PullCounts, SettleCounts DEF DrainStep

LEMMA CallCounts ==
  ASSUME PlaceInv, DepthAccounting, NEW c \in Callers,
         \/ \E max \in 1..MaxBatchSize : DrainBegin(c, max)
         \/ \E max \in 1..MaxBatchSize, q \in SubQueues : DrainFromBegin(c, q, max)
         \/ DrainAllBegin(c)
         \/ Return(c)
  PROVE  DepthAccounting'
<1> TypeInv /\ LocalsOK
  BY DEF PlaceInv
<1>1. ASSUME Unsettled' = Unsettled, swept' = swept PROVE DepthAccounting'
  <2>1. UNCHANGED <<queues, depth, submitter>>
    BY DEF DrainBegin, DrainFromBegin, DrainAllBegin, Return, Phase, submitVars
  <2> QED BY <1>1, <2>1 DEF DepthAccounting, Queued, Uncounted
<1>2. ASSUME NEW max \in 1..MaxBatchSize, DrainBegin(c, max) PROVE DepthAccounting'
  <2>1. Unsettled' = Unsettled
    BY <1>2, UnsettledSame DEF DrainBegin, Phase, LocalsOK
  <2> QED BY <1>1, <1>2, <2>1 DEF DrainBegin
<1>3. ASSUME NEW max \in 1..MaxBatchSize, NEW q \in SubQueues, DrainFromBegin(c, q, max)
      PROVE  DepthAccounting'
  <2>1. out[c] = <<>> /\ out' = out
    BY <1>3 DEF DrainFromBegin, Phase, LocalsOK
  <2>2. \E to : call' = [call EXCEPT ![c] = to]
    BY <1>3 DEF DrainFromBegin, Phase
  <2>3. Unsettled' = Unsettled
    BY <2>1, <2>2, UnsettledSame
  <2> QED BY <1>1, <1>3, <2>3 DEF DrainFromBegin
<1>4. CASE DrainAllBegin(c)
  BY <1>4 DEF DrainAllBegin, DepthAccounting
<1>5. CASE Return(c)
  <2>1. Unsettled' = Unsettled
    BY <1>5, UnsettledSame DEF Return, Phase, Unsettling
  <2> QED BY <1>1, <1>5, <2>1 DEF Return
<1> QED BY <1>2, <1>3, <1>4, <1>5

LEMMA DepthInit == QMInit => DepthAccounting
<1> SUFFICES ASSUME QMInit PROVE DepthAccounting
  OBVIOUS
<1>1. ToSet(<<>>) = {}
  BY DEF ToSet
<1>2. Queued = {} /\ Unsettled = {} /\ Uncounted = {} /\ depth = 0
  BY <1>1 DEF QMInit, Queued, Unsettled, Uncounted
<1>3. Cardinality({}) = 0
  BY FS_EmptySet
<1> QED BY <1>2, <1>3 DEF DepthAccounting

LEMMA DepthStep == PlaceInv /\ DepthAccounting /\ [QMNext]_qmVars => DepthAccounting'
<1> SUFFICES ASSUME PlaceInv, DepthAccounting, [QMNext]_qmVars PROVE DepthAccounting'
  OBVIOUS
<1>1. CASE Signal \/ TakeEvent \/ Close \/ UNCHANGED qmVars
  BY <1>1 DEF Signal, TakeEvent, Close, qmVars, submitVars, drainVars, DepthAccounting, Queued,
              Unsettled, Uncounted
<1> QED BY <1>1, SubmitCounts, DrainCounts, CallCounts DEF QMNext

(* Until a DrainAll the depth counter is the number of queued requests but *)
(* for the Add(1) and Add(-n) under way (queue_matrix.go:87, 236-247),     *)
(* for any number of requests, callers and sub-queues.                     *)
THEOREM DepthIsAccounted == QMSpec => []DepthAccounting
<1>1. QMInit => PlaceInv
  BY TypeInit, PlaceInit DEF PlaceInv
<1> QED BY <1>1, DepthInit, PlaceStep, DepthStep, PTL DEF QMSpec
=============================================================================
