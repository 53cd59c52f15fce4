---------------------------- MODULE QueueMatrix ----------------------------
(***************************************************************************)
(* The intake buffer of internal/batcher/packing/queue_matrix.go.          *)
(*                                                                         *)
(* Any number of HTTP handlers run Submit concurrently; any number of      *)
(* callers run Drain, DrainFrom, DrainAll, Signal and Close.  A Submit or  *)
(* a drain is a sequence of steps, one for each access to memory another   *)
(* goroutine can see: the RWMutex, a sub-queue channel, the atomic depth   *)
(* counter, the wake channel.                                              *)
(*                                                                         *)
(* A sub-queue is named by its position in the walk of Drain, so           *)
(* PriorityOf never increases along 1..NumQueues.  The program has 48 of   *)
(* them: 4 priorities x 2 request types x 6 token buckets.                 *)
(***************************************************************************)
EXTENDS Integers, FiniteSets, SequencesExt

CONSTANTS
  Requests,        \* the requests handlers may submit, each at most once
  Callers,         \* goroutines that drain the matrix
  NumQueues,       \* number of sub-queues
  PriorityOf,      \* sub-queue -> priority, 0 = low ... 3 = critical
  SubQueueOf,      \* request -> its exact (priority, type, bucket) sub-queue
  QueueCapacity,   \* batching.queue_capacity, the total over all sub-queues
  MaxBatchSize     \* the largest maxBatchSize a drain is called with

SubQueues == 1..NumQueues
Priorities == 0..3

ASSUME QueueMatrixAssumption ==
  /\ IsFiniteSet(Requests)
  /\ NumQueues \in Nat \ {0}
  /\ PriorityOf \in [SubQueues -> Priorities]
  /\ \A i, j \in SubQueues : i < j => PriorityOf[i] >= PriorityOf[j]
  /\ SubQueueOf \in [Requests -> SubQueues]
  /\ QueueCapacity \in Nat
  /\ MaxBatchSize \in Nat \ {0}

\* ceil(total / 16) with a floor of 1 on the total
PerQueueCapacity == (Max({1, QueueCapacity}) + 15) \div 16

VARIABLES
  queues,      \* sub-queue -> contents of its buffered channel, oldest first
  depth,       \* the atomic.Int64 total
  eventChan,   \* TRUE iff the capacity-1 wake channel holds a token
  closed,      \* Close has marked the matrix and closed every sub-queue
  submitter,   \* request -> how far its Submit has come
  call,        \* caller -> the phase of the drain it is executing
  cursor,      \* caller -> the sub-queue its drain has reached
  limit,       \* caller -> the maxBatchSize argument of its drain
  out,         \* caller -> the requests its drain has received so far
  seen,        \* history: what was queued when the caller's walk began
  swept        \* history: some DrainAll has begun

submitVars == <<closed, submitter>>
drainVars == <<call, cursor, limit, out, seen, swept>>
qmVars == <<queues, depth, eventChan, submitVars, drainVars>>

SubmitPhases ==
  {"outside",                          \* not in Submit yet
   "locked",                           \* holds the RLock, not closed
   "sent",                             \* the request is in its sub-queue
   "counted",                          \* depth.Add(1) is done
   "accepted",                         \* signalled, RUnlocked, returned nil
   "ErrQueueFull", "ErrShuttingDown"}  \* returned this error

CallPhases ==
  {"idle",      \* no drain in progress
   "walk",      \* Drain looks at len(ch) of the cursor's sub-queue
   "walkPull",  \* Drain is in drainSubqueue
   "pull",      \* DrainFrom is in drainSubqueue
   "settle",    \* drainSubqueue is about to do depth.Add(-n)
   "sweep",     \* DrainAll is in drainChannel
   "done"}      \* about to return out

Queued == UNION {ToSet(queues[q]) : q \in SubQueues}

\* Submit holds the read lock from RLock to its return.
Holding == {"locked", "sent", "counted"}
ReadLocked == \E r \in Requests : submitter[r] \in Holding

HasHigherPriorityThan(q) ==
  \E h \in SubQueues : PriorityOf[h] > PriorityOf[q] /\ queues[h] # <<>>

TypeOK ==
  /\ queues \in [SubQueues -> Seq(Requests)]
  /\ depth \in Int
  /\ eventChan \in BOOLEAN
  /\ closed \in BOOLEAN
  /\ submitter \in [Requests -> SubmitPhases]
  /\ call \in [Callers -> CallPhases]
  /\ cursor \in [Callers -> 1..NumQueues + 1]
  /\ limit \in [Callers -> 0..MaxBatchSize]
  /\ out \in [Callers -> Seq(Requests)]
  /\ seen \in [Callers -> SUBSET Requests]
  /\ swept \in BOOLEAN

QMInit ==
  /\ queues = [q \in SubQueues |-> <<>>]
  /\ depth = 0
  /\ eventChan = FALSE
  /\ closed = FALSE
  /\ submitter = [r \in Requests |-> "outside"]
  /\ call = [c \in Callers |-> "idle"]
  /\ cursor = [c \in Callers |-> 1]
  /\ limit = [c \in Callers |-> 0]
  /\ out = [c \in Callers |-> <<>>]
  /\ seen = [c \in Callers |-> {}]
  /\ swept = FALSE

-----------------------------------------------------------------------------
(* Submit(req).  The read lock is taken together with the closed check and *)
(* given up together with the step that decides the result: no other       *)
(* goroutine can tell these apart.                                         *)

SubmitPhase(r, from, to) ==
  /\ submitter[r] = from
  /\ submitter' = [submitter EXCEPT ![r] = to]
  /\ UNCHANGED <<closed, drainVars>>

\* RLock, and closed.Load() is false
SubmitLock(r) ==
  /\ ~closed
  /\ SubmitPhase(r, "outside", "locked")
  /\ UNCHANGED <<queues, depth, eventChan>>

\* RLock, and closed.Load() is true
SubmitClosed(r) ==
  /\ closed
  /\ SubmitPhase(r, "outside", "ErrShuttingDown")
  /\ UNCHANGED <<queues, depth, eventChan>>

\* ch <- req succeeds
SubmitSend(r) ==
  LET q == SubQueueOf[r]
  IN  /\ Len(queues[q]) < PerQueueCapacity
      /\ queues' = [queues EXCEPT ![q] = Append(@, r)]
      /\ SubmitPhase(r, "locked", "sent")
      /\ UNCHANGED <<depth, eventChan>>

\* ch <- req would block
SubmitFull(r) ==
  /\ Len(queues[SubQueueOf[r]]) >= PerQueueCapacity
  /\ SubmitPhase(r, "locked", "ErrQueueFull")
  /\ UNCHANGED <<queues, depth, eventChan>>

\* depth.Add(1)
SubmitCount(r) ==
  /\ SubmitPhase(r, "sent", "counted")
  /\ depth' = depth + 1
  /\ UNCHANGED <<queues, eventChan>>

\* the non-blocking send on eventChan, then RUnlock and return nil
SubmitWake(r) ==
  /\ SubmitPhase(r, "counted", "accepted")
  /\ eventChan' = TRUE
  /\ UNCHANGED <<queues, depth>>

\* the steps a handler inside Submit takes without being asked again
SubmitStep(r) ==
  \/ SubmitSend(r)
  \/ SubmitFull(r)
  \/ SubmitCount(r)
  \/ SubmitWake(r)

-----------------------------------------------------------------------------
(* Drain(max): the walk in strict priority order.                          *)

\* the next phase of caller c, and what its drain leaves alone
Phase(c, phases, to) ==
  /\ call[c] \in phases
  /\ call' = [call EXCEPT ![c] = to]
  /\ UNCHANGED submitVars

\* Mutant of DrainBegin: one more than maxBatchSize.
DrainBeginOneMore(c, max) ==
  /\ Phase(c, {"idle"}, "walk")
  /\ cursor' = [cursor EXCEPT ![c] = 1]
  /\ limit' = [limit EXCEPT ![c] = max + 1]
  /\ seen' = [seen EXCEPT ![c] = Queued]
  /\ UNCHANGED <<queues, depth, eventChan, out, swept>>

DrainBegin(c, max) ==
  /\ Phase(c, {"idle"}, "walk")
  /\ cursor' = [cursor EXCEPT ![c] = 1]
  /\ limit' = [limit EXCEPT ![c] = max]
  /\ seen' = [seen EXCEPT ![c] = Queued]
  /\ UNCHANGED <<queues, depth, eventChan, out, swept>>

\* Mutant of WalkSkip: the walk goes on without looking at len(ch).
WalkSkipBlindly(c) ==
  /\ Phase(c, {"walk"}, "walk")
  /\ cursor[c] \in SubQueues
  /\ cursor' = [cursor EXCEPT ![c] = @ + 1]
  /\ UNCHANGED <<queues, depth, eventChan, limit, out, seen, swept>>

\* len(ch) == 0: continue
WalkSkip(c) ==
  /\ Phase(c, {"walk"}, "walk")
  /\ cursor[c] \in SubQueues /\ queues[cursor[c]] = <<>>
  /\ cursor' = [cursor EXCEPT ![c] = @ + 1]
  /\ UNCHANGED <<queues, depth, eventChan, limit, out, seen, swept>>

\* len(ch) > 0: enter drainSubqueue
WalkEnter(c) ==
  /\ Phase(c, {"walk"}, "walkPull")
  /\ cursor[c] \in SubQueues /\ queues[cursor[c]] # <<>>
  /\ UNCHANGED <<queues, depth, eventChan, cursor, limit, out, seen, swept>>

\* every sub-queue was empty when it was looked at: return nil
WalkEnd(c) ==
  /\ Phase(c, {"walk"}, "done")
  /\ cursor[c] = NumQueues + 1
  /\ UNCHANGED <<queues, depth, eventChan, cursor, limit, out, seen, swept>>

(* DrainFrom(q, max): nil at once when q is empty, else drainSubqueue.     *)
DrainFromBegin(c, q, max) ==
  /\ Phase(c, {"idle"}, IF queues[q] = <<>> THEN "done" ELSE "pull")
  /\ cursor' = [cursor EXCEPT ![c] = q]
  /\ limit' = [limit EXCEPT ![c] = max]
  /\ UNCHANGED <<queues, depth, eventChan, out, seen, swept>>

-----------------------------------------------------------------------------
(* drainSubqueue: one non-blocking receive after another.                  *)

\* Mutant of Receive: the request is read but stays in the channel.
ReceivePeek(c, q) ==
  /\ queues[q] # <<>>
  /\ out' = [out EXCEPT ![c] = Append(@, Head(queues[q]))]
  /\ UNCHANGED queues

\* the request at the head of sub-queue q moves into out[c]
Receive(c, q) ==
  /\ queues[q] # <<>>
  /\ out' = [out EXCEPT ![c] = Append(@, Head(queues[q]))]
  /\ queues' = [queues EXCEPT ![q] = Tail(@)]

Pull(c) ==
  /\ call[c] \in {"walkPull", "pull"}
  /\ Len(out[c]) < limit[c]
  /\ Receive(c, cursor[c])
  /\ UNCHANGED <<depth, eventChan, submitVars, call, cursor, limit, seen, swept>>

\* Full, or a receive would block.  On a closed and empty sub-queue the
\* receive yields ok = false, whose break leaves only the select: the loop
\* goes round again and this action is not enabled.
PullOver(c) ==
  \/ Len(out[c]) = limit[c]
  \/ queues[cursor[c]] = <<>> /\ ~closed

PullStop(c) ==
  /\ Phase(c, {"walkPull", "pull"}, "settle")
  /\ PullOver(c) /\ out[c] # <<>>
  /\ UNCHANGED <<queues, depth, eventChan, cursor, limit, out, seen, swept>>

\* another caller emptied the sub-queue first: Drain walks on
PullNothing(c) ==
  /\ Phase(c, {"walkPull"}, "walk")
  /\ PullOver(c) /\ out[c] = <<>>
  /\ cursor' = [cursor EXCEPT ![c] = @ + 1]
  /\ UNCHANGED <<queues, depth, eventChan, limit, out, seen, swept>>

\* another caller emptied the sub-queue first: DrainFrom returns nothing
PullNone(c) ==
  /\ Phase(c, {"pull"}, "done")
  /\ PullOver(c) /\ out[c] = <<>>
  /\ UNCHANGED <<queues, depth, eventChan, cursor, limit, out, seen, swept>>

\* Mutant of Settle: subtracts what was asked for, not what was received.
SettleLimit(c) ==
  /\ Phase(c, {"settle"}, "done")
  /\ depth' = depth - limit[c]
  /\ UNCHANGED <<queues, eventChan, cursor, limit, out, seen, swept>>

\* depth.Add(-n)
Settle(c) ==
  /\ Phase(c, {"settle"}, "done")
  /\ depth' = depth - Len(out[c])
  /\ UNCHANGED <<queues, eventChan, cursor, limit, out, seen, swept>>

-----------------------------------------------------------------------------
(* DrainAll: drainChannel on every sub-queue, then depth.Store(0).         *)

DrainAllBegin(c) ==
  /\ Phase(c, {"idle"}, "sweep")
  /\ cursor' = [cursor EXCEPT ![c] = 1]
  /\ seen' = [seen EXCEPT ![c] = Queued]
  /\ swept' = TRUE
  /\ UNCHANGED <<queues, depth, eventChan, limit, out>>

Sweep(c) ==
  /\ call[c] = "sweep"
  /\ cursor[c] \in SubQueues
  /\ Receive(c, cursor[c])
  /\ UNCHANGED <<depth, eventChan, submitVars, call, cursor, limit, seen, swept>>

SweepNext(c) ==
  /\ Phase(c, {"sweep"}, "sweep")
  /\ cursor[c] \in SubQueues /\ queues[cursor[c]] = <<>>
  /\ cursor' = [cursor EXCEPT ![c] = @ + 1]
  /\ UNCHANGED <<queues, depth, eventChan, limit, out, seen, swept>>

SweepEnd(c) ==
  /\ Phase(c, {"sweep"}, "done")
  /\ cursor[c] = NumQueues + 1
  /\ depth' = 0
  /\ UNCHANGED <<queues, eventChan, cursor, limit, out, seen, swept>>

-----------------------------------------------------------------------------
\* the drain returns out[c] to its caller, and its locals are gone
Return(c) ==
  /\ Phase(c, {"done"}, "idle")
  /\ cursor' = [cursor EXCEPT ![c] = 1]
  /\ limit' = [limit EXCEPT ![c] = 0]
  /\ out' = [out EXCEPT ![c] = <<>>]
  /\ seen' = [seen EXCEPT ![c] = {}]
  /\ UNCHANGED <<queues, depth, eventChan, swept>>

\* what caller c does inside a drain, in program order
DrainStep(c) ==
  \/ WalkSkip(c) \/ WalkEnter(c) \/ WalkEnd(c)
  \/ Pull(c) \/ PullStop(c) \/ PullNothing(c) \/ PullNone(c)
  \/ Settle(c)
  \/ Sweep(c) \/ SweepNext(c) \/ SweepEnd(c)

\* Signal: the non-blocking send on eventChan
Signal ==
  /\ eventChan' = TRUE
  /\ UNCHANGED <<queues, depth, submitVars, drainVars>>

\* a receive from EventChan()
TakeEvent ==
  /\ eventChan
  /\ eventChan' = FALSE
  /\ UNCHANGED <<queues, depth, submitVars, drainVars>>

\* Mutant of Close: it does not take the write lock.
CloseUnlocked ==
  /\ closed' = TRUE
  /\ UNCHANGED <<queues, depth, eventChan, submitter, drainVars>>

\* Close waits for the write lock, so for every Submit that holds the read
\* lock; later calls change nothing (closeOnce).
Close ==
  /\ ~ReadLocked
  /\ closed' = TRUE
  /\ UNCHANGED <<queues, depth, eventChan, submitter, drainVars>>

-----------------------------------------------------------------------------
QMNext ==
  \/ \E r \in Requests : SubmitLock(r) \/ SubmitClosed(r) \/ SubmitStep(r)
  \/ \E c \in Callers :
       \/ \E max \in 1..MaxBatchSize : DrainBegin(c, max)
       \/ \E max \in 1..MaxBatchSize, q \in SubQueues : DrainFromBegin(c, q, max)
       \/ DrainAllBegin(c)
       \/ DrainStep(c)
       \/ Return(c)
  \/ Signal
  \/ TakeEvent
  \/ Close

QMSpec == QMInit /\ [][QMNext]_qmVars

-----------------------------------------------------------------------------
(* Properties.                                                             *)

\* received by a drainSubqueue that has not yet done depth.Add(-n)
Unsettled == UNION {ToSet(out[c]) : c \in
                      {d \in Callers : call[d] \in {"walkPull", "pull", "settle"}}}

\* in the sub-queue, or already received, but not yet counted by depth.Add(1)
Uncounted == {r \in Requests : submitter[r] = "sent"}

(* Until a DrainAll, the depth counter is the number of queued requests,   *)
(* off by exactly the requests whose Add(1) or Add(-n) is still to come:   *)
(* Submit adds after its send (line 87) and drainSubqueue subtracts after  *)
(* its receives (lines 238, 244), so a request may even be subtracted      *)
(* before it is added.                                                     *)
DepthAccounting ==
  ~swept => depth = Cardinality(Queued) + Cardinality(Unsettled)
                      - Cardinality(Uncounted)

(* However Submits, Drains and DrainAlls interleave, a request is in one   *)
(* place at most (one slot of its own sub-queue, or one slot of the result *)
(* of one drain), and only after its Submit has sent it.                   *)
InOnePlace ==
  /\ \A q \in SubQueues : IsInjective(queues[q])
  /\ \A q \in SubQueues : \A r \in ToSet(queues[q]) : SubQueueOf[r] = q
  /\ \A c \in Callers : IsInjective(out[c])
  /\ \A c \in Callers : ToSet(out[c]) \cap Queued = {}
  /\ \A c, d \in Callers : c # d => ToSet(out[c]) \cap ToSet(out[d]) = {}
  /\ \A r \in Queued \cup UNION {ToSet(out[c]) : c \in Callers} :
       submitter[r] \in {"sent", "counted", "accepted"}

(* What was queued when a Drain or DrainAll began and lies behind its      *)
(* cursor has been taken: the walk passes over a sub-queue only when it is *)
(* empty, so the requests behind the cursor arrived after the call.  For   *)
(* Drain: a batch is overtaken by no request of a higher priority that was *)
(* there when the call began.  For DrainAll: nothing that was there stays. *)
NothingLeftBehind ==
  \A c \in Callers, q \in SubQueues :
    q < cursor[c] => seen[c] \cap ToSet(queues[q]) = {}

(* Close marks the matrix closed and closes the channels only when no      *)
(* Submit is between its closed check and its send: a send on a closed     *)
(* channel would panic.                                                    *)
CloseExcludesSubmit == closed => ~ReadLocked
=============================================================================
