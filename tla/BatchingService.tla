-------------------------- MODULE BatchingService --------------------------
(***************************************************************************)
(* What the batching layer promises, without goroutines, channels of wake  *)
(* tokens, depth counters or windows: one first-in first-out line of       *)
(* accepted requests for each sub-queue.  A batch is a prefix of one line, *)
(* never longer than MaxBatchSize, put on the channel of the line's        *)
(* priority.  When the service gives up, requests leave the front of a     *)
(* line to be answered with ErrShuttingDown.                               *)
(*                                                                         *)
(* AdaptiveBatcher implements this specification.                          *)
(***************************************************************************)
EXTENDS Integers, SequencesExt

CONSTANTS
  Requests, SubQueues, Priorities, PriorityOf, SubQueueOf,
  MaxBatchSize,
  ChanCapacity    \* batches one priority's channel holds

VARIABLES
  fresh,      \* requests not accepted (yet)
  line,       \* sub-queue -> accepted requests in arrival order
  channel,    \* priority -> batches waiting for a worker
  delivered,  \* requests a worker has received
  refused     \* requests to be answered with ErrShuttingDown

vars == <<fresh, line, channel, delivered, refused>>

Init ==
  /\ fresh = Requests
  /\ line = [q \in SubQueues |-> <<>>]
  /\ channel = [p \in Priorities |-> <<>>]
  /\ delivered = {}
  /\ refused = {}

Accept(r) ==
  /\ r \in fresh
  /\ fresh' = fresh \ {r}
  /\ line' = [line EXCEPT ![SubQueueOf[r]] = Append(@, r)]
  /\ UNCHANGED <<channel, delivered, refused>>

\* the first n requests of line q leave it
Take(q, n) ==
  /\ n <= Len(line[q])
  /\ line' = [line EXCEPT ![q] = SubSeq(@, n + 1, Len(@))]

Form(q, n) ==
  LET p == PriorityOf[q]
  IN  /\ Take(q, n)
      /\ Len(channel[p]) < ChanCapacity
      /\ channel' = [channel EXCEPT ![p] = Append(@, SubSeq(line[q], 1, n))]
      /\ UNCHANGED <<fresh, delivered, refused>>

Deliver(p) ==
  /\ channel[p] # <<>>
  /\ channel' = [channel EXCEPT ![p] = Tail(@)]
  /\ delivered' = delivered \cup ToSet(Head(channel[p]))
  /\ UNCHANGED <<fresh, line, refused>>

Refuse(q, n) ==
  /\ Take(q, n)
  /\ refused' = refused \cup ToSet(SubSeq(line[q], 1, n))
  /\ UNCHANGED <<fresh, channel, delivered>>

Next ==
  \/ \E r \in Requests : Accept(r)
  \/ \E q \in SubQueues, n \in 1..MaxBatchSize : Form(q, n) \/ Refuse(q, n)
  \/ \E p \in Priorities : Deliver(p)

Spec == Init /\ [][Next]_vars
=============================================================================
