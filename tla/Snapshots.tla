----------------------------- MODULE Snapshots ------------------------------
(***************************************************************************)
(* The way of the percentiles to a dashboard (internal/api/handlers/ws.go, *)
(* internal/metrics/collector.go): the tracker stores them one atomic at a *)
(* time, the publish loop builds a snapshot from them and publishes a      *)
(* pointer to it, and one handler for each WebSocket connection marshals   *)
(* what the pointer refers to and writes it to a socket whose reader may   *)
(* be slow, stalled or gone.                                               *)
(*                                                                         *)
(* A percentile is the number of the materialisation that it comes from,   *)
(* a timestamp the number of the snapshot; 0 is what is there at first.    *)
(***************************************************************************)
EXTENDS Naturals, Sequences

CONSTANTS
  Clients,        \* dashboards, each with one connection after another
  SocketBuffer,   \* messages that the kernel keeps for a peer that does not read
  MaxMaterialised,  \* bound on the materialisations
  MaxSnapshots    \* bound on the snapshots

ASSUME SnapshotsAssumption ==
  SocketBuffer \in Nat \ {0} /\ MaxMaterialised \in Nat /\ MaxSnapshots \in Nat

VARIABLES
  p50, p99,       \* the atomics of the tracker
  builds,         \* number of BuildSnapshot calls of the publisher
  loop,           \* publish loop -> where it is and the snapshot it builds
  cells,          \* the snapshots that pointers refer to
  current,        \* SnapshotPublisher.current
  built,          \* history: what BuildSnapshot has returned
  peer,           \* client -> what its side of the connection does
  handler,        \* client -> where the push loop of HandleWebSocket is
  snap,           \* client -> the pointer its push loop has loaded
  message,        \* client -> what it is marshalling
  cancelled,      \* client -> the context of its connection is done
  reader,         \* client -> its read goroutine exists
  open,           \* client -> the server has not closed the connection
  socket,         \* client -> messages written and not yet read
  seen            \* client -> the timestamp its dashboard shows

trackerVars == <<p50, p99>>
publisherVars == <<builds, loop, cells, current, built>>
handlerVars == <<handler, snap, message>>
connVars == <<peer, cancelled, reader, open, socket, seen>>
vars == <<trackerVars, publisherVars, handlerVars, connVars>>

\* Mutant of PublishLoops: Start is called twice.
PublishLoopsTwo == {1, 2}

\* "Safe to call exactly once"
PublishLoops == {1}

Snapshot(timestamp, low, high) == [timestamp |-> timestamp, p50 |-> low, p99 |-> high]
Empty == Snapshot(0, 0, 0)
Snapshots ==
  [timestamp : 0..MaxSnapshots, p50 : 0..MaxMaterialised, p99 : 0..MaxMaterialised]

TypeOK ==
  /\ p50 \in 0..MaxMaterialised /\ p99 \in 0..MaxMaterialised
  /\ builds \in 0..MaxSnapshots
  /\ loop \in [PublishLoops -> [at : {"select", "p50", "p99", "store", "returned"},
                                snap : Snapshots]]
  /\ cells \in [0..MaxSnapshots -> Snapshots]
  /\ current \in 0..MaxSnapshots
  /\ built \in SUBSET Snapshots
  /\ peer \in [Clients -> {"reading", "stalled", "gone"}]
  /\ handler \in [Clients -> {"none", "select", "marshal", "percentile", "write", "return"}]
  /\ snap \in [Clients -> 0..MaxSnapshots]
  /\ message \in [Clients -> Snapshots]
  /\ cancelled \in [Clients -> BOOLEAN]
  /\ reader \in [Clients -> BOOLEAN] /\ open \in [Clients -> BOOLEAN]
  /\ socket \in [Clients -> Seq(Snapshots)]
  /\ seen \in [Clients -> 0..MaxSnapshots]

Init ==
  /\ p50 = 0 /\ p99 = 0
  /\ builds = 0
  /\ loop = [l \in PublishLoops |-> [at |-> "select", snap |-> Empty]]
  /\ cells = [i \in 0..MaxSnapshots |-> Empty]
  /\ current = 0
  /\ built = {Empty}
  /\ peer = [c \in Clients |-> "gone"]
  /\ handler = [c \in Clients |-> "none"]
  /\ snap = [c \in Clients |-> 0]
  /\ message = [c \in Clients |-> Empty]
  /\ cancelled = [c \in Clients |-> TRUE]
  /\ reader = [c \in Clients |-> FALSE] /\ open = [c \in Clients |-> FALSE]
  /\ socket = [c \in Clients |-> <<>>]
  /\ seen = [c \in Clients |-> 0]

-----------------------------------------------------------------------------
(* materialize: P50 is stored before P99                                   *)

\* Mutant of StoreP50: a second loop materialises at the same time.
StoreP50Twice ==
  /\ p50 < p99 + 2 /\ p50 < MaxMaterialised
  /\ p50' = p50 + 1
  /\ UNCHANGED <<p99, publisherVars, handlerVars, connVars>>

StoreP50 ==
  /\ p50 = p99 /\ p50 < MaxMaterialised
  /\ p50' = p50 + 1
  /\ UNCHANGED <<p99, publisherVars, handlerVars, connVars>>

StoreP99 ==
  /\ p99 # p50
  /\ p99' = p50
  /\ UNCHANGED <<p50, publisherVars, handlerVars, connVars>>

-----------------------------------------------------------------------------
(* publishLoop and BuildSnapshot                                           *)

\* one step of a publish loop, which leaves it with this snapshot
LoopStep(l, from, to, snapshot) ==
  /\ loop[l].at = from
  /\ loop' = [loop EXCEPT ![l] = [at |-> to, snap |-> snapshot]]
  /\ UNCHANGED <<trackerVars, handlerVars, connVars>>

\* a tick, and time.Now
BuildBegin(l) ==
  /\ builds < MaxSnapshots
  /\ builds' = builds + 1
  /\ LoopStep(l, "select", "p50", Snapshot(builds', 0, 0))
  /\ UNCHANGED <<cells, current, built>>

LoadP50(l) ==
  /\ LoopStep(l, "p50", "p99", [loop[l].snap EXCEPT !.p50 = p50])
  /\ UNCHANGED <<builds, cells, current, built>>

LoadP99(l) ==
  /\ LoopStep(l, "p99", "store", [loop[l].snap EXCEPT !.p99 = p99])
  /\ built' = built \cup {loop'[l].snap}
  /\ UNCHANGED <<builds, cells, current>>

\* Mutant of Publish: one variable, declared before the loop, holds every snapshot.
PublishInPlace(l) ==
  /\ LoopStep(l, "store", "select", loop[l].snap)
  /\ cells' = [cells EXCEPT ![1] = loop[l].snap]
  /\ current' = 1
  /\ UNCHANGED <<builds, built>>

\* the snapshot goes to a variable of this iteration, and the pointer to it is stored
Publish(l) ==
  /\ LoopStep(l, "store", "select", loop[l].snap)
  /\ cells' = [cells EXCEPT ![loop[l].snap.timestamp] = loop[l].snap]
  /\ current' = loop[l].snap.timestamp
  /\ UNCHANGED <<builds, built>>

\* <-ctx.Done(): the server is told to stop
PublishEnds(l) ==
  /\ LoopStep(l, "select", "returned", loop[l].snap)
  /\ UNCHANGED <<builds, cells, current, built>>

PublishLoop(l) == BuildBegin(l) \/ LoadP50(l) \/ LoadP99(l) \/ Publish(l)

-----------------------------------------------------------------------------
(* HandleWebSocket                                                         *)

\* Upgrade, and the read goroutine; an upgrade that fails changes nothing
Connect(c) ==
  /\ handler[c] = "none" /\ ~reader[c]
  /\ peer' = [peer EXCEPT ![c] = "reading"]
  /\ handler' = [handler EXCEPT ![c] = "select"]
  /\ cancelled' = [cancelled EXCEPT ![c] = FALSE]
  /\ reader' = [reader EXCEPT ![c] = TRUE]
  /\ open' = [open EXCEPT ![c] = TRUE]
  /\ socket' = [socket EXCEPT ![c] = <<>>]
  /\ snap' = [snap EXCEPT ![c] = 0]
  /\ UNCHANGED <<trackerVars, publisherVars, message, seen>>

HandlerStep(c, from, to) ==
  /\ handler[c] = from
  /\ handler' = [handler EXCEPT ![c] = to]
  /\ UNCHANGED <<trackerVars, publisherVars, peer, reader, seen>>

\* Mutant of Tick: the pointer is loaded once, before the loop.
TickHoisted(c) ==
  /\ HandlerStep(c, "select", "marshal")
  /\ snap' = [snap EXCEPT ![c] = IF @ = 0 THEN current ELSE @]
  /\ UNCHANGED <<message, cancelled, open, socket>>

\* publisher.Current()
Tick(c) ==
  /\ HandlerStep(c, "select", "marshal")
  /\ snap' = [snap EXCEPT ![c] = current]
  /\ UNCHANGED <<message, cancelled, open, socket>>

\* WriteJSON reads the fields of what the pointer refers to, one by one
Marshal(c) ==
  /\ HandlerStep(c, "marshal", "percentile")
  /\ message' = [message EXCEPT ![c] =
       LET s == cells[snap[c]] IN Snapshot(s.timestamp, s.p50, 0)]
  /\ UNCHANGED <<snap, cancelled, open, socket>>

MarshalP99(c) ==
  /\ HandlerStep(c, "percentile", "write")
  /\ message' = [message EXCEPT ![c] = [@ EXCEPT !.p99 = cells[snap[c]].p99]]
  /\ UNCHANGED <<snap, cancelled, open, socket>>

Write(c) ==
  /\ Len(socket[c]) < SocketBuffer
  /\ HandlerStep(c, "write", "select")
  /\ socket' = [socket EXCEPT ![c] = Append(@, message[c])]
  /\ UNCHANGED <<snap, message, cancelled, open>>

\* Mutant of WriteFails: there is no write deadline.
WriteFailsUntimed(c) ==
  /\ peer[c] = "gone"
  /\ HandlerStep(c, "write", "return")
  /\ UNCHANGED <<snap, message, cancelled, open, socket>>

\* the connection is reset, or it is full and the five seconds have passed
WriteFails(c) ==
  /\ peer[c] = "gone" \/ (peer[c] = "stalled" /\ Len(socket[c]) = SocketBuffer)
  /\ HandlerStep(c, "write", "return")
  /\ UNCHANGED <<snap, message, cancelled, open, socket>>

\* <-ctx.Done()
Done(c) ==
  /\ cancelled[c]
  /\ HandlerStep(c, "select", "return")
  /\ UNCHANGED <<snap, message, cancelled, open, socket>>

\* the deferred calls: cancel and conn.Close
HandlerReturns(c) ==
  /\ HandlerStep(c, "return", "none")
  /\ cancelled' = [cancelled EXCEPT ![c] = TRUE]
  /\ open' = [open EXCEPT ![c] = FALSE]
  /\ UNCHANGED <<snap, message, socket>>

Serve(c) ==
  \/ Tick(c) \/ Marshal(c) \/ MarshalP99(c)
  \/ Write(c) \/ WriteFails(c)
  \/ Done(c) \/ HandlerReturns(c)

\* ReadMessage returns an error: the peer is gone, or the connection closed
ReaderEnds(c) ==
  /\ reader[c] /\ (peer[c] = "gone" \/ ~open[c])
  /\ reader' = [reader EXCEPT ![c] = FALSE]
  /\ cancelled' = [cancelled EXCEPT ![c] = TRUE]
  /\ UNCHANGED <<trackerVars, publisherVars, handlerVars, peer, open, socket, seen>>

-----------------------------------------------------------------------------
(* The other end of the connection                                         *)

\* it reads a message and shows it
PeerReads(c) ==
  /\ peer[c] = "reading" /\ socket[c] # <<>>
  /\ seen' = [seen EXCEPT ![c] = Head(socket[c]).timestamp]
  /\ socket' = [socket EXCEPT ![c] = Tail(@)]
  /\ UNCHANGED <<trackerVars, publisherVars, handlerVars, peer, cancelled, reader, open>>

\* it stops reading or vanishes without a word, goes on, or closes
PeerBecomes(c, how) ==
  /\ peer[c] \notin {how, "gone"}
  /\ peer' = [peer EXCEPT ![c] = how]
  /\ UNCHANGED <<trackerVars, publisherVars, handlerVars, cancelled, reader, open, socket,
                 seen>>

-----------------------------------------------------------------------------
Next ==
  \/ StoreP50 \/ StoreP99
  \/ \E l \in PublishLoops : PublishLoop(l) \/ PublishEnds(l)
  \/ \E c \in Clients :
       \/ Connect(c) \/ Serve(c) \/ ReaderEnds(c) \/ PeerReads(c)
       \/ \E how \in {"reading", "stalled", "gone"} : PeerBecomes(c, how)

Spec == Init /\ [][Next]_vars

(* Tickers tick, goroutines are scheduled, the deadline of a blocked write *)
(* passes, and a dashboard whose side is "reading" does read.  Nothing     *)
(* says that anybody connects, that a peer recovers or leaves, or that     *)
(* latencies come in.                                                      *)
FairSpec ==
  /\ Spec
  /\ \A l \in PublishLoops : WF_vars(PublishLoop(l))
  /\ \A c \in Clients : WF_vars(Serve(c)) /\ WF_vars(ReaderEnds(c)) /\ WF_vars(PeerReads(c))

-----------------------------------------------------------------------------
(* Properties.                                                             *)

(* BuildSnapshot reads two atomics that the tracker stores one after the   *)
(* other, and may meet it in between: the P99 of a snapshot is then one    *)
(* materialisation older than its P50, and may be below it, but never      *)
(* more than one (collector.go:203-204, latency.go:93-95).                 *)
AtMostOneOlder == \A s \in built : s.p50 <= s.p99 + 1

(* Every message is one snapshot as BuildSnapshot returned it, although    *)
(* the publisher goes on while a handler marshals: a published snapshot    *)
(* does not change (ws.go:50-51, 111-116).                                 *)
MessagesAreSnapshots ==
  \A c \in Clients : \A i \in 1..Len(socket[c]) : socket[c][i] \in built

(* A dashboard never goes back to an older snapshot, not even on a new     *)
(* connection: there is one publish loop, and each handler loads the       *)
(* pointer anew (ws.go:31-34, 111).                                        *)
NeverGoesBack ==
  [][\A c \in Clients : seen'[c] >= seen[c]]_vars

(* The goroutines of a connection whose peer has stopped reading or is     *)
(* gone for good both end: a blocked write meets its deadline, the         *)
(* deferred Close wakes the reader, and the reader's error cancels the     *)
(* push loop (ws.go:84-97, 115-118).                                       *)
ConnectionsEnd ==
  \A c \in Clients :
    <>[](peer[c] # "reading") => []<>(handler[c] = "none" /\ ~reader[c])

(* A dashboard that stays connected and reads gets to see a snapshot as    *)
(* new as any that is published (ws.go:107-116).                           *)
DashboardsCatchUp ==
  \A c \in Clients : \A n \in 1..MaxSnapshots :
    open[c] /\ current >= n ~> seen[c] >= n \/ peer[c] # "reading" \/ ~open[c]
=============================================================================
