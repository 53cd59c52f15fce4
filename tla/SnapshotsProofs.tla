--------------------------- MODULE SnapshotsProofs --------------------------
(***************************************************************************)
(* Machine-checked theorems about Snapshots, for any set of dashboards,    *)
(* any socket buffer and any number of snapshots.                          *)
(***************************************************************************)
EXTENDS Snapshots, TLAPS

\* the tracker is at most one store ahead of itself
TrackerInv == p50 = p99 \/ p50 = p99 + 1

\* the publish loop: what it has loaded, and that its snapshot is a new one
PublisherInv ==
  \A l \in PublishLoops :
    /\ loop[l].at = "p99" => loop[l].snap.p50 <= p50
    /\ loop[l].at = "store" => loop[l].snap \in built
    /\ loop[l].at \in {"p50", "p99", "store"} =>
         loop[l].snap.timestamp = builds /\ builds = current + 1
    /\ loop[l].at \in {"select", "returned"} => builds = current

\* published snapshots: each is in the cell of its number, and was built
CellsInv ==
  /\ \A i \in 0..MaxSnapshots : cells[i] \in built
  /\ \A i \in 0..current : cells[i].timestamp = i
  /\ \A s \in built : s.p50 <= s.p99 + 1

\* what a push loop has loaded and marshalled, and that it is not behind what
\* it has written before
HandlerInv(c) ==
  /\ snap[c] <= current /\ seen[c] <= current
  /\ handler[c] = "percentile" => message[c] = Snapshot(snap[c], cells[snap[c]].p50, 0)
  /\ handler[c] = "write" => message[c] \in built /\ message[c].timestamp = snap[c]
  /\ handler[c] \in {"marshal", "percentile", "write"} =>
       seen[c] <= snap[c] /\ \A i \in 1..Len(socket[c]) : socket[c][i].timestamp <= snap[c]

\* messages under way were built, and come in the order of their timestamps
SocketInv(c) ==
  \A i \in 1..Len(socket[c]) :
    /\ socket[c][i] \in built
    /\ seen[c] <= socket[c][i].timestamp /\ socket[c][i].timestamp <= current
    /\ \A j \in 1..Len(socket[c]) :
         i <= j => socket[c][i].timestamp <= socket[c][j].timestamp

ClientInv == \A c \in Clients : HandlerInv(c) /\ SocketInv(c)

Inv == TypeOK /\ TrackerInv /\ PublisherInv /\ CellsInv /\ ClientInv

LEMMA InvInit == Init => Inv
<1> SUFFICES ASSUME Init PROVE Inv
  OBVIOUS
<1> USE SnapshotsAssumption DEF Init
<1>1. Empty \in Snapshots /\ Empty.timestamp = 0 /\ Empty.p50 = 0 /\ Empty.p99 = 0
  BY DEF Empty, Snapshot, Snapshots
<1>2. TypeOK
  <2>1. loop \in [PublishLoops -> [at : {"select", "p50", "p99", "store", "returned"},
                                   snap : Snapshots]]
    BY <1>1
  <2>2. socket \in [Clients -> Seq(Snapshots)]
    OBVIOUS
  <2>3. /\ cancelled \in [Clients -> BOOLEAN]
        /\ reader \in [Clients -> BOOLEAN] /\ open \in [Clients -> BOOLEAN]
    BY Zenon
  <2> QED BY <1>1, <2>1, <2>2, <2>3 DEF TypeOK
<1>3. TrackerInv /\ PublisherInv /\ CellsInv
  BY <1>1 DEF TrackerInv, PublisherInv, CellsInv
<1>4. ASSUME NEW c \in Clients PROVE HandlerInv(c) /\ SocketInv(c)
  <2>1. snap[c] = 0 /\ seen[c] = 0 /\ handler[c] = "none" /\ 1..Len(socket[c]) = {}
    OBVIOUS
  <2> QED BY <2>1 DEF HandlerInv, SocketInv
<1> QED BY <1>2, <1>3, <1>4 DEF Inv, ClientInv

-----------------------------------------------------------------------------
(* Type correctness.                                                       *)

LEMMA SnapshotType ==
  ASSUME NEW t \in 0..MaxSnapshots, NEW l \in 0..MaxMaterialised, NEW h \in 0..MaxMaterialised
  PROVE  /\ Snapshot(t, l, h) \in Snapshots
         /\ Snapshot(t, l, h).timestamp = t /\ Snapshot(t, l, h).p50 = l /\ Snapshot(t, l, h).p99 = h
  BY DEF Snapshot, Snapshots

LEMMA FieldType ==
  ASSUME NEW s \in Snapshots, NEW p \in 0..MaxMaterialised
  PROVE  [s EXCEPT !.p50 = p] \in Snapshots /\ [s EXCEPT !.p99 = p] \in Snapshots
  BY DEF Snapshots

LEMMA TrackerType ==
  ASSUME TypeOK, StoreP50 \/ StoreP99
  PROVE  TypeOK'
  BY SnapshotsAssumption DEF TypeOK, StoreP50, StoreP99, publisherVars, handlerVars, connVars

LEMMA LoopType ==
  ASSUME TypeOK, NEW l \in PublishLoops, PublishLoop(l) \/ PublishEnds(l)
  PROVE  TypeOK'
<1> USE SnapshotsAssumption DEF LoopStep, trackerVars, handlerVars, connVars
<1>1. loop[l].snap \in Snapshots /\ loop[l].snap.timestamp \in 0..MaxSnapshots
  BY DEF TypeOK, Snapshots
<1>2. CASE BuildBegin(l)
  <2>1. builds' \in 0..MaxSnapshots /\ Snapshot(builds', 0, 0) \in Snapshots
    BY <1>2, SnapshotType DEF BuildBegin, TypeOK
  <2> QED BY <1>2, <2>1 DEF BuildBegin, TypeOK
<1>3. CASE LoadP50(l)
  <2>1. [loop[l].snap EXCEPT !.p50 = p50] \in Snapshots
    BY <1>1, FieldType DEF TypeOK
  <2> QED BY <1>3, <2>1 DEF LoadP50, TypeOK
<1>4. CASE LoadP99(l)
  <2>1. [loop[l].snap EXCEPT !.p99 = p99] \in Snapshots
    BY <1>1, FieldType DEF TypeOK
  <2>2. loop'[l].snap \in Snapshots
    BY <1>4, <2>1 DEF LoadP99, TypeOK
  <2> QED BY <1>4, <2>1, <2>2 DEF LoadP99, TypeOK
<1>5. CASE Publish(l)
  BY <1>1, <1>5 DEF Publish, TypeOK
<1>6. CASE PublishEnds(l)
  BY <1>1, <1>6 DEF PublishEnds, TypeOK
<1> QED BY <1>2, <1>3, <1>4, <1>5, <1>6 DEF PublishLoop

LEMMA ClientType ==
  ASSUME TypeOK, NEW c \in Clients,
         \/ Connect(c) \/ Serve(c) \/ ReaderEnds(c) \/ PeerReads(c)
         \/ \E how \in {"reading", "stalled", "gone"} : PeerBecomes(c, how)
  PROVE  TypeOK'
<1> USE SnapshotsAssumption DEF HandlerStep, trackerVars, publisherVars, handlerVars
<1>1. CASE Connect(c)
  BY <1>1 DEF Connect, TypeOK
<1>2. CASE Tick(c)
  BY <1>2 DEF Tick, TypeOK
<1>3. CASE Marshal(c)
  <2>1. cells[snap[c]] \in Snapshots
    BY DEF TypeOK
  <2>2. Snapshot(cells[snap[c]].timestamp, cells[snap[c]].p50, 0) \in Snapshots
    <3>1. cells[snap[c]].timestamp \in 0..MaxSnapshots /\ cells[snap[c]].p50 \in 0..MaxMaterialised
      BY <2>1 DEF Snapshots
    <3>2. 0 \in 0..MaxMaterialised
      BY SnapshotsAssumption
    <3> HIDE DEF HandlerStep, trackerVars, publisherVars, handlerVars
    <3> QED BY <3>1, <3>2, SnapshotType
  <2> QED BY <1>3, <2>2, SMTT(20) DEF Marshal, TypeOK
<1>4. CASE MarshalP99(c)
  <2>1. cells[snap[c]] \in Snapshots /\ message[c] \in Snapshots
    BY DEF TypeOK
  <2>2. [message[c] EXCEPT !.p99 = cells[snap[c]].p99] \in Snapshots
    <3>1. cells[snap[c]].p99 \in 0..MaxMaterialised
      BY <2>1 DEF Snapshots
    <3> QED BY <2>1, <3>1, FieldType
  <2>3. message' \in [Clients -> Snapshots]
    BY <1>4, <2>2 DEF MarshalP99, TypeOK
  <2>4. /\ handler' = [handler EXCEPT ![c] = "write"]
        /\ UNCHANGED <<p50, p99, builds, loop, cells, current, built, peer, snap, cancelled,
                       reader, open, socket, seen>>
    BY <1>4 DEF MarshalP99
  <2> QED BY <2>3, <2>4 DEF TypeOK
<1>5. CASE Write(c)
  <2>1. Append(socket[c], message[c]) \in Seq(Snapshots)
    BY DEF TypeOK
  <2> QED BY <1>5, <2>1 DEF Write, TypeOK
<1>6. CASE WriteFails(c) \/ Done(c) \/ HandlerReturns(c)
  BY <1>6 DEF WriteFails, Done, HandlerReturns, TypeOK
<1>7. CASE ReaderEnds(c)
  BY <1>7 DEF ReaderEnds, TypeOK
<1>8. CASE PeerReads(c)
  <2>1. socket[c] \in Seq(Snapshots) /\ socket[c] # <<>>
    BY <1>8 DEF PeerReads, TypeOK
  <2>2. Tail(socket[c]) \in Seq(Snapshots) /\ Head(socket[c]) \in Snapshots
    BY <2>1
  <2>3. Head(socket[c]).timestamp \in 0..MaxSnapshots
    BY <2>2 DEF Snapshots
  <2> QED BY <1>8, <2>2, <2>3 DEF PeerReads, TypeOK
<1>9. ASSUME NEW how \in {"reading", "stalled", "gone"}, PeerBecomes(c, how) PROVE TypeOK'
  BY <1>9 DEF PeerBecomes, TypeOK
<1> QED BY <1>1, <1>2, <1>3, <1>4, <1>5, <1>6, <1>7, <1>8, <1>9 DEF Serve

LEMMA StutterType ==
  ASSUME TypeOK, UNCHANGED vars
  PROVE  TypeOK'
  BY DEF TypeOK, vars, trackerVars, publisherVars, handlerVars, connVars

LEMMA TypeStep == TypeOK /\ [Next]_vars => TypeOK'
  BY TrackerType, LoopType, ClientType, StutterType DEF Next

-----------------------------------------------------------------------------
(* The invariant, one lemma for each part of the system.                   *)

LEMMA TrackerStep ==
  ASSUME Inv, StoreP50 \/ StoreP99
  PROVE  Inv'
<1> USE SnapshotsAssumption
<1>1. TypeOK'
  BY TrackerType DEF Inv
<1>2. p50 <= p50' /\ TrackerInv' /\ UNCHANGED <<publisherVars, handlerVars, connVars>>
  BY DEF Inv, TypeOK, TrackerInv, StoreP50, StoreP99
<1>3. ASSUME NEW l \in PublishLoops, loop[l].at = "p99" PROVE loop[l].snap.p50 <= p50'
  <2>1. loop[l].snap \in Snapshots /\ p50 \in Nat /\ p50' \in Nat
    BY <1>1 DEF Inv, TypeOK
  <2>2. loop[l].snap.p50 \in Nat
    BY <2>1 DEF Snapshots
  <2>3. loop[l].snap.p50 <= p50
    BY <1>3 DEF Inv, PublisherInv
  <2> QED BY <1>2, <2>1, <2>2, <2>3
<1>4. PublisherInv'
  BY <1>2, <1>3 DEF Inv, PublisherInv, publisherVars
<1>5. CellsInv' /\ ClientInv'
  BY <1>2 DEF Inv, CellsInv, ClientInv, HandlerInv, SocketInv, publisherVars, handlerVars,
     connVars
<1> QED BY <1>1, <1>2, <1>4, <1>5 DEF Inv

\* a build touches nothing that a client has
LEMMA BuildStep ==
  ASSUME Inv, NEW l \in PublishLoops,
         BuildBegin(l) \/ LoadP50(l) \/ LoadP99(l) \/ PublishEnds(l)
  PROVE  Inv'
<1> USE SnapshotsAssumption DEF LoopStep, PublishLoops
<1>1. TypeOK'
  BY LoopType DEF Inv, PublishLoop
<1>2. TypeOK /\ TrackerInv /\ PublisherInv /\ CellsInv /\ ClientInv
  BY DEF Inv
<1>3. /\ UNCHANGED <<cells, current, trackerVars, handlerVars, connVars>>
      /\ built \in SUBSET built'
  BY DEF BuildBegin, LoadP50, LoadP99, PublishEnds
<1>4. /\ loop[l].snap \in Snapshots /\ p50 \in Nat /\ p99 \in Nat
      /\ builds \in Nat /\ current \in Nat /\ l = 1
  BY <1>2 DEF TypeOK
<1>5. PublisherInv'
  <2>1. CASE BuildBegin(l)
    <3>1. builds' \in 0..MaxSnapshots /\ Snapshot(builds', 0, 0).timestamp = builds'
      BY <1>2, <2>1, SnapshotType DEF BuildBegin, TypeOK
    <3> QED BY <1>2, <1>4, <2>1, <3>1 DEF BuildBegin, PublisherInv, TypeOK
  <2>2. CASE LoadP50(l)
    <3>1. LET s == [loop[l].snap EXCEPT !.p50 = p50]
          IN  s.p50 = p50 /\ s.timestamp = loop[l].snap.timestamp
      BY <1>4 DEF Snapshots
    <3>2. p50' = p50 /\ p50 <= p50
      BY <1>4, <2>2 DEF LoadP50, trackerVars
    <3> QED BY <1>2, <1>4, <2>2, <3>1, <3>2 DEF LoadP50, PublisherInv, TypeOK
  <2>3. CASE LoadP99(l)
    <3>1. [loop[l].snap EXCEPT !.p99 = p99].timestamp = loop[l].snap.timestamp
      BY <1>4 DEF Snapshots
    <3> QED BY <1>2, <1>4, <2>3, <3>1 DEF LoadP99, PublisherInv, TypeOK
  <2>4. CASE PublishEnds(l)
    BY <1>2, <1>4, <2>4 DEF PublishEnds, PublisherInv, TypeOK
  <2> QED BY <2>1, <2>2, <2>3, <2>4
<1>6. ASSUME NEW s \in built' PROVE s.p50 <= s.p99 + 1
  <2>1. CASE s \in built
    BY <1>2, <2>1 DEF CellsInv
  <2>2. CASE s \notin built
    <3>1. LoadP99(l) /\ s = loop'[l].snap
      BY <1>6, <2>2 DEF BuildBegin, LoadP50, LoadP99, PublishEnds
    <3>2. s = [loop[l].snap EXCEPT !.p99 = p99] /\ loop[l].at = "p99"
      BY <1>2, <3>1 DEF LoadP99, TypeOK
    <3>3. s.p50 = loop[l].snap.p50 /\ s.p99 = p99 /\ s.p50 \in Nat
      BY <1>4, <3>2 DEF Snapshots
    <3>4. s.p50 <= p50
      BY <1>2, <3>2, <3>3 DEF PublisherInv
    <3> QED BY <1>2, <1>4, <3>3, <3>4 DEF TrackerInv
  <2> QED BY <2>1, <2>2
<1>7. CellsInv'
  <2>1. \A i \in 0..MaxSnapshots : cells[i] \in built'
    BY <1>2, <1>3 DEF CellsInv
  <2> QED BY <1>2, <1>3, <1>6, <2>1 DEF CellsInv
<1>8. ClientInv'
  BY <1>2, <1>3 DEF ClientInv, HandlerInv, SocketInv, handlerVars, connVars
<1> QED BY <1>1, <1>2, <1>3, <1>5, <1>7, <1>8 DEF Inv, TrackerInv, trackerVars

LEMMA PublishStep ==
  ASSUME Inv, NEW l \in PublishLoops, Publish(l)
  PROVE  Inv'
<1> USE SnapshotsAssumption DEF LoopStep, PublishLoops
<1>1. TypeOK'
  BY LoopType DEF Inv, PublishLoop
<1>2. TypeOK /\ TrackerInv /\ PublisherInv /\ CellsInv /\ ClientInv
  BY DEF Inv
<1>3. /\ loop[l].snap \in built /\ loop[l].snap.timestamp = builds
      /\ builds = current + 1 /\ current \in 0..MaxSnapshots /\ builds \in 0..MaxSnapshots
  BY <1>2 DEF Publish, PublisherInv, TypeOK
<1>4. /\ cells' = [cells EXCEPT ![builds] = loop[l].snap] /\ current' = builds
      /\ UNCHANGED <<builds, built, trackerVars, handlerVars, connVars>>
  BY <1>3 DEF Publish
<1>5. PublisherInv'
  BY <1>2, <1>3, <1>4 DEF Publish, PublisherInv, TypeOK
<1>6. CellsInv'
  <2>1. ASSUME NEW i \in 0..MaxSnapshots PROVE cells'[i] \in built'
    BY <1>2, <1>3, <1>4 DEF CellsInv, TypeOK
  <2>2. ASSUME NEW i \in 0..current' PROVE cells'[i].timestamp = i
    <3>1. i \in 0..MaxSnapshots /\ (i = builds \/ i \in 0..current)
      BY <1>3, <1>4
    <3> QED BY <1>2, <1>3, <1>4, <3>1 DEF CellsInv, TypeOK
  <2> QED BY <1>2, <1>4, <2>1, <2>2 DEF CellsInv
<1>7. ASSUME NEW c \in Clients PROVE HandlerInv(c)' /\ SocketInv(c)'
  <2>1. /\ HandlerInv(c) /\ SocketInv(c) /\ snap[c] \in 0..MaxSnapshots
        /\ seen[c] \in 0..MaxSnapshots
    BY <1>2 DEF ClientInv, TypeOK
  <2>2. cells'[snap[c]] = cells[snap[c]] /\ snap[c] <= current' /\ seen[c] <= current'
    BY <1>2, <1>3, <1>4, <2>1 DEF HandlerInv, TypeOK
  <2>3. HandlerInv(c)'
    BY <1>4, <2>1, <2>2 DEF HandlerInv, handlerVars, connVars
  <2>4. ASSUME NEW i \in 1..Len(socket[c]) PROVE socket[c][i].timestamp <= current'
    <3>1. socket[c][i] \in Snapshots
      BY <1>2 DEF TypeOK
    <3>2. socket[c][i].timestamp \in Nat
      BY <3>1 DEF Snapshots
    <3> QED BY <1>3, <1>4, <2>1, <3>2 DEF SocketInv
  <2> QED BY <1>4, <2>1, <2>3, <2>4 DEF SocketInv, connVars
<1> QED BY <1>1, <1>2, <1>4, <1>5, <1>6, <1>7 DEF Inv, ClientInv, TrackerInv, trackerVars

\* what client d has does not change when another one takes a step
LEMMA OthersKeep ==
  ASSUME Inv, NEW d \in Clients,
         UNCHANGED <<cells, current, built, snap[d], message[d], handler[d], seen[d], socket[d]>>
  PROVE  HandlerInv(d)' /\ SocketInv(d)'
  BY DEF Inv, ClientInv, HandlerInv, SocketInv

LEMMA ClientStep ==
  ASSUME Inv, NEW c \in Clients,
         \/ Connect(c) \/ Serve(c) \/ ReaderEnds(c) \/ PeerReads(c)
         \/ \E how \in {"reading", "stalled", "gone"} : PeerBecomes(c, how)
  PROVE  Inv'
<1> USE SnapshotsAssumption DEF HandlerStep
<1>1. TypeOK' /\ TypeOK /\ TrackerInv /\ PublisherInv /\ CellsInv /\ ClientInv
  BY ClientType DEF Inv
<1>2. UNCHANGED <<trackerVars, publisherVars>>
  BY DEF Connect, Serve, Tick, Marshal, MarshalP99, Write, WriteFails, Done, HandlerReturns,
     ReaderEnds, PeerReads, PeerBecomes
<1>3. TrackerInv' /\ PublisherInv' /\ CellsInv'
  BY <1>1, <1>2 DEF TrackerInv, PublisherInv, CellsInv, trackerVars, publisherVars
<1>4. ASSUME NEW d \in Clients, d # c
      PROVE  UNCHANGED <<snap[d], message[d], handler[d], seen[d], socket[d]>>
  <2>0. /\ DOMAIN snap = Clients /\ DOMAIN message = Clients /\ DOMAIN handler = Clients
        /\ DOMAIN seen = Clients /\ DOMAIN socket = Clients
    BY <1>1 DEF TypeOK
  <2> USE <2>0, <1>4 DEF handlerVars
  <2>1. CASE Connect(c)
    BY <2>1 DEF Connect
  <2>2. CASE Tick(c)
    BY <2>2 DEF Tick
  <2>6. CASE Marshal(c)
    BY <2>6 DEF Marshal
  <2>7. CASE MarshalP99(c)
    BY <2>7 DEF MarshalP99
  <2>8. CASE Write(c)
    BY <2>8 DEF Write
  <2>3. CASE WriteFails(c) \/ Done(c) \/ HandlerReturns(c)
    BY <2>3 DEF WriteFails, Done, HandlerReturns
  <2>4. CASE ReaderEnds(c) \/ PeerReads(c)
    BY <2>4 DEF ReaderEnds, PeerReads
  <2>5. ASSUME NEW how, PeerBecomes(c, how)
        PROVE  UNCHANGED <<snap[d], message[d], handler[d], seen[d], socket[d]>>
    BY <2>5 DEF PeerBecomes
  <2> QED BY <2>1, <2>2, <2>3, <2>4, <2>5, <2>6, <2>7, <2>8 DEF Serve
<1>5. HandlerInv(c) /\ SocketInv(c)
  BY <1>1 DEF ClientInv
<1>6. /\ snap[c] \in 0..MaxSnapshots /\ seen[c] \in 0..MaxSnapshots
      /\ current \in 0..MaxSnapshots /\ UNCHANGED <<cells, current, built>>
      /\ socket[c] \in Seq(Snapshots) /\ message[c] \in Snapshots
      /\ message[c].timestamp \in Nat
      /\ \A i \in 1..Len(socket[c]) : socket[c][i].timestamp \in Nat
  <2>1. \A s \in Snapshots : s.timestamp \in Nat
    BY DEF Snapshots
  <2>2. socket[c] \in Seq(Snapshots) /\ message[c] \in Snapshots
    BY <1>1 DEF TypeOK
  <2>3. ASSUME NEW i \in 1..Len(socket[c]) PROVE socket[c][i] \in Snapshots
    BY <2>2
  <2> QED BY <1>1, <1>2, <2>1, <2>2, <2>3 DEF TypeOK, publisherVars
<1>7. HandlerInv(c)' /\ SocketInv(c)'
  <2> USE <1>5, <1>6
  <2>1. CASE Connect(c)
    <3>1. socket'[c] = <<>> /\ snap'[c] = 0 /\ seen'[c] = seen[c] /\ handler'[c] = "select"
      BY <1>1, <2>1 DEF Connect, TypeOK
    <3>2. 1..Len(socket'[c]) = {}
      BY <3>1
    <3> QED BY <3>1, <3>2 DEF HandlerInv, SocketInv
  <2>2. CASE Tick(c)
    <3>1. /\ handler'[c] = "marshal" /\ snap'[c] = current
          /\ socket' = socket /\ seen' = seen /\ message' = message
      BY <1>1, <2>2 DEF Tick, TypeOK
    <3> QED BY <3>1 DEF HandlerInv, SocketInv
  <2>3. CASE Marshal(c)
    <3>1. /\ handler[c] = "marshal" /\ handler'[c] = "percentile"
          /\ snap' = snap /\ socket' = socket /\ seen' = seen
          /\ message'[c] = Snapshot(cells[snap[c]].timestamp, cells[snap[c]].p50, 0)
      BY <1>1, <2>3 DEF Marshal, TypeOK
    <3>2. cells[snap[c]].timestamp = snap[c]
      BY <1>1 DEF CellsInv, HandlerInv
    <3> QED BY <3>1, <3>2 DEF HandlerInv, SocketInv
  <2>4. CASE MarshalP99(c)
    <3>1. /\ handler[c] = "percentile" /\ handler'[c] = "write"
          /\ snap' = snap /\ socket' = socket /\ seen' = seen
          /\ message'[c] = [message[c] EXCEPT !.p99 = cells[snap[c]].p99]
      BY <1>1, <2>4 DEF MarshalP99, TypeOK
    <3>2. cells[snap[c]].timestamp = snap[c] /\ cells[snap[c]] \in built
          /\ cells[snap[c]] \in Snapshots
      BY <1>1 DEF CellsInv, HandlerInv, TypeOK
    <3>3. message[c] = Snapshot(snap[c], cells[snap[c]].p50, 0)
      BY <3>1 DEF HandlerInv
    <3>4. message'[c] = cells[snap[c]]
      BY <3>1, <3>2, <3>3 DEF Snapshot, Snapshots
    <3> QED BY <3>1, <3>2, <3>4 DEF HandlerInv, SocketInv
  <2>5. CASE Write(c)
    <3>1. /\ handler[c] = "write" /\ handler'[c] = "select"
          /\ snap' = snap /\ message' = message /\ seen' = seen
          /\ socket'[c] = Append(socket[c], message[c])
      BY <1>1, <2>5 DEF Write, TypeOK
    <3>2. /\ message[c] \in built /\ message[c].timestamp = snap[c] /\ seen[c] <= snap[c]
          /\ snap[c] <= current
          /\ \A i \in 1..Len(socket[c]) : socket[c][i].timestamp <= snap[c]
      BY <3>1 DEF HandlerInv
    <3>3. /\ Len(socket'[c]) = Len(socket[c]) + 1 /\ Len(socket[c]) \in Nat
          /\ \A i \in 1..Len(socket[c]) : socket'[c][i] = socket[c][i]
          /\ socket'[c][Len(socket[c]) + 1] = message[c]
      BY <3>1
    <3>4. \A i \in 1..Len(socket'[c]) : i \in 1..Len(socket[c]) \/ i = Len(socket[c]) + 1
      BY <3>3
    <3>5. HandlerInv(c)'
      BY <3>1 DEF HandlerInv
    <3>6. SocketInv(c)'
      BY <3>1, <3>2, <3>3, <3>4 DEF SocketInv
    <3> QED BY <3>5, <3>6
  <2>6. CASE WriteFails(c) \/ Done(c) \/ HandlerReturns(c)
    <3>1. /\ handler'[c] \in {"return", "none"}
          /\ snap' = snap /\ message' = message /\ seen' = seen /\ socket' = socket
      BY <1>1, <2>6 DEF WriteFails, Done, HandlerReturns, TypeOK
    <3> QED BY <3>1 DEF HandlerInv, SocketInv
  <2>7. CASE ReaderEnds(c) \/ \E how \in {"reading", "stalled", "gone"} : PeerBecomes(c, how)
    <3>1. UNCHANGED <<handler, snap, message, seen, socket>>
      BY <2>7 DEF ReaderEnds, PeerBecomes, handlerVars
    <3> QED BY <3>1 DEF HandlerInv, SocketInv
  <2>8. CASE PeerReads(c)
    <3>1. /\ socket[c] # <<>> /\ socket'[c] = Tail(socket[c])
          /\ seen'[c] = Head(socket[c]).timestamp /\ UNCHANGED <<handler, snap, message>>
      BY <1>1, <2>8 DEF PeerReads, TypeOK, handlerVars
    <3>2. /\ Len(socket[c]) \in Nat /\ Len(socket[c]) > 0 /\ Head(socket[c]) = socket[c][1]
          /\ Len(socket'[c]) = Len(socket[c]) - 1
          /\ \A i \in 1..Len(socket'[c]) : socket'[c][i] = socket[c][i + 1]
      BY <3>1
    <3>3. /\ 1 \in 1..Len(socket[c])
          /\ \A i \in 1..Len(socket'[c]) : i + 1 \in 1..Len(socket[c]) /\ 1 <= i + 1
      BY <3>2
    <3>4. HandlerInv(c)'
      BY <3>1, <3>2, <3>3 DEF HandlerInv, SocketInv
    <3>5. ASSUME NEW i \in 1..Len(socket'[c])
          PROVE  /\ socket'[c][i] \in built
                 /\ seen'[c] <= socket'[c][i].timestamp /\ socket'[c][i].timestamp <= current
      BY <3>1, <3>2, <3>3 DEF SocketInv
    <3>6. ASSUME NEW i \in 1..Len(socket'[c]), NEW j \in 1..Len(socket'[c]), i <= j
          PROVE  socket'[c][i].timestamp <= socket'[c][j].timestamp
      <4>1. i + 1 \in 1..Len(socket[c]) /\ j + 1 \in 1..Len(socket[c]) /\ i + 1 <= j + 1
        BY <3>3, <3>6
      <4> QED BY <3>2, <4>1 DEF SocketInv
    <3>7. SocketInv(c)'
      BY <3>5, <3>6 DEF SocketInv
    <3> QED BY <3>4, <3>7
  <2> QED BY <2>1, <2>2, <2>3, <2>4, <2>5, <2>6, <2>7, <2>8 DEF Serve
<1>8. ClientInv'
  BY <1>4, <1>6, <1>7, OthersKeep DEF ClientInv
<1> QED BY <1>1, <1>3, <1>8 DEF Inv

LEMMA InvStep == Inv /\ [Next]_vars => Inv'
<1> SUFFICES ASSUME Inv, [Next]_vars PROVE Inv'
  OBVIOUS
<1>1. CASE StoreP50 \/ StoreP99
  BY <1>1, TrackerStep
<1>2. ASSUME NEW l \in PublishLoops, PublishLoop(l) \/ PublishEnds(l) PROVE Inv'
  BY <1>2, BuildStep, PublishStep DEF PublishLoop
<1>3. ASSUME NEW c \in Clients,
             \/ Connect(c) \/ Serve(c) \/ ReaderEnds(c) \/ PeerReads(c)
             \/ \E how \in {"reading", "stalled", "gone"} : PeerBecomes(c, how)
      PROVE  Inv'
  BY <1>3, ClientStep
<1>4. CASE UNCHANGED vars
  <2>1. TypeOK'
    BY <1>4, StutterType DEF Inv
  <2> QED BY <1>4, <2>1 DEF Inv, TrackerInv, PublisherInv, CellsInv, ClientInv, HandlerInv,
             SocketInv, vars, trackerVars, publisherVars, handlerVars, connVars
<1> QED BY <1>1, <1>2, <1>3, <1>4 DEF Next

-----------------------------------------------------------------------------
(* The theorems.                                                           *)

(* The tracker, the publisher and every connection stay well formed        *)
(* (ws.go, collector.go:173-209), for any number of dashboards.            *)
THEOREM TypeCorrect == Spec => []TypeOK
<1>1. Init => TypeOK
  BY InvInit DEF Inv
<1> QED BY <1>1, TypeStep, PTL DEF Spec

(* No snapshot holds a P99 that is more than one materialisation older     *)
(* than its P50 (collector.go:203-204, latency.go:93-95).                  *)
THEOREM SnapshotsAreRecent == Spec => []AtMostOneOlder
<1>1. Inv => AtMostOneOlder
  BY DEF Inv, CellsInv, AtMostOneOlder
<1> QED BY <1>1, InvInit, InvStep, PTL DEF Spec

(* No dashboard is sent a mixture of two snapshots: a published snapshot   *)
(* does not change (ws.go:50-51, 111-116).                                 *)
THEOREM SnapshotsAreImmutable == Spec => []MessagesAreSnapshots
<1>1. Inv => MessagesAreSnapshots
  BY DEF Inv, ClientInv, SocketInv, MessagesAreSnapshots
<1> QED BY <1>1, InvInit, InvStep, PTL DEF Spec

(* No dashboard goes back to an older snapshot, on any number of           *)
(* connections (ws.go:31-34, 111).                                         *)
THEOREM DashboardsNeverGoBack == Spec => NeverGoesBack
<1>1. Inv /\ [Next]_vars => [\A c \in Clients : seen'[c] >= seen[c]]_vars
  <2> SUFFICES ASSUME Inv, [Next]_vars PROVE \A c \in Clients : seen'[c] >= seen[c]
    OBVIOUS
  <2>1. TypeOK
    BY DEF Inv
  <2>2. ASSUME seen' = seen PROVE \A c \in Clients : seen'[c] >= seen[c]
    BY <2>1, <2>2 DEF TypeOK
  <2>3. ASSUME NEW d \in Clients, PeerReads(d)
        PROVE  \A c \in Clients : seen'[c] >= seen[c]
    <3>1. /\ socket[d] \in Seq(Snapshots) /\ socket[d] # <<>>
          /\ seen' = [seen EXCEPT ![d] = Head(socket[d]).timestamp]
      BY <2>1, <2>3 DEF PeerReads, TypeOK
    <3>2. 1 \in 1..Len(socket[d]) /\ Head(socket[d]) = socket[d][1]
      BY <3>1
    <3>3. SocketInv(d)
      BY DEF Inv, ClientInv
    <3>4. seen[d] <= Head(socket[d]).timestamp /\ Head(socket[d]) \in Snapshots
      BY <3>1, <3>2, <3>3 DEF SocketInv
    <3>5. Head(socket[d]).timestamp \in Nat
      BY <3>4 DEF Snapshots
    <3> QED BY <2>1, <3>1, <3>4, <3>5 DEF TypeOK
  <2>4. seen' = seen \/ \E d \in Clients : PeerReads(d)
    BY DEF Next, StoreP50, StoreP99, PublishLoop, BuildBegin, LoadP50, LoadP99, Publish,
       PublishEnds, LoopStep, Connect, Serve, Tick, Marshal, MarshalP99, Write, WriteFails, Done,
       HandlerReturns, HandlerStep, ReaderEnds, PeerBecomes, connVars, vars
  <2> QED BY <2>2, <2>3, <2>4
<1> QED BY <1>1, InvInit, InvStep, PTL DEF Spec, NeverGoesBack
=============================================================================
