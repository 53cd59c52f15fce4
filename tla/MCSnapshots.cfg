\* One dashboard, connected, stalled, gone or back, while snapshots are built and published.
CONSTANTS
  c1 = c1
  Clients <- OneClient
  SocketBuffer = 1
  MaxMaterialised = 2
  MaxSnapshots = 2
SPECIFICATION FairSpec
INVARIANTS
  AtMostOneOlder
  MessagesAreSnapshots
PROPERTIES
  NeverGoesBack
  ConnectionsEnd
  DashboardsCatchUp
