\* Placing two nodes over any number of passes.
CONSTANTS
  n1 = n1
  r1 = r1
  Peers <- MCPeers
  Ips <- MCIps
  Public <- MCPublic
  Statics <- MCStatics
  RelayNames <- MCNames
  Connections <- MCConnections
  MaxConns = 2
  CacheLimit = 2
SPECIFICATION Spec
INVARIANTS
  TypeOK
  SuccessIsSomewhere
  OwnPlaceIsOwn
  DirectWasDialed
PROPERTIES
  LookupsAreKept
