\* An address listed twice, asked again after it failed a query.
CONSTANTS
  a1 = a1
  a2 = a2
  a3 = a3
  n1 = n1
  n2 = n2
  Address <- MCAddress
  Config <- MCConfig
  WithPeerId <- MCAddress
  Queryable <- MCQueryable
  Peers <- MCPeers
  PeerIds <- MCPeers
  Servers <- MCPeers
  Announcers <- MCAnnouncers
  Excluded <- MCExcluded
  States <- MCStates
  Registered <- MCRegistered
  RegisteredBlocks <- MCRegisteredBlocks
  FallbackPrefixes <- MCFallbackPrefixes
  FallbackBlocks = 1
  MaxBlocks = 2
  CapabilityKeys = 2
  MaxResults = 0
SPECIFICATION Spec
INVARIANTS
  FailedNotAskedAgain
