\* A crawl pass over two bootstraps, whatever they answer or lose.
CONSTANTS
  a1 = a1
  a2 = a2
  a3 = a3
  n1 = n1
  n2 = n2
  Address <- MCAddress
  Config <- MCConfig
  WithPeerId <- MCAddress
  Queryable <- MCQueryable
  Peers <- MCPeers
  PeerIds <- MCPeers
  Servers <- MCPeers
  Announcers <- MCAnnouncers
  Excluded <- MCExcluded
  States <- MCStates
  Registered <- MCRegistered
  RegisteredBlocks <- MCRegisteredBlocks
  FallbackPrefixes <- MCFallbackPrefixes
  FallbackBlocks = 1
  MaxBlocks = 2
  CapabilityKeys = 2
  MaxResults = 2
SPECIFICATION FairSpec
INVARIANTS
  TypeOK
  FoldMatchesHeard
  FirstEntrySpeaks
  HealthyUpToSurplus
  ReportsNeedAnAnswer
PROPERTIES
  PassesComplete
