\* A process that goes on serving after its crawler is gone.
CONSTANTS
  a1 = a1
  a2 = a2
  n1 = n1
  n2 = n2
  odd = odd
  Address <- MCAddress
  Config <- MCConfig
  WithPeerId <- MCAddress
  Queryable <- MCAddress
  Peers <- MCPeers
  PeerIds <- MCPeerIds
  Servers <- MCPeerIds
  Announcers <- MCAnnouncers
  Unsliceable <- MCAnnouncers
  Excluded <- MCExcluded
  States <- MCStates
  Registered <- MCRegistered
  RegisteredBlocks <- MCRegisteredBlocks
  FallbackPrefixes <- MCRegistered
  FallbackBlocks = 1
  MaxBlocks = 1
  CapabilityKeys = 1
  MaxResults = 0
  MaxPasses = 2
SPECIFICATION MapFairSpec
PROPERTIES
  NeverFrozen
