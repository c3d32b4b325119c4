\* From the bytes under the DHT keys to the figures: nothing lost on the way.
CONSTANTS
  Peers <- MCPeers
  Excluded <- MCExcluded
  Connected <- MCConnected
  RegistryReplies <- MCRegistryReplies
  BlockReplies <- MCBlockReplies
  CapabilityReplies <- MCCapabilityReplies
  CapabilityKeys = 2
  Fallback <- MCFallback
  MaxBlocks = 2
  MaxResults = 2
  Shown = 2
  Overrides <- MCOverrides
  DefaultTotal = 3
SPECIFICATION Spec
INVARIANTS
  TypeOK
  EveryRecordCounts
  PeersMatchReports
  CoverageIsClaimed
  TopAreBest
CHECK_DEADLOCK FALSE
