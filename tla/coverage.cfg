\* Coverage "of the largest model".
CONSTANTS
  Peers <- MCPeers
  Excluded <- MCExcluded
  Connected <- MCConnected
  RegistryReplies <- MCRegistryReplies
  BlockReplies <- MCBlockReplies
  CapabilityReplies <- MCCapabilityReplies
  CapabilityKeys = 2
  Fallback <- MCFallback
  MaxBlocks = 2
  MaxResults = 0
  Shown = 2
  Overrides <- MCOverrides
  DefaultTotal = 3
SPECIFICATION Spec
INVARIANTS
  CoverageOfLargest
CHECK_DEADLOCK FALSE
