\* The served document and its readers, over three passes.
CONSTANTS
  p1 = p1
  b1 = b1
  s1 = s1
  c1 = c1
  Peers <- MCPeers
  Blocks <- MCBlocks
  Bootstraps <- MCBootstraps
  Readers <- MCReaders
  MaxPasses = 3
SPECIFICATION FairSpec
INVARIANTS
  TypeOK
  ServedIsLastReadPass
  NodesFollowSnapshot
  MixedReadsInOrder
PROPERTIES
  SameStampSameData
  EveryPassIsServed
  RequestsAnswered
