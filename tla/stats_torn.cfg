\* Figures read in two steps, while a publish is between its two writes.
CONSTANTS
  p1 = p1
  b1 = b1
  s1 = s1
  c1 = c1
  Peers <- MCPeers
  Blocks <- MCBlocks
  Bootstraps <- MCBootstraps
  Readers <- MCReaders
  MaxPasses = 3
SPECIFICATION Spec
INVARIANTS
  StatsOfOneSnapshot
