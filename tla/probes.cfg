\* Two clients and the crawl's location pass on one swarm.
CONSTANTS
  p1 = p1
  x1 = x1
  c1 = c1
  c2 = c2
  Ids <- MCIds
  NotIds <- MCNotIds
  Clients <- MCClients
  MaxAddrs = 1
  TTL = 2
  MaxTime = 3
SPECIFICATION FairSpec
INVARIANTS
  TypeOK
  AnswersBacked
  IssuesOnlyFailedDials
PROPERTIES
  NoProbeBeforeExpiry
  ProbesEnd
  PassesEnd
