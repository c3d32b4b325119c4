---------------------------- MODULE MapServerProofs ----------------------------
(***************************************************************************)
(* Proofs about MapServer, for any network, pass and number of passes: the *)
(* crawler writes the cache as NodeCache allows for, and what it serves.   *)
(* The invariants of a pass (CrawlPassProofs) are lifted to the process.   *)
(***************************************************************************)
EXTENDS MapServer, CrawlPassProofs

-----------------------------------------------------------------------------
(* The pass inside the process.                                            *)

\* A step of the process is one of the pass or none of it, also on a swarm that
\* has ended, or starts a pass afresh with a new process.
LEMMA PassSteps == ASSUME [MapNext]_mapVars PROVE [Next]_vars \/ Init'
<1> USE DEF mapVars
<1>1. Unheard => Next
  <2>1. FALSE \in BOOLEAN /\ {} \in SUBSET PeerIds /\ discovered \in SUBSET discovered
    OBVIOUS
  <2> QED BY <2>1 DEF Unheard, Next
<1>2. CASE Crawl
  BY <1>1, <1>2 DEF Crawl
<1>3. CASE CrawlPanics \/ Return \/ Publish \/ Start \/ SpawnCrawler \/ Bind \/ SwarmEnds \/ Bounded
  BY <1>3 DEF CrawlPanics, Return, Publish, Start, SpawnCrawler, Bind, SwarmEnds, Bounded
<1>4. CASE NextCrawl
  BY <1>4 DEF NextCrawl, Next
<1>5. CASE BindFails \/ SelectSwarm \/ SelectServe
  BY <1>5 DEF BindFails, SelectSwarm, SelectServe, Exit, Afresh, Init
<1>6. CASE UNCHANGED mapVars
  BY <1>6
<1> QED BY <1>2, <1>3, <1>4, <1>5, <1>6 DEF MapNext

\* What a pass comes to publish: dots of the bootstraps that answered, and
\* reports of models no larger than the bounds on their blocks allow.
Published ==
  /\ \A m \in DOMAIN models : models[m] <= MaxBlocks + FallbackBlocks
  /\ step = "publish" => result.dots = Online(entries)
  /\ \A m \in DOMAIN result.reports :
       m \in Prefixes /\ result.reports[m].covered \subseteq 0 .. MaxBlocks + FallbackBlocks + MaxResults

LEMMA InitPublished == Init => Published
BY DEF Init, Published, NothingRead, NoReports

LEMMA NextPublished == TypeInv /\ Published /\ [Next]_vars => Published'
<1> SUFFICES ASSUME TypeInv, Published, [Next]_vars PROVE Published'
  OBVIOUS
<1>1. TypeInv'
  BY NextType
<1>2. \A m \in DOMAIN models' : models'[m] <= MaxBlocks + FallbackBlocks
  <2>1. CASE models' = models
    BY <2>1 DEF Published
  <2>2. CASE Discovered
    <3>1. CASE DOMAIN found = {}
      BY <2>2, <3>1, CrawlAssumption DEF Discovered, Fallback
    <3>2. CASE DOMAIN found # {}
      BY <2>2, <3>2, CrawlAssumption DEF Discovered, TypeInv, TypeOK
    <3> QED BY <3>1, <3>2
  <2>3. CASE NextPass
    BY <2>3 DEF NextPass, Afresh, NoReports
  <2>4. models' = models \/ Discovered \/ NextPass
    BY DEF Next, vars, reading, Dial, NoneDialable, Dialed, Unaddressed, Garbled, LostOnce,
           LostAgain, Fails, AnswerRegistry, AnswerBlocks, Collected, AnswerCapability,
           CapabilityRead, KadKnows, DialPeers, Observe
  <2> QED BY <2>1, <2>2, <2>3, <2>4
<1>3. CASE result' = NothingRead /\ step' # "publish"
  BY <1>2, <1>3 DEF Published, NothingRead, NoReports
<1>4. CASE NoneDialable
  BY <1>2, <1>4 DEF NoneDialable, Published, NothingRead, NoReports
<1>5. ASSUME NEW speaking \in SUBSET PeerIds, Observe(speaking) PROVE Published'
  <2>1. /\ result'.dots = Online(entries) /\ entries' = entries
        /\ DOMAIN result'.reports \subseteq DOMAIN models
        /\ \A m \in DOMAIN result'.reports : result'.reports[m].covered = Covered(m)
    BY <1>5 DEF Observe, Report
  <2>2. \A m \in DOMAIN models : m \in Prefixes /\ Covered(m) \subseteq 0 .. MaxBlocks + FallbackBlocks + MaxResults
    <3> SUFFICES ASSUME NEW m \in DOMAIN models
                 PROVE  m \in Prefixes /\ Covered(m) \subseteq 0 .. MaxBlocks + FallbackBlocks + MaxResults
      OBVIOUS
    <3>1. Covered(m) \subseteq Places(m)
      BY DEF Covered, OnlineServers, TypeInv, Shape, Folded
    <3>2. Places(m) \subseteq 0 .. MaxBlocks + FallbackBlocks + MaxResults
      <4>1. models[m] \in Nat /\ models[m] <= MaxBlocks + FallbackBlocks
        BY DEF TypeInv, TypeOK, Published
      <4>2. MaxBlocks \in Nat /\ FallbackBlocks \in Nat /\ MaxResults \in Nat
        BY CrawlAssumption
      <4> QED BY <4>1, <4>2 DEF Places, BlockKeys
    <3> QED BY <3>1, <3>2 DEF TypeInv, TypeOK
  <2>3. Online(entries)' = Online(entries)
    BY <2>1 DEF Online
  <2> QED BY <1>2, <2>1, <2>2, <2>3 DEF Published
<1>6. CASE UNCHANGED vars
  BY <1>6 DEF vars, Published
<1>7. step' # "publish" => result' = NothingRead
  BY <1>1 DEF TypeInv, Shape
<1>8. step' = "publish" => \/ NoneDialable
                          \/ \E speaking \in SUBSET PeerIds : Observe(speaking)
                          \/ UNCHANGED vars
  BY PublishSteps
<1> QED BY <1>3, <1>4, <1>5, <1>6, <1>7, <1>8

\* The invariants of a pass hold of the one in the process.
PassInv == TypeInv /\ FoldMatchesHeard /\ HeardFrom /\ ReportsNeedAnAnswer /\ Published

LEMMA InitPass == Init => PassInv
BY InitType, InitFold, InitPublished
DEF Init, NothingRead, NoReports, HeardFrom, ReportsNeedAnAnswer, PassInv

LEMMA StepPass == PassInv /\ [MapNext]_mapVars => PassInv'
<1>1. PassInv /\ [Next]_vars => PassInv'
  BY NextType, NextFold, NextHeardFrom, NextReports, NextPublished DEF PassInv
<1>2. Init' => PassInv'
  BY InitPass, PTL
<1> QED BY <1>1, <1>2, PassSteps

\* What is handed to publish is what NodeCache lets a pass measure: peers,
\* blocks and dots of the right kind, and no blocks without a dot.
LEMMA MeasuredType == PassInv => Measured \in Cache!CrawlResults
<1> SUFFICES ASSUME PassInv PROVE Measured \in Cache!CrawlResults
  OBVIOUS
<1>1. result.peers \subseteq Peers /\ result.dots \subseteq Entries
  BY DEF PassInv, TypeInv, TypeOK
<1>2. Measured.blocks \subseteq Blocks
  BY DEF Measured, Blocks, PassInv, Published
<1>3. Measured.blocks # {} => Measured.dots # {}
  BY DEF Measured, PassInv, ReportsNeedAnAnswer
<1> QED BY <1>1, <1>2, <1>3 DEF Measured, Cache!CrawlResults

-----------------------------------------------------------------------------
(* The process and the cache.                                              *)

\* While a pass is being published it stays as it is: the crawler starts the
\* next one only after its sleep.
Publishes ==
  /\ serving = [r \in Readers |-> "idle"] /\ got = [r \in Readers |-> Cache!NothingRead]
  /\ pc \in {"crawling", "merging", "writing snapshot", "writing nodes", "sleeping"}
  /\ pc # "crawling" => step = "publish" /\ measured = Measured
  /\ pc = "writing snapshot" =>
       served = Cache!MergeCrawl(snapshot, Cache!FreshDocument(measured, Len(crawls) + 1))
  /\ pc \in {"writing nodes", "sleeping"} => snapshot.dots = measured.dots

LEMMA InitPublishes == MapInit => Publishes
BY DEF MapInit, Cache!Init, Publishes

\* A merged document has the dots of the fresh one, held or not (merge_crawl).
LEMMA MergedDots ==
  ASSUME NEW served0, NEW r, NEW n
  PROVE  Cache!MergeCrawl(served0, Cache!FreshDocument(r, n)).dots = r.dots
BY DEF Cache!MergeCrawl, Cache!FreshDocument, Cache!Held

LEMMA StepPublishes == Publishes /\ [MapNext]_mapVars => Publishes'
<1> SUFFICES ASSUME Publishes, [MapNext]_mapVars PROVE Publishes'
  OBVIOUS
<1>1. result' = result => Measured' = Measured
  BY DEF Measured
<1>2. CASE UNCHANGED cacheVars /\ (UNCHANGED vars \/ pc = "crawling")
  <2>1. CASE pc = "crawling"
    BY <1>2, <2>1 DEF cacheVars, Publishes
  <2>2. CASE UNCHANGED vars
    BY <1>1, <1>2, <2>2 DEF cacheVars, vars, Publishes
  <2> QED BY <1>2, <2>1, <2>2
<1>3. CASE Return
  BY <1>1, <1>3 DEF Return, Cache!CrawlOnce, vars, Publishes
<1>4. CASE Publish
  <2>1. CASE Cache!Merge
    BY <1>1, <1>4, <2>1 DEF Publish, Cache!Merge, Cache!ThisPass, vars, Publishes
  <2>2. CASE Cache!WriteSnapshot
    <3>1. served.dots = measured.dots
      <4>1. served = Cache!MergeCrawl(snapshot, Cache!FreshDocument(measured, Len(crawls) + 1))
        BY <2>2 DEF Cache!WriteSnapshot, Publishes
      <4> QED BY <4>1, MergedDots
    <3>2. /\ snapshot' = served /\ pc' = "writing nodes"
          /\ measured' = measured /\ serving' = serving /\ got' = got /\ step' = step /\ result' = result
      BY <1>4, <2>2 DEF Publish, Cache!WriteSnapshot, vars
    <3>3. step = "publish" /\ measured = Measured
      BY <2>2 DEF Cache!WriteSnapshot, Publishes
    <3> QED BY <1>1, <3>1, <3>2, <3>3 DEF Publishes
  <2>3. CASE Cache!WriteNodes
    BY <1>1, <1>4, <2>3 DEF Publish, Cache!WriteNodes, vars, Publishes
  <2> QED BY <1>4, <2>1, <2>2, <2>3 DEF Publish
<1>5. CASE NextCrawl
  BY <1>5 DEF NextCrawl, Cache!Wake, Publishes
<1>6. CASE BindFails \/ SelectSwarm \/ SelectServe
  BY <1>6 DEF BindFails, SelectSwarm, SelectServe, Exit, Publishes
<1>7. CASE Crawl \/ CrawlPanics \/ Start \/ SpawnCrawler \/ Bind \/ SwarmEnds \/ Bounded \/ UNCHANGED mapVars
  BY <1>2, <1>7 DEF Crawl, CrawlPanics, Start, SpawnCrawler, Bind, SwarmEnds, Bounded, mapVars
<1> QED BY <1>3, <1>4, <1>5, <1>6, <1>7 DEF MapNext

LEMMA MapInvAlways == MapSpec => [](PassInv /\ Publishes)
<1>1. MapInit => PassInv /\ Publishes
  BY InitPass, InitPublishes DEF MapInit
<1> QED BY <1>1, StepPass, StepPublishes, PTL DEF MapSpec

\* What a step of the process does to the cache.
LEMMA CacheStep ==
  PassInv /\ Publishes /\ [MapNext]_mapVars
      => [Cache!Next \/ (process' = "down" /\ Cache!Init')]_cacheVars
<1> SUFFICES ASSUME PassInv, Publishes, [MapNext]_mapVars, ~UNCHANGED cacheVars
             PROVE  Cache!Next \/ (process' = "down" /\ Cache!Init')
  OBVIOUS
<1>1. CASE Return
  BY <1>1, MeasuredType DEF Return, Cache!Next, Cache!Crawler
<1>2. CASE Publish
  BY <1>2 DEF Publish, Cache!Next, Cache!Crawler
<1>3. CASE NextCrawl
  BY <1>3 DEF NextCrawl, Cache!Next, Cache!Crawler
<1>4. CASE Exit
  <2>1. [peers |-> {}, blocks |-> {}, dots |-> {}] \in Cache!CrawlResults
    BY DEF Cache!CrawlResults
  <2> QED BY <1>4, <2>1 DEF Exit, Cache!Init, Publishes
<1>5. CASE Crawl \/ CrawlPanics \/ Start \/ SpawnCrawler \/ Bind \/ SwarmEnds \/ Bounded \/ UNCHANGED mapVars
  BY <1>5 DEF Crawl, CrawlPanics, Start, SpawnCrawler, Bind, SwarmEnds, Bounded, mapVars
<1> QED BY <1>1, <1>2, <1>3, <1>4, <1>5 DEF MapNext, BindFails, SelectSwarm, SelectServe

\* Whatever the network answers and whenever the process restarts, the crawler
\* writes the served state as NodeCache says: a pass publishes a result of the
\* kind its proofs start from, and touches the cache in publish alone
\* (run_crawler, publish).
THEOREM CrawlerImplementsNodeCache == MapSpec => ImplementsNodeCache
<1>1. MapInit => Cache!Init
  BY DEF MapInit
<1> QED BY <1>1, CacheStep, MapInvAlways, PTL DEF MapSpec, ImplementsNodeCache

-----------------------------------------------------------------------------
(* The dots that are served, when no address is configured twice.          *)

LEMMA StepEvidence == PassInv /\ Evidence /\ [MapNext]_mapVars => Evidence'
<1>1. PassInv /\ Evidence /\ [Next]_vars => Evidence'
  BY NextEvidence DEF PassInv
<1>2. Init' => Evidence'
  <2>1. Init => Evidence
    BY DEF Init, NewEntries, Evidence, Asking
  <2> QED BY <2>1, PTL
<1> QED BY <1>1, <1>2, PassSteps

\* From the sleep on, the map shows the dots of exactly those bootstraps that
\* answered the pass, held or not, in every process (publish, bootstrap_states).
THEOREM DotsOfLatestPassAlways == ASSUME Distinct PROVE MapSpec => []DotsOfLatestPass
<1>1. MapInit => Evidence
  BY DEF MapInit, Init, NewEntries, Evidence, Asking
<1>2. PassInv /\ Publishes /\ Evidence => DotsOfLatestPass
  <2> SUFFICES ASSUME PassInv, Publishes, Evidence, pc = "sleeping"
               PROVE  snapshot.dots = {i \in Entries : Config[i] \in answered}
    BY DEF DotsOfLatestPass
  <2>1. snapshot.dots = Online(entries)
    BY DEF Publishes, Measured, PassInv, Published
  <2>2. DotsAreEvidence
    BY AllFirst
  <2> QED BY <2>1, <2>2 DEF Online, DotsAreEvidence
<1> QED BY <1>1, <1>2, StepEvidence, MapInvAlways, PTL DEF MapSpec

-----------------------------------------------------------------------------
(* What is served, lifted from the cache's proofs (NodeCacheProofs).       *)

CacheProofs == INSTANCE NodeCacheProofs WITH Bootstraps <- Entries, result <- measured

\* The cache of the proofs is the one the process composes.
LEMMA SameInit == Cache!Init => CacheProofs!Init
BY DEF Cache!Init, Cache!EmptyDocument, Cache!None, Cache!CrawlResults, Cache!NothingRead,
       CacheProofs!Init, CacheProofs!EmptyDocument, CacheProofs!None, CacheProofs!CrawlResults,
       CacheProofs!NothingRead

LEMMA SameNext == [Cache!Next]_cacheVars => [CacheProofs!Next]_(CacheProofs!vars)
<1>1. \A d, r, n : Cache!MergeCrawl(d, Cache!FreshDocument(r, n))
                    = CacheProofs!MergeCrawl(d, CacheProofs!FreshDocument(r, n))
  BY DEF Cache!MergeCrawl, Cache!FreshDocument, Cache!Held, Cache!None,
         CacheProofs!MergeCrawl, CacheProofs!FreshDocument, CacheProofs!Held, CacheProofs!None
<1>2. \A d : Cache!NodeEntries(d) = CacheProofs!NodeEntries(d)
  BY DEF Cache!NodeEntries, CacheProofs!NodeEntries
<1>3. Cache!CrawlResults = CacheProofs!CrawlResults
  BY DEF Cache!CrawlResults, CacheProofs!CrawlResults
<1>4. CASE \E r \in Cache!CrawlResults : Cache!CrawlOnce(r)
  BY <1>3, <1>4 DEF Cache!CrawlOnce, CacheProofs!CrawlOnce, CacheProofs!Next, CacheProofs!Crawler
<1>5. Cache!Merge => CacheProofs!Merge
  BY <1>1 DEF Cache!Merge, CacheProofs!Merge, Cache!ThisPass, CacheProofs!ThisPass
<1>6. Cache!WriteSnapshot => CacheProofs!WriteSnapshot
  BY DEF Cache!WriteSnapshot, CacheProofs!WriteSnapshot
<1>7. Cache!WriteNodes => CacheProofs!WriteNodes
  BY <1>2 DEF Cache!WriteNodes, CacheProofs!WriteNodes
<1>8. Cache!Wake => CacheProofs!Wake
  BY DEF Cache!Wake, CacheProofs!Wake
<1>9. UNCHANGED cacheVars => UNCHANGED CacheProofs!vars
  BY DEF cacheVars, CacheProofs!vars
<1> QED
  BY <1>4, <1>5, <1>6, <1>7, <1>8, <1>9
  DEF Cache!Next, Cache!Crawler, CacheProofs!Next, CacheProofs!Crawler, Readers

Served == CacheProofs!TypeOK /\ CacheProofs!ServedInv

LEMMA InitServed == Cache!Init => Served
BY SameInit, MapServerAssumption, CacheProofs!InitType, CacheProofs!ServedInit
DEF Served, CacheProofs!MaxPassesAssumption

LEMMA StepServed == PassInv /\ Publishes /\ Served /\ [MapNext]_mapVars => Served'
<1>1. Served /\ [Cache!Next]_cacheVars => Served'
  BY SameNext, MapServerAssumption, CacheProofs!TypeNext, CacheProofs!ServedNext
  DEF Served, CacheProofs!MaxPassesAssumption
<1>2. Cache!Init' => Served'
  BY InitServed, PTL
<1> QED BY <1>1, <1>2, CacheStep

\* In every process, whatever its passes read, what is served is what they call
\* for, and nothing an earlier process had read is (NodeCache::new, publish).
THEOREM ServedInEveryProcessAlways == MapSpec => []ServedInEveryProcess
<1>1. MapInit => Served
  BY InitServed DEF MapInit
<1>2. \A h : CacheProofs!DocumentOf(h) = Cache!DocumentOf(h)
  BY DEF Cache!DocumentOf, Cache!ReadPasses, Cache!Latest, Cache!EmptyDocument, Cache!FreshDocument,
         Cache!None, CacheProofs!DocumentOf, CacheProofs!ReadPasses, CacheProofs!Latest,
         CacheProofs!EmptyDocument, CacheProofs!FreshDocument, CacheProofs!None
<1>3. \A d : CacheProofs!NodeEntries(d) = Cache!NodeEntries(d)
  BY DEF Cache!NodeEntries, CacheProofs!NodeEntries
<1>4. Served => ServedInEveryProcess
  BY <1>2, <1>3 DEF Served, ServedInEveryProcess, CacheProofs!ServedInv,
     CacheProofs!NodesFollowSnapshot, Cache!NodesFollowSnapshot, Cache!ServedIsLastReadPass
<1> QED BY <1>1, <1>4, StepServed, MapInvAlways, PTL DEF MapSpec

=============================================================================
