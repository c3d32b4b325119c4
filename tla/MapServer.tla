------------------------------ MODULE MapServer ------------------------------
(***************************************************************************)
(* The map-server process (main.rs, observer.rs, run_crawler): the swarm   *)
(* it runs on, the crawler task, and the listener whose handlers serve the *)
(* cache.  The crawler runs the crawl pass of module CrawlPass and         *)
(* publishes into module NodeCache; the two share the snapshot a pass hands*)
(* to publish and the sleep between passes.  Handlers only read the cache: *)
(* they are NodeCache's subject and are left out here (no Readers).        *)
(*                                                                         *)
(* The three fail apart: the swarm task can end, a panic can end the       *)
(* crawler task, the listener can fail to bind or to serve.  main watches  *)
(* the swarm and the listener and leaves on either; the container's restart*)
(* policy then starts a new process, with nothing of the old one.          *)
(***************************************************************************)
EXTENDS CrawlPass

CONSTANTS
  MaxPasses,     \* bound on the crawl passes of one process
  Unsliceable    \* subkeys over ten bytes whose last six start inside a character

ASSUME MapServerAssumption == MaxPasses \in Nat /\ Unsliceable \subseteq Peers \ PeerIds

VARIABLES
  process,       \* "down", "starting" or "serving"
  swarm,         \* the swarm task: "none", "running" or "ended"
  crawler,       \* the crawler task: "none", "running" or "panicked"
  snapshot, nodes, pc, measured, served, serving, got, crawls    \* NodeCache's

cacheVars == <<snapshot, nodes, pc, measured, served, serving, got, crawls>>
tasks == <<process, swarm, crawler>>
mapVars == <<vars, cacheVars, tasks>>

Readers == {}

\* The (model, block) pairs a report can show covered, and the dots by entry.
Blocks == Prefixes \X (0 .. MaxBlocks + FallbackBlocks + MaxResults)

Cache == INSTANCE NodeCache WITH Bootstraps <- Entries, result <- measured

\* What the served document keeps of an assembled snapshot.
Measured ==
  [peers  |-> result.peers,
   blocks |-> UNION {{m} \X result.reports[m].covered : m \in DOMAIN result.reports},
   dots   |-> result.dots]

MapInit == Init /\ Cache!Init /\ process = "down" /\ swarm = "none" /\ crawler = "none"

-----------------------------------------------------------------------------
(* The crawler task.                                                       *)

\* short_peer_id cuts the id of every server and of every listed peer.
Abbreviated == BlockPeers \cup (CapabilityPeers \ Excluded)
CannotAssemble == step = "observe" /\ Abbreviated \cap Unsliceable # {}

\* A pass on a swarm that has ended: every dial and every call of the handle
\* is an error.
Unheard ==
  \/ Dial(FALSE) \/ NoneDialable \/ Dialed
  \/ Unaddressed \/ LostOnce \/ LostAgain
  \/ Discovered \/ Collected \/ CapabilityRead
  \/ KadKnows({}) \/ DialPeers(discovered) \/ Observe({})

\* crawl_once, up to the snapshot it returns.
Crawl ==
  /\ crawler = "running" /\ pc = "crawling" /\ Len(crawls) < MaxPasses
  /\ step # "publish" /\ ~CannotAssemble
  /\ IF swarm = "running" THEN Next ELSE Unheard
  /\ UNCHANGED <<cacheVars, tasks>>

\* The slice panics.  The panic ends the task and nothing else: its handle was
\* dropped by main, and the locks it may hold later are not held here.
CrawlPanics ==
  /\ crawler = "running" /\ pc = "crawling" /\ Len(crawls) < MaxPasses /\ CannotAssemble
  /\ crawler' = "panicked"
  /\ UNCHANGED <<vars, cacheVars, process, swarm>>

\* Wrong variant: a pass without peers is not worth publishing.
ReturnWithPeers ==
  /\ crawler = "running" /\ step = "publish" /\ result.peers # {}
  /\ Cache!CrawlOnce(Measured) /\ UNCHANGED <<vars, tasks>>

\* It returns, and run_crawler passes the snapshot to publish.
Return ==
  /\ crawler = "running" /\ step = "publish"
  /\ Cache!CrawlOnce(Measured) /\ UNCHANGED <<vars, tasks>>

Publish == (Cache!Merge \/ Cache!WriteSnapshot \/ Cache!WriteNodes) /\ UNCHANGED <<vars, tasks>>

\* The sleep ends and the next pass starts.
NextCrawl == Cache!Wake /\ NextPass /\ UNCHANGED tasks

-----------------------------------------------------------------------------
(* main and the container.                                                 *)

\* observer::start spawned the swarm; the bootstraps it dials may all fail.
\* Where it cannot spawn one, main leaves with the error and the restart policy
\* tries again: a step from "down" to "down".
Start ==
  /\ process = "down"
  /\ process' = "starting" /\ swarm' = "running"
  /\ UNCHANGED <<vars, cacheVars, crawler>>

SpawnCrawler ==
  /\ process = "starting" /\ crawler = "none"
  /\ crawler' = "running"
  /\ UNCHANGED <<vars, cacheVars, process, swarm>>

\* The listener is bound last: the crawler is running by then.
Bind ==
  /\ process = "starting" /\ crawler # "none"
  /\ process' = "serving"
  /\ UNCHANGED <<vars, cacheVars, swarm, crawler>>

SwarmEnds ==
  /\ swarm = "running"
  /\ swarm' = "ended"
  /\ UNCHANGED <<vars, cacheVars, process, crawler>>

\* The process leaves, and its tasks and all it had read with it.
Exit ==
  /\ process' = "down" /\ swarm' = "none" /\ crawler' = "none"
  /\ Afresh
  /\ snapshot' = Cache!EmptyDocument /\ nodes' = {} /\ served' = Cache!EmptyDocument
  /\ pc' = "crawling" /\ crawls' = <<>>
  /\ measured' = [peers |-> {}, blocks |-> {}, dots |-> {}]
  /\ UNCHANGED <<serving, got>>

\* `bind` returned an error after the crawler was spawned.
BindFails == process = "starting" /\ crawler # "none" /\ Exit

\* Wrong variant: the swarm is looked at once, before the listener is served.
CheckSwarmOnce == process = "starting" /\ swarm = "ended" /\ Exit

\* The select: the swarm task ended.
SelectSwarm == process = "serving" /\ swarm = "ended" /\ Exit

\* The select: `serve` returned, or the container stopped the process.
SelectServe == process = "serving" /\ Exit

\* Not the code's: where the bound on passes ends the crawl, it stays.
Bounded == pc = "crawling" /\ Len(crawls) = MaxPasses /\ UNCHANGED mapVars

-----------------------------------------------------------------------------
MapNext ==
  \/ Crawl \/ CrawlPanics \/ Return \/ Publish \/ NextCrawl
  \/ Start \/ SpawnCrawler \/ Bind \/ BindFails \/ SwarmEnds \/ SelectSwarm \/ SelectServe
  \/ Bounded

MapSpec == MapInit /\ [][MapNext]_mapVars

\* The crawler task is polled while it lives.  The restart policy starts a
\* process that is down; a starting one comes to bind, or fails to; select
\* polls the swarm's handle.  Nothing makes the swarm end or the listener fail.
MapFairSpec ==
  /\ MapSpec
  /\ WF_mapVars(Crawl \/ CrawlPanics \/ Return \/ Publish \/ NextCrawl)
  /\ WF_mapVars(Start) /\ WF_mapVars(SpawnCrawler) /\ WF_mapVars(Bind \/ BindFails)
  /\ WF_mapVars(SelectSwarm)

-----------------------------------------------------------------------------
\* The crawler is a correct writer for the cache: whatever the DHT answers and
\* whenever the process restarts, a pass publishes only results the cache's
\* model allows for and touches the served state through publish alone, and a
\* new process starts from the empty cache.
ImplementsNodeCache ==
  Cache!Init /\ [][Cache!Next \/ (process' = "down" /\ Cache!Init')]_cacheVars

\* In every process, after a restart or a panic too, what is served is what the
\* passes of that process call for, and the node list is that document's, or
\* between the two writes of publish the one before it (main, NodeCache::new).
ServedInEveryProcess == Cache!ServedIsLastReadPass /\ Cache!NodesFollowSnapshot

\* While the crawler works on a pass, the map shows the dots of the pass
\* before: those of the bootstraps that answered it, held data or not, and
\* from the sleep on those of this pass.
DotsOfLatestPass == pc = "sleeping" => snapshot.dots = {i \in Entries : Config[i] \in answered}

\* Every pass ends up served, however its queries fare and whatever becomes of
\* the swarm, unless its task or its process ends.
EveryPassShown ==
  \A n \in 1 .. MaxPasses :
    (Len(crawls) + 1 = n /\ pc = "crawling" /\ crawler = "running")
      ~> (snapshot.timed >= n \/ crawler # "running")

\* "A dead swarm means the crawler can never refresh ... Exit instead and let
\* the restart policy deal with it" (main): a swarm that has ended, before or
\* after the listener was bound, is in the end replaced by a running one.
SwarmReplaced == swarm = "ended" ~> swarm = "running"

\* What main says of a process that can no longer refresh: "serving on would
\* hand out a frozen snapshot indefinitely. Exit instead".  A process that goes
\* on serving goes on publishing, pass after pass.
NeverFrozen ==
  \A n \in 0 .. MaxPasses - 1 :
    (process = "serving" /\ snapshot.timed = n) ~> (snapshot.timed > n \/ process # "serving")
=============================================================================
