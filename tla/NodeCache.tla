------------------------------ MODULE NodeCache ------------------------------
(***************************************************************************)
(* The served state of map-server: the crawler task publishing one crawl   *)
(* after another into NodeCache (cache.rs, run_crawler), and the HTTP and  *)
(* WebSocket handlers reading it (routes.rs).  NodeCache keeps a document  *)
(* and the node list derived from it behind two separate RwLocks, so a     *)
(* publish is two writes and several endpoints are two or three reads; each*)
(* lock is held for the copy of one Arc, so each access is one step here.  *)
(***************************************************************************)
EXTENDS Snapshots, FiniteSets

CONSTANTS
  Readers,      \* concurrent clients
  MaxPasses     \* bound on the crawl passes of a behaviour

ASSUME MaxPassesAssumption == MaxPasses \in Nat

VARIABLES
  snapshot,     \* RwLock<Arc<Snapshot>>
  nodes,        \* RwLock<Arc<Vec<NodeEntry>>>
  pc,           \* where the crawler task is
  result,       \* what the current pass measured
  served,       \* publish's local: the merged document
  serving,      \* per reader: the endpoint it is in, or "idle"
  got,          \* per reader: what it has read so far
  crawls        \* history: results of the published passes

vars == <<snapshot, nodes, pc, result, served, serving, got, crawls>>

\* What each handler reads, in order.  /api/live computes the stats once per
\* tick; is_reachable reads the document as /api/v1/state does.
Reads ==
  [state |-> <<"snapshot">>, nodes |-> <<"nodes">>,
   stats |-> <<"snapshot", "nodes">>, live |-> <<"snapshot", "nodes">>,
   metrics |-> <<"snapshot", "nodes", "snapshot">>]

Endpoints == DOMAIN Reads

NothingRead == [docs |-> <<>>, lists |-> <<>>]

ReadsMade(r) == Len(got[r].docs) + Len(got[r].lists)

Finished(r) == serving[r] # "idle" /\ ReadsMade(r) = Len(Reads[serving[r]])

NextRead(r, what) ==
  /\ serving[r] # "idle"
  /\ ReadsMade(r) < Len(Reads[serving[r]])
  /\ Reads[serving[r]][ReadsMade(r) + 1] = what

ThisPass == Len(crawls) + 1

Init ==
  /\ snapshot = EmptyDocument
  /\ nodes = {}
  /\ pc = "crawling"
  /\ result \in {r \in CrawlResults : r.peers = {} /\ r.dots = {}}
  /\ served = EmptyDocument
  /\ serving = [r \in Readers |-> "idle"]
  /\ got = [r \in Readers |-> NothingRead]
  /\ crawls = <<>>

-----------------------------------------------------------------------------
(* The crawler task.  crawl_once never fails: its Ok(None) and Err results *)
(* are kept for a transport failure the in-process swarm cannot report.    *)

CrawlOnce(r) ==
  /\ pc = "crawling" /\ Len(crawls) < MaxPasses
  /\ pc' = "merging" /\ result' = r
  /\ UNCHANGED <<snapshot, nodes, served, serving, got, crawls>>

\* Wrong variant: a pass to be held returns early and is forgotten.
MergeOrSkip ==
  /\ pc = "merging"
  /\ served' = MergeCrawl(snapshot, FreshDocument(result, ThisPass))
  /\ pc' = IF result.peers = {} THEN "sleeping" ELSE "writing snapshot"
  /\ UNCHANGED <<snapshot, nodes, result, serving, got, crawls>>

\* publish: read the served document and merge.
Merge ==
  /\ pc = "merging"
  /\ served' = MergeCrawl(snapshot, FreshDocument(result, ThisPass))
  /\ pc' = "writing snapshot"
  /\ UNCHANGED <<snapshot, nodes, result, serving, got, crawls>>

WriteSnapshot ==
  /\ pc = "writing snapshot"
  /\ snapshot' = served
  /\ crawls' = Append(crawls, result)
  /\ pc' = "writing nodes"
  /\ UNCHANGED <<nodes, result, served, serving, got>>

\* Wrong variants: the list is derived from the crawl instead of from what is
\* served; it is written only if the number of peers changed.
WriteNodesOfCrawl ==
  /\ pc = "writing nodes"
  /\ nodes' = NodeEntries(FreshDocument(result, Len(crawls)))
  /\ pc' = "sleeping"
  /\ UNCHANGED <<snapshot, result, served, serving, got, crawls>>
WriteNodesIfMoreOrLess ==
  /\ pc = "writing nodes"
  /\ nodes' = IF Cardinality(nodes) = Cardinality(served.peers) THEN nodes ELSE NodeEntries(served)
  /\ pc' = "sleeping"
  /\ UNCHANGED <<snapshot, result, served, serving, got, crawls>>

WriteNodes ==
  /\ pc = "writing nodes"
  /\ nodes' = NodeEntries(served)
  /\ pc' = "sleeping"
  /\ UNCHANGED <<snapshot, result, served, serving, got, crawls>>

\* The CRAWL_INTERVAL sleep ends.
Wake ==
  /\ pc = "sleeping"
  /\ pc' = "crawling"
  /\ UNCHANGED <<snapshot, nodes, result, served, serving, got, crawls>>

-----------------------------------------------------------------------------
(* The handlers.                                                           *)

Request(r, endpoint) ==
  /\ serving[r] = "idle"
  /\ serving' = [serving EXCEPT ![r] = endpoint]
  /\ UNCHANGED <<snapshot, nodes, pc, result, served, got, crawls>>

ReadSnapshot(r) ==
  /\ NextRead(r, "snapshot")
  /\ got' = [got EXCEPT ![r].docs = Append(@, snapshot)]
  /\ UNCHANGED <<snapshot, nodes, pc, result, served, serving, crawls>>

\* Wrong variant: the list is awaited until it has an entry.
ReadNodesWhenThere(r) ==
  /\ NextRead(r, "nodes") /\ nodes # {}
  /\ got' = [got EXCEPT ![r].lists = Append(@, nodes)]
  /\ UNCHANGED <<snapshot, nodes, pc, result, served, serving, crawls>>

ReadNodes(r) ==
  /\ NextRead(r, "nodes")
  /\ got' = [got EXCEPT ![r].lists = Append(@, nodes)]
  /\ UNCHANGED <<snapshot, nodes, pc, result, served, serving, crawls>>

\* Wrong variant: the reads of one response are left for the next.
RespondKeepingReads(r) ==
  /\ Finished(r)
  /\ serving' = [serving EXCEPT ![r] = IF @ = "live" THEN @ ELSE "idle"]
  /\ UNCHANGED <<snapshot, nodes, pc, result, served, got, crawls>>

\* The response is sent; a live session waits for its next 5 s tick.
Respond(r) ==
  /\ Finished(r)
  /\ serving' = [serving EXCEPT ![r] = IF @ = "live" THEN @ ELSE "idle"]
  /\ got' = [got EXCEPT ![r] = NothingRead]
  /\ UNCHANGED <<snapshot, nodes, pc, result, served, crawls>>

\* handle_live leaves its loop when the send fails.
Disconnect(r) ==
  /\ Finished(r) /\ serving[r] = "live"
  /\ serving' = [serving EXCEPT ![r] = "idle"]
  /\ got' = [got EXCEPT ![r] = NothingRead]
  /\ UNCHANGED <<snapshot, nodes, pc, result, served, crawls>>

-----------------------------------------------------------------------------
Crawler == (\E r \in CrawlResults : CrawlOnce(r)) \/ Merge \/ WriteSnapshot \/ WriteNodes \/ Wake

Reader(r) ==
  \/ \E endpoint \in Endpoints : Request(r, endpoint)
  \/ ReadSnapshot(r) \/ ReadNodes(r) \/ Respond(r) \/ Disconnect(r)

Next == Crawler \/ \E r \in Readers : Reader(r)

Spec == Init /\ [][Next]_vars

\* The crawler loop and the handlers are tokio tasks that nothing blocks for
\* good: the runtime keeps polling them, and a reader that has started a
\* request runs it to its response.  Clients owe nothing: no fairness on
\* Request or Disconnect.
FairSpec ==
  /\ Spec
  /\ WF_vars(Crawler)
  /\ \A r \in Readers : WF_vars(ReadSnapshot(r) \/ ReadNodes(r) \/ Respond(r))

-----------------------------------------------------------------------------
CrawlerSteps == {"crawling", "merging", "writing snapshot", "writing nodes", "sleeping"}

\* The type invariant: every variable has its type and a handler never holds
\* more reads than its endpoint makes.
TypeOK ==
  /\ snapshot \in Documents /\ served \in Documents
  /\ nodes \in NodeLists
  /\ pc \in CrawlerSteps
  /\ result \in CrawlResults
  /\ serving \in [Readers -> Endpoints \cup {"idle"}]
  /\ got \in [Readers -> [docs : Seq(Documents), lists : Seq(NodeLists)]]
  /\ \A r \in Readers : IF serving[r] = "idle" THEN got[r] = NothingRead
                                               ELSE ReadsMade(r) <= Len(Reads[serving[r]])
  /\ crawls \in Seq(CrawlResults)

\* After any number of merges the served document is the one the whole
\* sequence of crawls calls for: the data of the last pass that read a peer,
\* the dots and timings of the last pass, held once per pass in between
\* (merge_crawl, and the fields' comments in snapshot.rs).
ServedIsLastReadPass == snapshot = DocumentOf(crawls)

\* Between publishes the node list is the one derived from the served
\* document; while publish is between its two writes it is still the list of
\* the document served before (cache.rs, "keeps the entries consistent with
\* the peer data it is still serving").
NodesFollowSnapshot ==
  IF pc = "writing nodes"
  THEN nodes = NodeEntries(DocumentOf(SubSeq(crawls, 1, Len(crawls) - 1)))
  ELSE nodes = NodeEntries(snapshot)

\* A handler that reads document and list in steps of their own reads publishes
\* in order: the list is of the publish before its first document's at the
\* earliest, and where it reads the document again, that is no older than the
\* first and the list no newer than it (stats, metrics, handle_live).
MixedReadsInOrder ==
  \A r \in Readers :
    LET docs  == got[r].docs
        lists == got[r].lists
    IN  /\ Len(docs) = 2 => docs[1].timed <= docs[2].timed
        /\ docs # <<>> /\ lists # <<>> =>
             \E k \in 0 .. Len(crawls) :
               /\ docs[1].timed <= k + 1
               /\ Len(docs) = 2 => k <= docs[2].timed
               /\ lists[1] = NodeEntries(DocumentOf(SubSeq(crawls, 1, k)))

\* What is served never goes back in time, and two documents with one
\* last_updated carry the same peers and model reports ("`last_updated` means
\* when this was read and must not advance", merge_crawl).
SameStampSameData ==
  [][/\ snapshot'.last_updated >= snapshot.last_updated
     /\ snapshot'.last_updated = snapshot.last_updated =>
          /\ snapshot'.peers = snapshot.peers
          /\ snapshot'.blocks = snapshot.blocks]_snapshot

\* Every pass the crawler completes reaches both the document and the list,
\* held or not: run_crawler never drops one.
EveryPassIsServed ==
  \A n \in 1 .. MaxPasses :
    (pc = "merging" /\ ThisPass = n) ~>
      (snapshot.timed >= n /\ nodes = NodeEntries(snapshot))

\* A client that asks for a document, a list or figures gets its response
\* whatever the crawler is doing.
RequestsAnswered ==
  \A r \in Readers : (serving[r] \in Endpoints \ {"live"}) ~> (serving[r] = "idle")

\* What cache.rs says of stats ("Aggregate stats over the current snapshot")
\* and of publish (the entries stay "consistent with the peer data it is still
\* serving"): figures combined in one reply describe one document.
StatsOfOneSnapshot ==
  \A r \in Readers :
    got[r].docs # <<>> /\ got[r].lists # <<>> =>
      got[r].lists[1] = NodeEntries(got[r].docs[1])
=============================================================================
