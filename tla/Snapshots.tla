------------------------------ MODULE Snapshots ------------------------------
(***************************************************************************)
(* The document map-server serves, as snapshot.rs declares it, and the two *)
(* functions the served state is computed with: merge_crawl, which decides *)
(* what to serve given a crawl and the served document, and node_entries,  *)
(* which flattens a document into the list behind /api/nodes.              *)
(*                                                                         *)
(* A document keeps what the properties tell apart: the peers it lists     *)
(* (num_peers is their number), the covered blocks of its model reports,   *)
(* the bootstraps shown online, and its time stamps.  A time is the number *)
(* of the crawl pass that took it; 0 is the start of the process.          *)
(***************************************************************************)
EXTENDS Integers, Sequences

CONSTANTS
  Peers,        \* ids of nodes a crawl may list
  Blocks,       \* (model, block) pairs the model reports may show covered
  Bootstraps    \* configured bootstraps

None == 0       \* Option::None for stale_since; pass numbers start at 1

\* What one crawl measured: crawl_once's result before it is stamped.  Blocks
\* are read from a bootstrap's answer only, so blocks imply a bootstrap that
\* answered; peers do not (kad alone may know them).
CrawlResults ==
  {r \in [peers : SUBSET Peers, blocks : SUBSET Blocks, dots : SUBSET Bootstraps] :
     r.blocks # {} => r.dots # {}}

Documents ==
  [peers : SUBSET Peers, blocks : SUBSET Blocks, dots : SUBSET Bootstraps,
   last_updated : Nat,   \* when the peer data was read
   timed        : Nat,   \* the pass whose update_duration it carries
   stale_since  : Nat,   \* when held data was read, or None
   crawls_held  : Nat]

\* Snapshot::default(): what is served before the first pass.
EmptyDocument ==
  [peers |-> {}, blocks |-> {}, dots |-> {}, last_updated |-> 0, timed |-> 0,
   stale_since |-> None, crawls_held |-> 0]

\* A crawl as build_snapshot stamps it: fresh by construction.
FreshDocument(r, pass) ==
  [peers |-> r.peers, blocks |-> r.blocks, dots |-> r.dots,
   last_updated |-> pass, timed |-> pass, stale_since |-> None, crawls_held |-> 0]

\* Wrong variants of Held and MergeCrawl, which the properties must catch: the
\* dots are taken for part of the held data; the reports are taken for part of
\* what every pass measures; an empty pass at startup is held.
HeldWithOldDots(served, fresh) ==
  [served EXCEPT !.timed = fresh.timed, !.stale_since = served.last_updated,
                 !.crawls_held = @ + 1]
HeldWithNewReports(served, fresh) ==
  [served EXCEPT !.dots = fresh.dots, !.timed = fresh.timed, !.blocks = fresh.blocks,
                 !.stale_since = served.last_updated, !.crawls_held = @ + 1]
MergeHoldingAtStartup(served, fresh) ==
  IF fresh.peers # {} THEN fresh
  ELSE [served EXCEPT !.dots = fresh.dots, !.timed = fresh.timed,
                      !.stale_since = served.last_updated, !.crawls_held = @ + 1]

\* The served document, held over a pass that read nothing: it takes only the
\* bootstrap dots and the timings of that pass.
Held(served, fresh) ==
  [peers |-> served.peers, blocks |-> served.blocks, dots |-> fresh.dots,
   last_updated |-> served.last_updated, timed |-> fresh.timed,
   stale_since |-> IF served.stale_since = None THEN served.last_updated
                                                ELSE served.stale_since,
   crawls_held |-> served.crawls_held + 1]

MergeCrawl(served, fresh) ==
  IF fresh.peers # {} \/ served.peers = {} THEN fresh ELSE Held(served, fresh)

\* One entry per peer; each carries the stamp of the document it came from.
NodeLists == SUBSET [peer_id : Peers, last_seen : Nat]

NodeEntries(doc) == {[peer_id |-> p, last_seen |-> doc.last_updated] : p \in doc.peers}

-----------------------------------------------------------------------------
(* The reference: what ought to be served after a sequence of crawls, said *)
(* from the whole sequence instead of one merge at a time.                 *)

ReadPasses(crawls) == {i \in DOMAIN crawls : crawls[i].peers # {}}

Latest(S) == CHOOSE i \in S : \A j \in S : j <= i

\* The peer data of the latest pass that read a peer, under the dots and the
\* timings of the latest pass, and counting the passes in between; before any
\* pass has read a peer, the latest pass as it is.
DocumentOf(crawls) ==
  LET n == Len(crawls)
      i == Latest(ReadPasses(crawls))
  IN  IF n = 0 THEN EmptyDocument
      ELSE IF ReadPasses(crawls) = {} THEN FreshDocument(crawls[n], n)
      ELSE [peers |-> crawls[i].peers, blocks |-> crawls[i].blocks,
            dots |-> crawls[n].dots, last_updated |-> i, timed |-> n,
            stale_since |-> IF i = n THEN None ELSE i, crawls_held |-> n - i]
=============================================================================
