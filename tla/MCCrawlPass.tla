----------------------------- MODULE MCCrawlPass -----------------------------
(***************************************************************************)
(* CrawlPass for TLC: two bootstraps that can answer, one of them listed   *)
(* twice, and an address that names no peer; two servers and a model of up *)
(* to two blocks, so one bootstrap's stale copy can meet the other's fresh *)
(* one on the same block or on different ones; one of the servers is       *)
(* excluded from the peer list and the other has capability records too.   *)
(***************************************************************************)
EXTENDS CrawlPass

CONSTANTS a1, a2, a3, n1, n2

MCAddress == {a1, a2, a3}
MCConfig == <<a1, a2, a1, a3>>
MCQueryable == {a1, a2}
MCPeers == {n1, n2}
MCAnnouncers == {n1}
MCExcluded == {n2}
MCRegistered == {1}
MCFallbackPrefixes == {1}
\* 0 is what an unreadable count decodes to; 3 is above MaxBlocks.
MCRegisteredBlocks == {0, 3}
MCStates == {"online", "offline"}
=============================================================================
