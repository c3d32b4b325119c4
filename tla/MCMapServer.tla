----------------------------- MODULE MCMapServer -----------------------------
(***************************************************************************)
(* MapServer for TLC: the smallest network in which records, capability    *)
(* registries, kad and the hold can disagree: two bootstraps, two servers  *)
(* of a one-block model, one of them excluded from the peer list, so that  *)
(* a document may report a model and list no peer, a capability record     *)
(* under a subkey that is no peer id and cannot be cut, and two passes.    *)
(***************************************************************************)
EXTENDS MapServer

CONSTANTS a1, a2, n1, n2, odd

MCAddress == {a1, a2}
MCConfig == <<a1, a2>>
MCPeers == {n1, n2, odd}
MCPeerIds == {n1, n2}
MCAnnouncers == {odd}
MCExcluded == {n1}
MCRegistered == {1}
MCRegisteredBlocks == {1}
MCStates == {"online", "offline"}
=============================================================================
