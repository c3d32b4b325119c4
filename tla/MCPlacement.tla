----------------------------- MODULE MCPlacement -----------------------------
(***************************************************************************)
(* Placement for TLC: a node n1, and a node r1 that may relay for it, seen *)
(* by a name, by the LAN address of its hop, or by a pinned one; every kind*)
(* of connection; two connections of a node at a time, in either order; a  *)
(* cache that two addresses fill.                                          *)
(***************************************************************************)
EXTENDS Placement, TLC

CONSTANTS n1, r1

MCPeers == {n1, r1}
MCIps == {"ip of n1", "ip of r1", "lan", "pinned"}
MCPublic == {"ip of n1", "ip of r1"}
MCStatics == {"pinned"}
MCNames == {"relay name"}

PlainAt(ip) == [ip |-> ip, circuit |-> FALSE, name |-> None, relay |-> None]
Hop(ip, name) == [ip |-> ip, circuit |-> TRUE, name |-> name, relay |-> r1]

Dialed(addr) == [addr |-> addr, outbound |-> TRUE, via |-> NoAddress, dcutr |-> FALSE]
Came(addr, via) == [addr |-> addr, outbound |-> FALSE, via |-> via, dcutr |-> FALSE]
Hole(addr) == [addr |-> addr, outbound |-> TRUE, via |-> NoAddress, dcutr |-> TRUE]

MCConnections ==
  (n1 :> {Dialed(PlainAt("ip of n1")), Came(PlainAt("ip of n1"), NoAddress), Hole(PlainAt("ip of n1")),
          Dialed(Hop("lan", None)), Dialed(Hop("pinned", None)), Dialed(PlainAt("pinned")),
          Came(NoAddress, Hop(None, "relay name"))})
  @@ (r1 :> {Dialed(PlainAt("ip of r1")), Came(PlainAt("ip of r1"), NoAddress)})
=============================================================================
