------------------------------ MODULE MCNodeCache ------------------------------
(***************************************************************************)
(* NodeCache for TLC: one peer, one block and one bootstrap make every     *)
(* kind of crawl (peers or none, blocks lost, dots lost); three passes     *)
(* reach a fresh document, a hold, and a second hold or a recovery; one    *)
(* client makes every request against every step of a publish, and since   *)
(* readers share nothing a second one adds no behaviour.                   *)
(***************************************************************************)
EXTENDS NodeCache

CONSTANTS p1, b1, s1, c1

MCPeers == {p1}
MCBlocks == {b1}
MCBootstraps == {s1}
MCReaders == {c1}
=============================================================================
