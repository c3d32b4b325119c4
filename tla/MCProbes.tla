------------------------------- MODULE MCProbes -------------------------------
(***************************************************************************)
(* Probes for TLC: one peer and one name that is no peer id, two clients   *)
(* so that two probes of one peer overlap, one listed address before the   *)
(* bare id, and an expiry of two on a clock of three, so that a verdict    *)
(* can be young, old, and replaced.                                        *)
(***************************************************************************)
EXTENDS Probes

CONSTANTS p1, x1, c1, c2

MCIds == {p1}
MCNotIds == {x1}
MCClients == {c1, c2}
=============================================================================
