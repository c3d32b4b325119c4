-------------------------------- MODULE MCPage --------------------------------
(***************************************************************************)
(* Page for TLC: two fetches, which is what it takes for a later reply to  *)
(* overtake an earlier one; two documents, an older and a newer; two timer *)
(* ids, one running and one about to; one topology redraw in its delay     *)
(* while tabs are switched, and one more.                                  *)
(***************************************************************************)
EXTENDS Page

CONSTANTS f1, f2, i1, i2

MCFetches == {f1, f2}
MCTimers == {i1, i2}
=============================================================================
