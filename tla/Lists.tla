-------------------------------- MODULE Lists --------------------------------
(***************************************************************************)
(* The iterator adapters the code is written with (filter, find, fold), for*)
(* lists that keep their places: what passes a filter keeps the index it   *)
(* had, so a list is a function on some positive numbers, in their order.  *)
(***************************************************************************)
EXTENDS Integers, FiniteSets, FiniteSetsExt

\* A list of values of S, or what a filter left of one.
ListOf(list, S) ==
  /\ IsFiniteSet(DOMAIN list) /\ DOMAIN list \subseteq Nat \ {0}
  /\ \A i \in DOMAIN list : list[i] \in S

\* filter: the places whose values pass the test.
Where(list, Test(_)) == {i \in DOMAIN list : Test(list[i])}

\* find: what stands first among some places.
FirstOf(list, places) == list[Min(places)]

\* The place a loop over the list ends at.
LastPlace(list) == IF DOMAIN list = {} THEN 0 ELSE Max(DOMAIN list)

\* for value in list: out becomes Op(out, value).
Folded(Op(_, _), base, list) ==
  LET after[i \in 0 .. LastPlace(list)] ==
        IF i = 0 THEN base
        ELSE IF i \in DOMAIN list THEN Op(after[i - 1], list[i]) ELSE after[i - 1]
  IN  after[LastPlace(list)]
=============================================================================
