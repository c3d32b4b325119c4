------------------------------ MODULE PageProofs ------------------------------
(***************************************************************************)
(* Proofs about Page, for any number of fetches, timers and documents.     *)
(***************************************************************************)
EXTENDS Page, TLAPS

-----------------------------------------------------------------------------
(* Type correctness.                                                       *)

LEMMA InitType == Init => TypeOK
BY PageAssumption DEF Init, TypeOK, Docs, NoDoc

LEMMA NextType == TypeOK /\ [Next]_vars => TypeOK'
<1> SUFFICES ASSUME TypeOK, [Next]_vars PROVE TypeOK'
  OBVIOUS
<1> USE DEF network, refresh, views, NoDoc
<1>1. CASE UNCHANGED vars
  BY <1>1 DEF vars, TypeOK
<1>2. CASE Publish
  <2>1. served' \in Docs /\ \A d \in 0 .. served : d \in 0 .. served'
    BY <1>2, PageAssumption DEF Publish, TypeOK, Docs
  <2>2. /\ answer' \in [Fetches -> 0 .. served'] /\ drawn' \in [Tabs -> 0 .. served']
        /\ currentData' \in 0 .. served' /\ dots' \in 0 .. served'
    BY <1>2, <2>1 DEF Publish, TypeOK
  <2> QED BY <1>2, <2>1, <2>2 DEF Publish, TypeOK
<1>3. ASSUME NEW f \in Fetches, Tick(f) PROVE TypeOK'
  BY <1>3 DEF Tick, TypeOK
<1>4. ASSUME NEW f \in Fetches, Answer(f) PROVE TypeOK'
  <2>1. served \in 0 .. served
    BY PageAssumption DEF TypeOK, Docs
  <2> QED BY <1>4, <2>1 DEF Answer, TypeOK
<1>5. ASSUME NEW f \in Fetches, Arrive(f) PROVE TypeOK'
  <2>1. answer[f] \in 0 .. served /\ 0 \in 0 .. served
    BY <1>5, PageAssumption DEF TypeOK, Docs
  <2> QED BY <1>5, <2>1 DEF Arrive, End, TypeOK
<1>6. ASSUME NEW f \in Fetches, Fail(f) PROVE TypeOK'
  <2>1. 0 \in 0 .. served
    BY PageAssumption DEF TypeOK, Docs
  <2> QED BY <1>6, <2>1 DEF Fail, End, TypeOK
<1>7. CASE Toggle
  BY <1>7 DEF Toggle, Start, Stop, TypeOK
<1>8. CASE ChooseInterval
  BY <1>8 DEF ChooseInterval, Start, TypeOK
<1>9. ASSUME NEW t \in Tabs, Activate(t) PROVE TypeOK'
  <2>1. pending' \in 0 .. MaxPending
    BY <1>9, PageAssumption DEF Activate, TypeOK
  <2> QED BY <1>9, <2>1 DEF Activate, TypeOK
<1>10. CASE Redraw
  <2>1. pending' \in 0 .. MaxPending
    BY <1>10, PageAssumption DEF Redraw, TypeOK
  <2> QED BY <1>10, <2>1 DEF Redraw, TypeOK
<1>11. CASE Resize
  BY <1>11 DEF Resize, TypeOK
<1> QED
  BY <1>1, <1>2, <1>3, <1>4, <1>5, <1>6, <1>7, <1>8, <1>9, <1>10, <1>11 DEF Next

\* Types hold, and no part of the page has a document the server has not held
\* yet, whatever order replies come in (Page!TypeOK).
THEOREM TypeCorrect == Spec => []TypeOK
BY InitType, NextType, PTL DEF Spec

-----------------------------------------------------------------------------
(* The timer.                                                              *)

LEMMA NextTimer == OneTimerIfChecked /\ [Next]_vars => OneTimerIfChecked'
<1> SUFFICES ASSUME OneTimerIfChecked, [Next]_vars PROVE OneTimerIfChecked'
  OBVIOUS
<1>1. CASE UNCHANGED refresh
  BY <1>1 DEF refresh, OneTimerIfChecked
<1>2. CASE Toggle
  BY <1>2 DEF Toggle, Start, Stop, OneTimerIfChecked
<1>3. CASE ChooseInterval
  BY <1>3 DEF ChooseInterval, Start, OneTimerIfChecked
<1>4. UNCHANGED refresh \/ Toggle \/ ChooseInterval
  BY DEF Next, vars, Publish, Tick, Answer, Arrive, Fail, Activate, Redraw, Resize
<1> QED BY <1>1, <1>2, <1>3, <1>4

\* Whatever is done to the box and the interval, the page has one timer, the
\* one it knows of, or none (startUpdatingViews, stopUpdatingViews).
THEOREM OneTimerIfCheckedAlways == Spec => []OneTimerIfChecked
<1>1. Init => OneTimerIfChecked
  BY DEF Init, OneTimerIfChecked
<1> QED BY <1>1, NextTimer, PTL DEF Spec

-----------------------------------------------------------------------------
(* The screen.                                                             *)

\* A page that has no document has drawn nothing: what makes
\* ScreenIsOneDocument inductive, as a tab activated then is not redrawn.
Screen ==
  /\ ScreenIsOneDocument
  /\ currentData = NoDoc => \A t \in Tabs : drawn[t] = NoDoc

LEMMA NextScreen == TypeOK /\ Screen /\ [Next]_vars => Screen'
<1> SUFFICES ASSUME TypeOK, Screen, [Next]_vars PROVE Screen'
  OBVIOUS
<1>1. CASE UNCHANGED <<currentData, dots, views>>
  BY <1>1 DEF views, Screen, ScreenIsOneDocument
<1>2. ASSUME NEW f \in Fetches, Arrive(f) PROVE Screen'
  BY <1>2 DEF Arrive, TypeOK, Screen, ScreenIsOneDocument
<1>3. ASSUME NEW t \in Tabs, Activate(t) PROVE Screen'
  BY <1>3 DEF Activate, TypeOK, Screen, ScreenIsOneDocument, NoDoc
<1>4. CASE Redraw \/ Resize
  BY <1>4 DEF Redraw, Resize, TypeOK, Screen, ScreenIsOneDocument, NoDoc
<1>5. \/ UNCHANGED <<currentData, dots, views>>
      \/ \E f \in Fetches : Arrive(f)
      \/ \E t \in Tabs : Activate(t)
      \/ Redraw \/ Resize
  BY DEF Next, vars, Publish, Tick, Answer, Fail, Toggle, ChooseInterval
<1> QED BY <1>1, <1>2, <1>3, <1>4, <1>5

\* The dots and the active tab show one document, whichever reply came last and
\* however tabs were switched, but for a topology still in its delay
\* (fetchAndUpdateViews, activateTab).
THEOREM ScreenIsOneDocumentAlways == Spec => []ScreenIsOneDocument
<1>1. Init => Screen
  BY DEF Init, Screen, ScreenIsOneDocument
<1>2. Screen => ScreenIsOneDocument
  BY DEF Screen
<1> QED BY <1>1, <1>2, NextScreen, TypeCorrect, PTL DEF Spec
=============================================================================
