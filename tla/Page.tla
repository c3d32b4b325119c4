--------------------------------- MODULE Page ---------------------------------
(***************************************************************************)
(* The map page (kwaainet.html) as a client of the server: it polls the    *)
(* document on a timer, whether or not earlier fetches have been answered, *)
(* draws the active tab from each reply, redraws a tab that is activated   *)
(* from the document it has, and lets the user stop the timer or change    *)
(* its interval.  Event handlers run one at a time; replies arrive in any  *)
(* order, or not at all.                                                   *)
(*                                                                         *)
(* A document is named by its number in the order the server publishes.    *)
(***************************************************************************)
EXTENDS Naturals, FiniteSets

CONSTANTS
  Fetches,      \* fetches that may be out at the same time (bound)
  Timers,       \* ids setInterval hands out
  MaxDocs,      \* bound on the documents of a behaviour
  MaxPending    \* bound on topology redraws waiting for their delay

None == "none"
NoDoc == 0

ASSUME PageAssumption ==
  /\ None \notin Timers /\ Cardinality(Timers) >= 2
  /\ MaxDocs \in Nat \ {0} /\ MaxPending \in Nat \ {0}

Tabs == {"map", "table", "topology"}

VARIABLES
  served,       \* the document the server holds
  out,          \* fetches sent and not ended
  answer,       \* fetch -> the document it was answered with, NoDoc before
  timers,       \* intervals that are ticking
  intervalId,   \* the page's intervalId
  checked,      \* the refresh box
  currentData,  \* the document the page has
  dots,         \* the document whose bootstrap dots are shown
  tab,          \* the active tab
  drawn,        \* tab -> the document it was last drawn from
  pending       \* topology redraws waiting for their delay

refresh == <<timers, intervalId, checked>>
views == <<tab, drawn, pending>>
network == <<out, answer>>
vars == <<served, network, refresh, currentData, dots, views>>

\* The page is loaded: the tab is restored from the fragment, one fetch is
\* sent, and the timer is started.
Init ==
  /\ served = 1
  /\ \E f \in Fetches : out = {f}
  /\ answer = [f \in Fetches |-> NoDoc]
  /\ \E t \in Timers : timers = {t} /\ intervalId = t
  /\ checked = TRUE
  /\ currentData = NoDoc /\ dots = NoDoc
  /\ tab \in Tabs
  /\ drawn = [t \in Tabs |-> NoDoc]
  /\ pending = 0

-----------------------------------------------------------------------------
(* Fetching.                                                               *)

\* The timer ticks: a fetch is sent, whatever is still out.
Tick(f) ==
  /\ timers # {} /\ f \notin out
  /\ out' = out \cup {f}
  /\ UNCHANGED <<served, answer, refresh, currentData, dots, views>>

\* The server answers with the document it holds (get_v1_state).
Answer(f) ==
  /\ f \in out /\ answer[f] = NoDoc
  /\ answer' = [answer EXCEPT ![f] = served]
  /\ UNCHANGED <<served, out, refresh, currentData, dots, views>>

\* Wrong variant: an ended fetch leaves its answer behind.
EndKeeping(f) == out' = out \ {f} /\ UNCHANGED answer

\* A fetch ends.
End(f) == out' = out \ {f} /\ answer' = [answer EXCEPT ![f] = NoDoc]

\* The answer arrives: it is the current document, old or new, and the dots
\* and the active tab are drawn from it.  A draw that throws half way, which the
\* handler would only log, is left out.
Arrive(f) ==
  /\ answer[f] # NoDoc /\ End(f)
  /\ currentData' = answer[f] /\ dots' = answer[f]
  /\ drawn' = [drawn EXCEPT ![tab] = answer[f]]
  /\ UNCHANGED <<served, refresh, tab, pending>>

\* Wrong variant: a failure ends the polling.
FailAndStop(f) ==
  /\ f \in out /\ End(f)
  /\ timers' = {}
  /\ UNCHANGED <<served, intervalId, checked, currentData, dots, views>>

\* The fetch is lost, or its body is not JSON: everything stays as it was.
Fail(f) ==
  /\ f \in out /\ End(f)
  /\ UNCHANGED <<served, refresh, currentData, dots, views>>

-----------------------------------------------------------------------------
(* The refresh box and the interval.                                       *)

\* Wrong variant: the timer that runs is not cleared first.
StartBesides == \E t \in Timers \ timers : timers' = timers \cup {t} /\ intervalId' = t

\* startUpdatingViews: the timer it knows of is cleared, another one started.
Start == \E t \in Timers \ timers : timers' = (timers \ {intervalId}) \cup {t} /\ intervalId' = t

\* stopUpdatingViews
Stop == timers' = timers \ {intervalId} /\ intervalId' = None

Toggle ==
  /\ checked' = ~checked
  /\ IF checked' THEN Start ELSE Stop
  /\ UNCHANGED <<served, network, currentData, dots, views>>

ChooseInterval ==
  /\ checked /\ Start
  /\ UNCHANGED <<served, network, checked, currentData, dots, views>>

-----------------------------------------------------------------------------
(* Drawing.                                                                *)

\* Wrong variant: the tab is left to the next reply.
ActivateOnly(t) ==
  /\ tab' = t
  /\ UNCHANGED <<served, network, refresh, currentData, dots, drawn, pending>>

\* activateTab: map and table are redrawn at once from the document the page
\* has, topology after a delay.
Activate(t) ==
  /\ tab' = t
  /\ drawn' = IF t # "topology" /\ currentData # NoDoc
              THEN [drawn EXCEPT ![t] = currentData] ELSE drawn
  /\ pending < MaxPending
  /\ pending' = IF t = "topology" /\ currentData # NoDoc THEN pending + 1 ELSE pending
  /\ UNCHANGED <<served, network, refresh, currentData, dots>>

\* The delay is over: topology is drawn from the document the page has now,
\* also if another tab is active by now.
Redraw ==
  /\ pending > 0
  /\ pending' = pending - 1
  /\ drawn' = [drawn EXCEPT !["topology"] = currentData]
  /\ UNCHANGED <<served, network, refresh, currentData, dots, tab>>

\* The window is resized: an active map is laid out and drawn again.
Resize ==
  /\ tab = "map" /\ currentData # NoDoc
  /\ drawn' = [drawn EXCEPT !["map"] = currentData]
  /\ UNCHANGED <<served, network, refresh, currentData, dots, tab, pending>>

-----------------------------------------------------------------------------
\* The crawler publishes the next document.
Publish ==
  /\ served < MaxDocs
  /\ served' = served + 1
  /\ UNCHANGED <<network, refresh, currentData, dots, views>>

Next ==
  \/ Publish
  \/ \E f \in Fetches : Tick(f) \/ Answer(f) \/ Arrive(f) \/ Fail(f)
  \/ Toggle \/ ChooseInterval
  \/ \E t \in Tabs : Activate(t)
  \/ Redraw \/ Resize

Spec == Init /\ [][Next]_vars

\* A timer that runs ticks and a delay ends.  Every fetch ends somehow, and of
\* a page that keeps asking not every fetch fails.
FairSpec ==
  /\ Spec
  /\ WF_vars(\E f \in Fetches : Tick(f)) /\ WF_vars(Redraw)
  /\ \A f \in Fetches : WF_vars(Answer(f) \/ Arrive(f) \/ Fail(f))
  /\ SF_vars(\E f \in Fetches : Answer(f)) /\ SF_vars(\E f \in Fetches : Arrive(f))

-----------------------------------------------------------------------------
Docs == 1 .. MaxDocs

\* The type invariant; the page has no document the server has not held.
TypeOK ==
  /\ served \in Docs
  /\ out \subseteq Fetches /\ answer \in [Fetches -> 0 .. served]
  /\ \A f \in Fetches \ out : answer[f] = NoDoc
  /\ timers \subseteq Timers /\ intervalId \in Timers \cup {None} /\ checked \in BOOLEAN
  /\ currentData \in 0 .. served /\ dots \in 0 .. served
  /\ tab \in Tabs /\ drawn \in [Tabs -> 0 .. served] /\ pending \in 0 .. MaxPending

\* What is on the screen is of one document, whatever order replies come in and
\* whenever tabs are switched: dots and active tab are drawn from the document
\* the page has, save for a topology redraw still in its delay
\* (fetchAndUpdateViews, activateTab).
ScreenIsOneDocument ==
  /\ dots = currentData
  /\ drawn[tab] = currentData \/ (tab = "topology" /\ pending > 0)

\* However often the box and the interval are changed, one timer runs while the
\* box is checked, and none, so that nothing more is asked, while it is not
\* (startUpdatingViews, stopUpdatingViews).
OneTimerIfChecked == timers = IF checked THEN {intervalId} ELSE {}

\* A late reply can put an older document on the screen, but not for good: when
\* the server has come to rest and refreshing stays on, the page ends up with
\* the server's document and keeps it.
CatchesUp ==
  <>[](served = MaxDocs /\ checked) => <>[](currentData = served)
=============================================================================
