-------------------------------- MODULE Dashboard --------------------------------
(***************************************************************************)
(* A browser tab with the dashboard, and the read endpoints of the API     *)
(* behind it.  The layout is made when the page is loaded (serve_layout)   *)
(* and offers the locations of that moment.  The callback refresh, on      *)
(* every choice of a location and every minute, asks the API for the       *)
(* latest observation, for the history and for one forecast per horizon:   *)
(* call after call, each in a transaction of its own, while ingestion goes *)
(* on.  Any call that fails leaves an empty page with an error.            *)
(*                                                                         *)
(* Of what the page shows, the model keeps the ages of the observations it *)
(* comes from; what it showed before the refresh at hand is forgotten.     *)
(* The browser ends one refresh before it starts another one.  The row     *)
(* that POST /predict writes is in module ModelCache.                      *)
(*                                                                         *)
(* An operator whose name starts with Faulty is not part of the model: it  *)
(* is the definition after it with a bug in it, kept to show that the      *)
(* properties notice the bug.                                              *)
(***************************************************************************)
EXTENDS World, FiniteSetsExt

CONSTANTS
  Horizons,     \* the length of HORIZONS_HOURS (2 in the code)
  ModelSets,    \* sets of horizons that the API may have a model for
  Lookback,     \* the lookback window of the features
  MaxOutages,   \* bound: times the API cannot be reached
  MaxLost,      \* bound: answers that take longer than the client waits
  MaxChoices    \* bound: times the user loads the page or chooses a location

Hs == 1 .. Horizons

ASSUME DashboardAssumption ==
  /\ Horizons \in Nat \ {0} /\ ModelSets \subseteq SUBSET Hs
  /\ Lookback \in Nat /\ Lookback < OldestAge
  /\ MaxOutages \in Nat /\ MaxLost \in Nat /\ MaxChoices \in Nat

VARIABLES
  reachable,  \* does the API answer?
  models,     \* the horizons that it has a model for
  tab,        \* the page
  outages, lost, choices

page == <<reachable, models, tab, outages, lost, choices>>

--------------------------------------------------------------------------------
(* The API.                                                                *)

None == -1
Ages == 0 .. OldestAge

AgeOf(l) == IF newest[l] = NoObservation THEN None ELSE newest[l].age

\* GET /locations.
ListedLocations == active

\* GET /observations/l/latest; None stands for the 404.
LatestObservation(l) == AgeOf(l)

\* GET /observations/l?limit=288: the first of its rows, the newest first.
ObservationHistory(l) == AgeOf(l)

\* The features of the row that is stored are taken, from the hour before.
FaultyPredict(l, h) ==
  IF h \in models /\ AgeOf(l) <= Lookback /\ AgeOf(l) # None THEN Older(AgeOf(l)) ELSE None

\* POST /predict: the observation that its features are anchored on.  None stands
\* for the 503 of a missing model and for the 404 of an empty window, which the
\* client does not tell apart.
Predict(l, h) == IF h \in models /\ AgeOf(l) <= Lookback THEN AgeOf(l) ELSE None

--------------------------------------------------------------------------------
(* The page.                                                               *)

Calls == 2 + Horizons

NoView == [latest |-> None, chart |-> None, base |-> [h \in Hs |-> None]]
Page(pc, options, selected) ==
  [pc |-> pc, options |-> options, selected |-> selected, call |-> 0, view |-> NoView]

\* The history is asked for before the latest observation.
FaultyAnswer(view, n, l) ==
  CASE n = 1 -> [view EXCEPT !.chart = ObservationHistory(l)]
    [] n = 2 -> [view EXCEPT !.latest = LatestObservation(l)]
    [] n > 2 -> [view EXCEPT !.base[n - 2] = Predict(l, n - 2)]

\* The calls in the order that refresh makes them.
Answer(view, n, l) ==
  CASE n = 1 -> [view EXCEPT !.latest = LatestObservation(l)]
    [] n = 2 -> [view EXCEPT !.chart = ObservationHistory(l)]
    [] n > 2 -> [view EXCEPT !.base[n - 2] = Predict(l, n - 2)]

\* A call that fails: the API cannot be reached, or its answer is late.
CallFails ==
  /\ lost' \in (IF reachable THEN {lost + 1} ELSE {lost})
  /\ lost' <= MaxLost

\* refresh with a location starts its calls, without one it says so.
Refreshing(options, selected) ==
  Page(IF selected = None THEN "unselected" ELSE "calling", options, selected)

\* The first location there is, offered or not.
FaultyDefaultValue == Min(Ls)

\* The first of the options.
DefaultValue == IF ListedLocations = {} THEN None ELSE Min(ListedLocations)

\* The layout is made, with the first location as its value; the callback runs
\* for the first time.
Load ==
  /\ "dashboard" \in deployed /\ choices < MaxChoices
  /\ choices' = choices + 1
  /\ \/ /\ reachable
        /\ tab' = Refreshing(ListedLocations, DefaultValue)
        /\ UNCHANGED lost
     \/ /\ CallFails
        /\ tab' = Refreshing({}, None)
  /\ UNCHANGED <<reachable, models, outages>>

\* The user chooses another location of those that the page offers.
Select(l) ==
  /\ tab.pc # "closed" /\ choices < MaxChoices
  /\ l \in tab.options \ {tab.selected}
  /\ choices' = choices + 1
  /\ tab' = Refreshing(tab.options, l)
  /\ UNCHANGED <<reachable, models, outages, lost>>

\* Only a page that shows something is refreshed.
FaultyRefreshable == tab.pc = "shown"

\* dcc.Interval fires whatever the page shows; without a location, for nothing.
Refreshable == tab.pc \in {"shown", "error"}

Interval ==
  /\ Refreshable
  /\ tab' = Refreshing(tab.options, tab.selected)
  /\ UNCHANGED <<reachable, models, outages, lost, choices>>

\* The next call of refresh is answered; after the last one the page is made.
CallAnswered ==
  /\ tab.pc = "calling" /\ reachable
  /\ tab' = [tab EXCEPT !.pc = IF tab.call + 1 = Calls THEN "shown" ELSE @,
                        !.call = @ + 1,
                        !.view = Answer(@, tab.call + 1, tab.selected)]
  /\ UNCHANGED <<reachable, models, outages, lost, choices>>

\* It fails: an error and nothing else.
CallRaises ==
  /\ tab.pc = "calling" /\ CallFails
  /\ tab' = Page("error", tab.options, tab.selected)
  /\ UNCHANGED <<reachable, models, outages, choices>>

\* The API goes away and comes back.
Outage ==
  /\ "dashboard" \in deployed /\ reachable /\ outages < MaxOutages
  /\ reachable' = FALSE /\ outages' = outages + 1
  /\ UNCHANGED <<models, tab, lost, choices>>

Recovery ==
  /\ ~ reachable
  /\ reachable' = TRUE
  /\ UNCHANGED <<models, tab, outages, lost, choices>>

OlderAge(age) == IF age = None THEN None ELSE Older(age)

OlderView(view) ==
  [latest |-> OlderAge(view.latest), chart |-> OlderAge(view.chart),
   base |-> [h \in Hs |-> OlderAge(view.base[h])]]

\* Time passes for the page.
PageAges ==
  /\ tab' = [tab EXCEPT !.view = OlderView(@)]
  /\ UNCHANGED <<reachable, models, outages, lost, choices>>

PageStep == Interval \/ CallAnswered \/ CallRaises

UserOrFault == Load \/ Outage \/ Recovery \/ \E l \in Ls : Select(l)

PageInit ==
  /\ reachable = TRUE
  /\ models \in ModelSets
  /\ tab = Page("closed", {}, None)
  /\ outages = 0 /\ lost = 0 /\ choices = 0

--------------------------------------------------------------------------------
(* What makes the page correct.                                            *)

Views == [latest : Ages \cup {None}, chart : Ages \cup {None}, base : [Hs -> Ages \cup {None}]]

\* Variables stay in their types; a page is shown when all its calls are answered.
PageTypeOK ==
  /\ reachable \in BOOLEAN /\ models \in ModelSets
  /\ tab \in [pc : {"closed", "unselected", "calling", "shown", "error"},
              options : SUBSET Ls, selected : Ls \cup {None},
              call : 0 .. Calls, view : Views]
  /\ tab.selected \in tab.options \cup {None}
  /\ tab.call = Calls <=> tab.pc = "shown"
  /\ outages \in 0 .. MaxOutages /\ lost \in 0 .. MaxLost /\ choices \in 0 .. MaxChoices

\* The age b is at most the age a; nothing is older than anything.
AtLeastAsNew(b, a) == a = None \/ (b # None /\ b <= a)

\* A forecast comes from readings at least as new as the chart; there is none only
\* when the chart's last reading has left the lookback window.
ForecastInOrder(view, h) ==
  \/ AtLeastAsNew(view.base[h], view.chart)
  \/ view.base[h] = None /\ view.chart > Lookback

\* A page shows one moment although it is put together from many: the chart is at
\* least as new as the conditions above it, and a forecast is computed from
\* readings at least as new as the chart; "no production model / no data yet" is
\* said only of a horizon without a model or when the chart's last reading has
\* left the lookback window.
PageInOrder ==
  tab.pc = "shown" =>
    /\ AtLeastAsNew(tab.view.chart, tab.view.latest)
    /\ \A h \in models : ForecastInOrder(tab.view, h)

\* What that rests on.  The answers so far are in order, and the API is never behind
\* an answer that it has given in this refresh: the latest observation of a location
\* is replaced by newer ones only, and time passes for the page as for the table.
AnswersInOrder ==
  /\ tab.call >= 2 => AtLeastAsNew(tab.view.chart, tab.view.latest)
  /\ \A h \in models : tab.call >= h + 2 => ForecastInOrder(tab.view, h)
  /\ tab.pc = "calling" =>
       /\ tab.selected # None
       /\ tab.call >= 1 => AtLeastAsNew(AgeOf(tab.selected), tab.view.latest)
       /\ tab.call >= 2 => AtLeastAsNew(AgeOf(tab.selected), tab.view.chart)

\* A page with a location recovers by itself: once the API stays reachable, it
\* shows the observations again and again, whatever failed before.
PageRecovers ==
  <>[](reachable /\ tab.selected # None) => []<>(tab.pc = "shown")
================================================================================
