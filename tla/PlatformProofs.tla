----------------------------- MODULE PlatformProofs ------------------------------
(***************************************************************************)
(* What is proved of the monitoring alone holds when it shares its world   *)
(* with the dashboard: a behaviour of Platform is one of Quality.  And of  *)
(* the dashboard in that world: its types, and that a page which is put    *)
(* together from many calls is in order; for any number of locations,      *)
(* horizons, outages, lost answers and choices of the user.                *)
(***************************************************************************)
EXTENDS Platform, QualityProofs, Extrema

--------------------------------------------------------------------------------
(* The monitoring in one world with the dashboard.                         *)

\* Every step of the platform is a step of the monitoring or leaves it alone.
LEMMA PlatformStep == [PlatformNext]_platform => [Next]_vars
  <1>. SUFFICES ASSUME [PlatformNext]_platform PROVE [Next]_vars
    OBVIOUS
  <1>1. CASE TimePasses /\ CheckAges /\ PageAges
    BY <1>1 DEF Next
  <1>2. CASE WorldChanges /\ UNCHANGED <<monitoring, page>>
    BY <1>2 DEF Next
  <1>3. CASE Monitor
    BY <1>3 DEF Monitor, Next
  <1>4. CASE Browse
    BY <1>4 DEF Browse, world, monitoring, vars
  <1>5. CASE UNCHANGED platform
    BY <1>5 DEF platform, vars
  <1>. QED
    BY <1>1, <1>2, <1>3, <1>4, <1>5 DEF PlatformNext

LEMMA PlatformMonitors == PlatformSpec => Spec
  <1>1. PlatformInit => Init
    BY DEF PlatformInit, Init
  <1>. QED
    BY <1>1, PlatformStep, PTL DEF PlatformSpec, Spec

\* The record and the alerts tell the same story, whatever the dashboard does.
THEOREM PlatformAlerts == PlatformSpec => []AlertsMatchRecord
  BY PlatformMonitors, AlertsHonest, PTL

\* The exit status is honest, whatever the dashboard does.
THEOREM PlatformExit == PlatformSpec => []ExitHonest
  BY PlatformMonitors, ExitIsHonest, PTL

\* The record stays atomic, whatever the dashboard does.
THEOREM PlatformLog == PlatformSpec => ImplementsLog
  BY PlatformMonitors, Implementation, PTL

--------------------------------------------------------------------------------
(* Lemmas about ages.                                                      *)

AgesOrNone == Ages \cup {None}

LEMMA OldestIsNat == OldestAge \in Nat
  BY WorldAssumption

\* The API gives an age for every location that was observed.
LEMMA AgeOfType ==
  ASSUME WorldTypeOK, NEW l \in Ls
  PROVE  AgeOf(l) \in AgesOrNone
  <1>1. newest[l] \in Observations
    BY DEF WorldTypeOK
  <1>2. CASE newest[l] = NoObservation
    BY <1>2 DEF AgeOf, AgesOrNone
  <1>3. CASE newest[l] \in [age : 0 .. OldestAge, fields : Measurements]
    BY <1>3 DEF AgeOf, AgesOrNone, Ages
  <1>. QED
    BY <1>1, <1>2, <1>3 DEF Observations

\* What was stored is an observation, whatever its age.
LEMMA StoredIsSome ==
  ASSUME NEW o \in [age : 0 .. OldestAge, fields : Measurements]
  PROVE  o # NoObservation
  <1>1. o.fields.temperature_c # "none"
    BY MeasurementsAssumption DEF Fields
  <1>. QED
    BY <1>1 DEF NoObservation, NoFields

\* "At least as new" is transitive.
LEMMA NewerTransitive ==
  ASSUME NEW a \in AgesOrNone, NEW b \in AgesOrNone, NEW c \in AgesOrNone,
         AtLeastAsNew(c, b), AtLeastAsNew(b, a)
  PROVE  AtLeastAsNew(c, a)
  BY OldestIsNat DEF AtLeastAsNew, AgesOrNone, Ages, None

\* One unit of time later an age is an age, and no smaller.
LEMMA OlderAgeType ==
  ASSUME NEW a \in AgesOrNone
  PROVE  OlderAge(a) \in AgesOrNone /\ (OlderAge(a) = None <=> a = None) /\ a <= OlderAge(a)
  BY OldestIsNat DEF OlderAge, Older, AgesOrNone, Ages, None

\* Time passes for two ages without changing their order.
LEMMA OlderKeepsOrder ==
  ASSUME NEW a \in AgesOrNone, NEW b \in AgesOrNone, AtLeastAsNew(b, a)
  PROVE  AtLeastAsNew(OlderAge(b), OlderAge(a))
  BY OldestIsNat DEF OlderAge, Older, AtLeastAsNew, AgesOrNone, Ages, None

\* Time passes for the table as it does for the page.
LEMMA SameClock ==
  ASSUME WorldTypeOK, TimePasses, NEW l \in Ls
  PROVE  AgeOf(l)' = OlderAge(AgeOf(l))
  <1>1. newest[l] \in Observations /\ newest'[l] = [newest[l] EXCEPT !.age = Older(@)]
    BY DEF WorldTypeOK, TimePasses
  <1>2. CASE newest[l] = NoObservation
    <2>1. Older(NoObservation.age) = NoObservation.age
      BY OldestIsNat DEF Older, NoObservation
    <2>2. newest'[l] = [NoObservation EXCEPT !.age = NoObservation.age]
      BY <1>1, <1>2, <2>1
    <2>3. newest'[l] = NoObservation
      BY <2>2 DEF NoObservation
    <2>. QED
      BY <1>2, <2>3 DEF AgeOf, OlderAge
  <1>3. CASE newest[l] \in [age : 0 .. OldestAge, fields : Measurements]
    <2>1. Older(newest[l].age) \in 0 .. OldestAge
      BY <1>3, OldestIsNat DEF Older
    <2>2. /\ newest'[l] \in [age : 0 .. OldestAge, fields : Measurements]
          /\ newest'[l].age = Older(newest[l].age)
      BY <1>1, <1>3, <2>1
    <2>3. newest[l] # NoObservation /\ newest'[l] # NoObservation
      BY <1>3, <2>2, StoredIsSome
    <2>4. newest[l].age # None
      BY <1>3 DEF None
    <2>. QED
      BY <2>2, <2>3, <2>4 DEF AgeOf, OlderAge
  <1>. QED
    BY <1>1, <1>2, <1>3 DEF Observations

\* Ingestion and operators only make the latest observation newer.
LEMMA OnlyNewer ==
  ASSUME WorldTypeOK, WorldChanges, NEW l \in Ls
  PROVE  AtLeastAsNew(AgeOf(l)', AgeOf(l))
  <1>0. newest[l] \in Observations /\ DOMAIN newest = Ls
    BY DEF WorldTypeOK
  <1>1. PICK k \in Ls : Switch(k) \/ \E age \in 0 .. MaxLag, m \in Measurements : Observe(k, age, m)
    BY DEF WorldChanges
  <1>2. CASE newest'[l] = newest[l]
    <2>1. AgeOf(l)' = AgeOf(l)
      BY <1>2 DEF AgeOf
    <2>2. AgeOf(l) \in AgesOrNone
      BY AgeOfType
    <2>. QED
      BY <2>1, <2>2, OldestIsNat DEF AtLeastAsNew, AgesOrNone, Ages, None
  <1>3. CASE Switch(k)
    BY <1>2, <1>3 DEF Switch
  <1>4. ASSUME NEW age \in 0 .. MaxLag, NEW m \in Measurements, Observe(k, age, m)
        PROVE  AtLeastAsNew(AgeOf(l)', AgeOf(l))
    <2>1. CASE k # l
      BY <1>0, <1>2, <1>4, <2>1 DEF Observe
    <2>2. CASE k = l
      <3>1. newest'[l] = [age |-> age, fields |-> m] /\ age <= newest[l].age
        BY <1>0, <1>4, <2>2 DEF Observe
      <3>2. newest'[l] \in [age : 0 .. OldestAge, fields : Measurements]
        BY <3>1, WorldAssumption
      <3>3. AgeOf(l)' = age
        BY <3>1, <3>2, StoredIsSome DEF AgeOf
      <3>4. AgeOf(l) = None \/ AgeOf(l) = newest[l].age
        BY DEF AgeOf
      <3>5. age # None
        BY DEF None
      <3>. QED
        BY <3>1, <3>3, <3>4, <3>5 DEF AtLeastAsNew
    <2>. QED
      BY <2>1, <2>2
  <1>. QED
    BY <1>1, <1>3, <1>4

--------------------------------------------------------------------------------
(* Lemmas about the page.                                                  *)

PageStates ==
  [pc : {"closed", "unselected", "calling", "shown", "error"},
   options : SUBSET Ls, selected : Ls \cup {None}, call : 0 .. Calls, view : Views]

\* There are three calls at least, and those after the second are one per horizon.
LEMMA CallsAre == Calls \in Nat /\ Calls >= 3 /\ \A n \in 3 .. Calls : n - 2 \in Hs
  BY DashboardAssumption DEF Calls, Hs

\* No location is None.
LEMMA LocationIsSome == None \notin Ls
  BY WorldAssumption DEF None

\* A page that has no answer yet.
LEMMA PageFields ==
  ASSUME NEW pc \in {"closed", "unselected", "calling", "error"},
         NEW options \in SUBSET Ls, NEW selected \in Ls \cup {None}
  PROVE  /\ Page(pc, options, selected) \in PageStates
         /\ Page(pc, options, selected).pc = pc
         /\ Page(pc, options, selected).options = options
         /\ Page(pc, options, selected).selected = selected
         /\ Page(pc, options, selected).call = 0
  <1>1. NoView \in Views
    BY DEF NoView, Views
  <1>2. 0 \in 0 .. Calls
    BY CallsAre
  <1>. QED
    BY <1>1, <1>2 DEF Page, PageStates

\* The page starts over, or shows an error.
Reset ==
  \E pc \in {"unselected", "calling", "error"}, options \in SUBSET Ls :
    \E selected \in options \cup {None} :
      /\ pc = "calling" => selected # None
      /\ tab' = Page(pc, options, selected)

LEMMA RefreshingResets ==
  ASSUME NEW options \in SUBSET Ls, NEW selected \in options \cup {None},
         tab' = Refreshing(options, selected)
  PROVE  Reset
  BY DEF Refreshing, Reset

\* The value that the layout starts with is one of its options.
LEMMA DefaultOffered ==
  ASSUME active \subseteq Ls
  PROVE  DefaultValue \in ListedLocations \cup {None}
  <1>1. CASE active = {}
    BY <1>1 DEF DefaultValue, ListedLocations
  <1>2. CASE active # {}
    <2>1. active \subseteq Nat
      BY WorldAssumption
    <2>2. Min(active) \in active
      BY <1>2, <2>1, MinIsLeast
    <2>. QED
      BY <1>2, <2>2 DEF DefaultValue, ListedLocations
  <1>. QED
    BY <1>1, <1>2

\* What a step of the browser or of its environment does to the page.
LEMMA BrowseSteps ==
  ASSUME WorldTypeOK, PageTypeOK, PageStep \/ UserOrFault
  PROVE  /\ models' = models
         /\ Reset \/ CallAnswered \/ tab' = tab
  <1>0. /\ active \subseteq Ls /\ tab.options \in SUBSET Ls
        /\ tab.selected \in tab.options \cup {None}
    BY DEF WorldTypeOK, PageTypeOK
  <1>1. CASE Interval
    BY <1>0, <1>1, RefreshingResets DEF Interval
  <1>2. CASE CallAnswered
    BY <1>2 DEF CallAnswered
  <1>3. CASE CallRaises
    BY <1>0, <1>3 DEF CallRaises, Reset
  <1>4. CASE Load
    <2>1. CASE tab' = Refreshing(ListedLocations, DefaultValue)
      <3>1. ListedLocations \in SUBSET Ls
        BY <1>0 DEF ListedLocations
      <3>. QED
        BY <1>0, <1>4, <2>1, <3>1, DefaultOffered, RefreshingResets DEF Load
    <2>2. CASE tab' = Refreshing({}, None)
      BY <1>4, <2>2, RefreshingResets DEF Load
    <2>. QED
      BY <1>4, <2>1, <2>2 DEF Load
  <1>5. CASE Outage \/ Recovery
    BY <1>5 DEF Outage, Recovery
  <1>6. ASSUME NEW l \in Ls, Select(l)
        PROVE  models' = models /\ Reset
    <2>1. l \in tab.options \cup {None} /\ tab' = Refreshing(tab.options, l)
      BY <1>6 DEF Select
    <2>. QED
      BY <1>0, <1>6, <2>1, RefreshingResets DEF Select
  <1>. QED
    BY <1>1, <1>2, <1>3, <1>4, <1>5, <1>6 DEF PageStep, UserOrFault

\* An answer fills in one part of the view.
LEMMA AnswerFields ==
  ASSUME WorldTypeOK, NEW view \in Views, NEW l \in Ls, NEW n \in 1 .. Calls
  PROVE  /\ Answer(view, n, l) \in Views
         /\ n = 1 => /\ Answer(view, n, l).latest = AgeOf(l)
                     /\ Answer(view, n, l).chart = view.chart
                     /\ Answer(view, n, l).base = view.base
         /\ n = 2 => /\ Answer(view, n, l).latest = view.latest
                     /\ Answer(view, n, l).chart = AgeOf(l)
                     /\ Answer(view, n, l).base = view.base
         /\ n > 2 => /\ Answer(view, n, l).latest = view.latest
                     /\ Answer(view, n, l).chart = view.chart
                     /\ Answer(view, n, l).base[n - 2] = Predict(l, n - 2)
                     /\ \A h \in Hs \ {n - 2} : Answer(view, n, l).base[h] = view.base[h]
  <1>0. AgeOf(l) \in AgesOrNone /\ n \in Nat
    BY AgeOfType, CallsAre
  <1>1. CASE n = 1
    BY <1>0, <1>1 DEF Answer, LatestObservation, Views, AgesOrNone
  <1>2. CASE n = 2
    BY <1>0, <1>2 DEF Answer, ObservationHistory, Views, AgesOrNone
  <1>3. CASE n > 2
    <2>1. n - 2 \in Hs
      BY <1>3, CallsAre
    <2>2. Predict(l, n - 2) \in AgesOrNone
      BY <1>0 DEF Predict, AgesOrNone
    <2>3. Answer(view, n, l) = [view EXCEPT !.base[n - 2] = Predict(l, n - 2)]
      BY <1>0, <1>3 DEF Answer
    <2>. HIDE DEF Answer
    <2>. QED
      BY <1>3, <2>1, <2>2, <2>3 DEF Views, AgesOrNone
  <1>. QED
    BY <1>0, <1>1, <1>2, <1>3

\* A call that is answered, field by field.
LEMMA AnsweredFields ==
  ASSUME WorldTypeOK, PageTypeOK, AnswersInOrder, CallAnswered
  PROVE  /\ tab.pc = "calling" /\ tab.selected \in Ls /\ tab.call + 1 \in 1 .. Calls
         /\ tab' \in PageStates
         /\ tab'.pc = (IF tab.call + 1 = Calls THEN "shown" ELSE "calling")
         /\ tab'.options = tab.options /\ tab'.selected = tab.selected
         /\ tab'.call = tab.call + 1
         /\ tab'.view = Answer(tab.view, tab.call + 1, tab.selected)
  <1>1. tab.pc = "calling" /\ tab \in PageStates
    BY DEF CallAnswered, PageTypeOK, PageStates
  <1>2. tab.selected \in Ls
    BY <1>1 DEF AnswersInOrder, PageStates
  <1>3. tab.call + 1 \in 1 .. Calls
    BY <1>1, CallsAre DEF PageTypeOK, PageStates
  <1>4. Answer(tab.view, tab.call + 1, tab.selected) \in Views
    BY <1>1, <1>2, <1>3, AnswerFields DEF PageStates
  <1> DEFINE v == Answer(tab.view, tab.call + 1, tab.selected)
             p == IF tab.call + 1 = Calls THEN "shown" ELSE "calling"
             c == tab.call + 1
  <1>5. tab' = [tab EXCEPT !.pc = p, !.call = c, !.view = v]
    BY <1>1 DEF CallAnswered
  <1>6. p \in {"calling", "shown"} /\ c \in 0 .. Calls /\ v \in Views
    BY <1>3, <1>4
  <1>7. /\ tab' \in PageStates
        /\ tab'.pc = p /\ tab'.call = c /\ tab'.view = v
        /\ tab'.options = tab.options /\ tab'.selected = tab.selected
    <2>. HIDE DEF p, c, v
    <2>. QED
      BY <1>1, <1>5, <1>6 DEF PageStates
  <1>. QED
    BY <1>1, <1>2, <1>3, <1>7

\* A page that ages.
LEMMA AgedFields ==
  ASSUME PageTypeOK, PageAges
  PROVE  /\ tab' \in PageStates
         /\ tab'.pc = tab.pc /\ tab'.options = tab.options
         /\ tab'.selected = tab.selected /\ tab'.call = tab.call
         /\ tab'.view.latest = OlderAge(tab.view.latest)
         /\ tab'.view.chart = OlderAge(tab.view.chart)
         /\ \A h \in Hs : tab'.view.base[h] = OlderAge(tab.view.base[h])
  <1>1. tab \in PageStates /\ tab' = [tab EXCEPT !.view = OlderView(tab.view)]
    BY DEF PageAges, PageTypeOK, PageStates
  <1>2. /\ tab.view.latest \in AgesOrNone /\ tab.view.chart \in AgesOrNone
        /\ tab.view.base \in [Hs -> AgesOrNone]
    BY <1>1 DEF PageStates, Views, AgesOrNone
  <1>3. OlderView(tab.view) \in Views
    BY <1>2, OlderAgeType DEF OlderView, Views, AgesOrNone
  <1>4. tab' \in PageStates /\ tab'.view = OlderView(tab.view)
    BY <1>1, <1>3 DEF PageStates
  <1>. QED
    BY <1>1, <1>4 DEF OlderView, PageStates

--------------------------------------------------------------------------------
(* The page stays in its type, and its answers in order.                   *)

\* The world changes and time passes for all; a step of the monitoring leaves the
\* page alone, one of the browser the world.
LEMMA PlatformSteps ==
  ASSUME [PlatformNext]_platform
  PROVE  \/ TimePasses /\ PageAges
         \/ WorldChanges /\ UNCHANGED page
         \/ (PageStep \/ UserOrFault) /\ UNCHANGED world
         \/ UNCHANGED <<page, world>>
  <1>1. CASE TimePasses /\ CheckAges /\ PageAges
    BY <1>1
  <1>2. CASE WorldChanges /\ UNCHANGED <<monitoring, page>>
    BY <1>2
  <1>3. CASE Monitor
    <2>1. Step \/ Abort => UNCHANGED world
      BY DEF Step, Abort, Schedule, Begin, ListLocations, Commit, Exit, Examine, Notify, world
    <2>. QED
      BY <1>3, <2>1 DEF Monitor
  <1>4. CASE Browse
    BY <1>4 DEF Browse
  <1>5. CASE UNCHANGED platform
    BY <1>5 DEF platform, page, world
  <1>. QED
    BY <1>1, <1>2, <1>3, <1>4, <1>5 DEF PlatformNext

LEMMA PlatformWorldTypeKept ==
  ASSUME WorldTypeOK, [PlatformNext]_platform
  PROVE  WorldTypeOK'
  <1>1. CASE TimePasses \/ WorldChanges
    BY <1>1, WorldTypeKept
  <1>2. CASE UNCHANGED world
    BY <1>2 DEF world, WorldTypeOK
  <1>. QED
    BY <1>1, <1>2, PlatformSteps

\* A page that starts over has nothing to be in order.
LEMMA ResetInOrder ==
  ASSUME Reset, models' = models, models \subseteq Hs
  PROVE  AnswersInOrder' /\ tab' \in PageStates
         /\ tab'.selected \in tab'.options \cup {None} /\ tab'.call = 0 /\ tab'.pc # "shown"
  <1>1. PICK pc \in {"unselected", "calling", "error"}, options \in SUBSET Ls :
          \E selected \in options \cup {None} :
            /\ pc = "calling" => selected # None
            /\ tab' = Page(pc, options, selected)
    BY DEF Reset
  <1>2. PICK selected \in options \cup {None} :
          /\ pc = "calling" => selected # None
          /\ tab' = Page(pc, options, selected)
    BY <1>1
  <1>3. /\ tab' \in PageStates /\ tab'.pc = pc /\ tab'.options = options
        /\ tab'.selected = selected /\ tab'.call = 0
    BY <1>2, PageFields
  <1>4. \A h \in models' : h \in Nat \ {0}
    BY DashboardAssumption DEF Hs
  <1>5. ~ (tab'.call >= 2) /\ ~ (tab'.call >= 1) /\ \A h \in models' : ~ (tab'.call >= h + 2)
    BY <1>3, <1>4
  <1>. QED
    BY <1>2, <1>3, <1>5 DEF AnswersInOrder

LEMMA PageTypeKept ==
  ASSUME WorldTypeOK, PageTypeOK, AnswersInOrder, [PlatformNext]_platform
  PROVE  PageTypeOK'
  <1>0. models \subseteq Hs /\ models \in ModelSets /\ tab \in PageStates
        /\ 0 # Calls
    BY DashboardAssumption, CallsAre DEF PageTypeOK, PageStates
  <1>1. reachable' \in BOOLEAN /\ models' \in ModelSets /\ outages' \in 0 .. MaxOutages
        /\ lost' \in 0 .. MaxLost /\ choices' \in 0 .. MaxChoices
    <2>1. CASE UNCHANGED page \/ PageAges
      BY <2>1 DEF page, PageAges, PageTypeOK
    <2>2. CASE PageStep \/ UserOrFault
      <3>1. CallFails => lost' \in 0 .. MaxLost
        BY DashboardAssumption DEF CallFails, PageTypeOK
      <3>2. reachable' \in BOOLEAN /\ models' = models
        BY <2>2 DEF PageStep, UserOrFault, Interval, CallAnswered, CallRaises, Load, Outage,
                    Recovery, Select, PageTypeOK
      <3>3. outages' = outages \/ (outages < MaxOutages /\ outages' = outages + 1)
        BY <2>2 DEF PageStep, UserOrFault, Interval, CallAnswered, CallRaises, Load, Outage,
                    Recovery, Select
      <3>4. choices' = choices \/ (choices < MaxChoices /\ choices' = choices + 1)
        BY <2>2 DEF PageStep, UserOrFault, Interval, CallAnswered, CallRaises, Load, Outage,
                    Recovery, Select
      <3>5. lost' = lost \/ CallFails
        BY <2>2 DEF PageStep, UserOrFault, Interval, CallAnswered, CallRaises, Load, Outage,
                    Recovery, Select
      <3>. QED
        BY <3>1, <3>2, <3>3, <3>4, <3>5, DashboardAssumption DEF PageTypeOK
    <2>. QED
      BY <2>1, <2>2, PlatformSteps
  <1>2. /\ tab' \in PageStates /\ tab'.selected \in tab'.options \cup {None}
        /\ tab'.call = Calls <=> tab'.pc = "shown"
    <2>1. CASE tab' = tab
      BY <1>0, <2>1 DEF PageTypeOK
    <2>2. CASE PageAges
      BY <2>2, AgedFields DEF PageTypeOK
    <2>3. CASE Reset /\ models' = models
      BY <1>0, <2>3, ResetInOrder
    <2>4. CASE CallAnswered
      BY <2>4, AnsweredFields DEF PageTypeOK
    <2>. QED
      BY <2>1, <2>2, <2>3, <2>4, BrowseSteps, PlatformSteps DEF page
  <1>. QED
    BY <1>1, <1>2 DEF PageTypeOK, PageStates

\* An answer that is given now is as new as the table, and the table is as new as
\* the answers before.
LEMMA AnsweredInOrder ==
  ASSUME WorldTypeOK, PageTypeOK, AnswersInOrder, CallAnswered, newest' = newest
  PROVE  AnswersInOrder'
  <1> DEFINE l == tab.selected
             n == tab.call + 1
  <1>1. /\ tab.pc = "calling" /\ l \in Ls /\ n \in 1 .. Calls /\ n \in Nat
        /\ tab'.selected = l /\ tab'.call = n
        /\ tab'.view = Answer(tab.view, n, l) /\ models' = models
    BY AnsweredFields, CallsAre DEF CallAnswered
  <1>2. /\ tab.view \in Views /\ models \subseteq Hs /\ tab.call \in Nat
        /\ \A h \in Hs : h \in Nat \ {0}
    BY <1>1, DashboardAssumption, CallsAre DEF PageTypeOK, Hs
  <1>3. AgeOf(l) \in AgesOrNone /\ AgeOf(l)' = AgeOf(l)
    BY <1>1, AgeOfType DEF AgeOf
  <1>4. AtLeastAsNew(AgeOf(l), AgeOf(l))
    BY <1>3, OldestIsNat DEF AtLeastAsNew, AgesOrNone, Ages, None
  <1>5. /\ n >= 2 => AtLeastAsNew(AgeOf(l), tab.view.latest)
        /\ n >= 3 => AtLeastAsNew(AgeOf(l), tab.view.chart)
        /\ n >= 3 => AtLeastAsNew(tab.view.chart, tab.view.latest)
    BY <1>1, <1>2 DEF AnswersInOrder
  <1>6. /\ AtLeastAsNew(AgeOf(l), tab'.view.latest)
        /\ n >= 2 => AtLeastAsNew(AgeOf(l), tab'.view.chart)
        /\ n >= 2 => AtLeastAsNew(tab'.view.chart, tab'.view.latest)
    <2>1. CASE n = 1
      <3>1. tab'.view.latest = AgeOf(l)
        BY <1>1, <1>2, <2>1, AnswerFields
      <3>. QED
        BY <1>4, <2>1, <3>1
    <2>2. CASE n = 2
      <3>1. tab'.view.latest = tab.view.latest /\ tab'.view.chart = AgeOf(l)
        BY <1>1, <1>2, <2>2, AnswerFields
      <3>. QED
        BY <1>4, <1>5, <2>2, <3>1
    <2>3. CASE n > 2
      <3>1. tab'.view.latest = tab.view.latest /\ tab'.view.chart = tab.view.chart
        BY <1>1, <1>2, <2>3, AnswerFields
      <3>2. n >= 2 /\ n >= 3
        BY <1>1, <2>3
      <3>. QED
        BY <1>5, <3>1, <3>2
    <2>. QED
      BY <1>1, <2>1, <2>2, <2>3
  <1>7. ASSUME NEW h \in models, n >= h + 2
        PROVE  ForecastInOrder(tab'.view, h)
    <2>0. h \in Hs /\ h \in Nat \ {0}
      BY <1>2
    <2>1. n > 2 /\ n >= 3 /\ n - 2 \in Hs
      BY <1>1, <1>7, <2>0, CallsAre
    <2>2. tab'.view.chart = tab.view.chart
      BY <1>1, <1>2, <2>1, AnswerFields
    <2>3. CASE h = n - 2
      <3>1. tab'.view.base[h] = Predict(l, h)
        BY <1>1, <1>2, <2>1, <2>3, AnswerFields
      <3>2. CASE AgeOf(l) <= Lookback
        BY <1>5, <2>1, <2>2, <3>1, <3>2 DEF Predict, ForecastInOrder
      <3>3. CASE ~ (AgeOf(l) <= Lookback)
        <4>1. Predict(l, h) = None
          BY <3>3 DEF Predict
        <4>2. tab.view.chart \in AgesOrNone /\ AtLeastAsNew(AgeOf(l), tab.view.chart)
          BY <1>2, <1>5, <2>1 DEF Views, AgesOrNone
        <4>3. tab.view.chart = None \/ tab.view.chart > Lookback
          BY <1>3, <3>3, <4>2, OldestIsNat, DashboardAssumption
             DEF AtLeastAsNew, AgesOrNone, Ages, None
        <4>. QED
          BY <2>2, <3>1, <4>1, <4>3 DEF ForecastInOrder, AtLeastAsNew
      <3>. QED
        BY <3>2, <3>3
    <2>4. CASE h # n - 2
      <3>1. tab'.view.base[h] = tab.view.base[h]
        BY <1>1, <1>2, <2>0, <2>1, <2>4, AnswerFields
      <3>2. tab.call >= h + 2
        BY <1>1, <1>2, <1>7, <2>0, <2>4
      <3>3. ForecastInOrder(tab.view, h)
        BY <3>2 DEF AnswersInOrder
      <3>. QED
        BY <2>2, <3>1, <3>3 DEF ForecastInOrder
    <2>. QED
      BY <2>3, <2>4
  <1>8. l # None
    BY <1>1, LocationIsSome
  <1>. HIDE DEF n
  <1>. QED
    BY <1>1, <1>3, <1>6, <1>7, <1>8 DEF AnswersInOrder

\* Time passes for page and table alike.
LEMMA AgedInOrder ==
  ASSUME WorldTypeOK, PageTypeOK, AnswersInOrder, TimePasses, PageAges
  PROVE  AnswersInOrder'
  <1>0. /\ tab'.pc = tab.pc /\ tab'.selected = tab.selected /\ tab'.call = tab.call
        /\ tab'.view.latest = OlderAge(tab.view.latest)
        /\ tab'.view.chart = OlderAge(tab.view.chart)
        /\ \A h \in Hs : tab'.view.base[h] = OlderAge(tab.view.base[h])
        /\ models' = models
    BY AgedFields DEF PageAges
  <1>1. /\ tab.view.latest \in AgesOrNone /\ tab.view.chart \in AgesOrNone
        /\ \A h \in Hs : tab.view.base[h] \in AgesOrNone
        /\ models \subseteq Hs
    BY DashboardAssumption DEF PageTypeOK, Views, AgesOrNone
  <1>2. ASSUME NEW h \in models, ForecastInOrder(tab.view, h)
        PROVE  ForecastInOrder(tab'.view, h)
    <2>1. CASE AtLeastAsNew(tab.view.base[h], tab.view.chart)
      <3>1. AtLeastAsNew(OlderAge(tab.view.base[h]), OlderAge(tab.view.chart))
        BY <1>1, <2>1, OlderKeepsOrder
      <3>. QED
        BY <1>0, <1>1, <3>1 DEF ForecastInOrder
    <2>2. CASE tab.view.base[h] = None /\ tab.view.chart > Lookback
      <3>1. tab'.view.base[h] = None
        BY <1>0, <1>1, <2>2 DEF OlderAge
      <3>2. tab.view.chart <= tab'.view.chart /\ tab'.view.chart \in AgesOrNone
        BY <1>0, <1>1, OlderAgeType
      <3>3. tab'.view.chart > Lookback
        BY <1>1, <2>2, <3>2, OldestIsNat, DashboardAssumption DEF AgesOrNone, Ages, None
      <3>. QED
        BY <3>1, <3>3 DEF ForecastInOrder
    <2>. QED
      BY <1>2, <2>1, <2>2 DEF ForecastInOrder
  <1>3. tab.call >= 2 => AtLeastAsNew(tab'.view.chart, tab'.view.latest)
    BY <1>0, <1>1, OlderKeepsOrder DEF AnswersInOrder
  <1>4. ASSUME tab.pc = "calling"
        PROVE  /\ tab.selected # None
               /\ tab.call >= 1 => AtLeastAsNew(AgeOf(tab.selected)', tab'.view.latest)
               /\ tab.call >= 2 => AtLeastAsNew(AgeOf(tab.selected)', tab'.view.chart)
    <2>1. PICK l \in Ls : l = tab.selected
      BY <1>4 DEF AnswersInOrder, PageTypeOK
    <2>2. AgeOf(l) \in AgesOrNone
      BY AgeOfType
    <2>3. AgeOf(l)' = OlderAge(AgeOf(l))
      BY SameClock
    <2>4. AgeOf(tab.selected)' = AgeOf(l)' /\ AgeOf(tab.selected) = AgeOf(l)
      BY <1>0, <2>1 DEF AgeOf
    <2>5. tab.call >= 1 => AtLeastAsNew(AgeOf(tab.selected)', tab'.view.latest)
      <3>1. tab.call >= 1 => AtLeastAsNew(AgeOf(l), tab.view.latest)
        BY <1>4, <2>4 DEF AnswersInOrder
      <3>. QED
        BY <1>0, <1>1, <2>2, <2>3, <2>4, <3>1, OlderKeepsOrder
    <2>6. tab.call >= 2 => AtLeastAsNew(AgeOf(tab.selected)', tab'.view.chart)
      <3>1. tab.call >= 2 => AtLeastAsNew(AgeOf(l), tab.view.chart)
        BY <1>4, <2>4 DEF AnswersInOrder
      <3>. QED
        BY <1>0, <1>1, <2>2, <2>3, <2>4, <3>1, OlderKeepsOrder
    <2>. QED
      BY <1>4, <2>5, <2>6 DEF AnswersInOrder
  <1>5. \A h \in models : tab.call >= h + 2 => ForecastInOrder(tab'.view, h)
    BY <1>2 DEF AnswersInOrder
  <1>. QED
    BY <1>0, <1>3, <1>4, <1>5 DEF AnswersInOrder

\* Ingestion goes on between two calls: the table gets newer, the page stays.
LEMMA WorldMovesInOrder ==
  ASSUME WorldTypeOK, PageTypeOK, AnswersInOrder, WorldTypeOK', WorldChanges, UNCHANGED page
  PROVE  AnswersInOrder'
  <1>0. tab' = tab /\ models' = models
    BY DEF page
  <1>1. tab.view.latest \in AgesOrNone /\ tab.view.chart \in AgesOrNone
    BY DEF PageTypeOK, Views, AgesOrNone
  <1>2. ASSUME tab.pc = "calling"
        PROVE  /\ tab.selected # None
               /\ tab.call >= 1 => AtLeastAsNew(AgeOf(tab.selected)', tab.view.latest)
               /\ tab.call >= 2 => AtLeastAsNew(AgeOf(tab.selected)', tab.view.chart)
    <2>1. PICK l \in Ls : l = tab.selected
      BY <1>2 DEF AnswersInOrder, PageTypeOK
    <2>2. AgeOf(l) \in AgesOrNone
      BY AgeOfType
    <2>3. AgeOf(l)' \in AgesOrNone
      <3>1. newest'[l] \in Observations
        BY DEF WorldTypeOK
      <3>. QED
        BY <3>1 DEF AgeOf, Observations, NoObservation, AgesOrNone, Ages
    <2>4. AtLeastAsNew(AgeOf(l)', AgeOf(l))
      BY OnlyNewer
    <2>5. AgeOf(tab.selected)' = AgeOf(l)' /\ AgeOf(tab.selected) = AgeOf(l)
      BY <1>0, <2>1 DEF AgeOf
    <2>6. tab.call >= 1 => AtLeastAsNew(AgeOf(l)', tab.view.latest)
      BY <1>1, <1>2, <2>2, <2>3, <2>4, <2>5, NewerTransitive DEF AnswersInOrder
    <2>7. tab.call >= 2 => AtLeastAsNew(AgeOf(l)', tab.view.chart)
      BY <1>1, <1>2, <2>2, <2>3, <2>4, <2>5, NewerTransitive DEF AnswersInOrder
    <2>. QED
      BY <1>2, <2>5, <2>6, <2>7 DEF AnswersInOrder
  <1>. QED
    BY <1>0, <1>2 DEF AnswersInOrder

LEMMA AnswersInOrderKept ==
  ASSUME WorldTypeOK, WorldTypeOK', PageTypeOK, AnswersInOrder, [PlatformNext]_platform
  PROVE  AnswersInOrder'
  <1>0. models \subseteq Hs
    BY DashboardAssumption DEF PageTypeOK
  <1>1. CASE TimePasses /\ PageAges
    BY <1>1, AgedInOrder
  <1>2. CASE WorldChanges /\ UNCHANGED page
    BY <1>2, WorldMovesInOrder
  <1>3. CASE (PageStep \/ UserOrFault) /\ UNCHANGED world
    <2>1. newest' = newest /\ models' = models
      BY <1>3, BrowseSteps DEF world
    <2>2. CASE Reset
      BY <1>0, <2>1, <2>2, ResetInOrder
    <2>3. CASE CallAnswered
      BY <2>1, <2>3, AnsweredInOrder
    <2>4. CASE tab' = tab
      BY <2>1, <2>4 DEF AnswersInOrder, AgeOf
    <2>. QED
      BY <1>3, <2>2, <2>3, <2>4, BrowseSteps
  <1>4. CASE UNCHANGED <<page, world>>
    BY <1>4 DEF page, world, AnswersInOrder, AgeOf
  <1>. QED
    BY <1>1, <1>2, <1>3, <1>4, PlatformSteps

\* When all calls are answered, all answers are in order.
LEMMA ShownInOrder == PageTypeOK /\ AnswersInOrder => PageInOrder
  <1>. SUFFICES ASSUME PageTypeOK, AnswersInOrder, tab.pc = "shown"
                PROVE  /\ AtLeastAsNew(tab.view.chart, tab.view.latest)
                       /\ \A h \in models : ForecastInOrder(tab.view, h)
    BY DEF PageInOrder
  <1>1. tab.call = Calls /\ models \subseteq Hs
    BY DashboardAssumption DEF PageTypeOK
  <1>2. Calls >= 2 /\ \A h \in Hs : Calls >= h + 2
    BY DashboardAssumption DEF Calls, Hs
  <1>. QED
    BY <1>1, <1>2 DEF AnswersInOrder

PageInv == WorldTypeOK /\ PageTypeOK /\ AnswersInOrder

\* The inductive invariant of the dashboard holds in every state of the platform.
THEOREM PageInvariance == PlatformSpec => []PageInv
  <1>1. PlatformInit => PageInv
    <2>. SUFFICES ASSUME PlatformInit PROVE PageInv
      OBVIOUS
    <2>1. WorldTypeOK
      BY WorldAssumption DEF PlatformInit, WorldInit, WorldTypeOK, Observations
    <2>2. tab = Page("closed", {}, None)
      BY DEF PlatformInit, PageInit
    <2>3. /\ tab \in PageStates /\ tab.pc = "closed" /\ tab.options = {}
          /\ tab.selected = None /\ tab.call = 0
      BY <2>2, PageFields
    <2>4. PageTypeOK
      BY <2>3, DashboardAssumption, CallsAre DEF PlatformInit, PageInit, PageTypeOK, PageStates
    <2>5. \A h \in models : h \in Nat
      BY <2>4, DashboardAssumption DEF PageTypeOK, Hs
    <2>6. AnswersInOrder
      BY <2>3, <2>5 DEF AnswersInOrder
    <2>. QED
      BY <2>1, <2>4, <2>6 DEF PageInv
  <1>2. PageInv /\ [PlatformNext]_platform => PageInv'
    BY PlatformWorldTypeKept, PageTypeKept, AnswersInOrderKept DEF PageInv
  <1>. QED
    BY <1>1, <1>2, PTL DEF PlatformSpec

\* The variables of monitoring, dashboard and world stay in their types; what the
\* page has selected is one of the options it offers.
THEOREM PlatformTypeCorrect == PlatformSpec => []PlatformTypeOK
  <1>1. TypeOK /\ PageInv => PlatformTypeOK
    BY DEF PageInv, PlatformTypeOK
  <1>. QED
    BY <1>1, PlatformMonitors, TypeCorrect, PageInvariance, PTL

\* The answers that a refresh has collected are in order, and the API is never
\* behind them, although every call has a transaction of its own.
THEOREM PageAnswers == PlatformSpec => []AnswersInOrder
  <1>1. PageInv => AnswersInOrder
    BY DEF PageInv
  <1>. QED
    BY <1>1, PageInvariance, PTL

\* A page that refresh has put together shows a chart at least as new as the
\* conditions, and forecasts from readings at least as new as the chart.
THEOREM PageShown == PlatformSpec => []PageInOrder
  <1>1. PageInv => PageInOrder
    BY ShownInOrder DEF PageInv
  <1>. QED
    BY <1>1, PageInvariance, PTL
================================================================================
