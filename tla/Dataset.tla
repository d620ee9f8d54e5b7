-------------------------------- MODULE Dataset ----------------------------------
(***************************************************************************)
(* The training set (ml/dataset.py): load_training_frame goes through the  *)
(* active locations, reads the feature rows of each and then, in a second  *)
(* query, its observations, labels every feature row with the observation  *)
(* nearest to its feature_time plus the horizon, and adds the temperature  *)
(* at the feature_time itself for the persistence baseline; then           *)
(* time_ordered_split cuts the rows in two.  Meanwhile ingestion and the   *)
(* feature pipeline go on committing.                                      *)
(*                                                                         *)
(* Time is in steps of a grid; of a feature row only its feature_time      *)
(* matters here.  The list of active locations is read once, at the start. *)
(*                                                                         *)
(* An operator whose name starts with Faulty is not part of the model: it  *)
(* is the definition after it with a bug in it, kept to show that the      *)
(* properties notice the bug.                                              *)
(***************************************************************************)
EXTENDS Integers, FiniteSetsExt

CONSTANTS
  Locations,  \* how many locations are active; they are read in order
  Values,     \* temperatures
  Null,       \* a temperature that is NULL
  Horizon,    \* horizon_hours, on the grid
  Tolerance,  \* TARGET_MATCH_TOLERANCE, on the grid (12 minutes in the code)
  TestSize,   \* test_size, in per cent (20 in the code)
  MaxTime,    \* bound: the last point of the grid
  MaxWrites   \* bound: observations committed

Ls    == 1 .. Locations
Times == 1 .. MaxTime

ASSUME DatasetAssumption ==
  /\ Locations \in Nat \ {0} /\ Null \notin Values
  /\ Horizon \in Nat \ {0} /\ Tolerance \in 0 .. Horizon - 1
  /\ TestSize \in 1 .. 99 /\ MaxTime \in Nat \ {0} /\ MaxWrites \in Nat

VARIABLES
  obs,     \* committed core.weather_observations, by location: time -> temperature
  feats,   \* the feature_times of features.weather_features, by location
  loader,  \* where load_training_frame is
  frame,   \* the rows it has put together
  train, test,  \* the two parts of the split
  writes

tables == <<obs, feats, writes>>
vars   == <<obs, feats, loader, frame, train, test, writes>>

Readings == Values \cup {Null}
Tables   == UNION {[T -> Readings] : T \in SUBSET Times}

--------------------------------------------------------------------------------
(* build_supervised_frame.                                                 *)

\* merge_asof with direction="backward": the last row that is not later.
FaultyNearest(table, target) ==
  LET before == {u \in DOMAIN table : u <= target}
  IN  IF before = {} THEN {} ELSE {Max(before)}

Distance(x, y) == IF x < y THEN y - x ELSE x - y

\* merge_asof with direction="nearest": the time of the nearest row within the
\* tolerance, the earlier one of two, even if its temperature is NULL.
Nearest(table, target) ==
  {u \in DOMAIN table :
     /\ Distance(u, target) <= Tolerance
     /\ \A x \in DOMAIN table \ {u} :
          \/ Distance(u, target) < Distance(x, target)
          \/ Distance(u, target) = Distance(x, target) /\ u < x}

\* The rows with a label: (feature_time, time and temperature of the label).
\* dropna drops those whose nearest observation has no temperature.
BuildSupervisedFrame(featureTimes, table, h) ==
  {<<q[1], q[2], table[q[2]]>> : q \in
     {p \in featureTimes \X DOMAIN table :
        p[2] \in Nearest(table, p[1] + h) /\ table[p[2]] # Null}}

\* The observations without a temperature are dropped before the join.
FaultyCurrentTemps(featureTimes, table, a) ==
  LET known == [u \in {x \in DOMAIN table : table[x] # Null} |-> table[u]]
      near  == Nearest(known, a)
  IN  IF near = {} THEN {Null} ELSE {known[u] : u \in near}

\* The temperatures at 0 hours from feature_time a; a left join: NULL if none.
CurrentTemps(featureTimes, table, a) ==
  LET anchors == {r \in BuildSupervisedFrame(featureTimes, table, 0) : r[1] = a}
  IN  IF anchors = {} THEN {Null} ELSE {r[3] : r \in anchors}

Row == [location : Ls, feature_time : Times, label : Times, target : Values,
        current : Readings]

\* One row of the supervised frame r, once per temperature that the join finds.
Joined(l, r, temps) ==
  {[location |-> l, feature_time |-> r[1], label |-> r[2], target |-> r[3],
    current |-> c] : c \in temps}

\* The join on feature_time is made once, over the rows of all locations.
FaultyRowsOf(l, featureTimes, table) ==
  UNION {Joined(l, r, CurrentTemps(featureTimes, table, r[1]) \cup
                        {x.current : x \in {y \in frame : y.feature_time = r[1]}}) :
         r \in BuildSupervisedFrame(featureTimes, table, Horizon)}

\* What one location contributes to the training frame.
RowsOf(l, featureTimes, table) ==
  UNION {Joined(l, r, CurrentTemps(featureTimes, table, r[1])) :
         r \in BuildSupervisedFrame(featureTimes, table, Horizon)}

--------------------------------------------------------------------------------
(* The writers.                                                            *)

\* Ingestion commits a reading: new, late, or over another one.
Observe(l, u, r) ==
  /\ writes < MaxWrites
  /\ writes' = writes + 1
  /\ obs' = [obs EXCEPT ![l] = [x \in DOMAIN @ \cup {u} |-> IF x = u THEN r ELSE @[x]]]
  /\ UNCHANGED <<feats, loader, frame, train, test>>

\* The feature pipeline commits the row anchored on the latest observation.
StoreFeatures(l) ==
  /\ DOMAIN obs[l] # {}
  /\ feats' = [feats EXCEPT ![l] = @ \cup {Max(DOMAIN obs[l])}]
  /\ UNCHANGED <<obs, loader, frame, train, test, writes>>

--------------------------------------------------------------------------------
(* load_training_frame and time_ordered_split.                             *)

Reading(l) == [pc |-> "features", l |-> l, rows |-> {}]

\* Another cycle, or the other horizon.
Start ==
  /\ loader.pc = "done"
  /\ loader' = Reading(1) /\ frame' = {} /\ train' = {} /\ test' = {}
  /\ UNCHANGED tables

\* _load_features of one location.
LoadFeatures ==
  /\ loader.pc = "features"
  /\ loader' = [loader EXCEPT !.pc = "observations", !.rows = feats[loader.l]]
  /\ UNCHANGED <<obs, feats, frame, train, test, writes>>

\* _load_observations of it, a statement of its own that sees what was committed
\* since, and the joins.
LoadObservations ==
  /\ loader.pc = "observations"
  /\ frame' = frame \cup RowsOf(loader.l, loader.rows, obs[loader.l])
  /\ loader' = IF loader.l < Locations THEN Reading(loader.l + 1)
                                       ELSE [loader EXCEPT !.pc = "split", !.rows = {}]
  /\ UNCHANGED <<obs, feats, train, test, writes>>

\* int(len(df) * (1 - test_size)).
SplitIndex == (Cardinality(frame) * (100 - TestSize)) \div 100

\* The rows are appended location after location and never sorted.
FaultyFirst(x, y) == x.location <= y.location

\* Row x may come before row y in the order of sort_values("feature_time"), which
\* says nothing of rows of one feature_time.
First(x, y) == x.feature_time <= y.feature_time

\* The first SplitIndex rows in such an order are the training rows.
TimeOrderedSplit ==
  /\ loader.pc = "split"
  /\ \E T \in kSubset(SplitIndex, frame) :
       /\ \A x \in T, y \in frame \ T : First(x, y)
       /\ train' = T /\ test' = frame \ T
  /\ loader' = [loader EXCEPT !.pc = "done"]
  /\ UNCHANGED <<obs, feats, frame, writes>>

--------------------------------------------------------------------------------
Init ==
  /\ obs = [l \in Ls |-> << >>] /\ feats = [l \in Ls |-> {}]
  /\ loader = Reading(1)
  /\ frame = {} /\ train = {} /\ test = {}
  /\ writes = 0

Next ==
  \/ \E l \in Ls : StoreFeatures(l) \/ \E u \in Times, r \in Readings : Observe(l, u, r)
  \/ Start \/ LoadFeatures \/ LoadObservations \/ TimeOrderedSplit

Spec == Init /\ [][Next]_vars

--------------------------------------------------------------------------------
(* What makes a training set correct.                                      *)

\* Variables stay in their types, and no more rows come out than went in.
TypeOK ==
  /\ obs \in [Ls -> Tables] /\ feats \in [Ls -> SUBSET Times]
  /\ \A l \in Ls : feats[l] \subseteq DOMAIN obs[l]
  /\ loader \in [pc : {"features", "observations", "split", "done"}, l : Ls, rows : SUBSET Times]
  /\ loader.rows \subseteq feats[loader.l]
  /\ frame \subseteq Row
  /\ train \cup test \subseteq frame /\ train \cap test = {}
  /\ writes \in 0 .. MaxWrites

\* The label of a row was observed after its feature_time, no further off than
\* the tolerance, however sparse the observations are (build_supervised_frame:
\* "the matched observation can only be at or after feature_time").
LabelAhead ==
  \A r \in frame :
    /\ r.label > r.feature_time
    /\ Distance(r.label, r.feature_time + Horizon) <= Tolerance

\* A slot of a location gives one row at most, although two locations share their
\* feature_times and the second join is on the feature_time alone.
OneRowPerSlot ==
  \A x, y \in frame :
    x.location = y.location /\ x.feature_time = y.feature_time => x = y

\* current_temp_c is "the anchor reading itself": a row has the temperature that
\* was observed at its feature_time, or NULL, and never that of a neighbour --
\* whatever is committed between the two queries (which are in the right order:
\* a feature row that is read has its observation).
CurrentIsAnchor ==
  [][\A r \in frame' \ frame : r.current = obs[r.location][r.feature_time]]_vars

\* No row that is trained on is later than a row that is tested on.
TrainsOnPast ==
  \A x \in train, y \in test : x.feature_time <= y.feature_time

--------------------------------------------------------------------------------
(* What these rest on.                                                     *)

\* While the loader is at a location, only those before it have rows.
Behind ==
  loader.pc \in {"features", "observations"} => \A r \in frame : r.location < loader.l

IndInv == TypeOK /\ LabelAhead /\ OneRowPerSlot /\ TrainsOnPast /\ Behind

--------------------------------------------------------------------------------
(* What the code says and does not do.                                     *)

\* Not to "train on data from after points in its own test set" (the docstring of
\* time_ordered_split): no label that is trained on was observed after the
\* feature_time of a row that is tested on.
NeverTrainsOnLater ==
  \A x \in train, y \in test : x.label <= y.feature_time
================================================================================
