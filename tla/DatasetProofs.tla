----------------------------- MODULE DatasetProofs -------------------------------
(***************************************************************************)
(* Theorems about Dataset: what the labels, the current temperatures and   *)
(* the two parts of a training set are, for any number of locations and    *)
(* readings, any horizon with a smaller tolerance, and any writes between  *)
(* the loader's queries.                                                   *)
(***************************************************************************)
EXTENDS Dataset, Extrema

--------------------------------------------------------------------------------
(* The joins.                                                              *)

LEMMA TimesAre == Times \subseteq Nat \ {0} /\ Times \subseteq Int
  BY DatasetAssumption DEF Times

\* A table: readings at some of the times.
LEMMA TableIs ==
  ASSUME NEW table \in Tables
  PROVE  DOMAIN table \subseteq Times /\ \A u \in DOMAIN table : table[u] \in Readings
  BY DEF Tables

\* At most one row is nearest.
LEMMA NearestUnique ==
  ASSUME NEW table, DOMAIN table \subseteq Times, NEW target \in Int,
         NEW u \in Nearest(table, target), NEW x \in Nearest(table, target)
  PROVE  u = x
  <1>1. u \in DOMAIN table /\ x \in DOMAIN table /\ u \in Int /\ x \in Int
    BY TimesAre DEF Nearest
  <1> DEFINE du == Distance(u, target)
             dx == Distance(x, target)
  <1>2. du \in Int /\ dx \in Int
    BY <1>1 DEF Distance
  <1>3. x # u => du < dx \/ (du = dx /\ u < x)
    BY <1>1 DEF Nearest
  <1>4. u # x => dx < du \/ (dx = du /\ x < u)
    BY <1>1 DEF Nearest
  <1>. HIDE DEF du, dx
  <1>. QED
    BY <1>1, <1>2, <1>3, <1>4

\* A row at the target itself is the nearest one.
LEMMA NearestExact ==
  ASSUME NEW table, DOMAIN table \subseteq Times, NEW a \in DOMAIN table
  PROVE  Nearest(table, a) = {a}
  <1>1. a \in Int /\ \A x \in DOMAIN table : x \in Int
    BY TimesAre
  <1>2. Distance(a, a) = 0 /\ \A x \in DOMAIN table \ {a} : Distance(x, a) > 0
    BY <1>1 DEF Distance
  <1>3. a \in Nearest(table, a)
    BY <1>2, DatasetAssumption DEF Nearest
  <1>. QED
    BY <1>1, <1>3, NearestUnique

\* What a labelled row is.
LEMMA Labelled ==
  ASSUME NEW table \in Tables, NEW featureTimes, featureTimes \subseteq Times, NEW h \in Nat,
         NEW r \in BuildSupervisedFrame(featureTimes, table, h)
  PROVE  /\ r[1] \in featureTimes /\ r[2] \in DOMAIN table /\ r[2] \in Nearest(table, r[1] + h)
         /\ r[3] = table[r[2]] /\ r[3] \in Values /\ r = <<r[1], r[2], r[3]>>
  <1>1. PICK q \in featureTimes \X DOMAIN table :
          q[2] \in Nearest(table, q[1] + h) /\ table[q[2]] # Null /\ r = <<q[1], q[2], table[q[2]]>>
    BY DEF BuildSupervisedFrame
  <1>2. r[1] = q[1] /\ r[2] = q[2] /\ r[3] = table[q[2]]
    BY <1>1
  <1>3. table[q[2]] \in Values
    BY <1>1, TableIs DEF Readings
  <1>. QED
    BY <1>1, <1>2, <1>3

\* No feature_time is labelled twice.
LEMMA LabelledOnce ==
  ASSUME NEW table \in Tables, NEW featureTimes, featureTimes \subseteq Times, NEW h \in Nat,
         NEW r \in BuildSupervisedFrame(featureTimes, table, h),
         NEW s \in BuildSupervisedFrame(featureTimes, table, h), r[1] = s[1]
  PROVE  r = s
  <1>1. r[1] + h \in Int /\ DOMAIN table \subseteq Times
    <2>1. r[1] \in featureTimes
      BY Labelled
    <2>2. r[1] \in Int
      BY <2>1, TimesAre
    <2>. QED
      BY <2>2, TableIs
  <1>2. r[2] \in Nearest(table, r[1] + h) /\ s[2] \in Nearest(table, r[1] + h)
    BY Labelled
  <1>3. r[2] = s[2]
    BY <1>1, <1>2, NearestUnique
  <1>. QED
    BY <1>3, Labelled

\* The temperature joined to a feature_time that has an observation is that
\* observation's, whatever it is.
LEMMA CurrentTempIs ==
  ASSUME NEW table \in Tables, NEW featureTimes, featureTimes \subseteq DOMAIN table,
         NEW a \in featureTimes
  PROVE  CurrentTemps(featureTimes, table, a) = {table[a]}
  <1> DEFINE B == BuildSupervisedFrame(featureTimes, table, 0)
             A == {r \in B : r[1] = a}
  <1>1. /\ DOMAIN table \subseteq Times /\ featureTimes \subseteq Times /\ a \in DOMAIN table
        /\ a \in Int /\ a + 0 = a
    <2>1. DOMAIN table \subseteq Times
      BY TableIs
    <2>2. a \in Int
      BY <2>1, TimesAre
    <2>. QED
      BY <2>1, <2>2
  <1>2. Nearest(table, a + 0) = {a}
    BY <1>1, NearestExact
  <1>3. ASSUME NEW r \in A
        PROVE  r[3] = table[a] /\ table[a] # Null
    <2>1. r \in B /\ r[1] = a
      OBVIOUS
    <2>2. r[2] \in Nearest(table, a + 0) /\ r[3] = table[r[2]] /\ r[3] \in Values
      BY <1>1, <2>1, Labelled
    <2>. QED
      BY <1>2, <2>2, DatasetAssumption
  <1>4. CASE table[a] = Null
    <2>1. A = {}
      BY <1>3, <1>4
    <2>. QED
      BY <1>4, <2>1 DEF CurrentTemps
  <1>5. CASE table[a] # Null
    <2>1. <<a, a, table[a]>> \in B
      <3>1. <<a, a>> \in {p \in featureTimes \X DOMAIN table :
                           p[2] \in Nearest(table, p[1] + 0) /\ table[p[2]] # Null}
        BY <1>1, <1>2, <1>5
      <3>. QED
        BY <3>1 DEF BuildSupervisedFrame
    <2>2. <<a, a, table[a]>> \in A
      BY <2>1
    <2>3. {r[3] : r \in A} = {table[a]}
      BY <1>3, <2>2
    <2>. QED
      BY <2>2, <2>3 DEF CurrentTemps
  <1>. QED
    BY <1>4, <1>5

\* What one location contributes.
LEMMA RowsOfLocation ==
  ASSUME NEW l \in Ls, NEW table \in Tables, NEW featureTimes, featureTimes \subseteq DOMAIN table,
         NEW x \in RowsOf(l, featureTimes, table)
  PROVE  /\ x \in Row /\ x.location = l /\ x.current = table[x.feature_time]
         /\ x.label > x.feature_time
         /\ Distance(x.label, x.feature_time + Horizon) <= Tolerance
         /\ \E r \in BuildSupervisedFrame(featureTimes, table, Horizon) :
              /\ x.feature_time = r[1]
              /\ x = [location |-> l, feature_time |-> r[1], label |-> r[2], target |-> r[3],
                      current |-> table[r[1]]]
  <1>1. PICK r \in BuildSupervisedFrame(featureTimes, table, Horizon) :
          x \in Joined(l, r, CurrentTemps(featureTimes, table, r[1]))
    BY DEF RowsOf
  <1>2. featureTimes \subseteq Times /\ DOMAIN table \subseteq Times /\ Horizon \in Nat
    BY TableIs, DatasetAssumption
  <1>3. /\ r[1] \in featureTimes /\ r[2] \in DOMAIN table /\ r[2] \in Nearest(table, r[1] + Horizon)
        /\ r[3] \in Values
    BY <1>2, Labelled
  <1>4. CurrentTemps(featureTimes, table, r[1]) = {table[r[1]]}
    BY <1>3, CurrentTempIs
  <1>5. x = [location |-> l, feature_time |-> r[1], label |-> r[2], target |-> r[3],
             current |-> table[r[1]]]
    BY <1>1, <1>4 DEF Joined
  <1>6. r[1] \in Times /\ r[2] \in Times /\ table[r[1]] \in Readings
    BY <1>2, <1>3, TableIs
  <1>7. x \in Row
    BY <1>3, <1>5, <1>6 DEF Row
  <1>8. Distance(r[2], r[1] + Horizon) <= Tolerance
    BY <1>3 DEF Nearest
  <1>9. r[2] > r[1]
    <2>1. r[1] \in Int /\ r[2] \in Int
      BY <1>6, TimesAre
    <2>. QED
      BY <1>8, <2>1, DatasetAssumption DEF Distance
  <1>. QED
    BY <1>5, <1>7, <1>8, <1>9

--------------------------------------------------------------------------------
(* The invariant.                                                          *)

LoaderState ==
  [pc : {"features", "observations", "split", "done"}, l : Ls, rows : SUBSET Times]

LEMMA Initially ==
  ASSUME Init
  PROVE  IndInv
  <1>1. 1 \in Ls
    BY DatasetAssumption DEF Ls
  <1>2. loader = [pc |-> "features", l |-> 1, rows |-> {}]
    BY DEF Init, Reading
  <1>3. << >> \in Tables
    <2>1. << >> \in [{} -> Readings]
      OBVIOUS
    <2>. QED
      BY <2>1 DEF Tables
  <1>4. obs \in [Ls -> Tables] /\ feats \in [Ls -> SUBSET Times] /\ \A l \in Ls : feats[l] = {}
    BY <1>3 DEF Init
  <1>5. frame = {} /\ train = {} /\ test = {} /\ writes \in 0 .. MaxWrites
    BY DatasetAssumption DEF Init
  <1>6. TypeOK
    BY <1>1, <1>2, <1>4, <1>5 DEF TypeOK
  <1>. QED
    BY <1>5, <1>6 DEF IndInv, LabelAhead, OneRowPerSlot, TrainsOnPast, Behind

\* A committed reading leaves a table a table, and keeps its times.
LEMMA WrittenTable ==
  ASSUME NEW table \in Tables, NEW u \in Times, NEW r \in Readings
  PROVE  LET t == [x \in DOMAIN table \cup {u} |-> IF x = u THEN r ELSE table[x]]
         IN  t \in Tables /\ DOMAIN table \subseteq DOMAIN t
  <1> DEFINE T == DOMAIN table \cup {u}
             t == [x \in T |-> IF x = u THEN r ELSE table[x]]
  <1>1. T \in SUBSET Times /\ \A x \in DOMAIN table : table[x] \in Readings
    BY TableIs
  <1>2. t \in [T -> Readings]
    BY <1>1
  <1>3. \E S \in SUBSET Times : t \in [S -> Readings]
    BY <1>1, <1>2
  <1>. QED
    BY <1>3 DEF Tables

LEMMA LatestObserved ==
  ASSUME NEW table \in Tables, DOMAIN table # {}
  PROVE  Max(DOMAIN table) \in DOMAIN table
  <1>1. DOMAIN table \subseteq Times
    BY TableIs
  <1>2. Times = 1 .. MaxTime /\ 1 \in Int /\ MaxTime \in Int
    BY DatasetAssumption DEF Times
  <1>3. IsFiniteSet(Times)
    BY <1>2, FS_Interval
  <1>4. IsFiniteSet(DOMAIN table)
    BY <1>1, <1>3, FS_Subset
  <1>5. DOMAIN table \subseteq Int
    BY <1>1, TimesAre
  <1>. QED
    BY <1>4, <1>5, MaxIsGreatest

\* What is known when a location's observations are joined.
LEMMA AtObservations ==
  ASSUME IndInv, LoadObservations
  PROVE  LET l == loader.l
         IN  /\ l \in Ls /\ obs[l] \in Tables /\ loader.rows \subseteq DOMAIN obs[l]
             /\ frame' = frame \cup RowsOf(l, loader.rows, obs[l])
             /\ \A r \in frame : r.location < l
             /\ loader.pc = "observations" /\ UNCHANGED <<obs, feats, train, test, writes>>
  BY DEF IndInv, TypeOK, Behind, LoadObservations

LEMMA TypeKept ==
  ASSUME IndInv, [Next]_vars
  PROVE  TypeOK'
  <1>0. /\ obs \in [Ls -> Tables] /\ feats \in [Ls -> SUBSET Times]
        /\ \A l \in Ls : feats[l] \subseteq DOMAIN obs[l]
        /\ loader \in LoaderState /\ loader.l \in Ls /\ loader.rows \subseteq feats[loader.l]
    BY DEF IndInv, TypeOK, LoaderState
  <1>01. Reading(1) \in LoaderState /\ Reading(1).rows = {}
    BY DatasetAssumption DEF Reading, LoaderState, Ls
  <1>1. CASE UNCHANGED vars
    BY <1>1 DEF IndInv, TypeOK, vars
  <1>2. ASSUME NEW l \in Ls, NEW u \in Times, NEW r \in Readings, Observe(l, u, r)
        PROVE  TypeOK'
    <2> DEFINE t == [x \in DOMAIN obs[l] \cup {u} |-> IF x = u THEN r ELSE obs[l][x]]
    <2>1. t \in Tables /\ DOMAIN obs[l] \subseteq DOMAIN t
      BY <1>0, WrittenTable
    <2>2. obs' = [obs EXCEPT ![l] = t] /\ UNCHANGED <<feats, loader, frame, train, test>>
      BY <1>2 DEF Observe
    <2>3. writes' \in 0 .. MaxWrites
      BY <1>2, DatasetAssumption DEF Observe, IndInv, TypeOK
    <2>. HIDE DEF t
    <2>4. obs' \in [Ls -> Tables] /\ \A k \in Ls : DOMAIN obs[k] \subseteq DOMAIN obs'[k]
      BY <1>0, <2>1, <2>2
    <2>. QED
      BY <1>0, <2>2, <2>3, <2>4 DEF IndInv, TypeOK
  <1>3. ASSUME NEW l \in Ls, StoreFeatures(l)
        PROVE  TypeOK'
    <2> DEFINE m == Max(DOMAIN obs[l])
    <2>1. m \in DOMAIN obs[l] /\ m \in Times
      BY <1>0, <1>3, LatestObserved, TableIs DEF StoreFeatures
    <2>2. feats' = [feats EXCEPT ![l] = @ \cup {m}]
          /\ UNCHANGED <<obs, loader, frame, train, test, writes>>
      BY <1>3 DEF StoreFeatures
    <2>. HIDE DEF m
    <2>3. /\ feats' \in [Ls -> SUBSET Times]
          /\ \A k \in Ls : feats'[k] \subseteq DOMAIN obs[k] /\ feats[k] \subseteq feats'[k]
      BY <1>0, <2>1, <2>2
    <2>. QED
      BY <1>0, <2>2, <2>3 DEF IndInv, TypeOK
  <1>4. CASE Start
    <2>1. /\ loader' = Reading(1) /\ frame' = {} /\ train' = {} /\ test' = {}
          /\ UNCHANGED <<obs, feats, writes>>
      BY <1>4 DEF Start, tables
    <2>. HIDE DEF Reading
    <2>. QED
      BY <1>0, <1>01, <2>1 DEF IndInv, TypeOK, LoaderState
  <1>5. CASE LoadFeatures
    <2>1. /\ loader' = [loader EXCEPT !.pc = "observations", !.rows = feats[loader.l]]
          /\ UNCHANGED <<obs, feats, frame, train, test, writes>>
      BY <1>5 DEF LoadFeatures
    <2>2. loader' \in LoaderState /\ loader'.l = loader.l /\ loader'.rows = feats[loader.l]
      BY <1>0, <2>1 DEF LoaderState
    <2>. QED
      BY <1>0, <2>1, <2>2 DEF IndInv, TypeOK, LoaderState
  <1>6. CASE LoadObservations
    <2>1. /\ loader.l \in Ls /\ obs[loader.l] \in Tables
          /\ loader.rows \subseteq DOMAIN obs[loader.l]
          /\ frame' = frame \cup RowsOf(loader.l, loader.rows, obs[loader.l])
          /\ UNCHANGED <<obs, feats, train, test, writes>>
      BY <1>6, AtObservations
    <2>2. \A x \in RowsOf(loader.l, loader.rows, obs[loader.l]) : x \in Row
      BY <2>1, RowsOfLocation
    <2>3. loader' = IF loader.l < Locations THEN Reading(loader.l + 1)
                                            ELSE [loader EXCEPT !.pc = "split", !.rows = {}]
      BY <1>6 DEF LoadObservations
    <2>4. loader' \in LoaderState /\ loader'.rows = {}
      <3>1. CASE loader.l < Locations
        <4>1. loader.l + 1 \in Ls
          BY <1>0, <3>1, DatasetAssumption DEF Ls
        <4>. QED
          BY <2>3, <3>1, <4>1 DEF Reading, LoaderState
      <3>2. CASE ~ (loader.l < Locations)
        BY <1>0, <2>3, <3>2 DEF LoaderState
      <3>. QED
        BY <3>1, <3>2
    <2>. QED
      BY <1>0, <2>1, <2>2, <2>4 DEF IndInv, TypeOK, LoaderState
  <1>7. CASE TimeOrderedSplit
    <2>1. PICK T \in SUBSET frame : train' = T /\ test' = frame \ T
      BY <1>7 DEF TimeOrderedSplit, kSubset
    <2>2. loader' = [loader EXCEPT !.pc = "done"] /\ UNCHANGED <<obs, feats, frame, writes>>
      BY <1>7 DEF TimeOrderedSplit
    <2>3. loader' \in LoaderState /\ loader'.l = loader.l /\ loader'.rows = loader.rows
      BY <1>0, <2>2 DEF LoaderState
    <2>. QED
      BY <1>0, <2>1, <2>2, <2>3 DEF IndInv, TypeOK, LoaderState
  <1>. QED
    BY <1>1, <1>2, <1>3, <1>4, <1>5, <1>6, <1>7 DEF Next

\* A step either leaves the frame alone, or empties it, or joins a location.
LEMMA FrameStep ==
  ASSUME IndInv, [Next]_vars
  PROVE  \/ LoadObservations
         \/ frame' = {} /\ train' = {} /\ test' = {}
         \/ /\ UNCHANGED frame
            /\ loader'.pc \in {"features", "observations"} =>
                 loader.pc \in {"features", "observations"} /\ loader'.l = loader.l
            /\ (train' = train /\ test' = test) \/ TimeOrderedSplit
  <1>0. loader \in LoaderState
    BY DEF IndInv, TypeOK, LoaderState
  <1>1. CASE UNCHANGED <<loader, frame, train, test>>
    BY <1>1
  <1>2. CASE Start
    BY <1>2 DEF Start
  <1>3. CASE LoadFeatures
    BY <1>0, <1>3 DEF LoadFeatures, LoaderState
  <1>4. CASE TimeOrderedSplit
    BY <1>0, <1>4 DEF TimeOrderedSplit, LoaderState
  <1>5. ASSUME NEW l \in Ls, StoreFeatures(l) \/ \E u \in Times, r \in Readings : Observe(l, u, r)
        PROVE  UNCHANGED <<loader, frame, train, test>>
    BY <1>5 DEF StoreFeatures, Observe
  <1>6. UNCHANGED vars => UNCHANGED <<loader, frame, train, test>>
    BY DEF vars
  <1>. QED
    BY <1>1, <1>2, <1>3, <1>4, <1>5, <1>6 DEF Next

LEMMA LabelsKept ==
  ASSUME IndInv, [Next]_vars
  PROVE  LabelAhead'
  <1>1. CASE LoadObservations
    <2>1. /\ loader.l \in Ls /\ obs[loader.l] \in Tables
          /\ loader.rows \subseteq DOMAIN obs[loader.l]
          /\ frame' = frame \cup RowsOf(loader.l, loader.rows, obs[loader.l])
      BY <1>1, AtObservations
    <2>2. \A x \in RowsOf(loader.l, loader.rows, obs[loader.l]) :
            x.label > x.feature_time /\ Distance(x.label, x.feature_time + Horizon) <= Tolerance
      BY <2>1, RowsOfLocation
    <2>. QED
      BY <2>1, <2>2 DEF IndInv, LabelAhead, Distance
  <1>2. CASE UNCHANGED frame
    BY <1>2 DEF IndInv, LabelAhead, Distance
  <1>3. CASE frame' = {}
    BY <1>3 DEF LabelAhead
  <1>. QED
    BY <1>1, <1>2, <1>3, FrameStep

LEMMA SlotsKept ==
  ASSUME IndInv, [Next]_vars
  PROVE  OneRowPerSlot'
  <1>1. CASE LoadObservations
    <2> DEFINE l == loader.l
               new == RowsOf(l, loader.rows, obs[l])
    <2>1. /\ l \in Ls /\ obs[l] \in Tables /\ loader.rows \subseteq DOMAIN obs[l]
          /\ frame' = frame \cup new /\ \A r \in frame : r.location < l
      BY <1>1, AtObservations
    <2>2. loader.rows \subseteq Times /\ Horizon \in Nat
      BY <2>1, TableIs, DatasetAssumption
    <2>3. \A x \in new : x.location = l
      BY <2>1, RowsOfLocation
    <2>4. ASSUME NEW x \in new, NEW y \in new, x.feature_time = y.feature_time
          PROVE  x = y
      <3> DEFINE row(r) == [location |-> l, feature_time |-> r[1], label |-> r[2], target |-> r[3],
                            current |-> obs[l][r[1]]]
      <3>1. PICK r \in BuildSupervisedFrame(loader.rows, obs[l], Horizon) :
              x.feature_time = r[1] /\ x = row(r)
        BY <2>1, RowsOfLocation
      <3>2. PICK s \in BuildSupervisedFrame(loader.rows, obs[l], Horizon) :
              y.feature_time = s[1] /\ y = row(s)
        BY <2>1, RowsOfLocation
      <3>3. r = s
        BY <2>1, <2>2, <2>4, <3>1, <3>2, LabelledOnce
      <3>. QED
        BY <3>1, <3>2, <3>3
    <2>5. ASSUME NEW x \in frame, NEW y \in new
          PROVE  x.location # y.location
      BY <2>1, <2>3 DEF Ls
    <2>. HIDE DEF new
    <2>. QED
      BY <2>1, <2>4, <2>5 DEF IndInv, OneRowPerSlot
  <1>2. CASE UNCHANGED frame
    BY <1>2 DEF IndInv, OneRowPerSlot
  <1>3. CASE frame' = {}
    BY <1>3 DEF OneRowPerSlot
  <1>. QED
    BY <1>1, <1>2, <1>3, FrameStep

LEMMA SplitKept ==
  ASSUME IndInv, [Next]_vars
  PROVE  TrainsOnPast'
  <1>1. CASE train' = train /\ test' = test
    BY <1>1 DEF IndInv, TrainsOnPast
  <1>2. CASE train' = {}
    BY <1>2 DEF TrainsOnPast
  <1>3. CASE TimeOrderedSplit
    <2>1. PICK T \in SUBSET frame :
            /\ \A x \in T, y \in frame \ T : x.feature_time <= y.feature_time
            /\ train' = T /\ test' = frame \ T
      BY <1>3 DEF TimeOrderedSplit, kSubset, First
    <2>. QED
      BY <2>1 DEF TrainsOnPast
  <1>4. LoadObservations => train' = train /\ test' = test
    BY DEF LoadObservations
  <1>. QED
    BY <1>1, <1>2, <1>3, <1>4, FrameStep

LEMMA BehindKept ==
  ASSUME IndInv, [Next]_vars
  PROVE  Behind'
  <1>1. CASE LoadObservations
    <2> DEFINE l == loader.l
    <2>1. /\ l \in Ls /\ obs[l] \in Tables /\ loader.rows \subseteq DOMAIN obs[l]
          /\ frame' = frame \cup RowsOf(l, loader.rows, obs[l])
          /\ \A r \in frame : r.location < l
      BY <1>1, AtObservations
    <2>2. \A x \in RowsOf(l, loader.rows, obs[l]) : x.location = l
      BY <2>1, RowsOfLocation
    <2>3. loader \in LoaderState /\ l \in Int /\ \A r \in frame : r.location \in Int
      BY DatasetAssumption DEF IndInv, TypeOK, LoaderState, Row, Ls
    <2>4. loader' = IF l < Locations THEN Reading(l + 1)
                                     ELSE [loader EXCEPT !.pc = "split", !.rows = {}]
      BY <1>1 DEF LoadObservations
    <2>5. loader'.pc \in {"features", "observations"} => loader'.l = l + 1
      BY <2>3, <2>4 DEF Reading, LoaderState
    <2>6. \A r \in frame' : r.location < l + 1
      BY <2>1, <2>2, <2>3
    <2>. QED
      BY <2>5, <2>6 DEF Behind
  <1>2. CASE /\ UNCHANGED frame
             /\ loader'.pc \in {"features", "observations"} =>
                  loader.pc \in {"features", "observations"} /\ loader'.l = loader.l
    BY <1>2 DEF IndInv, Behind
  <1>3. CASE frame' = {}
    BY <1>3 DEF Behind
  <1>. QED
    BY <1>1, <1>2, <1>3, FrameStep

\* The invariant from which the theorems below are drawn: what the rows of the frame
\* are, and how far the loader has come (load_training_frame, time_ordered_split).
THEOREM Invariance == Spec => []IndInv
  <1>1. Init => IndInv
    BY Initially
  <1>2. IndInv /\ [Next]_vars => IndInv'
    BY TypeKept, LabelsKept, SlotsKept, SplitKept, BehindKept DEF IndInv
  <1>. QED
    BY <1>1, <1>2, PTL DEF Spec

\* Every variable stays in its type; feature rows have their observations, and the two
\* parts of the split are disjoint parts of the frame.
THEOREM TypeCorrect == Spec => []TypeOK
  <1>1. IndInv => TypeOK
    BY DEF IndInv
  <1>. QED
    BY <1>1, Invariance, PTL

\* The label of a row was observed after its feature_time and within the tolerance of
\* the horizon, however sparse the observations and whatever is written meanwhile.
THEOREM LabelsAhead == Spec => []LabelAhead
  <1>1. IndInv => LabelAhead
    BY DEF IndInv
  <1>. QED
    BY <1>1, Invariance, PTL

\* Neither of the two joins ever multiplies a row.
THEOREM NoDoubleRows == Spec => []OneRowPerSlot
  <1>1. IndInv => OneRowPerSlot
    BY DEF IndInv
  <1>. QED
    BY <1>1, Invariance, PTL

\* No row that is trained on is later than one that is tested on.
THEOREM SplitInOrder == Spec => []TrainsOnPast
  <1>1. IndInv => TrainsOnPast
    BY DEF IndInv
  <1>. QED
    BY <1>1, Invariance, PTL

LEMMA JoinsAnchor ==
  ASSUME IndInv, [Next]_vars, NEW r \in frame' \ frame
  PROVE  r.current = obs[r.location][r.feature_time]
  <1>1. LoadObservations
    BY FrameStep
  <1>2. /\ loader.l \in Ls /\ obs[loader.l] \in Tables
        /\ loader.rows \subseteq DOMAIN obs[loader.l]
        /\ r \in RowsOf(loader.l, loader.rows, obs[loader.l])
    BY <1>1, AtObservations
  <1>. QED
    BY <1>2, RowsOfLocation

\* The current temperature of a row is what was observed at its own feature_time, or
\* NULL, never a neighbour's, whatever is committed between the loader's two queries.
THEOREM AnchorTemperature == Spec => CurrentIsAnchor
  <1>1. IndInv /\ [Next]_vars =>
          [\A r \in frame' \ frame : r.current = obs[r.location][r.feature_time]]_vars
    BY JoinsAnchor
  <1>. QED
    BY <1>1, Invariance, PTL DEF Spec, CurrentIsAnchor
==================================================================================
