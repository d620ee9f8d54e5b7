-------------------------------- MODULE Features ---------------------------------
(***************************************************************************)
(* The feature pipeline of one location: the hourly task of the DAG        *)
(* feature_engineering (build_and_store_features) reads the observations   *)
(* of a lookback window, computes one row anchored on the latest of them,  *)
(* and upserts it under its feature_time, while ingestion goes on writing  *)
(* observations: new ones, late ones, and others over those it has.        *)
(*                                                                         *)
(* Time is in hours.  One reading stands for all columns of an observation *)
(* (temperature, humidity and pressure go through the same helpers), and a *)
(* column of a feature row for the readings it is computed from: averages, *)
(* differences and slopes are functions of those.  The task's own row in   *)
(* ops.pipeline_runs is in the same transaction as its feature row, as in  *)
(* module Ingestion, and left out.                                         *)
(*                                                                         *)
(* An operator whose name starts with Faulty is not part of the model: it  *)
(* is the definition after it with a bug in it, kept to show that the      *)
(* properties notice the bug.                                              *)
(***************************************************************************)
EXTENDS Integers, FiniteSetsExt

CONSTANTS
  Values,          \* readings an observation may hold
  Null,            \* the NULL of an observation or of a feature column
  Absent,          \* no observation at that time
  Lags,            \* LAG_HOURS ({1, 3, 6} in the code)
  Windows,         \* the ROLLING_WINDOW constants ({3, 6} in the code)
  LookbackSetting, \* feature_lookback_hours (24 in the code)
  Builders,        \* processes: the mapped task and its like
  MaxTime,         \* bound: the last hour of the clock
  MaxLate,         \* bound: observations that come late or are overwritten
  MaxKills         \* bound: builders that are killed

ASSUME SpansAssumption ==
  /\ Lags \subseteq Nat \ {0} /\ Windows \subseteq Nat \ {0}
  /\ IsFiniteSet(Lags \cup Windows) /\ Lags # {}
  /\ LookbackSetting \in Nat /\ MaxTime \in Nat \ {0}
  /\ MaxLate \in Nat /\ MaxKills \in Nat
ASSUME ReadingsAssumption == Null \notin Values /\ Absent \notin Values \cup {Null}

VARIABLES
  now,      \* the hour
  obs,      \* committed core.weather_observations: time -> reading
  feats,    \* committed features.weather_features: feature_time -> row
  builder,  \* builder[b]: where the process b is
  late, kills

vars == <<now, obs, feats, builder, late, kills>>

Times    == 1 .. MaxTime
Readings == Values \cup {Null}

--------------------------------------------------------------------------------
(* compute_feature_row.                                                    *)

\* What the query of _load_observations returns: readings by their times.
Frame == UNION {[T -> Readings] : T \in SUBSET Times}

\* max(settings.feature_lookback_hours, max(LAG_HOURS + ROLLING_WINDOWS_TEMP)).
Lookback == Max({LookbackSetting} \cup Lags \cup Windows)

\* Its bounds.
InWindow(u, asOf) == u <= asOf /\ u >= asOf - Lookback

\* The same query over any table of observations.
LoadObservations(table, asOf) ==
  [u \in {x \in Times : table[x] # Absent /\ InWindow(x, asOf)} |-> table[u]]

\* The first row that is late enough to be skipped is taken.
FaultyValueAtOrBefore(df, target) ==
  LET later == {u \in DOMAIN df : u >= target}
  IN  IF later = {} THEN Null ELSE <<Min(later), df[Min(later)]>>

\* _value_at_or_before: the last row up to target, whose reading may be NULL; it
\* is not asked how old that row is.
ValueAtOrBefore(df, target) ==
  LET subset == {u \in DOMAIN df : u <= target}
  IN  IF subset = {} THEN Null
      ELSE IF df[Max(subset)] = Null THEN Null ELSE <<Max(subset), df[Max(subset)]>>

\* _window, without its NULLs.
Window(df, end, hours) ==
  {<<u, df[u]>> : u \in {x \in DOMAIN df : end - hours <= x /\ x <= end /\ df[x] # Null}}

\* The time that a lag column looks back from is the time of the run.
FaultyLagBase(df, asOf) == asOf

\* ... is the time of the anchor, the latest row.
LagBase(df, asOf) == Max(DOMAIN df)

\* The row; `anchor` stands for the columns that use the latest reading alone.
ComputeRow(df, asOf) ==
  LET a == Max(DOMAIN df)
  IN  [feature_time |-> a,
       anchor       |-> df[a],
       lag          |-> [h \in Lags |-> ValueAtOrBefore(df, LagBase(df, asOf) - h)],
       rolling      |-> [w \in Windows |-> Window(df, a, w)]]

Sourced == (Times \X Values) \cup {Null}
Row == [feature_time : Times, anchor : Readings, lag : [Lags -> Sourced],
        rolling : [Windows -> SUBSET (Times \X Values)]]

\* The times of the readings that the lags and windows of row r come from.
Sources(r) ==
  {r.lag[h][1] : h \in {x \in Lags : r.lag[x] # Null}}
    \cup {s[1] : s \in UNION {r.rolling[w] : w \in Windows}}

--------------------------------------------------------------------------------
(* Ingestion, as the pipeline sees it.                                     *)

Latest(table) == Max({0} \cup {u \in Times : table[u] # Absent})

\* An hour passes.
Tick ==
  /\ now < MaxTime
  /\ now' = now + 1
  /\ UNCHANGED <<obs, feats, builder, late, kills>>

\* upsert_observation of a reading later than all others.
Observe(u, r) ==
  /\ Latest(obs) < u /\ u <= now
  /\ obs' = [obs EXCEPT ![u] = r]
  /\ UNCHANGED <<now, feats, builder, late, kills>>

\* ... of one that comes late, or over one that is there.
ObserveLate(u, r) ==
  /\ u <= Latest(obs) /\ obs[u] # r
  /\ late < MaxLate
  /\ late' = late + 1
  /\ obs' = [obs EXCEPT ![u] = r]
  /\ UNCHANGED <<now, feats, builder, kills>>

--------------------------------------------------------------------------------
(* build_and_store_features.                                               *)

NoRow == [feature_time |-> 0]
Idle  == [pc |-> "idle", asOf |-> 0, row |-> NoRow]

\* as_of = datetime.now(UTC).
Begin(b) ==
  /\ builder[b].pc = "idle"
  /\ builder' = [builder EXCEPT ![b] = [pc |-> "load", asOf |-> now, row |-> NoRow]]
  /\ UNCHANGED <<now, obs, feats, late, kills>>

\* The query finds rows: the feature row is computed.
Compute(b) ==
  LET asOf == builder[b].asOf
      df   == LoadObservations(obs, asOf)
  IN  /\ builder[b].pc = "load"
      /\ df # << >>
      /\ builder' = [builder EXCEPT ![b].pc = "store", ![b].row = ComputeRow(df, asOf)]
      /\ UNCHANGED <<now, obs, feats, late, kills>>

\* It finds none: rows_processed = 0, and the exit code is 0 all the same.
NothingToDo(b) ==
  /\ builder[b].pc = "load"
  /\ LoadObservations(obs, builder[b].asOf) = << >>
  /\ builder' = [builder EXCEPT ![b] = Idle]
  /\ UNCHANGED <<now, obs, feats, late, kills>>

\* ON CONFLICT DO NOTHING.
FaultyUpsertFeatures(table, r) ==
  [a \in DOMAIN table \cup {r.feature_time} |->
     IF a \in DOMAIN table THEN table[a] ELSE r]

\* upsert_features: every column of the row that is there is overwritten, with
\* NULL too.
UpsertFeatures(table, r) ==
  [a \in DOMAIN table \cup {r.feature_time} |->
     IF a = r.feature_time THEN r ELSE table[a]]

\* The upsert, and the commit of session_scope.
Store(b) ==
  /\ builder[b].pc = "store"
  /\ feats' = UpsertFeatures(feats, builder[b].row)
  /\ builder' = [builder EXCEPT ![b] = Idle]
  /\ UNCHANGED <<now, obs, late, kills>>

\* The process dies or raises; a retry, or the run of the next hour, starts over.
Kill(b) ==
  /\ builder[b].pc # "idle"
  /\ kills < MaxKills
  /\ kills' = kills + 1
  /\ builder' = [builder EXCEPT ![b] = Idle]
  /\ UNCHANGED <<now, obs, feats, late>>

--------------------------------------------------------------------------------
Init ==
  /\ now = 1
  /\ obs = [u \in Times |-> Absent]
  /\ feats = << >>
  /\ builder = [b \in Builders |-> Idle]
  /\ late = 0 /\ kills = 0

Step(b) == Begin(b) \/ Compute(b) \/ NothingToDo(b) \/ Store(b)

Next ==
  \/ Tick
  \/ \E u \in Times, r \in Readings : Observe(u, r) \/ ObserveLate(u, r)
  \/ \E b \in Builders : Step(b) \/ Kill(b)

Spec == Init /\ [][Next]_vars

\* The scheduler starts a run every hour for ever, and a run that is not killed
\* goes on; nothing obliges observations to come.
FairSpec == Spec /\ \A b \in Builders : WF_vars(Step(b))

--------------------------------------------------------------------------------
(* What makes the feature pipeline correct.                                *)

\* Variables stay in their types, and a row that is computed is anchored in the
\* window of its run.
TypeOK ==
  /\ now \in Times
  /\ obs \in [Times -> Readings \cup {Absent}] /\ Latest(obs) <= now
  /\ DOMAIN feats \subseteq Times
  /\ \A a \in DOMAIN feats : feats[a] \in Row /\ feats[a].feature_time = a
  /\ builder \in [Builders -> [pc : {"idle", "load", "store"}, asOf : 0 .. now,
                              row : Row \cup {NoRow}]]
  /\ \A b \in Builders : builder[b].pc = "store" =>
       /\ builder[b].row \in Row
       /\ InWindow(builder[b].row.feature_time, builder[b].asOf)
  /\ late \in 0 .. MaxLate /\ kills \in 0 .. MaxKills

\* Row r, anchored at a, knows nothing that was observed after a, nor lags of h
\* hours that are less than h hours old.
LooksBack(r, a) ==
  /\ \A u \in Sources(r) : u <= a
  /\ \A h \in Lags : r.lag[h] # Null => r.lag[h][1] <= a - h

\* "No way to accidentally leak future information into a feature row" (the model
\* of weather_features): what a stored row knows was observed at or before its
\* feature_time, and a lag of h hours at least h hours before it -- whenever the
\* run read the table, and whatever came late since.
NoLeak == \A a \in DOMAIN feats : LooksBack(feats[a], a)

\* "Re-running the hourly DAG for a slot that's already computed updates in
\* place" (upsert_features), harmlessly up to a limit: as long as readings come
\* in order, a stored row only changes when a reading that its old or its new
\* version was computed from has left the lookback window -- as happens in an
\* outage, when hour after hour anchors on the same last observation.
RerunKeeps ==
  [][late = 0 =>
       \A a \in DOMAIN feats :
         feats'[a] # feats[a] =>
           \E u \in Sources(feats[a]) \cup Sources(feats'[a]) : u < now - Lookback]_vars

\* The row of the newest observation catches up with all that came late or was
\* overwritten: if observations and the clock come to rest with that observation
\* in the window, its row becomes and stays what the table gives -- although
\* each run writes what it read some time before, and may be killed.
Reflected(u) ==
  LET df == LoadObservations(obs, now)
  IN  u \in DOMAIN feats \cap DOMAIN df /\ feats[u] = ComputeRow(df, now)
CatchesUp ==
  \A u \in Times :
    <>[](Latest(obs) = u /\ InWindow(u, now)) => <>[]Reflected(u)

--------------------------------------------------------------------------------
(* What these rest on.                                                     *)

\* The rows that are stored, or about to be.
Held == {feats[a] : a \in DOMAIN feats}
          \cup {builder[b].row : b \in {x \in Builders : builder[x].pc = "store"}}

\* The observations up to time a.
UpTo(a) == [u \in Times |-> IF u <= a THEN obs[u] ELSE Absent]

\* Row r is what some run, by now, makes of the table as it is up to r's anchor.
Explained(r) ==
  LET a == r.feature_time
  IN  /\ obs[a] # Absent
      /\ \E asOf \in 0 .. now :
           InWindow(a, asOf) /\ r = ComputeRow(LoadObservations(UpTo(a), asOf), asOf)

IndInv ==
  /\ TypeOK
  /\ \A r \in Held : LooksBack(r, r.feature_time)
  /\ late = 0 => \A r \in Held : Explained(r)
================================================================================
