-------------------------------- MODULE Insights ---------------------------------
(***************************************************************************)
(* The grid of the dashboard (enrich_observations): the derived columns of *)
(* the observations that GET /observations/{id} returns, computed once     *)
(* more, in the dashboard and without pandas, from nothing but those rows. *)
(* The pipeline of module Features computes the same columns from its      *)
(* lookback window and stores them.                                        *)
(*                                                                         *)
(* As in module Features, a column stands for the readings it comes from;  *)
(* FaultyGridValue is not part of the model but a bug for the property to  *)
(* notice.                                                                 *)
(***************************************************************************)
EXTENDS Features, FiniteSets

CONSTANT HistoryLimit  \* HISTORY_LIMIT (288 in the code)

ASSUME HistoryLimitAssumption == HistoryLimit \in Nat \ {0}

\* The n-th of a set of times, oldest first.
Nth(S, n) == CHOOSE u \in S : Cardinality({x \in S : x <= u}) = n

\* observation_history: ORDER BY observation_time DESC LIMIT, which enrich_observations
\* then sorts by time.
History(table) ==
  LET there == {u \in Times : table[u] # Absent}
      last  == {u \in there : Cardinality({x \in there : x > u}) < HistoryLimit}
  IN  [n \in 1 .. Cardinality(last) |->
         [time |-> Nth(last, n), reading |-> table[Nth(last, n)]]]

\* The scan begins with the oldest row.
FaultyGridValue(rows, i, target) ==
  LET before == {n \in 1 .. i : rows[n].time <= target}
  IN  IF before = {} \/ rows[1].reading = Null THEN Null
      ELSE <<rows[1].time, rows[1].reading>>

\* _value_at_or_before of insights.py: it scans from row i back to the oldest.
GridValue(rows, i, target) ==
  LET before == {n \in 1 .. i : rows[n].time <= target}
      n      == Max(before)
  IN  IF before = {} \/ rows[n].reading = Null THEN Null ELSE <<rows[n].time, rows[n].reading>>

\* The window of the pressure trend, without the NULLs that pressure_trend drops.
GridWindow(rows, i, hours) ==
  {<<rows[n].time, rows[n].reading>> :
     n \in {x \in 1 .. i : rows[i].time - hours <= rows[x].time /\ rows[x].reading # Null}}

\* enrich_observations, oldest row first; the code has the lag 1 and the window 3 only.
Enrich(rows) ==
  [i \in DOMAIN rows |->
     [time    |-> rows[i].time,
      lag     |-> [h \in Lags |-> GridValue(rows, i, rows[i].time - h)],
      rolling |-> [w \in Windows |-> GridWindow(rows, i, w)]]]

--------------------------------------------------------------------------------
\* The readings of set S that have left neither the pipeline's window nor the
\* grid's; a column that has none of its own sources left is NULL.
SeenByBoth(S, rows) == {s \in S : s[1] >= now - Lookback /\ s[1] >= rows[1].time}
Found(x) == {x} \ {Null}

\* The grid shows what the model was trained on, "not a reimplementation" of it
\* (README): as long as readings come in order, an enriched row and the stored
\* feature row of the same time come from the same readings, but for those that
\* only one of the two windows has -- one of them counts hours back from the run,
\* the other one rows back from the newest.
GridAgrees ==
  LET rows == History(obs)
      grid == Enrich(rows)
  IN  late = 0 =>
        \A i \in {n \in DOMAIN grid : grid[n].time \in DOMAIN feats} :
          LET stored == feats[grid[i].time]
          IN  /\ \A h \in Lags : SeenByBoth(Found(grid[i].lag[h]), rows)
                                   = SeenByBoth(Found(stored.lag[h]), rows)
              /\ \A w \in Windows : SeenByBoth(grid[i].rolling[w], rows)
                                      = SeenByBoth(stored.rolling[w], rows)
================================================================================
