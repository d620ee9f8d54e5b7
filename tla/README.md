# The automated weather pipeline in TLA+

Models, model checks and machine-checked proofs for the programs in `src/`: the
ingestion of weatherstack readings into Postgres, the hourly feature pipeline, the
training set, the training cycle with its MLflow promotions, the prediction API with
its model cache, the data-quality monitoring and the dashboard. Paths below are
relative to `src/src/weatherml/` unless they start with `src/`.

## The system

Airflow DAGs start short-lived processes of `weatherml.cli`; an API process and a
dashboard run all the time. They share no memory. What connects them is one
Postgres database (`weather_db`), the MLflow model registry, and exit codes.

| Component | State it keeps | Operations | Hard about it |
|---|---|---|---|
| Ingestion: `ingestion/service.py`, `repository.py`, `common/audit.py`, `db/session.py` | `ops.pipeline_runs`, `raw.weather_observations_raw`, `core.weather_observations` | `ingest_location` | three tables in one transaction; kills; retries of a try that had committed; two processes on one key; row locks |
| Client and schemas: `ingestion/client.py`, `schemas.py` | none | `get_current`, `parse_response` | error bodies with HTTP 200, which errors are retried and which are caught |
| Airflow DAGs and `cli.py` | task states | mapping, retries, `dagrun_timeout`, exit codes | the exit code must say what the database says |
| Features: `features/pipeline.py`, `repository.py` | `features.weather_features` | `build_and_store_features` | late and overwritten readings, reruns of one slot while nothing new comes in |
| Training set: `ml/dataset.py` | none | `load_training_frame`, `time_ordered_split` | two queries per location, two nearest-joins, leakage |
| Training: `ml/train.py`, `registry.py`, `evaluate.py`, `baseline.py` | registered versions, aliases, the cycle's `pipeline_runs.extra` | `run_training_cycle`, `promote`, `decide_promotion` | registry calls without a transaction, crashes between them, NaN |
| Model cache: `api/model_loader.py`, `main.py` | a (model, version) pair per horizon | `refresh`, `refresh_loop`, startup | the registry is asked twice per refresh, and any call may fail |
| `POST /predict`: `api/routers/predictions.py`, `deps.py` | `ops.model_predictions` | `predict`, `get_db` | the answer leaves before the commit |
| Data quality: `quality/*.py` | `ops.data_quality_checks`, alerts | `run_all_checks` | all locations in one transaction, alerts before the commit |
| Dashboard: `dashboard/*.py` | the page in a browser tab | `serve_layout`, `refresh`, `enrich_observations` | a page is put together from four calls; its derived columns must agree with the features |
| Read endpoints: `api/routers/observations.py`, `locations.py` | none | queries | what they return moves between the calls of one page |
| Configuration, logging | none | settings | - |

How they interact: ingestion writes observations; features and training read them by
SQL; training writes the registry; the API reads the registry on a timer and, per
request, observations; the dashboard calls the API. `ops.pipeline_runs` is written
by every DAG task.

What makes each correct, in a sentence each:

* *Ingestion*: the three tables never contradict each other or the exit code, and a
  crash leaves an execution recorded whole or not at all.
* *Features*: a row knows nothing of the future of its feature_time, a rerun does no
  harm, and late readings get into the newest row.
* *Training set*: labels lie ahead, one row per slot, and nothing that is trained on
  lies behind the cut.
* *Training*: `@production` only moves to something better.
* *Serving*: the model in memory follows `@production`, and the log says which model
  answered.
* *Data quality*: what is recorded and what is alerted tell the same story, a green
  DAG run means that all checks passed, and an outage keeps being reported.
* *Dashboard*: the parts of a page do not contradict each other, and a page recovers.

## Modules

| Module | Models | Extends / uses |
|---|---|---|
| `ObservationStore` | abstract: an execution is recorded in one step, or never happened | - |
| `Ingestion` | processes that run `ingest_location`, from launch to exit code | refines `ObservationStore` (`Store == INSTANCE ...`) |
| `IngestionProofs` | theorems about `Ingestion` | TLAPS |
| `Features` | the hourly feature task of one location, and the observations under it | - |
| `FeaturesProofs` | theorems about `Features`, `Insights` and `Signals` | `Extrema`, TLAPS |
| `Dataset` | `load_training_frame` and `time_ordered_split` against live tables | - |
| `DatasetProofs` | theorems about `Dataset` | `Extrema`, TLAPS |
| `Training` | training cycles against the model registry | - |
| `TrainingProofs` | theorems about `Training` | TLAPS |
| `Extrema` | lemmas: induction on finite sets, what `Max` and `Min` choose from sets of integers, the places of their elements | TLAPS |
| `ModelCache` | the API process, its refresh, its requests, the registry around it | - |
| `ModelCacheProofs` | theorems about `ModelCache` | TLAPS |
| `Insights` | the grid of the dashboard over the tables of `Features` | extends `Features` |
| `Signals` | pressure trend, storm flag and air-quality score, as pure functions | - |
| `World` | active locations, the latest observation of each, the time that passes | - |
| `QualityLog` | abstract: a try's results become visible in one step, after its alerts, or never | - |
| `Quality` | the DAG run of the monitoring, `run_all_checks` | extends `World`, refines `QualityLog` (`Log == INSTANCE ...`) |
| `QualityProofs` | theorems about `Quality` | TLAPS |
| `Dashboard` | a browser tab and the read endpoints behind it | extends `World` |
| `Platform` | monitoring and dashboard in one world | extends `Quality`, `Dashboard` |
| `PlatformProofs` | the theorems about `Quality`, carried over to `Platform`; theorems about `Dashboard` in it | `QualityProofs`, `Extrema`, TLAPS |
| `MCIngestion`, `MCFeatures`, `MCDataset`, `MCTraining`, `MCModelCache`, `MCPlatform` | the small instances: symmetry sets and constant definitions for TLC | their module |

Operators called `Faulty...` are not part of a model. Each is the definition that
follows it with a plausible bug, and there is one for every checked property, to
show that the property notices it.

### Ingestion

A process is a record `task[t]` whose `pc` says where in `ingest_location` it is:
`opened` (transaction and `running` run), `polling`, `answered`, `landed` (raw row
flushed), `written` (observation upserted), `committed`, then `success`, `failed` or
`queued` for Airflow's next try. Because nothing it wrote can be seen before the
commit, the contents of an open transaction are a function of its record
(`RunRowOf`, `RawRowOf`, `CoreRowOf`), and `Commit` is the one action that changes
the tables. `Kill`, `PollRaised`, `UpsertRaised` and `MissLocation` are all a
rollback (`Ended`). `Locked` is the row lock of an uncommitted upsert; `rawSeq` is
the sequence of the raw table, which a rollback does not take back. What weatherstack
may answer is `Outcomes`: a reading, a body that maps to no row, an error body that is retried
(quota) or not, a transport failure, garbage.

### Features

Time is in hours; a row keeps, for each lag and window, *which reading* it was
computed from, since all columns are functions of those readings. `LoadObservations`,
`ValueAtOrBefore`, `Window` and `ComputeRow` are the helpers of `pipeline.py`.
`Begin`, `Compute` and `Store` are separate because the time of the run, the query
and the upsert are: ingestion may commit between them.

### Insights and Signals

`Insights` reads the tables of `Features` through `History` (the newest
`HistoryLimit` rows, as `GET /observations/{id}` returns them) and computes lags and
windows once more as `dashboard/insights.py` does: by scanning rows, not by
filtering a frame. `Signals` translates `pressure_trend`, `storm_indicator` and
`aqi_composite_risk` to integers, with their rounding; a result of the code that is
`None` has a value of its own. The times of a window are within `LongestSpan` hours of each other
(the windows of the code are 3 hours long): two readings further apart between which the pressure falls by
1 hPa an hour less 1 hPa altogether have a slope that is 1 hPa an hour to the four decimal places that
`storm_indicator` is given. A call of one of them is a state of the run `features`,
made from its initial state only, since the functions depend on nothing else.

### World, Quality, QualityLog

Time in `World` is kept as ages, which stop growing above everything they are compared with
(`OldestAge`), so that "for ever" is a loop and liveness can be checked. `Observe` is
ingestion as a reader sees it; nothing obliges it to happen. `Quality` walks through
`run_all_checks`: `begun` (its `now` is taken), `examining` (one location per step, in
any order, since the query has no ORDER BY), `notifying` (one alert per step), `committed`,
and the exit status, on which the DAG repeats the try. `Abort` is an exception
or a kill anywhere in between: the results are gone, the alerts are not.
`check.listed`, the locations the try found active, maps to the `survey` of `QualityLog`.

### Dashboard, Platform

`tab` is the page: its options and the location selected, the number of calls the
refresh at hand has made, and the ages of what they returned. `Load`, `Select` and
`Interval` start a refresh, `CallAnswered` and `CallRaises` are its calls, one by one.
`Platform` lets time pass for both services at once and gives each its steps. Neither
writes anything that the other one reads; a run may therefore deploy them one at a
time (`Deployments`), and the numbers of their states add up instead of multiplying.

### Dataset

`Nearest` is `merge_asof(direction="nearest", tolerance=...)`, an earlier neighbour
winning a tie and a NULL temperature winning like any other;
`BuildSupervisedFrame`, `CurrentTemps` and `RowsOf` are the two joins.
`LoadFeatures` and `LoadObservations` are two actions, being two statements.
`TimeOrderedSplit` may cut rows of one feature_time anywhere, as the sort says nothing
of their order.

### Training

`cycle[c].pc` walks through `train_for_horizon`: `train`, `lookup`, `reevaluate`,
`decide`, `register`, `stage`, `promote`, `close` after the last horizon, and `committed`
between the commit of the cycle's run and exit 0 (`Close`, `Exit`). Models
are abstracted to the errors that they come out with (`Mae`), NaN included, and comparisons are
IEEE's. A `Crash` is an exception or a kill anywhere from the start to just before the exit. The
registry survives it; the row in `ops.pipeline_runs` does not, unless it was committed, and then
Airflow repeats a try that had done all its work. `MoveAlias` is the operator who forces a version
into production in the MLflow UI (`src/docs/runbook.md:68-69`), which moves `@production` alone;
with `Meddling = FALSE` only while no cycle has its transaction open.

### ModelCache

`refresh.pc` is `resolve`, `load`, `swap` for one horizon after the other: two
questions to the registry, between which the alias may move, and one assignment. A request
goes through `arrived`, `got`, `answered`, `logged`. `Stop` ends the process anywhere.

## The runs

| Run | Shows |
|---|---|
| `ingestion_safety` | 2 processes, 2 tries, 2 attempts, 2 observation times, a kill anywhere, a location that exists and one that does not: the safety properties, `IndInv` (`TypeOK` is part of it), `AllMetered`, `EveryStepCounts` and the refinement |
| `ingestion_liveness` | the same with one time: every launched task ends |
| `features` | 4 hours with a lookback of 2 and a history of 3 rows, a late reading, a kill; the functions of `Signals` for windows of up to 4 readings with gaps, and for every set of pollutants; `IndInv` of `Features` |
| `platform` | monitoring: 2 locations, 2 tries, 2 readings (sound, or failing both field checks), an abort, a switch of `is_active`; dashboard: 2 horizons (one with a model), an outage, a lost answer, 2 loads or choices; the safety properties, `IndInv` of `Quality`, `AnswersInOrder`, the refinement and liveness |
| `dataset` | 2 locations, 4 grid points, horizon 2, tolerance 1, 4 readings: the joins, the split and `IndInv` |
| `training` | 2 cycles, 2 horizons, 2 tries, a registry failure, 2 crashes (those between commit and exit included), an alias moved by hand between the cycles: the aliases, the audit row and `IndInv` |
| `serving` | 2 horizons (one deployed), 3 versions, a request, a manual alias move, a failure for each horizon, a stop: the log, the 503s, `IndInv` and liveness |
| `run_per_try`, `training_fault`, `training_null_anchor`, `serving_moved_back`, `dataset_split` | what the repository says and the code does not do |

### What the properties say

* `ObservationProvenance`, `AuditTrail`, `NoLostObservation`: core rows, raw rows
  and runs agree in both directions, after any number of upserts of one key.
* `ExitCodeHonest`: a green task has a committed successful run, also when an earlier
  try was killed between its commit and its exit.
* `PollBudget`: tries times attempts bound the calls to the API from above, and a
  quota error that was landed has used up its attempts.
* `AppendOnly`, `ImplementsStore`: nothing committed is rewritten; each commit is one step of
  the abstract store.
* `EveryStepCounts`: a task has a finite number of steps left (`StepsLeft`), and each of its steps,
  a retry, a rollback or a kill included, leaves it fewer.
* `EveryTaskFinishes`: and it takes them; nobody waits on a row lock for ever.
* `NoLeak`, `RerunKeeps`, `CatchesUp`: sources of a feature row lie in its past; with
  readings in order a rerun changes a row only once a reading has left the lookback;
  the newest row ends up with every late reading.
* `GridAgrees`: two implementations of "the value at or before" and two windows, one in hours
  and one in rows, draw on the same readings, as far as both still see them.
* `StormSignal`, `ScoreIsAverage`: a trend per hour and not per reading, whatever
  is missing; a score that missing sensors do not dilute, and when it fits `Numeric(6, 3)`.
* `AlertsMatchRecord`, `ExitHonest`, `ImplementsLog`: of a recorded try exactly the critical failures
  were alerted; a success is a recorded try in which everything passed; a try is
  recorded for all locations that were active at one moment, or for none.
* `OutageKeepsAlerting`: while a location stays active and stale, DAG run
  after DAG run alerts, also if it never had a reading and although tries are aborted.
* `PageInOrder`: chart at least as new as the conditions, forecast based on readings at least
  as new as the chart, and "no data" only with nothing in the lookback. It is the order of the
  three kinds of calls in `refresh` that makes this true; asked for in another order, a page
  would show a chart that ends before its own headline. It also says how stale a forecast
  shown during an outage can be: it is no older than the "As of" above it.
* `PageRecovers`: a page with a location shows it again when the API is back.
* `LabelAhead`, `OneRowPerSlot`, `CurrentIsAnchor`, `TrainsOnPast`: the joins.
* `BeatsPredecessor`: a cycle only replaces in `@production` a version that its candidate was
  compared with, that very version, and beat, whatever crashed before. Its conditions: no
  overlapping cycles (`~ Overlap`), no failed registry call, and no alias moved by hand while a
  cycle is at work (`~ Meddling`; the move itself is the operator's, and exempt). What
  an operator puts into production between two cycles is what the next one compares with.
* `AliasesInStep`: `@production` never gets ahead of `@staging`, wherever tries crash; what
  remains in `@staging` alone was put there by a run that left no row, because it is between
  the two calls of `promote` or crashed there. Its conditions: no overlap, and no alias moved
  by hand at all, as such a move parts the two.
* `AuditComplete`: a committed row lists what its own try registered, also when the try is
  repeated after its commit. Of a row that was rolled back it says nothing.
* `LogNotAhead`: with promotions only, in the order of registration, a row of `ops.model_predictions` never names a
  version newer than the model that predicted. `AvailableAfterStart`: 503 needs a
  failed call for that very horizon, or a horizon without a model: a failure for one horizon
  does not keep the other one empty. `FollowsPromotions`: the model in memory
  becomes that in production.

### Bounds, and why they are enough

The bounds are the constants named `Max...` and the sizes of the sets. Two processes
are enough for every conflict in the code, which is always between one writer and
one other (a row lock, an alias, a slot); two tries for a retry after each kind of
failure; two attempts for "retry" and "last attempt" to differ. Two horizons make
the order of horizons, and the failure of one of them, visible; three versions let a
version be resolved, another loaded and a third promoted. Four hours with a lookback
of two let a reading leave the window while its row is being rebuilt. Times, values
and processes are symmetric where no liveness is checked. `Errors = {98, 100}` with a threshold of 2 %
has the improvement exactly at the threshold. In `platform` the ages go up to one above the
critical threshold plus the longest try, so that each verdict of `CheckFreshness` occurs with
every delay; two locations let one fail while the other passes; one abort and two
tries make each order of abort, failure and success. Concentrations
reach from clean air to just under ten times the smallest reference, hours of a window have gaps of
1, 2 and 4. The clock of `Features` stops at
`MaxTime`; runs go on, so the last hour stands for as many runs as are needed.
`CHECK_DEADLOCK FALSE` stands in the training runs only, where all cycles may be done.

### Fairness

`Ingestion`: weak fairness of the steps of a process. Airflow starts what is queued
(its tasks are few and end), a process that runs goes on, and
tenacity bounds the attempts. Launches, kills and time-outs are not fair.
`Features`: the same; the scheduler starts a run each hour. `ModelCache`: weak
fairness of `RefreshStep` only: the event loop wakes `refresh_loop` up and a call to the registry
returns or raises. Nobody has to promote, ask, fail or stop.
`Platform`: weak fairness of the monitoring's steps (the scheduler starts a DAG run after
the other, a process that is not killed goes on) and of the page's (`dcc.Interval` fires
whatever the page shows, a call ends with its answer or after 10 seconds). Readings,
recovery of the API and the user are not fair; outages, lost answers, aborts and what the
user does are bounded, so that both liveness properties read "once these stop".
`Training` and `Dataset` state no liveness: a cycle may be cut off by its time-out.

## Where the code departs from what it says

Shown by a run (the counterexample is the scenario):

1. `run_per_try`: a try that raises leaves no `ops.pipeline_runs` row. `track_run`
   sets `failed`, re-raises, and `session_scope` rolls the row back, although
   `db/models.py:39-40`, `common/audit.py:20` and step 1 of the runbook's freshness section
   rely on it.
2. `training_fault`: a registry error while the champion is looked up or re-evaluated
   is read as "no champion", and the candidate replaces a better model
   (`ml/registry.py:78`, `ml/train.py:204-207`; `src/README.md:116-118`).
3. `training_null_anchor`: one NULL temperature at a test row makes the baseline's
   MAE NaN and disables "never promoted unless it beats the baseline".
4. `serving_moved_back`: version resolved, then model loaded by alias; an alias moved
   away and back in between leaves the wrong model in memory, under a label that no
   later refresh questions.
5. `dataset_split`: the rows before the cut carry labels observed after it.

Met while modelling and visible in the model, without a run of their own: the raw
table has one row per committed execution and not "per API poll attempt"
(`db/models.py:101-102`); `get_location` ignores `is_active`, although the error says
"not found or inactive" (`ingestion/service.py:102`); `BeatsPredecessor` needs the
conditions `~ Overlap` and `~ Meddling`: a `train-run` by hand (`src/docs/runbook.md:40-45`) may overlap the DAG,
an operator may move the alias at any time (`src/docs/runbook.md:68-69`), and a cycle that has made its comparison
does not look again before it promotes (`ml/train.py:194` and `221`); a promotion of the first horizon is not in any audit row when the second one
raises (`src/docs/runbook.md:64-65`); a promotion during a refresh labels a model with its
predecessor's version until the next one (`api/model_loader.py:27`); an answer may
lack its row in `ops.model_predictions` (`db/models.py:289-290`), as `get_db`
commits after the response is out; `computed_at` of a feature row stays that of its
first version (the upsert does not set it); a failing exception in the monitoring
takes back the results of all locations, although "a partial failure here should still
record every location's results, not abort early"
(`src/airflow/dags/data_quality_monitoring_dag.py:4-5`); the alert hook is called from the loop,
before the commit, and not by a query "after each check batch" (`db/models.py:258-260`); a
failed check that passes two minutes later, in the retry, leaves the DAG run green, so that
Airflow does not "surface" it (`quality/service.py:33-34`); the "read-only dashboard"
(`dashboard/app.py:1`) inserts a row of `ops.model_predictions` per horizon every minute a page is
open, also when its answer comes too late to be shown; a page that was loaded while the API was
unreachable has no options and says so until it is reloaded, and one that was loaded
earlier offers locations that have been switched off since (`dashboard/app.py:197-209`);
the air-quality score is "unbounded above" (`features/functions.py:128`), but its column
holds less than 1000 (`db/models.py:245`): PM2.5 at ten times its reference, measured alone, makes the
feature task of that location fail until a cleaner reading is the latest.

## What is proved

TLAPS checks these for *every* value of the constants that satisfies the ASSUMEs of
the module: any number of processes, tries, attempts, horizons, versions, faults.

| Module | Theorems |
|---|---|
| `IngestionProofs` | `Invariance` (`IndInv`), `TypeCorrect`, `Provenance`, `Audit`, `NothingLost`, `HonestExit`, `NothingRewritten`, `Implementation`, `Accounts` (`AllMetered`), `Budget`, `Termination` (`EveryStepCounts`) |
| `TrainingProofs` | `Invariance` (`IndInv`), `TypeCorrect`, `AuditTrue`, `AliasesTogether`, `ChampionOnlyBeaten` |
| `ModelCacheProofs` | `Invariance` (`IndInv`), `TypeCorrect`, `LogHonest`, `Available` |
| `FeaturesProofs` | `Invariance` (`IndInv`), `TypeCorrect`, `NoFutureKnown`, `RerunsHarmless`, `GridTrue`, `ScoreFair`, `StormTrue` |
| `DatasetProofs` | `Invariance` (`IndInv`), `TypeCorrect`, `LabelsAhead`, `NoDoubleRows`, `SplitInOrder`, `AnchorTemperature` |
| `QualityProofs` | `Invariance` (`IndInv`), `TypeCorrect`, `AlertsHonest`, `ExitIsHonest`, `Implementation` |
| `PlatformProofs` | `PlatformAlerts`, `PlatformExit`, `PlatformLog`, `PageInvariance`, `PlatformTypeCorrect`, `PageAnswers` (`AnswersInOrder`), `PageShown` |

Every inductive invariant is also an invariant of a run: TLC found the cases where an
earlier version of it failed before the proof was written. Each `IndInv` has the type
invariant of its module as its first conjunct.

*Ingestion.* None of the safety properties is inductive: a commit would overwrite a
row if its ids were not fresh. `IndInv` adds `FreshIds` (the raw id of an open
transaction is in no visible row and in no other transaction; all visible ids are at most `rawSeq`),
`FreshRuns` (the run of an open transaction is not visible, nor is any later run of
the task), `Consistent` (a process's record fits its `pc`) and `Reported` (what a
process that has committed may conclude). The steps fall into three kinds: quiet
ones that leave the tables alone (`QuietTask`, `QuietMoves`, `QuietKeeps`), `Commit`
(`CommitStep`, `CommitKeeps`), and `ToggleActive`. From freshness, a commit adds to
`runs` and `raw` and replaces one row of `core`, which gives the table properties,
`AppendOnly` and, with `Ledger` and `View` as refinement mapping, `ImplementsStore`
(`SameStore` for stutters, `CommitRecords` for commits). `PollBudget` rests on an
invariant of its own, `AllMetered`: the tries before the one at hand stay within their
attempts, the attempts of the one at hand come on top of what the visible runs account
for, and a quota error is the answer of a last attempt (`QuietMeters` for the counters,
`CommitMeters` for the row that a commit adds to the account). `EveryStepCounts` compares what is left
of the budget of tries first and the place in the try second (`StepTaken`); as `StepsLeft` is a natural number
(`StepsLeftType`), a task takes at most `(Retries + 1) * (MaxAttempts + 6) + 1` steps, under no
assumption of fairness. Fairness is needed only for taking them, which is what TLC checks.

*Training.* `BeatsPredecessor` is about a step; it needs to know, at the step, that what
the cycle compared its candidate with is still what `@production` names.
`ComparedWithProduction` says so from the comparison on, and `Alone` (one cycle at work,
unless cycles overlap) keeps it so while other cycles step. `SummaryComplete` relates what the try
at hand has registered to what its summary says, with the exception of the version it is about to
promote, and gives `AuditComplete` when the row is filed, whether cycles overlap or not;
`RunsTried` keeps the runs of later tries fresh: a run that has left a row has no transaction open
any more, though its cycle may have been killed before its exit and be tried once more.
`LatestInStaging` gives the order of the two alias moves, and `StagedToPromote` (the run that put a version into `@staging` alone
is about to promote it) leaves only a crash or the next call as explanations when a run files its row, which
is `AliasesInStep`. The comparison is stated without overlap and without moves under a cycle at work,
`AliasesInStep` without overlap and moves at all, as the code does not keep them otherwise; every number of crashes is covered.
One lemma per action gives the fields of the cycle after it (`RegisterFields`, ...), and one per
conjunct its preservation. `LeavesFields` and `MovedFields` do the same for what all ends of a try and
a move by hand have in common.

*ModelCache.* `IndInv` adds `Placed` (process, refresh and requests are in places
that fit), `Filled` (without failures for it, a horizon that was refreshed once has its model), `Labelled`
(with promotions only, label <= model <= latest, in the refresh, the cache, the
requests) and `Named` (a model has a label, a logged row is its request's). One lemma
per group of actions: `RegistryKeeps`, `RefreshKeeps`, `RequestKeeps`, `StopKeeps`.

*Features.* `NoLeak` must hold of the row that a run has computed and not yet stored, so
`IndInv` is about all rows that are held (`Held`). That a row looks back (`LooksBack`) follows from how it is
made (`RowIs`). For `RerunKeeps`, `Explained` says of every held row, as long as readings come in order,
that some run by now makes it of the table as it is up to its anchor: later readings come after the
anchor and do not change that part (`ExplainedKept`). Two runs with one anchor then see the same
readings, up to those that have left one of their windows; if their rows differ, a source of one of
them has (`SameRow`). The maxima that anchor a row and pick a lag come from `Extrema`.

*Dataset.* `Labelled` and `LabelledOnce` say what `merge_asof` can bring back: `Nearest` has at most one
element (`NearestUnique`), and the target itself if it is there (`NearestExact`). A location's
rows have one row per slot; different locations do not meet, as the loader goes through them
in order and only those it has left have rows in the frame (`Behind`). The split cuts a sorted
frame, wherever the cut falls.

*Extrema.* The induction theorems of the library take an operator, which the prover cannot instantiate.
Their place is taken by smallest counterexamples: a set of subsets of a finite set, the bad ones, has a
member that is good again without any of its elements (`LeastNatural`, `SmallestSubset`). So a
finite set of integers has a greatest element (`GreatestExists`), and so sums are reasoned about
(*Signals*). Counting the elements up to each one numbers them in order
(`FurtherUp`, `Places`).

*Quality.* `AlertsMatchRecord` is not inductive: a commit would break it if the try had
not alerted what it found. `IndInv` adds `UpToNow` (nothing is recorded or alerted of a
later try, and a try is in the table only when it has committed), `ToldSoFar` (of the
try at hand, what was alerted or is about to be alerted is what was found) and
`FailedSoFar` (without aborts, tries that are over have recorded a failure). One lemma
per action says what becomes of the fields of `check` (`ExamineFields`, ...), one per
conjunct that every action keeps it. At a commit nothing is about to be alerted, so that
`ToldSoFar` gives `AlertsMatchRecord` (`ToldAtTheEnd`) and, with `check.listed` as the
survey, `Record` of `QualityLog` (`CommitRecords`); `NotifyAlerts` is the step of its
`Alert`.

*Platform.* Every step of the platform is a step of `Quality` or leaves its variables
alone (`PlatformStep`), so that what is proved there holds here.

*Dashboard.* `PageInOrder` compares answers of different moments; what keeps them in order is
that the table never falls behind an answer given before (`AnswersInOrder`). A reading only
replaces an older one (`OnlyNewer`), time passes for table and page alike
(`SameClock`, `OlderKeepsOrder`), and a refresh that starts over has nothing to be in order
(`ResetInOrder`). Each call then brings something at least as new as the calls before it
(`AnsweredInOrder`).

*Insights.* `GridAgrees` follows from `IndInv` of `Features`. `Listing` says what the rows of the grid are:
the newest readings of the table, oldest first, and all since the oldest of them. `History` orders
them by counting (`Nth`), so that this needs the places of `Extrema` (`NthIs`, `HistoryIs`).
`Explained` gives the frame that a stored row was computed from, as a part of the
table as it is now (`StoredIs`); what a scan of the one finds and what a filter of the
other finds are then the same, unless it is older than one of them goes (`GridValueIs`,
`ValueFound`, `SameColumns`).

*Signals.* The theorems are about `Calls`, any calls one after the other. For `ScoreFair`, a bound of all the
scaled concentrations bounds their weighted sum by the total weight (`ExposureIs`), rounding keeps the order of
fractions (`RoundedInOrder`), and so the score lies between two of the scores that
pollutants have alone (`ScoreBetween`); the levels follow. Concentrations are whole
numbers, as everywhere in the module.

`StormTrue` is about sums over windows of any size. `Total` is a fold; the function behind it exists
(`SumsExists`: one for each size of subset, built on the one before) and so obeys its equation
(`SumsIs`). By induction on subsets a sum is an integer, linear, and at least each of its terms if
none is negative (`SumType`, `SumLinear`, `SumOfOnes`, `SumAtLeast`). The central step is Chebyshev's sum inequality
(`SumOfRising`): if `a * pressure + b * hours` does not fall between any two readings, then
`a * num + b * den >= 0` (`TrendIs`), because the deviations from the mean hour cancel out
(`DeviationsCancel`) and with a suitable reading as origin no term is negative. With `(a, b) = (-1, -1)`
a fall of 1 hPa an hour between any two readings gives a slope of at most -1, and with `(20000, 19999)` a lesser
fall between any two gives one that does not round to -1 (`RoundedAtMinusOne`, `SlopeSays`):
here `LongestSpan` is needed, and exact. The denominator is 0 exactly if no two readings have different
times, since then one of them is off the mean.

*Only model-checked.* Liveness (`EveryTaskFinishes`, `CatchesUp`,
`FollowsPromotions`, `OutageKeepsAlerting`, `PageRecovers`): it is outside the prover's
reach, as is anything with ENABLED. Every invariant and every action property of a passing run
is stated by a theorem, directly or, like the type invariants that a run leaves to `IndInv`, as a part of one.

## Not modelled, and why

* Configuration, logging, `MockWeatherstackClient`, Alembic and seeding: no state of
  their own, or none that changes while the system runs; `GET /health`.
* `start` and `end` of `GET /observations/{id}`: nothing in the repository uses them.
* The formulas of one or two readings in `features/functions.py` (heat index, dew point,
  wind chill, cyclical encoding), fitting and evaluation: real numbers, abstracted to
  what they are computed from and to the errors that come out.
* Layout, figures, number formats and CSV export of the dashboard: presentation.
* SQLAlchemy's connection pool: a wait that ends in an exception, covered by the
  actions for exceptions.
* The rows in `ops.pipeline_runs` of the feature task and of the monitoring: as in `Ingestion`.
* Minutes: cron schedules, retry delays and `dagrun_timeout` are orders of events.

## Plan

Done, in this order: `ObservationStore`, `Ingestion` and its proofs; `Training`;
`ModelCache` and its proofs; `Features`; `Dataset`; `World`, `QualityLog`, `Quality`,
`QualityProofs`, `Dashboard`, `Platform`, `PlatformProofs`; `Insights` and `Signals`; the
remaining proofs: `PollBudget` and `EveryStepCounts` in `IngestionProofs`, `TrainingProofs`, `Extrema`,
`FeaturesProofs` with the grid, the score and the storm flag, `DatasetProofs`, and the dashboard in
`PlatformProofs`.

Next: the hazards in `PROJECT.json` that no property covers yet; and counts of the steps left, as
`Ingestion` has them, for a try of the monitoring and for a refresh of the page.
