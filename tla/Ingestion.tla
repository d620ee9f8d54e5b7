-------------------------------- MODULE Ingestion --------------------------------
(***************************************************************************)
(* Ingestion of one reading per task: the mapped tasks of the DAG          *)
(* ingest_weather and the calls an operator makes by hand run              *)
(* ingest_location in processes of their own, against one Postgres         *)
(* database.                                                               *)
(*                                                                         *)
(* A process opens one transaction (session_scope), writes its             *)
(* ops.pipeline_runs row into it (track_run), polls weatherstack with      *)
(* retries (get_current), lands the answer in raw.weather_observations_raw *)
(* (insert_raw), upserts core.weather_observations (upsert_observation),   *)
(* and commits.  Until the commit nothing it wrote is visible, and an      *)
(* exception or a killed process takes all of it back: what a transaction  *)
(* holds is therefore a function of the process's own state, and only      *)
(* Commit changes runs, raw and core.                                      *)
(*                                                                         *)
(* An operator whose name starts with Faulty is not part of the model: it  *)
(* is the definition after it with a bug in it, kept to show that the      *)
(* properties notice the bug.                                              *)
(***************************************************************************)
EXTENDS Naturals, FiniteSets

CONSTANTS
  Locations,    \* the location_ids that have a row in core.locations
  LocationIds,  \* the location_ids a caller may ask for
  Times,        \* observation times an answer may carry
  Values,       \* readings an answer may carry
  Tasks,        \* processes: mapped task instances and manual calls
  Retries,      \* default_args["retries"] of the DAG (2 in the code)
  MaxAttempts,  \* stop_after_attempt of the client (4 in the code)
  MaxKills      \* bound: how often processes are killed in a behaviour

ASSUME LocationsAssumption ==
  Locations \subseteq LocationIds /\ LocationIds \subseteq Nat \ {0}
ASSUME LimitsAssumption ==
  Retries \in Nat /\ MaxAttempts \in Nat \ {0} /\ MaxKills \in Nat

VARIABLES
  active,  \* the locations whose is_active is true
  task,    \* task[t]: the state of process t
  runs,    \* committed ops.pipeline_runs: run id -> row
  raw,     \* committed raw.weather_observations_raw: id -> row
  core,    \* committed core.weather_observations: (location, time) -> row
  rawSeq,  \* the id sequence of the raw table, which no rollback takes back
  kills    \* how many processes were killed so far

db   == <<runs, raw, core>>
vars == <<active, task, runs, raw, core, rawSeq, kills>>

--------------------------------------------------------------------------------
(* What a poll of weatherstack can bring back.                             *)

\* A success body that maps to an observation: its time and its reading.
Reading == [kind : {"reading"}, time : Times, value : Values]

\* A success body that maps to no row: its utc_offset is no number, or a value
\* of it does not fit the column.
Unfit == [kind : {"unfit"}]

\* An error body (HTTP 200): codes 104 and 105 are "quota", the others "client".
Rejection == [kind : {"quota", "client"}]

\* What parse_response hands to the caller of get_current.
Answers == Reading \cup Unfit \cup Rejection

\* No answer body: a connection error, time-out or HTTP error status is
\* "transport"; "garbled" is a body that is not JSON or fails validation.
Outcomes == Answers \cup [kind : {"transport", "garbled"}]

NoAnswer == [kind |-> "none"]

\* _RETRYABLE_EXCEPTIONS of the client.
Retryable(a) == a.kind \in {"transport", "quota"}

--------------------------------------------------------------------------------
(* Rows and keys.                                                          *)

RunIds == Tasks \X (1 .. Retries + 1)
Keys   == Locations \X Times

RunRow  == [status : {"success", "failed"}, rows : {0, 1}]
RawRow  == [location : Locations, run : RunIds, payload : Reading \cup Rejection]
CoreRow == [value : Values, raw : Nat, run : RunIds]

\* The run that process t is executing: one per try.
RunOf(t) == <<t, task[t].tries>>

\* The unique key (location_id, observation_time) of t's answer.
KeyOf(t) == <<task[t].loc, task[t].answer.time>>

NoRows == [k \in {} |-> k]

\* ON CONFLICT DO NOTHING.
FaultyPut(table, k, r) ==
  [x \in DOMAIN table \cup {k} |-> IF x \in DOMAIN table THEN table[x] ELSE r]

\* INSERT, or INSERT ... ON CONFLICT (k) DO UPDATE, of row r under key k.
Put(table, k, r) ==
  [x \in DOMAIN table \cup {k} |-> IF x = k THEN r ELSE table[x]]

\* A lock that is taken when the raw row is written, by each of two writers.
FaultyLocked(k) ==
  \E u \in Tasks : /\ task[u].pc \in {"landed", "written"}
                   /\ task[u].answer \in Reading /\ KeyOf(u) = k

\* The row lock an uncommitted upsert holds on its key.
Locked(k) == \E u \in Tasks : task[u].pc = "written" /\ KeyOf(u) = k

--------------------------------------------------------------------------------
(* Launching: Airflow's task mapping, and the CLI called by hand.          *)

InTransaction == {"opened", "polling", "answered", "landed", "written"}
PCs == {"idle", "queued", "committed", "success", "failed"} \cup InTransaction

TaskState ==
  [pc      : PCs,
   loc     : LocationIds \cup {0},         \* the argument --location-id
   budget  : 0 .. Retries + 1,             \* tries this task may take
   tries   : 0 .. Retries + 1,             \* tries taken
   attempt : 0 .. MaxAttempts,             \* API calls of this try that ended
   polls   : Nat,                          \* API calls of all its tries
   status  : {"running", "failed"},        \* run.status in the transaction
   answer  : Answers \cup {NoAnswer},
   rawId   : Nat]                          \* raw.id in the transaction

Idle == [pc |-> "idle", loc |-> 0, budget |-> 0, tries |-> 0, attempt |-> 0,
         polls |-> 0, status |-> "running", answer |-> NoAnswer, rawId |-> 0]

Launch(t, l, budget) ==
  /\ task[t].pc = "idle"
  /\ task' = [task EXCEPT ![t].pc = "queued", ![t].loc = l, ![t].budget = budget]
  /\ UNCHANGED <<active, runs, raw, core, rawSeq, kills>>

\* get_active_location_ids lists the active locations and one task is mapped per
\* id; the location may be deactivated before the task starts.
LaunchMapped(t, l) == l \in active /\ Launch(t, l, Retries + 1)

\* `weatherml.cli ingest --location-id l`, typed by an operator: no retries.
LaunchByHand(t, l) == Launch(t, l, 1)

\* An operator flips is_active in the database.
ToggleActive(l) ==
  /\ active' = (active \ {l}) \cup ({l} \ active)
  /\ UNCHANGED <<task, runs, raw, core, rawSeq, kills>>

--------------------------------------------------------------------------------
(* One try of ingest_location.                                             *)

FaultyAfterFailure(t) ==
  IF task[t].tries <= task[t].budget THEN "queued" ELSE "failed"

\* Where a task goes when its process exits with a status other than 0.
AfterFailure(t) ==
  IF task[t].tries < task[t].budget THEN "queued" ELSE "failed"

\* What is left of task s when its process has ended and pc comes next.
Gone(s, pc) ==
  [pc |-> pc, loc |-> s.loc, budget |-> s.budget, tries |-> s.tries,
   polls |-> s.polls, attempt |-> 0, status |-> "running",
   answer |-> NoAnswer, rawId |-> 0]

Ended(t, pc) == [task EXCEPT ![t] = Gone(@, pc)]

\* session_scope and track_run: a new transaction with a `running` run in it.
OpenRun(t) ==
  /\ task[t].pc = "queued"
  /\ task' = [task EXCEPT ![t].pc = "opened", ![t].tries = @ + 1]
  /\ UNCHANGED <<active, runs, raw, core, rawSeq, kills>>

\* get_location finds the row, whether or not the location is active.
FindLocation(t) ==
  /\ task[t].pc = "opened"
  /\ task[t].loc \in Locations
  /\ task' = [task EXCEPT ![t].pc = "polling"]
  /\ UNCHANGED <<active, runs, raw, core, rawSeq, kills>>

\* No such row: the ValueError unwinds the whole try.
MissLocation(t) ==
  /\ task[t].pc = "opened"
  /\ task[t].loc \notin Locations
  /\ task' = Ended(t, AfterFailure(t))
  /\ UNCHANGED <<active, runs, raw, core, rawSeq, kills>>

FaultyMayRetry(t) == task[t].attempt < MaxAttempts

\* The attempt that ends now is not the last one tenacity allows.
MayRetry(t) == task[t].attempt + 1 < MaxAttempts

\* A retryable outcome with attempts left: tenacity waits and calls again.
PollAgain(t, a) ==
  /\ task[t].pc = "polling"
  /\ Retryable(a) /\ MayRetry(t)
  /\ task' = [task EXCEPT ![t].attempt = @ + 1, ![t].polls = @ + 1]
  /\ UNCHANGED <<active, runs, raw, core, rawSeq, kills>>

\* A success body, or a WeatherstackError that ingest_location catches: a
\* client error at once, a quota error on the last attempt.
PollAnswered(t, a) ==
  /\ task[t].pc = "polling"
  /\ a \in Answers
  /\ ~ (Retryable(a) /\ MayRetry(t))
  /\ task' = [task EXCEPT ![t].pc = "answered", ![t].answer = a,
                          ![t].attempt = @ + 1, ![t].polls = @ + 1]
  /\ UNCHANGED <<active, runs, raw, core, rawSeq, kills>>

\* One more call to the API has been made.
Called(s) == [s EXCEPT !.polls = @ + 1]

\* Any other exception of the client leaves ingest_location, and session_scope
\* rolls the transaction back.
PollRaised(t, a) ==
  /\ task[t].pc = "polling"
  /\ a \notin Answers
  /\ ~ (Retryable(a) /\ MayRetry(t))
  /\ task' = [task EXCEPT ![t] = Gone(Called(@), AfterFailure(t))]
  /\ UNCHANGED <<active, runs, raw, core, rawSeq, kills>>

\* The error branch forgets to set run.status.
FaultyStatusAfter(a) == "running"

\* run.status once answer a has been landed.
StatusAfter(a) == IF a \in Rejection THEN "failed" ELSE "running"

\* An id derived from the rows that can be seen, not from the sequence.
FaultyNextRawId == Cardinality(DOMAIN raw) + 1

\* The id that the flush of a raw row draws from the sequence.
NextRawId == rawSeq + 1

\* insert_raw, for both branches; the error branch also marks the run failed.
InsertRaw(t) ==
  /\ task[t].pc = "answered"
  /\ rawSeq' = rawSeq + 1
  /\ task' = [task EXCEPT ![t].pc = "landed", ![t].rawId = NextRawId,
                          ![t].status = StatusAfter(task[t].answer)]
  /\ UNCHANGED <<active, runs, raw, core, kills>>

\* _map_to_observation_fields and upsert_observation.  The statement waits for
\* another transaction that has written the same key and not yet ended.
Upsert(t) ==
  /\ task[t].pc = "landed"
  /\ task[t].answer \in Reading
  /\ ~ Locked(KeyOf(t))
  /\ task' = [task EXCEPT ![t].pc = "written"]
  /\ UNCHANGED <<active, runs, raw, core, rawSeq, kills>>

\* The mapping raises or the database rejects the row: all is rolled back, the
\* raw row that was just written included.
UpsertRaised(t) ==
  /\ task[t].pc = "landed"
  /\ task[t].answer \in Unfit
  /\ task' = Ended(t, AfterFailure(t))
  /\ UNCHANGED <<active, runs, raw, core, rawSeq, kills>>

--------------------------------------------------------------------------------
(* The end of a try.                                                       *)

\* The end of track_run: only a run that is still `running` becomes a success.
ClosedStatus(t) == IF task[t].status = "running" THEN "success" ELSE "failed"

\* The rows the transaction of t holds when its block ends.
RunRowOf(t)  == [status |-> ClosedStatus(t),
                 rows   |-> IF task[t].pc = "written" THEN 1 ELSE 0]
RawRowOf(t)  == [location |-> task[t].loc, run |-> RunOf(t),
                 payload |-> task[t].answer]

\* raw_observation_id left out of update_cols.
FaultyCoreRowOf(t) ==
  [value |-> task[t].answer.value, run |-> RunOf(t),
   raw   |-> IF KeyOf(t) \in DOMAIN core THEN core[KeyOf(t)].raw ELSE task[t].rawId]

CoreRowOf(t) == [value |-> task[t].answer.value, run |-> RunOf(t),
                 raw   |-> task[t].rawId]

\* A commit between insert_raw and upsert_observation.
FaultyReady(t) == task[t].pc \in {"landed", "written"} /\ task[t].answer \notin Unfit

\* The block of ingest_location has come to one of its two returns.
Ready(t) == \/ task[t].pc = "written"
            \/ task[t].pc = "landed" /\ task[t].answer \in Rejection

\* The block ends without an exception and session_scope commits.
Commit(t) ==
  /\ Ready(t)
  /\ runs' = Put(runs, RunOf(t), RunRowOf(t))
  /\ raw'  = Put(raw, task[t].rawId, RawRowOf(t))
  /\ core' = IF task[t].pc = "written" THEN Put(core, KeyOf(t), CoreRowOf(t))
                                       ELSE core
  /\ task' = [task EXCEPT ![t].pc = "committed"]
  /\ UNCHANGED <<active, rawSeq, kills>>

\* The exit status does not depend on what ingest_location returned.
FaultyExitStatus(t) == "success"

\* 0 when ingest_location returned True, else 1.
ExitStatus(t) ==
  IF task[t].answer \in Reading THEN "success" ELSE AfterFailure(t)

ExitProcess(t) ==
  /\ task[t].pc = "committed"
  /\ task' = Ended(t, ExitStatus(t))
  /\ UNCHANGED <<active, runs, raw, core, rawSeq, kills>>

--------------------------------------------------------------------------------
(* What may end a process from outside.                                    *)

\* The process is killed, or loses its database connection, before it exited.
Kill(t) ==
  /\ kills < MaxKills
  /\ task[t].pc \in InTransaction \cup {"committed"}
  /\ kills' = kills + 1
  /\ task' = Ended(t, AfterFailure(t))
  /\ UNCHANGED <<active, runs, raw, core, rawSeq>>

\* dagrun_timeout ends the DAG run: its unfinished tasks get no further try.
DagRunTimeout(t) ==
  /\ kills < MaxKills
  /\ task[t].pc \in InTransaction \cup {"queued", "committed"}
  /\ kills' = kills + 1
  /\ task' = Ended(t, "failed")
  /\ UNCHANGED <<active, runs, raw, core, rawSeq>>

--------------------------------------------------------------------------------
Init ==
  /\ active = Locations
  /\ task = [t \in Tasks |-> Idle]
  /\ runs = NoRows /\ raw = NoRows /\ core = NoRows
  /\ rawSeq = 0 /\ kills = 0

\* The steps a live process takes by itself.
Step(t) ==
  \/ OpenRun(t) \/ FindLocation(t) \/ MissLocation(t)
  \/ \E a \in Outcomes : PollAgain(t, a) \/ PollAnswered(t, a) \/ PollRaised(t, a)
  \/ InsertRaw(t) \/ Upsert(t) \/ UpsertRaised(t) \/ Commit(t) \/ ExitProcess(t)

Next ==
  \/ \E t \in Tasks :
       \/ \E l \in LocationIds : LaunchMapped(t, l) \/ LaunchByHand(t, l)
       \/ Step(t) \/ Kill(t) \/ DagRunTimeout(t)
  \/ \E l \in Locations : ToggleActive(l)

Spec == Init /\ [][Next]_vars

\* Airflow starts what is queued and a started process keeps running; nothing
\* obliges anybody to launch, to flip a location or to kill a process.
FairSpec == Spec /\ \A t \in Tasks : WF_vars(Step(t))

--------------------------------------------------------------------------------
(* What makes ingestion correct.                                           *)

\* Every variable stays in its type; tables hold typed rows under typed keys
\* (the CHECK and foreign-key constraints of the schema), and no task takes
\* more tries than Airflow grants.
TypeOK ==
  /\ active \subseteq Locations
  /\ task \in [Tasks -> TaskState]
  /\ DOMAIN runs \subseteq RunIds /\ \A r \in DOMAIN runs : runs[r] \in RunRow
  /\ DOMAIN raw \subseteq Nat     /\ \A i \in DOMAIN raw : raw[i] \in RawRow
  /\ DOMAIN core \subseteq Keys   /\ \A k \in DOMAIN core : core[k] \in CoreRow
  /\ rawSeq \in Nat
  /\ kills \in 0 .. MaxKills

\* An observation row can be traced: the raw row it names exists, was landed for
\* the same location by the same run, and is the very body the row's time and
\* value were mapped from -- however many executions upserted the row since
\* (upsert_observation overwrites the provenance columns with the fields).
ObservationProvenance ==
  \A k \in DOMAIN core :
    /\ core[k].raw \in DOMAIN raw
    /\ raw[core[k].raw] =
         [location |-> k[1], run |-> core[k].run,
          payload  |-> [kind |-> "reading", time |-> k[2], value |-> core[k].value]]

\* The audit trail and the raw table agree: a visible run has landed exactly one
\* raw row, and it is a success with one row processed exactly if that raw row
\* is a reading (the two returns of ingest_location, one transaction each).
AuditTrail ==
  /\ \A r \in DOMAIN runs : \E i \in DOMAIN raw : raw[i].run = r
  /\ \A i, j \in DOMAIN raw : raw[i].run = raw[j].run => i = j
  /\ \A i \in DOMAIN raw :
       /\ raw[i].run \in DOMAIN runs
       /\ runs[raw[i].run] = IF raw[i].payload \in Reading
                               THEN [status |-> "success", rows |-> 1]
                               ELSE [status |-> "failed", rows |-> 0]

\* A reading that was landed is served: every visible raw reading has an
\* observation row under its location and time (no commit, crash or rollback
\* falls between insert_raw and upsert_observation).
NoLostObservation ==
  \A i \in DOMAIN raw :
    raw[i].payload \in Reading =>
      <<raw[i].location, raw[i].payload.time>> \in DOMAIN core

\* The exit code tells the truth about the database: a task that Airflow shows
\* as a success has a committed successful run; and as long as nothing was
\* killed, a task it shows as failed has none (service.py: True on success,
\* False on failure, mapped to the exit code by the CLI).
ExitCodeHonest ==
  \A t \in Tasks :
    /\ task[t].pc = "success" =>
         /\ RunOf(t) \in DOMAIN runs
         /\ runs[RunOf(t)].status = "success"
    /\ task[t].pc = "failed" /\ kills = 0 =>
         \A r \in DOMAIN runs : r[1] = t => runs[r].status = "failed"

\* What a task costs in API calls: no try makes more than MaxAttempts, and a
\* quota error is surfaced (landed as the answer of a run) only when the try has
\* used them all, since "the window may reset within the retry budget".
RunsLanding(t, kind) == {i \in DOMAIN raw : raw[i].run[1] = t /\ raw[i].payload.kind = kind}
Owed(t) == Cardinality(RunsLanding(t, "quota")) * MaxAttempts
             + Cardinality(RunsLanding(t, "client"))
PollBudget ==
  \A t \in Tasks : task[t].polls <= task[t].tries * MaxAttempts /\ task[t].polls >= Owed(t)

\* Nothing committed to the audit trail or the raw table is ever changed or
\* removed, and an observation row changes only when a raw row is added.
AppendOnly ==
  [][/\ \A r \in DOMAIN runs : r \in DOMAIN runs' /\ runs'[r] = runs[r]
     /\ \A i \in DOMAIN raw : i \in DOMAIN raw' /\ raw'[i] = raw[i]
     /\ core' # core => raw' # raw]_db

\* More than the longest try takes: it is opened, finds its location, uses up its
\* attempts, lands, writes, commits and exits.
TryLength == MaxAttempts + 6

\* How far a process is from the end of its try, at most.
ToExit(s) ==
  IF s.pc = "opened" THEN MaxAttempts + 5
  ELSE IF s.pc = "polling" THEN (MaxAttempts - s.attempt) + 4
  ELSE IF s.pc = "answered" THEN 4
  ELSE IF s.pc = "landed" THEN 3
  ELSE IF s.pc = "written" THEN 2
  ELSE IF s.pc = "committed" THEN 1
  ELSE 0

\* How many steps a task has left, at most.
StepsLeft(s) ==
  IF s.pc = "idle" THEN (Retries + 1) * TryLength + 1
  ELSE IF s.pc \in {"success", "failed"} THEN 0
  ELSE (s.budget - s.tries) * TryLength + ToExit(s)

\* No step of a process is in vain: a try that is given up, a poll that is repeated, a
\* rollback, a kill -- each leaves it fewer steps than it had, and there is no way back
\* to any place it has been in (retries of Airflow and of tenacity, rollbacks and row
\* locks, in any order).
EveryStepCounts ==
  [][\A t \in Tasks : \/ task'[t] = task[t]
                     \/ StepsLeft(task'[t]) \in 0 .. StepsLeft(task[t]) - 1]_task

\* Every launched task comes to an end: retries and attempts are finite and
\* nobody waits for ever for the row lock of another transaction.
EveryTaskFinishes ==
  \A t \in Tasks : task[t].pc = "queued" ~> task[t].pc \in {"success", "failed"}

--------------------------------------------------------------------------------
(* Why it is correct: the inductive invariant.                             *)

Pending(t) == task[t].pc \in {"landed", "written"}

\* A process's own state fits the place it has come to.
Consistent(s) ==
  /\ s.tries <= s.budget
  /\ s.pc = "idle" => s.budget = 0
  /\ s.pc # "idle" => s.loc \in LocationIds
  /\ s.pc = "queued" => s.tries < s.budget
  /\ s.pc \in InTransaction \cup {"committed"} => s.tries >= 1
  /\ s.pc \in {"idle", "queued", "opened"} => s.attempt = 0
  /\ s.pc = "polling" => s.attempt < MaxAttempts
  /\ s.pc \in {"polling", "answered", "landed", "written"} => s.loc \in Locations
  /\ s.pc \in {"idle", "queued", "opened", "polling", "answered"} => s.status = "running"
  /\ s.pc \in {"answered", "landed"} => s.answer \in Answers
  /\ s.pc = "written" => s.answer \in Reading
  /\ s.pc = "committed" => s.answer \in Reading \cup Rejection
  /\ s.pc \in {"landed", "written"} => s.status = StatusAfter(s.answer)

\* The id that a transaction drew for its raw row is its own.
FreshIds ==
  /\ \A i \in DOMAIN raw : i <= rawSeq
  /\ \A t \in Tasks : Pending(t) => task[t].rawId <= rawSeq /\ task[t].rawId \notin DOMAIN raw
  /\ \A t, u \in Tasks :
       Pending(t) /\ Pending(u) /\ task[t].rawId = task[u].rawId => t = u

\* The run of a transaction is its own, and no later run is visible.
FreshRuns ==
  /\ \A t \in Tasks, n \in 1 .. Retries + 1 :
       <<t, n>> \in DOMAIN runs => n <= task[t].tries
  /\ \A t \in Tasks : task[t].pc \in InTransaction => RunOf(t) \notin DOMAIN runs

\* What a process that has committed may say of its run, and, if nothing was
\* killed, where the task of a successful run must be.
Reported ==
  \A t \in Tasks :
    /\ task[t].pc = "committed" \/ task[t].pc = "success" =>
         /\ RunOf(t) \in DOMAIN runs
         /\ task[t].pc = "success" \/ task[t].answer \in Reading =>
              runs[RunOf(t)].status = "success"
         /\ task[t].pc = "committed" /\ task[t].answer \notin Reading =>
              runs[RunOf(t)].status = "failed"
    /\ kills = 0 =>
         \A n \in 1 .. Retries + 1 :
           <<t, n>> \in DOMAIN runs /\ runs[<<t, n>>].status = "success" =>
             \/ task[t].pc = "success"
             \/ task[t].pc = "committed" /\ n = task[t].tries

\* Holds initially, is kept by every step, and implies the invariants above: a
\* transaction's ids are fresh, so a commit adds to the tables and overwrites
\* nothing but the observation of its key.
IndInv ==
  /\ TypeOK
  /\ \A t \in Tasks : Consistent(task[t])
  /\ FreshIds /\ FreshRuns /\ Reported
  /\ AuditTrail /\ ObservationProvenance /\ NoLostObservation

\* What PollBudget rests on: the tries before the one at hand are within the limit,
\* the attempts of the one at hand come on top of what the visible runs account for,
\* and a quota error is the answer of a last attempt.
Metered(s, owed) ==
  /\ IF s.pc \in InTransaction \cup {"committed"}
       THEN s.polls + MaxAttempts <= s.tries * MaxAttempts + s.attempt
       ELSE s.polls <= s.tries * MaxAttempts
  /\ s.polls >= owed + (IF s.pc \in InTransaction THEN s.attempt ELSE 0)
  /\ s.pc \in {"answered", "landed"} =>
       s.attempt >= 1 /\ (s.answer.kind = "quota" => s.attempt = MaxAttempts)

AllMetered == \A t \in Tasks : Metered(task[t], Owed(t))

--------------------------------------------------------------------------------
(* The abstract store: the joined ledger, and the observations.            *)

\* The committed runs, each joined with the raw row that refers to it.
Ledger == {[run |-> raw[i].run, location |-> raw[i].location,
            answer |-> raw[i].payload, status |-> runs[raw[i].run].status] :
             i \in DOMAIN raw}

\* The observations as a reader sees them.
View == [k \in DOMAIN core |-> [value |-> core[k].value, run |-> core[k].run]]

Store == INSTANCE ObservationStore
           WITH Answers <- Reading \cup Rejection, ledger <- Ledger, view <- View

\* With transactions, polls, retries and kills taken away, an execution of
\* ingest_location either leaves nothing or is recorded in one step: its run, its
\* raw row and its observation together, the last commit for a key winning.
ImplementsStore == Store!StoreSpec

--------------------------------------------------------------------------------
(* What the repository says and the code does not do, with no kill needed. *)

Finished(t) == task[t].pc \in {"success", "failed"}

\* "One row per Airflow task execution" (the pipeline_runs model), closed as
\* success or failed "based on whether the block raised" (track_run): each try of
\* a finished task has left its run.
OneRunPerTry ==
  \A t \in Tasks :
    Finished(t) => \A n \in 1 .. task[t].tries : <<t, n>> \in DOMAIN runs
================================================================================
