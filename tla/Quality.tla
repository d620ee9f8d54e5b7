--------------------------------- MODULE Quality ---------------------------------
(***************************************************************************)
(* Data-quality monitoring: the task of the DAG data_quality_monitoring    *)
(* (run_all_checks) judges the latest observation of every active          *)
(* location, while the world of module World changes.                      *)
(*                                                                         *)
(* A try works in one transaction: it lists the active locations, reads    *)
(* the latest observation of one after the other, adds the results to the  *)
(* session, and calls the alert hook for each critical failure at once;    *)
(* the results of all locations become visible with the commit at its end. *)
(* An exception or a kill takes the results back, but no alert.  The exit  *)
(* status is a failure as soon as one check failed, and the DAG repeats a  *)
(* failed try.                                                             *)
(*                                                                         *)
(* The try's `now` is kept as its age, `elapsed`, in the unit that         *)
(* Threshold is counted in.  Of the tables, the model keeps what the DAG   *)
(* run at hand wrote: DAG runs follow each other (max_active_runs = 1) and *)
(* never touch the rows of another one.                                    *)
(*                                                                         *)
(* An operator whose name starts with Faulty is not part of the model: it  *)
(* is the definition after it with a bug in it, kept to show that the      *)
(* properties notice the bug.                                              *)
(***************************************************************************)
EXTENDS World

CONSTANTS
  Threshold,    \* max_staleness_minutes (3 polling intervals in the code)
  MaxTries,     \* tries of a DAG run: retries + 1 (2 in the code)
  MaxElapsed,   \* bound: how much time passes during a try
  MaxAborts     \* bound: tries that are killed or raise

Critical == 3 * Threshold

ASSUME QualityAssumption ==
  /\ Threshold \in Nat \ {0} /\ MaxTries \in Nat \ {0}
  /\ MaxElapsed \in Nat /\ MaxAborts \in Nat
  /\ Critical + MaxElapsed < OldestAge

VARIABLES
  check,    \* the task instance of the DAG run at hand
  alerts,   \* what went to the alert hook in this DAG run: (try, location, check)
  rows,     \* committed ops.data_quality_checks of it: try -> location -> check
  aborts

monitoring == <<check, alerts, rows, aborts>>
vars       == <<deployed, active, newest, readings, switches,
                check, alerts, rows, aborts>>

--------------------------------------------------------------------------------
(* The checks.                                                             *)

Checks   == {"freshness", "value_ranges", "required_fields"}
Verdicts == [passed : BOOLEAN, severity : {"info", "warning", "critical"}]

Passed           == [passed |-> TRUE, severity |-> "info"]
Failed(severity) == [passed |-> FALSE, severity |-> severity]

\* A location without any observation is skipped.
FaultyCheckFreshness(obs, elapsed) ==
  IF obs = NoObservation \/ obs.age - elapsed <= Threshold THEN Passed
  ELSE Failed(IF obs.age - elapsed <= Critical THEN "warning" ELSE "critical")

\* check_freshness: `now` is from the beginning of the try, so that the staleness
\* of a reading that came since is negative.
CheckFreshness(obs, elapsed) ==
  CASE obs = NoObservation -> Failed("critical")
    [] obs # NoObservation /\ obs.age - elapsed <= Threshold -> Passed
    [] OTHER -> Failed(IF obs.age - elapsed <= Critical THEN "warning" ELSE "critical")

FieldsOf(m) == {m.temperature_c, m.humidity_pct, m.pressure_hpa}

\* check_value_ranges: NULL is in every range.
CheckValueRanges(m) == IF "out" \in FieldsOf(m) THEN Failed("critical") ELSE Passed

\* check_required_fields.
CheckRequiredFields(m) == IF "null" \in FieldsOf(m) THEN Failed("warning") ELSE Passed

\* The results of one location.
ResultsFor(obs, elapsed) ==
  [c \in (IF obs = NoObservation THEN {"freshness"} ELSE Checks) |->
     CASE c = "freshness"       -> CheckFreshness(obs, elapsed)
       [] c = "value_ranges"    -> CheckValueRanges(obs.fields)
       [] c = "required_fields" -> CheckRequiredFields(obs.fields)]

\* Failures of any severity are alerted.
FaultyToNotify(l, results) == {<<l, c>> : c \in {x \in DOMAIN results : ~ results[x].passed}}

\* What goes to the alert hook.
ToNotify(l, results) ==
  {<<l, c>> : c \in {x \in DOMAIN results :
                       ~ results[x].passed /\ results[x].severity = "critical"}}

\* all_passed.
AllPassed(results) ==
  \A l \in DOMAIN results : \A c \in DOMAIN results[l] : results[l][c].passed

--------------------------------------------------------------------------------
(* A DAG run and its tries.                                                *)

NoResults == [x \in {} |-> x]

\* A try that has found nothing yet, or the time between two tries.
Fresh(pc, try) ==
  [pc |-> pc, try |-> try, elapsed |-> 0, listed |-> {}, todo |-> {},
   results |-> NoResults, pending |-> {}]

Trying == {"begun", "examining", "notifying"}

\* Time passes for a try that is under way.
CheckAges ==
  /\ check.pc \in Trying => check.elapsed < MaxElapsed
  /\ check' = IF check.pc \in Trying THEN [check EXCEPT !.elapsed = @ + 1] ELSE check
  /\ UNCHANGED <<alerts, rows, aborts>>

\* The next DAG run, when the previous one has ended.
Schedule ==
  /\ "monitoring" \in deployed
  /\ check.pc \in {"idle", "success", "failed"}
  /\ check' = Fresh("queued", 0)
  /\ alerts' = {} /\ rows' = NoResults
  /\ UNCHANGED <<world, aborts>>

\* The process starts: now = datetime.now(UTC), then a transaction with its run.
Begin ==
  /\ check.pc = "queued"
  /\ check' = Fresh("begun", check.try + 1)
  /\ UNCHANGED <<world, alerts, rows, aborts>>

\* The locations that are active.
ListLocations ==
  /\ check.pc = "begun"
  /\ check' = [check EXCEPT !.pc = "examining", !.listed = active, !.todo = active]
  /\ UNCHANGED <<world, alerts, rows, aborts>>

With(results, l, r) == [x \in DOMAIN results \cup {l} |-> IF x = l THEN r ELSE results[x]]

\* _latest_observation of one of them, in the order the query gave, which has no
\* ORDER BY; its results are added to the session.
Examine(l) ==
  /\ check.pc = "examining" /\ l \in check.todo
  /\ LET results == ResultsFor(newest[l], check.elapsed)
     IN  check' = [check EXCEPT !.pc = IF ToNotify(l, results) = {} THEN @ ELSE "notifying",
                                !.todo = @ \ {l},
                                !.results = With(@, l, results),
                                !.pending = ToNotify(l, results)]
  /\ UNCHANGED <<world, alerts, rows, aborts>>

\* notify, for one critical failure after the other.
Notify(l, c) ==
  /\ check.pc = "notifying" /\ <<l, c>> \in check.pending
  /\ alerts' = alerts \cup {<<check.try, l, c>>}
  /\ check' = [check EXCEPT !.pc = IF check.pending = {<<l, c>>} THEN "examining" ELSE @,
                            !.pending = @ \ {<<l, c>>}]
  /\ UNCHANGED <<world, rows, aborts>>

\* The loop ends early, with the first location that has a critical failure.
FaultyChecked ==
  /\ check.pc = "examining"
  /\ check.todo = {} \/ \E l \in DOMAIN check.results : ToNotify(l, check.results[l]) # {}

\* The loop is through.
Checked == check.pc = "examining" /\ check.todo = {}

\* The block ends and session_scope commits.
Commit ==
  /\ Checked
  /\ rows' = With(rows, check.try, check.results)
  /\ check' = [check EXCEPT !.pc = "committed"]
  /\ UNCHANGED <<world, alerts, aborts>>

\* Where the task goes when its process exits with a status other than 0.
AfterFailure == IF check.try < MaxTries THEN "queued" ELSE "failed"

\* Only failures that are alerted count.
FaultyExitStatus ==
  IF \A l \in DOMAIN check.results : ToNotify(l, check.results[l]) = {}
    THEN "success" ELSE AfterFailure

\* 0 when run_all_checks returned True, else 1.
ExitStatus == IF AllPassed(check.results) THEN "success" ELSE AfterFailure

Ended(pc) == Fresh(pc, check.try)

Exit ==
  /\ check.pc = "committed"
  /\ check' = Ended(ExitStatus)
  /\ UNCHANGED <<world, alerts, rows, aborts>>

\* A statement or the commit raises, or the process is killed: what the session
\* holds is rolled back.
Abort ==
  /\ check.pc \in Trying \cup {"committed"}
  /\ aborts < MaxAborts
  /\ aborts' = aborts + 1
  /\ check' = Ended(AfterFailure)
  /\ UNCHANGED <<world, alerts, rows>>

--------------------------------------------------------------------------------
CheckInit ==
  /\ check = Fresh("idle", 0)
  /\ alerts = {} /\ rows = NoResults /\ aborts = 0

Init == WorldInit /\ CheckInit

Step ==
  \/ Schedule \/ Begin \/ ListLocations \/ Commit \/ Exit
  \/ \E l \in Ls : Examine(l) \/ \E c \in Checks : Notify(l, c)

Next ==
  \/ TimePasses /\ CheckAges
  \/ WorldChanges /\ UNCHANGED monitoring
  \/ Step \/ Abort

Spec == Init /\ [][Next]_vars

\* The DAG is scheduled for ever and a process that is not killed goes on;
\* nothing obliges readings to come.
FairSpec == Spec /\ WF_vars(Step)

--------------------------------------------------------------------------------
(* What makes the monitoring correct.                                      *)

\* A location without an observation has one result, others have all.
Judgements == [{"freshness"} -> Verdicts] \cup [Checks -> Verdicts]
Results    == UNION {[S -> Judgements] : S \in SUBSET Ls}

CheckStates ==
  [pc      : {"idle", "queued", "committed", "success", "failed"} \cup Trying,
   try     : 0 .. MaxTries,
   elapsed : 0 .. MaxElapsed,
   listed  : SUBSET Ls,
   todo    : SUBSET Ls,
   results : Results,
   pending : SUBSET (Ls \X Checks)]

\* Variables stay in their types; results are those of locations that were listed.
TypeOK ==
  /\ WorldTypeOK
  /\ check \in CheckStates
  /\ check.todo \subseteq check.listed /\ DOMAIN check.results = check.listed \ check.todo
  /\ alerts \subseteq (1 .. MaxTries) \X Ls \X Checks
  /\ DOMAIN rows \subseteq 1 .. MaxTries /\ \A n \in DOMAIN rows : rows[n] \in Results
  /\ aborts \in 0 .. MaxAborts

Log == INSTANCE QualityLog WITH Tries <- 1 .. MaxTries, survey <- check.listed

\* The record and the alerts tell the same story: of a try that is in the table,
\* exactly the critical failures were alerted -- none is found there that nobody
\* was told of, although alerts go out before the commit and one by one.
AlertsMatchRecord ==
  \A n \in DOMAIN rows : Log!AlertsOf(n) = Log!CriticalOf(n, rows[n])

\* "Returns False if anything failed, which the CLI maps to a non-zero exit": a
\* DAG run that is a success ends with a recorded try in which all checks passed;
\* without aborts, a try is only ever repeated, or the run failed, over a
\* recorded failure -- and every repetition records all results once more.
ExitHonest ==
  /\ check.pc = "success" => check.try \in DOMAIN rows /\ AllPassed(rows[check.try])
  /\ aborts = 0 =>
       /\ \A n \in 1 .. check.try - 1 : n \in DOMAIN rows /\ ~ AllPassed(rows[n])
       /\ check.pc = "failed" =>
            check.try = MaxTries /\ MaxTries \in DOMAIN rows /\ ~ AllPassed(rows[MaxTries])

\* What the two rest on.  What is alerted or recorded is of tries up to the one at
\* hand, which is recorded once, with what it found.
UpToNow ==
  /\ \A a \in alerts : a[1] <= check.try
  /\ DOMAIN rows \subseteq 1 .. check.try
  /\ check.pc \in Trying => check.try \notin DOMAIN rows
  /\ check.pc = "committed" => check.try \in DOMAIN rows /\ rows[check.try] = check.results
  /\ check.pc \in Trying \cup {"committed"} => check.try > 0
  /\ check.pc = "queued" => check.try < MaxTries

\* The try at hand has alerted what it found, but for what it is about to alert.
ToldSoFar ==
  /\ check.pc = "begun" => check.results = NoResults
  /\ check.pc \in {"begun", "examining"} => check.pending = {}
  /\ check.pc \in Trying =>
       \A l \in Ls, c \in Checks :
         (<<check.try, l, c>> \in alerts \/ <<l, c>> \in check.pending)
           <=> <<check.try, l, c>> \in Log!CriticalOf(check.try, check.results)

\* Without aborts, a try that is over and no success has recorded a failure.
FailedSoFar ==
  aborts = 0 /\ check.pc \in {"queued", "failed"} =>
    \A n \in 1 .. check.try : n \in DOMAIN rows /\ ~ AllPassed(rows[n])

IndInv == TypeOK /\ UpToNow /\ ToldSoFar /\ FailedSoFar /\ AlertsMatchRecord /\ ExitHonest

\* "The direct signal that ingestion has silently stopped working for that
\* location" (check_freshness): if a location stays active and without a recent
\* observation, alerts about it keep coming, one DAG run after the other --
\* whatever becomes of the other locations, and although tries may be aborted.
OutageKeepsAlerting ==
  \A l \in Ls :
    <>[]("monitoring" \in deployed /\ l \in active /\ newest[l].age > Critical)
      => []<>(\E n \in 1 .. MaxTries : <<n, l, "freshness">> \in alerts)

\* A try is recorded for all locations that were active at one moment, or for
\* none, and after its alerts.
ImplementsLog == Log!LogSpec
================================================================================
