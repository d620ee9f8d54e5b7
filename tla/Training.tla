-------------------------------- MODULE Training ---------------------------------
(***************************************************************************)
(* Training cycles (run_training_cycle: the daily DAG with its retry, and  *)
(* train-run typed by an operator) against the MLflow model registry.      *)
(*                                                                         *)
(* A cycle goes through the forecast horizons in order.  For each it       *)
(* trains a candidate, looks up the @production version, re-evaluates it   *)
(* on its own held-out split, decides, and, to promote, registers the      *)
(* candidate and moves the aliases @staging and @production.  Each of      *)
(* these is a call of its own to the registry, which has no transaction    *)
(* around them; the cycle's ops.pipeline_runs row, on the other hand, is   *)
(* in a database transaction that commits when all horizons are done, and  *)
(* the process may still die between that commit and its exit 0.           *)
(*                                                                         *)
(* An operator may also move @production by hand (the runbook says how).   *)
(*                                                                         *)
(* The data is abstracted to the errors (MAE, in hundredths) that the      *)
(* models come out with on the split of the cycle at hand.                 *)
(*                                                                         *)
(* An operator whose name starts with Faulty is not part of the model: it  *)
(* is the definition after it with a bug in it, kept to show that the      *)
(* properties notice the bug.                                              *)
(***************************************************************************)
EXTENDS Naturals, Sequences

CONSTANTS
  Cycles,     \* training processes: DAG runs and manual calls
  Horizons,   \* the length of HORIZONS_HOURS (2 in the code)
  Errors,     \* the MAEs that an evaluation may come out with
  Threshold,  \* improvement_threshold, in per cent (2 in the code)
  Tries,      \* tries of a cycle: retries + 1 (2 in the DAG)
  Overlap,    \* may an operator's train-run overlap another cycle?
  Meddling,   \* may the operator move an alias while a cycle is at work?
  NullAnchors,\* may the temperature at a test row's feature time be NULL?
  MaxFaults,  \* bound: registry calls of get_production_model_version or
              \* load_model that fail
  MaxCrashes, \* bound: exceptions and kills that end a try
  MaxMoves    \* bound: times the operator moves an alias

ASSUME NumbersAssumption ==
  /\ Horizons \in Nat \ {0}
  /\ Errors \subseteq Nat /\ Threshold \in 0 .. 100 /\ Tries \in Nat \ {0}
  /\ Overlap \in BOOLEAN /\ Meddling \in BOOLEAN /\ NullAnchors \in BOOLEAN
  /\ MaxFaults \in Nat /\ MaxCrashes \in Nat /\ MaxMoves \in Nat

VARIABLES
  cycle,       \* cycle[c]: the state of the training process c
  version,     \* version[h]: the registered versions of the model for h, in order
  staging,     \* staging[h]: the version with the alias @staging, 0 if none
  production,  \* production[h]: the version with the alias @production, 0 if none
  audit,       \* committed ops.pipeline_runs: run -> extra["horizons"]
  faults, crashes, moves

registry == <<version, staging, production, moves>>
vars     == <<cycle, version, staging, production, audit, faults, crashes, moves>>

--------------------------------------------------------------------------------
(* Evaluations and the decision.                                           *)

\* What evaluate_predictions returns under "mae": a number, or the NaN that one
\* missing operand makes of the mean.
Mae(e) == [number |-> TRUE, mae |-> e]
NaN    == [number |-> FALSE, mae |-> 0]
Maes   == {Mae(e) : e \in Errors} \cup {NaN}

\* IEEE comparison: false as soon as an operand is NaN.
AtLeast(x, y) == x.number /\ y.number /\ x.mae >= y.mae

\* candidate <= production * (1 - threshold)
Improves(x, y) == x.number /\ y.number /\ x.mae * 100 <= y.mae * (100 - Threshold)

\* decide_promotion; compared = 0 stands for production_mae is None.
DecidePromotion(candidate, baseline, compared, prod) ==
  /\ ~ AtLeast(candidate, baseline)
  /\ compared = 0 \/ Improves(candidate, prod)

--------------------------------------------------------------------------------
(* Processes.                                                              *)

Hs   == 1 .. Horizons                \* the horizons, by their position
Runs == Cycles \X (1 .. Tries)
Running == {"train", "lookup", "reevaluate", "decide", "register", "stage",
            "promote", "close"}      \* its database transaction is open
PCs == {"idle", "committed", "failed", "done"} \cup Running

\* A horizon not yet started.
Fresh(c, pc, h) ==
  [cycle[c] EXCEPT !.pc = pc, !.h = h, !.candidate = NaN, !.baseline = NaN,
                   !.compared = 0, !.prod = NaN, !.mine = 0]

\* The loop goes on, and what this horizon came to is not filed.
FaultyNextHorizon(c, promoted) ==
  Fresh(c, IF cycle[c].h < Horizons THEN "train" ELSE "close",
        IF cycle[c].h < Horizons THEN cycle[c].h + 1 ELSE Horizons)

\* The summary of this horizon is filed, and the loop goes on or ends.
NextHorizon(c, promoted) ==
  LET filed(s) == [s EXCEPT !.summary[cycle[c].h] = promoted]
  IN  IF cycle[c].h < Horizons THEN filed(Fresh(c, "train", cycle[c].h + 1))
                                    ELSE filed(Fresh(c, "close", cycle[c].h))

RunOf(c) == <<c, cycle[c].tries>>

NoSummary == [h \in Hs |-> 0]

\* The DAG has max_active_runs = 1; nothing keeps a manual call apart.
MayStart(c) == Overlap \/ \A d \in Cycles \ {c} : cycle[d].pc \in {"idle", "failed", "done"}

\* default_args["retries"] of the DAG.
TriesLeft(c) == cycle[c].tries < Tries

\* run_training_cycle, for the first time or as the retry of a failed try.
Start(c) ==
  /\ cycle[c].pc \in {"idle", "failed"}
  /\ TriesLeft(c)
  /\ MayStart(c)
  /\ cycle' = [cycle EXCEPT ![c] =
                 [Fresh(c, "train", 1) EXCEPT !.tries = @ + 1, !.summary = NoSummary]]
  /\ UNCHANGED <<version, staging, production, audit, faults, crashes, moves>>

\* Fewer than MIN_TRAINING_ROWS rows.
SkipHorizon(c) ==
  /\ cycle[c].pc = "train"
  /\ cycle' = [cycle EXCEPT ![c] = NextHorizon(c, 0)]
  /\ UNCHANGED <<version, staging, production, audit, faults, crashes, moves>>

\* Candidate and baseline, fitted and evaluated on the split of this cycle.
Train(c, candidate, baseline) ==
  /\ cycle[c].pc = "train"
  /\ candidate.number
  /\ baseline.number \/ NullAnchors
  /\ cycle' = [cycle EXCEPT ![c].pc = "lookup", ![c].candidate = candidate,
                            ![c].baseline = baseline]
  /\ UNCHANGED <<version, staging, production, audit, faults, crashes, moves>>

\* The version that promotion reached first.
FaultyChampion(h) == staging[h]

\* get_model_version_by_alias(model_name, "production"), 0 when the alias is unset.
Champion(h) == production[h]

\* get_production_model_version, answered by the registry.
Lookup(c) ==
  /\ cycle[c].pc = "lookup"
  /\ cycle' = [cycle EXCEPT ![c].pc = IF Champion(cycle[c].h) = 0 THEN "decide"
                                                                 ELSE "reevaluate"]
  /\ UNCHANGED <<version, staging, production, audit, faults, crashes, moves>>

\* Any MlflowException: None is returned, as if no version had the alias; or the
\* version is found but loading or evaluating it raises, which is logged only.
RegistryFault(c) ==
  /\ cycle[c].pc \in {"lookup", "reevaluate"}
  /\ faults < MaxFaults
  /\ faults' = faults + 1
  /\ cycle' = [cycle EXCEPT ![c].pc = "decide"]
  /\ UNCHANGED <<version, staging, production, audit, crashes, moves>>

\* load_model resolves the alias again, and the model is evaluated on this
\* cycle's split.
Reevaluate(c, prod) ==
  /\ cycle[c].pc = "reevaluate"
  /\ prod.number
  /\ cycle' = [cycle EXCEPT ![c].pc = "decide", ![c].prod = prod,
                            ![c].compared = Champion(cycle[c].h)]
  /\ UNCHANGED <<version, staging, production, audit, faults, crashes, moves>>

Decide(c) ==
  /\ cycle[c].pc = "decide"
  /\ LET s == cycle[c]
     IN  cycle' = [cycle EXCEPT ![c] =
                     IF DecidePromotion(s.candidate, s.baseline, s.compared, s.prod)
                       THEN [@ EXCEPT !.pc = "register"] ELSE NextHorizon(c, 0)]
  /\ UNCHANGED <<version, staging, production, audit, faults, crashes, moves>>

\* mlflow.register_model: the next version number, with the metrics of its run.
Register(c) ==
  /\ cycle[c].pc = "register"
  /\ LET s == cycle[c]
     IN  /\ version' = [version EXCEPT ![s.h] =
                          Append(@, [run |-> RunOf(c), candidate |-> s.candidate,
                                     baseline |-> s.baseline, compared |-> s.compared,
                                     prod |-> s.prod])]
         /\ cycle' = [cycle EXCEPT ![c].pc = "stage", ![c].mine = Len(version[s.h]) + 1]
  /\ UNCHANGED <<staging, production, audit, faults, crashes, moves>>

\* The alias @production is moved first.
FaultySetStaging(c) ==
  /\ cycle[c].pc = "stage"
  /\ production' = [production EXCEPT ![cycle[c].h] = cycle[c].mine]
  /\ cycle' = [cycle EXCEPT ![c].pc = "promote"]
  /\ UNCHANGED <<version, staging, audit, faults, crashes, moves>>

\* promote, its first call.
SetStaging(c) ==
  /\ cycle[c].pc = "stage"
  /\ staging' = [staging EXCEPT ![cycle[c].h] = cycle[c].mine]
  /\ cycle' = [cycle EXCEPT ![c].pc = "promote"]
  /\ UNCHANGED <<version, production, audit, faults, crashes, moves>>

\* promote, its second call.
SetProduction(c) ==
  /\ cycle[c].pc = "promote"
  /\ production' = [production EXCEPT ![cycle[c].h] = cycle[c].mine]
  /\ cycle' = [cycle EXCEPT ![c] = NextHorizon(c, cycle[c].mine)]
  /\ UNCHANGED <<version, staging, audit, faults, crashes, moves>>

\* The block ends and session_scope commits the run with its summaries.
Close(c) ==
  /\ cycle[c].pc = "close"
  /\ audit' = [r \in DOMAIN audit \cup {RunOf(c)} |->
                 IF r = RunOf(c) THEN cycle[c].summary ELSE audit[r]]
  /\ cycle' = [cycle EXCEPT ![c].pc = "committed"]
  /\ UNCHANGED <<version, staging, production, faults, crashes, moves>>

\* The command returns: exit 0, on which Airflow takes the try for a success.
Exit(c) ==
  /\ cycle[c].pc = "committed"
  /\ cycle' = [cycle EXCEPT ![c].pc = "done"]
  /\ UNCHANGED <<version, staging, production, audit, faults, crashes, moves>>

\* An exception, a kill or the dagrun_timeout: the run's row is rolled back unless it
\* was committed, and what the registry was told stays.
Crash(c) ==
  /\ cycle[c].pc \in Running \cup {"committed"}
  /\ crashes < MaxCrashes
  /\ crashes' = crashes + 1
  /\ cycle' = [cycle EXCEPT ![c] = [Fresh(c, "failed", cycle[c].h) EXCEPT !.summary = NoSummary]]
  /\ UNCHANGED <<version, staging, production, audit, faults, moves>>

\* "Move the alias manually" in the MLflow UI, to any registered version.
MoveAlias(h, v) ==
  /\ Meddling \/ \A c \in Cycles : cycle[c].pc \notin Running
  /\ moves < MaxMoves
  /\ v \in 1 .. Len(version[h]) /\ v # production[h]
  /\ production' = [production EXCEPT ![h] = v]
  /\ moves' = moves + 1
  /\ UNCHANGED <<cycle, version, staging, audit, faults, crashes>>

--------------------------------------------------------------------------------
Init ==
  /\ cycle = [c \in Cycles |->
                [pc |-> "idle", tries |-> 0, h |-> 1, candidate |-> NaN, baseline |-> NaN,
                 compared |-> 0, prod |-> NaN, mine |-> 0, summary |-> NoSummary]]
  /\ version = [h \in Hs |-> << >>]
  /\ staging = [h \in Hs |-> 0] /\ production = [h \in Hs |-> 0]
  /\ audit = [r \in {} |-> NoSummary]
  /\ faults = 0 /\ crashes = 0 /\ moves = 0

Next ==
  \/ \E c \in Cycles :
       \/ Start(c) \/ SkipHorizon(c) \/ \E x, y \in Maes : Train(c, x, y)
       \/ Lookup(c) \/ RegistryFault(c) \/ \E x \in Maes : Reevaluate(c, x)
       \/ Decide(c) \/ Register(c) \/ SetStaging(c) \/ SetProduction(c)
       \/ Close(c) \/ Exit(c) \/ Crash(c)
  \/ \E h \in Hs : \E v \in 1 .. Len(version[h]) : MoveAlias(h, v)

Spec == Init /\ [][Next]_vars

--------------------------------------------------------------------------------
(* What makes promotion correct.                                           *)

VersionRow == [run : Runs, candidate : Maes, baseline : Maes, compared : Nat, prod : Maes]

CycleState ==
  [pc : PCs, tries : 0 .. Tries, h : Hs, candidate : Maes, baseline : Maes, compared : Nat,
   prod : Maes, mine : Nat, summary : [Hs -> Nat]]

\* Variables stay in their types, and aliases name registered versions.
TypeOK ==
  /\ cycle \in [Cycles -> CycleState]
  /\ version \in [Hs -> Seq(VersionRow)]
  /\ staging \in [Hs -> Nat] /\ production \in [Hs -> Nat]
  /\ \A h \in Hs : staging[h] <= Len(version[h]) /\ production[h] <= Len(version[h])
  /\ DOMAIN audit \subseteq Runs /\ \A r \in DOMAIN audit : audit[r] \in [Hs -> Nat]
  /\ faults \in 0 .. MaxFaults /\ crashes \in 0 .. MaxCrashes /\ moves \in 0 .. MaxMoves

\* Version v of the model for h was compared with version p, on one split, and
\* improves on it by the threshold.
Outdoes(h, v, p) ==
  version[h][v].compared = p /\ Improves(version[h][v].candidate, version[h][v].prod)

\* As long as no registry call fails, no cycles overlap and no alias is moved by hand
\* while a cycle is at work, a cycle only replaces in @production a version that its
\* candidate beat, that very version, on the same held-out split -- whatever tries
\* crashed before, and wherever, and whatever an operator put into production between
\* the cycles (train_for_horizon, decide_promotion, promote).
BeatsPredecessor ==
  [][~ Overlap /\ ~ Meddling /\ faults = 0 /\ moves' = moves =>
       \A h \in Hs : production[h] # 0 /\ production'[h] # production[h] =>
                    Outdoes(h, production'[h], production[h])]_registry

\* Without overlapping cycles and moves by hand @production never gets ahead of
\* @staging, wherever tries crash; and what remains in @staging alone was put there by
\* a run that has left no row: it is between the two calls of promote, or else it
\* crashed there (promote, run_training_cycle, track_run).
AliasesInStep ==
  ~ Overlap /\ moves = 0 =>
    \A h \in Hs :
      /\ production[h] <= staging[h]
      /\ production[h] # staging[h] =>
           /\ version[h][staging[h]].run \notin DOMAIN audit
           /\ crashes > 0 \/ \E c \in Cycles : cycle[c].pc = "promote" /\ cycle[c].h = h

\* The versions for h that run r registered.
RegisteredBy(r, h) == {v \in 1 .. Len(version[h]) : version[h][v].run = r}

\* What the entry n of a summary says of them.
Filed(n) == {n} \ {0}

\* The row that a finished cycle leaves in ops.pipeline_runs lists, for each
\* horizon, exactly the version this run registered -- not one of an earlier,
\* failed try.
AuditComplete ==
  \A r \in DOMAIN audit, h \in Hs : RegisteredBy(r, h) = Filed(audit[r][h])

--------------------------------------------------------------------------------
(* What these rest on.                                                     *)

\* A cycle at work is in a try of its own, and holds a version that is registered.
Placed ==
  \A c \in Cycles :
    /\ cycle[c].pc \in Running => cycle[c].tries > 0
    /\ cycle[c].pc \in {"stage", "promote"} => cycle[c].mine \in 1 .. Len(version[cycle[c].h])

\* Runs that have registered a version or left a row were tries; one that has left
\* a row works no more, though its cycle may be tried once more.
RunsTried ==
  /\ \A h \in Hs : \A v \in 1 .. Len(version[h]) :
       version[h][v].run[2] <= cycle[version[h][v].run[1]].tries
  /\ \A r \in DOMAIN audit :
       /\ r[2] <= cycle[r[1]].tries
       /\ r = RunOf(r[1]) => cycle[r[1]].pc \notin Running

\* What the try at hand has registered is in its summary, but for the version it is
\* about to promote; nothing is filed in advance.
SummaryComplete ==
  \A c \in Cycles, h \in Hs : cycle[c].pc \in Running =>
    LET s == cycle[c]
    IN  /\ s.pc # "close" /\ h >= s.h => s.summary[h] = 0
        /\ RegisteredBy(RunOf(c), h)
             = IF s.pc \in {"stage", "promote"} /\ s.h = h THEN {s.mine} ELSE Filed(s.summary[h])

\* max_active_runs = 1.
Alone ==
  ~ Overlap => \A c, d \in Cycles : cycle[c].pc \in Running /\ cycle[d].pc \in Running => c = d

\* From the comparison to the promotion, what a cycle compared with stays in
\* production, and what it found stays true.
ComparedWithProduction ==
  ~ Overlap /\ ~ Meddling /\ faults = 0 =>
    \A c \in Cycles :
      LET s == cycle[c]
      IN  /\ s.pc \in {"train", "lookup", "reevaluate"} => s.compared = 0
          /\ s.pc \in {"decide", "register"} => s.compared = production[s.h]
          /\ s.pc = "register" => s.compared = 0 \/ Improves(s.candidate, s.prod)
          /\ s.pc \in {"stage", "promote"} =>
               production[s.h] = 0 \/ Outdoes(s.h, s.mine, production[s.h])

\* The version that is about to be promoted is the latest, and @staging is first.
LatestInStaging ==
  ~ Overlap =>
    \A c \in Cycles :
      LET s == cycle[c]
      IN  /\ s.pc \in {"stage", "promote"} => s.mine = Len(version[s.h])
          /\ s.pc = "promote" => staging[s.h] = s.mine

\* A cycle at work that has put a version into @staging has put it into @production
\* too, or is about to.
StagedToPromote ==
  ~ Overlap /\ moves = 0 =>
    \A c \in Cycles, h \in Hs :
      LET s == cycle[c]
      IN  s.pc \in Running /\ production[h] # staging[h]
            /\ version[h][staging[h]].run = RunOf(c) => s.pc = "promote" /\ s.h = h

IndInv ==
  /\ TypeOK /\ Placed /\ RunsTried /\ SummaryComplete /\ AuditComplete
  /\ Alone /\ ComparedWithProduction /\ LatestInStaging /\ StagedToPromote /\ AliasesInStep

--------------------------------------------------------------------------------
(* What the docs say and the code does not do.                             *)

\* "Promoted ... only if it also beats the current production model, re-evaluated
\* on the same held-out split, by at least IMPROVEMENT_THRESHOLD" (README).
PromotedOnlyIfBetter ==
  [][\A h \in Hs : production[h] # 0 /\ production'[h] # production[h] =>
                  Outdoes(h, production'[h], production[h])]_registry

\* "A candidate that can't beat the baseline is never promoted" (README).
PromotedBeatBaseline ==
  \A h \in Hs : production[h] # 0 =>
    LET v == version[h][production[h]]
    IN  v.baseline.number /\ v.candidate.mae < v.baseline.mae
================================================================================
