----------------------------- MODULE IngestionProofs -----------------------------
(***************************************************************************)
(* Ingestion, for any number of processes, locations, tries and attempts:  *)
(* the inductive invariant, what follows from it, that ingestion           *)
(* implements the abstract store, what a task costs, and that its steps    *)
(* are numbered.                                                           *)
(***************************************************************************)
EXTENDS Ingestion, FiniteSetTheorems, TLAPS

USE LocationsAssumption, LimitsAssumption

\* A step of the process of t other than a commit.
QuietStep(t) ==
  \/ \E l \in LocationIds : LaunchMapped(t, l) \/ LaunchByHand(t, l)
  \/ OpenRun(t) \/ FindLocation(t) \/ MissLocation(t)
  \/ \E a \in Outcomes : PollAgain(t, a) \/ PollAnswered(t, a) \/ PollRaised(t, a)
  \/ InsertRaw(t) \/ Upsert(t) \/ UpsertRaised(t) \/ ExitProcess(t)
  \/ Kill(t) \/ DagRunTimeout(t)

\* The three kinds of step that the proofs tell apart.
LEMMA Steps ==
  ASSUME [Next]_vars
  PROVE  \/ \E t \in Tasks : QuietStep(t)
         \/ \E t \in Tasks : Commit(t)
         \/ UNCHANGED <<task, runs, raw, core, rawSeq, kills>> /\ (active' \subseteq active \cup Locations)
BY DEF Next, Step, QuietStep, vars, ToggleActive

\* Only the process of t has moved.
OnlyTask(t) ==
  /\ task' \in [Tasks -> TaskState]
  /\ \A u \in Tasks \ {t} : task'[u] = task[u]

\* A task is queued again only while it has a try left.
LEMMA AfterFailureTask ==
  ASSUME NEW t \in Tasks
  PROVE  /\ AfterFailure(t) \in {"queued", "failed"}
         /\ AfterFailure(t) = "queued" => task[t].tries < task[t].budget
BY DEF AfterFailure

\* What a process leaves when it ends is of the type, and consistent.
LEMMA GoneState ==
  ASSUME NEW s \in TaskState, Consistent(s), s.pc # "idle",
         NEW pc \in {"queued", "success", "failed"},
         pc = "queued" => s.tries < s.budget
  PROVE  Gone(s, pc) \in TaskState /\ Consistent(Gone(s, pc))
BY DEF TaskState, Gone, PCs, InTransaction, Consistent

\* The end of the process of t touches no other process.
LEMMA EndedTask ==
  ASSUME NEW t \in Tasks, task \in [Tasks -> TaskState], Consistent(task[t]),
         task[t].pc # "idle", NEW pc \in {"queued", "success", "failed"},
         pc = "queued" => task[t].tries < task[t].budget,
         task' = Ended(t, pc)
  PROVE  /\ OnlyTask(t)
         /\ task'[t].pc = pc /\ task'[t].tries = task[t].tries
         /\ task'[t] \in TaskState /\ Consistent(task'[t])
<1>1. Gone(task[t], pc) \in TaskState /\ Consistent(Gone(task[t], pc))
  BY GoneState
<1> QED
  BY <1>1 DEF Ended, Gone, OnlyTask

\* A quiet step leaves the tables alone, and what it does to task[t] keeps the
\* type and the consistency of the process.
LEMMA QuietTask ==
  ASSUME NEW t \in Tasks, QuietStep(t), TypeOK, Consistent(task[t])
  PROVE  /\ UNCHANGED <<active, runs, raw, core>>
         /\ OnlyTask(t)
         /\ task'[t] \in TaskState /\ Consistent(task'[t])
<1>1. task \in [Tasks -> TaskState] /\ task[t] \in TaskState
  BY DEF TypeOK
<1>2. rawSeq \in Nat
  BY DEF TypeOK
<1>3. CASE \E l \in LocationIds : LaunchMapped(t, l)
  BY <1>1, <1>2, <1>3 DEF LaunchMapped, Launch, OnlyTask, TaskState, PCs, InTransaction, Consistent
<1>4. CASE \E l \in LocationIds : LaunchByHand(t, l)
  BY <1>1, <1>2, <1>4 DEF LaunchByHand, Launch, OnlyTask, TaskState, PCs, InTransaction, Consistent
<1>5. CASE OpenRun(t)
  BY <1>1, <1>2, <1>5 DEF OpenRun, OnlyTask, TaskState, PCs, InTransaction, Consistent
<1>6. CASE FindLocation(t)
  BY <1>1, <1>2, <1>6 DEF FindLocation, OnlyTask, TaskState, PCs, InTransaction, Consistent
<1>7. CASE \E a \in Outcomes : PollAgain(t, a)
  BY <1>1, <1>2, <1>7 DEF PollAgain, MayRetry, OnlyTask, TaskState, PCs, InTransaction, Consistent
<1>8. CASE \E a \in Outcomes : PollAnswered(t, a)
  BY <1>1, <1>2, <1>8 DEF PollAnswered, OnlyTask, TaskState, PCs, InTransaction, Consistent
<1>9. CASE \E a \in Outcomes : PollRaised(t, a)
  <2>1. UNCHANGED <<active, runs, raw, core>> /\ task[t].pc = "polling"
    BY <1>9 DEF PollRaised
  <2>2. Called(task[t]) \in TaskState /\ Consistent(Called(task[t]))
        /\ Called(task[t]).pc = "polling"
        /\ Called(task[t]).tries = task[t].tries /\ Called(task[t]).budget = task[t].budget
    BY <1>1, <2>1 DEF Called, TaskState, Consistent, InTransaction
  <2> DEFINE s == Gone(Called(task[t]), AfterFailure(t))
  <2>3. task' = [task EXCEPT ![t] = s]
    BY <1>9 DEF PollRaised
  <2>4. s \in TaskState /\ Consistent(s)
    BY <2>2, AfterFailureTask, GoneState
  <2> QED
    BY <1>1, <2>1, <2>3, <2>4 DEF OnlyTask
<1>10. CASE InsertRaw(t)
  <2>1. PICK st \in {"running", "failed"} : st = StatusAfter(task[t].answer)
    BY DEF StatusAfter
  <2>2. PICK id \in Nat : id = rawSeq + 1
    BY <1>2
  <2> DEFINE Landed == [task[t] EXCEPT !.pc = "landed", !.rawId = id, !.status = st]
  <2>3. UNCHANGED <<active, runs, raw, core>> /\ task' = [task EXCEPT ![t] = Landed]
    BY <1>10, <2>1, <2>2 DEF InsertRaw, NextRawId
  <2>4. Landed \in TaskState
    BY <1>1 DEF TaskState, PCs, InTransaction
  <2>5. /\ Landed.status = st /\ Landed.pc = "landed" /\ Landed.loc = task[t].loc
        /\ Landed.tries = task[t].tries /\ Landed.budget = task[t].budget
        /\ Landed.answer = task[t].answer
    BY <1>1 DEF TaskState
  <2> HIDE DEF Landed
  <2>6. task[t].pc = "answered"
    BY <1>10 DEF InsertRaw
  <2>7. Landed.status = StatusAfter(Landed.answer)
    BY <2>1, <2>5
  <2>8. Consistent(Landed)
    BY <2>5, <2>6, <2>7 DEF InTransaction, Consistent
  <2> QED
    BY <1>1, <2>3, <2>4, <2>8 DEF OnlyTask
<1>11. CASE Upsert(t)
  BY <1>1, <1>2, <1>11 DEF Upsert, StatusAfter, OnlyTask, TaskState, PCs, InTransaction, Consistent
<1>12. CASE MissLocation(t)
  BY <1>1, <1>12, EndedTask, AfterFailureTask DEF MissLocation, OnlyTask, InTransaction
<1>13. CASE UpsertRaised(t)
  BY <1>1, <1>13, EndedTask, AfterFailureTask DEF UpsertRaised, OnlyTask, InTransaction
<1>14. CASE ExitProcess(t)
  BY <1>1, <1>14, EndedTask, AfterFailureTask DEF ExitProcess, ExitStatus, OnlyTask, InTransaction
<1>15. CASE Kill(t)
  BY <1>1, <1>15, EndedTask, AfterFailureTask DEF Kill, OnlyTask, InTransaction
<1>16. CASE DagRunTimeout(t)
  BY <1>1, <1>16, EndedTask, AfterFailureTask DEF DagRunTimeout, OnlyTask, InTransaction
<1> QED
  BY <1>3, <1>4, <1>5, <1>6, <1>7, <1>8, <1>9, <1>10, <1>11, <1>12, <1>13, <1>14, <1>15, <1>16 DEF QuietStep

\* What the tables' invariants need to know of a quiet step: where ids come
\* from, when a transaction begins, and how a task gets to be a success.
LEMMA QuietMoves ==
  ASSUME NEW t \in Tasks, QuietStep(t), TypeOK, Consistent(task[t])
  PROVE  /\ rawSeq' \in {rawSeq, rawSeq + 1}
         /\ Pending(t)' => \/ Pending(t) /\ task'[t].rawId = task[t].rawId
                           \/ rawSeq' = rawSeq + 1 /\ task'[t].rawId = rawSeq + 1
         /\ task'[t].tries \in {task[t].tries, task[t].tries + 1}
         /\ task'[t].pc \in InTransaction =>
              \/ task[t].pc \in InTransaction /\ task'[t].tries = task[t].tries
              \/ task'[t].tries = task[t].tries + 1
         /\ task'[t].pc = "success" =>
              /\ task[t].pc = "committed" /\ task[t].answer \in Reading
              /\ task'[t].tries = task[t].tries
         /\ task'[t].pc # "committed"
         /\ kills' \in 0 .. MaxKills
         /\ kills' = 0 => kills = 0
         /\ task[t].pc # "success"
         /\ task[t].pc = "committed" /\ kills' = 0 =>
              task'[t].pc = "success" \/ task[t].answer \notin Reading
<1>1. task \in [Tasks -> TaskState] /\ task[t] \in TaskState
  BY DEF TypeOK
<1>2. rawSeq \in Nat /\ kills \in 0 .. MaxKills
  BY DEF TypeOK
<1>3. CASE \E l \in LocationIds : LaunchMapped(t, l)
  BY <1>1, <1>2, <1>3 DEF LaunchMapped, Launch, Pending, TaskState, InTransaction
<1>4. CASE \E l \in LocationIds : LaunchByHand(t, l)
  BY <1>1, <1>2, <1>4 DEF LaunchByHand, Launch, Pending, TaskState, InTransaction
<1>5. CASE OpenRun(t)
  BY <1>1, <1>2, <1>5 DEF OpenRun, Pending, TaskState, InTransaction
<1>6. CASE FindLocation(t)
  BY <1>1, <1>2, <1>6 DEF FindLocation, Pending, TaskState, InTransaction
<1>7. CASE \E a \in Outcomes : PollAgain(t, a)
  BY <1>1, <1>2, <1>7 DEF PollAgain, Pending, TaskState, InTransaction
<1>8. CASE \E a \in Outcomes : PollAnswered(t, a)
  BY <1>1, <1>2, <1>8 DEF PollAnswered, Pending, TaskState, InTransaction
<1>9. CASE \E a \in Outcomes : PollRaised(t, a)
  BY <1>1, <1>2, AfterFailureTask, <1>9 DEF PollRaised, Gone, Called, Pending, TaskState, InTransaction
<1>10. CASE InsertRaw(t)
  BY <1>1, <1>2, <1>10 DEF InsertRaw, NextRawId, Pending, TaskState, InTransaction
<1>11. CASE Upsert(t)
  BY <1>1, <1>2, <1>11 DEF Upsert, Pending, TaskState, InTransaction
<1>12. CASE MissLocation(t)
  <2>1. /\ task[t].pc = "opened" /\ UNCHANGED kills
        /\ UNCHANGED rawSeq /\ task' = Ended(t, AfterFailure(t))
    BY <1>12 DEF MissLocation, InTransaction
  <2>2. /\ task'[t].pc = AfterFailure(t) /\ task'[t].tries = task[t].tries
        /\ AfterFailure(t) \in {"queued", "success", "failed"}
    BY <1>1, <2>1, EndedTask, AfterFailureTask DEF ExitStatus
  <2> QED
    BY <1>1, <1>2, <2>1, <2>2, AfterFailureTask DEF ExitStatus, Pending, InTransaction, TaskState
<1>13. CASE UpsertRaised(t)
  <2>1. /\ task[t].pc = "landed" /\ UNCHANGED kills
        /\ UNCHANGED rawSeq /\ task' = Ended(t, AfterFailure(t))
    BY <1>13 DEF UpsertRaised, InTransaction
  <2>2. /\ task'[t].pc = AfterFailure(t) /\ task'[t].tries = task[t].tries
        /\ AfterFailure(t) \in {"queued", "success", "failed"}
    BY <1>1, <2>1, EndedTask, AfterFailureTask DEF ExitStatus
  <2> QED
    BY <1>1, <1>2, <2>1, <2>2, AfterFailureTask DEF ExitStatus, Pending, InTransaction, TaskState
<1>14. CASE ExitProcess(t)
  <2>1. /\ task[t].pc = "committed" /\ UNCHANGED kills
        /\ UNCHANGED rawSeq /\ task' = Ended(t, ExitStatus(t))
    BY <1>14 DEF ExitProcess, InTransaction
  <2>2. /\ task'[t].pc = ExitStatus(t) /\ task'[t].tries = task[t].tries
        /\ ExitStatus(t) \in {"queued", "success", "failed"}
    BY <1>1, <2>1, EndedTask, AfterFailureTask DEF ExitStatus
  <2> QED
    BY <1>1, <1>2, <2>1, <2>2, AfterFailureTask DEF ExitStatus, Pending, InTransaction, TaskState
<1>15. CASE Kill(t)
  <2>1. /\ task[t].pc \notin {"idle", "success"} /\ kills < MaxKills /\ kills' = kills + 1
        /\ UNCHANGED rawSeq /\ task' = Ended(t, AfterFailure(t))
    BY <1>15 DEF Kill, InTransaction
  <2>2. /\ task'[t].pc = AfterFailure(t) /\ task'[t].tries = task[t].tries
        /\ AfterFailure(t) \in {"queued", "success", "failed"}
    BY <1>1, <2>1, EndedTask, AfterFailureTask DEF ExitStatus
  <2> QED
    BY <1>1, <1>2, <2>1, <2>2, AfterFailureTask DEF ExitStatus, Pending, InTransaction, TaskState
<1>16. CASE DagRunTimeout(t)
  <2>1. /\ task[t].pc \notin {"idle", "success"} /\ kills < MaxKills /\ kills' = kills + 1
        /\ UNCHANGED rawSeq /\ task' = Ended(t, "failed")
    BY <1>16 DEF DagRunTimeout, InTransaction
  <2>2. /\ task'[t].pc = "failed" /\ task'[t].tries = task[t].tries
        /\ "failed" \in {"queued", "success", "failed"}
    BY <1>1, <2>1, EndedTask, AfterFailureTask DEF ExitStatus
  <2> QED
    BY <1>1, <1>2, <2>1, <2>2, AfterFailureTask DEF ExitStatus, Pending, InTransaction, TaskState
<1> QED
  BY <1>3, <1>4, <1>5, <1>6, <1>7, <1>8, <1>9, <1>10, <1>11, <1>12, <1>13, <1>14, <1>15, <1>16 DEF QuietStep

\* The inductive invariant, on quiet steps.
LEMMA QuietKeeps ==
  ASSUME NEW t \in Tasks, QuietStep(t), IndInv
  PROVE  IndInv'
<1>1. TypeOK /\ Consistent(task[t])
  BY DEF IndInv
<1>2. /\ UNCHANGED <<active, runs, raw, core>> /\ OnlyTask(t)
      /\ task'[t] \in TaskState /\ Consistent(task'[t])
  BY <1>1, QuietTask
<1>3. task \in [Tasks -> TaskState] /\ task' \in [Tasks -> TaskState] /\ rawSeq \in Nat
  BY <1>1, <1>2 DEF OnlyTask, TypeOK
<1>4. \A u \in Tasks \ {t} : task'[u] = task[u]
  BY <1>2 DEF OnlyTask
<1>5. TypeOK'
  BY <1>1, <1>2, <1>3, QuietMoves DEF TypeOK
<1>6. \A u \in Tasks : Consistent(task'[u])
  BY <1>2, <1>4 DEF IndInv
<1>7. FreshIds'
  <2>1. rawSeq' \in {rawSeq, rawSeq + 1}
    BY <1>1, QuietMoves
  <2>2. \A u \in Tasks : Pending(u)' =>
          \/ Pending(u) /\ task'[u].rawId = task[u].rawId
          \/ u = t /\ rawSeq' = rawSeq + 1 /\ task'[u].rawId = rawSeq + 1
    BY <1>1, <1>4, QuietMoves DEF Pending
  <2>3. \A u \in Tasks : task[u].rawId \in Nat
    BY <1>3 DEF TaskState
  <2>4. FreshIds /\ DOMAIN raw \subseteq Nat
    BY DEF IndInv, TypeOK
  <2> QED
    BY <1>2, <1>3, <2>1, <2>2, <2>3, <2>4 DEF FreshIds
<1>8. FreshRuns'
  <2>1. \A u \in Tasks : task[u].tries \in Nat /\ task'[u].tries \in {task[u].tries, task[u].tries + 1}
    BY <1>1, <1>3, <1>4, QuietMoves DEF TaskState
  <2>2. \A u \in Tasks : task'[u].pc \in InTransaction =>
          \/ task[u].pc \in InTransaction /\ task'[u].tries = task[u].tries
          \/ task'[u].tries = task[u].tries + 1
    BY <1>1, <1>4, QuietMoves
  <2>3. FreshRuns /\ DOMAIN runs \subseteq RunIds
    BY DEF IndInv, TypeOK
  <2>4. \A u \in Tasks : task'[u].pc \in InTransaction => <<u, task'[u].tries>> \notin DOMAIN runs
    BY <2>1, <2>2, <2>3 DEF FreshRuns, RunOf, RunIds
  <2> QED
    BY <1>2, <2>1, <2>3, <2>4 DEF FreshRuns, RunOf
<1>9. Reported'
  <2>1. Reported
    BY DEF IndInv
  <2>2. ASSUME NEW u \in Tasks, u # t PROVE task'[u] = task[u]
    BY <1>4, <2>2
  <2>3. kills' = 0 => kills = 0
    BY <1>1, QuietMoves
  <2>4. /\ task'[t].pc # "committed"
        /\ task'[t].pc = "success" =>
              /\ task[t].pc = "committed" /\ task[t].answer \in Reading
              /\ task'[t].tries = task[t].tries
        /\ task[t].pc # "success"
        /\ task[t].pc = "committed" /\ kills' = 0 =>
              task'[t].pc = "success" \/ task[t].answer \notin Reading
    BY <1>1, QuietMoves
  <2>5. SUFFICES ASSUME NEW u \in Tasks
                 PROVE  /\ task'[u].pc = "committed" \/ task'[u].pc = "success" =>
                            /\ <<u, task'[u].tries>> \in DOMAIN runs
                            /\ task'[u].pc = "success" \/ task'[u].answer \in Reading =>
                                 runs[<<u, task'[u].tries>>].status = "success"
                            /\ task'[u].pc = "committed" /\ task'[u].answer \notin Reading =>
                                 runs[<<u, task'[u].tries>>].status = "failed"
                        /\ kills' = 0 =>
                             \A n \in 1 .. Retries + 1 :
                               <<u, n>> \in DOMAIN runs /\ runs[<<u, n>>].status = "success" =>
                                 \/ task'[u].pc = "success"
                                 \/ task'[u].pc = "committed" /\ n = task'[u].tries
    BY <1>2 DEF Reported, RunOf
  <2>6. /\ task[u].pc = "committed" \/ task[u].pc = "success" =>
            /\ <<u, task[u].tries>> \in DOMAIN runs
            /\ task[u].pc = "success" \/ task[u].answer \in Reading =>
                 runs[<<u, task[u].tries>>].status = "success"
            /\ task[u].pc = "committed" /\ task[u].answer \notin Reading =>
                 runs[<<u, task[u].tries>>].status = "failed"
        /\ kills = 0 =>
             \A n \in 1 .. Retries + 1 :
               <<u, n>> \in DOMAIN runs /\ runs[<<u, n>>].status = "success" =>
                 \/ task[u].pc = "success"
                 \/ task[u].pc = "committed" /\ n = task[u].tries
    BY <2>1 DEF Reported, RunOf
  <2>7. CASE u # t
    BY <2>2, <2>3, <2>6, <2>7
  <2>8. CASE u = t /\ task[t].pc = "committed"
    <3>1. /\ <<t, task[t].tries>> \in DOMAIN runs
          /\ task[t].answer \in Reading => runs[<<t, task[t].tries>>].status = "success"
          /\ task[t].answer \notin Reading => runs[<<t, task[t].tries>>].status = "failed"
      BY <2>6, <2>8
    <3>2. kills' = 0 /\ task[t].answer \notin Reading =>
            \A n \in 1 .. Retries + 1 :
              <<t, n>> \in DOMAIN runs => runs[<<t, n>>].status # "success"
      BY <2>3, <2>6, <2>8, <3>1
    <3> QED
      BY <2>4, <2>8, <3>1, <3>2
  <2>9. CASE u = t /\ task[t].pc # "committed"
    BY <2>3, <2>4, <2>6, <2>9
  <2> QED
    BY <2>7, <2>8, <2>9
<1>10. AuditTrail' /\ ObservationProvenance' /\ NoLostObservation'
  BY <1>2 DEF IndInv, AuditTrail, ObservationProvenance, NoLostObservation
<1> QED
  BY <1>5, <1>6, <1>7, <1>8, <1>9, <1>10 DEF IndInv

\* What a commit finds, by the inductive invariant, and what it does: it adds
\* one run and one raw row under keys that are free, and for a reading it puts
\* the observation that was mapped from that raw row.
LEMMA CommitStep ==
  ASSUME NEW t \in Tasks, Commit(t), IndInv
  PROVE  /\ task \in [Tasks -> TaskState] /\ Consistent(task[t]) /\ Pending(t)
         /\ RunOf(t) \in RunIds \ DOMAIN runs
         /\ task[t].loc \in Locations
         /\ task[t].rawId \in Nat \ DOMAIN raw /\ task[t].rawId <= rawSeq
         /\ task[t].answer \in Reading \cup Rejection
         /\ task[t].pc = "written" <=> task[t].answer \in Reading
         /\ runs' = Put(runs, RunOf(t), RunRowOf(t))
         /\ RunRowOf(t) = IF task[t].answer \in Reading
                            THEN [status |-> "success", rows |-> 1]
                            ELSE [status |-> "failed", rows |-> 0]
         /\ raw' = Put(raw, task[t].rawId, RawRowOf(t))
         /\ core' = IF task[t].pc = "written" THEN Put(core, KeyOf(t), CoreRowOf(t)) ELSE core
         /\ task' = [task EXCEPT ![t].pc = "committed"]
         /\ UNCHANGED <<active, rawSeq, kills>>
<1>1. /\ task \in [Tasks -> TaskState] /\ task[t] \in TaskState /\ Consistent(task[t])
      /\ FreshIds /\ FreshRuns
  BY DEF IndInv, TypeOK
<1>2. Pending(t) /\ task[t].pc \in InTransaction
  BY DEF Commit, Ready, Pending, InTransaction
<1>3. RunOf(t) \in RunIds \ DOMAIN runs
  BY <1>1, <1>2 DEF FreshRuns, RunOf, RunIds, TaskState, Consistent
<1>4. task[t].rawId \in Nat \ DOMAIN raw /\ task[t].rawId <= rawSeq /\ task[t].loc \in Locations
  BY <1>1, <1>2 DEF FreshIds, TaskState, Consistent, Pending
<1>5. Reading \cap Rejection = {}
  BY DEF Reading, Rejection
<1>6. /\ task[t].answer \in Reading \cup Rejection
      /\ task[t].pc = "written" <=> task[t].answer \in Reading
  BY <1>1, <1>5 DEF Commit, Ready, Consistent
<1>7. task[t].status = StatusAfter(task[t].answer)
  BY <1>1, <1>2 DEF Consistent, Pending
<1>8. RunRowOf(t) = IF task[t].answer \in Reading
                      THEN [status |-> "success", rows |-> 1]
                      ELSE [status |-> "failed", rows |-> 0]
  BY <1>5, <1>6, <1>7 DEF RunRowOf, ClosedStatus, StatusAfter
<1> QED
  BY <1>1, <1>2, <1>3, <1>4, <1>6, <1>8 DEF Commit

\* The inductive invariant, on a commit.
LEMMA CommitKeeps ==
  ASSUME NEW t \in Tasks, Commit(t), IndInv
  PROVE  IndInv'
<1> DEFINE s == task[t]
           a == task[t].answer
           i == task[t].rawId
           r == RunOf(t)
           k == KeyOf(t)
<1>1. /\ task \in [Tasks -> TaskState] /\ s \in TaskState /\ Consistent(s) /\ Pending(t)
      /\ r \in RunIds \ DOMAIN runs /\ s.loc \in Locations
      /\ i \in Nat \ DOMAIN raw /\ i <= rawSeq
      /\ a \in Reading \cup Rejection
      /\ s.pc = "written" <=> a \in Reading
      /\ task' = [task EXCEPT ![t].pc = "committed"]
      /\ UNCHANGED <<active, rawSeq, kills>>
  BY CommitStep
<1>2. /\ DOMAIN runs' = DOMAIN runs \cup {r}
      /\ runs'[r] = IF a \in Reading THEN [status |-> "success", rows |-> 1]
                                     ELSE [status |-> "failed", rows |-> 0]
      /\ \A x \in DOMAIN runs : runs'[x] = runs[x]
  BY CommitStep DEF Put
<1>3. /\ DOMAIN raw' = DOMAIN raw \cup {i}
      /\ raw'[i] = [location |-> s.loc, run |-> r, payload |-> a]
      /\ \A x \in DOMAIN raw : raw'[x] = raw[x]
  BY CommitStep DEF Put, RawRowOf
<1>4. a \in Reading => /\ DOMAIN core' = DOMAIN core \cup {k}
                       /\ core'[k] = [value |-> a.value, run |-> r, raw |-> i]
                       /\ \A x \in DOMAIN core \ {k} : core'[x] = core[x]
  <2>1. a \in Reading => core' = Put(core, k, CoreRowOf(t))
    BY CommitStep
  <2>2. CoreRowOf(t) = [value |-> a.value, run |-> r, raw |-> i]
    BY DEF CoreRowOf
  <2> HIDE DEF s, a, i, r, k
  <2> QED
    BY <2>1, <2>2 DEF Put
<1>5. a \notin Reading => core' = core
  BY CommitStep
<1>6. a \in Reading => /\ a.time \in Times /\ a.value \in Values
                       /\ a = [kind |-> "reading", time |-> a.time, value |-> a.value]
                       /\ k = <<s.loc, a.time>> /\ k \in Keys
  BY <1>1 DEF Reading, KeyOf, Keys
<1>7. /\ TypeOK /\ FreshIds /\ FreshRuns /\ Reported /\ AuditTrail
      /\ ObservationProvenance /\ NoLostObservation
      /\ \A u \in Tasks : Consistent(task[u])
  BY DEF IndInv
<1>8. /\ task' \in [Tasks -> TaskState]
      /\ \A u \in Tasks \ {t} : task'[u] = task[u]
      /\ task'[t] = [s EXCEPT !.pc = "committed"]
  BY <1>1 DEF TaskState, PCs
<1>9. /\ task'[t].pc = "committed" /\ task'[t].tries = s.tries /\ task'[t].answer = a
      /\ Consistent(task'[t])
  BY <1>1, <1>8 DEF TaskState, Consistent, InTransaction, Pending
<1> HIDE DEF s, a, i, r, k
<1>10. TypeOK'
  <2>1. \A x \in DOMAIN runs' : runs'[x] \in RunRow
    BY <1>2, <1>7 DEF TypeOK, RunRow
  <2>2. \A x \in DOMAIN raw' : raw'[x] \in RawRow
    BY <1>1, <1>3, <1>7 DEF TypeOK, RawRow
  <2>3. \A x \in DOMAIN core' : core'[x] \in CoreRow
    BY <1>1, <1>4, <1>5, <1>6, <1>7 DEF TypeOK, CoreRow
  <2> QED
    BY <1>1, <1>2, <1>3, <1>4, <1>5, <1>6, <1>7, <1>8, <2>1, <2>2, <2>3 DEF TypeOK
<1>11. \A u \in Tasks : Consistent(task'[u])
  BY <1>7, <1>8, <1>9
<1>12. FreshIds'
  <2>1. ~ Pending(t)' /\ Pending(t) /\ task[t].rawId = i
    BY <1>1, <1>9 DEF Pending, i
  <2> QED
    BY <1>1, <1>3, <1>7, <1>8, <2>1 DEF FreshIds, Pending
<1>13. FreshRuns'
  <2>1. task[t].pc \in InTransaction /\ task'[t].pc \notin InTransaction
    BY <1>1, <1>9 DEF Pending, InTransaction
  <2>2. r = <<t, task[t].tries>> /\ task'[t].tries = task[t].tries /\ task[t].tries \in Nat
    BY <1>1, <1>9 DEF r, s, RunOf, TaskState
  <2> QED
    <3>1. ASSUME NEW u \in Tasks, NEW n \in 1 .. Retries + 1, <<u, n>> \in DOMAIN runs'
          PROVE  n <= task'[u].tries
      <4>1. CASE <<u, n>> = r
        BY <2>2, <4>1
      <4>2. CASE <<u, n>> # r
        <5>1. n <= task[u].tries
          BY <1>2, <1>7, <3>1, <4>2 DEF FreshRuns
        <5> QED
          BY <1>8, <2>2, <5>1
      <4> QED
        BY <4>1, <4>2
    <3>2. ASSUME NEW u \in Tasks, task'[u].pc \in InTransaction
          PROVE  <<u, task'[u].tries>> \notin DOMAIN runs'
      <4>1. u # t /\ task'[u] = task[u]
        BY <1>8, <2>1, <3>2
      <4>2. <<u, task[u].tries>> \notin DOMAIN runs
        BY <1>7, <3>2, <4>1 DEF FreshRuns, RunOf
      <4> QED
        BY <1>2, <2>2, <4>1, <4>2
    <3> QED
      BY <3>1, <3>2 DEF FreshRuns, RunOf
<1>14. Reported'
  <2>1. r = <<t, task[t].tries>> /\ task'[t].tries = task[t].tries
        /\ RunOf(t)' = r
    BY <1>9 DEF r, s, RunOf
  <2>2. task[t].pc # "success" /\ task[t].pc # "committed"
    BY <1>1 DEF Pending
  <2>3. ASSUME NEW u \in Tasks \ {t} PROVE RunOf(u)' = RunOf(u) /\ RunOf(u) # r
    BY <1>8, <2>1 DEF RunOf
  <2> QED
    <3>1. ASSUME NEW u \in Tasks \ {t}
          PROVE  /\ task'[u].pc = "committed" \/ task'[u].pc = "success" =>
                     /\ RunOf(u)' \in DOMAIN runs'
                     /\ task'[u].pc = "success" \/ task'[u].answer \in Reading =>
                          runs'[RunOf(u)'].status = "success"
                     /\ task'[u].pc = "committed" /\ task'[u].answer \notin Reading =>
                          runs'[RunOf(u)'].status = "failed"
      BY <1>2, <1>7, <1>8, <2>3, <3>1 DEF Reported
    <3>2. ASSUME NEW u \in Tasks, kills = 0, NEW n \in 1 .. Retries + 1,
                 <<u, n>> \in DOMAIN runs', runs'[<<u, n>>].status = "success"
          PROVE  \/ task'[u].pc = "success"
                 \/ task'[u].pc = "committed" /\ n = task'[u].tries
      <4>1. CASE <<u, n>> = r
        BY <1>9, <2>1, <4>1
      <4>2. CASE <<u, n>> # r
        <5>1. <<u, n>> \in DOMAIN runs /\ runs[<<u, n>>].status = "success"
          BY <1>2, <3>2, <4>2
        <5>2. \/ task[u].pc = "success"
              \/ task[u].pc = "committed" /\ n = task[u].tries
          BY <1>7, <3>2, <5>1 DEF Reported
        <5> QED
          BY <1>8, <2>2, <5>2
      <4> QED
        BY <4>1, <4>2
    <3>3. /\ RunOf(t)' \in DOMAIN runs'
          /\ task'[t].answer \in Reading => runs'[RunOf(t)'].status = "success"
          /\ task'[t].answer \notin Reading => runs'[RunOf(t)'].status = "failed"
      BY <1>2, <1>9, <2>1
    <3> QED
      BY <1>1, <1>9, <3>1, <3>2, <3>3 DEF Reported
<1>15. AuditTrail'
  <2>1. \A x \in DOMAIN raw : raw[x].run \in DOMAIN runs
    BY <1>7 DEF AuditTrail
  <2>2. raw'[i].run = r /\ raw'[i].payload = a
    BY <1>3
  <2> QED
    <3>1. \A x \in DOMAIN runs' : \E y \in DOMAIN raw' : raw'[y].run = x
      BY <1>2, <1>3, <1>7, <2>2 DEF AuditTrail
    <3>2. \A x, y \in DOMAIN raw' : raw'[x].run = raw'[y].run => x = y
      BY <1>1, <1>3, <1>7, <2>1, <2>2 DEF AuditTrail
    <3>3. \A x \in DOMAIN raw' :
            /\ raw'[x].run \in DOMAIN runs'
            /\ runs'[raw'[x].run] = IF raw'[x].payload \in Reading
                                      THEN [status |-> "success", rows |-> 1]
                                      ELSE [status |-> "failed", rows |-> 0]
      <4>1. ASSUME NEW x \in DOMAIN raw
            PROVE  /\ raw'[x].run \in DOMAIN runs'
                   /\ runs'[raw'[x].run] = IF raw'[x].payload \in Reading
                                             THEN [status |-> "success", rows |-> 1]
                                             ELSE [status |-> "failed", rows |-> 0]
        BY <1>2, <1>3, <1>7, <2>1 DEF AuditTrail
      <4> QED
        BY <1>2, <1>3, <2>2, <4>1
    <3> QED
      BY <3>1, <3>2, <3>3 DEF AuditTrail
<1>16. ObservationProvenance'
  BY <1>1, <1>3, <1>4, <1>5, <1>6, <1>7 DEF ObservationProvenance
<1>17. NoLostObservation'
  BY <1>1, <1>3, <1>4, <1>5, <1>6, <1>7 DEF NoLostObservation
<1> QED
  BY <1>10, <1>11, <1>12, <1>13, <1>14, <1>15, <1>16, <1>17 DEF IndInv

\* The inductive invariant, on the steps of operators and on stuttering.
LEMMA ToggleKeeps ==
  ASSUME UNCHANGED <<task, runs, raw, core, rawSeq, kills>>,
         active' \subseteq active \cup Locations, IndInv
  PROVE  IndInv'
<1>1. TypeOK' /\ FreshIds' /\ FreshRuns' /\ Reported'
  BY DEF IndInv, TypeOK, FreshIds, Pending, FreshRuns, RunOf, Reported
<1>2. AuditTrail' /\ ObservationProvenance' /\ NoLostObservation'
  BY DEF IndInv, AuditTrail, ObservationProvenance, NoLostObservation
<1> QED
  BY <1>1, <1>2 DEF IndInv

\* The inductive invariant, at the start: the tables are empty, all tasks idle.
LEMMA InitInv == Init => IndInv
<1> SUFFICES ASSUME Init PROVE IndInv
  OBVIOUS
<1>1. DOMAIN runs = {} /\ DOMAIN raw = {} /\ DOMAIN core = {}
  BY DEF Init, NoRows
<1>2. Idle \in TaskState /\ Consistent(Idle)
  BY DEF Idle, TaskState, PCs, InTransaction, Consistent
<1>3. \A t \in Tasks : task[t] = Idle /\ task[t].pc = "idle"
  BY DEF Init, Idle
<1>4. TypeOK
  BY <1>1, <1>2 DEF Init, TypeOK
<1>5. FreshIds /\ FreshRuns /\ Reported
  BY <1>1, <1>3 DEF FreshIds, Pending, FreshRuns, InTransaction, Reported
<1>6. AuditTrail /\ ObservationProvenance /\ NoLostObservation
  BY <1>1 DEF AuditTrail, ObservationProvenance, NoLostObservation
<1> QED
  BY <1>2, <1>3, <1>4, <1>5, <1>6 DEF IndInv

\* Every reachable state satisfies the inductive invariant.
THEOREM Invariance == Spec => []IndInv
<1>1. IndInv /\ [Next]_vars => IndInv'
  BY Steps, QuietKeeps, CommitKeeps, ToggleKeeps
<1> QED
  BY <1>1, InitInv, PTL DEF Spec

\* Type correctness: tables hold typed rows under typed keys, and no task takes
\* more tries than Airflow grants it.
THEOREM TypeCorrect == Spec => []TypeOK
BY Invariance, PTL DEF IndInv

\* Each observation row was mapped from the raw row it names, which the run it
\* names landed for its location.
THEOREM Provenance == Spec => []ObservationProvenance
BY Invariance, PTL DEF IndInv

\* Visible runs and visible raw rows correspond one to one, and agree on
\* whether the execution was a success.
THEOREM Audit == Spec => []AuditTrail
BY Invariance, PTL DEF IndInv

\* Every raw reading is served as an observation.
THEOREM NothingLost == Spec => []NoLostObservation
BY Invariance, PTL DEF IndInv

\* The exit code of a task tells what its runs say.
THEOREM HonestExit == Spec => []ExitCodeHonest
<1>1. IndInv => ExitCodeHonest
  <2> SUFFICES ASSUME IndInv PROVE ExitCodeHonest
    OBVIOUS
  <2>1. Reported /\ DOMAIN runs \subseteq RunIds /\ \A r \in DOMAIN runs : runs[r] \in RunRow
    BY DEF IndInv, TypeOK
  <2>2. ASSUME NEW t \in Tasks, task[t].pc = "success"
        PROVE  RunOf(t) \in DOMAIN runs /\ runs[RunOf(t)].status = "success"
    BY <2>1, <2>2 DEF Reported
  <2>3. ASSUME NEW t \in Tasks, task[t].pc = "failed", kills = 0,
               NEW r \in DOMAIN runs, r[1] = t
        PROVE  runs[r].status = "failed"
    <3>1. PICK n \in 1 .. Retries + 1 : r = <<t, n>>
      BY <2>1, <2>3 DEF RunIds
    <3>2. runs[r].status \in {"success", "failed"}
      BY <2>1 DEF RunRow
    <3> QED
      BY <2>1, <2>3, <3>1, <3>2 DEF Reported
  <2> QED
    BY <2>2, <2>3 DEF ExitCodeHonest
<1> QED
  BY <1>1, Invariance, PTL

\* Nothing committed to the audit trail or the raw table changes or goes.
THEOREM NothingRewritten == Spec => AppendOnly
<1> DEFINE Kept ==
      /\ \A r \in DOMAIN runs : r \in DOMAIN runs' /\ runs'[r] = runs[r]
      /\ \A i \in DOMAIN raw : i \in DOMAIN raw' /\ raw'[i] = raw[i]
      /\ core' # core => raw' # raw
<1>1. ASSUME IndInv, [Next]_vars PROVE [Kept]_db
  <2>1. CASE \E t \in Tasks : QuietStep(t)
    BY <1>1, <2>1, QuietTask DEF IndInv, db
  <2>2. CASE \E t \in Tasks : Commit(t)
    <3>1. PICK t \in Tasks : Commit(t)
      BY <2>2
    <3>2. /\ RunOf(t) \notin DOMAIN runs /\ task[t].rawId \notin DOMAIN raw
          /\ runs' = Put(runs, RunOf(t), RunRowOf(t))
          /\ raw' = Put(raw, task[t].rawId, RawRowOf(t))
      BY <1>1, <3>1, CommitStep
    <3>3. \A r \in DOMAIN runs : r \in DOMAIN runs' /\ runs'[r] = runs[r]
      BY <3>2 DEF Put
    <3>4. /\ \A i \in DOMAIN raw : i \in DOMAIN raw' /\ raw'[i] = raw[i]
          /\ raw' # raw
      BY <3>2 DEF Put
    <3> QED
      BY <3>3, <3>4
  <2>3. CASE UNCHANGED <<task, runs, raw, core, rawSeq, kills>>
    BY <2>3 DEF db
  <2> QED
    BY <1>1, <2>1, <2>2, <2>3, Steps
<1>2. IndInv /\ [Next]_vars => [Kept]_db
  BY <1>1
<1> QED
  BY <1>2, Invariance, PTL DEF Spec, AppendOnly

\* A step that leaves the tables alone is a stutter of the abstract store.
LEMMA SameStore ==
  ASSUME UNCHANGED <<runs, raw, core>>
  PROVE  UNCHANGED <<Ledger, View>>
BY DEF Ledger, View

\* A commit records one execution in the abstract store.
LEMMA CommitRecords ==
  ASSUME NEW t \in Tasks, Commit(t), IndInv
  PROVE  Store!StoreNext
<1> DEFINE a == task[t].answer
           l == task[t].loc
           r == RunOf(t)
           i == task[t].rawId
           k == KeyOf(t)
           entry == [run |-> r, location |-> l, answer |-> a,
                     status |-> IF a \in Reading THEN "success" ELSE "failed"]
<1>1. /\ r \in RunIds \ DOMAIN runs /\ l \in Locations
      /\ i \notin DOMAIN raw /\ a \in Reading \cup Rejection
  BY CommitStep
<1>2. /\ DOMAIN runs' = DOMAIN runs \cup {r}
      /\ runs'[r].status = IF a \in Reading THEN "success" ELSE "failed"
      /\ \A x \in DOMAIN runs : runs'[x] = runs[x]
  <2>1. /\ runs' = Put(runs, r, RunRowOf(t))
        /\ RunRowOf(t) = IF a \in Reading THEN [status |-> "success", rows |-> 1]
                                          ELSE [status |-> "failed", rows |-> 0]
    BY CommitStep
  <2>2. RunRowOf(t).status = IF a \in Reading THEN "success" ELSE "failed"
    BY <2>1
  <2> HIDE DEF r, a
  <2> QED
    BY <1>1, <2>1, <2>2 DEF Put
<1>3. /\ DOMAIN raw' = DOMAIN raw \cup {i}
      /\ raw'[i] = [location |-> l, run |-> r, payload |-> a]
      /\ \A x \in DOMAIN raw : raw'[x] = raw[x]
  BY CommitStep DEF Put, RawRowOf
<1>4. \A x \in DOMAIN raw : raw[x].run \in DOMAIN runs
  BY DEF IndInv, AuditTrail
<1>5. a.kind = "reading" <=> a \in Reading
  BY <1>1 DEF Reading, Rejection
<1>6. Ledger' = Ledger \cup {entry}
  <2> HIDE DEF r, i, a, l
  <2> QED
    BY <1>1, <1>2, <1>3, <1>4 DEF Ledger
<1>7. \A e \in Ledger : e.run # r
  BY <1>1, <1>4 DEF Ledger
<1>8. CASE a \in Reading
  <2>1. core' = Put(core, k, CoreRowOf(t)) /\ k = <<l, a.time>>
    BY <1>8, CommitStep DEF KeyOf
  <2>2. CoreRowOf(t) = [value |-> a.value, run |-> r, raw |-> i]
    BY DEF CoreRowOf
  <2>3. DOMAIN View = DOMAIN core /\ \A x \in DOMAIN core : View[x] = [value |-> core[x].value, run |-> core[x].run]
    BY DEF View
  <2>4. View' = [x \in DOMAIN View \cup {<<l, a.time>>} |->
                  IF x = <<l, a.time>> THEN [value |-> a.value, run |-> r] ELSE View[x]]
    <3> HIDE DEF a, l, r, i, k
    <3>1. /\ DOMAIN core' = DOMAIN core \cup {k}
          /\ core'[k] = [value |-> a.value, run |-> r, raw |-> i]
          /\ \A x \in DOMAIN core \ {k} : core'[x] = core[x]
      BY <2>1, <2>2 DEF Put
    <3> QED
      BY <2>1, <2>3, <3>1 DEF View
  <2>5. Store!RecordReading(r, l, a)
    BY <1>5, <1>6, <1>8, <2>4 DEF Store!RecordReading
  <2> QED
    BY <1>1, <1>7, <2>5 DEF Store!StoreNext
<1>9. CASE a \notin Reading
  <2>1. UNCHANGED View
    BY <1>9, CommitStep DEF View
  <2>2. Store!RecordRejection(r, l, a)
    BY <1>5, <1>6, <1>9, <2>1 DEF Store!RecordRejection
  <2> QED
    BY <1>1, <1>7, <2>2 DEF Store!StoreNext
<1> QED
  BY <1>8, <1>9

\* Ingestion implements the abstract store: the initial tables map to the empty
\* store, a commit to the recording of one execution, all else to a stutter.
THEOREM Implementation == Spec => ImplementsStore
<1>1. Init => Store!StoreInit
  <2> SUFFICES ASSUME Init PROVE Store!StoreInit
    OBVIOUS
  <2>1. DOMAIN raw = {} /\ DOMAIN core = {}
    BY DEF Init, NoRows
  <2>2. Ledger = {}
    BY <2>1 DEF Ledger
  <2>3. View = [k \in {} |-> k]
    BY <2>1 DEF View
  <2> QED
    BY <2>2, <2>3 DEF Store!StoreInit
<1>2. IndInv /\ [Next]_vars => [Store!StoreNext]_(Store!storeVars)
  <2> SUFFICES ASSUME IndInv, [Next]_vars PROVE [Store!StoreNext]_(Store!storeVars)
    OBVIOUS
  <2>1. CASE \E t \in Tasks : QuietStep(t)
    BY <2>1, QuietTask, SameStore DEF IndInv, Store!storeVars
  <2>2. CASE \E t \in Tasks : Commit(t)
    BY <2>2, CommitRecords
  <2>3. CASE UNCHANGED <<task, runs, raw, core, rawSeq, kills>>
    BY <2>3, SameStore DEF Store!storeVars
  <2> QED
    BY <2>1, <2>2, <2>3, Steps
<1> QED
  BY <1>1, <1>2, Invariance, PTL DEF Spec, ImplementsStore, Store!StoreSpec

--------------------------------------------------------------------------------
(* The calls to the API.                                                   *)

\* The visible rows that account for calls of t are finitely many.
LEMMA LandingsFinite ==
  ASSUME IndInv, NEW t, NEW kind
  PROVE  IsFiniteSet(RunsLanding(t, kind)) /\ Cardinality(RunsLanding(t, kind)) \in Nat
<1>1. DOMAIN raw \subseteq 0 .. rawSeq /\ rawSeq \in Nat
  BY DEF IndInv, TypeOK, FreshIds
<1>2. IsFiniteSet(0 .. rawSeq)
  BY <1>1, FS_Interval
<1>3. RunsLanding(t, kind) \subseteq 0 .. rawSeq
  BY <1>1 DEF RunsLanding
<1> QED
  BY <1>2, <1>3, FS_Subset, FS_CardinalityType

LEMMA OwedType ==
  ASSUME IndInv, NEW t
  PROVE  Owed(t) \in Nat
BY LandingsFinite DEF Owed

\* What a quiet step does to the counters of the process.
LEMMA QuietMeters ==
  ASSUME NEW t \in Tasks, QuietStep(t), TypeOK, Consistent(task[t]),
         NEW owed \in Nat, Metered(task[t], owed)
  PROVE  Metered(task'[t], owed)
<1> DEFINE s == task[t]
           M == MaxAttempts
<1>1. /\ task \in [Tasks -> TaskState] /\ s \in TaskState
      /\ s.tries \in Nat /\ s.attempt \in 0 .. M /\ s.polls \in Nat /\ M \in Nat \ {0}
  BY DEF TypeOK, TaskState
<1>2. s.tries * M \in Nat /\ (s.tries + 1) * M = s.tries * M + M
  BY <1>1
<1>3. CASE \E l \in LocationIds : LaunchMapped(t, l) \/ LaunchByHand(t, l)
  <2>1. /\ s.pc = "idle" /\ task'[t].pc = "queued" /\ task'[t].tries = s.tries
        /\ task'[t].polls = s.polls
    BY <1>1, <1>3 DEF LaunchMapped, LaunchByHand, Launch, TaskState
  <2> QED
    BY <1>1, <2>1 DEF Metered, InTransaction
<1>4. CASE OpenRun(t)
  <2>1. /\ s.pc = "queued" /\ task'[t].pc = "opened" /\ task'[t].tries = s.tries + 1
        /\ task'[t].polls = s.polls /\ task'[t].attempt = s.attempt
    BY <1>1, <1>4 DEF OpenRun, TaskState
  <2>2. s.attempt = 0
    BY <2>1 DEF Consistent
  <2> QED
    BY <1>1, <1>2, <2>1, <2>2 DEF Metered, InTransaction
<1>5. CASE FindLocation(t)
  <2>1. /\ s.pc = "opened" /\ task'[t].pc = "polling" /\ task'[t].tries = s.tries
        /\ task'[t].polls = s.polls /\ task'[t].attempt = s.attempt
    BY <1>1, <1>5 DEF FindLocation, TaskState
  <2> QED
    BY <1>1, <2>1 DEF Metered, InTransaction
<1>6. CASE \E a \in Outcomes : PollAgain(t, a)
  <2>1. /\ s.pc = "polling" /\ task'[t].pc = "polling" /\ task'[t].tries = s.tries
        /\ task'[t].polls = s.polls + 1 /\ task'[t].attempt = s.attempt + 1
    BY <1>1, <1>6 DEF PollAgain, TaskState
  <2> QED
    BY <1>1, <1>2, <2>1 DEF Metered, InTransaction
<1>7. ASSUME NEW a \in Outcomes, PollAnswered(t, a)
      PROVE  Metered(task'[t], owed)
  <2>1. /\ s.pc = "polling" /\ task'[t].pc = "answered" /\ task'[t].tries = s.tries
        /\ task'[t].polls = s.polls + 1 /\ task'[t].attempt = s.attempt + 1
        /\ task'[t].answer = a
    BY <1>1, <1>7 DEF PollAnswered, TaskState
  <2>2. a.kind = "quota" => s.attempt + 1 = M
    BY <1>1, <1>7, <2>1 DEF PollAnswered, Retryable, MayRetry, Consistent
  <2> QED
    BY <1>1, <1>2, <2>1, <2>2 DEF Metered, InTransaction
<1>8. ASSUME NEW a \in Outcomes, PollRaised(t, a)
      PROVE  Metered(task'[t], owed)
  <2>1. s.pc = "polling" /\ task'[t] = Gone(Called(s), AfterFailure(t))
    BY <1>1, <1>8 DEF PollRaised
  <2>2. /\ task'[t].pc \in {"queued", "failed"} /\ task'[t].tries = s.tries
        /\ task'[t].polls = s.polls + 1
    BY <1>1, <2>1, AfterFailureTask DEF Gone, Called, TaskState
  <2>3. s.attempt < M
    BY <2>1 DEF Consistent
  <2> QED
    BY <1>1, <1>2, <2>1, <2>2, <2>3 DEF Metered, InTransaction
<1>9. CASE InsertRaw(t)
  <2>1. /\ s.pc = "answered" /\ task'[t].pc = "landed" /\ task'[t].tries = s.tries
        /\ task'[t].polls = s.polls /\ task'[t].attempt = s.attempt
        /\ task'[t].answer = s.answer
    BY <1>1, <1>9 DEF InsertRaw, TaskState
  <2> QED
    BY <1>1, <1>2, <2>1 DEF Metered, InTransaction
<1>10. CASE Upsert(t)
  <2>1. /\ s.pc = "landed" /\ task'[t].pc = "written" /\ task'[t].tries = s.tries
        /\ task'[t].polls = s.polls /\ task'[t].attempt = s.attempt
    BY <1>1, <1>10 DEF Upsert, TaskState
  <2> QED
    BY <1>1, <1>2, <2>1 DEF Metered, InTransaction
<1>11. CASE MissLocation(t) \/ UpsertRaised(t) \/ ExitProcess(t) \/ Kill(t) \/ DagRunTimeout(t)
  <2>1. PICK pc \in {"queued", "success", "failed"} : task' = Ended(t, pc)
    BY <1>11, AfterFailureTask
       DEF MissLocation, UpsertRaised, ExitProcess, Kill, DagRunTimeout, ExitStatus
  <2>2. /\ task'[t].pc \in {"queued", "success", "failed"} /\ task'[t].tries = s.tries
        /\ task'[t].polls = s.polls
    BY <1>1, <2>1 DEF Ended, Gone
  <2> QED
    BY <1>1, <1>2, <2>2 DEF Metered, InTransaction
<1> QED
  BY <1>3, <1>4, <1>5, <1>6, <1>7, <1>8, <1>9, <1>10, <1>11 DEF QuietStep

\* A commit accounts for the calls of its own try, and of nobody else's.
LEMMA CommitMeters ==
  ASSUME NEW t \in Tasks, Commit(t), IndInv, AllMetered
  PROVE  AllMetered'
<1> DEFINE s == task[t]
           i == task[t].rawId
           M == MaxAttempts
           Q == Cardinality(RunsLanding(t, "quota"))
           C == Cardinality(RunsLanding(t, "client"))
<1>1. /\ task \in [Tasks -> TaskState] /\ s \in TaskState /\ Pending(t)
      /\ i \in Nat \ DOMAIN raw /\ s.answer \in Reading \cup Rejection
      /\ s.pc = "written" <=> s.answer \in Reading
      /\ task' = [task EXCEPT ![t].pc = "committed"]
      /\ raw' = Put(raw, i, RawRowOf(t))
  BY CommitStep DEF TypeOK, IndInv
<1>2. /\ DOMAIN raw' = DOMAIN raw \cup {i}
      /\ raw'[i].run[1] = t /\ raw'[i].payload = s.answer
      /\ \A x \in DOMAIN raw : raw'[x] = raw[x]
  BY <1>1 DEF Put, RawRowOf, RunOf
<1>3. ASSUME NEW u \in Tasks \ {t}
      PROVE  Metered(task'[u], Owed(u)')
  <2>1. \A kind : RunsLanding(u, kind)' = RunsLanding(u, kind)
    BY <1>1, <1>2 DEF RunsLanding
  <2>2. Owed(u)' = Owed(u) /\ task'[u] = task[u]
    BY <1>1, <2>1 DEF Owed
  <2> QED
    BY <2>2 DEF AllMetered
<1>4. Metered(task'[t], Owed(t)')
  <2>1. /\ task'[t].pc = "committed" /\ task'[t].tries = s.tries
        /\ task'[t].polls = s.polls /\ task'[t].attempt = s.attempt
    BY <1>1 DEF TaskState
  <2>2. /\ s.tries \in Nat /\ s.attempt \in 0 .. M /\ s.polls \in Nat /\ M \in Nat \ {0}
        /\ Q \in Nat /\ C \in Nat /\ Q * M \in Nat /\ (Q + 1) * M = Q * M + M
        /\ s.tries * M \in Nat
    BY <1>1, LandingsFinite DEF TaskState
  <2>3. /\ s.polls + M <= s.tries * M + s.attempt /\ s.polls >= Owed(t) + s.attempt
        /\ s.pc = "landed" =>
             s.attempt >= 1 /\ (s.answer.kind = "quota" => s.attempt = M)
    BY <1>1 DEF AllMetered, Metered, Pending, InTransaction
  <2>4. \A kind : RunsLanding(t, kind)' = IF s.answer.kind = kind THEN RunsLanding(t, kind) \cup {i}
                                                                  ELSE RunsLanding(t, kind)
    BY <1>1, <1>2 DEF RunsLanding
  <2>5. \A kind : i \notin RunsLanding(t, kind)
    BY <1>1 DEF RunsLanding
  <2>6. \A kind : Cardinality(RunsLanding(t, kind) \cup {i}) = Cardinality(RunsLanding(t, kind)) + 1
    BY <2>5, LandingsFinite, FS_AddElement
  <2>7. Owed(t) = Q * M + C
    BY DEF Owed
  <2>8. Owed(t)' \in Nat /\ Owed(t) \in Nat /\ Owed(t)' <= Owed(t) + s.attempt
    <3>1. CASE s.answer \in Reading
      <4>1. RunsLanding(t, "quota")' = RunsLanding(t, "quota")
            /\ RunsLanding(t, "client")' = RunsLanding(t, "client")
        BY <2>4, <3>1 DEF Reading
      <4> QED
        BY <2>2, <2>7, <4>1 DEF Owed
    <3>2. CASE s.answer \in Rejection /\ s.answer.kind = "quota"
      <4>1. s.attempt = M
        BY <1>1, <2>3, <3>2 DEF Pending, Reading
      <4>2. RunsLanding(t, "quota")' = RunsLanding(t, "quota") \cup {i}
            /\ RunsLanding(t, "client")' = RunsLanding(t, "client")
        BY <2>4, <3>2
      <4>3. Owed(t)' = (Q + 1) * M + C
        BY <2>6, <4>2 DEF Owed
      <4> QED
        BY <2>2, <2>7, <4>1, <4>3
    <3>3. CASE s.answer \in Rejection /\ s.answer.kind = "client"
      <4>1. s.attempt >= 1
        BY <1>1, <2>3, <3>3 DEF Pending, Reading
      <4>2. RunsLanding(t, "client")' = RunsLanding(t, "client") \cup {i}
            /\ RunsLanding(t, "quota")' = RunsLanding(t, "quota")
        BY <2>4, <3>3
      <4>3. Owed(t)' = Q * M + (C + 1)
        BY <2>6, <4>2 DEF Owed
      <4> QED
        BY <2>2, <2>7, <4>1, <4>3
    <3> QED
      BY <1>1, <3>1, <3>2, <3>3 DEF Rejection
  <2> QED
    BY <2>1, <2>2, <2>3, <2>8 DEF Metered, InTransaction
<1> QED
  BY <1>3, <1>4 DEF AllMetered

\* The counters are in order in every state.
THEOREM Accounts == Spec => []AllMetered
<1>1. Init => AllMetered
  <2> SUFFICES ASSUME Init, NEW t \in Tasks PROVE Metered(task[t], Owed(t))
    BY DEF AllMetered
  <2>1. \A kind : RunsLanding(t, kind) = {}
    BY DEF Init, NoRows, RunsLanding
  <2>2. Owed(t) = 0
    BY <2>1, FS_EmptySet DEF Owed
  <2> QED
    BY <2>2 DEF Init, Idle, Metered, InTransaction
<1>2. ASSUME AllMetered, IndInv, [Next]_vars PROVE AllMetered'
  <2>1. ASSUME NEW t \in Tasks, QuietStep(t) PROVE AllMetered'
    <3>1. raw' = raw /\ OnlyTask(t)
      BY <1>2, <2>1, QuietTask DEF IndInv
    <3>2. \A u \in Tasks : Owed(u)' = Owed(u)
      BY <3>1 DEF Owed, RunsLanding
    <3>3. Metered(task'[t], Owed(t))
      BY <1>2, <2>1, QuietMeters, OwedType DEF AllMetered, IndInv
    <3> QED
      BY <1>2, <3>1, <3>2, <3>3 DEF AllMetered, OnlyTask
  <2>2. ASSUME NEW t \in Tasks, Commit(t) PROVE AllMetered'
    BY <1>2, <2>2, CommitMeters
  <2>3. CASE UNCHANGED <<task, raw>>
    BY <1>2, <2>3 DEF AllMetered, Owed, RunsLanding
  <2> QED
    BY <1>2, <2>1, <2>2, <2>3, Steps
<1> QED
  BY <1>1, <1>2, Invariance, PTL DEF Spec

\* What a task costs in API calls: at most its attempts for each of its tries, and no
\* less than what its visible runs account for.
THEOREM Budget == Spec => []PollBudget
<1>1. IndInv /\ AllMetered => PollBudget
  <2> SUFFICES ASSUME IndInv, AllMetered, NEW t \in Tasks
               PROVE  task[t].polls <= task[t].tries * MaxAttempts /\ task[t].polls >= Owed(t)
    BY DEF PollBudget
  <2> DEFINE s == task[t]
  <2>1. /\ s.tries \in Nat /\ s.attempt \in 0 .. MaxAttempts /\ s.polls \in Nat
        /\ s.tries * MaxAttempts \in Nat /\ Owed(t) \in Nat /\ Metered(s, Owed(t))
    BY OwedType DEF IndInv, TypeOK, TaskState, AllMetered
  <2> QED
    BY <2>1 DEF Metered
<1> QED
  BY <1>1, Accounts, Invariance, PTL

--------------------------------------------------------------------------------
(* Termination.                                                            *)

\* The steps that are left are a number, and products of TryLength are in order.
LEMMA StepsLeftType ==
  ASSUME NEW s \in TaskState, Consistent(s)
  PROVE  /\ StepsLeft(s) \in Nat
         /\ s.budget - s.tries \in 0 .. Retries + 1
         /\ (s.budget - s.tries) * TryLength \in Nat
         /\ s.attempt \in 0 .. MaxAttempts /\ ToExit(s) \in Nat /\ ToExit(s) < TryLength
<1>1. /\ s.budget \in 0 .. Retries + 1 /\ s.tries \in 0 .. Retries + 1 /\ s.tries <= s.budget
      /\ s.attempt \in 0 .. MaxAttempts
  BY DEF TaskState, Consistent
<1>2. s.budget - s.tries \in 0 .. Retries + 1 /\ s.budget - s.tries \in Nat
  BY <1>1
<1>3. TryLength \in Nat /\ \A i, j \in Nat : i * j \in Nat
  BY DEF TryLength
<1>4. (s.budget - s.tries) * TryLength \in Nat /\ (Retries + 1) * TryLength \in Nat
  BY <1>2, <1>3
<1>5. ToExit(s) \in Nat /\ ToExit(s) < TryLength
  BY <1>1 DEF ToExit, TryLength
<1> QED
  BY <1>1, <1>2, <1>4, <1>5 DEF StepsLeft

\* A step of a process, whichever, is one step less.
LEMMA StepTaken ==
  ASSUME NEW t \in Tasks, QuietStep(t) \/ Commit(t), TypeOK, Consistent(task[t])
  PROVE  StepsLeft(task'[t]) < StepsLeft(task[t])
<1> DEFINE s == task[t]
           r == s.budget - s.tries
           M == MaxAttempts
<1>1. /\ task \in [Tasks -> TaskState] /\ s \in TaskState
      /\ s.tries \in Nat /\ s.budget \in Nat /\ s.attempt \in Nat /\ M \in Nat \ {0}
      /\ r \in 0 .. Retries + 1 /\ r * TryLength \in Nat /\ ToExit(s) \in Nat
      /\ TryLength = M + 6 /\ TryLength \in Nat
  <2>1. task \in [Tasks -> TaskState] /\ s \in TaskState
    BY DEF TypeOK
  <2>2. s.tries \in Nat /\ s.budget \in Nat /\ s.attempt \in Nat
    BY <2>1 DEF TaskState
  <2> QED
    BY <2>1, <2>2, StepsLeftType DEF TryLength
<1>2. CASE \E l \in LocationIds : LaunchMapped(t, l) \/ LaunchByHand(t, l)
  <2>1. PICK b \in {1, Retries + 1} : \E l \in LocationIds : Launch(t, l, b)
    BY <1>2 DEF LaunchMapped, LaunchByHand
  <2>2. s.pc = "idle" /\ task'[t].pc = "queued" /\ task'[t].tries = s.tries /\ task'[t].budget = b
    BY <1>1, <2>1 DEF Launch, TaskState
  <2>3. b - s.tries <= Retries + 1 /\ b - s.tries \in Int
    BY <1>1
  <2>4. \A i, j \in Int : i <= j => i * TryLength <= j * TryLength
    BY <1>1
  <2>5. (b - s.tries) * TryLength <= (Retries + 1) * TryLength
    BY <2>3, <2>4
  <2>6. \A i, j \in Int : i * j \in Int
    OBVIOUS
  <2>7. (b - s.tries) * TryLength \in Int /\ (Retries + 1) * TryLength \in Int
    BY <1>1, <2>3, <2>6
  <2> QED
    BY <2>2, <2>5, <2>7 DEF StepsLeft, ToExit
<1>3. CASE OpenRun(t)
  <2>1. /\ s.pc = "queued" /\ task'[t].pc = "opened" /\ task'[t].tries = s.tries + 1
        /\ task'[t].budget = s.budget
    BY <1>1, <1>3 DEF OpenRun, TaskState
  <2>2. s.budget - (s.tries + 1) = r - 1 /\ (r - 1) * TryLength = r * TryLength - TryLength
    BY <1>1
  <2>3. StepsLeft(task'[t]) = (r * TryLength - TryLength) + (M + 5)
    BY <2>1, <2>2 DEF StepsLeft, ToExit
  <2>4. StepsLeft(s) = r * TryLength + 0
    BY <2>1 DEF StepsLeft, ToExit
  <2> DEFINE p == r * TryLength
  <2>5. p \in Nat /\ StepsLeft(task'[t]) = (p - TryLength) + (M + 5) /\ StepsLeft(s) = p + 0
    BY <1>1, <2>3, <2>4
  <2> HIDE DEF p
  <2> QED
    BY <1>1, <2>5
<1>4. ASSUME task'[t].tries = s.tries, task'[t].budget = s.budget,
             s.pc \notin {"idle", "success", "failed"},
             task'[t].pc \in {"polling", "answered", "landed", "written", "committed", "queued"},
             ToExit(task'[t]) \in Int, ToExit(task'[t]) < ToExit(s)
      PROVE  StepsLeft(task'[t]) < StepsLeft(s)
  <2>1. /\ StepsLeft(task'[t]) = r * TryLength + ToExit(task'[t])
        /\ StepsLeft(s) = r * TryLength + ToExit(s)
    BY <1>4 DEF StepsLeft
  <2> DEFINE p == r * TryLength
  <2>2. p \in Nat /\ ToExit(s) \in Nat
    BY <1>1
  <2>3. StepsLeft(task'[t]) = p + ToExit(task'[t]) /\ StepsLeft(s) = p + ToExit(s)
    BY <2>1
  <2> HIDE DEF p
  <2> QED
    BY <1>4, <2>2, <2>3
<1>5. CASE FindLocation(t)
  <2>1. /\ s.pc = "opened" /\ task'[t].pc = "polling" /\ task'[t].tries = s.tries
        /\ task'[t].budget = s.budget /\ task'[t].attempt = s.attempt
    BY <1>1, <1>5 DEF FindLocation, TaskState
  <2> QED
    BY <1>1, <1>4, <2>1 DEF ToExit
<1>6. CASE \E a \in Outcomes : PollAgain(t, a)
  <2>1. /\ s.pc = "polling" /\ task'[t].pc = "polling" /\ task'[t].tries = s.tries
        /\ task'[t].budget = s.budget /\ task'[t].attempt = s.attempt + 1
    BY <1>1, <1>6 DEF PollAgain, TaskState
  <2> QED
    BY <1>1, <1>4, <2>1 DEF ToExit
<1>7. CASE \E a \in Outcomes : PollAnswered(t, a)
  <2>1. /\ s.pc = "polling" /\ task'[t].pc = "answered" /\ task'[t].tries = s.tries
        /\ task'[t].budget = s.budget
    BY <1>1, <1>7 DEF PollAnswered, TaskState
  <2>2. s.attempt < M
    BY <2>1 DEF Consistent
  <2> QED
    BY <1>1, <1>4, <2>1, <2>2 DEF ToExit
<1>8. CASE InsertRaw(t)
  <2>1. /\ s.pc = "answered" /\ task'[t].pc = "landed" /\ task'[t].tries = s.tries
        /\ task'[t].budget = s.budget
    BY <1>1, <1>8 DEF InsertRaw, TaskState
  <2> QED
    BY <1>1, <1>4, <2>1 DEF ToExit
<1>9. CASE Upsert(t)
  <2>1. /\ s.pc = "landed" /\ task'[t].pc = "written" /\ task'[t].tries = s.tries
        /\ task'[t].budget = s.budget
    BY <1>1, <1>9 DEF Upsert, TaskState
  <2> QED
    BY <1>1, <1>4, <2>1 DEF ToExit
<1>10. CASE Commit(t)
  <2>1. /\ s.pc \in {"landed", "written"} /\ task'[t].pc = "committed" /\ task'[t].tries = s.tries
        /\ task'[t].budget = s.budget
    BY <1>1, <1>10 DEF Commit, Ready, TaskState
  <2> QED
    BY <1>1, <1>4, <2>1 DEF ToExit
<1>11. ASSUME NEW pc \in {"queued", "success", "failed"}, task'[t].pc = pc,
              task'[t].tries = s.tries, task'[t].budget = s.budget,
              s.pc \in InTransaction \cup {"queued", "committed"},
              pc = "queued" => s.pc # "queued"
       PROVE  StepsLeft(task'[t]) < StepsLeft(s)
  <2>1. s.pc # "queued" => ToExit(s) > 0
    <3>1. s.pc = "polling" => s.attempt < M
      BY DEF Consistent
    <3> QED
      BY <1>1, <1>11, <3>1 DEF ToExit, InTransaction
  <2>2. CASE pc = "queued"
    <3>1. ToExit(task'[t]) = 0
      BY <1>11, <2>2 DEF ToExit
    <3> QED
      BY <1>4, <1>11, <2>1, <2>2, <3>1 DEF InTransaction
  <2>3. CASE pc # "queued"
    <3>1. StepsLeft(task'[t]) = 0
      BY <1>11, <2>3 DEF StepsLeft
    <3>2. StepsLeft(s) = r * TryLength + ToExit(s)
      BY <1>11 DEF StepsLeft, InTransaction
    <3>3. s.pc = "queued" => r * TryLength > 0
      <4> SUFFICES ASSUME s.pc = "queued" PROVE r * TryLength > 0
        OBVIOUS
      <4>1. r \in Nat \ {0}
        BY <1>1 DEF Consistent
      <4>2. TryLength \in Nat \ {0}
        BY <1>1
      <4>3. \A i, j \in Nat \ {0} : i * j > 0
        OBVIOUS
      <4> HIDE DEF r
      <4> QED
        BY <4>1, <4>2, <4>3
    <3> DEFINE p == r * TryLength
    <3>4. p \in Nat /\ ToExit(s) \in Nat
      BY <1>1
    <3>5. p > 0 \/ ToExit(s) > 0
      BY <2>1, <3>3
    <3>6. StepsLeft(s) = p + ToExit(s)
      BY <3>2
    <3> HIDE DEF p
    <3> QED
      BY <3>1, <3>4, <3>5, <3>6
  <2> QED
    BY <2>2, <2>3
<1>12. CASE \E a \in Outcomes : PollRaised(t, a)
  <2>1. s.pc = "polling" /\ task'[t] = Gone(Called(s), AfterFailure(t))
    BY <1>1, <1>12 DEF PollRaised
  <2>2. /\ task'[t].pc \in {"queued", "failed"} /\ task'[t].tries = s.tries
        /\ task'[t].budget = s.budget
    BY <1>1, <2>1, AfterFailureTask DEF Gone, Called, TaskState
  <2> QED
    BY <1>11, <2>1, <2>2 DEF InTransaction
<1>13. CASE MissLocation(t) \/ UpsertRaised(t) \/ ExitProcess(t) \/ Kill(t) \/ DagRunTimeout(t)
  <2>1. PICK pc \in {"queued", "success", "failed"} :
          /\ task' = Ended(t, pc) /\ s.pc \in InTransaction \cup {"queued", "committed"}
          /\ pc = "queued" => s.pc # "queued"
    BY <1>13, AfterFailureTask
       DEF MissLocation, UpsertRaised, ExitProcess, Kill, DagRunTimeout, ExitStatus, InTransaction
  <2>2. task'[t].pc = pc /\ task'[t].tries = s.tries /\ task'[t].budget = s.budget
    BY <1>1, <2>1 DEF Ended, Gone
  <2> QED
    BY <1>11, <2>1, <2>2
<1> QED
  BY <1>2, <1>3, <1>5, <1>6, <1>7, <1>8, <1>9, <1>10, <1>12, <1>13 DEF QuietStep

\* The property: whatever the API, the database, the operators and the other processes
\* do, a process that moves comes closer to the end of its task, for any number of
\* tries and attempts; only waiting can keep it from it.
THEOREM Termination == Spec => EveryStepCounts
<1>1. ASSUME IndInv, IndInv', [Next]_vars, NEW t \in Tasks
      PROVE  task'[t] = task[t] \/ StepsLeft(task'[t]) \in 0 .. StepsLeft(task[t]) - 1
  <2>1. \A u \in Tasks : TypeOK /\ Consistent(task[u]) /\ TypeOK' /\ Consistent(task'[u])
    BY <1>1 DEF IndInv
  <2>2. StepsLeft(task[t]) \in Nat /\ StepsLeft(task'[t]) \in Nat
    <3>1. task[t] \in TaskState /\ task'[t] \in TaskState
      BY <2>1 DEF TypeOK
    <3> QED
      BY <2>1, <3>1, StepsLeftType
  <2>3. ASSUME NEW u \in Tasks, QuietStep(u) \/ Commit(u)
        PROVE  task'[t] = task[t] \/ StepsLeft(task'[t]) < StepsLeft(task[t])
    <3>1. CASE t = u
      BY <2>1, <2>3, <3>1, StepTaken
    <3>2. CASE t # u
      <4>1. QuietStep(u) => task'[t] = task[t]
        BY <2>1, <3>2, QuietTask DEF OnlyTask
      <4>2. Commit(u) => task'[t] = task[t]
        BY <2>1, <3>2 DEF Commit, TypeOK
      <4> QED
        BY <2>3, <4>1, <4>2
    <3> QED
      BY <3>1, <3>2
  <2>4. task'[t] = task[t] \/ StepsLeft(task'[t]) < StepsLeft(task[t])
    BY <1>1, <2>3, Steps
  <2> QED
    BY <2>2, <2>4
<1>2. IndInv /\ IndInv' /\ [Next]_vars =>
        [\A t \in Tasks : \/ task'[t] = task[t]
                         \/ StepsLeft(task'[t]) \in 0 .. StepsLeft(task[t]) - 1]_task
  BY <1>1
<1> QED
  BY <1>2, Invariance, PTL DEF Spec, EveryStepCounts
==================================================================================
