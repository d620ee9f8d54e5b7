------------------------------ MODULE QualityProofs ------------------------------
(***************************************************************************)
(* Theorems about Quality: its types, what is recorded against what was    *)
(* alerted, and the exit status; for any number of locations, tries and    *)
(* aborts; and that Quality implements QualityLog.                         *)
(***************************************************************************)
EXTENDS Quality, TLAPS

--------------------------------------------------------------------------------
(* Lemmas about the results of a try.                                      *)

\* The results of a location are verdicts of one check or of all.
LEMMA ResultsForType ==
  ASSUME NEW obs, NEW elapsed
  PROVE  /\ ResultsFor(obs, elapsed) \in Judgements
         /\ DOMAIN ResultsFor(obs, elapsed) \subseteq Checks
  <1> DEFINE D == IF obs = NoObservation THEN {"freshness"} ELSE Checks
             r == ResultsFor(obs, elapsed)
  <1>1. CheckFreshness(obs, elapsed) \in Verdicts
    BY DEF CheckFreshness, Passed, Failed, Verdicts
  <1>2. CheckValueRanges(obs.fields) \in Verdicts /\ CheckRequiredFields(obs.fields) \in Verdicts
    BY DEF CheckValueRanges, CheckRequiredFields, Passed, Failed, Verdicts
  <1>3. D \subseteq Checks
    BY DEF Checks
  <1>4. DOMAIN r = D /\ r \in [D -> Verdicts]
    BY <1>1, <1>2, <1>3 DEF ResultsFor, Checks
  <1>. QED
    BY <1>3, <1>4 DEF Judgements

\* Adding the results of a location.
LEMMA WithDomain ==
  ASSUME NEW results, NEW l, NEW r
  PROVE  /\ DOMAIN With(results, l, r) = DOMAIN results \cup {l}
         /\ With(results, l, r)[l] = r
         /\ \A x \in DOMAIN results \ {l} : With(results, l, r)[x] = results[x]
  BY DEF With

LEMMA WithType ==
  ASSUME NEW results \in Results, NEW l \in Ls, NEW r \in Judgements
  PROVE  With(results, l, r) \in Results
  <1>1. PICK S \in SUBSET Ls : results \in [S -> Judgements]
    BY DEF Results
  <1>2. With(results, l, r) \in [S \cup {l} -> Judgements]
    BY <1>1 DEF With
  <1>3. S \cup {l} \in SUBSET Ls
    OBVIOUS
  <1>. QED
    BY <1>2, <1>3 DEF Results

\* No results are results.
LEMMA NoResultsType == NoResults \in Results /\ DOMAIN NoResults = {}
  BY DEF NoResults, Results

\* An alert about a critical failure, spelled out.
LEMMA CriticalMember ==
  ASSUME NEW n, NEW results, NEW m, NEW l, NEW c \in Checks
  PROVE  <<m, l, c>> \in Log!CriticalOf(n, results)
           <=> /\ m = n /\ l \in DOMAIN results /\ c \in DOMAIN results[l]
               /\ ~ results[l][c].passed /\ results[l][c].severity = "critical"
  <1> DEFINE Crit == {q \in (DOMAIN results) \X Checks :
                        q[2] \in DOMAIN results[q[1]] /\ Log!IsCritical(results[q[1]][q[2]])}
  <1>1. Log!CriticalOf(n, results) = {<<n, p[1], p[2]>> : p \in Crit}
    BY DEF Log!CriticalOf
  <1>2. <<l, c>> \in Crit <=> /\ l \in DOMAIN results /\ c \in DOMAIN results[l]
                             /\ ~ results[l][c].passed /\ results[l][c].severity = "critical"
    BY DEF Log!IsCritical
  <1>. HIDE DEF Crit
  <1>3. ASSUME <<m, l, c>> \in Log!CriticalOf(n, results)
        PROVE  m = n /\ <<l, c>> \in Crit
    <2>1. PICK p \in Crit : <<m, l, c>> = <<n, p[1], p[2]>>
      BY <1>1, <1>3
    <2>2. p = <<p[1], p[2]>>
      BY DEF Crit
    <2>. QED
      BY <2>1, <2>2
  <1>4. ASSUME m = n, <<l, c>> \in Crit
        PROVE  <<m, l, c>> \in Log!CriticalOf(n, results)
    BY <1>1, <1>4
  <1>. QED
    BY <1>2, <1>3, <1>4

\* Such an alert is a triple.
LEMMA CriticalTriple ==
  ASSUME NEW n, NEW results, NEW a \in Log!CriticalOf(n, results)
  PROVE  \E l \in DOMAIN results, c \in Checks : a = <<n, l, c>>
  BY DEF Log!CriticalOf

\* What goes to the hook for a location, spelled out.
LEMMA NotifyMember ==
  ASSUME NEW l, NEW r, NEW m, NEW c
  PROVE  <<m, c>> \in ToNotify(l, r)
           <=> m = l /\ c \in DOMAIN r /\ ~ r[c].passed /\ r[c].severity = "critical"
  BY DEF ToNotify
--------------------------------------------------------------------------------
(* Type correctness.                                                       *)

LEMMA WorldTypeKept ==
  ASSUME WorldTypeOK, TimePasses \/ WorldChanges
  PROVE  WorldTypeOK'
  <1>1. CASE TimePasses
    <2>1. ASSUME NEW l \in Ls
          PROVE  [newest[l] EXCEPT !.age = Older(@)] \in Observations
      <3>1. newest[l] \in Observations
        BY DEF WorldTypeOK
      <3>2. CASE newest[l] = NoObservation
        BY <3>2, WorldAssumption DEF NoObservation, Older, Observations
      <3>3. CASE newest[l] \in [age : 0 .. OldestAge, fields : Measurements]
        BY <3>3, WorldAssumption DEF Older, Observations
      <3>. QED
        BY <3>1, <3>2, <3>3 DEF Observations
    <2>. QED
      BY <1>1, <2>1 DEF TimePasses, WorldTypeOK
  <1>2. CASE WorldChanges
    <2>1. PICK l \in Ls : Switch(l) \/ \E age \in 0 .. MaxLag, m \in Measurements : Observe(l, age, m)
      BY <1>2 DEF WorldChanges
    <2>2. CASE Switch(l)
      BY <2>2, WorldAssumption DEF Switch, WorldTypeOK
    <2>3. CASE \E age \in 0 .. MaxLag, m \in Measurements : Observe(l, age, m)
      <3>1. PICK age \in 0 .. MaxLag, m \in Measurements : Observe(l, age, m)
        BY <2>3
      <3>2. [age |-> age, fields |-> m] \in Observations
        BY WorldAssumption DEF Observations
      <3>. QED
        BY <3>1, <3>2, WorldAssumption DEF Observe, WorldTypeOK
    <2>. QED
      BY <2>1, <2>2, <2>3
  <1>. QED
    BY <1>1, <1>2

\* The part of TypeOK about the task, the alerts and the rows.
CheckTypeOK ==
  /\ check \in CheckStates
  /\ check.todo \subseteq check.listed /\ DOMAIN check.results = check.listed \ check.todo
  /\ alerts \subseteq (1 .. MaxTries) \X Ls \X Checks
  /\ DOMAIN rows \subseteq 1 .. MaxTries /\ \A n \in DOMAIN rows : rows[n] \in Results
  /\ aborts \in 0 .. MaxAborts

LEMMA TypeParts == TypeOK <=> WorldTypeOK /\ active \subseteq Ls /\ CheckTypeOK
  BY DEF TypeOK, WorldTypeOK, CheckTypeOK

\* A try that has found nothing is of the type.
LEMMA FreshType ==
  ASSUME NEW pc \in {"idle", "queued", "success", "failed", "begun"}, NEW try \in 0 .. MaxTries
  PROVE  /\ Fresh(pc, try) \in CheckStates
         /\ Fresh(pc, try).todo \subseteq Fresh(pc, try).listed
         /\ DOMAIN Fresh(pc, try).results = Fresh(pc, try).listed \ Fresh(pc, try).todo
  BY NoResultsType, QualityAssumption DEF Fresh, CheckStates, Trying

LEMMA AfterFailureIs ==
  /\ AfterFailure \in {"queued", "failed"} /\ ExitStatus \in {"queued", "success", "failed"}
  /\ AfterFailure = "queued" => check.try < MaxTries
  /\ ExitStatus = "queued" => check.try < MaxTries /\ ~ AllPassed(check.results)
  /\ ExitStatus = "success" <=> AllPassed(check.results)
  /\ ExitStatus = "failed" => ~ (check.try < MaxTries) /\ ~ AllPassed(check.results)
  BY DEF AfterFailure, ExitStatus

\* The kinds of step, as the proofs tell them apart.
LEMMA Steps ==
  ASSUME [Next]_vars
  PROVE  \/ CheckAges \/ UNCHANGED monitoring
         \/ Schedule \/ Begin \/ ListLocations \/ Commit \/ Exit \/ Abort
         \/ \E l \in Ls : Examine(l)
         \/ \E l \in Ls, c \in Checks : Notify(l, c)
  BY DEF Next, Step, vars, monitoring

LEMMA CheckTypeKept ==
  ASSUME CheckTypeOK, UpToNow, ToldSoFar, active \subseteq Ls, [Next]_vars
  PROVE  CheckTypeOK'
  <1>. USE QualityAssumption DEF CheckTypeOK
  <1>1. CASE CheckAges
    BY <1>1 DEF CheckAges, CheckStates, Trying
  <1>2. CASE Schedule
    <2>1. check' = Fresh("queued", 0) /\ 0 \in 0 .. MaxTries
      BY <1>2 DEF Schedule
    <2>2. DOMAIN rows' = {} /\ alerts' = {} /\ aborts' = aborts
      BY <1>2, NoResultsType DEF Schedule
    <2>. QED
      BY <2>1, <2>2, FreshType
  <1>3. CASE Begin
    <2>1. check.try + 1 \in 0 .. MaxTries
      BY <1>3 DEF Begin, UpToNow, CheckStates
    <2>2. check' = Fresh("begun", check.try + 1) /\ UNCHANGED <<alerts, rows, aborts>>
      BY <1>3 DEF Begin
    <2>. QED
      BY <2>1, <2>2, FreshType
  <1>4. CASE ListLocations
    <2>1. check' = [check EXCEPT !.pc = "examining", !.listed = active, !.todo = active]
      BY <1>4 DEF ListLocations
    <2>2. check' \in CheckStates
      BY <2>1 DEF CheckStates, Trying
    <2>3. check'.listed = active /\ check'.todo = active /\ check'.results = check.results
      BY <2>1 DEF CheckStates
    <2>4. DOMAIN check.results = {}
      BY <1>4, NoResultsType DEF ListLocations, ToldSoFar
    <2>. QED
      BY <1>4, <2>2, <2>3, <2>4 DEF ListLocations
  <1>5. ASSUME NEW l \in Ls, Examine(l)
        PROVE  CheckTypeOK'
    <2> DEFINE r == ResultsFor(newest[l], check.elapsed)
    <2>1. r \in Judgements /\ DOMAIN r \subseteq Checks
      BY ResultsForType
    <2>2. ToNotify(l, r) \subseteq Ls \X Checks
      BY <2>1 DEF ToNotify
    <2>3. With(check.results, l, r) \in Results
      BY <2>1, WithType DEF CheckStates
    <2>4. DOMAIN With(check.results, l, r) = DOMAIN check.results \cup {l}
      BY WithDomain
    <2>. HIDE DEF r
    <2>5. check' = [check EXCEPT !.pc = IF ToNotify(l, r) = {} THEN @ ELSE "notifying",
                                 !.todo = @ \ {l},
                                 !.results = With(@, l, r),
                                 !.pending = ToNotify(l, r)]
      BY <1>5 DEF Examine, r
    <2>6. check' \in CheckStates
      BY <2>2, <2>3, <2>5 DEF CheckStates, Trying
    <2>7. /\ check'.todo = check.todo \ {l} /\ check'.listed = check.listed
          /\ check'.results = With(check.results, l, r)
      BY <2>5 DEF CheckStates
    <2>8. l \in check.todo /\ UNCHANGED <<alerts, rows, aborts>>
      BY <1>5 DEF Examine
    <2>. QED
      BY <2>4, <2>6, <2>7, <2>8
  <1>6. ASSUME NEW l \in Ls, NEW c \in Checks, Notify(l, c)
        PROVE  CheckTypeOK'
    <2>1. check.try \in 1 .. MaxTries
      BY <1>6 DEF Notify, UpToNow, Trying, CheckStates
    <2>2. alerts' \subseteq (1 .. MaxTries) \X Ls \X Checks
      BY <1>6, <2>1 DEF Notify
    <2>3. check' = [check EXCEPT !.pc = IF check.pending = {<<l, c>>} THEN "examining" ELSE @,
                                 !.pending = @ \ {<<l, c>>}]
      BY <1>6 DEF Notify
    <2>4. check' \in CheckStates
      BY <1>6, <2>3 DEF CheckStates, Trying
    <2>5. check'.todo = check.todo /\ check'.listed = check.listed /\ check'.results = check.results
      BY <2>3 DEF CheckStates
    <2>. QED
      BY <1>6, <2>2, <2>4, <2>5 DEF Notify
  <1>7. CASE Commit
    <2>1. check.try \in 1 .. MaxTries
      BY <1>7 DEF Commit, Checked, UpToNow, Trying, CheckStates
    <2>2. rows' = With(rows, check.try, check.results) /\ check.results \in Results
      BY <1>7 DEF Commit, CheckStates
    <2>3. DOMAIN rows' = DOMAIN rows \cup {check.try}
      BY <2>2, WithDomain
    <2>4. \A n \in DOMAIN rows' : rows'[n] \in Results
      BY <2>2 DEF With
    <2>5. check' = [check EXCEPT !.pc = "committed"] /\ UNCHANGED <<alerts, aborts>>
      BY <1>7 DEF Commit
    <2>6. check' \in CheckStates
      BY <2>5 DEF CheckStates
    <2>7. check'.todo = check.todo /\ check'.listed = check.listed /\ check'.results = check.results
      BY <2>5 DEF CheckStates
    <2>. QED
      BY <2>1, <2>3, <2>4, <2>5, <2>6, <2>7
  <1>8. CASE Exit
    <2>1. check' = Fresh(ExitStatus, check.try) /\ UNCHANGED <<alerts, rows, aborts>>
      BY <1>8 DEF Exit, Ended
    <2>2. check.try \in 0 .. MaxTries
      BY DEF CheckStates
    <2>. QED
      BY <2>1, <2>2, FreshType, AfterFailureIs
  <1>9. CASE Abort
    <2>1. check' = Fresh(AfterFailure, check.try) /\ UNCHANGED <<alerts, rows>>
      BY <1>9 DEF Abort, Ended
    <2>2. check.try \in 0 .. MaxTries /\ aborts' \in 0 .. MaxAborts
      BY <1>9 DEF CheckStates, Abort
    <2>. QED
      BY <2>1, <2>2, FreshType, AfterFailureIs
  <1>10. CASE UNCHANGED monitoring
    BY <1>10 DEF monitoring
  <1>. QED
    BY <1>1, <1>2, <1>3, <1>4, <1>5, <1>6, <1>7, <1>8, <1>9, <1>10, Steps
--------------------------------------------------------------------------------
(* What each action does to the fields of the try at hand.                 *)

\* Nothing but time, the world and the list of locations has moved.
Quiet ==
  /\ check'.pc = check.pc /\ check'.try = check.try
  /\ check'.results = check.results /\ check'.pending = check.pending
  /\ UNCHANGED <<alerts, rows, aborts>>

LEMMA QuietFields ==
  ASSUME CheckTypeOK, CheckAges \/ UNCHANGED monitoring
  PROVE  Quiet
  BY DEF CheckTypeOK, CheckStates, CheckAges, monitoring, Quiet

LEMMA ListFields ==
  ASSUME CheckTypeOK, ListLocations
  PROVE  /\ check.pc = "begun" /\ check'.pc = "examining" /\ check'.try = check.try
         /\ check'.results = check.results /\ check'.pending = check.pending
         /\ UNCHANGED <<alerts, rows, aborts>>
  BY DEF CheckTypeOK, CheckStates, ListLocations

LEMMA ExamineFields ==
  ASSUME CheckTypeOK, NEW l \in Ls, Examine(l)
  PROVE  LET r == ResultsFor(newest[l], check.elapsed)
         IN  /\ check.pc = "examining" /\ l \in check.todo
             /\ check'.pc = (IF ToNotify(l, r) = {} THEN "examining" ELSE "notifying")
             /\ check'.try = check.try
             /\ check'.results = With(check.results, l, r)
             /\ check'.pending = ToNotify(l, r)
             /\ UNCHANGED <<alerts, rows, aborts>>
  <1> DEFINE r == ResultsFor(newest[l], check.elapsed)
  <1>1. check' = [check EXCEPT !.pc = IF ToNotify(l, r) = {} THEN @ ELSE "notifying",
                               !.todo = @ \ {l},
                               !.results = With(@, l, r),
                               !.pending = ToNotify(l, r)]
    BY DEF Examine
  <1>2. check.pc = "examining" /\ l \in check.todo /\ UNCHANGED <<alerts, rows, aborts>>
    BY DEF Examine
  <1>. HIDE DEF r
  <1>3. /\ check'.pc = (IF ToNotify(l, r) = {} THEN "examining" ELSE "notifying")
        /\ check'.try = check.try /\ check'.results = With(check.results, l, r)
        /\ check'.pending = ToNotify(l, r)
    BY <1>1, <1>2 DEF CheckTypeOK, CheckStates
  <1>. QED
    BY <1>2, <1>3 DEF r

LEMMA NotifyFields ==
  ASSUME CheckTypeOK, NEW l \in Ls, NEW c \in Checks, Notify(l, c)
  PROVE  /\ check.pc = "notifying" /\ <<l, c>> \in check.pending
         /\ check'.pc = (IF check.pending = {<<l, c>>} THEN "examining" ELSE "notifying")
         /\ check'.try = check.try /\ check'.results = check.results
         /\ check'.pending = check.pending \ {<<l, c>>}
         /\ alerts' = alerts \cup {<<check.try, l, c>>}
         /\ UNCHANGED <<rows, aborts>>
  BY DEF CheckTypeOK, CheckStates, Notify

LEMMA CommitFields ==
  ASSUME CheckTypeOK, Commit
  PROVE  /\ check.pc = "examining" /\ check'.pc = "committed"
         /\ check'.try = check.try /\ check'.results = check.results
         /\ UNCHANGED <<alerts, aborts>>
         /\ DOMAIN rows' = DOMAIN rows \cup {check.try}
         /\ rows'[check.try] = check.results
         /\ \A n \in DOMAIN rows \ {check.try} : rows'[n] = rows[n]
  <1>1. rows' = With(rows, check.try, check.results)
    BY DEF Commit
  <1>2. /\ check.pc = "examining" /\ check' = [check EXCEPT !.pc = "committed"]
        /\ UNCHANGED <<alerts, aborts>>
    BY DEF Commit, Checked
  <1>3. check'.pc = "committed" /\ check'.try = check.try /\ check'.results = check.results
    BY <1>2 DEF CheckTypeOK, CheckStates
  <1>4. /\ DOMAIN rows' = DOMAIN rows \cup {check.try} /\ rows'[check.try] = check.results
        /\ \A n \in DOMAIN rows \ {check.try} : rows'[n] = rows[n]
    BY <1>1 DEF With
  <1>. QED
    BY <1>2, <1>3, <1>4

\* A try begins, or the time between two tries.
LEMMA FreshFields ==
  ASSUME NEW pc, NEW try
  PROVE  /\ Fresh(pc, try).pc = pc /\ Fresh(pc, try).try = try
         /\ Fresh(pc, try).results = NoResults /\ Fresh(pc, try).pending = {}
  BY DEF Fresh

--------------------------------------------------------------------------------
(* Alerts and rows are of tries up to the one at hand.                     *)

LEMMA UpToNowKept ==
  ASSUME CheckTypeOK, UpToNow, [Next]_vars
  PROVE  UpToNow'
  <1>. USE DEF UpToNow
  <1>0. check.try \in 0 .. MaxTries /\ MaxTries \in Nat
    BY QualityAssumption DEF CheckTypeOK, CheckStates
  <1>1. CASE Quiet
    BY <1>1 DEF Quiet
  <1>2. CASE Schedule
    <2>1. check'.pc = "queued" /\ check'.try = 0 /\ alerts' = {}
      BY <1>2, FreshFields DEF Schedule
    <2>2. DOMAIN rows' = {}
      BY <1>2, NoResultsType DEF Schedule
    <2>. QED
      BY <2>1, <2>2, QualityAssumption DEF Trying
  <1>3. CASE Begin
    <2>1. check.try + 1 \notin DOMAIN rows
      BY <1>0
    <2>2. /\ check'.pc = "begun" /\ check'.try = check.try + 1
          /\ UNCHANGED <<alerts, rows>>
      BY <1>3, FreshFields DEF Begin
    <2>3. \A a \in alerts' : a[1] <= check'.try
      <3>. SUFFICES ASSUME NEW a \in alerts PROVE a[1] <= check.try + 1
        BY <2>2
      <3>1. a[1] \in 1 .. MaxTries /\ a[1] <= check.try
        BY DEF CheckTypeOK
      <3>. QED
        BY <1>0, <3>1
    <2>. QED
      BY <1>0, <2>1, <2>2, <2>3
  <1>4. CASE ListLocations
    BY <1>4, ListFields DEF Trying
  <1>5. ASSUME NEW l \in Ls, Examine(l)
        PROVE  UpToNow'
    BY <1>5, ExamineFields DEF Trying
  <1>6. ASSUME NEW l \in Ls, NEW c \in Checks, Notify(l, c)
        PROVE  UpToNow'
    <2>1. \A a \in alerts' : a[1] <= check.try
      <3>1. alerts' = alerts \cup {<<check.try, l, c>>}
        BY <1>6, NotifyFields
      <3>2. <<check.try, l, c>>[1] <= check.try
        BY <1>0
      <3>3. \A a \in alerts : a[1] <= check.try
        OBVIOUS
      <3>. HIDE DEF UpToNow
      <3>. QED
        BY <3>1, <3>2, <3>3
    <2>2. /\ check.pc = "notifying" /\ check'.pc \in {"examining", "notifying"}
          /\ check'.try = check.try /\ rows' = rows
      BY <1>6, NotifyFields
    <2>. QED
      BY <2>1, <2>2 DEF Trying
  <1>7. CASE Commit
    BY <1>0, <1>7, CommitFields DEF Trying
  <1>8. CASE Exit \/ Abort
    <2>1. PICK pc \in {"queued", "success", "failed"} :
            /\ check' = Fresh(pc, check.try) /\ UNCHANGED <<alerts, rows>>
            /\ pc = "queued" => check.try < MaxTries
      BY <1>8, AfterFailureIs DEF Exit, Abort, Ended
    <2>. QED
      BY <2>1, FreshFields DEF Trying
  <1>. HIDE DEF UpToNow
  <1>. QED
    BY <1>1, <1>2, <1>3, <1>4, <1>5, <1>6, <1>7, <1>8, QuietFields, Steps

--------------------------------------------------------------------------------
(* The try at hand has alerted what it found.                              *)

\* Check c of location l is among the results, as a critical failure.
Found(results, l, c) ==
  /\ l \in DOMAIN results /\ c \in DOMAIN results[l]
  /\ ~ results[l][c].passed /\ results[l][c].severity = "critical"

\* ToldSoFar, spelled out for a try with the fields given.
Told(pc, try, results, pending, told) ==
  /\ pc = "begun" => results = NoResults
  /\ pc \in {"begun", "examining"} => pending = {}
  /\ pc \in Trying => \A l \in Ls, c \in Checks :
                         (<<try, l, c>> \in told \/ <<l, c>> \in pending) <=> Found(results, l, c)

LEMMA ToldIs ==
  /\ ToldSoFar <=> Told(check.pc, check.try, check.results, check.pending, alerts)
  /\ ToldSoFar' <=> Told(check'.pc, check'.try, check'.results, check'.pending, alerts')
  BY CriticalMember DEF ToldSoFar, Told, Found

LEMMA ToldSoFarKept ==
  ASSUME CheckTypeOK, UpToNow, ToldSoFar, [Next]_vars
  PROVE  ToldSoFar'
  <1>0. Told(check.pc, check.try, check.results, check.pending, alerts)
    BY ToldIs
  <1>. SUFFICES Told(check'.pc, check'.try, check'.results, check'.pending, alerts')
    BY ToldIs
  <1>1. CASE Quiet
    BY <1>0, <1>1 DEF Quiet
  <1>2. CASE Begin
    <2>1. /\ check'.pc = "begun" /\ check'.try = check.try + 1
          /\ check'.results = NoResults /\ check'.pending = {} /\ alerts' = alerts
      BY <1>2, FreshFields DEF Begin
    <2>2. \A l, c : <<check.try + 1, l, c>> \notin alerts
      <3>. SUFFICES ASSUME NEW l, NEW c, <<check.try + 1, l, c>> \in alerts PROVE FALSE
        OBVIOUS
      <3>1. <<check.try + 1, l, c>>[1] <= check.try
        BY DEF UpToNow
      <3>2. check.try \in Nat
        BY QualityAssumption DEF CheckTypeOK, CheckStates
      <3>. QED
        BY <3>1, <3>2
    <2>3. \A l, c : ~ Found(NoResults, l, c)
      BY NoResultsType DEF Found
    <2>. QED
      BY <2>1, <2>2, <2>3 DEF Told
  <1>3. CASE ListLocations
    BY <1>0, <1>3, ListFields DEF Told, Trying
  <1>4. ASSUME NEW m \in Ls, Examine(m)
        PROVE  Told(check'.pc, check'.try, check'.results, check'.pending, alerts')
    <2> DEFINE r == ResultsFor(newest[m], check.elapsed)
    <2>1. /\ check.pc = "examining" /\ m \in check.todo
          /\ check'.pc = (IF ToNotify(m, r) = {} THEN "examining" ELSE "notifying")
          /\ check'.try = check.try
          /\ check'.results = With(check.results, m, r)
          /\ check'.pending = ToNotify(m, r)
          /\ UNCHANGED <<alerts, rows, aborts>>
      BY <1>4, ExamineFields
    <2>. HIDE DEF r
    <2>2. check.pending = {}
      BY <1>0, <2>1 DEF Told
    <2>3. m \notin DOMAIN check.results
      BY <2>1 DEF CheckTypeOK
    <2>4. ASSUME NEW l \in Ls, NEW c \in Checks
          PROVE  (<<check.try, l, c>> \in alerts \/ <<l, c>> \in ToNotify(m, r))
                   <=> Found(With(check.results, m, r), l, c)
      <3>1. <<check.try, l, c>> \in alerts <=> Found(check.results, l, c)
        BY <1>0, <2>1, <2>2 DEF Told, Trying
      <3>2. CASE l = m
        <4>1. <<l, c>> \in ToNotify(m, r) <=> Found(With(check.results, m, r), l, c)
          <5>1. With(check.results, m, r)[m] = r /\ m \in DOMAIN With(check.results, m, r)
            BY DEF With
          <5>2. <<m, c>> \in ToNotify(m, r)
                  <=> c \in DOMAIN r /\ ~ r[c].passed /\ r[c].severity = "critical"
            BY NotifyMember
          <5>. QED
            BY <3>2, <5>1, <5>2 DEF Found
        <4>2. ~ Found(check.results, l, c)
          BY <2>3, <3>2 DEF Found
        <4>. QED
          BY <3>1, <4>1, <4>2
      <3>3. CASE l # m
        <4>1. <<l, c>> \notin ToNotify(m, r)
          BY <3>3, NotifyMember
        <4>2. Found(With(check.results, m, r), l, c) <=> Found(check.results, l, c)
          <5>1. /\ DOMAIN With(check.results, m, r) = DOMAIN check.results \cup {m}
                /\ \A x \in DOMAIN check.results \ {m} :
                     With(check.results, m, r)[x] = check.results[x]
            BY DEF With
          <5>. QED
            BY <3>3, <5>1 DEF Found
        <4>. QED
          BY <3>1, <4>1, <4>2
      <3>. QED
        BY <3>2, <3>3
    <2>. QED
      BY <2>1, <2>4 DEF Told
  <1>5. ASSUME NEW m \in Ls, NEW d \in Checks, Notify(m, d)
        PROVE  Told(check'.pc, check'.try, check'.results, check'.pending, alerts')
    <2>1. /\ check.pc = "notifying" /\ <<m, d>> \in check.pending
          /\ check'.pc = (IF check.pending = {<<m, d>>} THEN "examining" ELSE "notifying")
          /\ check'.try = check.try /\ check'.results = check.results
          /\ check'.pending = check.pending \ {<<m, d>>}
          /\ alerts' = alerts \cup {<<check.try, m, d>>}
      BY <1>5, NotifyFields
    <2>2. ASSUME NEW l \in Ls, NEW c \in Checks
          PROVE  (<<check.try, l, c>> \in alerts' \/ <<l, c>> \in check'.pending)
                   <=> Found(check.results, l, c)
      <3>1. (<<check.try, l, c>> \in alerts \/ <<l, c>> \in check.pending)
              <=> Found(check.results, l, c)
        BY <1>0, <2>1 DEF Told, Trying
      <3>. QED
        BY <2>1, <3>1
    <2>3. check'.pc # "begun" /\ (check'.pc = "examining" => check'.pending = {})
      BY <2>1
    <2>. QED
      BY <2>1, <2>2, <2>3 DEF Told
  <1>6. CASE Commit
    BY <1>6, CommitFields DEF Told, Trying
  <1>7. CASE Schedule \/ Exit \/ Abort
    <2>1. PICK pc \in {"queued", "success", "failed"} : \E try : check' = Fresh(pc, try)
      BY <1>7, AfterFailureIs DEF Schedule, Exit, Abort, Ended
    <2>. QED
      BY <2>1, FreshFields DEF Told, Trying
  <1>. QED
    BY <1>1, <1>2, <1>3, <1>4, <1>5, <1>6, <1>7, QuietFields, Steps

--------------------------------------------------------------------------------
(* The record and the alerts tell the same story.                          *)

\* A try that has come to its end has alerted what it is about to record.
LEMMA ToldAtTheEnd ==
  ASSUME CheckTypeOK, ToldSoFar, Commit
  PROVE  Log!AlertsOf(check.try) = Log!CriticalOf(check.try, check.results)
  <1>1. check.pc = "examining" /\ check.todo = {}
    BY DEF Commit, Checked
  <1>2. check.pending = {}
    BY <1>1 DEF ToldSoFar
  <1>3. \A l \in Ls, c \in Checks :
          <<check.try, l, c>> \in alerts
            <=> <<check.try, l, c>> \in Log!CriticalOf(check.try, check.results)
    BY <1>1, <1>2 DEF ToldSoFar, Trying
  <1>4. ASSUME NEW a \in Log!AlertsOf(check.try)
        PROVE  a \in Log!CriticalOf(check.try, check.results)
    <2>1. a \in alerts /\ a[1] = check.try
      BY DEF Log!AlertsOf
    <2>2. PICK n \in 1 .. MaxTries, l \in Ls, c \in Checks : a = <<n, l, c>>
      BY <2>1 DEF CheckTypeOK
    <2>3. n = check.try
      BY <2>1, <2>2
    <2>. QED
      BY <1>3, <2>1, <2>2, <2>3
  <1>5. ASSUME NEW a \in Log!CriticalOf(check.try, check.results)
        PROVE  a \in Log!AlertsOf(check.try)
    <2>1. PICK l \in DOMAIN check.results, c \in Checks : a = <<check.try, l, c>>
      BY CriticalTriple
    <2>2. l \in Ls
      BY DEF CheckTypeOK, CheckStates
    <2>3. a \in alerts /\ a[1] = check.try
      BY <1>3, <2>1, <2>2
    <2>. QED
      BY <2>3 DEF Log!AlertsOf
  <1>. QED
    BY <1>4, <1>5

LEMMA AlertsMatchRecordKept ==
  ASSUME CheckTypeOK, UpToNow, ToldSoFar, AlertsMatchRecord, [Next]_vars
  PROVE  AlertsMatchRecord'
  <1>1. CASE UNCHANGED <<alerts, rows>>
    BY <1>1 DEF AlertsMatchRecord, Log!AlertsOf
  <1>2. CASE Schedule
    <2>1. DOMAIN rows' = {}
      BY <1>2, NoResultsType DEF Schedule
    <2>. QED
      BY <2>1 DEF AlertsMatchRecord
  <1>3. ASSUME NEW l \in Ls, NEW c \in Checks, Notify(l, c)
        PROVE  AlertsMatchRecord'
    <2>1. /\ check.pc = "notifying" /\ rows' = rows
          /\ alerts' = alerts \cup {<<check.try, l, c>>}
      BY <1>3, NotifyFields
    <2>2. check.try \notin DOMAIN rows
      BY <2>1 DEF UpToNow, Trying
    <2>3. ASSUME NEW n \in DOMAIN rows
          PROVE  Log!AlertsOf(n)' = Log!AlertsOf(n)
      <3>1. <<check.try, l, c>>[1] # n
        BY <2>2
      <3>. QED
        BY <2>1, <3>1 DEF Log!AlertsOf
    <2>. QED
      BY <2>1, <2>3 DEF AlertsMatchRecord
  <1>4. CASE Commit
    <2>1. /\ alerts' = alerts /\ DOMAIN rows' = DOMAIN rows \cup {check.try}
          /\ rows'[check.try] = check.results
          /\ \A n \in DOMAIN rows \ {check.try} : rows'[n] = rows[n]
      BY <1>4, CommitFields
    <2>2. \A n : Log!AlertsOf(n)' = Log!AlertsOf(n)
      BY <2>1 DEF Log!AlertsOf
    <2>3. Log!AlertsOf(check.try) = Log!CriticalOf(check.try, check.results)
      BY <1>4, ToldAtTheEnd
    <2>4. ASSUME NEW n \in DOMAIN rows'
          PROVE  Log!AlertsOf(n)' = Log!CriticalOf(n, rows'[n])
      BY <2>1, <2>2, <2>3 DEF AlertsMatchRecord
    <2>. QED
      BY <2>4 DEF AlertsMatchRecord
  <1>5. CASE Begin \/ ListLocations \/ Exit \/ Abort
    BY <1>1, <1>5 DEF Begin, ListLocations, Exit, Abort
  <1>6. ASSUME NEW l \in Ls, Examine(l)
        PROVE  AlertsMatchRecord'
    BY <1>1, <1>6 DEF Examine
  <1>7. CASE CheckAges \/ UNCHANGED monitoring
    BY <1>1, <1>7 DEF CheckAges, monitoring
  <1>. QED
    BY <1>2, <1>3, <1>4, <1>5, <1>6, <1>7, Steps

--------------------------------------------------------------------------------
(* The exit status.                                                        *)

LEMMA FailedSoFarKept ==
  ASSUME CheckTypeOK, UpToNow, ExitHonest, FailedSoFar, [Next]_vars
  PROVE  FailedSoFar'
  <1>0. check.try \in 0 .. MaxTries /\ MaxTries \in Nat /\ aborts \in Nat
    BY QualityAssumption DEF CheckTypeOK, CheckStates
  <1>1. CASE Quiet
    BY <1>1 DEF Quiet, FailedSoFar
  <1>2. CASE Schedule
    <2>1. check'.try = 0
      BY <1>2, FreshFields DEF Schedule
    <2>. QED
      BY <2>1 DEF FailedSoFar
  <1>3. CASE Begin
    BY <1>3, FreshFields DEF Begin, FailedSoFar
  <1>4. CASE ListLocations
    BY <1>4, ListFields DEF FailedSoFar
  <1>5. ASSUME NEW l \in Ls, Examine(l)
        PROVE  FailedSoFar'
    BY <1>5, ExamineFields DEF FailedSoFar
  <1>6. ASSUME NEW l \in Ls, NEW c \in Checks, Notify(l, c)
        PROVE  FailedSoFar'
    BY <1>6, NotifyFields DEF FailedSoFar
  <1>7. CASE Commit
    BY <1>7, CommitFields DEF FailedSoFar
  <1>8. CASE Exit
    <2>1. /\ check'.pc = ExitStatus /\ check'.try = check.try
          /\ check.pc = "committed" /\ UNCHANGED <<rows, aborts>>
      BY <1>8, FreshFields DEF Exit, Ended
    <2>. SUFFICES ASSUME aborts = 0, ExitStatus \in {"queued", "failed"}
                  PROVE  \A n \in 1 .. check.try : n \in DOMAIN rows /\ ~ AllPassed(rows[n])
      BY <2>1 DEF FailedSoFar, AllPassed
    <2>2. ~ AllPassed(check.results)
      BY AfterFailureIs
    <2>3. check.try \in DOMAIN rows /\ ~ AllPassed(rows[check.try])
      BY <2>1, <2>2 DEF UpToNow
    <2>4. \A n \in 1 .. check.try - 1 : n \in DOMAIN rows /\ ~ AllPassed(rows[n])
      BY DEF ExitHonest
    <2>. QED
      BY <1>0, <2>3, <2>4
  <1>9. CASE Abort
    BY <1>0, <1>9 DEF Abort, FailedSoFar
  <1>. QED
    BY <1>1, <1>2, <1>3, <1>4, <1>5, <1>6, <1>7, <1>8, <1>9, QuietFields, Steps

LEMMA ExitHonestKept ==
  ASSUME CheckTypeOK, UpToNow, ExitHonest, FailedSoFar, [Next]_vars
  PROVE  ExitHonest'
  <1>0. check.try \in 0 .. MaxTries /\ MaxTries \in Nat /\ aborts \in Nat
    BY QualityAssumption DEF CheckTypeOK, CheckStates
  <1>1. CASE Quiet
    BY <1>1 DEF Quiet, ExitHonest, AllPassed
  <1>2. CASE Schedule
    <2>1. check'.pc = "queued" /\ check'.try = 0
      BY <1>2, FreshFields DEF Schedule
    <2>. QED
      BY <2>1 DEF ExitHonest
  <1>3. CASE Begin
    <2>1. /\ check.pc = "queued" /\ check'.pc = "begun" /\ check'.try = check.try + 1
          /\ UNCHANGED <<rows, aborts>>
      BY <1>3, FreshFields DEF Begin
    <2>2. check'.try - 1 = check.try
      BY <1>0, <2>1
    <2>3. aborts = 0 => \A n \in 1 .. check.try : n \in DOMAIN rows /\ ~ AllPassed(rows[n])
      BY <2>1 DEF FailedSoFar
    <2>. QED
      BY <2>1, <2>2, <2>3 DEF ExitHonest, AllPassed
  <1>4. CASE ListLocations
    BY <1>4, ListFields DEF ExitHonest, AllPassed
  <1>5. ASSUME NEW l \in Ls, Examine(l)
        PROVE  ExitHonest'
    BY <1>5, ExamineFields DEF ExitHonest, AllPassed
  <1>6. ASSUME NEW l \in Ls, NEW c \in Checks, Notify(l, c)
        PROVE  ExitHonest'
    BY <1>6, NotifyFields DEF ExitHonest, AllPassed
  <1>7. CASE Commit
    <2>1. /\ check'.pc = "committed" /\ check'.try = check.try /\ aborts' = aborts
          /\ DOMAIN rows' = DOMAIN rows \cup {check.try}
          /\ \A n \in DOMAIN rows \ {check.try} : rows'[n] = rows[n]
      BY <1>7, CommitFields
    <2>2. ASSUME aborts = 0, NEW n \in 1 .. check.try - 1
          PROVE  n \in DOMAIN rows' /\ ~ AllPassed(rows'[n])
      <3>1. n \in DOMAIN rows /\ ~ AllPassed(rows[n])
        BY <2>2 DEF ExitHonest
      <3>2. n # check.try
        BY <1>0
      <3>. QED
        BY <2>1, <3>1, <3>2
    <2>. QED
      BY <2>1, <2>2 DEF ExitHonest, AllPassed
  <1>8. CASE Exit
    <2>1. /\ check'.pc = ExitStatus /\ check'.try = check.try
          /\ check.pc = "committed" /\ UNCHANGED <<rows, aborts>>
      BY <1>8, FreshFields DEF Exit, Ended
    <2>2. check.try \in DOMAIN rows /\ rows[check.try] = check.results
      BY <2>1 DEF UpToNow
    <2>3. ExitStatus = "success" => AllPassed(rows[check.try])
      BY <2>2, AfterFailureIs
    <2>4. ExitStatus = "failed" => check.try = MaxTries /\ ~ AllPassed(rows[check.try])
      BY <1>0, <2>2, AfterFailureIs
    <2>. QED
      BY <2>1, <2>2, <2>3, <2>4 DEF ExitHonest, AllPassed
  <1>9. CASE Abort
    <2>1. aborts' # 0 /\ check'.pc # "success"
      BY <1>0, <1>9, FreshFields, AfterFailureIs DEF Abort, Ended
    <2>. QED
      BY <2>1 DEF ExitHonest
  <1>. QED
    BY <1>1, <1>2, <1>3, <1>4, <1>5, <1>6, <1>7, <1>8, <1>9, QuietFields, Steps

--------------------------------------------------------------------------------
(* The theorems.                                                           *)

LEMMA InitInv == Init => IndInv
  <1>. SUFFICES ASSUME Init PROVE IndInv
    OBVIOUS
  <1>1. check = Fresh("idle", 0) /\ alerts = {} /\ rows = NoResults /\ aborts = 0
    BY DEF Init, CheckInit
  <1>2. WorldTypeOK
    BY WorldAssumption DEF Init, WorldInit, WorldTypeOK, Observations
  <1>3. CheckTypeOK
    <2>1. 0 \in 0 .. MaxTries /\ aborts \in 0 .. MaxAborts
      BY <1>1, QualityAssumption
    <2>. QED
      BY <1>1, <2>1, FreshType, NoResultsType DEF CheckTypeOK
  <1>4. check.pc = "idle" /\ check.try = 0 /\ DOMAIN rows = {}
    BY <1>1, FreshFields, NoResultsType
  <1>5. UpToNow /\ ToldSoFar /\ FailedSoFar
    BY <1>1, <1>4 DEF UpToNow, ToldSoFar, FailedSoFar, Trying
  <1>6. AlertsMatchRecord /\ ExitHonest
    BY <1>4 DEF AlertsMatchRecord, ExitHonest
  <1>7. TypeOK
    BY <1>2, <1>3, TypeParts DEF WorldTypeOK
  <1>. QED
    BY <1>5, <1>6, <1>7 DEF IndInv

LEMMA StepInv == IndInv /\ [Next]_vars => IndInv'
  <1>. SUFFICES ASSUME IndInv, [Next]_vars PROVE IndInv'
    OBVIOUS
  <1>1. /\ WorldTypeOK /\ CheckTypeOK /\ active \subseteq Ls
        /\ UpToNow /\ ToldSoFar /\ FailedSoFar /\ AlertsMatchRecord /\ ExitHonest
    BY TypeParts DEF IndInv
  <1>2. WorldTypeOK'
    <2>1. CASE TimePasses \/ WorldChanges
      BY <1>1, <2>1, WorldTypeKept
    <2>2. CASE UNCHANGED world
      BY <1>1, <2>2 DEF world, WorldTypeOK
    <2>3. Step \/ Abort => UNCHANGED world
      BY DEF Step, Abort, Schedule, Begin, ListLocations, Commit, Exit, Examine, Notify, world
    <2>. QED
      BY <2>1, <2>2, <2>3 DEF Next, vars, world
  <1>3. CheckTypeOK'
    BY <1>1, CheckTypeKept
  <1>4. TypeOK'
    BY <1>2, <1>3 DEF TypeOK, WorldTypeOK, CheckTypeOK
  <1>5. UpToNow' /\ ToldSoFar'
    BY <1>1, UpToNowKept, ToldSoFarKept
  <1>6. FailedSoFar' /\ ExitHonest'
    BY <1>1, FailedSoFarKept, ExitHonestKept
  <1>7. AlertsMatchRecord'
    BY <1>1, AlertsMatchRecordKept
  <1>. QED
    BY <1>4, <1>5, <1>6, <1>7 DEF IndInv

\* IndInv is an invariant of the monitoring.
THEOREM Invariance == Spec => []IndInv
  BY InitInv, StepInv, PTL DEF Spec

\* The variables stay in their types; what the session holds are the results of
\* the locations that were listed and have been examined.
THEOREM TypeCorrect == Spec => []TypeOK
  <1>1. IndInv => TypeOK
    BY DEF IndInv
  <1>. QED
    BY <1>1, Invariance, PTL

\* Of a try that is in the table, exactly the critical failures were alerted,
\* although run_all_checks alerts before it commits and any try may be aborted.
THEOREM AlertsHonest == Spec => []AlertsMatchRecord
  <1>1. IndInv => AlertsMatchRecord
    BY DEF IndInv
  <1>. QED
    BY <1>1, Invariance, PTL

\* A successful DAG run has recorded a try without failures, and a try is only
\* repeated, or the run failed, over a recorded failure or an abort.
THEOREM ExitIsHonest == Spec => []ExitHonest
  <1>1. IndInv => ExitHonest
    BY DEF IndInv
  <1>. QED
    BY <1>1, Invariance, PTL

--------------------------------------------------------------------------------
(* Quality implements QualityLog.                                          *)

\* The results of a try that is through judge the locations it has listed.
LEMMA ResultsDomain ==
  ASSUME NEW results \in Results
  PROVE  results \in [DOMAIN results -> Log!Judgements]
  <1>1. PICK S \in SUBSET Ls : results \in [S -> Judgements]
    BY DEF Results
  <1>. QED
    BY <1>1 DEF Judgements, Log!Judgements

\* The commit is the step of the log that records the try.
LEMMA CommitRecords ==
  ASSUME IndInv, Commit
  PROVE  \E n \in 1 .. MaxTries : Log!Record(n)
  <1>1. CheckTypeOK /\ UpToNow /\ ToldSoFar
    BY TypeParts DEF IndInv
  <1>2. /\ check.pc = "examining" /\ check.todo = {}
        /\ DOMAIN rows' = DOMAIN rows \cup {check.try} /\ rows'[check.try] = check.results
        /\ \A n \in DOMAIN rows \ {check.try} : rows'[n] = rows[n]
    BY <1>1, CommitFields DEF Commit, Checked
  <1>3. check.try \in 1 .. MaxTries /\ check.try \notin DOMAIN rows
    BY <1>1, <1>2, QualityAssumption DEF UpToNow, Trying, CheckTypeOK, CheckStates
  <1>4. check.results \in Results /\ DOMAIN check.results = check.listed
    BY <1>1, <1>2 DEF CheckTypeOK, CheckStates
  <1>5. rows'[check.try] \in [check.listed -> Log!Judgements]
    BY <1>2, <1>4, ResultsDomain
  <1>6. Log!CriticalOf(check.try, rows'[check.try]) = Log!AlertsOf(check.try)
    BY <1>1, <1>2, ToldAtTheEnd
  <1>7. UNCHANGED <<active, check.listed, alerts>>
    BY <1>1 DEF Commit, world, CheckTypeOK, CheckStates
  <1>8. \A m \in DOMAIN rows : rows'[m] = rows[m]
    BY <1>2, <1>3
  <1>9. Log!Record(check.try)
    BY <1>2, <1>3, <1>5, <1>6, <1>7, <1>8 DEF Log!Record
  <1>. QED
    BY <1>3, <1>9

\* A call of the alert hook is an alert of the log, about a listed location.
LEMMA NotifyAlerts ==
  ASSUME IndInv, NEW l \in Ls, NEW c \in Checks, Notify(l, c)
  PROVE  \E n \in 1 .. MaxTries : Log!Alert(n, l, c)
  <1>1. CheckTypeOK /\ UpToNow /\ ToldSoFar
    BY TypeParts DEF IndInv
  <1>2. /\ check.pc = "notifying" /\ <<l, c>> \in check.pending /\ rows' = rows
        /\ alerts' = alerts \cup {<<check.try, l, c>>}
    BY <1>1, NotifyFields
  <1>3. check.try \in 1 .. MaxTries /\ check.try \notin DOMAIN rows
    BY <1>1, <1>2, QualityAssumption DEF UpToNow, Trying, CheckTypeOK, CheckStates
  <1>4. Found(check.results, l, c)
    BY <1>1, <1>2, ToldIs DEF Told, Trying
  <1>5. l \in check.listed
    BY <1>1, <1>4 DEF Found, CheckTypeOK
  <1>6. UNCHANGED <<active, check.listed, rows>>
    BY <1>1 DEF Notify, world, CheckTypeOK, CheckStates
  <1>7. Log!Alert(check.try, l, c)
    BY <1>2, <1>3, <1>5, <1>6 DEF Log!Alert
  <1>. QED
    BY <1>3, <1>7

LEMMA StepRefines ==
  ASSUME IndInv, IndInv', [Next]_vars
  PROVE  [Log!LogNext]_(Log!logVars)
  <1>. USE DEF Log!LogNext, Log!logVars
  <1>0. CheckTypeOK /\ CheckTypeOK' /\ active' \subseteq Ls
    BY DEF IndInv, TypeOK, CheckTypeOK, WorldTypeOK
  <1>1. CASE TimePasses /\ CheckAges
    <2>1. check'.listed = check.listed
      BY <1>0, <1>1 DEF CheckAges, CheckTypeOK, CheckStates
    <2>. QED
      BY <1>1, <2>1 DEF TimePasses, CheckAges
  <1>2. CASE WorldChanges /\ UNCHANGED monitoring
    <2>1. UNCHANGED <<check, alerts, rows>>
      BY <1>2 DEF monitoring
    <2>. QED
      BY <1>0, <2>1 DEF Log!Change
  <1>3. CASE Schedule
    <2>1. check'.listed = {}
      BY <1>3 DEF Schedule, Fresh
    <2>2. rows' = Log!Nothing /\ alerts' = {} /\ active' = active
      BY <1>3 DEF Schedule, NoResults, Log!Nothing, world
    <2>. QED
      BY <2>1, <2>2 DEF Log!NewRun
  <1>4. CASE Begin \/ Exit \/ Abort
    <2>1. check'.listed = {}
      BY <1>4 DEF Begin, Exit, Abort, Ended, Fresh
    <2>2. UNCHANGED <<active, alerts, rows>>
      BY <1>4 DEF Begin, Exit, Abort, world
    <2>. QED
      BY <2>1, <2>2 DEF Log!Survey
  <1>5. CASE ListLocations
    <2>1. check'.listed = active /\ UNCHANGED <<active, alerts, rows>>
      BY <1>0, <1>5 DEF ListLocations, CheckTypeOK, CheckStates, world
    <2>. QED
      BY <2>1 DEF Log!Survey
  <1>6. ASSUME NEW l \in Ls, Examine(l)
        PROVE  UNCHANGED <<active, check.listed, alerts, rows>>
    BY <1>0, <1>6 DEF Examine, CheckTypeOK, CheckStates, world
  <1>7. ASSUME NEW l \in Ls, NEW c \in Checks, Notify(l, c)
        PROVE  Log!LogNext
    BY <1>7, NotifyAlerts
  <1>8. CASE Commit
    BY <1>8, CommitRecords
  <1>9. CASE UNCHANGED vars
    BY <1>9 DEF vars
  <1>. QED
    BY <1>1, <1>2, <1>3, <1>4, <1>5, <1>6, <1>7, <1>8, <1>9 DEF Next, Step

\* A try leaves nothing in the table or, in one step, the results of all
\* locations it listed; and only after its alerts.
THEOREM Implementation == Spec => ImplementsLog
  <1>1. Init => Log!LogInit
    BY DEF Init, WorldInit, CheckInit, Fresh, NoResults, Log!LogInit, Log!Nothing
  <1>2. IndInv /\ IndInv' /\ [Next]_vars => [Log!LogNext]_(Log!logVars)
    BY StepRefines
  <1>. QED
    BY <1>1, <1>2, Invariance, PTL DEF Spec, ImplementsLog, Log!LogSpec
================================================================================
