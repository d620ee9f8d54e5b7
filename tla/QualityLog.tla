------------------------------- MODULE QualityLog --------------------------------
(***************************************************************************)
(* What the data-quality monitoring promises to whoever reads              *)
(* ops.data_quality_checks or is on call, with the transaction, the loop   *)
(* over the locations and the crashes left out: a try leaves nothing       *)
(* behind in the table, or in one step the results of all locations that   *)
(* were active when it looked; and by then exactly the critical failures   *)
(* among them have been alerted.                                           *)
(*                                                                         *)
(*   active  the locations whose is_active is true                         *)
(*   survey  the locations the try at hand has to judge                    *)
(*   alerts  the alerts of the DAG run at hand: (try, location, check)     *)
(*   rows    its rows in ops.data_quality_checks: try -> location -> check *)
(*                                                                         *)
(* Module Quality is shown to implement this specification.                *)
(***************************************************************************)
EXTENDS Naturals

CONSTANTS Ls, Tries, Checks, Verdicts

VARIABLES active, survey, alerts, rows

logVars == <<active, survey, alerts, rows>>

Nothing == [n \in {} |-> n]

IsCritical(v) == ~ v.passed /\ v.severity = "critical"

\* The critical failures among the results of one try, as alerts of try n.
CriticalOf(n, results) ==
  {<<n, p[1], p[2]>> : p \in
     {q \in (DOMAIN results) \X Checks :
        q[2] \in DOMAIN results[q[1]] /\ IsCritical(results[q[1]][q[2]])}}

AlertsOf(n) == {a \in alerts : a[1] = n}

\* Locations are activated and deactivated.
Change == active' \in SUBSET Ls /\ UNCHANGED <<survey, alerts, rows>>

\* A DAG run begins: what the previous one left is no longer looked at.
NewRun == alerts' = {} /\ rows' = Nothing /\ survey' = {} /\ UNCHANGED active

\* A try looks which locations are active, or starts over, or gives up.
Survey == survey' \in {active, {}} /\ UNCHANGED <<active, alerts, rows>>

\* Someone is alerted, before anything of the try can be seen in the table.
Alert(n, l, c) ==
  /\ n \notin DOMAIN rows /\ l \in survey
  /\ alerts' = alerts \cup {<<n, l, c>>}
  /\ UNCHANGED <<active, survey, rows>>

\* A complete judgement of a location: one check if it has no observation, or all.
Judgements == [{"freshness"} -> Verdicts] \cup [Checks -> Verdicts]

\* The results of try n become visible, those of earlier tries stay.
Record(n) ==
  /\ n \notin DOMAIN rows
  /\ DOMAIN rows' = DOMAIN rows \cup {n} /\ \A m \in DOMAIN rows : rows'[m] = rows[m]
  /\ rows'[n] \in [survey -> Judgements]
  /\ CriticalOf(n, rows'[n]) = AlertsOf(n)
  /\ UNCHANGED <<active, survey, alerts>>

LogInit == active = Ls /\ survey = {} /\ alerts = {} /\ rows = Nothing

LogNext ==
  \/ Change \/ NewRun \/ Survey
  \/ \E n \in Tries : Record(n) \/ \E l \in Ls, c \in Checks : Alert(n, l, c)

LogSpec == LogInit /\ [][LogNext]_logVars
================================================================================
