--------------------------------- MODULE Platform --------------------------------
(***************************************************************************)
(* The data-quality monitoring of module Quality and the dashboard of      *)
(* module Dashboard in one world: time passes for both, ingestion and the  *)
(* operator change what both look at, and neither changes anything that    *)
(* the other one sees.                                                     *)
(***************************************************************************)
EXTENDS Quality, Dashboard

platform == <<deployed, active, newest, readings, switches,
              check, alerts, rows, aborts,
              reachable, models, tab, outages, lost, choices>>

PlatformInit == WorldInit /\ CheckInit /\ PageInit

Monitor == (Step \/ Abort) /\ UNCHANGED page
Browse  == (PageStep \/ UserOrFault) /\ UNCHANGED <<world, monitoring>>

PlatformNext ==
  \/ TimePasses /\ CheckAges /\ PageAges
  \/ WorldChanges /\ UNCHANGED <<monitoring, page>>
  \/ Monitor
  \/ Browse

PlatformSpec == PlatformInit /\ [][PlatformNext]_platform

\* The DAG is scheduled for ever and a process that is not killed goes on; the
\* browser keeps the interval and a call ends, at the latest with its timeout;
\* nothing obliges readings to come or the API to recover.
FairPlatformSpec ==
  /\ PlatformSpec
  /\ WF_platform(Step /\ UNCHANGED page)
  /\ WF_platform(PageStep /\ UNCHANGED <<world, monitoring>>)

PlatformTypeOK == TypeOK /\ PageTypeOK
================================================================================
