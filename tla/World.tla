---------------------------------- MODULE World ----------------------------------
(***************************************************************************)
(* What the monitoring and the dashboard look at: the active locations and *)
(* the latest observation of each, which ingestion keeps fresh or fails    *)
(* to; and which of the two is deployed.  Modules Quality and Dashboard    *)
(* extend this one, module Platform puts them together.                    *)
(*                                                                         *)
(* Time is kept as ages, not as a clock: the age of the latest observation *)
(* of a location.  An age that is above everything it is ever compared     *)
(* with grows no more.  Of an observation only what the data-quality       *)
(* checks tell apart is kept.                                              *)
(***************************************************************************)
EXTENDS Integers, FiniteSets

CONSTANTS
  Ls,           \* locations
  Measurements, \* what observations may hold
  Deployments,  \* sets of services that may be deployed together
  OldestAge,    \* ages from here on are not told apart
  MaxLag,       \* bound: age of a reading when it is stored
  MaxReadings,  \* bound: observations stored
  MaxSwitches   \* bound: times is_active is flipped

\* Each of the three fields is NULL, within its range or out of it.
Fields == [temperature_c : {"null", "in", "out"}, humidity_pct : {"null", "in", "out"},
           pressure_hpa : {"null", "in", "out"}]

ASSUME MeasurementsAssumption == Measurements \subseteq Fields
ASSUME WorldAssumption ==
  /\ Ls \subseteq Nat \ {0} /\ Deployments \subseteq SUBSET {"monitoring", "dashboard"}
  /\ OldestAge \in Nat /\ MaxLag \in 0 .. OldestAge
  /\ MaxReadings \in Nat /\ MaxSwitches \in Nat

VARIABLES
  deployed,  \* the services that are deployed
  active,    \* the locations whose is_active is true
  newest,    \* newest[l]: the latest observation of l
  readings, switches

world == <<deployed, active, newest, readings, switches>>

NoFields      == [temperature_c |-> "none", humidity_pct |-> "none", pressure_hpa |-> "none"]
NoObservation == [age |-> OldestAge, fields |-> NoFields]
Observations  == [age : 0 .. OldestAge, fields : Measurements] \cup {NoObservation}

\* One unit of time later.
Older(age) == IF age < OldestAge THEN age + 1 ELSE age

TimePasses ==
  /\ newest' = [l \in Ls |-> [newest[l] EXCEPT !.age = Older(@)]]
  /\ UNCHANGED <<deployed, active, readings, switches>>

\* Ingestion commits a reading that is the latest of l, or overwrites the latest.
Observe(l, age, m) ==
  /\ readings < MaxReadings
  /\ age <= newest[l].age /\ [age |-> age, fields |-> m] # newest[l]
  /\ newest' = [newest EXCEPT ![l] = [age |-> age, fields |-> m]]
  /\ readings' = readings + 1
  /\ UNCHANGED <<deployed, active, switches>>

\* An operator flips is_active.
Switch(l) ==
  /\ switches < MaxSwitches
  /\ active' = (active \ {l}) \cup ({l} \ active)
  /\ switches' = switches + 1
  /\ UNCHANGED <<deployed, newest, readings>>

WorldChanges ==
  \E l \in Ls : Switch(l) \/ \E age \in 0 .. MaxLag, m \in Measurements : Observe(l, age, m)

WorldInit ==
  /\ deployed \in Deployments
  /\ active = Ls
  /\ newest = [l \in Ls |-> NoObservation]
  /\ readings = 0 /\ switches = 0

WorldTypeOK ==
  /\ deployed \in Deployments
  /\ active \subseteq Ls
  /\ newest \in [Ls -> Observations]
  /\ readings \in 0 .. MaxReadings /\ switches \in 0 .. MaxSwitches
================================================================================
