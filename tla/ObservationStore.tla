---------------------------- MODULE ObservationStore ----------------------------
(***************************************************************************)
(* What ingestion promises to everyone who reads weather_db, with the      *)
(* transaction, the retries and the crashes left out: an execution of      *)
(* ingest_location either leaves nothing behind or is recorded in one      *)
(* step, its run, its raw answer and (for a reading) the observation row   *)
(* together.                                                               *)
(*                                                                         *)
(*   ledger  one entry per recorded execution: the pipeline run joined     *)
(*           with the raw row that refers to it                            *)
(*   view    core.weather_observations, one row per (location, time)       *)
(*                                                                         *)
(* Module Ingestion is shown to implement this specification.              *)
(***************************************************************************)
EXTENDS Naturals

CONSTANTS Locations, RunIds, Answers

VARIABLES ledger, view

storeVars == <<ledger, view>>

\* The execution `run` got a reading for location l: the run is a success and
\* the row of (location, observation time) now holds this reading.
RecordReading(run, l, a) ==
  /\ a.kind = "reading"
  /\ ledger' = ledger \cup
       {[run |-> run, location |-> l, answer |-> a, status |-> "success"]}
  /\ view' = [k \in DOMAIN view \cup {<<l, a.time>>} |->
                IF k = <<l, a.time>> THEN [value |-> a.value, run |-> run]
                                     ELSE view[k]]

\* weatherstack rejected the request of the execution `run`: the run has failed
\* and no observation row changes.
RecordRejection(run, l, a) ==
  /\ a.kind # "reading"
  /\ ledger' = ledger \cup
       {[run |-> run, location |-> l, answer |-> a, status |-> "failed"]}
  /\ UNCHANGED view

StoreInit == ledger = {} /\ view = [k \in {} |-> k]

StoreNext ==
  \E run \in RunIds, l \in Locations, a \in Answers :
    /\ \A e \in ledger : e.run # run
    /\ RecordReading(run, l, a) \/ RecordRejection(run, l, a)

StoreSpec == StoreInit /\ [][StoreNext]_storeVars
================================================================================
