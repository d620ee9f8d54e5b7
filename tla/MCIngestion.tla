------------------------------- MODULE MCIngestion -------------------------------
(***************************************************************************)
(* Small instances of Ingestion for TLC.                                   *)
(***************************************************************************)
EXTENDS Ingestion, TLC

\* Processes, observation times and values are interchangeable; locations are
\* not: only some have a row.
Interchangeable ==
  Permutations(Tasks) \cup Permutations(Times) \cup Permutations(Values)
================================================================================
