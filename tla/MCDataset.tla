-------------------------------- MODULE MCDataset --------------------------------
(***************************************************************************)
(* Small instances of Dataset for TLC: a grid on which the tolerance and   *)
(* the horizon reach a few points.                                         *)
(***************************************************************************)
EXTENDS Dataset
================================================================================
