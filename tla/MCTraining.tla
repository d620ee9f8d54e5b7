------------------------------- MODULE MCTraining --------------------------------
(***************************************************************************)
(* Small instances of Training for TLC.                                    *)
(***************************************************************************)
EXTENDS Training, TLC

\* Nothing tells one training process from another.
Interchangeable == Permutations(Cycles)
================================================================================
