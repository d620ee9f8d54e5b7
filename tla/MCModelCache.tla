------------------------------ MODULE MCModelCache -------------------------------
(***************************************************************************)
(* Small instances of ModelCache for TLC.                                  *)
(***************************************************************************)
EXTENDS ModelCache

\* Only the second horizon has had a model from the start.
OnlySecond == {2}

\* The one horizon of the smallest instances has.
OnlyFirst == {1}
================================================================================
