-------------------------------- MODULE MCPlatform -------------------------------
(***************************************************************************)
(* A small instance of Platform for TLC.  The services do not touch each   *)
(* other: each of them is deployed alone, so that the numbers of their     *)
(* states add up rather than multiply.                                     *)
(***************************************************************************)
EXTENDS Platform

EachAlone == {{"monitoring"}, {"dashboard"}}

\* The second horizon has no model.
FirstOnly == {{1}}

Sound == [temperature_c |-> "in", humidity_pct |-> "in", pressure_hpa |-> "in"]

\* A sound reading, and one that fails both checks of its fields.
SoundAndBroken ==
  {Sound, [Sound EXCEPT !.temperature_c = "null", !.pressure_hpa = "out"]}
================================================================================
