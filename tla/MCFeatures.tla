------------------------------- MODULE MCFeatures --------------------------------
(***************************************************************************)
(* Small instances of Features and Insights for TLC: hours 1 .. MaxTime, a *)
(* lookback and a history shorter than that, so that readings leave both.  *)
(* The functions of Signals are called in the initial state only, because  *)
(* their results do not depend on the state of the pipeline.               *)
(***************************************************************************)
EXTENDS Insights, Signals

MCInit == Init /\ call = NoCall

MCNext ==
  \/ Next /\ call = NoCall /\ UNCHANGED call
  \/ Init /\ Call /\ UNCHANGED vars

MCSpec ==
  /\ MCInit /\ [][MCNext]_<<now, obs, feats, builder, late, kills, call>>
  /\ \A b \in Builders : WF_vars(Step(b))
================================================================================
