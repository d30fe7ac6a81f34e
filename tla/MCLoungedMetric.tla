-------------------------- MODULE MCLoungedMetric --------------------------
(* MetricFading on small numbers, with the history MetricAtomicity needs.   *)
EXTENDS MetricFading, MetricAtomicity

mcVars == <<fadingVars, before>>

MCInit == FadingInit /\ before = NoRecord
MCNext == (Loud \/ Fade) /\ Kept
MCSpec == MCInit /\ [][MCNext]_mcVars /\ WF_fadingVars(Fade)
=============================================================================
