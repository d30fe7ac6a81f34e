---------------------------- MODULE MetricFading ----------------------------
(* What becomes of the average when a neighbour falls silent: from some    *)
(* moment on nothing is counted any more while the sequence number goes on.*)
EXTENDS LoungedMetric

VARIABLE quiet

fadingVars == <<sqr, call, quiet>>

(* One more sequence number without a probe. *)
Miss == Enter(0, 0, Ahead(sqr.clr, -(Lounge + 1)))

FadingInit == MetricInit /\ quiet = FALSE

Loud == ~quiet /\ MetricNext /\ quiet' \in BOOLEAN

Fade ==
    /\ quiet
    /\ Miss \/ Round \/ Return
    /\ UNCHANGED quiet

(* The originator, or in the case of rtq_sqr bmxd itself, keeps sending    *)
(* OGMs: weak fairness of Fade.                                            *)
FadingSpec == FadingInit /\ [][Loud \/ Fade]_fadingVars /\ WF_fadingVars(Fade)

-----------------------------------------------------------------------------
(* The quality of a silent neighbour fades to zero, although the integer   *)
(* division stops ageing it before the unscaled average is zero.  A route  *)
(* over it is then beaten by any other, and its link is not bidirectional. *)
Fades == quiet ~> (call = Idle /\ Val(sqr) = 0)
=============================================================================
