-------------------------- MODULE MetricAtomicity --------------------------
(* The calls of LoungedMetric are atomic for whoever calls: the record he   *)
(* sees is the one before the call until the call returns.                  *)
EXTENDS LoungedMetric

VARIABLE before     \* history: the record when the call under way began

historyVars == <<metricVars, before>>

Kept == before' = IF call' = Idle THEN sqr' ELSE before

HistorySpec == MetricInit /\ before = NoRecord /\ [][MetricNext /\ Kept]_historyVars

Atomic == INSTANCE AtomicMetric WITH sqr <- before

(* The loop of update_lounged_metric(), round by round, does to the record *)
(* what Updated says in one step: the caller sees AtomicMetric.             *)
ImplementsAtomic == Atomic!Spec
=============================================================================
