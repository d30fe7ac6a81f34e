---------------------------- MODULE AtomicMetric ----------------------------
(***************************************************************************)
(* What a caller of update_lounged_metric() sees: the record changes once  *)
(* per call, to Updated of what it was.  The other modules use Updated.    *)
(***************************************************************************)
EXTENDS SqRecord

CONSTANT Ws

VARIABLE sqr

Init == sqr = NoRecord

Flush == sqr' = Flushed(sqr)

Update(probe, incm, max) == sqr' = Updated(sqr, probe, Lounge, incm, max, Ws)

Next ==
    \/ Flush
    \/ \E probe \in 0 .. ProbeRange, incm, max \in Sqn : Update(probe, incm, max)

Spec == Init /\ [][Next]_sqr
=============================================================================
