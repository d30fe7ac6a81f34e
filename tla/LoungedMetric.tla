--------------------------- MODULE LoungedMetric ---------------------------
(***************************************************************************)
(* One struct sq_record and the calls of update_lounged_metric() and       *)
(* flush_sq_record() on it (metrics.c), with the loop that ages the        *)
(* average taken round by round.  Who calls with which sequence numbers is *)
(* left open: any probe up to ProbeRange, any number and any maximum, so   *)
(* what holds here holds for the path metrics (longtm_sqr, recent_sqr) and *)
(* the link metrics (rq_sqr, rtq_sqr) alike.                               *)
(***************************************************************************)
EXTENDS SqRecord

CONSTANTS
    Ws,          \* the window size of the record
    Idle         \* no call is under way

ASSUME WsAssumption == Ws \in Nat /\ Ws >= 2
Call == [probe : 0 .. ProbeRange, upto : Sqn, rounds : 0 .. Ws]
ASSUME IdleAssumption == Idle \notin Call

VARIABLES
    sqr,     \* the record
    call     \* the call of update_lounged_metric() under way, or Idle

metricVars == <<sqr, call>>

MetricInit == sqr = NoRecord /\ call = Idle

(* flush_sq_record() *)
Flush ==
    /\ call = Idle
    /\ sqr' = Flushed(sqr)
    /\ UNCHANGED call

(* Mutant: the loop starts at one. *)
EnterLate(probe, incm, max) ==
    LET s == Upto(probe, Lounge, incm, max)
        n == Ahead(s, sqr.clr)
    IN
    /\ call = Idle
    /\ Due(sqr, probe, Lounge, max)
    /\ call' = [probe |-> probe, upto |-> s,
                rounds |-> IF n >= Ws \/ n = 0 THEN 0 ELSE n - 1]
    /\ sqr' = IF n >= Ws THEN [sqr EXCEPT !.unscaled = 0] ELSE sqr

(* update_lounged_metric() up to its loop; a jump beyond the window        *)
(* forgets everything.                                                     *)
Enter(probe, incm, max) ==
    LET s == Upto(probe, Lounge, incm, max)
        n == Ahead(s, sqr.clr)
    IN
    /\ call = Idle
    /\ Due(sqr, probe, Lounge, max)
    /\ call' = [probe |-> probe, upto |-> s, rounds |-> IF n >= Ws THEN 0 ELSE n]
    /\ sqr' = IF n >= Ws THEN [sqr EXCEPT !.unscaled = 0] ELSE sqr

Round ==
    /\ call # Idle /\ call.rounds > 0
    /\ sqr' = [sqr EXCEPT !.unscaled = AgedOnce(@, Weight(Ws))]
    /\ call' = [call EXCEPT !.rounds = @ - 1]

Return ==
    /\ call # Idle /\ call.rounds = 0
    /\ sqr' = Probed(sqr, call.upto, sqr.unscaled, call.probe, Weight(Ws))
    /\ call' = Idle

MetricNext ==
    \/ Flush
    \/ \E probe \in 0 .. ProbeRange, incm, max \in Sqn : Enter(probe, incm, max)
    \/ Round
    \/ Return

MetricSpec == MetricInit /\ [][MetricNext]_metricVars

-----------------------------------------------------------------------------
(* Types; in particular the unsigned average never drops below zero.       *)
MetricTypeOK ==
    /\ sqr \in Record
    /\ call \in Call \cup {Idle}

(* A quality is a share of PROBE_RANGE: however probes, losses, jumps and  *)
(* re-ordered numbers follow each other, the average never exceeds the     *)
(* range.  tq_rate(), the lottery in process_ogm() and the hysteresis in   *)
(* update_orig() compare it with values of that range.                     *)
WithinRange == call = Idle => Val(sqr) <= ProbeRange

(* What one probe adds, and the most the average can hold. *)
Step == (ProbeRange * Scale) \div Weight(Ws)
Limit == Step * Weight(Ws)

(* The inductive strengthening: room for a probe is made before it is      *)
(* counted, because a number that was not the last one counted can only be *)
(* reached by ageing at least once.  "aged": the loop has made room, or    *)
(* will before it returns.                                                 *)
Room == sqr.unscaled <= Limit - Step
WithinLimit == sqr.unscaled <= Limit
RoomForProbe ==
    /\ WithinLimit
    /\ call = Idle => sqr.set = sqr.clr \/ Room
    /\ call # Idle => Room \/ call.rounds > 0 \/ (sqr.set = sqr.clr /\ call.upto = sqr.clr)
=============================================================================
