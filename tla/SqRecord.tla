------------------------------ MODULE SqRecord ------------------------------
(***************************************************************************)
(* Sequence numbers and the weighted averages bmxd keeps over them: struct *)
(* sq_record and the functions of metrics.c that change it.                *)
(*                                                                         *)
(* A sequence number is a SQ_TYPE (uint16_t): all differences are taken    *)
(* modulo SqMod.                                                           *)
(***************************************************************************)
EXTENDS Integers

CONSTANTS
    SqMod,       \* 2^16
    Scale,       \* WA_SCALE_FACTOR
    FlushGap,    \* MAX_PATH_LOUNGE + MAX_PWS + 1
    Lounge,      \* my_path_lounge, RQ_LINK_LOUNGE or local_rtq_lounge
    ProbeRange   \* PROBE_RANGE

ASSUME SqAssumption == /\ SqMod \in Nat \ {0} /\ Scale \in Nat \ {0}
                       /\ FlushGap \in Nat
ASSUME LoungeAssumption == Lounge \in Nat
ASSUME ProbeAssumption == ProbeRange \in Nat

Sqn == 0 .. SqMod - 1

(* ((SQ_TYPE)( s - t )) *)
Ahead(s, t) == (s - t) % SqMod

(* struct sq_record: up to which sequence number the average was aged, the *)
(* last one that was counted, and the average itself, scaled.  wa_val is   *)
(* wa_unscaled without the scale.                                          *)
Record == [clr : Sqn, set : Sqn, unscaled : Nat]

NoRecord == [clr |-> 0, set |-> 0, unscaled |-> 0]      \* memset()

Val(r) == r.unscaled \div Scale

(* flush_sq_record() *)
Flushed(r) == LET s == Ahead(r.clr, FlushGap)
              IN  [clr |-> s, set |-> s, unscaled |-> 0]

(* update_lounged_metric(): is there anything to do, and up to which       *)
(* sequence number.  A probe counts now; without one the average ages only *)
(* once the sequence number has left the lounge.                           *)
Due(r, probe, lounge, max) == probe # 0 \/ Ahead(max, r.clr) > lounge

Upto(probe, lounge, incm, max) == IF probe # 0 THEN incm ELSE Ahead(max, lounge)

Weight(ws) == ws \div 2         \* m_weight

(* Mutant: the unscaled average is aged by the scaled one. *)
AgedOnceByVal(u, w) == u - ((u \div Scale) \div w)

(* One round of the loop that ages the average. *)
AgedOnce(u, w) == u - (u \div w)

(* What the loop makes of u in n rounds. *)
Aged(u, w, n) ==
    LET after[k \in 0 .. n] == IF k = 0 THEN u ELSE AgedOnce(after[k - 1], w)
    IN  after[n]

(* The end of update_lounged_metric(): the record is aged up to s, and the *)
(* probe counted unless this sequence number was the last one counted.     *)
(* Mutant: every probe is counted. *)
ProbedAlways(r, s, u, probe, w) ==
    [clr |-> s, set |-> IF probe # 0 THEN s ELSE r.set,
     unscaled |-> u + (probe * Scale) \div w]

Probed(r, s, u, probe, w) ==
    IF probe = 0 \/ r.set = s THEN [clr |-> s, set |-> r.set, unscaled |-> u]
    ELSE [clr |-> s, set |-> s, unscaled |-> u + (probe * Scale) \div w]

(* update_lounged_metric() as a whole. *)
Updated(r, probe, lounge, incm, max, ws) ==
    LET s == Upto(probe, lounge, incm, max)
        n == Ahead(s, r.clr)
        u == IF n >= ws THEN 0 ELSE Aged(r.unscaled, Weight(ws), n)
    IN  IF Due(r, probe, lounge, max) THEN Probed(r, s, u, probe, Weight(ws)) ELSE r
=============================================================================
