---------------------------- MODULE MetricProofs ----------------------------
(***************************************************************************)
(* The average of update_lounged_metric() never exceeds PROBE_RANGE, and   *)
(* the loop that ages it comes to what the other modules take a call for:  *)
(* for every window size, lounge, scale and modulus, and for every         *)
(* sequence of calls.  Then the decision for a router that is taken with   *)
(* these averages: for any number of neighbours, any windows and any       *)
(* numbers, across wraps of the sequence number.                           *)
(***************************************************************************)
EXTENDS MetricAtomicity, PathDecision, WalkLemmas, FiniteSetTheorems, TLAPS

-----------------------------------------------------------------------------
(* Arithmetic.                                                             *)

(* A difference of sequence numbers is a sequence number. *)
LEMMA AheadIsSqn == ASSUME NEW s \in Int, NEW t \in Int PROVE Ahead(s, t) \in Sqn
  BY SqAssumption DEF Ahead, Sqn

LEMMA WeightPositive == Weight(Ws) \in Nat \ {0}
  BY WsAssumption DEF Weight

(* Integer division: quotient and remainder. *)
LEMMA DivFact ==
  ASSUME NEW u \in Nat, NEW w \in Nat \ {0}
  PROVE  /\ u \div w \in Nat
         /\ (u \div w) * w <= u
         /\ u < (u \div w) * w + w
  OBVIOUS

(* Nonlinear steps, one product at a time. *)
LEMMA TimesMonotone ==
  ASSUME NEW i \in Int, NEW j \in Int, NEW w \in Nat, i <= j
  PROVE  i * w <= j * w
  OBVIOUS

LEMMA AgedOnceIsNat ==
  ASSUME NEW u \in Nat, NEW w \in Nat \ {0}
  PROVE  AgedOnce(u, w) \in Nat /\ AgedOnce(u, w) <= u
PROOF
  <1> DEFINE q == u \div w
  <1>1. q \in Nat /\ q * w <= u
    BY DivFact
  <1>2. q * 1 <= q * w
    BY <1>1
  <1> QED
    BY <1>1, <1>2 DEF AgedOnce

(* One round makes room for one probe: if at most n probes of size 1/w fit *)
(* into u, then at most n of them minus n fit after the round.             *)
LEMMA AgingMakesRoom ==
  ASSUME NEW u \in Nat, NEW w \in Nat \ {0}, NEW n \in Nat, u <= n * w
  PROVE  AgedOnce(u, w) <= n * w - n
PROOF
  <1> DEFINE q == u \div w
  <1>1. q \in Nat /\ q * w <= u /\ u < q * w + w
    BY DivFact
  <1>2. n * w \in Nat /\ q * w \in Nat
    BY <1>1
  <1>3. CASE q >= n
    BY <1>1, <1>2, <1>3 DEF AgedOnce
  <1>4. CASE q < n
    <2>1. (q + 1) * w <= n * w /\ (q + 1) * w = q * w + w
      BY <1>1, <1>4, TimesMonotone
    <2>2. (w - 1) * (q + 1) <= (w - 1) * n
      <3>1. (q + 1) * (w - 1) <= n * (w - 1)
        BY <1>1, <1>4, TimesMonotone
      <3> QED BY <1>1, <3>1
    <2>3. (w - 1) * (q + 1) = q * w + w - q - 1
      BY <1>1
    <2>4. (w - 1) * n = n * w - n
      OBVIOUS
    <2> QED
      BY <1>1, <1>2, <2>2, <2>3, <2>4 DEF AgedOnce
  <1> QED
    BY <1>1, <1>3, <1>4

(* What a probe adds is at most Step, and Limit is in range. *)
LEMMA StepFacts ==
  /\ Step \in Nat /\ Limit \in Nat
  /\ Step <= Limit
  /\ Limit <= ProbeRange * Scale
  /\ Limit = Step * Weight(Ws)
PROOF
  <1>1. ProbeRange * Scale \in Nat
    BY ProbeAssumption, SqAssumption
  <1>2. Step \in Nat /\ Step * Weight(Ws) <= ProbeRange * Scale
    BY <1>1, WeightPositive, DivFact DEF Step
  <1>3. 1 * Step <= Weight(Ws) * Step
    BY <1>2, WeightPositive, TimesMonotone
  <1> QED
    BY <1>2, <1>3, WeightPositive DEF Limit

LEMMA ProbeAddsAtMostStep ==
  ASSUME NEW probe \in 0 .. ProbeRange
  PROVE  /\ (probe * Scale) \div Weight(Ws) \in Nat
         /\ (probe * Scale) \div Weight(Ws) <= Step
PROOF
  <1> DEFINE p == probe * Scale
             r == ProbeRange * Scale
             w == Weight(Ws)
  <1>1. p \in Nat /\ r \in Nat /\ p <= r
    BY ProbeAssumption, SqAssumption, TimesMonotone
  <1>2. w \in Nat \ {0}
    BY WeightPositive
  <1>3. /\ p \div w \in Nat /\ (p \div w) * w <= p
        /\ r \div w \in Nat /\ r < (r \div w) * w + w
    BY <1>1, <1>2, DivFact
  <1>4. ~ (p \div w >= (r \div w) + 1)
    <2>1. SUFFICES ASSUME p \div w >= (r \div w) + 1 PROVE FALSE
      OBVIOUS
    <2>2. ((r \div w) + 1) * w <= (p \div w) * w
      BY <1>2, <1>3, <2>1, TimesMonotone
    <2>3. ((r \div w) + 1) * w = (r \div w) * w + w
      BY <1>2, <1>3
    <2> QED
      BY <1>1, <1>2, <1>3, <2>2, <2>3
  <1> QED
    BY <1>3, <1>4 DEF Step

-----------------------------------------------------------------------------
(* The inductive invariant.                                                *)

LEMMA RecordFields ==
  ASSUME NEW r \in Record
  PROVE  r.clr \in Sqn /\ r.set \in Sqn /\ r.unscaled \in Nat
  BY DEF Record

LEMMA SqnIsInt == Sqn \subseteq Int /\ 0 \in Sqn
  BY SqAssumption DEF Sqn

LEMMA UptoIsSqn ==
  ASSUME NEW probe \in 0 .. ProbeRange, NEW incm \in Sqn, NEW max \in Sqn
  PROVE  Upto(probe, Lounge, incm, max) \in Sqn
  BY AheadIsSqn, SqnIsInt, LoungeAssumption DEF Upto

(* The call to which update_lounged_metric() comes down fits its type.     *)
LEMMA EnterTypes ==
  ASSUME MetricTypeOK, NEW probe \in 0 .. ProbeRange, NEW incm \in Sqn, NEW max \in Sqn,
         Enter(probe, incm, max)
  PROVE  /\ call' \in Call /\ sqr' \in Record
         /\ call'.upto = Upto(probe, Lounge, incm, max)
         /\ sqr'.clr = sqr.clr /\ sqr'.set = sqr.set
         /\ \/ sqr'.unscaled = 0
            \/ /\ sqr'.unscaled = sqr.unscaled
               /\ call'.rounds = Ahead(call'.upto, sqr.clr)
PROOF
  <1> DEFINE s == Upto(probe, Lounge, incm, max)
             n == Ahead(s, sqr.clr)
  <1>1. sqr \in Record /\ sqr.clr \in Sqn
    BY RecordFields DEF MetricTypeOK
  <1>2. s \in Sqn /\ n \in Nat
    <2>1. s \in Sqn
      BY UptoIsSqn
    <2>2. s \in Int /\ sqr.clr \in Int
      BY <1>1, <2>1, SqnIsInt
    <2>3. n \in Sqn
      BY <2>2, AheadIsSqn
    <2> QED
      BY <2>1, <2>3 DEF Sqn
  <1>3. call' = [probe |-> probe, upto |-> s, rounds |-> IF n >= Ws THEN 0 ELSE n]
    BY DEF Enter
  <1>4. sqr' = IF n >= Ws THEN [sqr EXCEPT !.unscaled = 0] ELSE sqr
    BY DEF Enter
  <1>5. call' \in Call
    BY <1>2, <1>3, WsAssumption DEF Call
  <1>6. sqr' \in Record
    BY <1>1, <1>4 DEF Record
  <1>7. CASE n >= Ws
    BY <1>1, <1>3, <1>4, <1>5, <1>6, <1>7 DEF Record
  <1>8. CASE ~(n >= Ws)
    BY <1>3, <1>4, <1>5, <1>6, <1>8
  <1> QED
    BY <1>7, <1>8

LEMMA RoundTypes ==
  ASSUME MetricTypeOK, Round
  PROVE  /\ call' \in Call /\ sqr' \in Record
         /\ call.upto = call'.upto /\ sqr'.clr = sqr.clr /\ sqr'.set = sqr.set
         /\ sqr'.unscaled = AgedOnce(sqr.unscaled, Weight(Ws))
PROOF
  <1>1. call \in Call /\ sqr \in Record /\ call.rounds > 0
    BY DEF MetricTypeOK, Round
  <1>2. AgedOnce(sqr.unscaled, Weight(Ws)) \in Nat
    BY <1>1, AgedOnceIsNat, WeightPositive, RecordFields
  <1>3. /\ sqr' = [sqr EXCEPT !.unscaled = AgedOnce(@, Weight(Ws))]
        /\ call' = [call EXCEPT !.rounds = @ - 1]
    BY DEF Round
  <1>4. call' \in Call /\ call'.upto = call.upto
    BY <1>1, <1>3, WsAssumption DEF Call
  <1> QED
    BY <1>1, <1>2, <1>3, <1>4 DEF Record

(* What the end of the call does to the record. *)
LEMMA ReturnTypes ==
  ASSUME MetricTypeOK, Return
  PROVE  /\ call' = Idle /\ sqr' \in Record
         /\ sqr'.clr = call.upto
         /\ \/ sqr'.unscaled = sqr.unscaled /\ sqr'.set = sqr.set
            \/ /\ sqr.set # call.upto /\ sqr'.set = call.upto
               /\ sqr'.unscaled <= sqr.unscaled + Step
PROOF
  <1> DEFINE add == (call.probe * Scale) \div Weight(Ws)
  <1>1. call \in Call /\ sqr \in Record
    BY DEF MetricTypeOK, Return
  <1>2. call.upto \in Sqn /\ call.probe \in 0 .. ProbeRange
    BY <1>1 DEF Call
  <1>3. add \in Nat /\ add <= Step /\ Step \in Nat
    BY <1>2, ProbeAddsAtMostStep, StepFacts
  <1>4. sqr' = Probed(sqr, call.upto, sqr.unscaled, call.probe, Weight(Ws)) /\ call' = Idle
    BY DEF Return
  <1>5. CASE call.probe = 0 \/ sqr.set = call.upto
    BY <1>1, <1>2, <1>4, <1>5, RecordFields DEF Probed, Record
  <1>6. CASE ~(call.probe = 0 \/ sqr.set = call.upto)
    <2>1. sqr' = [clr |-> call.upto, set |-> call.upto, unscaled |-> sqr.unscaled + add]
      BY <1>4, <1>6 DEF Probed
    <2>2. sqr.unscaled + add \in Nat /\ sqr.unscaled + add <= sqr.unscaled + Step
      BY <1>1, <1>3, RecordFields
    <2> QED
      BY <1>2, <1>4, <1>6, <2>1, <2>2 DEF Record
  <1> QED
    BY <1>5, <1>6

(* The record is always a record, and the unsigned average never wraps     *)
(* below zero when it is aged.                                             *)
THEOREM MetricTypes == MetricSpec => []MetricTypeOK
PROOF
  <1>1. MetricInit => MetricTypeOK
    BY SqnIsInt DEF MetricInit, MetricTypeOK, NoRecord, Record
  <1>2. MetricTypeOK /\ [MetricNext]_metricVars => MetricTypeOK'
    <2> SUFFICES ASSUME MetricTypeOK, [MetricNext]_metricVars PROVE MetricTypeOK'
      OBVIOUS
    <2>1. CASE Flush
      <3>1. Ahead(sqr.clr, FlushGap) \in Sqn
        <4>1. sqr.clr \in Sqn
          BY RecordFields DEF MetricTypeOK
        <4>2. sqr.clr \in Int
          BY <4>1, SqnIsInt
        <4>3. FlushGap \in Int
          BY SqAssumption
        <4> QED
          BY <4>2, <4>3, AheadIsSqn
      <3> QED
        BY <2>1, <3>1 DEF Flush, Flushed, MetricTypeOK, Record
    <2>2. ASSUME NEW probe \in 0 .. ProbeRange, NEW incm \in Sqn, NEW max \in Sqn,
                 Enter(probe, incm, max)
          PROVE  MetricTypeOK'
      BY <2>2, EnterTypes DEF MetricTypeOK
    <2>3. CASE Round
      BY <2>3, RoundTypes DEF MetricTypeOK
    <2>4. CASE Return
      BY <2>4, ReturnTypes DEF MetricTypeOK
    <2>5. CASE UNCHANGED metricVars
      BY <2>5 DEF metricVars, MetricTypeOK
    <2> QED
      BY <2>1, <2>2, <2>3, <2>4, <2>5 DEF MetricNext
  <1> QED
    BY <1>1, <1>2, PTL DEF MetricSpec

(* RoomForProbe is inductive relative to the types.                        *)
LEMMA RoomInitially == MetricInit => RoomForProbe
  BY StepFacts DEF MetricInit, NoRecord, RoomForProbe, WithinLimit, Room

LEMMA ZeroAheadIsEqual ==
  ASSUME NEW s \in Sqn, NEW t \in Sqn, Ahead(s, t) = 0 PROVE s = t
  BY SqAssumption DEF Ahead, Sqn

LEMMA RoomKept == MetricTypeOK /\ RoomForProbe /\ [MetricNext]_metricVars => RoomForProbe'
PROOF
  <1> SUFFICES ASSUME MetricTypeOK, RoomForProbe, [MetricNext]_metricVars PROVE RoomForProbe'
    OBVIOUS
  <1>0. sqr \in Record /\ sqr.unscaled \in Nat /\ sqr.clr \in Sqn /\ sqr.unscaled <= Limit
    BY RecordFields DEF MetricTypeOK, RoomForProbe, WithinLimit
  <1>1. CASE Flush
    BY <1>1, StepFacts DEF Flush, Flushed, RoomForProbe, WithinLimit, Room
  <1>2. ASSUME NEW probe \in 0 .. ProbeRange, NEW incm \in Sqn, NEW max \in Sqn,
               Enter(probe, incm, max)
        PROVE  RoomForProbe'
    <2>1. call' \in Call /\ call' # Idle /\ call = Idle
      BY <1>2, EnterTypes, IdleAssumption DEF Enter
    <2>2. call'.upto \in Sqn /\ sqr'.clr = sqr.clr /\ sqr'.set = sqr.set
      BY <1>2, EnterTypes, UptoIsSqn
    <2>3. CASE sqr'.unscaled = 0
      BY <2>1, <2>3, StepFacts DEF RoomForProbe, WithinLimit, Room
    <2>4. CASE sqr'.unscaled = sqr.unscaled /\ call'.rounds = Ahead(call'.upto, sqr.clr)
      <3>1. CASE call'.rounds = 0
        BY <1>0, <2>1, <2>2, <2>4, <3>1, ZeroAheadIsEqual DEF RoomForProbe, WithinLimit, Room
      <3>2. CASE call'.rounds # 0
        <4>1. call'.rounds > 0
          BY <2>1, <3>2, WsAssumption DEF Call
        <4> QED
          BY <1>0, <2>1, <2>4, <4>1 DEF RoomForProbe, WithinLimit, Room
      <3> QED
        BY <3>1, <3>2
    <2> QED
      BY <1>2, EnterTypes, <2>3, <2>4
  <1>3. CASE Round
    <2>1. sqr'.unscaled <= Limit - Step /\ sqr'.unscaled \in Nat
      BY <1>0, <1>3, RoundTypes, AgingMakesRoom, AgedOnceIsNat, WeightPositive, StepFacts
    <2>2. call' # Idle
      BY <1>3, RoundTypes, IdleAssumption
    <2> QED
      BY <2>1, <2>2, StepFacts DEF RoomForProbe, WithinLimit, Room
  <1>4. CASE Return
    <2>1. call # Idle /\ call' = Idle /\ sqr'.clr = call.upto /\ sqr'.unscaled \in Nat
      BY <1>4, ReturnTypes, RecordFields DEF Return
    <2>2. Room \/ (sqr.set = sqr.clr /\ call.upto = sqr.clr)
      BY <1>4, <2>1, IdleAssumption DEF Return, RoomForProbe, MetricTypeOK, Call
    <2>3. CASE sqr'.unscaled = sqr.unscaled /\ sqr'.set = sqr.set
      BY <1>0, <2>1, <2>2, <2>3 DEF RoomForProbe, WithinLimit, Room
    <2>4. CASE /\ sqr.set # call.upto /\ sqr'.set = call.upto
               /\ sqr'.unscaled <= sqr.unscaled + Step
      BY <1>0, <2>1, <2>2, <2>4, StepFacts DEF RoomForProbe, WithinLimit, Room
    <2> QED
      BY <1>4, ReturnTypes, <2>3, <2>4
  <1>5. CASE UNCHANGED metricVars
    BY <1>5 DEF metricVars, RoomForProbe, WithinLimit, Room
  <1> QED
    BY <1>1, <1>2, <1>3, <1>4, <1>5 DEF MetricNext

(* An average that fits the limit is a share of the probe range. *)
LEMMA LimitIsWithinRange == MetricTypeOK /\ RoomForProbe => WithinRange
PROOF
  <1> SUFFICES ASSUME MetricTypeOK, RoomForProbe PROVE Val(sqr) <= ProbeRange
    BY DEF WithinRange
  <1> DEFINE q == Val(sqr)
  <1>1. sqr.unscaled \in Nat /\ sqr.unscaled <= ProbeRange * Scale
    BY RecordFields, StepFacts, ProbeAssumption, SqAssumption
       DEF MetricTypeOK, RoomForProbe, WithinLimit
  <1>2. q \in Nat /\ q * Scale <= ProbeRange * Scale
    BY <1>1, DivFact, SqAssumption, ProbeAssumption DEF Val
  <1>3. ASSUME q >= ProbeRange + 1 PROVE FALSE
    <2>1. (ProbeRange + 1) * Scale <= q * Scale
      BY <1>2, <1>3, TimesMonotone, ProbeAssumption, SqAssumption
    <2>2. (ProbeRange + 1) * Scale = ProbeRange * Scale + Scale
      BY ProbeAssumption, SqAssumption
    <2> QED
      BY <1>2, <2>1, <2>2, ProbeAssumption, SqAssumption
  <1> QED
    BY <1>2, <1>3, ProbeAssumption

(* The inductive invariant holds throughout. *)
THEOREM MetricHasRoom == MetricSpec => []RoomForProbe
PROOF
  <1>1. MetricTypeOK /\ RoomForProbe /\ [MetricNext]_metricVars /\ MetricTypeOK' => RoomForProbe'
    BY RoomKept
  <1> QED
    BY <1>1, RoomInitially, MetricTypes, PTL DEF MetricSpec

(* Whatever is counted, lost, repeated or re-ordered, a link or path       *)
(* quality is never more than PROBE_RANGE.                                 *)
THEOREM MetricWithinRange == MetricSpec => []WithinRange
  BY MetricTypes, MetricHasRoom, LimitIsWithinRange, PTL

-----------------------------------------------------------------------------
(* The loop and the operator Aged.                                         *)

(* Aged is the last value of a function that ages n times.                 *)
Ages(f, u, w, n) ==
    /\ f \in [0 .. n -> Nat] /\ f[0] = u
    /\ \A k \in 1 .. n : f[k] = AgedOnce(f[k - 1], w)

LEMMA AgedIsLast ==
  ASSUME NEW u \in Nat, NEW w \in Nat \ {0}, NEW n \in Nat
  PROVE  \E f : Ages(f, u, w, n) /\ Aged(u, w, n) = f[n]
PROOF
  <1> DEFINE After(f) == f = [k \in 0 .. n |-> IF k = 0 THEN u ELSE AgedOnce(f[k - 1], w)]
             after == CHOOSE f : After(f)
             step == [p \in Nat \X (1 .. n) |-> AgedOnce(p[1], w)]
  <1>1. step \in [Nat \X (1 .. n) -> Nat]
    BY AgedOnceIsNat
  <1>2. PICK f : Walks(f, Nat, u, n, step)
    <2> HIDE DEF step
    <2> QED
      BY <1>1, WalkExists
  <1>3. Ages(f, u, w, n)
    <2>1. f \in [0 .. n -> Nat] /\ f[0] = u
      BY <1>2 DEF Walks
    <2>2. ASSUME NEW k \in 1 .. n PROVE f[k] = AgedOnce(f[k - 1], w)
      <3>1. <<f[k - 1], k>> \in Nat \X (1 .. n)
        BY <2>1
      <3> QED
        BY <1>2, <3>1 DEF Walks
    <2> QED
      BY <2>1, <2>2 DEF Ages
  <1>4. After(f)
    <2>1. \A k \in 0 .. n : f[k] = IF k = 0 THEN u ELSE AgedOnce(f[k - 1], w)
      BY <1>3 DEF Ages
    <2> QED
      BY <1>3, <2>1 DEF Ages
  <1>5. After(after)
    <2> HIDE DEF After
    <2> QED
      BY <1>4
  <1>6. Aged(u, w, n) = after[n]
    BY DEF Aged
  <1> HIDE DEF after
  <1>7. after[0] = u /\ \A k \in 1 .. n : after[k] = AgedOnce(after[k - 1], w)
    BY <1>5
  <1>8. f[n] = after[n]
    <2> HIDE DEF step, After
    <2>1. f[0] = after[0]
      BY <1>3, <1>7 DEF Ages
    <2>2. \A k \in 1 .. n : f[k - 1] = after[k - 1] => f[k] = after[k]
      BY <1>3, <1>7 DEF Ages
    <2> QED
      BY <2>1, <2>2, WalkUnique
  <1> QED
    BY <1>3, <1>6, <1>8

(* One more number, one more round.                                        *)
LEMMA AgedRoundByRound ==
  ASSUME NEW u \in Nat, NEW w \in Nat \ {0}
  PROVE  /\ Aged(u, w, 0) = u
         /\ \A n \in Nat : Aged(u, w, n + 1) = AgedOnce(Aged(u, w, n), w)
PROOF
  <1>1. Aged(u, w, 0) = u
    <2> DEFINE n == 0
    <2>1. n \in Nat
      OBVIOUS
    <2> HIDE DEF n
    <2>2. PICK f : Ages(f, u, w, n) /\ Aged(u, w, n) = f[n]
      BY <2>1, AgedIsLast
    <2> QED
      BY <2>2 DEF Ages, n
  <1>2. ASSUME NEW n \in Nat PROVE Aged(u, w, n + 1) = AgedOnce(Aged(u, w, n), w)
    <2>1. PICK f : Ages(f, u, w, n) /\ Aged(u, w, n) = f[n]
      BY AgedIsLast
    <2>2. n + 1 \in Nat
      OBVIOUS
    <2>3. PICK g : Ages(g, u, w, n + 1) /\ Aged(u, w, n + 1) = g[n + 1]
      BY <2>2, AgedIsLast
    <2>4. f[n] = g[n]
      <3>1. f[0] = g[0] /\ \A k \in 1 .. n : f[k - 1] = g[k - 1] => f[k] = g[k]
        BY <2>1, <2>3 DEF Ages
      <3> QED
        BY <3>1, WalkUnique
    <2>5. g[n + 1] = AgedOnce(g[n], w)
      BY <2>3 DEF Ages
    <2> QED
      BY <2>1, <2>3, <2>4, <2>5
  <1> QED
    BY <1>1, <1>2

-----------------------------------------------------------------------------
(* Calls are atomic.                                                       *)

(* A call with these arguments began when the record was "before", and has *)
(* gone round "done" times.                                                *)
Aging(probe, incm, max, done) ==
    LET n == Ahead(Upto(probe, Lounge, incm, max), before.clr)
    IN  IF n >= Ws THEN call.rounds = 0 /\ sqr.unscaled = 0
        ELSE done + call.rounds = n /\ sqr.unscaled = Aged(before.unscaled, Weight(Ws), done)

Called(probe, incm, max, done) ==
    /\ Due(before, probe, Lounge, max)
    /\ call.probe = probe /\ call.upto = Upto(probe, Lounge, incm, max)
    /\ sqr.clr = before.clr /\ sqr.set = before.set
    /\ Aging(probe, incm, max, done)

(* The invariant the refinement needs.                                     *)
BeforeKnown ==
    /\ before \in Record
    /\ call = Idle => before = sqr
    /\ call # Idle => \E probe \in 0 .. ProbeRange, incm, max \in Sqn, done \in Nat :
                         Called(probe, incm, max, done)

LEMMA EnterCalled ==
  ASSUME MetricTypeOK, BeforeKnown, NEW probe \in 0 .. ProbeRange, NEW incm \in Sqn, NEW max \in Sqn,
         Enter(probe, incm, max), Kept
  PROVE  BeforeKnown' /\ before' = before
PROOF
  <1> DEFINE s == Upto(probe, Lounge, incm, max)
             n == Ahead(s, sqr.clr)
  <1>1. call = Idle /\ before = sqr /\ Due(before, probe, Lounge, max)
    BY DEF Enter, BeforeKnown
  <1>2. call' # Idle /\ before' = before
    BY EnterTypes, IdleAssumption DEF Kept
  <1>3. /\ call'.probe = probe /\ call'.upto = s
        /\ call'.rounds = IF n >= Ws THEN 0 ELSE n
    BY DEF Enter
  <1>4. sqr'.clr = before.clr /\ sqr'.set = before.set
    BY <1>1, EnterTypes
  <1>5. sqr'.unscaled = IF n >= Ws THEN 0 ELSE before.unscaled
    BY <1>1, RecordFields DEF Enter, MetricTypeOK, Record
  <1>6. n \in Nat
    <2>1. s \in Int /\ sqr.clr \in Int
      BY UptoIsSqn, SqnIsInt, RecordFields DEF MetricTypeOK
    <2>2. n \in Sqn
      BY <2>1, AheadIsSqn
    <2> QED
      BY <2>2 DEF Sqn
  <1>7. Aged(before.unscaled, Weight(Ws), 0) = before.unscaled
    BY AgedRoundByRound, WeightPositive, RecordFields DEF BeforeKnown
  <1>8. Called(probe, incm, max, 0)'
    <2>1. Aging(probe, incm, max, 0)'
      BY <1>1, <1>2, <1>3, <1>5, <1>6, <1>7 DEF Aging
    <2> QED
      BY <1>1, <1>2, <1>3, <1>4, <2>1 DEF Called, Due
  <1> QED
    BY <1>2, <1>8 DEF BeforeKnown

LEMMA RoundCalled ==
  ASSUME MetricTypeOK, BeforeKnown, Round, Kept
  PROVE  BeforeKnown' /\ before' = before
PROOF
  <1>1. call' # Idle /\ call # Idle /\ before' = before
    BY RoundTypes, IdleAssumption DEF Kept, Round
  <1>2. PICK probe \in 0 .. ProbeRange, incm \in Sqn, max \in Sqn, done \in Nat :
            Called(probe, incm, max, done)
    BY <1>1 DEF BeforeKnown
  <1> DEFINE n == Ahead(Upto(probe, Lounge, incm, max), before.clr)
             w == Weight(Ws)
  <1>3. call \in Call /\ call.rounds > 0
    BY DEF Round, MetricTypeOK
  <1>4. call'.probe = call.probe /\ call'.upto = call.upto /\ call'.rounds = call.rounds - 1
    BY <1>3 DEF Round, Call
  <1>5. sqr'.clr = sqr.clr /\ sqr'.set = sqr.set /\ sqr'.unscaled = AgedOnce(sqr.unscaled, w)
    BY RoundTypes
  <1>6. /\ ~(n >= Ws) /\ done + call.rounds = n
        /\ sqr.unscaled = Aged(before.unscaled, w, done)
    BY <1>2, <1>3 DEF Called, Aging
  <1>7. sqr'.unscaled = Aged(before.unscaled, w, done + 1)
    BY <1>5, <1>6, AgedRoundByRound, WeightPositive, RecordFields DEF BeforeKnown
  <1>8. call.rounds \in Nat
    BY <1>3, WsAssumption DEF Call
  <1>9. Called(probe, incm, max, done + 1)'
    <2>1. Aging(probe, incm, max, done + 1)'
      BY <1>1, <1>4, <1>6, <1>7, <1>8 DEF Aging
    <2> QED
      BY <1>1, <1>2, <1>4, <1>5, <2>1 DEF Called, Due
  <1>10. done + 1 \in Nat
    OBVIOUS
  <1> QED
    BY <1>1, <1>9, <1>10 DEF BeforeKnown

(* AtomicMetric speaks of the same functions. *)
LEMMA SameFunctions ==
  /\ Atomic!NoRecord = NoRecord /\ Atomic!Sqn = Sqn
  /\ \A r : Atomic!Flushed(r) = Flushed(r)
  /\ \A r, probe, incm, max :
        Atomic!Updated(r, probe, Lounge, incm, max, Ws) = Updated(r, probe, Lounge, incm, max, Ws)
PROOF
  <1>1. Atomic!NoRecord = NoRecord /\ Atomic!Sqn = Sqn
    BY DEF Atomic!NoRecord, NoRecord, Atomic!Sqn, Sqn
  <1>2. \A s, t : Atomic!Ahead(s, t) = Ahead(s, t)
    BY DEF Atomic!Ahead, Ahead
  <1>3. \A r : Atomic!Flushed(r) = Flushed(r)
    BY <1>2 DEF Atomic!Flushed, Flushed
  <1>4. /\ Atomic!Weight(Ws) = Weight(Ws)
        /\ \A u, w : Atomic!AgedOnce(u, w) = AgedOnce(u, w)
        /\ \A r, s, u, probe, w : Atomic!Probed(r, s, u, probe, w) = Probed(r, s, u, probe, w)
    BY DEF Atomic!Weight, Weight, Atomic!AgedOnce, AgedOnce, Atomic!Probed, Probed
  <1>5. \A u, w, n : Atomic!Aged(u, w, n) = Aged(u, w, n)
    BY DEF Atomic!Aged, Aged, Atomic!AgedOnce, AgedOnce
  <1>6. \A r, probe, incm, max :
           /\ Atomic!Due(r, probe, Lounge, max) <=> Due(r, probe, Lounge, max)
           /\ Atomic!Upto(probe, Lounge, incm, max) = Upto(probe, Lounge, incm, max)
    BY <1>2 DEF Atomic!Due, Due, Atomic!Upto, Upto
  <1>7. \A r, probe, incm, max :
        Atomic!Updated(r, probe, Lounge, incm, max, Ws) = Updated(r, probe, Lounge, incm, max, Ws)
    BY <1>2, <1>4, <1>5, <1>6 DEF Atomic!Updated, Updated
  <1> QED
    BY <1>1, <1>3, <1>7

LEMMA ReturnCalled ==
  ASSUME MetricTypeOK, BeforeKnown, Return, Kept
  PROVE  BeforeKnown' /\ Atomic!Next
PROOF
  <1>1. call # Idle /\ call' = Idle /\ before' = sqr' /\ sqr' \in Record
    BY ReturnTypes DEF Kept, Return
  <1>2. PICK probe \in 0 .. ProbeRange, incm \in Sqn, max \in Sqn, done \in Nat :
            Called(probe, incm, max, done)
    BY <1>1 DEF BeforeKnown
  <1> DEFINE s == Upto(probe, Lounge, incm, max)
             n == Ahead(s, before.clr)
             w == Weight(Ws)
             u == IF n >= Ws THEN 0 ELSE Aged(before.unscaled, w, n)
  <1>3. sqr.unscaled = u
    BY <1>2 DEF Called, Aging, Return
  <1>4. sqr' = Probed(sqr, s, u, probe, w)
    BY <1>2, <1>3 DEF Called, Return
  <1>5. sqr' = Probed(before, s, u, probe, w)
    BY <1>2, <1>4 DEF Probed, Called
  <1>6. sqr' = Updated(before, probe, Lounge, incm, max, Ws)
    BY <1>2, <1>5 DEF Called, Updated
  <1> QED
    BY <1>1, <1>6, SameFunctions DEF BeforeKnown, Atomic!Next, Atomic!Update

LEMMA StepIsAtomic ==
  ASSUME MetricTypeOK, BeforeKnown, [MetricNext /\ Kept]_historyVars
  PROVE  BeforeKnown' /\ [Atomic!Next]_before
PROOF
  <1>1. CASE Flush /\ Kept
    <2>1. before = sqr /\ before' = sqr' /\ sqr' = Flushed(before) /\ call' = Idle
      BY <1>1 DEF Flush, Kept, BeforeKnown
    <2>2. sqr' \in Record
      <3> DEFINE clr == sqr.clr
      <3>0. clr \in Sqn
        BY RecordFields DEF MetricTypeOK
      <3>1. clr \in Int /\ FlushGap \in Int
        <4> HIDE DEF clr
        <4> QED
          BY <3>0, SqnIsInt, SqAssumption
      <3>2. Ahead(sqr.clr, FlushGap) \in Sqn
        BY <3>1, AheadIsSqn
      <3> QED
        BY <2>1, <3>2 DEF Flushed, Record
    <2> QED
      BY <2>1, <2>2, SameFunctions DEF BeforeKnown, Atomic!Next, Atomic!Flush
  <1>2. ASSUME NEW probe \in 0 .. ProbeRange, NEW incm \in Sqn, NEW max \in Sqn,
               Enter(probe, incm, max), Kept
        PROVE  BeforeKnown' /\ before' = before
    BY <1>2, EnterCalled
  <1>3. CASE Round /\ Kept
    BY <1>3, RoundCalled
  <1>4. CASE Return /\ Kept
    BY <1>4, ReturnCalled
  <1>5. CASE UNCHANGED historyVars
    BY <1>5 DEF historyVars, metricVars, BeforeKnown, Called, Aging, Due
  <1> QED
    BY <1>1, <1>2, <1>3, <1>4, <1>5 DEF MetricNext

(* Whoever calls update_lounged_metric() and flush_sq_record() sees the    *)
(* record change as Updated and Flushed say, once per call: what the path  *)
(* decision assumes of its metrics is what the loop does.                  *)
THEOREM CallsAreAtomic == HistorySpec => ImplementsAtomic
PROOF
  <1>1. MetricInit /\ before = NoRecord => BeforeKnown /\ Atomic!Init
    BY SqnIsInt, SameFunctions DEF MetricInit, NoRecord, Record, BeforeKnown, Atomic!Init
  <1>2. [MetricNext /\ Kept]_historyVars => [MetricNext]_metricVars
    BY DEF historyVars
  <1>3. HistorySpec => MetricSpec
    BY <1>2, PTL DEF HistorySpec, MetricSpec
  <1> QED
    BY <1>1, <1>3, StepIsAtomic, MetricTypes, PTL DEF HistorySpec, ImplementsAtomic, Atomic!Spec

-----------------------------------------------------------------------------
(* The decision for a router.                                              *)

(* OGMs overtake each other by less than the path window, or, if the       *)
(* lounge is smaller than it, by no more than the two together, and the    *)
(* window with all numbers that are told from each other fits into the     *)
(* numbers.  What is later looks like a first OGM after a restart.         *)
InTheWindow ==
    /\ Lag < Pws \/ (Lounge < Pws /\ Lag <= Pws + Lounge)
    /\ Pws + Far <= SqMod

-----------------------------------------------------------------------------
(* Sequence numbers.                                                       *)

(* Two numbers counted back from the same one differ by what was counted.  *)
LEMMA AheadOfTwo ==
  ASSUME NEW s \in Sqn, NEW i \in Nat, NEW j \in Nat, i < SqMod, j < SqMod
  PROVE  Ahead(Ahead(s, i), Ahead(s, j)) = IF i <= j THEN j - i ELSE SqMod + j - i
<1> DEFINE a == Ahead(s, i)
           b == Ahead(s, j)
<1>1. SqMod \in Nat /\ SqMod > 0 /\ s \in Int /\ 0 <= s /\ s < SqMod
  BY SqAssumption DEF Sqn
<1>2. a = IF s - i >= 0 THEN s - i ELSE s - i + SqMod
  BY <1>1 DEF Ahead
<1>3. b = IF s - j >= 0 THEN s - j ELSE s - j + SqMod
  BY <1>1 DEF Ahead
<1> HIDE DEF a, b
<1>4. a \in Int /\ b \in Int /\ a - b < SqMod /\ a - b > 0 - SqMod
  BY <1>1, <1>2, <1>3
<1>5. Ahead(a, b) = IF a - b >= 0 THEN a - b ELSE a - b + SqMod
  BY <1>1, <1>4 DEF Ahead
<1> QED
  BY <1>1, <1>2, <1>3, <1>4, <1>5 DEF a, b

(* What was counted back before the next number, is one more after it.     *)
LEMMA AheadOfNext ==
  ASSUME NEW s \in Sqn, NEW i \in Nat, i + 1 < SqMod
  PROVE  Ahead(Ahead(s, -1), i + 1) = Ahead(s, i)
<1>1. SqMod \in Nat /\ SqMod > 0 /\ s \in Int /\ 0 <= s /\ s < SqMod
  BY SqAssumption DEF Sqn
<1> DEFINE n == Ahead(s, -1)
<1>2. n = IF s + 1 = SqMod THEN 0 ELSE s + 1
  BY <1>1 DEF Ahead
<1> HIDE DEF n
<1>3. Ahead(n, i + 1) = IF n - (i + 1) >= 0 THEN n - (i + 1) ELSE n - (i + 1) + SqMod
  BY <1>1, <1>2 DEF Ahead
<1>4. Ahead(s, i) = IF s - i >= 0 THEN s - i ELSE s - i + SqMod
  BY <1>1 DEF Ahead
<1> QED
  BY <1>1, <1>2, <1>3, <1>4 DEF n

(* Counting back by less than all numbers gives another one each time.     *)
LEMMA AheadDiffers ==
  ASSUME NEW s \in Sqn, NEW i \in Nat, NEW j \in Nat, i < SqMod, j < SqMod,
         Ahead(s, i) = Ahead(s, j)
  PROVE  i = j
<1>1. SqMod \in Nat /\ SqMod > 0 /\ s \in Int
  BY SqAssumption DEF Sqn
<1> DEFINE a == Ahead(s, i)
<1>2. Ahead(a, Ahead(s, j)) = IF i <= j THEN j - i ELSE SqMod + j - i
  BY AheadOfTwo
<1>3. a \in Int /\ a = Ahead(s, j)
  <2>1. a \in Sqn
    BY <1>1, AheadIsSqn
  <2> QED
    BY <2>1, SqnIsInt
<1> HIDE DEF a
<1>4. Ahead(a, a) = 0
  BY <1>1, <1>3 DEF Ahead
<1> QED
  BY <1>1, <1>2, <1>3, <1>4

LEMMA AheadOfNone == ASSUME NEW s \in Sqn PROVE Ahead(s, 0) = s
  BY SqAssumption DEF Ahead, Sqn

-----------------------------------------------------------------------------
(* The averages.                                                           *)

LEMMA QuotientBound ==
  ASSUME NEW u \in Nat, NEW w \in Nat \ {0}
  PROVE  u \div w \in Nat /\ u \div w <= u
<1> DEFINE q == u \div w
<1>1. q \in Nat /\ q * w <= u
  OBVIOUS
<1> HIDE DEF q
<1>2. q <= q * w
  BY <1>1
<1> QED
  BY <1>1, <1>2 DEF q
(* The loop over the rounds takes no more away than there is. *)
LEMMA AgedNat ==
  ASSUME NEW u \in Nat, NEW w \in Nat \ {0}, NEW n \in Nat
  PROVE  Aged(u, w, n) \in Nat
<1> DEFINE After(f) == f = [k \in 0 .. n |-> IF k = 0 THEN u ELSE AgedOnce(f[k - 1], w)]
           after == CHOOSE f : After(f)
           step == [p \in Nat \X (1 .. n) |-> AgedOnce(p[1], w)]
<1>1. step \in [Nat \X (1 .. n) -> Nat]
  BY AgedOnceIsNat
<1>2. PICK f : Walks(f, Nat, u, n, step)
  <2> HIDE DEF step
  <2> QED
    BY <1>1, WalkExists
<1>3. After(f)
  <2>1. f \in [0 .. n -> Nat] /\ f[0] = u
    BY <1>2 DEF Walks
  <2>2. ASSUME NEW k \in 1 .. n PROVE f[k] = AgedOnce(f[k - 1], w)
    <3>1. k - 1 \in 0 .. n
      OBVIOUS
    <3>2. <<f[k - 1], k>> \in Nat \X (1 .. n)
      BY <2>1, <3>1
    <3> QED
      BY <1>2, <3>2 DEF Walks
  <2>3. \A k \in 0 .. n : f[k] = IF k = 0 THEN u ELSE AgedOnce(f[k - 1], w)
    BY <2>1, <2>2
  <2> QED
    BY <2>1, <2>3
<1>4. After(after)
  <2> HIDE DEF After
  <2> QED
    BY <1>3
<1>5. Aged(u, w, n) = after[n]
  BY DEF Aged
<1> HIDE DEF after
<1> DEFINE S == {k \in 0 .. n : after[k] \in Nat}
<1>6. 0 \in S
  BY <1>4
<1>7. \A k \in 1 .. n : k - 1 \in S => k \in S
  <2> SUFFICES ASSUME NEW k \in 1 .. n, after[k - 1] \in Nat PROVE after[k] \in Nat
    OBVIOUS
  <2>1. k \in 0 .. n /\ k # 0
    OBVIOUS
  <2>2. after[k] = AgedOnce(after[k - 1], w)
    BY <1>4, <2>1
  <2> QED
    BY <2>2, AgedOnceIsNat
<1>8. \A k \in 0 .. n : k \in S
  <2> HIDE DEF S
  <2> QED
    BY <1>6, <1>7, UpTo
<1> QED
  BY <1>5, <1>8

LEMMA WindowWeight == Weight(Pws) \in Nat \ {0}
  BY PwsAssumption DEF Weight

LEMMA ValNat ==
  ASSUME NEW r \in Record
  PROVE  Val(r) \in Nat /\ (r.unscaled = 0 => Val(r) = 0)
<1>1. r.unscaled \in Nat /\ Scale \in Nat \ {0}
  BY SqAssumption DEF Record
<1> QED
  BY <1>1, QuotientBound DEF Val

LEMMA FlushedRecord ==
  ASSUME NEW r \in Record
  PROVE  Flushed(r) \in Record /\ Flushed(r).unscaled = 0
<1>1. r.clr \in Int
  BY SqnIsInt DEF Record
<1>2. Ahead(r.clr, FlushGap) \in Sqn
  BY <1>1, SqAssumption, AheadIsSqn
<1> QED
  BY <1>2 DEF Flushed, Record

(* A probe of an acceptable number, or none, leaves a record that was aged *)
(* up to the lounge below the maximum.                                     *)
LEMMA UpdatedRecord ==
  ASSUME NEW r \in Record, NEW probe \in Nat, NEW s \in Sqn, NEW max \in Sqn,
         probe # 0 => Ahead(max, s) <= Lounge
  PROVE  /\ Updated(r, probe, Lounge, s, max, Pws) \in Record
         /\ Ahead(max, Updated(r, probe, Lounge, s, max, Pws).clr) <= Lounge
<1> DEFINE up == Upto(probe, Lounge, s, max)
           n == Ahead(up, r.clr)
           w == Weight(Pws)
           u == IF n >= Pws THEN 0 ELSE Aged(r.unscaled, w, n)
           e == Updated(r, probe, Lounge, s, max, Pws)
           add == (probe * Scale) \div w
<1>1. r.clr \in Sqn /\ r.set \in Sqn /\ r.unscaled \in Nat
  BY DEF Record
<1>2. Ahead(max, Lounge) \in Sqn /\ Ahead(max, Ahead(max, Lounge)) <= Lounge
  <2>1. max \in Int /\ 0 <= max /\ max < SqMod /\ SqMod \in Nat /\ SqMod > 0 /\ Lounge \in Nat
    BY SqAssumption, LoungeAssumption DEF Sqn
  <2> DEFINE a == Ahead(max, Lounge)
  <2>2. a \in Sqn
    BY <2>1, AheadIsSqn
  <2>3. CASE Lounge < SqMod
    <3>1. a = IF max - Lounge >= 0 THEN max - Lounge ELSE max - Lounge + SqMod
      BY <2>1, <2>3 DEF Ahead
    <3> HIDE DEF a
    <3>2. max - a = Lounge \/ max - a = Lounge - SqMod
      BY <2>1, <3>1
    <3>3. Ahead(max, a) = Lounge
      BY <2>1, <2>3, <3>2 DEF Ahead
    <3> QED
      BY <2>1, <2>2, <3>3 DEF a
  <2>4. CASE Lounge >= SqMod
    <3> HIDE DEF a
    <3>1. a \in Int
      BY <2>2, SqnIsInt
    <3>2. Ahead(max, a) \in 0 .. SqMod - 1
      BY <2>1, <3>1, AheadIsSqn DEF Sqn
    <3> QED
      BY <2>1, <2>2, <2>4, <3>2 DEF a
  <2> QED
    BY <2>1, <2>3, <2>4
<1>3. up \in Sqn
  BY <1>2 DEF Upto
<1>4. n \in Nat
  <2>1. up \in Int /\ r.clr \in Int
    BY <1>1, <1>3, SqnIsInt
  <2>2. n \in Sqn
    BY <2>1, AheadIsSqn
  <2> QED
    BY <2>2 DEF Sqn
<1>5. u \in Nat /\ add \in Nat
  <2>1. w \in Nat \ {0} /\ probe * Scale \in Nat
    BY WindowWeight, SqAssumption
  <2>2. Aged(r.unscaled, w, n) \in Nat
    BY <1>1, <1>4, <2>1, AgedNat
  <2> HIDE DEF w, n
  <2> QED
    BY <2>1, <2>2, QuotientBound
<1>6. Probed(r, up, u, probe, w) \in Record /\ Probed(r, up, u, probe, w).clr = up
  <2>1. Probed(r, up, u, probe, w) = [clr |-> up, set |-> r.set, unscaled |-> u]
        \/ Probed(r, up, u, probe, w) = [clr |-> up, set |-> up, unscaled |-> u + add]
    BY DEF Probed
  <2>2. u + add \in Nat
    BY <1>5
  <2> HIDE DEF up, u, w, add
  <2> QED
    BY <1>1, <1>3, <1>5, <2>1, <2>2 DEF Record
<1>7. e = IF Due(r, probe, Lounge, max) THEN Probed(r, up, u, probe, w) ELSE r
  BY DEF Updated
<1>8. Ahead(max, up) <= Lounge
  BY <1>2 DEF Upto
<1>9. ~Due(r, probe, Lounge, max) => Ahead(max, r.clr) <= Lounge
  <2>1. max \in Int /\ r.clr \in Int
    BY <1>1, SqnIsInt
  <2>2. Ahead(max, r.clr) \in Sqn
    BY <2>1, AheadIsSqn
  <2> QED
    BY <2>2, LoungeAssumption DEF Due, Sqn
<1> HIDE DEF up, n, w, u, e, add
<1> QED
  BY <1>6, <1>7, <1>8, <1>9 DEF e

-----------------------------------------------------------------------------
(* What an OGM does to the metrics.                                        *)

LEMMA ProbeFacts ==
  ASSUME TypeOK, NEW s \in Sqn, NEW accepted \in BOOLEAN, accepted => IsAcceptable(s)
  PROVE  /\ NewLastValid(s) \in Sqn /\ ProbeOf(s, accepted) \in Nat
         /\ ProbeOf(s, accepted) # 0 => Ahead(NewLastValid(s), s) <= Lounge
<1>1. og.lastValid \in Sqn /\ LastValid(s) \in Sqn /\ NewLastValid(s) \in Sqn
  BY DEF TypeOK, LastValid, NewLastValid
<1>2. ProbeOf(s, accepted) \in Nat /\ (ProbeOf(s, accepted) # 0 => accepted)
  BY ProbeAssumption, MetricAssumption DEF ProbeOf
<1>3. IsNew(s) => Ahead(NewLastValid(s), s) <= Lounge
  <2>1. s \in Int /\ SqMod \in Nat /\ SqMod > 0
    BY SqAssumption, SqnIsInt
  <2>2. Ahead(s, s) = 0
    BY <2>1 DEF Ahead
  <2> QED
    BY <2>2, LoungeAssumption DEF NewLastValid
<1>4. ~IsNew(s) /\ accepted => Ahead(NewLastValid(s), s) <= Lounge
  BY DEF IsAcceptable, NewLastValid
<1> QED
  BY <1>1, <1>2, <1>3, <1>4

(* What process_ogm() has made of the metrics before the decision. *)
MeasuredWell(t, n, s) ==
    /\ t \in [Nb -> Neigh] /\ t[n].considered = s
    /\ \A m \in Nb \ {n} : t[m].considered = nb[m].considered
    /\ \A m \in Nb : t[m].considered = NULL => t[m] = nb[m]
    /\ \A m \in Nb : t[m].considered # NULL =>
          Ahead(NewLastValid(s), t[m].longtm.clr) <= Lounge

LEMMA MeasuredMetrics ==
  ASSUME TypeOK, NEW n \in Nb, NEW s \in Sqn, NEW accepted \in BOOLEAN,
         accepted => IsAcceptable(s)
  PROVE  MeasuredWell(Measured(n, s, accepted), n, s)
<1> DEFINE t == Measured(n, s, accepted)
           max == NewLastValid(s)
           p == ProbeOf(s, accepted)
<1>1. max \in Sqn /\ p \in Nat /\ (p # 0 => Ahead(max, s) <= Lounge)
  BY ProbeFacts
<1>2. \A m \in Nb : nb[m] \in Neigh
  BY DEF TypeOK
<1>3. \A m \in Nb : /\ nb[m].considered \in Sqn \cup {NULL} /\ nb[m].longtm \in Record
                    /\ nb[m] = [considered |-> nb[m].considered, longtm |-> nb[m].longtm]
  BY <1>2 DEF Neigh
<1>4. DOMAIN t = Nb
  BY DEF Measured
<1>5. /\ t[n] \in Neigh /\ t[n].considered = s
      /\ Ahead(max, t[n].longtm.clr) <= Lounge
  <2> DEFINE r == Updated(nb[n].longtm, p, Lounge, s, max, Pws)
  <2>1. t[n] = [considered |-> s, longtm |-> r]
    BY DEF Measured
  <2> HIDE DEF p, max
  <2>2. r \in Record /\ Ahead(max, r.clr) <= Lounge
    BY <1>1, <1>3, UpdatedRecord
  <2> HIDE DEF r, t
  <2> QED
    BY <2>1, <2>2 DEF Neigh
<1>6. ASSUME NEW m \in Nb \ {n}
      PROVE  /\ t[m] \in Neigh /\ t[m].considered = nb[m].considered
             /\ nb[m].considered = NULL => t[m] = nb[m]
             /\ nb[m].considered # NULL => Ahead(max, t[m].longtm.clr) <= Lounge
  <2> DEFINE z == 0
             r == Updated(nb[m].longtm, z, Lounge, s, max, Pws)
  <2>1. t[m] = IF nb[m].considered = NULL THEN nb[m] ELSE [nb[m] EXCEPT !.longtm = r]
    BY DEF Measured
  <2>2. z \in Nat /\ ~(z # 0)
    OBVIOUS
  <2> HIDE DEF max, z, t
  <2>3. r \in Record /\ Ahead(max, r.clr) <= Lounge
    BY <1>1, <1>3, <2>2, UpdatedRecord
  <2> HIDE DEF r
  <2> QED
    BY <1>2, <1>3, <2>1, <2>3 DEF Neigh
<1> HIDE DEF t
<1>7. t \in [Nb -> Neigh]
  <2>1. \A m \in Nb : t[m] \in Neigh
    BY <1>5, <1>6
  <2>2. t = [m \in Nb |-> t[m]]
    BY <1>4 DEF t, Measured
  <2> QED
    BY <2>1, <2>2
<1> QED
  BY <1>5, <1>6, <1>7, NullAssumption DEF MeasuredWell, t

-----------------------------------------------------------------------------
(* The inductive invariants.                                               *)

(* Who was never heard of has no metric. *)
Unheard == \A n \in Nb : nb[n].considered = NULL => nb[n].longtm.unscaled = 0

Inv == TypeOK /\ Unheard /\ MetricsAligned

(* What Receive does. *)
LEMMA ReceiveFields ==
  ASSUME TypeOK, NEW n \in Nb, NEW lag \in 0 .. Lag, NEW accepted \in BOOLEAN,
         NEW vetoed \in BOOLEAN, Receive(n, lag, accepted, vetoed), NEW s, s = Ahead(sent, lag)
  PROVE  /\ s \in Sqn /\ MeasuredWell(Measured(n, s, accepted), n, s)
         /\ og'.valid /\ og'.lastValid = NewLastValid(s)
         /\ nb' = IF vetoed THEN FlushedAll(Measured(n, s, accepted))
                  ELSE Measured(n, s, accepted)
<1>1. sent \in Int /\ lag \in Int
  BY SqnIsInt DEF TypeOK
<1>2. s \in Sqn
  BY <1>1, AheadIsSqn
<1>3. accepted => IsAcceptable(s)
  BY DEF Receive
<1>4. MeasuredWell(Measured(n, s, accepted), n, s)
  BY <1>2, <1>3, MeasuredMetrics
<1> QED
  BY <1>2, <1>4 DEF Receive

LEMMA FlushedAllMetrics ==
  ASSUME NEW t \in [Nb -> Neigh]
  PROVE  /\ FlushedAll(t) \in [Nb -> Neigh]
         /\ \A m \in Nb : /\ FlushedAll(t)[m].considered = t[m].considered
                          /\ t[m].considered = NULL => FlushedAll(t)[m] = t[m]
                          /\ t[m].considered # NULL => FlushedAll(t)[m].longtm.unscaled = 0
<1> DEFINE f == FlushedAll(t)
<1>1. DOMAIN f = Nb
  BY DEF FlushedAll
<1>2. ASSUME NEW m \in Nb
      PROVE  /\ f[m] \in Neigh /\ f[m].considered = t[m].considered
             /\ t[m].considered = NULL => f[m] = t[m]
             /\ t[m].considered # NULL => f[m].longtm.unscaled = 0
  <2> DEFINE r == Flushed(t[m].longtm)
  <2>1. f[m] = IF t[m].considered = NULL THEN t[m] ELSE [t[m] EXCEPT !.longtm = r]
    BY DEF FlushedAll
  <2>2. t[m] \in Neigh /\ t[m].longtm \in Record /\ t[m].considered \in Sqn \cup {NULL}
    BY DEF Neigh
  <2>3. r \in Record /\ r.unscaled = 0
    BY <2>2, FlushedRecord
  <2> HIDE DEF r, f
  <2> QED
    BY <2>1, <2>2, <2>3 DEF Neigh
<1>3. f = [m \in Nb |-> f[m]]
  BY DEF FlushedAll
<1> HIDE DEF f
<1>4. f \in [Nb -> Neigh]
  BY <1>2, <1>3
<1> QED
  BY <1>2, <1>4 DEF f

LEMMA InitInv == Init => Inv
<1> SUFFICES ASSUME Init PROVE Inv
  OBVIOUS
<1>1. NoRecord \in Record /\ NoRecord.unscaled = 0
  BY SqnIsInt DEF NoRecord, Record
<1>2. \A n \in Nb : nb[n] = [considered |-> NULL, longtm |-> NoRecord]
  BY DEF Init
<1>3. nb \in [Nb -> Neigh]
  BY <1>1 DEF Init, Neigh
<1>4. \A n \in Nb : nb[n].longtm.unscaled = 0
  BY <1>1, <1>2
<1>5. sent \in Sqn /\ bestLag \in 0 .. Gap /\ decidedLag \in 0 .. Far
  BY TimeAssumption DEF Init, Far
<1>6. og \in [valid : BOOLEAN, lastValid : Sqn, lastDecided : Sqn, router : Nb \cup {NULL}]
  BY SqnIsInt DEF Init
<1> QED
  BY <1>3, <1>4, <1>5, <1>6 DEF Inv, TypeOK, Unheard, MetricsAligned

LEMMA NextInv == Inv /\ [Next]_vars => Inv'
<1> SUFFICES ASSUME Inv, [Next]_vars PROVE Inv'
  OBVIOUS
<1>1. CASE Originate
  <2>1. sent \in Int
    BY SqnIsInt DEF Inv, TypeOK
  <2>2. sent' \in Sqn
    BY <1>1, <2>1, AheadIsSqn DEF Originate
  <2>3. bestLag' \in 0 .. Gap /\ decidedLag' \in 0 .. Far
    BY <1>1, TimeAssumption DEF Originate, Inv, TypeOK, Far
  <2> QED
    BY <1>1, <2>2, <2>3 DEF Originate, Inv, TypeOK, Unheard, MetricsAligned
<1>2. ASSUME NEW n \in Nb, NEW lag \in 0 .. Lag, NEW accepted \in BOOLEAN,
             NEW vetoed \in BOOLEAN, Receive(n, lag, accepted, vetoed)
      PROVE  Inv'
  <2> DEFINE s == Ahead(sent, lag)
             t == Measured(n, s, accepted)
  <2>1. /\ s \in Sqn /\ MeasuredWell(t, n, s)
        /\ og'.lastValid = NewLastValid(s)
        /\ nb' = IF vetoed THEN FlushedAll(t) ELSE t
    BY <1>2, ReceiveFields DEF Inv
  <2>2. og' \in [valid : BOOLEAN, lastValid : Sqn, lastDecided : Sqn, router : Nb \cup {NULL}]
    BY <1>2, <2>1 DEF Receive, Inv, TypeOK, NewLastValid, LastValid
  <2>3. sent' \in Sqn /\ bestLag' \in 0 .. Gap /\ decidedLag' \in 0 .. Far
    BY <1>2, TimeAssumption DEF Receive, Inv, TypeOK, Far
  <2> HIDE DEF s, t
  <2>4. ASSUME NEW u, u = NewLastValid(s), NEW m \in Nb
        PROVE  /\ t[m].considered = NULL => t[m].longtm.unscaled = 0
               /\ t[m].longtm.unscaled # 0 => Ahead(u, t[m].longtm.clr) <= Lounge
    BY <2>1, <2>4 DEF MeasuredWell, Inv, Unheard
  <2>5. /\ nb' \in [Nb -> Neigh]
        /\ \A m \in Nb : /\ nb'[m].considered = NULL => nb'[m].longtm.unscaled = 0
                         /\ nb'[m].longtm.unscaled # 0 =>
                               Ahead(NewLastValid(s), nb'[m].longtm.clr) <= Lounge
    <3>1. CASE vetoed
      BY <2>1, <2>4, <3>1, FlushedAllMetrics DEF MeasuredWell
    <3>2. CASE ~vetoed
      BY <2>1, <2>4, <3>2 DEF MeasuredWell
    <3> QED
      BY <3>1, <3>2
  <2> QED
    BY <2>1, <2>2, <2>3, <2>5 DEF Inv, TypeOK, Unheard, MetricsAligned
<1>3. CASE UNCHANGED vars
  BY <1>3 DEF vars, Inv, TypeOK, Unheard, MetricsAligned
<1> QED
  BY <1>1, <1>2, <1>3 DEF Next

(* The metrics keep their types and ages. *)
THEOREM InvHolds == Spec => []Inv
BY InitInv, NextInv, PTL DEF Spec

(* The metrics of all neighbours that update_orig() compares are aged up   *)
(* to the lounge below the newest number, whatever is received, lost,      *)
(* overtaken or vetoed, in whatever order, with any window and lounge.     *)
THEOREM MetricsCompared == Spec => []MetricsAligned
<1>1. Inv => MetricsAligned
  BY DEF Inv
<1> QED
  BY <1>1, InvHolds, PTL

-----------------------------------------------------------------------------
(* The order of the numbers.                                               *)

(* The number decided last is that of the OGM decided last, and that was   *)
(* taken for valid.                                                        *)
LastDecidedKnown ==
    decidedLag < Far =>
        og.valid /\ bestLag <= decidedLag /\ og.lastDecided = Ahead(sent, decidedLag)

SeqInv == LastValidIsNewest /\ LastDecidedKnown

LEMMA WindowFacts ==
  ASSUME InTheWindow
  PROVE  /\ Lag \in Nat /\ Gap \in Nat /\ Far \in Nat /\ Pws \in Nat /\ SqMod \in Nat
         /\ Lounge \in Nat /\ Lag < Far /\ Gap < Far /\ Far < SqMod /\ Pws + Far <= SqMod
         /\ 2 <= Pws
  BY TimeAssumption, PwsAssumption, SqAssumption, LoungeAssumption DEF InTheWindow, Far

LEMMA AheadIsMod == \A a, b : Ahead(a, b) = (a - b) % SqMod
BY DEF Ahead

(* What is as late as the window and more is refused. *)
LEMMA LateIsOutdated ==
  ASSUME InTheWindow, TypeOK, SeqInv, NEW lag \in 0 .. Lag, og.valid,
         ~Outdated(Ahead(sent, lag)), bestLag <= lag
  PROVE  lag - bestLag < Pws
<1> DEFINE x == Ahead(sent, lag)
           y == Ahead(sent, bestLag)
           d == lag - bestLag
<1>1. /\ sent \in Sqn /\ bestLag \in Nat /\ bestLag <= Gap /\ lag \in Nat /\ lag <= Lag
  BY TimeAssumption DEF TypeOK
<1>2. SqMod \in Nat /\ SqMod > 0 /\ sent \in Int /\ 0 <= sent /\ sent < SqMod
  BY <1>1, SqAssumption DEF Sqn
<1>3. lag < SqMod /\ bestLag < SqMod /\ d \in Nat /\ d <= Lag
  BY <1>1, WindowFacts
<1>4. x = IF sent - lag >= 0 THEN sent - lag ELSE sent - lag + SqMod
  BY <1>1, <1>2, <1>3 DEF Ahead
<1>5. y = IF sent - bestLag >= 0 THEN sent - bestLag ELSE sent - bestLag + SqMod
  BY <1>1, <1>2, <1>3 DEF Ahead
<1>6. og.lastValid = y
  BY DEF SeqInv, LastValidIsNewest
<1>7. ~(Ahead(x + Lounge, y) > SqMod - 1 - Pws)
  BY <1>6 DEF Outdated
<1> SUFFICES ASSUME d >= Pws PROVE FALSE
  BY <1>1, WindowFacts
<1>8. Lounge < Pws /\ Lag <= Pws + Lounge
  BY <1>3, WindowFacts DEF InTheWindow
<1> HIDE DEF x, y
<1>9. (x + Lounge) - y = Lounge - d \/ (x + Lounge) - y = SqMod + Lounge - d
  BY <1>1, <1>2, <1>3, <1>4, <1>5, WindowFacts
<1> HIDE DEF d
<1>11. Ahead(x + Lounge, y) = SqMod + Lounge - d
  <2> DEFINE z == (x + Lounge) - y
  <2>1. z = Lounge - d \/ z = SqMod + Lounge - d
    BY <1>9
  <2>2. 0 <= SqMod + Lounge - d /\ SqMod + Lounge - d < SqMod /\ Lounge - d < 0
    BY <1>3, <1>8, WindowFacts
  <2>3. Ahead(x + Lounge, y) = z % SqMod
    BY AheadIsMod
  <2> HIDE DEF z
  <2>4. z % SqMod = SqMod + Lounge - d
    BY <1>2, <1>3, <2>1, <2>2, WindowFacts
  <2> QED
    BY <2>3, <2>4
<1>12. SqMod + Lounge - d > SqMod - 1 - Pws
  BY <1>3, <1>8, WindowFacts
<1> QED
  BY <1>7, <1>11, <1>12

(* Among the OGMs of the window, IsNew and Undecided mean what they say.   *)
LEMMA NewIsNewer ==
  ASSUME InTheWindow, TypeOK, SeqInv, NEW lag \in 0 .. Lag, og.valid,
         ~Outdated(Ahead(sent, lag))
  PROVE  IsNew(Ahead(sent, lag)) <=> lag < bestLag
<1> DEFINE d == Ahead(og.lastValid, Ahead(sent, lag))
<1>1. sent \in Sqn /\ bestLag \in Nat /\ bestLag <= Gap /\ lag \in Nat /\ lag <= Lag
  BY TimeAssumption DEF TypeOK
<1>2. d = IF bestLag <= lag THEN lag - bestLag ELSE SqMod + lag - bestLag
  BY <1>1, WindowFacts, AheadOfTwo DEF SeqInv, LastValidIsNewest
<1>3. IsNew(Ahead(sent, lag)) <=> d >= Pws
  BY DEF IsNew, LastValid
<1>4. bestLag <= lag => lag - bestLag < Pws
  BY LateIsOutdated
<1> HIDE DEF d
<1> QED
  BY <1>1, <1>2, <1>3, <1>4, WindowFacts

LEMMA UndecidedIsNewer ==
  ASSUME InTheWindow, TypeOK, SeqInv, NEW lag \in 0 .. Lag, ~Outdated(Ahead(sent, lag))
  PROVE  /\ Undecided(Ahead(sent, lag)) => lag < decidedLag
         /\ lag < decidedLag /\ decidedLag < Far => Undecided(Ahead(sent, lag))
<1> DEFINE d == Ahead(og.lastDecided, Ahead(sent, lag))
<1>1. /\ sent \in Sqn /\ decidedLag \in Nat /\ decidedLag <= Far /\ lag \in Nat /\ lag <= Lag
      /\ bestLag \in Nat
  BY WindowFacts DEF TypeOK
<1>2. CASE decidedLag < Far
  <2>1. d = IF decidedLag <= lag THEN lag - decidedLag ELSE SqMod + lag - decidedLag
    BY <1>1, <1>2, WindowFacts, AheadOfTwo DEF SeqInv, LastDecidedKnown
  <2>2. Undecided(Ahead(sent, lag)) <=> d >= Pws
    BY DEF Undecided
  <2>3. bestLag <= decidedLag /\ og.valid
    BY <1>2 DEF SeqInv, LastDecidedKnown
  <2>4. bestLag <= lag => lag - bestLag < Pws
    BY <2>3, LateIsOutdated
  <2> HIDE DEF d
  <2> QED
    BY <1>1, <1>2, <2>1, <2>2, <2>3, <2>4, WindowFacts
<1>3. CASE ~(decidedLag < Far)
  BY <1>1, <1>3, WindowFacts
<1> QED
  BY <1>2, <1>3

LEMMA NextSeqInv == InTheWindow /\ Inv /\ SeqInv /\ [Next]_vars => SeqInv'
<1> SUFFICES ASSUME InTheWindow, Inv, SeqInv, [Next]_vars PROVE SeqInv'
  OBVIOUS
<1>0. /\ TypeOK /\ sent \in Sqn /\ bestLag \in Nat /\ decidedLag \in Nat
      /\ bestLag <= Gap /\ decidedLag <= Far
  BY WindowFacts DEF Inv, TypeOK
<1>1. CASE Originate
  <2>1. og' = og /\ sent' = Ahead(sent, -1)
    BY <1>1 DEF Originate
  <2>2. LastValidIsNewest'
    <3> SUFFICES ASSUME og.valid PROVE og.lastValid = Ahead(sent', bestLag')
      BY <2>1 DEF LastValidIsNewest
    <3>1. bestLag' = bestLag + 1 /\ bestLag + 1 < SqMod
      BY <1>0, <1>1, WindowFacts DEF Originate
    <3>2. Ahead(sent', bestLag + 1) = Ahead(sent, bestLag)
      BY <1>0, <2>1, <3>1, AheadOfNext
    <3> QED
      BY <3>1, <3>2 DEF SeqInv, LastValidIsNewest
  <2>3. LastDecidedKnown'
    <3> SUFFICES ASSUME decidedLag' < Far
                 PROVE  /\ og.valid /\ bestLag' <= decidedLag'
                        /\ og.lastDecided = Ahead(sent', decidedLag')
      BY <2>1 DEF LastDecidedKnown, Far
    <3> DEFINE far == Far
    <3>1. far \in Nat /\ decidedLag' < far
      BY WindowFacts
    <3>2. decidedLag' = IF decidedLag < far THEN decidedLag + 1 ELSE far
      BY <1>1 DEF Originate
    <3> HIDE DEF far
    <3>3. decidedLag < far /\ decidedLag' = decidedLag + 1
      BY <1>0, <3>1, <3>2
    <3>4. decidedLag < Far /\ decidedLag + 1 < SqMod
      BY <1>0, <3>3, WindowFacts DEF far
    <3>5. Ahead(sent', decidedLag + 1) = Ahead(sent, decidedLag)
      BY <1>0, <2>1, <3>4, AheadOfNext
    <3>6. og.valid /\ bestLag <= decidedLag /\ og.lastDecided = Ahead(sent, decidedLag)
      BY <3>4 DEF SeqInv, LastDecidedKnown
    <3>7. bestLag' = bestLag + 1
      BY <1>1, <3>6 DEF Originate
    <3>8. bestLag' <= decidedLag'
      BY <1>0, <3>3, <3>6, <3>7
    <3> QED
      BY <3>3, <3>5, <3>6, <3>8
  <2> QED
    BY <2>2, <2>3 DEF SeqInv
<1>2. ASSUME NEW n \in Nb, NEW lag \in 0 .. Lag, NEW accepted \in BOOLEAN,
             NEW vetoed \in BOOLEAN, Receive(n, lag, accepted, vetoed)
      PROVE  SeqInv'
  <2> DEFINE s == Ahead(sent, lag)
  <2>1. s \in Sqn /\ og'.valid /\ og'.lastValid = NewLastValid(s) /\ sent' = sent
    BY <1>0, <1>2, ReceiveFields DEF Receive
  <2>2. og'.lastValid = Ahead(sent', bestLag')
    <3>1. CASE ~og.valid
      <4>1. NewLastValid(s) = s /\ bestLag' = lag
        BY <1>2, <3>1 DEF NewLastValid, LastValid, Receive
      <4> QED
        BY <2>1, <4>1
    <3>2. CASE og.valid /\ lag < bestLag
      <4>1. IsNew(s) /\ bestLag' = lag
        BY <1>0, <1>2, <3>2, NewIsNewer DEF Receive
      <4> QED
        BY <2>1, <4>1 DEF NewLastValid
    <3>3. CASE og.valid /\ ~(lag < bestLag)
      <4>1. ~IsNew(s) /\ bestLag' = bestLag
        BY <1>0, <1>2, <3>3, NewIsNewer DEF Receive
      <4> QED
        BY <2>1, <3>3, <4>1 DEF NewLastValid, LastValid, SeqInv, LastValidIsNewest
    <3> QED
      BY <3>1, <3>2, <3>3
  <2>3. LastDecidedKnown'
    <3>1. \/ og'.lastDecided = s /\ decidedLag' = lag
          \/ og'.lastDecided = og.lastDecided /\ decidedLag' = decidedLag
      BY <1>2 DEF Receive
    <3>2. bestLag' = IF ~og.valid \/ lag < bestLag THEN lag ELSE bestLag
      BY <1>2 DEF Receive
    <3>3. bestLag' <= lag /\ (og.valid => bestLag' <= bestLag)
      BY <1>0, <3>2
    <3>4. CASE og'.lastDecided = s /\ decidedLag' = lag
      BY <2>1, <3>3, <3>4 DEF LastDecidedKnown
    <3>5. CASE og'.lastDecided = og.lastDecided /\ decidedLag' = decidedLag
      <4> DEFINE far == Far
      <4>1. decidedLag < far => /\ og.valid /\ bestLag <= decidedLag
                                /\ og.lastDecided = Ahead(sent, decidedLag)
        BY DEF SeqInv, LastDecidedKnown
      <4>2. bestLag' \in Nat
        BY <1>0, <3>2
      <4> HIDE DEF far
      <4>3. decidedLag' < far => /\ og'.valid /\ bestLag' <= decidedLag'
                                 /\ og'.lastDecided = Ahead(sent', decidedLag')
        BY <1>0, <2>1, <3>3, <3>5, <4>1, <4>2
      <4> QED
        BY <4>3 DEF LastDecidedKnown, far, Far
    <3> QED
      BY <3>1, <3>4, <3>5
  <2> QED
    BY <2>2, <2>3 DEF SeqInv, LastValidIsNewest
<1>3. CASE UNCHANGED vars
  BY <1>3 DEF vars, SeqInv, LastValidIsNewest, LastDecidedKnown, Far
<1> QED
  BY <1>1, <1>2, <1>3 DEF Next

(* The numbers bmxd remembers are those it takes them for. *)
THEOREM SeqInvHolds == InTheWindow => (Spec => [](Inv /\ SeqInv))
<1> SUFFICES ASSUME InTheWindow PROVE Spec => [](Inv /\ SeqInv)
  OBVIOUS
<1>1. Init => SeqInv
  BY WindowFacts DEF Init, SeqInv, LastValidIsNewest, LastDecidedKnown
<1>2. Inv /\ SeqInv /\ [Next]_vars => SeqInv'
  BY NextSeqInv
<1> QED
  BY <1>1, <1>2, InvHolds, PTL DEF Spec

(* Although only differences modulo 2^16 are compared, last_valid_sqn is   *)
(* the newest number ever received, across wraps, losses and re-ordering,  *)
(* as long as no OGM is overtaken by more than the window and the lounge.  *)
THEOREM NewestIsKnown == InTheWindow => (Spec => []LastValidIsNewest)
<1> SUFFICES ASSUME InTheWindow PROVE Spec => []LastValidIsNewest
  OBVIOUS
<1>1. SeqInv => LastValidIsNewest
  BY DEF SeqInv
<1> QED
  BY <1>1, SeqInvHolds, PTL

(* An originator's OGMs are decided in the order they were sent and each   *)
(* at most once, whichever neighbours bring them in whatever order.        *)
THEOREM DecidedInOrder == InTheWindow => (Spec => DecidedForward)
<1> SUFFICES ASSUME InTheWindow PROVE Spec => DecidedForward
  OBVIOUS
<1> DEFINE Forward == og'.lastDecided # og.lastDecided => decidedLag' < decidedLag
<1>1. Inv /\ SeqInv /\ [Next]_vars => [Forward]_vars
  <2> SUFFICES ASSUME Inv, SeqInv, [Next]_vars, og'.lastDecided # og.lastDecided
               PROVE  decidedLag' < decidedLag
    OBVIOUS
  <2>1. PICK n \in Nb, lag \in 0 .. Lag, accepted \in BOOLEAN, vetoed \in BOOLEAN :
          Receive(n, lag, accepted, vetoed)
    BY DEF Next, Originate, vars
  <2>2. Undecided(Ahead(sent, lag)) /\ ~Outdated(Ahead(sent, lag)) /\ decidedLag' = lag
    BY <2>1 DEF Receive
  <2> QED
    BY <2>2, UndecidedIsNewer DEF Inv
<1> QED
  BY <1>1, SeqInvHolds, PTL DEF Spec, DecidedForward

-----------------------------------------------------------------------------
(* The choice of the router.                                               *)

(* What the other neighbours offer at best. *)
LEMMA BestOtherIs ==
  ASSUME Inv, NEW n \in Nb, NEW t \in [Nb -> Neigh],
         NEW v \in Nat, \A m \in Nb \ {n} : Val(t[m].longtm) < v
  PROVE  BestOther(n, t) \in Nat /\ (v > 0 => BestOther(n, t) < v)
         /\ (BestOther(n, t) = 0 \/ \E m \in Nb \ {n} : BestOther(n, t) = Val(t[m].longtm))
<1> DEFINE K == {k \in Nb \ {n} : nb[k].considered # NULL}
           f == [m \in K |-> Val(t[m].longtm)]
           V == {Val(t[m].longtm) : m \in K}
           S == {0} \cup V
<1>1. IsFiniteSet(K)
  BY NbAssumption, FS_Subset
<1>2. IsFiniteSet(V)
  <2>1. V = {f[m] : m \in K}
    OBVIOUS
  <2>2. f \in Surjection(K, V)
    BY <2>1 DEF Surjection
  <2> HIDE DEF f, V
  <2> QED
    BY <1>1, <2>2, FS_Surjection
<1>3. \A m \in Nb : Val(t[m].longtm) \in Nat
  BY ValNat DEF Neigh
<1>4. IsFiniteSet(S) /\ S \in SUBSET Int /\ S # {}
  <2>1. V \in SUBSET Int
    BY <1>3
  <2>2. S = V \cup {0}
    OBVIOUS
  <2> HIDE DEF V, S
  <2> QED
    BY <1>2, <2>1, <2>2, FS_AddElement
<1>5. BestOther(n, t) = Max(S)
  BY DEF BestOther
<1>6. Max(S) \in S
  <2> HIDE DEF S
  <2> QED
    BY <1>4, MaxOfFinite
<1>7. Max(S) = 0 \/ \E m \in Nb \ {n} : Max(S) = Val(t[m].longtm)
  BY <1>6
<1> HIDE DEF S
<1> QED
  BY <1>3, <1>5, <1>7

(* Who brings the newest OGM and beats all others by more than the         *)
(* hysteresis becomes, or stays, the router, if nothing was decided yet by *)
(* this or a newer number and the last decision is not too long ago.       *)
THEOREM BetterTakesOver == InTheWindow => (Spec => BetterPathTaken)
<1> SUFFICES ASSUME InTheWindow PROVE Spec => BetterPathTaken
  OBVIOUS
<1> DEFINE Best(n) ==
             /\ nb'[n].considered # nb[n].considered
             /\ nb'[n].considered = og'.lastValid
             /\ bestLag' < decidedLag /\ decidedLag < Far
             /\ Val(nb'[n].longtm) > Hyst
             /\ \A m \in Nb \ {n} : Val(nb'[n].longtm) > Val(nb'[m].longtm) + Hyst
           Taken == \A n \in Nb : Best(n) => og'.router = n
<1>1. Inv /\ SeqInv /\ [Next]_vars /\ (Inv /\ SeqInv)' => [Taken]_vars
  <2> SUFFICES ASSUME Inv, SeqInv, Next, Inv', SeqInv', NEW n \in Nb, Best(n)
               PROVE  og'.router = n
    OBVIOUS
  <2>1. PICK k \in Nb, lag \in 0 .. Lag, accepted \in BOOLEAN, vetoed \in BOOLEAN :
          Receive(k, lag, accepted, vetoed)
    BY DEF Next, Originate
  <2> DEFINE s == Ahead(sent, lag)
             t == Measured(k, s, accepted)
  <2>2. /\ s \in Sqn /\ MeasuredWell(t, k, s)
        /\ og'.valid /\ og'.lastValid = NewLastValid(s)
        /\ nb' = IF vetoed THEN FlushedAll(t) ELSE t
    BY <2>1, ReceiveFields DEF Inv
  <2>3. /\ sent' = sent /\ sent \in Sqn /\ lag \in Nat /\ lag <= Lag
        /\ bestLag' \in Nat /\ bestLag' <= Gap
    BY <2>1, WindowFacts DEF Receive, Inv, TypeOK
  <2> HIDE DEF t
  <2>4. t \in [Nb -> Neigh] /\ \A m \in Nb : nb'[m].considered = t[m].considered
    BY <2>2, FlushedAllMetrics DEF MeasuredWell
  <2>5. k = n /\ t[n].considered = s
    BY <2>2, <2>4 DEF MeasuredWell
  <2>6. ~vetoed /\ nb' = t
    <3> SUFFICES ASSUME vetoed PROVE FALSE
      BY <2>2
    <3>1. t[n].considered # NULL
      BY <2>2, <2>5, NullAssumption
    <3>2. nb'[n].longtm.unscaled = 0 /\ nb'[n].longtm \in Record
      BY <2>2, <2>4, <3>1, FlushedAllMetrics DEF Inv, TypeOK, Neigh
    <3>3. Val(nb'[n].longtm) = 0
      BY <3>2, ValNat
    <3> QED
      BY <3>3, MetricAssumption
  <2>7. lag = bestLag'
    <3>1. Ahead(sent, lag) = Ahead(sent, bestLag')
      BY <2>2, <2>3, <2>4, <2>5 DEF SeqInv, LastValidIsNewest
    <3> QED
      BY <2>3, <3>1, WindowFacts, AheadDiffers
  <2>8. Undecided(s)
    BY <2>1, <2>7, UndecidedIsNewer DEF Inv, Receive
  <2>9. Wins(n, t)
    <3> DEFINE v == Val(t[n].longtm)
               b == BestOther(n, t)
    <3>1. \A m \in Nb : Val(t[m].longtm) \in Nat
      BY <2>4, ValNat DEF Neigh
    <3>2. Hyst \in Nat /\ v > Hyst /\ \A m \in Nb \ {n} : v > Val(t[m].longtm) + Hyst
      BY <2>6, MetricAssumption
    <3>3. v \in Nat /\ \A m \in Nb \ {n} : Val(t[m].longtm) < v
      BY <3>1, <3>2
    <3>4. b \in Nat /\ (b = 0 \/ \E m \in Nb \ {n} : b = Val(t[m].longtm))
      BY <2>4, <3>3, BestOtherIs
    <3>5. v > b + Hyst
      BY <3>2, <3>3, <3>4
    <3>6. v > b + Hyst /\ v >= b - Hyst
      BY <3>2, <3>3, <3>4, <3>5
    <3> QED
      BY <3>6 DEF Wins
  <2> QED
    BY <2>1, <2>5, <2>6, <2>8, <2>9 DEF Receive, t
<1> QED
  BY <1>1, SeqInvHolds, PTL DEF Spec, BetterPathTaken
=============================================================================
