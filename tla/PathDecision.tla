---------------------------- MODULE PathDecision ----------------------------
(***************************************************************************)
(* How bmxd judges the OGMs of one originator that reach it through        *)
(* several neighbours: which sequence numbers count (validate_orig_seqno,  *)
(* validate_considered_order, the path window in process_ogm), what they   *)
(* do to the path metrics of the neighbours, and which neighbour becomes   *)
(* the router (update_orig).                                               *)
(*                                                                         *)
(* The originator numbers its OGMs; they reach a neighbour or not, in any  *)
(* order, at most Lag OGMs late.  Sequence numbers wrap, so behaviours     *)
(* have no end and the state no unbounded counter.                         *)
(***************************************************************************)
EXTENDS SqRecord, FiniteSetsExt

CONSTANTS
    Nb,          \* the neighbours relaying the originator's OGMs
    NULL,
    Pws,         \* the path window: ogm_pws of the originator, my_pws here
    Hyst,        \* my_path_hystere * PROBE_TO100
    Late,        \* my_late_penalty * PROBE_TO100
    First,       \* the originator's first sequence number
    Lag,         \* bound: an OGM arrives before Lag newer ones are sent
    Gap          \* bound: never more than Gap OGMs in a row are all lost

ASSUME PwsAssumption == Pws \in Nat /\ Pws >= 2 /\ Pws < SqMod
ASSUME MetricAssumption == Hyst \in Nat /\ Late \in 0 .. ProbeRange
ASSUME NbAssumption == IsFiniteSet(Nb)
ASSUME NullAssumption == NULL \notin Nb /\ NULL \notin Sqn
ASSUME TimeAssumption == First \in Sqn /\ Lag \in Nat /\ Gap \in Nat /\ Lag <= Gap

Far == Gap + Lag + 1

VARIABLES
    sent,        \* the number of the newest OGM the originator has sent
    og,          \* struct orig_node: valid, lastValid (last_valid_sqn),
                 \* lastDecided (last_decided_sqn), router
    nb,          \* struct neigh_node for each neighbour: considered
                 \* (last_considered_seqno, NULL before the first OGM), longtm
    bestLag,     \* history: how far the newest valid OGM is behind sent
    decidedLag   \* history: how far the newest decided one is, Far if none
                 \* within the last Far OGMs

vars == <<sent, og, nb, bestLag, decidedLag>>

Neigh == [considered : Sqn \cup {NULL}, longtm : Record]

Init ==
    /\ sent = First
    /\ og = [valid |-> FALSE, lastValid |-> 0, lastDecided |-> 0, router |-> NULL]
    /\ nb = [n \in Nb |-> [considered |-> NULL, longtm |-> NoRecord]]
    /\ bestLag = 0
    /\ decidedLag = Far

(* The originator sends its next OGM. *)
Originate ==
    /\ og.valid => bestLag < Gap
    /\ sent' = Ahead(sent, -1)
    /\ bestLag' = IF og.valid THEN bestLag + 1 ELSE bestLag
    /\ decidedLag' = IF decidedLag < Far THEN decidedLag + 1 ELSE Far
    /\ UNCHANGED <<og, nb>>

-----------------------------------------------------------------------------
(* validate_orig_seqno(): older than the window and the lounge.            *)
Outdated(s) == og.valid /\ Ahead(s + Lounge, og.lastValid) > SqMod - 1 - Pws

LastValid(s) == IF og.valid THEN og.lastValid ELSE s

(* validate_considered_order() *)
Ordered(n, s) ==
    nb[n].considered # NULL =>
        /\ s # nb[n].considered
        /\ Ahead(s, nb[n].considered) <= SqMod - 1 - Pws

(* process_ogm(): IS_NEW and IS_ACCEPTABLE *)
IsNew(s) == Ahead(LastValid(s), s) >= Pws
IsAcceptable(s) == IsNew(s) \/ Ahead(LastValid(s), s) <= Lounge

NewLastValid(s) == IF IsNew(s) THEN s ELSE LastValid(s)

(* update_orig(): the probe of an OGM. *)
ProbeOf(s, accepted) ==
    IF ~accepted THEN 0 ELSE IF IsNew(s) THEN ProbeRange ELSE ProbeRange - Late

(* Mutant: only the neighbour the OGM came through is updated. *)
MeasuredAlone(n, s, accepted) ==
    [nb EXCEPT ![n].considered = s,
               ![n].longtm = Updated(@, ProbeOf(s, accepted), Lounge, s, NewLastValid(s), Pws)]

(* What the probe, and its absence, does to the metrics of all neighbours  *)
(* known so far.                                                           *)
Measured(n, s, accepted) ==
    [m \in Nb |->
        IF m = n
        THEN [considered |-> s,
              longtm |-> Updated(nb[m].longtm, ProbeOf(s, accepted), Lounge, s,
                                 NewLastValid(s), Pws)]
        ELSE IF nb[m].considered = NULL THEN nb[m]
        ELSE [nb[m] EXCEPT !.longtm = Updated(@, 0, Lounge, s, NewLastValid(s), Pws)]]

(* Mutant: the others are compared as they were before this OGM. *)
BestOtherBefore(n, measured) ==
    Max({0} \cup {Val(nb[m].longtm) : m \in {k \in Nb \ {n} : nb[k].considered # NULL}})

BestOther(n, measured) ==
    Max({0} \cup {Val(measured[m].longtm) : m \in {k \in Nb \ {n} : nb[k].considered # NULL}})

(* Mutant: only this very OGM is taken to be decided. *)
UndecidedItself(s) == og.lastDecided # s

(* Neither this nor a newer OGM has been decided yet. *)
Undecided(s) == Ahead(og.lastDecided, s) >= Pws

(* The neighbour takes the route over, or as the router keeps it, with     *)
(* fast_path_faktor at its maximum (the recent metric is not consulted).   *)
Wins(n, measured) ==
    IF og.router # n THEN Val(measured[n].longtm) > BestOther(n, measured) + Hyst
    ELSE Val(measured[n].longtm) >= BestOther(n, measured) - Hyst

FlushedAll(measured) ==
    [m \in Nb |-> IF measured[m].considered = NULL THEN measured[m]
                  ELSE [measured[m] EXCEPT !.longtm = Flushed(@)]]

(* process_ogm() for the OGM sent lag OGMs ago.  "accepted": the lottery   *)
(* over the link's quality; "vetoed": a hook refuses the OGM.              *)
Receive(n, lag, accepted, vetoed) ==
    LET s == Ahead(sent, lag)
        measured == Measured(n, s, accepted)
        decided == Undecided(s) /\ Wins(n, measured)
    IN
    /\ ~Outdated(s) /\ Ordered(n, s)
    /\ accepted => IsAcceptable(s)
    /\ og' = [valid |-> TRUE, lastValid |-> NewLastValid(s),
              lastDecided |-> IF decided THEN s ELSE og.lastDecided,
              router |-> IF vetoed THEN NULL ELSE IF decided THEN n ELSE og.router]
    /\ nb' = IF vetoed THEN FlushedAll(measured) ELSE measured
    /\ bestLag' = IF ~og.valid \/ lag < bestLag THEN lag ELSE bestLag
    /\ decidedLag' = IF decided THEN lag ELSE decidedLag
    /\ UNCHANGED sent

Next ==
    \/ Originate
    \/ \E n \in Nb, lag \in 0 .. Lag, accepted, vetoed \in BOOLEAN :
          Receive(n, lag, accepted, vetoed)

Spec == Init /\ [][Next]_vars

-----------------------------------------------------------------------------
TypeOK ==
    /\ sent \in Sqn
    /\ og \in [valid : BOOLEAN, lastValid : Sqn, lastDecided : Sqn, router : Nb \cup {NULL}]
    /\ nb \in [Nb -> Neigh]
    /\ bestLag \in 0 .. Gap
    /\ decidedLag \in 0 .. Far

(* "last and best known sequence number" (struct orig_node): although only *)
(* differences modulo 2^16 are compared, last_valid_sqn is the newest      *)
(* number ever received, across wraps, losses and re-ordering.             *)
LastValidIsNewest == og.valid => og.lastValid = Ahead(sent, bestLag)

(* An originator's OGMs are decided, and so rebroadcast and routed by, in  *)
(* the order they were sent and each at most once, whichever neighbours    *)
(* bring them in whatever order: "not-yet-finally-decided based on this or *)
(* newer seqno".                                                           *)
DecidedForward ==
    [][og'.lastDecided # og.lastDecided => decidedLag' < decidedLag]_vars

(* update_orig() compares the metrics of all neighbours: those that hold   *)
(* anything have been aged up to the lounge below the newest number, so no *)
(* neighbour looks better than it is for having been silent.               *)
MetricsAligned ==
    \A n \in Nb : nb[n].longtm.unscaled # 0 => Ahead(og.lastValid, nb[n].longtm.clr) <= Lounge

(* A neighbour that is better than all others by more than the hysteresis  *)
(* when it brings the newest OGM takes the route over, if nothing was      *)
(* decided yet "based on this or newer seqno" (comment in update_orig()).  *)
(* last_decided_sqn means something only once an OGM has been decided, and *)
(* only while that is not half the numbers ago; it starts at 0.            *)
BetterPathTaken ==
    [][ \A n \in Nb :
          /\ nb'[n].considered # nb[n].considered
          /\ nb'[n].considered = og'.lastValid
          /\ bestLag' < decidedLag /\ decidedLag < Far
          /\ Val(nb'[n].longtm) > Hyst
          /\ \A m \in Nb \ {n} : Val(nb'[n].longtm) > Val(nb'[m].longtm) + Hyst
          => og'.router = n ]_vars
=============================================================================
