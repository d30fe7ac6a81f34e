---------------------------- MODULE OgmScheduler ----------------------------
(***************************************************************************)
(* The send queue of bmxd (schedule.c): own OGMs, one pending per          *)
(* interface, and OGMs of neighbours to be rebroadcast wait in send_list   *)
(* in the order of their send time; aggregate_outstanding_ogms() packs     *)
(* those that are due into one buffer per interface, sends the buffers     *)
(* when the next OGM does not fit, keeps OGMs that need more copies and    *)
(* schedules the next own OGM of each interface that sent its own.         *)
(*                                                                         *)
(* One iteration of that function's loop is a step, during which no other  *)
(* handler runs; every other handler is one step.  Lengths are counted in  *)
(* any unit, times by whether they have come.                              *)
(***************************************************************************)
EXTENDS Integers, FiniteSets, SequencesExt

CONSTANTS
    Ifs,         \* the interfaces that may be configured
    PrimaryIf,   \* primary_if
    Loopback,    \* those whose if_linklayer is VAL_DEV_LL_LO
    Hidden,      \* those with if_singlehomed set
    Clones,      \* if_send_clones of each interface, in hundredths
    Hundred,     \* what those count as one OGM: 100
    Diversity,   \* if_ant_diversity of each interface
    PowerSave,   \* interfaces that may be silent to save power
    OwnLen,      \* length of each interface's own OGM with its extensions
    Hdr,         \* sizeof( struct bat_header )
    Pref,        \* pref_udpd_size
    MaxUdpd,     \* MAX_UDPD_SIZE
    Rcvd,        \* the OGMs of neighbours that schedule_rcvd_ogm() is given
    SqMod,       \* 2^16
    First,       \* my_seqno
    EchoLag,     \* bound: own OGMs come back before EchoLag newer are sent
    MaxQueue,    \* bound on the length of send_list
    NULL

Sqn == 0 .. SqMod - 1

ASSUME IfsAssumption == PrimaryIf \in Ifs \ Loopback /\ Hidden \subseteq Ifs
ASSUME ClonesAssumption ==
    /\ Hundred \in Nat \ {0}
    /\ Clones \in [Ifs -> Nat] /\ Diversity \in [Ifs -> Nat]
ASSUME SizeAssumption ==
    /\ Hdr \in Nat \ {0} /\ Pref \in Nat /\ MaxUdpd \in Nat
    /\ Hdr < Pref /\ Pref <= MaxUdpd   \* MIN_UDPD_SIZE is 24
    \* schedule_own_ogm() gives up on more
    /\ OwnLen \in [Ifs -> 1 .. Pref]
ASSUME SqnAssumption == SqMod \in Nat /\ SqMod > 1 /\ First \in Sqn /\ EchoLag \in Nat
ASSUME NullAssumption == NULL \notin [pos : Nat, size : Nat, sent : BOOLEAN]
ASSUME RcvdAssumption ==
    Rcvd \subseteq [direct : BOOLEAN,    \* IS_DIRECT_NEIGH
                    best : BOOLEAN,      \* accepted and IS_BEST_NEIGH_AND_NOT_BROADCASTED
                    cloned : BOOLEAN,    \* HAS_CLONED_FLAG
                    asocial : BOOLEAN,   \* IS_ASOCIAL
                    ttl : Nat, len : Nat \ {0}]

VARIABLES
    queue,    \* send_list
    due,      \* how many nodes at its front have a send_time that has come
    dev,      \* if_list: struct batman_if of each interface
    pass,     \* the aggregate_outstanding_ogms() call under way, or NULL
    sent,     \* history: numbers of the last EchoLag + 1 own OGMs each
              \* interface sent first copies of, newest first
    unsent    \* history: interfaces whose own OGM was dropped for its size

vars == <<queue, due, dev, pass, sent, unsent>>

(* struct send_node *)
Node == [own : BOOLEAN, out : Ifs, iteration : Nat, bucket : Nat, len : Nat,
         direct : BOOLEAN, unidir : BOOLEAN, cloned : BOOLEAN, lastHop : BOOLEAN,
         seqno : Sqn]

(* A buffer is the list of the OGMs in it: their lengths and owner.        *)
Dev == [exists : BOOLEAN, active : BOOLEAN, scheduling : BOOLEAN,
        sendOwn : BOOLEAN, seqno : Sqn, buffer : Seq([own : BOOLEAN, len : Nat])]

Init ==
    /\ queue = <<>>
    /\ due = 0
    /\ dev = [i \in Ifs |-> [exists |-> TRUE, active |-> FALSE, scheduling |-> FALSE,
                             sendOwn |-> FALSE, seqno |-> First, buffer |-> <<>>]]
    /\ pass = NULL
    /\ sent = [i \in Ifs |-> <<>>]
    /\ unsent = {}

Idle == pass = NULL

Bytes(buffer) ==
    LET sum[k \in 0 .. Len(buffer)] ==
          IF k = 0 THEN Hdr ELSE sum[k - 1] + buffer[k].len
    IN  sum[Len(buffer)]

(* send_aggregated_ogms(): every interface that is not a loopback.         *)
Flushed(d) == [i \in Ifs |-> IF i \in Loopback THEN d[i] ELSE [d[i] EXCEPT !.buffer = <<>>]]

-----------------------------------------------------------------------------
(* schedule_rcvd_ogm(): which OGMs are rebroadcast at all, which of them   *)
(* only to tell the neighbour that it was heard.                           *)
Rebroadcast(r) ==
    /\ IF r.direct THEN r.best \/ ~r.cloned ELSE r.best /\ ~r.asocial
    /\ r.ttl > 1 \/ (r.ttl = 1 /\ r.direct)

Unidirectional(r) == r.direct /\ (~r.best \/ r.asocial)

ScheduleRcvd(i, r) ==
    /\ Idle /\ dev[i].active /\ i \notin Loopback
    /\ Rebroadcast(r)
    /\ Len(queue) < MaxQueue
    /\ queue' = InsertAt(queue, due + 1,
                  [own |-> FALSE, out |-> i, iteration |-> 0, bucket |-> 0, len |-> r.len,
                   direct |-> r.direct, unidir |-> Unidirectional(r), cloned |-> r.cloned,
                   lastHop |-> r.ttl = 1, seqno |-> 0])
    /\ due' = due + 1
    /\ UNCHANGED <<dev, pass, sent, unsent>>

(* schedule_own_ogm(): somewhere behind the nodes that are due.            *)
OwnNode(i) == [own |-> TRUE, out |-> i, iteration |-> 0, bucket |-> 0, len |-> OwnLen[i],
               direct |-> FALSE, unidir |-> FALSE, cloned |-> FALSE, lastHop |-> FALSE,
               seqno |-> dev[i].seqno]

ScheduleOwn(i) ==
    \E place \in due + 1 .. Len(queue) + 1 : queue' = InsertAt(queue, place, OwnNode(i))

-----------------------------------------------------------------------------
(* aggregate_outstanding_ogms()                                            *)
Begin ==
    /\ Idle
    /\ pass' = [pos |-> 1, size |-> Hdr, sent |-> FALSE]
    /\ UNCHANGED <<queue, due, dev, sent, unsent>>

(* Nothing more fits into a packet that holds something already.           *)
Full(size, n) == size > Hdr /\ size + n.len > Pref

(* Mutant: only the length of own OGMs is looked at. *)
TooLargeOwn(size, n) == n.own /\ size + n.len > Pref

(* This OGM fits into no packet. *)
TooLarge(size, n) == size + n.len > MaxUdpd \/ (n.own /\ size + n.len > Pref)

(* Only to allow the neighbour to detect a bidirectional link.             *)
ToNeighbourOnly(n) ==
    /\ dev[n.out].active /\ n.iteration + 1 <= Diversity[n.out]
    /\ n.direct /\ ~n.cloned /\ (n.unidir \/ n.lastHop)

(* Mutant: the copy just sent is not counted. *)
WantsUncounted(i, bucket) == bucket - Hundred < Clones[i]

Wants(i, bucket) == bucket < Clones[i]

(* The interfaces the next copy of n goes to, "silent" being those that    *)
(* save power.                                                             *)
Targets(n, bucket, silent) ==
    IF ToNeighbourOnly(n) THEN {n.out}
    ELSE IF n.unidir \/ n.lastHop THEN {}
    ELSE {i \in Ifs \ silent : /\ dev[i].active /\ Wants(i, bucket)
                               /\ n.own /\ n.out \in Hidden => i = n.out}

(* Mutant: the iterations are counted only after this. *)
FirstCopyAfter(n) == n.own /\ n.iteration = 1

FirstCopy(n) == n.own /\ n.iteration = 0

(* One node of the list.  rand_num( 100 ) gives the OGM its place within   *)
(* the first hundred.                                                      *)
SendNode ==
    /\ ~Idle /\ pass.pos <= due
    /\ LET n == queue[pass.pos]
           before == IF Full(pass.size, n) THEN Flushed(dev) ELSE dev
           size == IF Full(pass.size, n) THEN Hdr ELSE pass.size
           drop == TooLarge(size, n)
       IN \E random \in 0 .. Hundred - 1, silent \in SUBSET PowerSave :
            LET bucket == IF n.bucket = 0 THEN random ELSE n.bucket
                to == IF drop THEN {} ELSE Targets(n, bucket, silent)
                done == \A i \in to : ~Wants(i, bucket + Hundred)
                first == FirstCopy(n)
                after == [i \in Ifs |->
                            IF i \in to
                            THEN [before[i] EXCEPT !.buffer = Append(@, [own |-> n.own, len |-> n.len])]
                            ELSE before[i]]
            IN
            /\ drop \/ n.bucket # 0 => random = 0
            /\ drop \/ ToNeighbourOnly(n) => silent = {}
            /\ dev' = IF ~first THEN after
                      ELSE [after EXCEPT ![n.out].seqno = (@ + 1) % SqMod,
                                         ![n.out].sendOwn = TRUE]
            /\ IF done THEN /\ queue' = RemoveAt(queue, pass.pos)
                            /\ due' = due - 1
               ELSE /\ queue' = [queue EXCEPT ![pass.pos] =
                                   [n EXCEPT !.iteration = @ + 1, !.bucket = bucket + Hundred]]
                    /\ due' = due
            /\ pass' = [pass EXCEPT !.pos = IF done THEN @ ELSE @ + 1,
                                    !.size = IF drop THEN size ELSE size + n.len]
            /\ sent' = IF ~first \/ drop THEN sent
                       ELSE [sent EXCEPT ![n.out] =
                               SubSeq(<<n.seqno>> \o @, 1, IF Len(@) < EchoLag THEN Len(@) + 1
                                                           ELSE EchoLag + 1)]
            /\ unsent' = IF n.own /\ drop THEN unsent \cup {n.out} ELSE unsent

(* What is left in the buffers is sent. *)
SendRest ==
    /\ ~Idle /\ pass.pos > due /\ ~pass.sent
    /\ dev' = IF pass.size > Hdr THEN Flushed(dev) ELSE dev
    /\ pass' = [pass EXCEPT !.sent = TRUE]
    /\ UNCHANGED <<queue, due, sent, unsent>>

(* The next own OGM of an interface that sent one. *)
NextOwn(i) ==
    /\ ~Idle /\ pass.sent /\ dev[i].sendOwn
    /\ ScheduleOwn(i)
    /\ dev' = [dev EXCEPT ![i].sendOwn = FALSE]
    /\ UNCHANGED <<due, pass, sent, unsent>>

End ==
    /\ ~Idle /\ pass.sent /\ \A i \in Ifs : ~dev[i].sendOwn
    /\ pass' = NULL
    /\ UNCHANGED <<queue, due, dev, sent, unsent>>

Aggregate == Begin \/ SendNode \/ SendRest \/ End \/ \E i \in Ifs : NextOwn(i)

(* The clock reaches the send time of i's next own OGM, and of all before. *)
Tick(i) ==
    /\ Idle
    /\ due' \in {k \in due + 1 .. Len(queue) : queue[k].out = i}
    /\ UNCHANGED <<queue, dev, pass, sent, unsent>>

-----------------------------------------------------------------------------
(* Mutant: an own OGM is scheduled each time the interface comes up. *)
NeedsOwnAlways(i) == TRUE

NeedsOwn(i) == ~dev[i].scheduling

(* if_activate() *)
Activate(i) ==
    /\ Idle /\ dev[i].exists /\ ~dev[i].active
    /\ Len(queue) < MaxQueue
    /\ IF NeedsOwn(i) THEN ScheduleOwn(i) ELSE UNCHANGED queue
    /\ dev' = [dev EXCEPT ![i].active = TRUE, ![i].scheduling = TRUE]
    /\ UNCHANGED <<due, pass, sent, unsent>>

(* if_deactivate() *)
Deactivate(i) ==
    /\ Idle /\ dev[i].active
    /\ dev' = [dev EXCEPT ![i].active = FALSE]
    /\ UNCHANGED <<queue, due, pass, sent, unsent>>

(* remove_outstanding_ogms(): what is left of the first k nodes, and of all. *)
Outstanding(q, i) ==
    LET left[k \in 0 .. Len(q)] ==
          IF k = 0 THEN <<>>
          ELSE IF q[k].out = i THEN left[k - 1]
          ELSE Append(left[k - 1], q[k])
    IN  left

(* opt_dev(): an interface other than the primary is removed, ...          *)
RemoveIf(i) ==
    /\ Idle /\ i # PrimaryIf /\ dev[i].exists
    /\ queue' = Outstanding(queue, i)[Len(queue)]
    /\ due' = Len(Outstanding(queue, i)[due])
    /\ dev' = [dev EXCEPT ![i] = [exists |-> FALSE, active |-> FALSE, scheduling |-> FALSE,
                                  sendOwn |-> FALSE, seqno |-> 0, buffer |-> <<>>]]
    /\ sent' = [sent EXCEPT ![i] = <<>>]
    /\ unsent' = unsent \ {i}
    /\ UNCHANGED pass

(* ... or added. *)
AddIf(i) ==
    /\ Idle /\ ~dev[i].exists
    /\ dev' = [dev EXCEPT ![i].exists = TRUE, ![i].seqno = dev[PrimaryIf].seqno]
    /\ UNCHANGED <<queue, due, pass, sent, unsent>>

(* Mutant: OUT_SEQNO_OFFSET is not added. *)
EchoSeqnoAsSent(i, s) == IF dev[i].seqno - 1 < s THEN s ELSE dev[i].seqno

(* update_rtq_link(): "correct seqno for this interface".  The numbers are *)
(* unsigned and 16 bits wide, if_seqno - OUT_SEQNO_OFFSET is an int.       *)
EchoSeqno(i, s) == IF dev[i].seqno - 1 < s THEN (s + 1) % SqMod ELSE dev[i].seqno

(* An own OGM comes back from a neighbour. *)
EchoOwn(i) ==
    /\ Idle /\ dev[i].active /\ i \notin Loopback
    /\ \E s \in ToSet(sent[i]) : dev' = [dev EXCEPT ![i].seqno = EchoSeqno(i, s)]
    /\ UNCHANGED <<queue, due, pass, sent, unsent>>

-----------------------------------------------------------------------------
Next ==
    \/ Aggregate
    \/ \E i \in Ifs :
          \/ Tick(i)
          \/ \E r \in Rcvd : ScheduleRcvd(i, r)
          \/ Activate(i) \/ Deactivate(i) \/ RemoveIf(i) \/ AddIf(i) \/ EchoOwn(i)

Spec == Init /\ [][Next]_vars

(* The task is registered again each time it runs, and the main loop waits *)
(* no longer than until the next task is due; a send time, once set, comes. *)
FairSpec == Spec /\ WF_vars(Aggregate) /\ \A i \in Ifs : SF_vars(Tick(i))

-----------------------------------------------------------------------------
TypeOK ==
    /\ queue \in Seq(Node)
    /\ due \in 0 .. Len(queue)
    /\ dev \in [Ifs -> Dev]
    /\ pass = NULL \/ pass \in [pos : 1 .. due + 1, size : Nat, sent : BOOLEAN]
    /\ sent \in [Ifs -> Seq(Sqn)]
    /\ unsent \subseteq Ifs

(* An interface's own OGMs form one chain: each is scheduled when the first *)
(* copy of its predecessor went out and never a second time, whatever      *)
(* becomes of the interface between.  A broken chain silences the          *)
(* interface for good, a second one doubles its OGMs.                      *)
Pending(i) ==
    Cardinality({k \in DOMAIN queue : queue[k].own /\ queue[k].out = i /\ queue[k].iteration = 0})
OneOwnPending ==
    \A i \in Ifs : Pending(i) + (IF dev[i].sendOwn THEN 1 ELSE 0)
                      = (IF dev[i].scheduling THEN 1 ELSE 0)

(* if_outgoing is dereferenced for every node that is due: opt_dev() frees *)
(* no interface that a node of send_list still points to.                  *)
OutgoingExists == \A k \in DOMAIN queue : dev[queue[k].out].exists

(* The one size that aggregate_outstanding_ogms() adds up for all          *)
(* interfaces bounds what is in each buffer: no buffer runs over, and      *)
(* send_aggregated_ogms() never meets a length it stops the daemon for.    *)
BufferFits == \A i \in Ifs : Bytes(dev[i].buffer) <= MaxUdpd

(* "finished with dev ... and packet_out_len": when the own OGMs are       *)
(* scheduled and outside the function all buffers are empty.               *)
BuffersEmptied == Idle \/ pass.sent => \A i \in Ifs : dev[i].buffer = <<>>

(* A packet exceeds the preferred size only for a neighbour's OGM that     *)
(* exceeds it alone.                                                       *)
PreferredSize ==
    \A i \in Ifs : Bytes(dev[i].buffer) > Pref =>
        Len(dev[i].buffer) = 1 /\ ~dev[i].buffer[1].own

(* No node stays in the list for more copies than some interface wants.    *)
CopiesBounded ==
    \A k \in DOMAIN queue : \E i \in Ifs : 
        queue[k].iteration > 0 => Hundred * queue[k].iteration < Clones[i]

(* Every own OGM carries a later number than the one before it on its      *)
(* interface: neighbours take another one for a duplicate or an old one.   *)
SeqnoAdvances ==
    \A k \in DOMAIN queue :
        LET i == queue[k].out IN
        queue[k].own /\ queue[k].iteration = 0 /\ sent[i] # <<>> =>
            (queue[k].seqno - sent[i][1]) % SqMod \in 1 .. SqMod \div 2

(* schedule_own_ogm() checks the length of the own OGM, so the sender      *)
(* never finds it too large.                                               *)
OwnNeverDropped == unsent = {}

(* The packets: no buffer overflows, none is left behind, and only a single *)
(* received OGM exceeds the preferred size.                                *)
PacketsSound == BufferFits /\ BuffersEmptied /\ PreferredSize

(* The list: a node goes out by an interface there is, leaves when nobody  *)
(* wants a copy any more, and is not dropped when it is an own one.        *)
ListSound == OutgoingExists /\ CopiesBounded /\ OwnNeverDropped

(* An interface that has once been active announces itself for ever, also  *)
(* while it is down (its OGM then goes out through the others).            *)
KeepsAnnouncing == \A i \in Ifs : dev[i].scheduling ~> (dev[i].sendOwn \/ ~dev[i].exists)
=============================================================================
