----------------------------- MODULE Originator -----------------------------
(***************************************************************************)
(* The originator database of bmxd (originator.c): every node interface    *)
(* heard of (orig_node), the neighbours its OGMs came through              *)
(* (neigh_node), the direct links (link_node, link_node_dev), the primary  *)
(* interface of each node with its reference count, and the one-byte       *)
(* identifier bmxd hands out to every direct neighbour (pifnb_node).       *)
(*                                                                         *)
(* The daemon is one thread.  An OGM is handled to its end before anything *)
(* else runs, so process_ogm() is one action; purge_orig() is a loop over  *)
(* the originators in ascending address order and each iteration is one    *)
(* step, during which no other handler runs.                               *)
(*                                                                         *)
(* Sequence numbers, link and path metrics and the clock are abstracted to *)
(* the verdicts the handlers draw from them.  The verdicts are chosen      *)
(* freely, so this module allows every metric and every timing; the        *)
(* sequence number rules are in PathDecision and the metrics in            *)
(* LoungedMetric.                                                          *)
(***************************************************************************)
EXTENDS Integers, FiniteSets

CONSTANTS
    Addr,        \* addresses of other nodes' interfaces; numbers, because
                 \* orig_avl is walked in ascending order
    Ifs,         \* the interfaces bmxd runs on (if_list)
    PrimaryIf,   \* primary_if
    NULL,        \* the null pointer
    MaxId4Him,   \* MAX_ID4HIM: identifiers lie in 1 .. MaxId4Him - 1
    IdMod,       \* 2^8: ogm->prev_hop_id is a uint8_t
    Ogms,        \* the OGMs of other nodes that may arrive
    Echoes,      \* the links <<neighbour, interface>> an own OGM may return by
    FlushAll     \* whether purge_orig(0, NULL) is ever called

Keys == Addr \X Ifs     \* struct neigh_node_key: neighbour and interface

(* A purge_orig() call: its interface, NULL for all, whether it looks at   *)
(* the times, and the originators still to visit.                          *)
PurgeCall == [bif : Ifs \cup {NULL}, timed : BOOLEAN, todo : SUBSET Addr]

ASSUME AddrAssumption == Addr \subseteq Nat
ASSUME NullAssumption ==
    NULL \notin Addr /\ NULL \notin Ifs /\ NULL \notin Keys /\ NULL \notin PurgeCall
ASSUME IfsAssumption  == PrimaryIf \in Ifs
ASSUME IdAssumption   == MaxId4Him \in Nat /\ MaxId4Him > 1 /\ IdMod \in Nat \ {0}
ASSUME FlushAssumption == FlushAll \in BOOLEAN

(* An OGM as process_ogm() sees it: who originated it, the neighbour and   *)
(* interface it came through, the primary interface its PIP extension      *)
(* names (NULL without one) and the CLONED flag.                           *)
Ogm == [orig : Addr, neigh : Addr, iif : Ifs, pip : Addr \cup {NULL},
        cloned : BOOLEAN]

ASSUME OgmAssumption  == Ogms \subseteq Ogm
ASSUME EchoAssumption == Echoes \subseteq Keys

VARIABLES
    db,       \* the originator database
    active,   \* interfaces with if_active set
    purge,    \* the purge_orig() call under way, or NULL
    echoed    \* history: links an own OGM came back by since the interface
              \* came up or everything was flushed

vars == <<db, active, purge, echoed>>

(* One field per member of struct orig_node, as a function of the address. *)
(* Members of an orig_node that does not exist have their initial value,   *)
(* which is what memset() gives them on creation.                          *)
Database == [
    known   : SUBSET Addr,                    \* orig_avl
    neigh   : [Addr -> SUBSET Keys],          \* neigh_list and neigh_avl
    rated   : [Addr -> SUBSET Keys],          \* neighbours whose sq records
                                              \* may hold a positive wa_val
    router  : [Addr -> Keys \cup {NULL}],     \* router, and with it the host
                                              \* route in the kernel
    link    : SUBSET Addr,                    \* link_node, link_list, link_avl
    lndev   : [Addr -> SUBSET Ifs],           \* link_node->lndev_list
    rtq     : [Addr -> SUBSET Ifs],           \* lndevs with rtq_sqr.wa_val > 0
    primary : [Addr -> Addr \cup {NULL}],     \* primary_orig_node
    refcnt  : [Addr -> Int],                  \* pog_refcnt
    id4him  : [Addr -> 0 .. MaxId4Him - 1],   \* id4him, 0 when none
    id4me   : SUBSET Addr,                    \* originators with id4me # 0
    valid   : SUBSET Addr,                    \* last_valid_time # 0
    uaf     : BOOLEAN ]                       \* a freed orig_node was touched

Init ==
    /\ db = [ known   |-> {},
              neigh   |-> [o \in Addr |-> {}],
              rated   |-> [o \in Addr |-> {}],
              router  |-> [o \in Addr |-> NULL],
              link    |-> {},
              lndev   |-> [o \in Addr |-> {}],
              rtq     |-> [o \in Addr |-> {}],
              primary |-> [o \in Addr |-> NULL],
              refcnt  |-> [o \in Addr |-> 0],
              id4him  |-> [o \in Addr |-> 0],
              id4me   |-> {},
              valid   |-> {},
              uaf     |-> FALSE ]
    /\ active = Ifs
    /\ purge = NULL
    /\ echoed = {}

-----------------------------------------------------------------------------
(* The functions process_ogm() and purge_orig() are built from.            *)

(* get_orig_node( o, YES ) *)
GetOrig(d, o) == [d EXCEPT !.known = @ \cup {o}]

(* update_routes(): the kernel's host route follows the router.            *)
UpdateRoutes(d, o, r) == [d EXCEPT !.router[o] = r]

(* flush_orig(): forget the metrics over bif (over all interfaces for      *)
(* NULL) and the route if it leads there.                                  *)
FlushOrig(d, o, bif) ==
    LET m == [d EXCEPT !.rated[o] = IF bif = NULL THEN {}
                                    ELSE {k \in @ : k[2] # bif}]
    IN  IF bif = NULL \/ (d.router[o] # NULL /\ d.router[o][2] = bif)
        THEN UpdateRoutes(m, o, NULL) ELSE m

(* Mutant: only a call for all interfaces drops lndevs.                    *)
FreeLinkAllOnly(d, o, bif) ==
    IF bif # NULL THEN d
    ELSE [d EXCEPT !.lndev[o] = {}, !.rtq[o] = {}, !.link = @ \ {o}]

(* free_link_node(): drop the lndevs on bif (all for NULL), and the        *)
(* link_node itself once it has none.                                      *)
FreeLink(d, o, bif) ==
    LET left == IF bif = NULL THEN {} ELSE d.lndev[o] \ {bif}
    IN  [d EXCEPT !.lndev[o] = left,
                  !.rtq[o]   = @ \cap left,
                  !.link     = IF left = {} THEN @ \ {o} ELSE @]

(* free_pifnb_node(), called only when id4him is set *)
FreePifnb(d, o) == [d EXCEPT !.id4him[o] = 0]

FreeIds(d) == (1 .. MaxId4Him - 1) \ {d.id4him[o] : o \in Addr}

(* Mutant: the identifier is the number of entries plus one.               *)
InitPifnbByCount(d, o) ==
    [d EXCEPT !.id4him[o] = 1 + Cardinality({p \in Addr : d.id4him[p] # 0})]

(* init_pifnb_node(): the smallest identifier not in use.                  *)
InitPifnb(d, o) ==
    [d EXCEPT !.id4him[o] = CHOOSE n \in FreeIds(d) : \A m \in FreeIds(d) : n <= m]

(* Mutant: the reference to the old primary is not counted down.           *)
ClearPrimaryUncounted(d, o) == [d EXCEPT !.primary[o] = NULL]

(* set_primary_orig( o, NULL ) *)
ClearPrimary(d, o) ==
    LET old == d.primary[o]
    IN  IF old \in {NULL, o} THEN [d EXCEPT !.primary[o] = NULL]
        ELSE IF old \in d.known
             THEN [d EXCEPT !.primary[o] = NULL, !.refcnt[old] = @ - 1]
             ELSE [d EXCEPT !.primary[o] = NULL, !.uaf = TRUE]

(* set_primary_orig( o, p ) *)
SetPrimary(d, o, p) ==
    IF d.primary[o] = p THEN d
    ELSE LET c == ClearPrimary(d, o)
         IN  IF p = o THEN [c EXCEPT !.primary[o] = o]
             ELSE [GetOrig(c, p) EXCEPT !.primary[o] = p, !.refcnt[p] = @ + 1]

-----------------------------------------------------------------------------
(* process_ogm() for the OGM m of another node, as the stages it passes.   *)

Direct(m) == m.orig = m.neigh
Key(m)    == <<m.neigh, m.iif>>

Heard(m) == GetOrig(db, m.neigh)        \* orig_node_neigh exists
Found(m) == GetOrig(Heard(m), m.orig)   \* orig_node exists

(* Tests made before the originator is looked up.                          *)
Welcome(d, m) ==
    /\ Direct(m) \/ m.neigh \in d.valid
    /\ ~m.cloned \/ d.primary[m.neigh] # NULL
    /\ Direct(m) \/ d.router[m.neigh] # NULL
    /\ Direct(m) \/ (d.primary[m.neigh] # NULL /\ d.primary[m.neigh] \in d.id4me)

(* validate_primary_orig(): the originator's primary follows the PIP       *)
(* extension; a changed primary takes the neighbour identifier away from   *)
(* the old one.                                                            *)
Announced(m) == IF m.pip = NULL THEN m.orig ELSE m.pip

Dismiss(d, m) ==
    LET old == d.primary[m.orig]
    IN  IF old \notin {NULL, Announced(m)} /\ d.id4him[old] # 0
        THEN FreePifnb(d, old) ELSE d

FollowPip(d, m) == SetPrimary(Dismiss(d, m), m.orig, Announced(m))

(* validate_orig_seqno() lets the first sequence number of an originator   *)
(* pass and marks it valid.                                                *)
Piped(m) == FollowPip([Found(m) EXCEPT !.valid = @ \cup {m.orig}], m)
Named(m) == IF m.pip = NULL THEN Piped(m)
            ELSE [Piped(m) EXCEPT !.valid = @ \cup {m.pip}]

NeedsId(d, m) == Direct(m) /\ d.id4him[d.primary[m.orig]] = 0

Identified(m) ==
    IF NeedsId(Named(m), m) THEN InitPifnb(Named(m), Named(m).primary[m.orig])
    ELSE Named(m)

(* update_rq_link(): a direct OGM creates the link_node, and unless its    *)
(* sequence number is an old one the lndev of this interface.              *)
UpdateLink(d, m, oldSqn) ==
    IF ~Direct(m) THEN d
    ELSE [d EXCEPT !.link = @ \cup {m.orig},
                   !.lndev[m.orig] = IF oldSqn THEN @ ELSE @ \cup {m.iif}]

(* Mutant: any link device will do.                                        *)
BidirectionalIfSeen(d, m) == m.iif \in d.lndev[m.neigh]

(* The link to the neighbour counts as bidirectional while own OGMs come   *)
(* back over it.                                                           *)
Bidirectional(d, m) == m.iif \in d.rtq[m.neigh]

(* update_orig() and update_routes().  "best": the neighbour this OGM came *)
(* through beats all others and becomes the router.  "flushed": it is the  *)
(* router and the path window size has changed, or a hook vetoes the OGM   *)
(* afterwards (an HNA conflict); both end in flush_orig().                 *)
UpdateOrig(d, m, best, flushed) ==
    IF flushed THEN FlushOrig(d, m.orig, NULL)
    ELSE IF best THEN UpdateRoutes(d, m.orig, Key(m))
    ELSE d

-----------------------------------------------------------------------------
(* The actions of process_ogm(): where an OGM is dropped, or the end.      *)

Receives(m) == purge = NULL /\ m.iif \in active

(* Dropped for a test in Welcome, for a TTL of zero or as a two-hop loop;  *)
(* the neighbour has an orig_node from now on.                             *)
DropUnwelcome(m) ==
    /\ Receives(m)
    /\ db' = Heard(m)
    /\ UNCHANGED <<active, purge, echoed>>

(* validate_orig_seqno() refuses the sequence number *)
DropSqn(m) ==
    /\ Receives(m) /\ Welcome(Heard(m), m)
    /\ m.orig \in Found(m).valid
    /\ db' = Found(m)
    /\ UNCHANGED <<active, purge, echoed>>

(* validate_orig_seqno() refuses the primary's sequence number in the PIP  *)
DropPip(m) ==
    /\ Receives(m) /\ Welcome(Heard(m), m)
    /\ m.pip \in Piped(m).valid
    /\ db' = ClearPrimary(Piped(m), m.orig)
    /\ UNCHANGED <<active, purge, echoed>>

(* init_pifnb_node() finds all identifiers taken *)
DropNoId(m) ==
    /\ Receives(m) /\ Welcome(Heard(m), m)
    /\ NeedsId(Named(m), m) /\ FreeIds(Named(m)) = {}
    /\ db' = Named(m)
    /\ UNCHANGED <<active, purge, echoed>>

HasId(m) ==
    /\ Receives(m) /\ Welcome(Heard(m), m)
    /\ NeedsId(Named(m), m) => FreeIds(Named(m)) # {}

(* validate_considered_order(): already seen from this neighbour, or older *)
DropReordered(m) ==
    /\ HasId(m)
    /\ Key(m) \in Identified(m).neigh[m.orig]
    /\ db' = Identified(m)
    /\ UNCHANGED <<active, purge, echoed>>

(* The OGM counts.  "accepted" is the lottery over the link quality, which *)
(* an OGM with an old sequence number never enters; only a neighbour with  *)
(* a positive metric can be the best one.                                  *)
Rate(d, m, accepted) ==
    [d EXCEPT !.neigh[m.orig] = @ \cup {Key(m)},
              !.rated[m.orig] = IF accepted THEN @ \cup {Key(m)} ELSE @]

Consider(m, accepted, best, flushed, oldSqn) ==
    LET d == Rate(UpdateLink(Identified(m), m, oldSqn), m, accepted)
    IN
    /\ HasId(m)
    /\ accepted => Bidirectional(db, m) /\ ~oldSqn
    /\ best => Key(m) \in d.rated[m.orig]
    /\ db' = UpdateOrig(d, m, best, flushed)
    /\ UNCHANGED <<active, purge, echoed>>

(* process_ogm() for an own OGM a neighbour returns, update_rtq_link():    *)
(* with the direct link flag, not cloned and not late it confirms the link *)
(* and tells which identifier the neighbour has for us.                    *)
EchoUnused(k) ==
    /\ purge = NULL /\ k[2] \in active
    /\ db' = GetOrig(db, k[1])
    /\ UNCHANGED <<active, purge, echoed>>

EchoConfirms(k, id4me) ==
    LET n == k[1]
    IN
    /\ purge = NULL /\ k[2] \in active
    /\ n \in db.valid /\ n \in db.link /\ k[2] \in db.lndev[n]
    /\ db.primary[n] # NULL
    /\ db' = [db EXCEPT !.rtq[n] = @ \cup {k[2]},
                        !.id4me  = IF id4me THEN @ \cup {db.primary[n]}
                                   ELSE @ \ {db.primary[n]}]
    /\ echoed' = echoed \cup {k}
    /\ UNCHANGED <<active, purge>>

(* schedule_own_ogm(): each own OGM lets the echo quality of its interface *)
(* decay, on some links to zero.                                           *)
RtqDecay(o, i) ==
    /\ purge = NULL
    /\ i \in db.rtq[o]
    /\ db' = [db EXCEPT !.rtq[o] = @ \ {i}]
    /\ UNCHANGED <<active, purge, echoed>>

-----------------------------------------------------------------------------
(* purge_orig()                                                            *)

Walk(bif, timed, todo) ==
    IF todo = {} THEN NULL ELSE [bif |-> bif, timed |-> timed, todo |-> todo]

(* batman(): purge what was not heard of for purge_to seconds.             *)
PurgeTimed ==
    /\ purge = NULL
    /\ purge' = Walk(NULL, TRUE, db.known)
    /\ UNCHANGED <<db, active, echoed>>

(* opt_purge(): flush_all *)
PurgeAll ==
    /\ FlushAll
    /\ purge = NULL
    /\ purge' = Walk(NULL, FALSE, db.known)
    /\ echoed' = {}
    /\ UNCHANGED <<db, active>>

(* if_deactivate(): the primary interface takes everything with it.        *)
Deactivate(i) ==
    /\ purge = NULL /\ i \in active
    /\ i = PrimaryIf => FlushAll
    /\ active' = active \ {i}
    /\ purge' = Walk(IF i = PrimaryIf THEN NULL ELSE i, FALSE, db.known)
    /\ echoed' = IF i = PrimaryIf THEN {} ELSE {k \in echoed : k[2] # i}
    /\ UNCHANGED db

Activate(i) ==
    /\ purge = NULL /\ i \notin active
    /\ active' = active \cup {i}
    /\ UNCHANGED <<db, purge, echoed>>

(* Mutant: the walk descends.                                              *)
TurnDescending(o) == purge # NULL /\ o \in purge.todo /\ \A p \in purge.todo : o >= p

(* The originator whose turn it is: avl_next() ascends. *)
Turn(o) == purge # NULL /\ o \in purge.todo /\ \A p \in purge.todo : o <= p

Proceed(o) == purge' = Walk(purge.bif, purge.timed, purge.todo \ {o})

Spare(S, bif) == IF bif = NULL THEN {} ELSE {k \in S : k[2] # bif}

(* The part of the loop body that runs for an expired originator and for   *)
(* all of them without a time.                                             *)
Strip(d, o, bif) ==
    LET f == [FlushOrig(d, o, bif) EXCEPT !.neigh[o] = Spare(@, bif)]
    IN  IF o \in f.link THEN FreeLink(f, o, bif) ELSE f

(* Mutant: the identifier is not freed.                                    *)
DestroyKeepingId(d, o) ==
    [ClearPrimary(d, o) EXCEPT
        !.known = @ \ {o}, !.refcnt[o] = 0, !.valid = @ \ {o}, !.id4me = @ \ {o}]

Destroy(d, o) ==
    [ClearPrimary(IF d.id4him[o] # 0 THEN FreePifnb(d, o) ELSE d, o) EXCEPT
        !.known = @ \ {o}, !.refcnt[o] = 0, !.valid = @ \ {o}, !.id4me = @ \ {o}]

(* An originator that is no node's primary goes away completely, and so    *)
(* does every one in a purge of everything.                                *)
PurgeOrig(o) ==
    /\ Turn(o)
    /\ db' = IF purge.bif = NULL /\ (~purge.timed \/ db.refcnt[o] = 0)
             THEN Destroy(Strip(db, o, purge.bif), o)
             ELSE Strip(db, o, purge.bif)
    /\ Proceed(o)
    /\ UNCHANGED <<active, echoed>>

(* An originator still heard of loses the links, the identifier and the    *)
(* neighbours that have expired, but not its router.                       *)
PurgeParts(o, devs, nbs, idExpired) ==
    LET l == [db EXCEPT !.lndev[o] = @ \ devs, !.rtq[o] = @ \ devs]
        f == IF o \in l.link /\ l.lndev[o] = {} THEN FreeLink(l, o, NULL) ELSE l
        p == IF idExpired THEN FreePifnb(f, o) ELSE f
    IN
    /\ Turn(o) /\ purge.timed
    /\ idExpired => db.id4him[o] # 0
    /\ db' = [p EXCEPT !.neigh[o] = @ \ nbs, !.rated[o] = @ \ nbs]
    /\ Proceed(o)
    /\ UNCHANGED <<active, echoed>>

(* opt_lws(): a new link window size drops the records of all links.       *)
FlushLinkSeqnos ==
    /\ purge = NULL
    /\ db' = [db EXCEPT !.lndev = [o \in Addr |-> {}], !.rtq = [o \in Addr |-> {}]]
    /\ UNCHANGED <<active, purge, echoed>>

-----------------------------------------------------------------------------
RcvOgm(m) ==
    \/ DropUnwelcome(m)
    \/ DropSqn(m)
    \/ DropPip(m)
    \/ DropNoId(m)
    \/ DropReordered(m)
    \/ \E accepted, best, flushed, oldSqn \in BOOLEAN :
          Consider(m, accepted, best, flushed, oldSqn)

RcvEcho(k) ==
    \/ EchoUnused(k)
    \/ \E id4me \in BOOLEAN : EchoConfirms(k, id4me)

(* Mutant: the router may expire like any other neighbour.                 *)
PurgeStepWithRouter(o) ==
    \/ PurgeOrig(o)
    \/ \E devs \in SUBSET db.lndev[o], nbs \in SUBSET db.neigh[o], idExpired \in BOOLEAN :
          PurgeParts(o, devs, nbs, idExpired)

PurgeStep(o) ==
    \/ PurgeOrig(o)
    \/ \E devs \in SUBSET db.lndev[o], nbs \in SUBSET (db.neigh[o] \ {db.router[o]}),
         idExpired \in BOOLEAN : PurgeParts(o, devs, nbs, idExpired)

Next ==
    \/ \E m \in Ogms : RcvOgm(m)
    \/ \E k \in Echoes : RcvEcho(k)
    \/ \E o \in Addr, i \in Ifs : RtqDecay(o, i)
    \/ PurgeTimed
    \/ PurgeAll
    \/ \E i \in Ifs : Deactivate(i) \/ Activate(i)
    \/ \E o \in Addr : PurgeStep(o)
    \/ FlushLinkSeqnos

Spec == Init /\ [][Next]_vars

-----------------------------------------------------------------------------
(* Correctness.                                                            *)

(* Types: every field of the database holds what its comment says.         *)
TypeOK ==
    /\ db \in Database
    /\ active \subseteq Ifs
    /\ purge \in PurgeCall \cup {NULL}
    /\ echoed \subseteq Keys

(* Originators a purge_orig() call without a time has still to visit.      *)
Unvisited == IF purge = NULL \/ (purge # NULL /\ purge.timed) THEN {} ELSE purge.todo

(* orig_node->router points into the originator's own neighbour list: no   *)
(* purge, flush or re-ordering frees a neigh_node that the router (and the *)
(* kernel's route) still uses, and only neighbours that exist have metrics.*)
RouterIsNeighbour ==
    \A o \in Addr :
        /\ db.rated[o] \subseteq db.neigh[o]
        /\ db.router[o] # NULL => db.router[o] \in db.rated[o]

(* Whatever hangs off an orig_node goes with it: an originator that is not *)
(* in orig_avl has no neighbours, route, link, identifier or primary.      *)
NothingOutlivesOrig ==
    \A o \in Addr \ db.known :
        /\ db.neigh[o] = {} /\ db.router[o] = NULL
        /\ o \notin db.link /\ db.lndev[o] = {}
        /\ db.id4him[o] = 0 /\ db.primary[o] = NULL

(* if_deactivate() leaves nothing behind on the interface: once its purge  *)
(* has visited an originator, no neighbour, link device or route of that   *)
(* originator uses an inactive interface.                                  *)
NothingOnInactiveIf ==
    \A o \in Addr \ Unvisited :
        /\ \A k \in db.neigh[o] : k[2] \in active
        /\ db.lndev[o] \subseteq active
        /\ db.router[o] # NULL => db.router[o][2] \in active

(* Unidirectional links are never used: a route leads over a link on which *)
(* own OGMs have come back since the interface is up.  It takes the echo,  *)
(* the accepted OGM, the metric and the route, in this order, to get one,  *)
(* and a purge in between must make all of them start again.               *)
RouterConfirmed ==
    \A o \in Addr \ Unvisited : db.router[o] # NULL => db.router[o] \in echoed

(* A link's devices and their echo quality live only while the link_node   *)
(* does, and a link_node only while its originator does.                   *)
LinksOwned ==
    /\ db.link \subseteq db.known
    /\ \A o \in Addr : /\ db.rtq[o] \subseteq db.lndev[o]
                       /\ db.lndev[o] # {} => o \in db.link

(* pog_refcnt counts the other originators whose primary a node is, and a  *)
(* primary is never freed while it is one.  This is what lets purge_orig() *)
(* free an originator when the count is zero.                              *)
RefcntExact ==
    \A p \in Addr :
        /\ db.refcnt[p] = Cardinality({o \in Addr \ {p} : db.primary[o] = p})
        /\ db.refcnt[p] > 0 => p \in db.known

(* No freed orig_node is read or written (memory of a primary that         *)
(* set_primary_orig() counts down), as paranoia -500152 presumes.          *)
NoUseAfterFree == ~db.uaf

(* The one-byte identifiers neighbours see in prev_hop_id tell them apart  *)
(* and are never zero, the value that means none: two-hop loops are        *)
(* detected by comparing them.                                             *)
PrevHopIdsDistinct ==
    \A o, p \in Addr : db.id4him[o] # 0 =>
        /\ db.id4him[o] % IdMod # 0
        /\ (o # p /\ db.id4him[p] # 0) => db.id4him[o] % IdMod # db.id4him[p] % IdMod

=============================================================================
