-------------------------- MODULE OriginatorProofs --------------------------
(***************************************************************************)
(* Theorems about the originator database, for any number of originators,  *)
(* interfaces and OGMs and with flush_all allowed.                         *)
(*                                                                         *)
(* The handlers are compositions of functions on the database.  Sound is   *)
(* the part of the inductive invariant that speaks of the database alone;  *)
(* one lemma for each function says that it keeps a database sound, and    *)
(* the theorems compose them along each action.  RefSound does the same    *)
(* for the reference counts, and WalkSound ties a purge_orig() call under  *)
(* way to the database: what it still has to visit exists.                 *)
(***************************************************************************)
EXTENDS Originator, WalkLemmas, FiniteSetTheorems, TLAPS

(* RouterIsNeighbour of a database *)
RoutesSound(d) ==
    \A o \in Addr : /\ d.rated[o] \subseteq d.neigh[o]
                    /\ d.router[o] # NULL => d.router[o] \in d.rated[o]

(* LinksOwned of a database *)
LinksSound(d) ==
    /\ d.link \subseteq d.known
    /\ \A o \in Addr : /\ d.rtq[o] \subseteq d.lndev[o]
                       /\ d.lndev[o] # {} => o \in d.link

(* Two originators never have the same identifier. *)
IdsSound(d) ==
    \A o, p \in Addr : o # p /\ d.id4him[o] # 0 => d.id4him[o] # d.id4him[p]

Sound(d) == d \in Database /\ RoutesSound(d) /\ LinksSound(d) /\ IdsSound(d)

Inv == TypeOK /\ Sound(db)

-----------------------------------------------------------------------------
(* The functions on the database.                                          *)

(* Sound looks at these fields only. *)
LEMMA SameSound ==
  ASSUME NEW d, Sound(d), NEW e, e \in Database,
         e.known = d.known, e.neigh = d.neigh, e.rated = d.rated, e.router = d.router,
         e.link = d.link, e.lndev = d.lndev, e.rtq = d.rtq, e.id4him = d.id4him
  PROVE  Sound(e)
BY DEF Sound, RoutesSound, LinksSound, IdsSound

LEMMA GetOrigSound ==
  ASSUME NEW d, Sound(d), NEW o \in Addr
  PROVE  Sound(GetOrig(d, o)) /\ o \in GetOrig(d, o).known
BY DEF Sound, Database, RoutesSound, LinksSound, IdsSound, GetOrig

LEMMA UpdateRoutesSound ==
  ASSUME NEW d, Sound(d), NEW o \in Addr, NEW r \in d.rated[o] \cup {NULL}
  PROVE  Sound(UpdateRoutes(d, o, r))
<1>1. r \in Keys \cup {NULL}
  BY DEF Sound, Database
<1> QED
  BY <1>1 DEF Sound, Database, RoutesSound, LinksSound, IdsSound, UpdateRoutes

(* flush_orig() also leaves only metrics that survive a purge of bif.      *)
LEMMA FlushOrigSound ==
  ASSUME NEW d, Sound(d), NEW o \in Addr, NEW bif \in Ifs \cup {NULL}
  PROVE  /\ Sound(FlushOrig(d, o, bif))
         /\ FlushOrig(d, o, bif).rated[o] \subseteq Spare(FlushOrig(d, o, bif).neigh[o], bif)
<1> DEFINE kept == IF bif = NULL THEN {} ELSE {k \in d.rated[o] : k[2] # bif}
           m == [d EXCEPT !.rated[o] = kept]
<1>1. kept \subseteq d.rated[o] /\ kept \in SUBSET Keys
  BY DEF Sound, Database
<1>2. m \in Database
  BY <1>1 DEF Sound, Database
<1>3. CASE bif = NULL \/ (d.router[o] # NULL /\ d.router[o][2] = bif)
  <2>1. FlushOrig(d, o, bif) = UpdateRoutes(m, o, NULL)
    BY <1>3 DEF FlushOrig
  <2>2. UpdateRoutes(m, o, NULL) \in Database
    BY <1>2 DEF UpdateRoutes, Database
  <2>3. RoutesSound(UpdateRoutes(m, o, NULL))
    BY <1>1 DEF UpdateRoutes, RoutesSound, Sound, Database
  <2>4. LinksSound(UpdateRoutes(m, o, NULL)) /\ IdsSound(UpdateRoutes(m, o, NULL))
    BY DEF UpdateRoutes, LinksSound, IdsSound, Sound, Database
  <2>5. UpdateRoutes(m, o, NULL).rated[o] \subseteq Spare(UpdateRoutes(m, o, NULL).neigh[o], bif)
    BY <1>1 DEF UpdateRoutes, RoutesSound, Sound, Database, Spare
  <2> QED
    BY <2>1, <2>2, <2>3, <2>4, <2>5 DEF Sound
<1>4. CASE ~(bif = NULL \/ (d.router[o] # NULL /\ d.router[o][2] = bif))
  <2>1. FlushOrig(d, o, bif) = m
    BY <1>4 DEF FlushOrig
  <2>2. RoutesSound(m)
    BY <1>1, <1>4 DEF RoutesSound, Sound, Database
  <2>3. LinksSound(m) /\ IdsSound(m)
    BY DEF LinksSound, IdsSound, Sound, Database
  <2>4. m.rated[o] \subseteq Spare(m.neigh[o], bif)
    BY <1>1 DEF RoutesSound, Sound, Database, Spare
  <2> QED
    BY <1>2, <2>1, <2>2, <2>3, <2>4 DEF Sound
<1> QED
  BY <1>3, <1>4

LEMMA FreeLinkSound ==
  ASSUME NEW d, Sound(d), NEW o \in Addr, NEW bif \in Ifs \cup {NULL}
  PROVE  /\ Sound(FreeLink(d, o, bif))
         /\ bif = NULL => o \notin FreeLink(d, o, bif).link
         /\ FreeLink(d, o, bif).router = d.router
<1> DEFINE left == IF bif = NULL THEN {} ELSE d.lndev[o] \ {bif}
           f == [d EXCEPT !.lndev[o] = left, !.rtq[o] = @ \cap left,
                          !.link = IF left = {} THEN @ \ {o} ELSE @]
<1>1. FreeLink(d, o, bif) = f
  BY DEF FreeLink
<1>2. left \subseteq d.lndev[o]
  OBVIOUS
<1> HIDE DEF left
<1>3. f \in Database
  BY <1>2 DEF Sound, Database
<1>4. RoutesSound(f) /\ IdsSound(f)
  BY DEF RoutesSound, IdsSound, Sound, Database
<1>5. LinksSound(f)
  BY <1>2 DEF LinksSound, Sound, Database
<1>6. (bif = NULL => o \notin f.link) /\ f.router = d.router
  BY DEF left, Sound, Database
<1> QED
  BY <1>1, <1>3, <1>4, <1>5, <1>6 DEF Sound

LEMMA FreePifnbSound ==
  ASSUME NEW d, Sound(d), NEW o \in Addr
  PROVE  Sound(FreePifnb(d, o))
<1>1. [d.id4him EXCEPT ![o] = 0] \in [Addr -> 0 .. MaxId4Him - 1]
  BY IdAssumption DEF Sound, Database
<1>2. FreePifnb(d, o) = [d EXCEPT !.id4him = [@ EXCEPT ![o] = 0]]
  BY DEF FreePifnb
<1>3. FreePifnb(d, o) \in Database
  BY <1>1, <1>2 DEF Sound, Database
<1> QED
  BY <1>3 DEF Sound, Database, RoutesSound, LinksSound, IdsSound, FreePifnb

LEMMA InitPifnbSound ==
  ASSUME NEW d, Sound(d), NEW o \in Addr, FreeIds(d) # {}
  PROVE  Sound(InitPifnb(d, o))
<1> DEFINE id == CHOOSE n \in FreeIds(d) : \A m \in FreeIds(d) : n <= m
<1>1. \E n \in FreeIds(d) : \A m \in FreeIds(d) : n <= m
  <2>1. FreeIds(d) \in SUBSET Nat
    BY IdAssumption DEF FreeIds
  <2> QED
    BY <2>1, LeastExists
<1>2. id \in FreeIds(d)
  BY <1>1
<1>3. InitPifnb(d, o) = [d EXCEPT !.id4him[o] = id]
  BY DEF InitPifnb
<1> HIDE DEF id
<1>4. id \in 1 .. MaxId4Him - 1 /\ \A p \in Addr : d.id4him[p] # id
  BY <1>2 DEF FreeIds
<1>5. [d EXCEPT !.id4him[o] = id] \in Database
  <2>1. [d.id4him EXCEPT ![o] = id] \in [Addr -> 0 .. MaxId4Him - 1]
    BY <1>4, IdAssumption DEF Sound, Database
  <2> QED
    BY <2>1 DEF Sound, Database
<1>6. IdsSound([d EXCEPT !.id4him[o] = id])
  BY <1>4 DEF Sound, IdsSound, Database
<1> QED
  BY <1>3, <1>5, <1>6 DEF Sound, RoutesSound, LinksSound, Database

LEMMA ClearPrimarySound ==
  ASSUME NEW d, Sound(d), NEW o \in Addr
  PROVE  Sound(ClearPrimary(d, o)) /\ ClearPrimary(d, o).known = d.known
                                   /\ ClearPrimary(d, o).link = d.link
<1> DEFINE c == ClearPrimary(d, o)
           old == d.primary[o]
<1>1. old \in Addr \cup {NULL}
  BY DEF Sound, Database
<1>2. \/ c = [d EXCEPT !.primary[o] = NULL]
      \/ old \in Addr /\ c = [d EXCEPT !.primary[o] = NULL, !.refcnt[old] = @ - 1]
      \/ c = [d EXCEPT !.primary[o] = NULL, !.uaf = TRUE]
  BY <1>1 DEF ClearPrimary
<1> HIDE DEF c
<1>3. c \in Database
  <2>1. CASE c = [d EXCEPT !.primary[o] = NULL]
    BY <2>1 DEF Sound, Database
  <2>2. CASE old \in Addr /\ c = [d EXCEPT !.primary[o] = NULL, !.refcnt[old] = @ - 1]
    <3>1. [d.refcnt EXCEPT ![old] = @ - 1] \in [Addr -> Int]
      BY <2>2 DEF Sound, Database
    <3>2. [d.primary EXCEPT ![o] = NULL] \in [Addr -> Addr \cup {NULL}]
      BY DEF Sound, Database
    <3> QED
      BY <2>2, <3>1, <3>2 DEF Sound, Database
  <2>3. CASE c = [d EXCEPT !.primary[o] = NULL, !.uaf = TRUE]
    BY <2>3 DEF Sound, Database
  <2> QED
    BY <1>2, <2>1, <2>2, <2>3
<1>4. /\ c.rated = d.rated /\ c.neigh = d.neigh /\ c.router = d.router
      /\ c.link = d.link /\ c.known = d.known /\ c.rtq = d.rtq /\ c.lndev = d.lndev
      /\ c.id4him = d.id4him
  BY <1>2 DEF Sound, Database
<1> QED
  BY <1>3, <1>4 DEF c, Sound, RoutesSound, LinksSound, IdsSound

LEMMA SetPrimarySound ==
  ASSUME NEW d, Sound(d), NEW o \in Addr, NEW p \in Addr
  PROVE  /\ Sound(SetPrimary(d, o, p))
         /\ d.known \subseteq SetPrimary(d, o, p).known
         /\ SetPrimary(d, o, p).primary[o] = p
<1> DEFINE c == ClearPrimary(d, o)
           g == GetOrig(c, p)
<1>1. Sound(c) /\ c.known = d.known
  BY ClearPrimarySound
<1>2. CASE d.primary[o] = p
  BY <1>2 DEF SetPrimary
<1>3. CASE d.primary[o] # p /\ p = o
  <2> DEFINE s == [c EXCEPT !.primary[o] = o]
  <2>1. SetPrimary(d, o, p) = s
    BY <1>3 DEF SetPrimary
  <2> HIDE DEF c
  <2>2. s \in Database
    BY <1>1 DEF Sound, Database
  <2>3. /\ s.known = c.known /\ s.neigh = c.neigh /\ s.rated = c.rated /\ s.router = c.router
        /\ s.link = c.link /\ s.lndev = c.lndev /\ s.rtq = c.rtq /\ s.id4him = c.id4him
        /\ s.primary[o] = p
    BY <1>1, <1>3 DEF Sound, Database
  <2> HIDE DEF s
  <2>4. Sound(s)
    BY <1>1, <2>2, <2>3, SameSound
  <2> QED
    BY <1>1, <2>1, <2>3, <2>4
<1>4. CASE d.primary[o] # p /\ p # o
  <2>1. SetPrimary(d, o, p) = [g EXCEPT !.primary[o] = p, !.refcnt[p] = @ + 1]
    BY <1>4 DEF SetPrimary
  <2>2. Sound(g) /\ d.known \subseteq g.known
    BY <1>1, GetOrigSound DEF GetOrig, Sound, Database
  <2> HIDE DEF g
  <2> DEFINE s == [g EXCEPT !.primary[o] = p, !.refcnt[p] = @ + 1]
  <2>3. s \in Database
    <3>1. [g.refcnt EXCEPT ![p] = @ + 1] \in [Addr -> Int]
      BY <2>2 DEF Sound, Database
    <3>2. [g.primary EXCEPT ![o] = p] \in [Addr -> Addr \cup {NULL}]
      BY <2>2 DEF Sound, Database
    <3> QED
      BY <2>2, <3>1, <3>2 DEF Sound, Database
  <2>4. /\ s.rated = g.rated /\ s.neigh = g.neigh /\ s.router = g.router
        /\ s.link = g.link /\ s.known = g.known /\ s.rtq = g.rtq /\ s.lndev = g.lndev
        /\ s.id4him = g.id4him /\ s.primary[o] = p
    BY <2>2 DEF Sound, Database
  <2> HIDE DEF s
  <2>5. Sound(s)
    BY <2>2, <2>3, <2>4 DEF Sound, RoutesSound, LinksSound, IdsSound
  <2> QED
    BY <2>1, <2>2, <2>4, <2>5 DEF s
<1> QED
  BY <1>2, <1>3, <1>4

-----------------------------------------------------------------------------
(* The stages of process_ogm().                                            *)

(* Up to the originator's own sequence number. *)
LEMMA FoundSound ==
  ASSUME Sound(db), NEW m \in Ogm
  PROVE  Sound(Heard(m)) /\ Sound(Found(m)) /\ m.orig \in Found(m).known
<1>1. m.orig \in Addr /\ m.neigh \in Addr
  BY DEF Ogm
<1>2. Sound(Heard(m))
  BY <1>1, GetOrigSound DEF Heard
<1> QED
  BY <1>1, <1>2, GetOrigSound DEF Found

(* validate_primary_orig() leaves the originator with a primary. *)
LEMMA FollowPipSound ==
  ASSUME NEW d, Sound(d), NEW m \in Ogm, m.orig \in d.known
  PROVE  /\ Sound(FollowPip(d, m)) /\ m.orig \in FollowPip(d, m).known
         /\ FollowPip(d, m).primary[m.orig] \in Addr
<1>1. m.orig \in Addr /\ Announced(m) \in Addr
  BY DEF Ogm, Announced
<1> DEFINE old == d.primary[m.orig]
           e == Dismiss(d, m)
<1>2. old \in Addr \cup {NULL}
  BY <1>1 DEF Sound, Database
<1>3. Sound(e) /\ e.known = d.known
  <2>1. CASE e = d
    BY <2>1
  <2>2. CASE old \in Addr /\ e = FreePifnb(d, old)
    <3>1. Sound(FreePifnb(d, old))
      BY <2>2, FreePifnbSound
    <3> QED
      BY <2>2, <3>1 DEF FreePifnb, Sound, Database
  <2> QED
    BY <1>2, <2>1, <2>2 DEF Dismiss
<1> HIDE DEF e
<1> QED
  BY <1>1, <1>3, SetPrimarySound DEF FollowPip, e

LEMMA NamedSound ==
  ASSUME Sound(db), NEW m \in Ogm
  PROVE  /\ Sound(Piped(m)) /\ Sound(Named(m))
         /\ m.orig \in Named(m).known /\ Named(m).primary[m.orig] \in Addr
<1>1. m.orig \in Addr /\ m.pip \in Addr \cup {NULL}
  BY DEF Ogm
<1> DEFINE f == Found(m)
           v == [f EXCEPT !.valid = @ \cup {m.orig}]
           p == Piped(m)
           n == [p EXCEPT !.valid = @ \cup {m.pip}]
<1>2. Sound(f) /\ m.orig \in f.known
  BY FoundSound
<1>3. p = FollowPip(v, m)
  BY DEF Piped
<1>4. m.pip # NULL => Named(m) = n
  BY DEF Named
<1>5. m.pip = NULL => Named(m) = p
  BY DEF Named
<1> HIDE DEF f, p
<1>6. Sound(v) /\ m.orig \in v.known
  <2>1. v \in Database /\ v.known = f.known /\ v.neigh = f.neigh /\ v.rated = f.rated
    BY <1>1, <1>2 DEF Sound, Database
  <2>2. /\ v.router = f.router /\ v.link = f.link /\ v.lndev = f.lndev /\ v.rtq = f.rtq
        /\ v.id4him = f.id4him
    BY <1>2 DEF Sound, Database
  <2> HIDE DEF v
  <2> QED
    BY <1>2, <2>1, <2>2, SameSound
<1>7. Sound(p) /\ m.orig \in p.known /\ p.primary[m.orig] \in Addr
  BY <1>3, <1>6, FollowPipSound
<1>8. m.pip # NULL => Sound(n) /\ m.orig \in n.known /\ n.primary[m.orig] \in Addr
  <2> SUFFICES ASSUME m.pip # NULL PROVE Sound(n) /\ n.known = p.known /\ n.primary = p.primary
    BY <1>7
  <2>1. n \in Database /\ n.known = p.known /\ n.neigh = p.neigh /\ n.rated = p.rated
    BY <1>1, <1>7 DEF Sound, Database
  <2>2. /\ n.router = p.router /\ n.link = p.link /\ n.lndev = p.lndev /\ n.rtq = p.rtq
        /\ n.id4him = p.id4him /\ n.primary = p.primary
    BY <1>7 DEF Sound, Database
  <2> HIDE DEF n
  <2> QED
    BY <1>7, <2>1, <2>2, SameSound
<1> HIDE DEF n
<1> QED
  BY <1>4, <1>5, <1>7, <1>8 DEF p

LEMMA IdentifiedSound ==
  ASSUME Sound(db), NEW m \in Ogm, HasId(m)
  PROVE  Sound(Identified(m)) /\ m.orig \in Identified(m).known
<1> DEFINE n == Named(m)
<1>1. Sound(n) /\ m.orig \in n.known /\ n.primary[m.orig] \in Addr
  BY NamedSound
<1>2. CASE NeedsId(n, m)
  <2>1. FreeIds(n) # {}
    BY <1>2 DEF HasId
  <2>2. Identified(m) = InitPifnb(n, n.primary[m.orig])
    BY <1>2 DEF Identified
  <2> HIDE DEF n
  <2>3. InitPifnb(n, n.primary[m.orig]).known = n.known
    BY <1>1 DEF InitPifnb, Sound, Database
  <2> QED
    BY <1>1, <2>1, <2>2, <2>3, InitPifnbSound
<1>3. CASE ~NeedsId(n, m)
  BY <1>1, <1>3 DEF Identified
<1> QED
  BY <1>2, <1>3

LEMMA UpdateLinkSound ==
  ASSUME NEW d, Sound(d), NEW m \in Ogm, m.orig \in d.known, NEW oldSqn \in BOOLEAN
  PROVE  Sound(UpdateLink(d, m, oldSqn))
<1>1. m.orig \in Addr /\ m.iif \in Ifs
  BY DEF Ogm
<1> DEFINE devs == IF oldSqn THEN d.lndev[m.orig] ELSE d.lndev[m.orig] \cup {m.iif}
           u == [d EXCEPT !.link = @ \cup {m.orig}, !.lndev[m.orig] = devs]
<1>2. UpdateLink(d, m, oldSqn) = d \/ UpdateLink(d, m, oldSqn) = u
  BY DEF UpdateLink
<1>3. d.lndev[m.orig] \subseteq devs /\ devs \subseteq Ifs
  BY <1>1 DEF Sound, Database
<1> HIDE DEF devs
<1>4. u \in Database
  BY <1>1, <1>3 DEF Sound, Database
<1>5. RoutesSound(u) /\ IdsSound(u)
  BY DEF RoutesSound, IdsSound, Sound, Database
<1>6. LinksSound(u)
  BY <1>1, <1>3 DEF LinksSound, Sound, Database
<1> QED
  BY <1>2, <1>4, <1>5, <1>6 DEF Sound

LEMMA RateSound ==
  ASSUME NEW d, Sound(d), NEW m \in Ogm, NEW accepted \in BOOLEAN
  PROVE  Sound(Rate(d, m, accepted))
<1>1. m.orig \in Addr /\ Key(m) \in Keys
  BY DEF Ogm, Key, Keys
<1> DEFINE nbs == d.neigh[m.orig] \cup {Key(m)}
           rated == IF accepted THEN d.rated[m.orig] \cup {Key(m)} ELSE d.rated[m.orig]
           r == [d EXCEPT !.neigh[m.orig] = nbs, !.rated[m.orig] = rated]
<1>2. Rate(d, m, accepted) = r
  BY DEF Rate
<1>3. /\ d.rated[m.orig] \subseteq rated /\ rated \subseteq nbs
      /\ d.neigh[m.orig] \subseteq nbs /\ nbs \subseteq Keys
  BY <1>1 DEF Sound, Database, RoutesSound
<1> HIDE DEF nbs, rated
<1>4. r \in Database
  BY <1>1, <1>3 DEF Sound, Database
<1>5. RoutesSound(r)
  BY <1>1, <1>3 DEF RoutesSound, Sound, Database
<1>6. LinksSound(r) /\ IdsSound(r)
  BY DEF LinksSound, IdsSound, Sound, Database
<1> QED
  BY <1>2, <1>4, <1>5, <1>6 DEF Sound

LEMMA UpdateOrigSound ==
  ASSUME NEW d, Sound(d), NEW m \in Ogm, NEW best \in BOOLEAN, NEW flushed \in BOOLEAN,
         best => Key(m) \in d.rated[m.orig]
  PROVE  Sound(UpdateOrig(d, m, best, flushed))
<1>1. m.orig \in Addr
  BY DEF Ogm
<1>2. CASE flushed
  BY <1>1, <1>2, FlushOrigSound DEF UpdateOrig
<1>3. CASE ~flushed /\ best
  BY <1>1, <1>3, UpdateRoutesSound DEF UpdateOrig
<1>4. CASE ~flushed /\ ~best
  BY <1>4 DEF UpdateOrig
<1> QED
  BY <1>2, <1>3, <1>4

-----------------------------------------------------------------------------
(* The loop body of purge_orig().                                          *)

LEMMA StripSound ==
  ASSUME NEW d, Sound(d), NEW o \in Addr, NEW bif \in Ifs \cup {NULL}
  PROVE  /\ Sound(Strip(d, o, bif))
         /\ bif = NULL => o \notin Strip(d, o, bif).link
<1> DEFINE f == FlushOrig(d, o, bif)
           left == Spare(f.neigh[o], bif)
           g == [f EXCEPT !.neigh[o] = left]
<1>1. Sound(f) /\ f.rated[o] \subseteq left
  BY FlushOrigSound
<1>2. Strip(d, o, bif) = IF o \in g.link THEN FreeLink(g, o, bif) ELSE g
  BY DEF Strip
<1>3. left \subseteq f.neigh[o]
  BY DEF Spare
<1> HIDE DEF f, left
<1>4. Sound(g)
  <2>1. g \in Database
    BY <1>1, <1>3 DEF Sound, Database
  <2>2. RoutesSound(g)
    BY <1>1 DEF RoutesSound, Sound, Database
  <2>3. LinksSound(g) /\ IdsSound(g)
    BY <1>1 DEF LinksSound, IdsSound, Sound, Database
  <2> QED
    BY <2>1, <2>2, <2>3 DEF Sound
<1> HIDE DEF g
<1> QED
  BY <1>2, <1>4, FreeLinkSound

(* The link_node is gone before the orig_node is. *)
LEMMA DestroySound ==
  ASSUME NEW d, Sound(d), NEW o \in Addr, o \notin d.link
  PROVE  Sound(Destroy(d, o))
<1> DEFINE f == IF d.id4him[o] # 0 THEN FreePifnb(d, o) ELSE d
           c == ClearPrimary(f, o)
           g == [c EXCEPT !.known = @ \ {o}, !.refcnt[o] = 0, !.valid = @ \ {o},
                          !.id4me = @ \ {o}]
<1>1. Destroy(d, o) = g
  BY DEF Destroy
<1>2. Sound(f) /\ f.link = d.link
  BY FreePifnbSound DEF FreePifnb, Sound, Database
<1> HIDE DEF f
<1>3. Sound(c) /\ o \notin c.link
  BY <1>2, ClearPrimarySound
<1> HIDE DEF c
<1>4. g \in Database
  <2>1. [c.refcnt EXCEPT ![o] = 0] \in [Addr -> Int]
    BY <1>3 DEF Sound, Database
  <2> QED
    BY <1>3, <2>1 DEF Sound, Database
<1>5. /\ g.known = c.known \ {o} /\ g.neigh = c.neigh /\ g.rated = c.rated
      /\ g.router = c.router /\ g.link = c.link /\ g.lndev = c.lndev /\ g.rtq = c.rtq
      /\ g.id4him = c.id4him
  BY <1>3 DEF Sound, Database
<1> HIDE DEF g
<1>6. Sound(g)
  BY <1>3, <1>4, <1>5 DEF Sound, RoutesSound, LinksSound, IdsSound
<1> QED
  BY <1>1, <1>6

-----------------------------------------------------------------------------
(* The invariant.                                                          *)

LEMMA InitInv == Init => Inv
<1> SUFFICES ASSUME Init PROVE Inv
  OBVIOUS
<1>1. db \in Database
  <2>1. [o \in Addr |-> 0] \in [Addr -> 0 .. MaxId4Him - 1]
    BY IdAssumption
  <2> QED
    BY <2>1 DEF Init, Database
<1>2. RoutesSound(db) /\ LinksSound(db) /\ IdsSound(db)
  BY DEF Init, RoutesSound, LinksSound, IdsSound
<1> QED
  BY <1>1, <1>2 DEF Init, Inv, TypeOK, Sound

LEMMA RcvOgmKeepsInv ==
  ASSUME Inv, NEW m \in Ogms, RcvOgm(m)
  PROVE  Inv'
<1>1. m \in Ogm /\ Sound(db) /\ m.orig \in Addr
  BY OgmAssumption DEF Inv, Ogm
<1>2. UNCHANGED <<active, purge, echoed>>
  BY DEF RcvOgm, DropUnwelcome, DropSqn, DropPip, DropNoId, DropReordered, Consider
<1> SUFFICES Sound(db')
  BY <1>2 DEF Inv, TypeOK, Sound, Database, PurgeCall, RoutesSound, LinksSound, IdsSound
<1>3. CASE DropUnwelcome(m)
  BY <1>1, <1>3, FoundSound DEF DropUnwelcome
<1>4. CASE DropSqn(m)
  BY <1>1, <1>4, FoundSound DEF DropSqn
<1>5. CASE DropPip(m)
  BY <1>1, <1>5, NamedSound, ClearPrimarySound DEF DropPip
<1>6. CASE DropNoId(m)
  BY <1>1, <1>6, NamedSound DEF DropNoId
<1>7. CASE DropReordered(m)
  BY <1>1, <1>7, IdentifiedSound DEF DropReordered
<1>8. ASSUME NEW accepted \in BOOLEAN, NEW best \in BOOLEAN, NEW flushed \in BOOLEAN,
             NEW oldSqn \in BOOLEAN, Consider(m, accepted, best, flushed, oldSqn)
      PROVE  Sound(db')
  <2> DEFINE i == Identified(m)
             l == UpdateLink(i, m, oldSqn)
             d == Rate(l, m, accepted)
  <2>1. /\ HasId(m) /\ (best => Key(m) \in d.rated[m.orig])
        /\ db' = UpdateOrig(d, m, best, flushed)
    BY <1>8 DEF Consider
  <2>2. Sound(i) /\ m.orig \in i.known
    BY <1>1, <2>1, IdentifiedSound
  <2> HIDE DEF i
  <2>3. Sound(l)
    BY <1>1, <2>2, UpdateLinkSound
  <2> HIDE DEF l
  <2>4. Sound(d)
    BY <1>1, <2>3, RateSound
  <2> HIDE DEF d
  <2> QED
    BY <1>1, <2>1, <2>4, UpdateOrigSound
<1> QED
  BY <1>3, <1>4, <1>5, <1>6, <1>7, <1>8 DEF RcvOgm

LEMMA RcvEchoKeepsInv ==
  ASSUME Inv, NEW k \in Echoes, RcvEcho(k)
  PROVE  Inv'
<1>1. k \in Keys /\ k[1] \in Addr /\ k[2] \in Ifs /\ Sound(db)
  BY EchoAssumption DEF Inv, Keys
<1>2. CASE EchoUnused(k)
  <2>1. Sound(db')
    BY <1>1, <1>2, GetOrigSound DEF EchoUnused
  <2> QED
    BY <1>2, <2>1 DEF EchoUnused, Inv, TypeOK, Sound
<1>3. ASSUME NEW id4me \in BOOLEAN, EchoConfirms(k, id4me)
      PROVE  Inv'
  <2> DEFINE n == k[1]
             q == db.rtq[n] \cup {k[2]}
             me == IF id4me THEN db.id4me \cup {db.primary[n]} ELSE db.id4me \ {db.primary[n]}
             e == [db EXCEPT !.rtq[n] = q, !.id4me = me]
  <2>1. db' = e
    BY <1>3 DEF EchoConfirms
  <2>2. me \subseteq Addr
    BY <1>1, <1>3 DEF EchoConfirms, Sound, Database
  <2>3. q \subseteq Ifs /\ q \subseteq db.lndev[n]
    BY <1>1, <1>3 DEF EchoConfirms, Sound, Database, LinksSound
  <2> HIDE DEF q, me
  <2>4. e \in Database
    BY <1>1, <2>2, <2>3 DEF Sound, Database
  <2>5. RoutesSound(e) /\ IdsSound(e)
    BY <1>1 DEF RoutesSound, IdsSound, Sound, Database
  <2>6. LinksSound(e)
    BY <1>1, <2>3 DEF LinksSound, Sound, Database
  <2>7. echoed' \subseteq Keys /\ UNCHANGED <<active, purge>>
    BY <1>1, <1>3 DEF EchoConfirms, Inv, TypeOK
  <2> QED
    BY <2>1, <2>4, <2>5, <2>6, <2>7 DEF Inv, TypeOK, Sound
<1> QED
  BY <1>2, <1>3 DEF RcvEcho

(* Neither a decayed echo nor a new link window takes away a device. *)
LEMMA DecayKeepsInv ==
  ASSUME Inv, (\E o \in Addr, i \in Ifs : RtqDecay(o, i)) \/ FlushLinkSeqnos
  PROVE  Inv'
<1>1. Sound(db)
  BY DEF Inv
<1>2. UNCHANGED <<active, purge, echoed>>
  BY DEF RtqDecay, FlushLinkSeqnos
<1>3. ASSUME NEW o \in Addr, NEW i \in Ifs, RtqDecay(o, i)
      PROVE  Sound(db')
  <2>1. db' = [db EXCEPT !.rtq[o] = @ \ {i}]
    BY <1>3 DEF RtqDecay
  <2>2. db' \in Database
    BY <1>1, <2>1 DEF Sound, Database
  <2> QED
    BY <1>1, <2>1, <2>2 DEF Sound, Database, RoutesSound, LinksSound, IdsSound
<1>4. ASSUME FlushLinkSeqnos
      PROVE  Sound(db')
  <2>1. db' = [db EXCEPT !.lndev = [o \in Addr |-> {}], !.rtq = [o \in Addr |-> {}]]
    BY <1>4 DEF FlushLinkSeqnos
  <2>2. db' \in Database
    BY <1>1, <2>1 DEF Sound, Database
  <2>3. /\ db'.neigh = db.neigh /\ db'.rated = db.rated /\ db'.router = db.router
        /\ db'.link = db.link /\ db'.known = db.known /\ db'.id4him = db.id4him
    BY <1>1, <2>1 DEF Sound, Database
  <2>4. \A o \in Addr : db'.lndev[o] = {} /\ db'.rtq[o] = {}
    BY <1>1, <2>1 DEF Sound, Database
  <2>5. RoutesSound(db') /\ IdsSound(db')
    BY <1>1, <2>3 DEF Sound, RoutesSound, IdsSound
  <2>6. LinksSound(db')
    BY <1>1, <2>3, <2>4 DEF Sound, LinksSound
  <2> QED
    BY <2>2, <2>5, <2>6 DEF Sound
<1>5. Sound(db')
  BY <1>3, <1>4
<1> QED
  BY <1>2, <1>5 DEF Inv, TypeOK, Sound

LEMMA WalkType ==
  ASSUME NEW bif \in Ifs \cup {NULL}, NEW timed \in BOOLEAN, NEW todo \in SUBSET Addr
  PROVE  Walk(bif, timed, todo) \in PurgeCall \cup {NULL}
BY DEF Walk, PurgeCall

LEMMA CallKeepsInv ==
  ASSUME Inv, PurgeTimed \/ PurgeAll \/ (\E i \in Ifs : Deactivate(i) \/ Activate(i))
  PROVE  Inv'
<1>1. Sound(db) /\ db.known \in SUBSET Addr /\ active \subseteq Ifs /\ echoed \subseteq Keys
  BY DEF Inv, TypeOK, Sound, Database
<1>2. db' = db
  BY DEF PurgeTimed, PurgeAll, Deactivate, Activate
<1>3. active' \subseteq Ifs /\ echoed' \subseteq Keys
  BY <1>1 DEF PurgeTimed, PurgeAll, Deactivate, Activate
<1>4. purge' \in PurgeCall \cup {NULL}
  <2>1. CASE PurgeTimed
    BY <1>1, <2>1, WalkType DEF PurgeTimed
  <2>2. CASE PurgeAll
    BY <1>1, <2>2, WalkType DEF PurgeAll
  <2>3. ASSUME NEW i \in Ifs, Deactivate(i) PROVE purge' \in PurgeCall \cup {NULL}
    <3>1. purge' = Walk(IF i = PrimaryIf THEN NULL ELSE i, FALSE, db.known)
      BY <2>3 DEF Deactivate
    <3>2. (IF i = PrimaryIf THEN NULL ELSE i) \in Ifs \cup {NULL}
      OBVIOUS
    <3> QED
      BY <1>1, <3>1, <3>2, WalkType
  <2>4. ASSUME NEW i \in Ifs, Activate(i) PROVE purge' \in PurgeCall \cup {NULL}
    BY <2>4 DEF Activate, Inv, TypeOK
  <2> QED
    BY <2>1, <2>2, <2>3, <2>4
<1> QED
  BY <1>1, <1>2, <1>3, <1>4 DEF Inv, TypeOK, Sound

LEMMA PurgeStepKeepsInv ==
  ASSUME Inv, NEW o \in Addr, PurgeStep(o)
  PROVE  Inv'
<1> DEFINE Frame == /\ purge # NULL /\ UNCHANGED <<active, echoed>>
                    /\ purge' = Walk(purge.bif, purge.timed, purge.todo \ {o})
<1>0. Frame
  <2>1. PurgeOrig(o) => Frame
    BY DEF PurgeOrig, Turn, Proceed
  <2>2. \A devs, nbs, idExpired : PurgeParts(o, devs, nbs, idExpired) => Frame
    BY DEF PurgeParts, Turn, Proceed
  <2> QED
    BY <2>1, <2>2 DEF PurgeStep
<1>1. Sound(db) /\ purge \in PurgeCall
  BY <1>0 DEF Inv, TypeOK
<1>2. purge.bif \in Ifs \cup {NULL} /\ purge.timed \in BOOLEAN /\ purge.todo \in SUBSET Addr
  BY <1>1 DEF PurgeCall
<1>3. UNCHANGED <<active, echoed>> /\ purge' \in PurgeCall \cup {NULL}
  BY <1>0, <1>2, WalkType
<1>4. ASSUME PurgeOrig(o)
      PROVE  Sound(db')
  <2> DEFINE bif == purge.bif
             s == Strip(db, o, bif)
  <2>1. Sound(s) /\ (bif = NULL => o \notin s.link)
    BY <1>1, <1>2, StripSound
  <2>2. db' = s \/ (bif = NULL /\ db' = Destroy(s, o))
    BY <1>4 DEF PurgeOrig
  <2> HIDE DEF s
  <2> QED
    BY <2>1, <2>2, DestroySound
<1>5. ASSUME NEW devs \in SUBSET db.lndev[o], NEW nbs \in SUBSET (db.neigh[o] \ {db.router[o]}),
             NEW idExpired \in BOOLEAN, PurgeParts(o, devs, nbs, idExpired)
      PROVE  Sound(db')
  <2> DEFINE l == [db EXCEPT !.lndev[o] = @ \ devs, !.rtq[o] = @ \ devs]
             f == IF o \in l.link /\ l.lndev[o] = {} THEN FreeLink(l, o, NULL) ELSE l
             p == IF idExpired THEN FreePifnb(f, o) ELSE f
             e == [p EXCEPT !.neigh[o] = @ \ nbs, !.rated[o] = @ \ nbs]
  <2>1. db' = e
    BY <1>5 DEF PurgeParts
  <2>2. Sound(l) /\ l.router = db.router
    <3>1. l \in Database
      BY <1>1 DEF Sound, Database
    <3>2. RoutesSound(l) /\ IdsSound(l)
      BY <1>1 DEF RoutesSound, IdsSound, Sound, Database
    <3>3. LinksSound(l)
      BY <1>1 DEF LinksSound, Sound, Database
    <3>4. l.router = db.router
      BY <1>1 DEF Sound, Database
    <3> QED
      BY <3>1, <3>2, <3>3, <3>4 DEF Sound
  <2> HIDE DEF l
  <2>3. Sound(f) /\ f.router = db.router
    BY <2>2, FreeLinkSound
  <2> HIDE DEF f
  <2>4. Sound(p) /\ p.router = db.router
    BY <2>3, FreePifnbSound DEF FreePifnb, Sound, Database
  <2> HIDE DEF p
  <2>5. e \in Database
    BY <2>4 DEF Sound, Database
  <2>6. RoutesSound(e)
    BY <2>4 DEF RoutesSound, Sound, Database
  <2>7. LinksSound(e) /\ IdsSound(e)
    BY <2>4 DEF LinksSound, IdsSound, Sound, Database
  <2> QED
    BY <2>1, <2>5, <2>6, <2>7 DEF Sound
<1>6. Sound(db')
  BY <1>4, <1>5 DEF PurgeStep
<1> QED
  BY <1>3, <1>6 DEF Inv, TypeOK, Sound

(* Every handler of the originator database keeps it sound. *)
THEOREM InvHolds == Spec => []Inv
<1>1. Inv /\ [Next]_vars => Inv'
  <2> SUFFICES ASSUME Inv, [Next]_vars PROVE Inv'
    OBVIOUS
  <2>1. ASSUME NEW m \in Ogms, RcvOgm(m) PROVE Inv'
    BY <2>1, RcvOgmKeepsInv
  <2>2. ASSUME NEW k \in Echoes, RcvEcho(k) PROVE Inv'
    BY <2>2, RcvEchoKeepsInv
  <2>3. CASE (\E o \in Addr, i \in Ifs : RtqDecay(o, i)) \/ FlushLinkSeqnos
    BY <2>3, DecayKeepsInv
  <2>4. CASE PurgeTimed \/ PurgeAll \/ (\E i \in Ifs : Deactivate(i) \/ Activate(i))
    BY <2>4, CallKeepsInv
  <2>5. ASSUME NEW o \in Addr, PurgeStep(o) PROVE Inv'
    BY <2>5, PurgeStepKeepsInv
  <2>6. CASE UNCHANGED vars
    BY <2>6 DEF vars, Inv, TypeOK, Sound, RoutesSound, LinksSound, IdsSound, Database, PurgeCall
  <2> QED
    BY <2>1, <2>2, <2>3, <2>4, <2>5, <2>6 DEF Next
<1> QED
  BY <1>1, InitInv, PTL DEF Spec

-----------------------------------------------------------------------------
(* The properties.                                                         *)

(* Every field of the database always holds what its comment says; among   *)
(* them the identifiers init_pifnb_node() gives out stay below MAX_ID4HIM. *)
THEOREM TypeCorrect == Spec => []TypeOK
<1>1. Inv => TypeOK
  BY DEF Inv
<1> QED
  BY <1>1, InvHolds, PTL

(* Whatever OGMs, purges, flushes and interface changes do in whatever     *)
(* order, orig_node->router points into the originator's own neighbour     *)
(* list and at a neighbour with a metric.                                  *)
THEOREM RouterSafe == Spec => []RouterIsNeighbour
<1>1. Inv => RouterIsNeighbour
  BY DEF Inv, Sound, RoutesSound, RouterIsNeighbour
<1> QED
  BY <1>1, InvHolds, PTL

(* No lndev outlives its link_node, and no link_node its orig_node.        *)
THEOREM LinksSafe == Spec => []LinksOwned
<1>1. Inv => LinksOwned
  BY DEF Inv, Sound, LinksSound, LinksOwned
<1> QED
  BY <1>1, InvHolds, PTL

(* With no more identifiers than prev_hop_id can hold, they tell all       *)
(* direct neighbours apart; the run renumber shows it with just as many,   *)
(* the run crowd_wrap that with one more they do not.                      *)
THEOREM IdsDistinct == MaxId4Him <= IdMod => (Spec => []PrevHopIdsDistinct)
<1> SUFFICES ASSUME MaxId4Him <= IdMod PROVE Spec => []PrevHopIdsDistinct
  OBVIOUS
<1>1. Inv => PrevHopIdsDistinct
  <2> SUFFICES ASSUME Inv, NEW o \in Addr, NEW p \in Addr, db.id4him[o] # 0
               PROVE  /\ db.id4him[o] % IdMod # 0
                      /\ (o # p /\ db.id4him[p] # 0) => db.id4him[o] % IdMod # db.id4him[p] % IdMod
    BY DEF PrevHopIdsDistinct
  <2>1. \A n \in 0 .. MaxId4Him - 1 : n % IdMod = n
    BY IdAssumption
  <2>2. db.id4him[o] \in 0 .. MaxId4Him - 1 /\ db.id4him[p] \in 0 .. MaxId4Him - 1
    BY DEF Inv, Sound, Database
  <2>3. o # p => db.id4him[o] # db.id4him[p]
    BY DEF Inv, Sound, IdsSound
  <2> QED
    BY <2>1, <2>2, <2>3
<1> QED
  BY <1>1, InvHolds, PTL

-----------------------------------------------------------------------------
(* The reference counts of primary interfaces.                             *)

(* The originators other than p whose primary p is. *)
Refs(d, p) == {o \in Addr \ {p} : d.primary[o] = p}

(* Primaries and those who have one exist, the counts are right, and no    *)
(* freed one was touched; if everything can be flushed, a primary comes    *)
(* after those it is the primary of.                                       *)
Counted(d) ==
    /\ IsFiniteSet(d.known) /\ ~d.uaf
    /\ \A o \in Addr : d.primary[o] # NULL => o \in d.known /\ d.primary[o] \in d.known
    /\ \A p \in Addr : d.refcnt[p] = Cardinality(Refs(d, p))
    /\ FlushAll => \A o \in Addr : d.primary[o] # NULL => o <= d.primary[o]

(* Nothing hangs off an originator that does not exist (NothingOutlivesOrig *)
(* without what LinksSound and Counted say).                               *)
Bare(d, o) == d.neigh[o] = {} /\ d.router[o] = NULL /\ d.id4him[o] = 0

RefSound(d) == Counted(d) /\ \A o \in Addr \ d.known : Bare(d, o)

(* e differs from d only in what hangs off o. *)
OnlyAt(d, e, o) ==
    /\ e.known = d.known /\ e.primary = d.primary /\ e.refcnt = d.refcnt
    /\ e.uaf <=> d.uaf
    /\ \A p \in Addr \ {o} : /\ e.neigh[p] = d.neigh[p] /\ e.router[p] = d.router[p]
                             /\ e.id4him[p] = d.id4him[p]

LEMMA OnlyAtRefs ==
  ASSUME NEW d, RefSound(d), NEW e, NEW o \in d.known, OnlyAt(d, e, o)
  PROVE  RefSound(e)
<1>1. Counted(e)
  BY DEF RefSound, Counted, OnlyAt, Refs
<1>2. \A p \in Addr \ e.known : Bare(e, p)
  BY DEF RefSound, OnlyAt, Bare
<1> QED
  BY <1>1, <1>2 DEF RefSound

LEMMA OnlyAtTwice ==
  ASSUME NEW d, NEW e, NEW f, NEW o, OnlyAt(d, e, o), OnlyAt(e, f, o)
  PROVE  OnlyAt(d, f, o)
BY DEF OnlyAt

(* The functions that touch one originator. *)
LEMMA FlushOrigAt ==
  ASSUME NEW d \in Database, NEW o \in Addr, NEW bif
  PROVE  /\ OnlyAt(d, FlushOrig(d, o, bif), o)
         /\ bif = NULL => FlushOrig(d, o, bif).router[o] = NULL
         /\ FlushOrig(d, o, bif).neigh = d.neigh
<1> DEFINE m == [d EXCEPT !.rated[o] = IF bif = NULL THEN {} ELSE {k \in @ : k[2] # bif}]
           f == FlushOrig(d, o, bif)
<1>1. f = m \/ f = [m EXCEPT !.router[o] = NULL]
  BY DEF FlushOrig, UpdateRoutes
<1>2. bif = NULL => f = [m EXCEPT !.router[o] = NULL]
  BY DEF FlushOrig, UpdateRoutes
<1>3. /\ m.known = d.known /\ m.primary = d.primary /\ m.refcnt = d.refcnt
      /\ m.uaf = d.uaf /\ m.neigh = d.neigh /\ m.router = d.router /\ m.id4him = d.id4him
      /\ DOMAIN m = DOMAIN d
  BY DEF Database
<1>4. /\ DOMAIN d = {"known", "neigh", "rated", "router", "link", "lndev", "rtq", "primary",
                     "refcnt", "id4him", "id4me", "valid", "uaf"}
      /\ d.router \in [Addr -> Keys \cup {NULL}]
  BY DEF Database
<1> HIDE DEF m, f
<1>5. CASE f = m
  BY <1>2, <1>3, <1>4, <1>5 DEF OnlyAt, f
<1>6. CASE f = [m EXCEPT !.router[o] = NULL]
  <2>1. /\ f.known = d.known /\ f.primary = d.primary /\ f.refcnt = d.refcnt
        /\ f.uaf = d.uaf /\ f.neigh = d.neigh /\ f.id4him = d.id4him
        /\ f.router = [d.router EXCEPT ![o] = NULL]
    BY <1>3, <1>4, <1>6
  <2> QED
    BY <1>4, <2>1 DEF OnlyAt, f
<1> QED
  BY <1>1, <1>5, <1>6

LEMMA FreeLinkAt ==
  ASSUME NEW d \in Database, NEW o \in Addr, NEW bif
  PROVE  OnlyAt(d, FreeLink(d, o, bif), o) /\ FreeLink(d, o, bif).neigh = d.neigh
         /\ FreeLink(d, o, bif).router = d.router
<1> DEFINE left == IF bif = NULL THEN {} ELSE d.lndev[o] \ {bif}
           f == FreeLink(d, o, bif)
<1>1. f = [d EXCEPT !.lndev[o] = left, !.rtq[o] = @ \cap left,
                    !.link = IF left = {} THEN @ \ {o} ELSE @]
  BY DEF FreeLink
<1>2. DOMAIN d = {"known", "neigh", "rated", "router", "link", "lndev", "rtq", "primary",
                  "refcnt", "id4him", "id4me", "valid", "uaf"}
  BY DEF Database
<1> HIDE DEF left, f
<1>3. /\ f.known = d.known /\ f.primary = d.primary /\ f.refcnt = d.refcnt
      /\ f.uaf = d.uaf /\ f.neigh = d.neigh /\ f.router = d.router /\ f.id4him = d.id4him
  BY <1>1, <1>2
<1> QED
  BY <1>3 DEF OnlyAt, f

LEMMA FreePifnbAt ==
  ASSUME NEW d \in Database, NEW o \in Addr
  PROVE  /\ OnlyAt(d, FreePifnb(d, o), o) /\ FreePifnb(d, o).id4him[o] = 0
         /\ FreePifnb(d, o).neigh = d.neigh /\ FreePifnb(d, o).router = d.router
BY DEF Database, FreePifnb, OnlyAt

LEMMA InitPifnbAt ==
  ASSUME NEW d \in Database, NEW o \in Addr
  PROVE  OnlyAt(d, InitPifnb(d, o), o)
<1> DEFINE id == CHOOSE n \in FreeIds(d) : \A m \in FreeIds(d) : n <= m
           f == InitPifnb(d, o)
<1>1. f = [d EXCEPT !.id4him[o] = id]
  BY DEF InitPifnb
<1> HIDE DEF id, f
<1> QED
  BY <1>1 DEF OnlyAt, Database, f

LEMMA UpdateLinkAt ==
  ASSUME NEW d \in Database, NEW m \in Ogm, NEW oldSqn
  PROVE  OnlyAt(d, UpdateLink(d, m, oldSqn), m.orig)
<1> DEFINE devs == IF oldSqn THEN d.lndev[m.orig] ELSE d.lndev[m.orig] \cup {m.iif}
           u == [d EXCEPT !.link = @ \cup {m.orig}, !.lndev[m.orig] = devs]
<1>1. UpdateLink(d, m, oldSqn) = d \/ UpdateLink(d, m, oldSqn) = u
  BY DEF UpdateLink
<1> HIDE DEF devs
<1>2. OnlyAt(d, u, m.orig) /\ OnlyAt(d, d, m.orig)
  BY DEF OnlyAt, Database
<1> QED
  BY <1>1, <1>2

LEMMA RateAt ==
  ASSUME NEW d \in Database, NEW m \in Ogm, NEW accepted
  PROVE  OnlyAt(d, Rate(d, m, accepted), m.orig)
<1> DEFINE nbs == d.neigh[m.orig] \cup {Key(m)}
           rated == IF accepted THEN d.rated[m.orig] \cup {Key(m)} ELSE d.rated[m.orig]
           r == [d EXCEPT !.neigh[m.orig] = nbs, !.rated[m.orig] = rated]
<1>1. Rate(d, m, accepted) = r
  BY DEF Rate
<1> HIDE DEF nbs, rated
<1>2. OnlyAt(d, r, m.orig)
  BY DEF OnlyAt, Database
<1> QED
  BY <1>1, <1>2

LEMMA UpdateOrigAt ==
  ASSUME NEW d \in Database, NEW m \in Ogm, NEW best, NEW flushed
  PROVE  OnlyAt(d, UpdateOrig(d, m, best, flushed), m.orig)
<1>1. m.orig \in Addr
  BY DEF Ogm
<1>2. OnlyAt(d, FlushOrig(d, m.orig, NULL), m.orig)
  BY <1>1, FlushOrigAt
<1>3. OnlyAt(d, UpdateRoutes(d, m.orig, Key(m)), m.orig)
  BY <1>1 DEF OnlyAt, UpdateRoutes, Database
<1>4. OnlyAt(d, d, m.orig)
  BY DEF OnlyAt
<1> QED
  BY <1>2, <1>3, <1>4 DEF UpdateOrig

(* The loop body of purge_orig() without a time takes all that hangs off. *)
LEMMA StripAt ==
  ASSUME NEW d, Sound(d), NEW o \in Addr, NEW bif \in Ifs \cup {NULL}
  PROVE  /\ OnlyAt(d, Strip(d, o, bif), o)
         /\ bif = NULL => Strip(d, o, bif).neigh[o] = {} /\ Strip(d, o, bif).router[o] = NULL
<1> DEFINE f == FlushOrig(d, o, bif)
           left == Spare(f.neigh[o], bif)
           g == [f EXCEPT !.neigh[o] = left]
<1>1. d \in Database /\ f \in Database
  BY FlushOrigSound DEF Sound
<1>2. OnlyAt(d, f, o) /\ (bif = NULL => f.router[o] = NULL)
  BY <1>1, FlushOrigAt
<1>3. Strip(d, o, bif) = IF o \in g.link THEN FreeLink(g, o, bif) ELSE g
  BY DEF Strip
<1>4. left \in SUBSET Keys /\ (bif = NULL => left = {})
  BY <1>1 DEF Spare, Database
<1> HIDE DEF f, left
<1>5. /\ g \in Database /\ OnlyAt(f, g, o) /\ g.neigh[o] = left /\ g.router = f.router
  <2>1. g \in Database
    BY <1>1, <1>4 DEF Database
  <2>2. g.neigh[o] = left /\ g.router = f.router
    BY <1>1 DEF Database
  <2>3. OnlyAt(f, g, o)
    BY <1>1 DEF Database, OnlyAt
  <2> QED
    BY <2>1, <2>2, <2>3
<1> HIDE DEF g
<1>6. /\ OnlyAt(g, FreeLink(g, o, bif), o) /\ FreeLink(g, o, bif).neigh = g.neigh
      /\ FreeLink(g, o, bif).router = g.router
  BY <1>5, FreeLinkAt
<1>7. OnlyAt(d, g, o) /\ OnlyAt(d, FreeLink(g, o, bif), o)
  BY <1>2, <1>5, <1>6, OnlyAtTwice
<1> QED
  BY <1>2, <1>3, <1>4, <1>5, <1>6, <1>7

(* A new originator has nothing and refers to nobody. *)
LEMMA GetOrigRefs ==
  ASSUME NEW d, Sound(d), RefSound(d), NEW o \in Addr
  PROVE  RefSound(GetOrig(d, o))
<1> DEFINE g == GetOrig(d, o)
<1>1. /\ g.known = d.known \cup {o} /\ g.primary = d.primary /\ g.refcnt = d.refcnt
      /\ g.uaf = d.uaf /\ g.neigh = d.neigh /\ g.router = d.router /\ g.id4him = d.id4him
  BY DEF Sound, Database, GetOrig
<1>2. IsFiniteSet(d.known \cup {o})
  BY FS_AddElement DEF RefSound, Counted
<1> HIDE DEF g
<1>3. Counted(g)
  BY <1>1, <1>2 DEF RefSound, Counted, Refs
<1>4. \A p \in Addr \ g.known : Bare(g, p)
  BY <1>1 DEF RefSound, Bare
<1> QED
  BY <1>3, <1>4 DEF RefSound, g

(* The references to an originator are finitely many. *)
LEMMA RefsFinite ==
  ASSUME NEW d, d \in Database, Counted(d), NEW p \in Addr
  PROVE  IsFiniteSet(Refs(d, p)) /\ Refs(d, p) \subseteq d.known
<1>1. Refs(d, p) \subseteq d.known
  BY NullAssumption DEF Refs, Counted
<1> QED
  BY <1>1, FS_Subset DEF Counted

(* set_primary_orig( o, NULL ) counts down and touches nothing freed. *)
LEMMA ClearPrimaryRefs ==
  ASSUME NEW d, Sound(d), RefSound(d), NEW o \in Addr
  PROVE  /\ RefSound(ClearPrimary(d, o)) /\ ClearPrimary(d, o).primary = [d.primary EXCEPT ![o] = NULL]
         /\ ClearPrimary(d, o).known = d.known /\ ClearPrimary(d, o).neigh = d.neigh
         /\ ClearPrimary(d, o).router = d.router /\ ClearPrimary(d, o).id4him = d.id4him
<1> DEFINE c == ClearPrimary(d, o)
           old == d.primary[o]
<1>0. d \in Database /\ Counted(d)
  BY DEF Sound, RefSound
<1>1. old = NULL \/ (old \in Addr /\ old \in d.known)
  BY <1>0 DEF Database, Counted
<1>2. \/ old \in {NULL, o} /\ c = [d EXCEPT !.primary[o] = NULL]
      \/ old \in Addr \ {o} /\ c = [d EXCEPT !.primary[o] = NULL, !.refcnt[old] = @ - 1]
  BY <1>1 DEF ClearPrimary
<1>3. /\ DOMAIN d = {"known", "neigh", "rated", "router", "link", "lndev", "rtq", "primary",
                     "refcnt", "id4him", "id4me", "valid", "uaf"}
      /\ d.primary \in [Addr -> Addr \cup {NULL}] /\ d.refcnt \in [Addr -> Int]
  BY <1>0 DEF Database
<1> HIDE DEF c
<1>4. /\ c.known = d.known /\ c.neigh = d.neigh /\ c.router = d.router /\ c.id4him = d.id4him
      /\ c.primary = [d.primary EXCEPT ![o] = NULL] /\ c.uaf = d.uaf
  BY <1>2, <1>3
<1>5. /\ old \in {NULL, o} => c.refcnt = d.refcnt
      /\ old \notin {NULL, o} => c.refcnt = [d.refcnt EXCEPT ![old] = @ - 1]
  <2>1. CASE old \in {NULL, o} /\ c = [d EXCEPT !.primary[o] = NULL]
    <3>1. c.refcnt = d.refcnt
      BY <1>3, <2>1
    <3> QED
      BY <2>1, <3>1, Zenon
  <2>2. CASE old \in Addr \ {o} /\ c = [d EXCEPT !.primary[o] = NULL, !.refcnt[old] = @ - 1]
    <3>1. c.refcnt = [d.refcnt EXCEPT ![old] = @ - 1]
      BY <1>3, <2>2
    <3>2. old \notin {NULL, o}
      BY <2>2, NullAssumption
    <3> QED
      BY <3>1, <3>2, Zenon
  <2> QED
    BY <1>2, <2>1, <2>2
<1>6. \A p \in Addr : c.primary[p] = IF p = o THEN NULL ELSE d.primary[p]
  BY <1>3, <1>4
<1>7. ASSUME NEW p \in Addr PROVE c.refcnt[p] = Cardinality(Refs(c, p))
  <2>1. d.refcnt[p] = Cardinality(Refs(d, p)) /\ IsFiniteSet(Refs(d, p))
    BY <1>0, RefsFinite DEF Counted
  <2>2. CASE old \notin {NULL, o} /\ p = old
    <3>1. Refs(c, p) = Refs(d, p) \ {o} /\ o \in Refs(d, p)
      BY <1>6, <2>2, NullAssumption DEF Refs
    <3>2. Cardinality(Refs(c, p)) = Cardinality(Refs(d, p)) - 1
      BY <2>1, <3>1, FS_RemoveElement
    <3> QED
      BY <1>3, <1>5, <2>1, <2>2, <3>2
  <2>3. CASE old \in {NULL, o} \/ p # old
    <3>1. Refs(c, p) = Refs(d, p)
      BY <1>6, <2>3, NullAssumption DEF Refs
    <3>2. c.refcnt[p] = d.refcnt[p]
      BY <1>3, <1>5, <2>3
    <3> QED
      BY <2>1, <3>1, <3>2
  <2> QED
    BY <2>2, <2>3
<1> HIDE DEF old
<1>8. Counted(c)
  BY <1>0, <1>4, <1>6, <1>7 DEF Counted
<1>9. \A p \in Addr \ c.known : Bare(c, p)
  BY <1>4 DEF RefSound, Bare
<1> QED
  BY <1>4, <1>8, <1>9 DEF RefSound, c

(* set_primary_orig( o, p ) counts up. *)
LEMMA SetPrimaryRefs ==
  ASSUME NEW d, Sound(d), RefSound(d), NEW o \in d.known, NEW p \in Addr, FlushAll => o <= p
  PROVE  RefSound(SetPrimary(d, o, p)) /\ p \in SetPrimary(d, o, p).known
<1> DEFINE c == ClearPrimary(d, o)
           g == GetOrig(c, p)
           s == SetPrimary(d, o, p)
<1>0. o \in Addr
  BY DEF Sound, Database
<1>1. Sound(c) /\ RefSound(c) /\ c.known = d.known
  BY <1>0, ClearPrimarySound, ClearPrimaryRefs
<1>2. c.primary[o] = NULL
  <2>1. c.primary = [d.primary EXCEPT ![o] = NULL]
    BY <1>0, ClearPrimaryRefs
  <2> QED
    BY <1>0, <2>1 DEF Sound, Database
<1>3. CASE d.primary[o] = p
  <2>1. p \in d.known
    BY <1>0, <1>3, NullAssumption DEF RefSound, Counted
  <2> QED
    BY <1>3, <2>1 DEF SetPrimary
<1>4. CASE d.primary[o] # p /\ p = o
  <2>1. s = [c EXCEPT !.primary[o] = o]
    BY <1>4 DEF SetPrimary
  <2> HIDE DEF c, s
  <2>2. /\ s.known = c.known /\ s.refcnt = c.refcnt /\ s.uaf = c.uaf /\ s.neigh = c.neigh
        /\ s.router = c.router /\ s.id4him = c.id4him
        /\ \A q \in Addr : s.primary[q] = IF q = o THEN o ELSE c.primary[q]
    BY <1>0, <1>1, <2>1 DEF Sound, Database
  <2>3. ASSUME NEW q \in Addr PROVE Refs(s, q) = Refs(c, q)
    BY <1>2, <2>2, NullAssumption DEF Refs
  <2>4. o <= o
    BY <1>0, AddrAssumption
  <2>5. Counted(s)
    BY <1>0, <1>1, <2>2, <2>3, <2>4 DEF Counted, RefSound
  <2>6. \A q \in Addr \ s.known : Bare(s, q)
    BY <1>1, <2>2 DEF RefSound, Bare
  <2> QED
    BY <1>1, <1>4, <2>2, <2>5, <2>6 DEF RefSound, s
<1>5. CASE d.primary[o] # p /\ p # o
  <2>1. s = [g EXCEPT !.primary[o] = p, !.refcnt[p] = @ + 1]
    BY <1>5 DEF SetPrimary
  <2>2. Sound(g) /\ RefSound(g)
    BY <1>1, GetOrigSound, GetOrigRefs
  <2>3. g.known = c.known \cup {p} /\ g.primary = c.primary
    BY <1>1 DEF GetOrig, Sound, Database
  <2>4. g \in Database /\ Counted(g)
    BY <2>2 DEF Sound, RefSound
  <2> HIDE DEF g, c, s
  <2>5. /\ DOMAIN g = {"known", "neigh", "rated", "router", "link", "lndev", "rtq", "primary",
                       "refcnt", "id4him", "id4me", "valid", "uaf"}
        /\ g.primary \in [Addr -> Addr \cup {NULL}] /\ g.refcnt \in [Addr -> Int]
    BY <2>4 DEF Database
  <2>6. /\ s.known = g.known /\ s.uaf = g.uaf /\ s.neigh = g.neigh
        /\ s.router = g.router /\ s.id4him = g.id4him
        /\ s.primary = [g.primary EXCEPT ![o] = p] /\ s.refcnt = [g.refcnt EXCEPT ![p] = @ + 1]
    BY <2>1, <2>5
  <2>7. /\ \A q \in Addr : s.primary[q] = IF q = o THEN p ELSE g.primary[q]
        /\ \A q \in Addr : s.refcnt[q] = IF q = p THEN g.refcnt[q] + 1 ELSE g.refcnt[q]
    BY <2>5, <2>6
  <2>8. ASSUME NEW q \in Addr PROVE s.refcnt[q] = Cardinality(Refs(s, q))
    <3>1. g.refcnt[q] = Cardinality(Refs(g, q)) /\ IsFiniteSet(Refs(g, q))
      BY <2>4, RefsFinite DEF Counted
    <3>2. CASE q = p
      <4>1. Refs(s, q) = Refs(g, q) \cup {o} /\ o \notin Refs(g, q)
        BY <1>0, <1>2, <1>5, <2>3, <2>7, <3>2, NullAssumption DEF Refs
      <4>2. Cardinality(Refs(s, q)) = Cardinality(Refs(g, q)) + 1
        BY <3>1, <4>1, FS_AddElement
      <4> QED
        BY <2>7, <3>1, <3>2, <4>2
    <3>3. CASE q # p
      <4>1. Refs(s, q) = Refs(g, q)
        BY <1>2, <2>3, <2>7, <3>3, NullAssumption DEF Refs
      <4> QED
        BY <2>7, <3>1, <3>3, <4>1
    <3> QED
      BY <3>2, <3>3
  <2>9. Counted(s)
    BY <1>1, <2>3, <2>4, <2>6, <2>7, <2>8 DEF Counted
  <2>10. \A q \in Addr \ s.known : Bare(s, q)
    BY <2>2, <2>6 DEF RefSound, Bare
  <2> QED
    BY <2>3, <2>6, <2>9, <2>10 DEF RefSound, s
<1> QED
  BY <1>3, <1>4, <1>5

(* The orig_node goes: nobody refers to it and nothing hangs off it. *)
LEMMA DestroyRefs ==
  ASSUME NEW d, Sound(d), RefSound(d), NEW o \in Addr, Refs(d, o) = {},
         d.neigh[o] = {}, d.router[o] = NULL
  PROVE  RefSound(Destroy(d, o)) /\ Destroy(d, o).known = d.known \ {o}
<1> DEFINE f == IF d.id4him[o] # 0 THEN FreePifnb(d, o) ELSE d
           c == ClearPrimary(f, o)
           g == [c EXCEPT !.known = @ \ {o}, !.refcnt[o] = 0, !.valid = @ \ {o},
                          !.id4me = @ \ {o}]
<1>1. Destroy(d, o) = g
  BY DEF Destroy
<1>2. d \in Database
  BY DEF Sound
<1>3. Sound(f) /\ OnlyAt(d, f, o) /\ f.id4him[o] = 0 /\ f.neigh = d.neigh /\ f.router = d.router
  BY <1>2, FreePifnbSound, FreePifnbAt DEF OnlyAt
<1> HIDE DEF f
<1>4. RefSound(f)
  <2>1. CASE o \in d.known
    BY <1>3, <2>1, OnlyAtRefs
  <2>2. CASE o \notin d.known
    <3>1. Counted(f)
      BY <1>3 DEF RefSound, Counted, OnlyAt, Refs
    <3>2. \A p \in Addr \ f.known : Bare(f, p)
      BY <1>3 DEF RefSound, OnlyAt, Bare
    <3> QED
      BY <3>1, <3>2 DEF RefSound
  <2> QED
    BY <2>1, <2>2
<1>5. /\ Sound(c) /\ RefSound(c) /\ c.primary = [f.primary EXCEPT ![o] = NULL]
      /\ c.known = f.known /\ c.neigh = f.neigh /\ c.router = f.router /\ c.id4him = f.id4him
  BY <1>3, <1>4, ClearPrimarySound, ClearPrimaryRefs
<1>6. f.known = d.known /\ f.primary = d.primary
  BY <1>3 DEF OnlyAt
<1>7. \A p \in Addr : c.primary[p] = IF p = o THEN NULL ELSE d.primary[p]
  BY <1>2, <1>5, <1>6 DEF Database
<1>8. c \in Database /\ Counted(c)
  BY <1>5 DEF Sound, RefSound
<1> HIDE DEF c
<1>9. /\ g.known = c.known \ {o} /\ g.uaf = c.uaf /\ g.neigh = c.neigh
      /\ g.router = c.router /\ g.id4him = c.id4him /\ g.primary = c.primary
      /\ \A p \in Addr : g.refcnt[p] = IF p = o THEN 0 ELSE c.refcnt[p]
  BY <1>8 DEF Database
<1> HIDE DEF g
<1>10. \A p \in Addr : c.primary[p] # o
  BY <1>7, NullAssumption DEF Refs
<1>11. ASSUME NEW p \in Addr PROVE g.refcnt[p] = Cardinality(Refs(g, p))
  <2>1. CASE p = o
    <3>1. Refs(g, p) = {}
      BY <1>9, <1>10, <2>1 DEF Refs
    <3> QED
      BY <1>9, <2>1, <3>1, FS_EmptySet
  <2>2. CASE p # o
    <3>1. Refs(g, p) = Refs(c, p)
      BY <1>9 DEF Refs
    <3> QED
      BY <1>8, <1>9, <2>2, <3>1 DEF Counted
  <2> QED
    BY <2>1, <2>2
<1>12. Counted(g)
  <2>1. IsFiniteSet(g.known)
    BY <1>8, <1>9, FS_RemoveElement DEF Counted
  <2>2. \A p \in Addr : g.primary[p] # NULL => p \in g.known /\ g.primary[p] \in g.known
    BY <1>7, <1>8, <1>9, <1>10 DEF Counted
  <2> QED
    BY <1>8, <1>9, <1>11, <2>1, <2>2 DEF Counted
<1>13. \A p \in Addr \ g.known : Bare(g, p)
  BY <1>3, <1>5, <1>9 DEF RefSound, Bare
<1> QED
  BY <1>1, <1>5, <1>6, <1>9, <1>12, <1>13 DEF RefSound

-----------------------------------------------------------------------------
(* process_ogm() and the reference counts.                                 *)

(* If everything can be flushed, primary interfaces come after the others  *)
(* of their node: flush_all visits in ascending order and frees each.      *)
PrimariesFollow == FlushAll => \A m \in Ogms : m.pip # NULL => m.orig <= m.pip

(* What is done to other members matters not. *)
LEMMA SameRefs ==
  ASSUME NEW d, RefSound(d), NEW e, e.known = d.known, e.primary = d.primary,
         e.refcnt = d.refcnt, e.uaf <=> d.uaf,
         e.neigh = d.neigh, e.router = d.router, e.id4him = d.id4him
  PROVE  RefSound(e)
BY DEF RefSound, Counted, Refs, Bare

LEMMA FoundRefs ==
  ASSUME Sound(db), RefSound(db), NEW m \in Ogm
  PROVE  RefSound(Heard(m)) /\ RefSound(Found(m))
<1>1. m.orig \in Addr /\ m.neigh \in Addr
  BY DEF Ogm
<1>2. Sound(Heard(m)) /\ RefSound(Heard(m))
  BY <1>1, GetOrigSound, GetOrigRefs DEF Heard
<1> QED
  BY <1>1, <1>2, GetOrigRefs DEF Found

LEMMA FollowPipRefs ==
  ASSUME NEW d, Sound(d), RefSound(d), NEW m \in Ogm, m.orig \in d.known,
         FlushAll => m.orig <= Announced(m)
  PROVE  RefSound(FollowPip(d, m))
<1>1. m.orig \in Addr /\ Announced(m) \in Addr
  BY DEF Ogm, Announced
<1> DEFINE old == d.primary[m.orig]
           e == Dismiss(d, m)
<1>2. old = NULL \/ (old \in Addr /\ old \in d.known)
  BY <1>1 DEF Sound, Database, RefSound, Counted
<1>3. Sound(e) /\ RefSound(e) /\ e.known = d.known
  <2>1. CASE e = d
    BY <2>1
  <2>2. CASE old \in Addr /\ old \in d.known /\ e = FreePifnb(d, old)
    <3>1. Sound(FreePifnb(d, old)) /\ OnlyAt(d, FreePifnb(d, old), old)
      BY <2>2, FreePifnbSound, FreePifnbAt DEF Sound
    <3> QED
      BY <2>2, <3>1, OnlyAtRefs DEF OnlyAt
  <2> QED
    BY <1>2, <2>1, <2>2 DEF Dismiss
<1> HIDE DEF e
<1> QED
  BY <1>1, <1>3, SetPrimaryRefs DEF FollowPip, e

LEMMA NamedRefs ==
  ASSUME Sound(db), RefSound(db), PrimariesFollow, NEW m \in Ogms
  PROVE  RefSound(Piped(m)) /\ RefSound(Named(m))
<1>1. m \in Ogm /\ m.orig \in Addr /\ m.pip \in Addr \cup {NULL}
  BY OgmAssumption DEF Ogm
<1> DEFINE f == Found(m)
           v == [f EXCEPT !.valid = @ \cup {m.orig}]
           p == Piped(m)
           n == [p EXCEPT !.valid = @ \cup {m.pip}]
<1>2. Sound(f) /\ RefSound(f) /\ m.orig \in f.known
  BY <1>1, FoundSound, FoundRefs
<1>3. p = FollowPip(v, m)
  BY DEF Piped
<1>4. Named(m) = p \/ Named(m) = n
  BY DEF Named
<1>5. Sound(p)
  BY <1>1, NamedSound
<1>6. FlushAll => m.orig <= Announced(m)
  <2>1. \A x \in Addr : x <= x
    BY AddrAssumption
  <2>2. m.orig <= m.orig
    BY <1>1, <2>1
  <2> QED
    BY <2>2 DEF PrimariesFollow, Announced
<1> HIDE DEF f, p
<1>7. /\ v \in Database /\ v.known = f.known /\ v.neigh = f.neigh /\ v.rated = f.rated
      /\ v.router = f.router /\ v.link = f.link /\ v.lndev = f.lndev /\ v.rtq = f.rtq
      /\ v.id4him = f.id4him /\ v.primary = f.primary /\ v.refcnt = f.refcnt
  BY <1>1, <1>2 DEF Sound, Database
<1>8. v.uaf <=> f.uaf
  BY <1>2 DEF Sound, Database
<1> HIDE DEF v
<1>9. Sound(v) /\ RefSound(v)
  BY <1>2, <1>7, <1>8, SameSound, SameRefs
<1>10. RefSound(p)
  BY <1>1, <1>2, <1>3, <1>6, <1>7, <1>9, FollowPipRefs
<1>11. /\ n.known = p.known /\ n.neigh = p.neigh /\ n.router = p.router
       /\ n.id4him = p.id4him /\ n.primary = p.primary /\ n.refcnt = p.refcnt
  BY <1>5 DEF Sound, Database
<1>12. n.uaf <=> p.uaf
  BY <1>5 DEF Sound, Database
<1> HIDE DEF n
<1>13. RefSound(n)
  BY <1>10, <1>11, <1>12, SameRefs
<1> QED
  BY <1>4, <1>10, <1>13 DEF p

LEMMA IdentifiedRefs ==
  ASSUME Sound(db), RefSound(db), PrimariesFollow, NEW m \in Ogms
  PROVE  RefSound(Identified(m))
<1> DEFINE n == Named(m)
           p == n.primary[m.orig]
<1>1. m \in Ogm /\ m.orig \in Addr
  BY OgmAssumption DEF Ogm
<1>2. Sound(n) /\ RefSound(n) /\ p \in Addr
  BY <1>1, NamedSound, NamedRefs
<1> HIDE DEF n
<1>3. p \in n.known
  BY <1>1, <1>2, NullAssumption DEF RefSound, Counted
<1>4. OnlyAt(n, InitPifnb(n, p), p)
  BY <1>2, InitPifnbAt DEF Sound
<1>5. RefSound(InitPifnb(n, p))
  BY <1>2, <1>3, <1>4, OnlyAtRefs
<1> QED
  BY <1>2, <1>5 DEF Identified, n

(* Every way process_ogm() ends. *)
LEMMA RcvOgmRefs ==
  ASSUME Sound(db), RefSound(db), PrimariesFollow, NEW m \in Ogms, RcvOgm(m)
  PROVE  RefSound(db')
<1>1. m \in Ogm /\ m.orig \in Addr
  BY OgmAssumption DEF Ogm
<1>2. CASE DropUnwelcome(m) \/ DropSqn(m)
  BY <1>1, <1>2, FoundRefs DEF DropUnwelcome, DropSqn
<1>3. CASE DropPip(m)
  BY <1>1, <1>3, NamedSound, NamedRefs, ClearPrimaryRefs DEF DropPip
<1>4. CASE DropNoId(m) \/ DropReordered(m)
  BY <1>4, NamedRefs, IdentifiedRefs DEF DropNoId, DropReordered
<1>5. ASSUME NEW accepted \in BOOLEAN, NEW best \in BOOLEAN, NEW flushed \in BOOLEAN,
             NEW oldSqn \in BOOLEAN, Consider(m, accepted, best, flushed, oldSqn)
      PROVE  RefSound(db')
  <2> DEFINE i == Identified(m)
             l == UpdateLink(i, m, oldSqn)
             d == Rate(l, m, accepted)
             u == UpdateOrig(d, m, best, flushed)
  <2>1. HasId(m) /\ db' = u
    BY <1>5 DEF Consider
  <2>2. Sound(i) /\ m.orig \in i.known /\ RefSound(i)
    BY <1>1, <2>1, IdentifiedSound, IdentifiedRefs
  <2> HIDE DEF i
  <2>3. Sound(l) /\ OnlyAt(i, l, m.orig)
    BY <1>1, <2>2, UpdateLinkSound, UpdateLinkAt DEF Sound
  <2> HIDE DEF l
  <2>4. Sound(d) /\ OnlyAt(l, d, m.orig)
    BY <1>1, <2>3, RateSound, RateAt DEF Sound
  <2> HIDE DEF d
  <2>5. OnlyAt(d, u, m.orig)
    BY <1>1, <2>4, UpdateOrigAt DEF Sound
  <2> HIDE DEF u
  <2>6. OnlyAt(i, u, m.orig)
    BY <2>3, <2>4, <2>5, OnlyAtTwice
  <2> QED
    BY <2>1, <2>2, <2>6, OnlyAtRefs
<1> QED
  BY <1>2, <1>3, <1>4, <1>5 DEF RcvOgm

-----------------------------------------------------------------------------
(* What a purge_orig() call has still to visit exists; all of it, if the   *)
(* call is to free everything.                                             *)
WalkSound ==
    purge # NULL =>
        /\ purge.todo \subseteq db.known
        /\ purge.bif = NULL /\ ~purge.timed => FlushAll /\ db.known \subseteq purge.todo

RefInv == RefSound(db) /\ WalkSound

(* Every originator that flush_all frees is nobody's primary by then. *)
LEMMA TurnUnreferenced ==
  ASSUME Inv, RefInv, NEW o \in Addr, Turn(o), purge.bif = NULL,
         ~purge.timed \/ db.refcnt[o] = 0
  PROVE  Refs(db, o) = {}
<1>1. db \in Database /\ Counted(db)
  BY DEF Inv, TypeOK, RefInv, RefSound
<1>2. CASE db.refcnt[o] = 0
  <2>1. Cardinality(Refs(db, o)) = 0 /\ IsFiniteSet(Refs(db, o))
    BY <1>1, <1>2, RefsFinite DEF Counted
  <2> QED
    BY <2>1, FS_EmptySet
<1>3. CASE ~purge.timed
  <2>1. FlushAll /\ db.known \subseteq purge.todo /\ \A p \in purge.todo : o <= p
    BY <1>3 DEF RefInv, WalkSound, Turn
  <2>2. ASSUME NEW p \in Refs(db, o) PROVE FALSE
    <3>1. p \in Addr /\ p # o /\ db.primary[p] = o
      BY DEF Refs
    <3>2. p \in db.known /\ p <= o
      BY <1>1, <2>1, <3>1, NullAssumption DEF Counted
    <3>3. o <= p /\ o \in Nat /\ p \in Nat
      BY <2>1, <3>1, <3>2, AddrAssumption
    <3> QED
      BY <3>1, <3>2, <3>3
  <2> QED
    BY <2>2
<1> QED
  BY <1>2, <1>3

LEMMA PurgeStepRefs ==
  ASSUME Inv, RefInv, NEW o \in Addr, PurgeStep(o)
  PROVE  /\ RefSound(db') /\ purge # NULL
         /\ db'.known = db.known
            \/ (purge.bif = NULL /\ db'.known = db.known \ {o})
         /\ purge.bif = NULL /\ ~purge.timed => db'.known = db.known \ {o}
         /\ purge' = Walk(purge.bif, purge.timed, purge.todo \ {o})
<1>0. Turn(o) /\ Proceed(o)
  <2>1. PurgeOrig(o) => Turn(o) /\ Proceed(o)
    BY DEF PurgeOrig
  <2>2. \A devs, nbs, idExpired : PurgeParts(o, devs, nbs, idExpired) => Turn(o) /\ Proceed(o)
    BY DEF PurgeParts
  <2> QED
    BY <2>1, <2>2 DEF PurgeStep
<1>1. purge # NULL /\ purge' = Walk(purge.bif, purge.timed, purge.todo \ {o}) /\ o \in purge.todo
  BY <1>0 DEF Turn, Proceed
<1>2. Sound(db) /\ RefSound(db) /\ o \in db.known /\ purge.bif \in Ifs \cup {NULL}
  BY <1>1 DEF Inv, RefInv, WalkSound, TypeOK, PurgeCall
<1>3. ASSUME PurgeOrig(o)
      PROVE  /\ RefSound(db')
             /\ db'.known = IF purge.bif = NULL /\ (~purge.timed \/ db.refcnt[o] = 0)
                            THEN db.known \ {o} ELSE db.known
  <2> DEFINE s == Strip(db, o, purge.bif)
  <2>1. /\ Sound(s) /\ OnlyAt(db, s, o)
        /\ purge.bif = NULL => o \notin s.link /\ s.neigh[o] = {} /\ s.router[o] = NULL
    BY <1>2, StripSound, StripAt
  <2>2. db' = IF purge.bif = NULL /\ (~purge.timed \/ db.refcnt[o] = 0)
              THEN Destroy(s, o) ELSE s
    BY <1>3 DEF PurgeOrig
  <2> HIDE DEF s
  <2>3. RefSound(s) /\ s.known = db.known /\ s.primary = db.primary
    BY <1>2, <2>1, OnlyAtRefs DEF OnlyAt
  <2>4. CASE purge.bif = NULL /\ (~purge.timed \/ db.refcnt[o] = 0)
    <3>1. Refs(s, o) = {}
      BY <1>0, <2>3, <2>4, TurnUnreferenced DEF Refs
    <3>2. RefSound(Destroy(s, o)) /\ Destroy(s, o).known = s.known \ {o}
      BY <2>1, <2>3, <2>4, <3>1, DestroyRefs
    <3> QED
      BY <2>2, <2>3, <2>4, <3>2
  <2>5. CASE ~(purge.bif = NULL /\ (~purge.timed \/ db.refcnt[o] = 0))
    BY <2>2, <2>3, <2>5
  <2> QED
    BY <2>4, <2>5
<1>4. ASSUME NEW devs \in SUBSET db.lndev[o], NEW nbs \in SUBSET (db.neigh[o] \ {db.router[o]}),
             NEW idExpired \in BOOLEAN, PurgeParts(o, devs, nbs, idExpired)
      PROVE  RefSound(db') /\ db'.known = db.known /\ purge.timed
  <2> DEFINE l == [db EXCEPT !.lndev[o] = @ \ devs, !.rtq[o] = @ \ devs]
             f == IF o \in l.link /\ l.lndev[o] = {} THEN FreeLink(l, o, NULL) ELSE l
             p == IF idExpired THEN FreePifnb(f, o) ELSE f
             e == [p EXCEPT !.neigh[o] = @ \ nbs, !.rated[o] = @ \ nbs]
  <2>1. db' = e /\ purge.timed
    BY <1>4 DEF PurgeParts
  <2>2. Sound(l) /\ OnlyAt(db, l, o)
    <3>1. l \in Database
      BY <1>2 DEF Sound, Database
    <3>2. RoutesSound(l) /\ IdsSound(l)
      BY <1>2 DEF RoutesSound, IdsSound, Sound, Database
    <3>3. LinksSound(l)
      BY <1>2 DEF LinksSound, Sound, Database
    <3>4. OnlyAt(db, l, o)
      BY <1>2 DEF Sound, Database, OnlyAt
    <3> QED
      BY <3>1, <3>2, <3>3, <3>4 DEF Sound
  <2> HIDE DEF l
  <2>3. Sound(f) /\ OnlyAt(l, f, o)
    <3>1. OnlyAt(l, l, o)
      BY DEF OnlyAt
    <3> QED
      BY <2>2, <3>1, FreeLinkSound, FreeLinkAt DEF Sound
  <2> HIDE DEF f
  <2>4. Sound(p) /\ OnlyAt(f, p, o)
    <3>1. OnlyAt(f, f, o)
      BY DEF OnlyAt
    <3> QED
      BY <2>3, <3>1, FreePifnbSound, FreePifnbAt DEF Sound
  <2> HIDE DEF p
  <2>5. OnlyAt(p, e, o)
    BY <2>4 DEF Sound, Database, OnlyAt
  <2> HIDE DEF e
  <2>6. OnlyAt(db, e, o)
    BY <2>2, <2>3, <2>4, <2>5, OnlyAtTwice
  <2>7. RefSound(e)
    BY <1>2, <2>6, OnlyAtRefs
  <2> QED
    BY <2>1, <2>6, <2>7 DEF OnlyAt
<1>5. \/ PurgeOrig(o)
      \/ \E devs \in SUBSET db.lndev[o], nbs \in SUBSET (db.neigh[o] \ {db.router[o]}),
            idExpired \in BOOLEAN : PurgeParts(o, devs, nbs, idExpired)
  BY DEF PurgeStep
<1> QED
  BY <1>1, <1>3, <1>4, <1>5

(* What Walk() returns. *)
LEMMA WalkFields ==
  ASSUME NEW bif \in Ifs \cup {NULL}, NEW timed \in BOOLEAN, NEW todo \in SUBSET Addr,
         todo # {}, NEW w, w = Walk(bif, timed, todo)
  PROVE  w # NULL /\ w.bif = bif /\ w.timed = timed /\ w.todo = todo
<1>1. w = [bif |-> bif, timed |-> timed, todo |-> todo]
  BY DEF Walk
<1>2. [bif |-> bif, timed |-> timed, todo |-> todo] \in PurgeCall
  BY DEF PurgeCall
<1> QED
  BY <1>1, <1>2, NullAssumption

LEMMA WalkHeld ==
  ASSUME NEW bif \in Ifs \cup {NULL}, NEW timed \in BOOLEAN, NEW todo \in SUBSET Addr,
         todo \subseteq db'.known, purge' = Walk(bif, timed, todo),
         bif = NULL /\ ~timed => FlushAll /\ db'.known \subseteq todo
  PROVE  WalkSound'
<1> DEFINE w == purge'
           known == db'.known
<1>1. w = Walk(bif, timed, todo) /\ todo \subseteq known
      /\ (bif = NULL /\ ~timed => FlushAll /\ known \subseteq todo)
  OBVIOUS
<1> HIDE DEF w, known
<1>2. CASE todo = {}
  <2>1. w = NULL
    BY <1>1, <1>2 DEF Walk
  <2> QED
    BY <2>1 DEF WalkSound, w
<1>3. CASE todo # {}
  <2>1. w.bif = bif /\ w.timed = timed /\ w.todo = todo
    BY <1>1, <1>3, WalkFields
  <2> QED
    BY <1>1, <2>1 DEF WalkSound, w, known
<1> QED
  BY <1>2, <1>3

LEMMA InitRefs == Init => RefInv
<1> SUFFICES ASSUME Init PROVE RefInv
  OBVIOUS
<1>1. /\ db.known = {} /\ ~db.uaf
      /\ \A o \in Addr : db.primary[o] = NULL /\ db.refcnt[o] = 0 /\ Bare(db, o)
  BY DEF Init, Bare
<1>2. \A p \in Addr : Refs(db, p) = {}
  BY <1>1, NullAssumption DEF Refs
<1>3. Cardinality({}) = 0 /\ IsFiniteSet(db.known)
  BY <1>1, FS_EmptySet
<1>4. Counted(db)
  BY <1>1, <1>2, <1>3 DEF Counted
<1>5. WalkSound
  BY DEF Init, WalkSound
<1> QED
  BY <1>1, <1>4, <1>5 DEF RefInv, RefSound

(* Handlers that run while no purge_orig() call is under way. *)
LEMMA RcvRefs ==
  ASSUME Inv, RefInv, PrimariesFollow,
         \/ \E m \in Ogms : RcvOgm(m)
         \/ \E k \in Echoes : RcvEcho(k)
         \/ \E o \in Addr, i \in Ifs : RtqDecay(o, i)
         \/ FlushLinkSeqnos
  PROVE  RefInv'
<1>1. Sound(db) /\ RefSound(db)
  BY DEF Inv, RefInv
<1>2. ASSUME NEW m \in Ogms, RcvOgm(m) PROVE RefSound(db') /\ purge' = NULL
  <2>1. purge' = NULL
    BY <1>2 DEF RcvOgm, DropUnwelcome, DropSqn, DropPip, DropNoId, DropReordered, Consider,
                Receives, HasId
  <2> QED
    BY <1>1, <1>2, <2>1, RcvOgmRefs
<1>3. ASSUME NEW k \in Echoes, RcvEcho(k) PROVE RefSound(db') /\ purge' = NULL
  <2>1. k[1] \in Addr
    BY EchoAssumption DEF Keys
  <2>2. CASE EchoUnused(k)
    BY <1>1, <2>1, <2>2, GetOrigRefs DEF EchoUnused
  <2>3. ASSUME NEW id4me \in BOOLEAN, EchoConfirms(k, id4me)
        PROVE  RefSound(db') /\ purge' = NULL
    <3>1. /\ db'.known = db.known /\ db'.primary = db.primary /\ db'.refcnt = db.refcnt
          /\ db'.neigh = db.neigh /\ db'.router = db.router /\ db'.id4him = db.id4him
          /\ (db'.uaf <=> db.uaf) /\ purge' = NULL
      BY <1>1, <2>3 DEF EchoConfirms, Sound, Database
    <3> QED
      BY <1>1, <3>1, SameRefs
  <2> QED
    BY <1>3, <2>2, <2>3 DEF RcvEcho
<1>4. ASSUME FlushLinkSeqnos \/ \E o \in Addr, i \in Ifs : RtqDecay(o, i)
      PROVE  RefSound(db') /\ purge' = NULL
  <2>1. /\ db'.known = db.known /\ db'.primary = db.primary /\ db'.refcnt = db.refcnt
        /\ db'.neigh = db.neigh /\ db'.router = db.router /\ db'.id4him = db.id4him
        /\ (db'.uaf <=> db.uaf) /\ purge' = NULL
    BY <1>1, <1>4 DEF FlushLinkSeqnos, RtqDecay, Sound, Database
  <2> QED
    BY <1>1, <2>1, SameRefs
<1> QED
  BY <1>2, <1>3, <1>4 DEF RefInv, WalkSound

(* A call of purge_orig() begins with every originator still to visit. *)
LEMMA CallRefs ==
  ASSUME Inv, RefInv, PurgeTimed \/ PurgeAll \/ (\E i \in Ifs : Deactivate(i) \/ Activate(i))
  PROVE  RefInv'
<1>1. db' = db /\ RefSound(db) /\ db.known \in SUBSET Addr
  BY DEF PurgeTimed, PurgeAll, Deactivate, Activate, RefInv, Inv, Sound, Database
<1>2. RefSound(db')
  BY <1>1
<1>3. ASSUME NEW bif \in Ifs \cup {NULL}, NEW timed \in BOOLEAN,
             purge' = Walk(bif, timed, db.known), bif = NULL /\ ~timed => FlushAll
      PROVE  WalkSound'
  <2>1. db'.known = db.known
    BY <1>1
  <2> QED
    BY <1>1, <1>3, <2>1, WalkHeld
<1>4. ASSUME PurgeTimed PROVE WalkSound'
  <2>1. purge' = Walk(NULL, TRUE, db.known)
    BY <1>4 DEF PurgeTimed
  <2> QED
    BY <1>3, <2>1
<1>5. ASSUME PurgeAll PROVE WalkSound'
  <2>1. purge' = Walk(NULL, FALSE, db.known)
    BY <1>5 DEF PurgeAll
  <2>2. FlushAll
    BY <1>5 DEF PurgeAll
  <2> QED
    BY <1>3, <2>1, <2>2
<1>6. ASSUME NEW i \in Ifs, Deactivate(i) PROVE WalkSound'
  <2> DEFINE bif == IF i = PrimaryIf THEN NULL ELSE i
  <2>1. purge' = Walk(bif, FALSE, db.known) /\ (i = PrimaryIf => FlushAll)
    BY <1>6 DEF Deactivate
  <2>2. bif \in Ifs \cup {NULL} /\ (bif = NULL => FlushAll)
    BY <2>1, NullAssumption
  <2> HIDE DEF bif
  <2> QED
    BY <1>3, <2>1, <2>2
<1>7. ASSUME NEW i \in Ifs, Activate(i) PROVE WalkSound'
  BY <1>7 DEF Activate, RefInv, WalkSound
<1> QED
  BY <1>2, <1>4, <1>5, <1>6, <1>7 DEF RefInv

LEMMA PurgeRefs ==
  ASSUME Inv, RefInv, NEW o \in Addr, PurgeStep(o)
  PROVE  RefInv'
<1> DEFINE bif == purge.bif
           timed == purge.timed
           todo == purge.todo \ {o}
<1>1. /\ RefSound(db') /\ purge # NULL
      /\ db'.known = db.known \/ (bif = NULL /\ db'.known = db.known \ {o})
      /\ bif = NULL /\ ~timed => db'.known = db.known \ {o}
      /\ purge' = Walk(bif, timed, todo)
  BY PurgeStepRefs
<1>2. purge \in PurgeCall
  BY <1>1 DEF Inv, TypeOK
<1>3. bif \in Ifs \cup {NULL} /\ timed \in BOOLEAN /\ todo \in SUBSET Addr
  BY <1>2 DEF PurgeCall
<1>4. /\ purge.todo \subseteq db.known
      /\ bif = NULL /\ ~timed => FlushAll /\ db.known \subseteq purge.todo
  BY <1>1 DEF RefInv, WalkSound
<1>5. todo \subseteq db'.known
  BY <1>1, <1>4
<1>6. bif = NULL /\ ~timed => FlushAll /\ db'.known \subseteq todo
  BY <1>1, <1>4
<1> HIDE DEF bif, timed, todo
<1>7. WalkSound'
  BY <1>1, <1>3, <1>5, <1>6, WalkHeld
<1> QED
  BY <1>1, <1>7 DEF RefInv

THEOREM RefInvHolds == PrimariesFollow => (Spec => [](Inv /\ RefInv))
<1> SUFFICES ASSUME PrimariesFollow PROVE Spec => [](Inv /\ RefInv)
  OBVIOUS
<1>1. Inv /\ RefInv /\ [Next]_vars => RefInv'
  <2> SUFFICES ASSUME Inv, RefInv, [Next]_vars PROVE RefInv'
    OBVIOUS
  <2>1. CASE \/ \E m \in Ogms : RcvOgm(m)
             \/ \E k \in Echoes : RcvEcho(k)
             \/ \E o \in Addr, i \in Ifs : RtqDecay(o, i)
             \/ FlushLinkSeqnos
    BY <2>1, RcvRefs
  <2>2. CASE PurgeTimed \/ PurgeAll \/ (\E i \in Ifs : Deactivate(i) \/ Activate(i))
    BY <2>2, CallRefs
  <2>3. ASSUME NEW o \in Addr, PurgeStep(o) PROVE RefInv'
    BY <2>3, PurgeRefs
  <2>4. CASE UNCHANGED vars
    BY <2>4 DEF vars, RefInv, RefSound, Counted, Refs, Bare, WalkSound
  <2> QED
    BY <2>1, <2>2, <2>3, <2>4 DEF Next
<1>2. Init => RefInv
  BY InitRefs
<1> QED
  BY <1>1, <1>2, InvHolds, PTL DEF Spec

(* pog_refcnt counts exactly the originators whose primary a node is, and  *)
(* whoever is counted exists: purge_orig() may free an originator when its *)
(* count is zero.                                                          *)
THEOREM CountsExact == PrimariesFollow => (Spec => []RefcntExact)
<1> SUFFICES ASSUME PrimariesFollow PROVE Spec => []RefcntExact
  OBVIOUS
<1>1. Inv /\ RefInv => RefcntExact
  <2> SUFFICES ASSUME Inv, RefInv, NEW p \in Addr
               PROVE  /\ db.refcnt[p] = Cardinality({o \in Addr \ {p} : db.primary[o] = p})
                      /\ db.refcnt[p] > 0 => p \in db.known
    BY DEF RefcntExact
  <2>1. Counted(db) /\ db.refcnt[p] = Cardinality(Refs(db, p))
    BY DEF RefInv, RefSound, Counted
  <2>2. Refs(db, p) # {} => p \in db.known
    BY <2>1, NullAssumption DEF Counted, Refs
  <2>3. Cardinality({}) = 0
    BY FS_EmptySet
  <2>4. Refs(db, p) = {} => db.refcnt[p] = 0
    BY <2>1, <2>3
  <2>5. db.refcnt[p] > 0 => p \in db.known
    BY <2>2, <2>4
  <2> QED
    BY <2>1, <2>5 DEF Refs
<1> QED
  BY <1>1, RefInvHolds, PTL

(* Freeing an originator leaves nothing of it behind: no neighbour, route, *)
(* link, identifier or primary.                                            *)
THEOREM NothingLeft == PrimariesFollow => (Spec => []NothingOutlivesOrig)
<1> SUFFICES ASSUME PrimariesFollow PROVE Spec => []NothingOutlivesOrig
  OBVIOUS
<1>1. Inv /\ RefInv => NothingOutlivesOrig
  <2> SUFFICES ASSUME Inv, RefInv, NEW o \in Addr \ db.known
               PROVE  /\ db.neigh[o] = {} /\ db.router[o] = NULL
                      /\ o \notin db.link /\ db.lndev[o] = {}
                      /\ db.id4him[o] = 0 /\ db.primary[o] = NULL
    BY DEF NothingOutlivesOrig
  <2>1. Bare(db, o) /\ db.primary[o] = NULL
    BY DEF RefInv, RefSound, Counted
  <2>2. o \notin db.link /\ db.lndev[o] = {}
    BY DEF Inv, Sound, LinksSound
  <2> QED
    BY <2>1, <2>2 DEF Bare
<1> QED
  BY <1>1, RefInvHolds, PTL

(* No purge, flush or change of primary touches the memory of an           *)
(* originator that was freed before.  Without PrimariesFollow a flush of   *)
(* everything does: the run flush_downward shows how.                      *)
THEOREM FreedUntouched == PrimariesFollow => (Spec => []NoUseAfterFree)
<1> SUFFICES ASSUME PrimariesFollow PROVE Spec => []NoUseAfterFree
  OBVIOUS
<1>1. RefInv => NoUseAfterFree
  BY DEF RefInv, RefSound, Counted, NoUseAfterFree
<1> QED
  BY <1>1, RefInvHolds, PTL

-----------------------------------------------------------------------------
(* What the database holds on which links: only on interfaces that are up, *)
(* and metrics only for links an own OGM has come back by.                 *)
(*                                                                         *)
(* Both invariants except the originators a purge without a time has still *)
(* to visit.  The invariant proved here says what those may still hold:    *)
(* nothing but what the purge is about to take away.                       *)

(* An originator that does not exist has no neighbours. *)
Forgotten(d) == \A o \in Addr \ d.known : d.neigh[o] = {}

(* All links of o known to d are in A. *)
LinksIn(d, o, A) == d.neigh[o] \subseteq A /\ \A i \in d.lndev[o] : <<o, i>> \in A

(* All links of o with a metric or echo quality are in E. *)
RatedIn(d, o, E) == d.rated[o] \subseteq E /\ \A i \in d.rtq[o] : <<o, i>> \in E

(* The links a purge for bif takes away. *)
Doomed(bif) == IF bif = NULL THEN Keys ELSE {k \in Keys : k[2] = bif}

(* The links whose use is not to be excluded yet. *)
Leftover(o) == IF o \in Unvisited THEN Doomed(purge.bif) ELSE {}

Up == {k \in Keys : k[2] \in active}

LinkInv ==
    /\ Inv
    /\ Forgotten(db)
    /\ \A o \in Addr : /\ LinksIn(db, o, Up \cup Leftover(o))
                       /\ RatedIn(db, o, echoed \cup Leftover(o))

(* The two databases agree on all that is said about links. *)
SameLinks(d, e) ==
    e.neigh = d.neigh /\ e.rated = d.rated /\ e.lndev = d.lndev /\ e.rtq = d.rtq

-----------------------------------------------------------------------------
(* Functions on the database that leave the links alone.                   *)

LEMMA GetOrigLinks ==
  ASSUME NEW d, d \in Database, NEW o \in Addr
  PROVE  SameLinks(d, GetOrig(d, o)) /\ d.known \subseteq GetOrig(d, o).known
BY DEF Database, GetOrig, SameLinks

LEMMA ClearPrimaryLinks ==
  ASSUME NEW d, d \in Database, NEW o \in Addr
  PROVE  SameLinks(d, ClearPrimary(d, o)) /\ ClearPrimary(d, o).known = d.known
<1> DEFINE c == ClearPrimary(d, o)
           old == d.primary[o]
<1>1. \/ c = [d EXCEPT !.primary[o] = NULL]
      \/ c = [d EXCEPT !.primary[o] = NULL, !.refcnt[old] = @ - 1]
      \/ c = [d EXCEPT !.primary[o] = NULL, !.uaf = TRUE]
  BY DEF ClearPrimary
<1> QED
  BY <1>1 DEF Database, SameLinks

LEMMA SetPrimaryLinks ==
  ASSUME NEW d, Sound(d), NEW o \in Addr, NEW p \in Addr
  PROVE  SameLinks(d, SetPrimary(d, o, p)) /\ d.known \subseteq SetPrimary(d, o, p).known
<1> DEFINE c == ClearPrimary(d, o)
           g == GetOrig(c, p)
<1>1. Sound(c) /\ SameLinks(d, c) /\ c.known = d.known
  BY ClearPrimarySound, ClearPrimaryLinks DEF Sound
<1>2. Sound(g) /\ SameLinks(c, g)
  BY <1>1, GetOrigSound, GetOrigLinks DEF Sound
<1>3. d.known \subseteq SetPrimary(d, o, p).known
  BY SetPrimarySound
<1>4. CASE d.primary[o] = p
  BY <1>4 DEF SetPrimary, SameLinks
<1>5. CASE d.primary[o] # p /\ p = o
  <2>1. SetPrimary(d, o, p) = [c EXCEPT !.primary[o] = o]
    BY <1>5 DEF SetPrimary
  <2> HIDE DEF c
  <2> QED
    BY <1>1, <1>3, <2>1 DEF SameLinks, Sound, Database
<1>6. CASE d.primary[o] # p /\ p # o
  <2>1. SetPrimary(d, o, p) = [g EXCEPT !.primary[o] = p, !.refcnt[p] = @ + 1]
    BY <1>6 DEF SetPrimary
  <2> HIDE DEF g
  <2>2. SameLinks(g, SetPrimary(d, o, p))
    BY <1>2, <2>1 DEF SameLinks, Sound, Database
  <2> HIDE DEF c
  <2> QED
    BY <1>1, <1>2, <1>3, <2>2 DEF SameLinks
<1> QED
  BY <1>4, <1>5, <1>6

(* The stages of process_ogm() up to the identifier. *)
LEMMA StagesLinks ==
  ASSUME Sound(db), NEW m \in Ogm
  PROVE  /\ SameLinks(db, Heard(m)) /\ db.known \subseteq Heard(m).known
         /\ SameLinks(db, Found(m)) /\ db.known \subseteq Found(m).known
         /\ SameLinks(db, Piped(m)) /\ db.known \subseteq Piped(m).known
         /\ SameLinks(db, Named(m)) /\ db.known \subseteq Named(m).known
         /\ SameLinks(db, Identified(m)) /\ db.known \subseteq Identified(m).known
<1>1. m.orig \in Addr /\ m.neigh \in Addr /\ m.pip \in Addr \cup {NULL} /\ Announced(m) \in Addr
  BY DEF Ogm, Announced
<1>2. Sound(Heard(m)) /\ SameLinks(db, Heard(m)) /\ db.known \subseteq Heard(m).known
  BY <1>1, FoundSound, GetOrigLinks DEF Sound, Heard
<1>3. Sound(Found(m)) /\ SameLinks(db, Found(m)) /\ db.known \subseteq Found(m).known
  <2>1. SameLinks(Heard(m), Found(m)) /\ Heard(m).known \subseteq Found(m).known
    BY <1>1, <1>2, GetOrigLinks DEF Sound, Found
  <2> QED
    BY <1>2, <2>1, FoundSound DEF SameLinks
<1>4. SameLinks(db, Piped(m)) /\ db.known \subseteq Piped(m).known
  <2> DEFINE f == Found(m)
             v == [f EXCEPT !.valid = @ \cup {m.orig}]
             e == Dismiss(v, m)
             old == v.primary[m.orig]
  <2>1. Piped(m) = SetPrimary(e, m.orig, Announced(m))
    BY DEF Piped, FollowPip
  <2> HIDE DEF f
  <2>2. /\ v \in Database /\ SameLinks(f, v) /\ v.known = f.known /\ v.router = f.router
        /\ v.link = f.link /\ v.id4him = f.id4him
    BY <1>1, <1>3 DEF f, Sound, Database, SameLinks
  <2> HIDE DEF v
  <2>3. Sound(v)
    BY <1>3, <2>2, SameSound DEF f, SameLinks
  <2>4. Sound(e) /\ SameLinks(v, e) /\ e.known = v.known
    <3>1. old \in Addr \cup {NULL}
      BY <1>1, <2>3 DEF Sound, Database
    <3>2. e = v \/ (old \in Addr /\ e = FreePifnb(v, old))
      BY <3>1 DEF Dismiss
    <3>3. old \in Addr => /\ Sound(FreePifnb(v, old)) /\ SameLinks(v, FreePifnb(v, old))
                          /\ FreePifnb(v, old).known = v.known
      BY <2>3, FreePifnbSound DEF FreePifnb, SameLinks, Sound, Database
    <3> QED
      BY <2>3, <3>2, <3>3 DEF SameLinks
  <2> HIDE DEF e
  <2>5. SameLinks(e, Piped(m)) /\ e.known \subseteq Piped(m).known
    BY <1>1, <2>1, <2>4, SetPrimaryLinks
  <2> QED
    BY <1>3, <2>2, <2>4, <2>5 DEF f, SameLinks
<1>5. Sound(Piped(m)) /\ Sound(Named(m)) /\ Named(m).primary[m.orig] \in Addr
  BY NamedSound
<1>6. SameLinks(Piped(m), Named(m)) /\ Named(m).known = Piped(m).known
  BY <1>5 DEF Named, SameLinks, Sound, Database
<1>7. SameLinks(Named(m), Identified(m)) /\ Identified(m).known = Named(m).known
  BY <1>5 DEF Identified, InitPifnb, SameLinks, Sound, Database
<1> QED
  BY <1>2, <1>3, <1>4, <1>6, <1>7 DEF SameLinks

(* What an OGM that counts may add: the link it came through, as a         *)
(* neighbour and as a link device, and a metric if it was accepted.        *)
LEMMA ConsiderLinks ==
  ASSUME NEW d, Sound(d), NEW m \in Ogm, m.orig \in d.known,
         NEW accepted \in BOOLEAN, NEW best \in BOOLEAN, NEW flushed \in BOOLEAN,
         NEW oldSqn \in BOOLEAN
  PROVE  LET e == UpdateOrig(Rate(UpdateLink(d, m, oldSqn), m, accepted), m, best, flushed)
         IN
         /\ e.known = d.known /\ e.rtq = d.rtq
         /\ \A o \in Addr :
              /\ e.neigh[o] \subseteq d.neigh[o] \cup (IF o = m.orig THEN {Key(m)} ELSE {})
              /\ e.rated[o] \subseteq
                   d.rated[o] \cup (IF o = m.orig /\ accepted THEN {Key(m)} ELSE {})
              /\ e.lndev[o] \subseteq
                   d.lndev[o] \cup (IF o = m.orig /\ Direct(m) THEN {m.iif} ELSE {})
<1>1. m.orig \in Addr /\ m.iif \in Ifs /\ Key(m) \in Keys
  BY DEF Ogm, Key, Keys
<1> DEFINE l == UpdateLink(d, m, oldSqn)
           r == Rate(l, m, accepted)
           e == UpdateOrig(r, m, best, flushed)
<1>2. /\ l.known = d.known /\ l.rtq = d.rtq /\ l.neigh = d.neigh /\ l.rated = d.rated
      /\ \A o \in Addr : l.lndev[o] \subseteq
                           d.lndev[o] \cup (IF o = m.orig /\ Direct(m) THEN {m.iif} ELSE {})
  BY <1>1 DEF UpdateLink, Sound, Database
<1>3. Sound(l)
  BY UpdateLinkSound
<1> HIDE DEF l
<1>4. /\ r.known = l.known /\ r.rtq = l.rtq /\ r.lndev = l.lndev
      /\ \A o \in Addr :
           /\ r.neigh[o] \subseteq l.neigh[o] \cup (IF o = m.orig THEN {Key(m)} ELSE {})
           /\ r.rated[o] \subseteq
                l.rated[o] \cup (IF o = m.orig /\ accepted THEN {Key(m)} ELSE {})
  BY <1>1, <1>3 DEF Rate, Sound, Database
<1>5. Sound(r)
  BY <1>3, RateSound
<1> HIDE DEF r
<1>6. /\ e.known = r.known /\ e.rtq = r.rtq /\ e.lndev = r.lndev /\ e.neigh = r.neigh
      /\ \A o \in Addr : e.rated[o] \subseteq r.rated[o]
  BY <1>1, <1>5 DEF UpdateOrig, UpdateRoutes, FlushOrig, Sound, Database
<1> QED
  BY <1>2, <1>4, <1>6 DEF r, l

-----------------------------------------------------------------------------
(* The loop body of purge_orig().                                          *)

(* e holds nothing that d did not hold. *)
Shrunk(d, e) ==
    \A o \in Addr : /\ e.neigh[o] \subseteq d.neigh[o] /\ e.rated[o] \subseteq d.rated[o]
                    /\ e.lndev[o] \subseteq d.lndev[o] /\ e.rtq[o] \subseteq d.rtq[o]

(* Nothing of o in d is on a link that a purge for bif takes away. *)
Cleared(d, o, bif) ==
    /\ d.neigh[o] \cap Doomed(bif) = {}
    /\ \A i \in d.lndev[o] : <<o, i>> \notin Doomed(bif)

LEMMA FlushOrigLinks ==
  ASSUME NEW d, Sound(d), NEW o \in Addr, NEW bif \in Ifs \cup {NULL}
  PROVE  LET f == FlushOrig(d, o, bif)
         IN  /\ f.known = d.known /\ f.neigh = d.neigh /\ f.link = d.link
             /\ f.lndev = d.lndev /\ f.rtq = d.rtq
             /\ \A p \in Addr : f.rated[p] \subseteq d.rated[p]
BY DEF FlushOrig, UpdateRoutes, Sound, Database

LEMMA FreeLinkLinks ==
  ASSUME NEW d, Sound(d), NEW o \in Addr, NEW bif \in Ifs \cup {NULL}
  PROVE  LET f == FreeLink(d, o, bif)
         IN  /\ f.known = d.known /\ f.neigh = d.neigh /\ Shrunk(d, f)
             /\ bif = NULL => f.lndev[o] = {}
             /\ bif \notin f.lndev[o]
<1> DEFINE left == IF bif = NULL THEN {} ELSE d.lndev[o] \ {bif}
           f == FreeLink(d, o, bif)
<1>1. f = [d EXCEPT !.lndev[o] = left, !.rtq[o] = @ \cap left,
                    !.link = IF left = {} THEN @ \ {o} ELSE @]
  BY DEF FreeLink
<1>2. left \subseteq d.lndev[o] /\ bif \notin left /\ (bif = NULL => left = {})
  OBVIOUS
<1> HIDE DEF left, f
<1>3. /\ f.known = d.known /\ f.neigh = d.neigh /\ f.rated = d.rated
      /\ f.lndev[o] = left /\ \A p \in Addr : f.lndev[p] \subseteq d.lndev[p]
      /\ \A p \in Addr : f.rtq[p] \subseteq d.rtq[p]
  BY <1>1, <1>2 DEF Sound, Database
<1> QED
  BY <1>2, <1>3 DEF f, Shrunk

LEMMA StripLinks ==
  ASSUME NEW d, Sound(d), NEW o \in Addr, NEW bif \in Ifs \cup {NULL}
  PROVE  LET e == Strip(d, o, bif)
         IN  /\ e.known = d.known /\ Shrunk(d, e) /\ Cleared(e, o, bif)
             /\ \A p \in Addr : p # o => e.neigh[p] = d.neigh[p]
             /\ bif = NULL => e.neigh[o] = {}
<1> DEFINE f == FlushOrig(d, o, bif)
           left == Spare(f.neigh[o], bif)
           g == [f EXCEPT !.neigh[o] = left]
           e == Strip(d, o, bif)
<1>1. Sound(f) /\ f.rated[o] \subseteq left
  BY FlushOrigSound
<1>2. /\ f.known = d.known /\ f.neigh = d.neigh /\ f.link = d.link
      /\ f.lndev = d.lndev /\ f.rtq = d.rtq
      /\ \A p \in Addr : f.rated[p] \subseteq d.rated[p]
  BY FlushOrigLinks
<1>3. e = IF o \in g.link THEN FreeLink(g, o, bif) ELSE g
  BY DEF Strip
<1>4. /\ left \subseteq d.neigh[o] /\ left \cap Doomed(bif) = {}
      /\ bif = NULL => left = {}
  <2>1. d.neigh[o] \subseteq Keys
    BY DEF Sound, Database
  <2>2. left = IF bif = NULL THEN {} ELSE {k \in d.neigh[o] : k[2] # bif}
    BY <1>2 DEF Spare
  <2> QED
    BY <2>1, <2>2 DEF Doomed
<1> HIDE DEF f, left, e
<1>5. Sound(g)
  <2>1. left \subseteq f.neigh[o]
    BY <1>2, <1>4
  <2>2. g \in Database
    BY <1>1, <2>1 DEF Sound, Database
  <2>3. RoutesSound(g)
    BY <1>1 DEF RoutesSound, Sound, Database
  <2>4. LinksSound(g) /\ IdsSound(g)
    BY <1>1 DEF LinksSound, IdsSound, Sound, Database
  <2> QED
    BY <2>2, <2>3, <2>4 DEF Sound
<1>6. /\ g.known = d.known /\ g.link = d.link /\ g.lndev = d.lndev /\ g.rtq = d.rtq
      /\ g.rated = f.rated /\ g.neigh[o] = left
      /\ \A p \in Addr : p # o => g.neigh[p] = d.neigh[p]
  BY <1>1, <1>2 DEF Sound, Database
<1> HIDE DEF g
<1>7. Shrunk(d, g)
  BY <1>2, <1>4, <1>6 DEF Shrunk
<1>8. CASE o \in g.link
  <2>1. e = FreeLink(g, o, bif)
    BY <1>3, <1>8
  <2>2. /\ e.known = g.known /\ e.neigh = g.neigh /\ Shrunk(g, e)
        /\ (bif = NULL => e.lndev[o] = {}) /\ bif \notin e.lndev[o]
    BY <1>5, <2>1, FreeLinkLinks
  <2>3. Shrunk(d, e)
    BY <1>7, <2>2 DEF Shrunk
  <2>4. Cleared(e, o, bif)
    BY <1>4, <1>6, <2>2 DEF Cleared, Doomed
  <2> QED
    BY <1>4, <1>6, <2>2, <2>3, <2>4 DEF e
<1>9. CASE o \notin g.link
  <2>1. e = g
    BY <1>3, <1>9
  <2>2. g.lndev[o] = {}
    BY <1>5, <1>9 DEF Sound, LinksSound
  <2>3. Cleared(g, o, bif)
    BY <1>4, <1>6, <2>2 DEF Cleared
  <2> QED
    BY <1>4, <1>6, <1>7, <2>1, <2>3 DEF e
<1> QED
  BY <1>8, <1>9

LEMMA DestroyLinks ==
  ASSUME NEW d, Sound(d), NEW o \in Addr
  PROVE  SameLinks(d, Destroy(d, o)) /\ Destroy(d, o).known = d.known \ {o}
<1> DEFINE f == IF d.id4him[o] # 0 THEN FreePifnb(d, o) ELSE d
           c == ClearPrimary(f, o)
<1>1. Sound(f) /\ SameLinks(d, f) /\ f.known = d.known
  BY FreePifnbSound DEF FreePifnb, SameLinks, Sound, Database
<1> HIDE DEF f
<1>2. Sound(c) /\ SameLinks(f, c) /\ c.known = f.known
  BY <1>1, ClearPrimarySound, ClearPrimaryLinks DEF Sound
<1>3. Destroy(d, o) = [c EXCEPT !.known = @ \ {o}, !.refcnt[o] = 0, !.valid = @ \ {o},
                                !.id4me = @ \ {o}]
  BY DEF Destroy, f
<1> HIDE DEF c
<1>4. SameLinks(c, Destroy(d, o)) /\ Destroy(d, o).known = c.known \ {o}
  BY <1>2, <1>3 DEF SameLinks, Sound, Database
<1> QED
  BY <1>1, <1>2, <1>4 DEF SameLinks

-----------------------------------------------------------------------------
(* The invariant.                                                          *)

(* Whatever shrinks the database and leaves all else alone keeps it. *)
LEMMA ShrinkKeepsLinkInv ==
  ASSUME LinkInv, Inv', Shrunk(db, db'), db.known \subseteq db'.known,
         UNCHANGED <<active, purge, echoed>>
  PROVE  LinkInv'
<1>1. Forgotten(db')
  BY DEF LinkInv, Shrunk, Forgotten
<1>2. Up' = Up /\ \A o \in Addr : Leftover(o)' = Leftover(o)
  BY DEF Up, Leftover, Unvisited
<1>3. \A o \in Addr : /\ LinksIn(db', o, Up \cup Leftover(o))
                      /\ RatedIn(db', o, echoed \cup Leftover(o))
  BY DEF LinkInv, Shrunk, LinksIn, RatedIn
<1> QED
  BY <1>1, <1>2, <1>3 DEF LinkInv, Forgotten, LinksIn, RatedIn

LEMMA RcvOgmKeepsLinkInv ==
  ASSUME LinkInv, Inv', NEW m \in Ogms, RcvOgm(m)
  PROVE  LinkInv'
<1>1. m \in Ogm /\ Sound(db) /\ m.orig \in Addr /\ m.neigh \in Addr /\ m.iif \in Ifs
  BY OgmAssumption DEF LinkInv, Inv, Ogm
<1>2. UNCHANGED <<active, purge, echoed>>
  BY DEF RcvOgm, DropUnwelcome, DropSqn, DropPip, DropNoId, DropReordered, Consider
<1>3. ASSUME SameLinks(db, db'), db.known \subseteq db'.known
      PROVE  LinkInv'
  BY <1>2, <1>3, ShrinkKeepsLinkInv DEF SameLinks, Shrunk
<1>4. CASE DropUnwelcome(m)
  BY <1>1, <1>3, <1>4, StagesLinks DEF DropUnwelcome
<1>5. CASE DropSqn(m)
  BY <1>1, <1>3, <1>5, StagesLinks DEF DropSqn
<1>6. CASE DropPip(m)
  <2> DEFINE p == Piped(m)
  <2>1. p \in Database /\ SameLinks(db, p) /\ db.known \subseteq p.known
    BY <1>1, NamedSound, StagesLinks DEF Sound
  <2>2. db' = ClearPrimary(p, m.orig)
    BY <1>6 DEF DropPip
  <2> HIDE DEF p
  <2> QED
    BY <1>1, <1>3, <2>1, <2>2, ClearPrimaryLinks DEF SameLinks
<1>7. CASE DropNoId(m)
  BY <1>1, <1>3, <1>7, StagesLinks DEF DropNoId
<1>8. CASE DropReordered(m)
  BY <1>1, <1>3, <1>8, StagesLinks DEF DropReordered
<1>9. ASSUME NEW accepted \in BOOLEAN, NEW best \in BOOLEAN, NEW flushed \in BOOLEAN,
             NEW oldSqn \in BOOLEAN, Consider(m, accepted, best, flushed, oldSqn)
      PROVE  LinkInv'
  <2> DEFINE i == Identified(m)
  <2>1. /\ HasId(m) /\ purge = NULL /\ m.iif \in active
        /\ accepted => m.iif \in db.rtq[m.neigh]
        /\ db' = UpdateOrig(Rate(UpdateLink(i, m, oldSqn), m, accepted), m, best, flushed)
    BY <1>1, <1>9 DEF Consider, HasId, Receives, Bidirectional
  <2>2. Sound(i) /\ m.orig \in i.known /\ SameLinks(db, i) /\ db.known \subseteq i.known
    BY <1>1, <2>1, IdentifiedSound, StagesLinks
  <2> HIDE DEF i
  <2>3. /\ db'.known = i.known /\ db'.rtq = i.rtq
        /\ \A o \in Addr :
             /\ db'.neigh[o] \subseteq i.neigh[o] \cup (IF o = m.orig THEN {Key(m)} ELSE {})
             /\ db'.rated[o] \subseteq
                  i.rated[o] \cup (IF o = m.orig /\ accepted THEN {Key(m)} ELSE {})
             /\ db'.lndev[o] \subseteq
                  i.lndev[o] \cup (IF o = m.orig /\ Direct(m) THEN {m.iif} ELSE {})
    BY <1>1, <2>1, <2>2, ConsiderLinks
  <2>4. \A o \in Addr : Leftover(o) = {} /\ Leftover(o)' = {}
    BY <1>2, <2>1 DEF Leftover, Unvisited
  <2>5. Up' = Up /\ echoed' = echoed
    BY <1>2 DEF Up
  <2>6. Key(m) \in Up /\ (accepted => Key(m) \in echoed)
    BY <1>1, <2>1, <2>4 DEF LinkInv, RatedIn, Key, Up, Keys
  <2>7. Direct(m) => <<m.orig, m.iif>> = Key(m)
    BY DEF Direct, Key
  <2>8. Forgotten(db')
    BY <2>2, <2>3 DEF LinkInv, Forgotten, SameLinks
  <2>9. \A o \in Addr : LinksIn(db', o, Up)
    BY <2>2, <2>3, <2>4, <2>6, <2>7 DEF LinkInv, LinksIn, SameLinks
  <2>10. \A o \in Addr : RatedIn(db', o, echoed)
    BY <2>2, <2>3, <2>4, <2>6 DEF LinkInv, RatedIn, SameLinks
  <2> QED
    BY <2>4, <2>5, <2>8, <2>9, <2>10 DEF LinkInv, Forgotten, LinksIn, RatedIn
<1> QED
  BY <1>4, <1>5, <1>6, <1>7, <1>8, <1>9 DEF RcvOgm

LEMMA RcvEchoKeepsLinkInv ==
  ASSUME LinkInv, Inv', NEW k \in Echoes, RcvEcho(k)
  PROVE  LinkInv'
<1>1. Sound(db) /\ k[1] \in Addr /\ k[2] \in Ifs /\ k = <<k[1], k[2]>>
  BY EchoAssumption DEF LinkInv, Inv, Keys
<1>2. CASE EchoUnused(k)
  <2>1. SameLinks(db, db') /\ db.known \subseteq db'.known
    BY <1>1, <1>2, GetOrigLinks DEF EchoUnused, Sound
  <2> QED
    BY <1>2, <2>1, ShrinkKeepsLinkInv DEF EchoUnused, SameLinks, Shrunk
<1>3. ASSUME NEW id4me \in BOOLEAN, EchoConfirms(k, id4me)
      PROVE  LinkInv'
  <2> DEFINE me == IF id4me THEN db.id4me \cup {db.primary[k[1]]}
                   ELSE db.id4me \ {db.primary[k[1]]}
  <2>1. /\ db' = [db EXCEPT !.rtq[k[1]] = @ \cup {k[2]}, !.id4me = me]
        /\ echoed' = echoed \cup {k} /\ purge = NULL /\ UNCHANGED <<active, purge>>
    BY <1>3 DEF EchoConfirms
  <2> HIDE DEF me
  <2>2. /\ db'.known = db.known /\ db'.neigh = db.neigh /\ db'.lndev = db.lndev
        /\ db'.rated = db.rated
        /\ \A o \in Addr : db'.rtq[o] \subseteq
                             db.rtq[o] \cup (IF o = k[1] THEN {k[2]} ELSE {})
    BY <1>1, <2>1 DEF Sound, Database
  <2>3. Up' = Up /\ \A o \in Addr : Leftover(o) = {} /\ Leftover(o)' = {}
    BY <2>1 DEF Up, Leftover, Unvisited
  <2>4. Forgotten(db') /\ \A o \in Addr : LinksIn(db', o, Up)
    BY <2>2, <2>3 DEF LinkInv, Forgotten, LinksIn
  <2>5. \A o \in Addr : RatedIn(db', o, echoed')
    BY <1>1, <2>1, <2>2, <2>3 DEF LinkInv, RatedIn
  <2> QED
    BY <2>3, <2>4, <2>5 DEF LinkInv, Forgotten, LinksIn, RatedIn
<1> QED
  BY <1>2, <1>3 DEF RcvEcho

LEMMA DecayKeepsLinkInv ==
  ASSUME LinkInv, Inv', (\E o \in Addr, i \in Ifs : RtqDecay(o, i)) \/ FlushLinkSeqnos
  PROVE  LinkInv'
<1>1. Sound(db)
  BY DEF LinkInv, Inv
<1>2. ASSUME NEW o \in Addr, NEW i \in Ifs, RtqDecay(o, i)
      PROVE  Shrunk(db, db') /\ db'.known = db.known
  <2>1. db' = [db EXCEPT !.rtq[o] = @ \ {i}]
    BY <1>2 DEF RtqDecay
  <2> QED
    BY <1>1, <2>1 DEF Shrunk, Sound, Database
<1>3. ASSUME FlushLinkSeqnos
      PROVE  Shrunk(db, db') /\ db'.known = db.known
  <2>1. db' = [db EXCEPT !.lndev = [o \in Addr |-> {}], !.rtq = [o \in Addr |-> {}]]
    BY <1>3 DEF FlushLinkSeqnos
  <2>2. /\ db'.neigh = db.neigh /\ db'.rated = db.rated /\ db'.known = db.known
        /\ \A o \in Addr : db'.lndev[o] = {} /\ db'.rtq[o] = {}
    BY <1>1, <2>1 DEF Sound, Database
  <2> QED
    BY <2>2 DEF Shrunk
<1>4. Shrunk(db, db') /\ db'.known = db.known
  BY <1>2, <1>3
<1>5. UNCHANGED <<active, purge, echoed>>
  BY DEF RtqDecay, FlushLinkSeqnos
<1> QED
  BY <1>4, <1>5, ShrinkKeepsLinkInv

(* A call of purge_orig() that has all originators still to visit makes    *)
(* room for whatever went down with its interface.                         *)
LEMMA PurgeBegins ==
  ASSUME LinkInv, Inv', NEW bif \in Ifs \cup {NULL}, purge = NULL, UNCHANGED db,
         NEW timed \in BOOLEAN, timed = FALSE, purge' = Walk(bif, timed, db.known),
         Up \subseteq Up' \cup Doomed(bif), echoed \subseteq echoed' \cup Doomed(bif)
  PROVE  LinkInv'
<1>1. Sound(db)
  BY DEF LinkInv, Inv
<1>2. \A o \in Addr : Leftover(o) = {}
  BY DEF Leftover, Unvisited
<1>3. \A o \in db.known : Leftover(o)' = Doomed(bif)
  <2> SUFFICES ASSUME NEW o \in db.known PROVE Leftover(o)' = Doomed(bif)
    OBVIOUS
  <2>1. db.known \in SUBSET Addr /\ db.known # {}
    BY <1>1 DEF Sound, Database
  <2>2. purge' # NULL /\ purge'.bif = bif /\ purge'.timed = timed /\ purge'.todo = db.known
    BY <2>1, WalkFields
  <2>3. Unvisited' = db.known
    BY <2>2 DEF Unvisited
  <2> QED
    BY <2>2, <2>3 DEF Leftover, Doomed
<1>4. \A o \in db.known : /\ LinksIn(db, o, Up' \cup Leftover(o)')
                          /\ RatedIn(db, o, echoed' \cup Leftover(o)')
  <2>1. \A o \in db.known : LinksIn(db, o, Up) /\ RatedIn(db, o, echoed)
    <3>1. db.known \subseteq Addr
      BY <1>1 DEF Sound, Database
    <3> QED
      BY <1>2, <3>1 DEF LinkInv, LinksIn, RatedIn
  <2> QED
    BY <1>3, <2>1 DEF LinksIn, RatedIn
<1>5. \A o \in Addr \ db.known : /\ LinksIn(db, o, Up' \cup Leftover(o)')
                                 /\ RatedIn(db, o, echoed' \cup Leftover(o)')
  <2>1. \A o \in Addr \ db.known : /\ db.neigh[o] = {} /\ db.rated[o] = {}
                                   /\ db.lndev[o] = {} /\ db.rtq[o] = {}
    BY <1>1 DEF LinkInv, Forgotten, Sound, RoutesSound, LinksSound
  <2> QED
    BY <2>1 DEF LinksIn, RatedIn
<1> QED
  BY <1>4, <1>5 DEF LinkInv, Forgotten, LinksIn, RatedIn

LEMMA CallKeepsLinkInv ==
  ASSUME LinkInv, Inv', PurgeTimed \/ PurgeAll \/ (\E i \in Ifs : Deactivate(i) \/ Activate(i))
  PROVE  LinkInv'
<1>1. /\ \A k \in Up : k \in Keys /\ k[2] \in active
      /\ echoed \subseteq Keys
  BY DEF Up, LinkInv, Inv, TypeOK
<1>2. ASSUME PurgeTimed PROVE LinkInv'
  <2>1. UNCHANGED <<db, active, echoed>> /\ purge = NULL
    BY <1>2 DEF PurgeTimed
  <2>2. purge' = NULL \/ purge'.timed
    <3> DEFINE timed == TRUE
               known == db.known
               w == purge'
    <3>1. w = Walk(NULL, timed, known) /\ timed \in BOOLEAN
      BY <1>2 DEF PurgeTimed
    <3>2. known \in SUBSET Addr
      BY DEF LinkInv, Inv, Sound, Database
    <3> HIDE DEF timed, known, w
    <3>3. known # {} => w.timed = timed
      BY <3>1, <3>2, WalkFields
    <3>4. known = {} => w = NULL
      BY <3>1 DEF Walk
    <3> QED
      BY <3>3, <3>4 DEF timed, w
  <2>3. Unvisited = {} /\ Unvisited' = {}
    BY <2>1, <2>2 DEF Unvisited
  <2>4. Up' = Up /\ \A o \in Addr : Leftover(o) = {} /\ Leftover(o)' = {}
    BY <2>1, <2>3 DEF Up, Leftover
  <2> QED
    BY <2>1, <2>4 DEF LinkInv, Forgotten, LinksIn, RatedIn
<1>3. ASSUME PurgeAll PROVE LinkInv'
  <2> DEFINE timed == FALSE
  <2>1. /\ purge = NULL /\ UNCHANGED <<db, active>>
        /\ timed \in BOOLEAN /\ timed = FALSE /\ purge' = Walk(NULL, timed, db.known)
    BY <1>3 DEF PurgeAll
  <2> HIDE DEF timed
  <2>2. Up \subseteq Up' \cup Doomed(NULL) /\ echoed \subseteq echoed' \cup Doomed(NULL)
    BY <1>1 DEF Doomed
  <2> QED
    BY <2>1, <2>2, PurgeBegins
<1>4. ASSUME NEW i \in Ifs, Deactivate(i) PROVE LinkInv'
  <2> DEFINE timed == FALSE
             bif == IF i = PrimaryIf THEN NULL ELSE i
  <2>1. /\ purge = NULL /\ UNCHANGED db /\ active' = active \ {i}
        /\ timed \in BOOLEAN /\ timed = FALSE /\ purge' = Walk(bif, timed, db.known)
        /\ echoed' = IF i = PrimaryIf THEN {} ELSE {k \in echoed : k[2] # i}
    BY <1>4 DEF Deactivate
  <2>2. \A k \in Keys : k \in Doomed(bif) <=> bif = NULL \/ k[2] = bif
    BY DEF Doomed
  <2>3. bif \in Ifs \cup {NULL} /\ (bif = NULL \/ bif = i)
    OBVIOUS
  <2>4. bif = NULL <=> i = PrimaryIf
    BY NullAssumption
  <2> HIDE DEF timed, bif
  <2>5. Up \subseteq Up' \cup Doomed(bif)
    BY <1>1, <2>1, <2>2, <2>3 DEF Up
  <2>6. echoed \subseteq echoed' \cup Doomed(bif)
    BY <1>1, <2>1, <2>2, <2>3, <2>4
  <2> QED
    BY <2>1, <2>3, <2>5, <2>6, PurgeBegins
<1>5. ASSUME NEW i \in Ifs, Activate(i) PROVE LinkInv'
  <2>1. UNCHANGED <<db, purge, echoed>> /\ active \subseteq active'
    BY <1>5 DEF Activate
  <2>2. Up \subseteq Up' /\ \A o \in Addr : Leftover(o)' = Leftover(o)
    BY <2>1 DEF Up, Leftover, Unvisited
  <2> QED
    BY <2>1, <2>2 DEF LinkInv, Forgotten, LinksIn, RatedIn
<1> QED
  BY <1>2, <1>3, <1>4, <1>5

(* A step of the walk leaves the others' leftovers alone. *)
LEMMA ProceedLeftover ==
  ASSUME Inv, NEW o \in Addr, Turn(o), Proceed(o)
  PROVE  /\ Leftover(o) \subseteq Doomed(purge.bif) /\ Leftover(o)' = {}
         /\ \A p \in Addr : p # o => Leftover(p)' = Leftover(p)
<1>1. purge \in PurgeCall /\ purge # NULL
  BY DEF Inv, TypeOK, Turn
<1> DEFINE bif == purge.bif
           timed == purge.timed
           todo == purge.todo \ {o}
           w == purge'
<1>2. bif \in Ifs \cup {NULL} /\ timed \in BOOLEAN /\ todo \in SUBSET Addr
  BY <1>1 DEF PurgeCall
<1>3. w = Walk(bif, timed, todo)
  BY DEF Proceed
<1> HIDE DEF bif, timed, todo, w
<1>4. todo = {} => w = NULL
  BY <1>3 DEF Walk
<1>5. todo # {} => w # NULL /\ w.bif = bif /\ w.timed = timed /\ w.todo = todo
  BY <1>2, <1>3, WalkFields
<1>6. Unvisited' = Unvisited \ {o}
  <2>1. CASE todo = {}
    BY <1>1, <1>4, <2>1 DEF Unvisited, w, todo
  <2>2. CASE todo # {} /\ purge.timed
    BY <1>1, <1>5, <2>2 DEF Unvisited, w, timed
  <2>3. CASE todo # {} /\ ~purge.timed
    BY <1>1, <1>5, <2>3 DEF Unvisited, w, timed, todo
  <2> QED
    BY <2>1, <2>2, <2>3
<1>7. Unvisited' # {} => purge'.bif = purge.bif
  BY <1>4, <1>5 DEF Unvisited, w, bif
<1>8. \A p \in Addr : p \in Unvisited' => Leftover(p)' = Doomed(purge.bif)
  BY <1>7 DEF Leftover, Doomed
<1>9. \A p \in Addr : p \notin Unvisited' => Leftover(p)' = {}
  BY DEF Leftover
<1> QED
  BY <1>6, <1>8, <1>9 DEF Leftover

LEMMA PurgeStepKeepsLinkInv ==
  ASSUME LinkInv, Inv', NEW o \in Addr, PurgeStep(o)
  PROVE  LinkInv'
<1>1. Inv /\ Sound(db)
  BY DEF LinkInv, Inv
<1> DEFINE Frame == Turn(o) /\ Proceed(o) /\ UNCHANGED <<active, echoed>>
<1>2. ASSUME PurgeOrig(o)
      PROVE  LinkInv'
  <2> DEFINE bif == purge.bif
             s == Strip(db, o, bif)
  <2>1. Frame /\ (db' = s \/ (bif = NULL /\ db' = Destroy(s, o)))
    BY <1>2 DEF PurgeOrig
  <2>2. bif \in Ifs \cup {NULL}
    BY <1>1, <2>1 DEF Inv, TypeOK, PurgeCall, Turn
  <2>3. /\ Sound(s) /\ s.known = db.known /\ Shrunk(db, s) /\ Cleared(s, o, bif)
        /\ \A p \in Addr : p # o => s.neigh[p] = db.neigh[p]
        /\ bif = NULL => s.neigh[o] = {}
    BY <1>1, <2>2, StripSound, StripLinks
  <2>4. /\ Leftover(o) \subseteq Doomed(bif) /\ Leftover(o)' = {}
        /\ \A p \in Addr : p # o => Leftover(p)' = Leftover(p)
    BY <1>1, <2>1, ProceedLeftover
  <2> HIDE DEF s, bif
  <2>5. SameLinks(s, db')
    BY <2>1, <2>3, DestroyLinks DEF SameLinks
  <2>6. Forgotten(db')
    <3>1. CASE db' = s
      BY <2>3, <3>1 DEF LinkInv, Forgotten, Shrunk
    <3>2. CASE bif = NULL /\ db' = Destroy(s, o)
      <4>1. db'.known = db.known \ {o} /\ db'.neigh = s.neigh
        BY <2>3, <3>2, DestroyLinks DEF SameLinks
      <4> QED
        BY <2>3, <3>2, <4>1 DEF LinkInv, Forgotten
    <3> QED
      BY <2>1, <3>1, <3>2
  <2>7. \A p \in Addr : LinksIn(s, p, Up \cup Leftover(p)) /\ RatedIn(s, p, echoed \cup Leftover(p))
    BY <2>3 DEF LinkInv, Shrunk, LinksIn, RatedIn
  <2>8. LinksIn(s, o, Up) /\ RatedIn(s, o, echoed)
    <3>1. s.rated[o] \subseteq s.neigh[o] /\ s.rtq[o] \subseteq s.lndev[o]
      BY <2>3 DEF Sound, RoutesSound, LinksSound
    <3> QED
      BY <2>3, <2>4, <2>7, <3>1 DEF LinksIn, RatedIn, Cleared
  <2>9. Up' = Up /\ echoed' = echoed
    BY <2>1 DEF Up
  <2>10. \A p \in Addr : /\ LinksIn(s, p, Up \cup Leftover(p)')
                         /\ RatedIn(s, p, echoed \cup Leftover(p)')
    BY <2>4, <2>7, <2>8 DEF LinksIn, RatedIn
  <2> QED
    BY <2>5, <2>6, <2>9, <2>10 DEF LinkInv, Forgotten, LinksIn, RatedIn, SameLinks
<1>3. ASSUME NEW devs \in SUBSET db.lndev[o], NEW nbs \in SUBSET (db.neigh[o] \ {db.router[o]}),
             NEW idExpired \in BOOLEAN, PurgeParts(o, devs, nbs, idExpired)
      PROVE  LinkInv'
  <2> DEFINE l == [db EXCEPT !.lndev[o] = @ \ devs, !.rtq[o] = @ \ devs]
             f == IF o \in l.link /\ l.lndev[o] = {} THEN FreeLink(l, o, NULL) ELSE l
             p == IF idExpired THEN FreePifnb(f, o) ELSE f
             e == [p EXCEPT !.neigh[o] = @ \ nbs, !.rated[o] = @ \ nbs]
  <2>1. db' = e /\ Frame /\ purge.timed
    BY <1>3 DEF PurgeParts
  <2>2. Sound(l) /\ l.known = db.known /\ Shrunk(db, l)
    <3>1. l \in Database
      BY <1>1 DEF Sound, Database
    <3>2. RoutesSound(l) /\ IdsSound(l)
      BY <1>1 DEF RoutesSound, IdsSound, Sound, Database
    <3>3. LinksSound(l)
      BY <1>1 DEF LinksSound, Sound, Database
    <3>4. l.known = db.known /\ Shrunk(db, l)
      BY <1>1 DEF Shrunk, Sound, Database
    <3> QED
      BY <3>1, <3>2, <3>3, <3>4 DEF Sound
  <2> HIDE DEF l
  <2>3. Sound(f) /\ f.known = db.known /\ Shrunk(l, f)
    BY <2>2, FreeLinkSound, FreeLinkLinks DEF Shrunk
  <2> HIDE DEF f
  <2>4. Sound(p) /\ p.known = db.known /\ SameLinks(f, p)
    BY <2>3, FreePifnbSound DEF FreePifnb, SameLinks, Sound, Database
  <2> HIDE DEF p
  <2>5. e.known = db.known /\ Shrunk(p, e)
    BY <2>4 DEF Shrunk, Sound, Database
  <2> HIDE DEF e
  <2>6. Shrunk(db, db') /\ db'.known = db.known
    BY <2>1, <2>2, <2>3, <2>4, <2>5 DEF Shrunk, SameLinks
  <2>7. Unvisited = {}
    BY <2>1 DEF Unvisited
  <2>8. \A q \in Addr : Leftover(q) = {} /\ Leftover(q)' = {}
    BY <1>1, <2>1, <2>7, ProceedLeftover DEF Leftover
  <2>9. Forgotten(db')
    BY <2>6 DEF LinkInv, Forgotten, Shrunk
  <2>10. \A q \in Addr : LinksIn(db', q, Up) /\ RatedIn(db', q, echoed)
    BY <2>6, <2>8 DEF LinkInv, Shrunk, LinksIn, RatedIn
  <2>11. Up' = Up /\ echoed' = echoed
    BY <2>1 DEF Up
  <2> QED
    BY <2>8, <2>9, <2>10, <2>11 DEF LinkInv, Forgotten, LinksIn, RatedIn
<1> QED
  BY <1>2, <1>3 DEF PurgeStep

(* Every handler keeps the database on links that may be used. *)
THEOREM LinkInvHolds == Spec => []LinkInv
<1>1. Init => LinkInv
  BY InitInv DEF Init, LinkInv, Forgotten, LinksIn, RatedIn
<1>2. LinkInv /\ Inv' /\ [Next]_vars => LinkInv'
  <2> SUFFICES ASSUME LinkInv, Inv', [Next]_vars PROVE LinkInv'
    OBVIOUS
  <2>1. ASSUME NEW m \in Ogms, RcvOgm(m) PROVE LinkInv'
    BY <2>1, RcvOgmKeepsLinkInv
  <2>2. ASSUME NEW k \in Echoes, RcvEcho(k) PROVE LinkInv'
    BY <2>2, RcvEchoKeepsLinkInv
  <2>3. CASE (\E o \in Addr, i \in Ifs : RtqDecay(o, i)) \/ FlushLinkSeqnos
    BY <2>3, DecayKeepsLinkInv
  <2>4. CASE PurgeTimed \/ PurgeAll \/ (\E i \in Ifs : Deactivate(i) \/ Activate(i))
    BY <2>4, CallKeepsLinkInv
  <2>5. ASSUME NEW o \in Addr, PurgeStep(o) PROVE LinkInv'
    BY <2>5, PurgeStepKeepsLinkInv
  <2>6. CASE UNCHANGED vars
    <3>1. Up' = Up /\ \A o \in Addr : Leftover(o)' = Leftover(o)
      BY <2>6 DEF vars, Up, Leftover, Unvisited
    <3> QED
      BY <2>6, <3>1 DEF vars, LinkInv, Forgotten, LinksIn, RatedIn
  <2> QED
    BY <2>1, <2>2, <2>3, <2>4, <2>5, <2>6 DEF Next
<1> QED
  BY <1>1, <1>2, InvHolds, PTL DEF Spec

-----------------------------------------------------------------------------
(* The properties.                                                         *)

(* Routes lead only over links an own OGM has come back by since the       *)
(* interface is up: process_ogm() never uses a link that may be            *)
(* unidirectional, however purges and interface changes intervene.         *)
THEOREM RoutesConfirmed == Spec => []RouterConfirmed
<1>1. LinkInv => RouterConfirmed
  <2> SUFFICES ASSUME LinkInv, NEW o \in Addr \ Unvisited, db.router[o] # NULL
               PROVE  db.router[o] \in echoed
    BY DEF RouterConfirmed
  <2>1. db.router[o] \in db.rated[o]
    BY DEF LinkInv, Inv, Sound, RoutesSound
  <2>2. Leftover(o) = {}
    BY DEF Leftover
  <2> QED
    BY <2>1, <2>2 DEF LinkInv, RatedIn
<1> QED
  BY <1>1, LinkInvHolds, PTL

(* if_deactivate() leaves nothing behind on the interface, once its purge  *)
(* has come by an originator.                                              *)
THEOREM InterfacesCleared == Spec => []NothingOnInactiveIf
<1>1. LinkInv => NothingOnInactiveIf
  <2> SUFFICES ASSUME LinkInv, NEW o \in Addr \ Unvisited
               PROVE  /\ \A k \in db.neigh[o] : k[2] \in active
                      /\ db.lndev[o] \subseteq active
                      /\ db.router[o] # NULL => db.router[o][2] \in active
    BY DEF NothingOnInactiveIf
  <2>1. db.router[o] # NULL => db.router[o] \in db.neigh[o]
    BY DEF LinkInv, Inv, Sound, RoutesSound
  <2>2. LinksIn(db, o, Up)
    BY DEF LinkInv, Leftover, LinksIn
  <2> QED
    BY <2>1, <2>2 DEF LinksIn, Up
<1> QED
  BY <1>1, LinkInvHolds, PTL
=============================================================================
