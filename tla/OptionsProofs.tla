---------------------------- MODULE OptionsProofs ----------------------------
(* The configuration, for any lines, files and edits: what is in force is     *)
(* what is tracked, and what the file says as long as it is followed.         *)
EXTENDS Options, WalkLemmas, TLAPS

-----------------------------------------------------------------------------
(* Types.                                                                     *)
AnyVal == Nat \cup Speeds \cup Devs
Marks == Ttls \cup {NoTtl}
Parents == [val : AnyVal, ref : {NoRef, Ref}, ttl : Marks]
Running == [dev : Devs, ttl : Marks]
InForce == Nat \cup {NoSpeed} \cup {ClassOf[v] : v \in Speeds} \cup SUBSET Running
Saved == [key : AnyVal \cup {Ref}, ttl : Marks]
States ==
  [fly : BOOLEAN, track : [Opts -> SUBSET Parents], use : [Opts -> InForce],
   primary : Devs \cup {NoDev}, file : [Opts -> SUBSET Saved], dead : BOOLEAN]

(* The file: keys of the kind of the option, and always a section for the     *)
(* first device.                                                              *)
KeysOf(o) == IF o = "DEV" THEN Devs \cup {Ref} ELSE ValuesOf(o)
FileOK(f) ==
  /\ f \in [Opts -> SUBSET Saved]
  /\ \A o \in Opts : \A r \in f[o] : r.key \in KeysOf(o)
  /\ \E r \in f["DEV"] : r.key = "a"

(* A single option is in force as it is tracked, if it is.                    *)
Plain(v) == [val |-> v, ref |-> NoRef, ttl |-> NoTtl]
Meant(o, v) == IF o = "GW" THEN ClassOf[v] ELSE v
SingleOK(s, o) ==
  \/ s.track[o] = {} /\ s.use[o] = Default[o]
  \/ \E v \in ValuesOf(o) : s.track[o] = {Plain(v)} /\ s.use[o] = Meant(o, v)
SinglesOK(s) == \A o \in Singles : SingleOK(s, o)
OneClass(s) == s.use["RT"] = 0 \/ s.use["GW"] = NoSpeed

(* So are the devices; no two are tracked for one value or one reference, and *)
(* the first one is configured by its name.                                   *)
InUse(D) == {[dev |-> q.val, ttl |-> q.ttl] : q \in D}
Apart(D) == \A q, r \in D : q.val = r.val \/ (q.ref = r.ref /\ q.ref # NoRef) => q = r
ByName(D) == \A q \in D : q.val \in Devs /\ (q.val = "a" => q.ref = NoRef)
First(s) == s.track["DEV"] = {} \/ (s.primary = "a" /\ \E q \in s.track["DEV"] : q.val = "a")
DevsOK(s) ==
  /\ s.use["DEV"] = InUse(s.track["DEV"])
  /\ Apart(s.track["DEV"]) /\ ByName(s.track["DEV"])
  /\ First(s)

Good(s) == s \in States /\ FileOK(s.file) /\ SinglesOK(s) /\ OneClass(s) /\ DevsOK(s)
Equipped(s) == s.track["DEV"] # {}

(* What an entry is patched to.                                               *)
SinglePatch(p) ==
  \E o \in Singles, diff \in {"add", "del"} : \E v \in ValuesOf(o) :
    p = Patch(o, diff, v, NoRef, Unsaid)
AddPatch(p) ==
  \E v \in Devs, ref \in {NoRef, Ref}, ttl \in Ttls \cup {Unsaid, Reset} :
    p = Patch("DEV", "add", v, ref, ttl) /\ (ref = Ref => v # "a" /\ v = net)
DelPatch(s, p) ==
  \E v \in Devs, ref \in {NoRef, Ref} :
    /\ p = Patch("DEV", "del", v, ref, Unsaid)
    /\ ref = Ref => \E q \in ByRef(s, p) : q.val = v

-----------------------------------------------------------------------------
(* Facts about the values.                                                    *)
LEMMA OptsAre ==
  /\ Opts = {"PORT", "PEDANTIC", "DEV", "RT", "GW"}
  /\ Singles = {"PORT", "PEDANTIC", "RT", "GW"}
BY DEF Opts, ListOrder, Range, Singles

LEMMA ValuesAre ==
  ASSUME NEW o \in Singles
  PROVE  ValuesOf(o) \subseteq AnyVal /\ KeysOf(o) = ValuesOf(o)
BY OptsAre DEF ValuesOf, AnyVal, KeysOf

LEMMA DefaultTyped ==
  /\ Default \in [Opts -> InForce] /\ Default["DEV"] = {}
  /\ Default["RT"] = 0 /\ Default["GW"] = NoSpeed
  /\ \A o \in Singles : Default[o] \in ValuesOf(o)
BY OptsAre, SpeedsAssumption DEF Default, InForce, ValuesOf

LEMMA MeantTyped ==
  ASSUME NEW o \in Singles, NEW v \in ValuesOf(o)
  PROVE  Meant(o, v) \in InForce
BY OptsAre DEF Meant, InForce, ValuesOf

LEMMA PlainTyped ==
  ASSUME NEW o \in Singles, NEW v \in ValuesOf(o)
  PROVE  Plain(v) \in Parents /\ Plain(v).val = v /\ Plain(v).ref = NoRef /\ Plain(v).ttl = NoTtl
BY ValuesAre DEF Plain, Parents, Marks

-----------------------------------------------------------------------------
(* The file.                                                                  *)

(* Removing a section leaves the first device's.                              *)
LEMMA EraseOK ==
  ASSUME NEW f, FileOK(f), NEW o \in Opts, NEW key, o = "DEV" => key # "a"
  PROVE  FileOK(Erase(f, o, key))
<1> DEFINE g == Erase(f, o, key)
<1>1. g \in [Opts -> SUBSET Saved] /\ \A x \in Opts : g[x] \subseteq f[x]
  BY DEF FileOK, Erase
<1>2. \E r \in g["DEV"] : r.key = "a"
  BY OptsAre DEF FileOK, Erase, Sections, Singles
<1> QED
  BY <1>1, <1>2 DEF FileOK

(* So does saving one under another key, unless it was that one.              *)
LEMMA StoreOK ==
  ASSUME NEW f, FileOK(f), NEW o \in Opts, NEW old, NEW key \in KeysOf(o),
         o = "DEV" /\ old = "a" => key = "a"
  PROVE  FileOK(Store(f, o, old, key))
<1> DEFINE there == Sections(f, o, old)
           ttl == IF o = "DEV" /\ there # {} THEN (CHOOSE r \in there : TRUE).ttl ELSE NoTtl
           new == [key |-> key, ttl |-> ttl]
           g == Store(f, o, old, key)
<1>1. there \subseteq f[o] /\ f[o] \subseteq Saved
  BY DEF Sections, FileOK
<1>2. ttl \in Marks
  BY <1>1 DEF Saved, Marks
<1>3. key \in AnyVal \cup {Ref}
  BY ValuesAre DEF KeysOf, AnyVal, Singles
<1>4. new \in Saved
  BY <1>2, <1>3 DEF Saved
<1>5. g = [f EXCEPT ![o] = (f[o] \ there) \cup {new}]
  BY DEF Store
<1> HIDE DEF new, g
<1>6. g \in [Opts -> SUBSET Saved] /\ g[o] = (f[o] \ there) \cup {new}
      /\ \A x \in Opts \ {o} : g[x] = f[x]
  BY <1>1, <1>4, <1>5 DEF FileOK
<1>7. new.key = key
  BY DEF new
<1>8. \A x \in Opts : \A r \in g[x] : r.key \in KeysOf(x)
  BY <1>1, <1>6, <1>7 DEF FileOK
<1>9. \E r \in g["DEV"] : r.key = "a"
  BY <1>6, <1>7, OptsAre DEF FileOK, Sections, Singles
<1> QED
  BY <1>6, <1>8, <1>9 DEF FileOK, g

LEMMA StoreTtlOK ==
  ASSUME NEW f, FileOK(f), NEW key \in Devs \cup {Ref}, NEW ttl \in Marks
  PROVE  FileOK(StoreTtl(f, key, ttl))
<1> DEFINE new == [key |-> key, ttl |-> ttl]
           g == StoreTtl(f, key, ttl)
<1>1. new \in Saved /\ new.key = key
  BY DEF Saved, AnyVal
<1>2. "DEV" \in Opts /\ "DEV" \notin Singles
  BY OptsAre
<1>3. g = [f EXCEPT !["DEV"] = (f["DEV"] \ Sections(f, "DEV", key)) \cup {new}]
  BY DEF StoreTtl
<1> HIDE DEF new, g
<1>4. g \in [Opts -> SUBSET Saved] /\ g["DEV"] = (f["DEV"] \ Sections(f, "DEV", key)) \cup {new}
      /\ \A x \in Opts \ {"DEV"} : g[x] = f[x]
  BY <1>1, <1>2, <1>3 DEF FileOK
<1>5. \A x \in Opts : \A r \in g[x] : r.key \in KeysOf(x)
  BY <1>1, <1>4 DEF FileOK, KeysOf
<1>6. \E r \in g["DEV"] : r.key = "a"
  BY <1>1, <1>2, <1>4 DEF FileOK, Sections
<1> QED
  BY <1>4, <1>5, <1>6 DEF FileOK, g

-----------------------------------------------------------------------------
(* A single option.                                                           *)
LEMMA SinglePatchFields ==
  ASSUME NEW p, SinglePatch(p)
  PROVE  /\ p.opt \in Singles /\ p.opt \in Opts /\ p.opt # "DEV" /\ p.diff \in {"add", "del"}
         /\ p.val \in ValuesOf(p.opt) /\ p.ref = NoRef /\ p.ttl = Unsaid
         /\ p = Patch(p.opt, p.diff, p.val, NoRef, Unsaid)
<1>1. PICK o \in Singles, diff \in {"add", "del"} :
        \E v \in ValuesOf(o) : p = Patch(o, diff, v, NoRef, Unsaid)
  BY DEF SinglePatch
<1>2. PICK v \in ValuesOf(o) : p = Patch(o, diff, v, NoRef, Unsaid)
  BY <1>1
<1>3. p.opt = o /\ p.diff = diff /\ p.val = v /\ p.ref = NoRef /\ p.ttl = Unsaid
  BY <1>2 DEF Patch
<1> QED
  BY <1>2, <1>3, OptsAre

(* At most one parent of it is tracked.                                       *)
OneTracked(s, o) == s.track[o] = {} \/ \E v \in ValuesOf(o) : s.track[o] = {Plain(v)}

LEMMA OneIsTracked ==
  ASSUME NEW s, NEW o, SingleOK(s, o)
  PROVE  OneTracked(s, o)
BY DEF SingleOK, OneTracked

LEMMA SingleFound ==
  ASSUME NEW s, NEW p, SinglePatch(p)
  PROVE  ByVal(s, p) = s.track[p.opt] /\ ByRef(s, p) = {} /\ Tracked(s, p) = s.track[p.opt]
<1>1. ByVal(s, p) = s.track[p.opt] /\ ByRef(s, p) = {}
  BY SinglePatchFields DEF ByVal, ByRef
<1> QED
  BY <1>1 DEF Tracked

(* What stays when a parent of the option o is tracked or no longer.          *)
SameBut(t, s, o) ==
  /\ t \in States /\ FileOK(t.file)
  /\ t.fly = s.fly /\ t.use = s.use /\ t.primary = s.primary
  /\ \A x \in Opts \ {o} : t.track[x] = s.track[x]

(* A state with other parents of an option and another file.                 *)
With(s, o, D, f) == [s EXCEPT !.track[o] = D, !.file = f]

LEMMA WithFields ==
  ASSUME NEW s \in States, NEW o \in Opts, NEW D \in SUBSET Parents, NEW f, FileOK(f)
  PROVE  /\ With(s, o, D, f) \in States /\ With(s, o, D, f).file = f
         /\ With(s, o, D, f).fly = s.fly /\ With(s, o, D, f).use = s.use
         /\ With(s, o, D, f).primary = s.primary /\ With(s, o, D, f).track[o] = D
         /\ \A x \in Opts \ {o} : With(s, o, D, f).track[x] = s.track[x]
BY DEF States, With, FileOK

LEMMA WithSame ==
  ASSUME NEW s \in States, NEW o \in Opts, NEW D \in SUBSET Parents, NEW f, FileOK(f)
  PROVE  SameBut(With(s, o, D, f), s, o) /\ With(s, o, D, f).track[o] = D
BY WithFields DEF SameBut

(* The outcomes of an operation.                                              *)
LEMMA Outcomes ==
  ASSUME NEW s
  PROVE  /\ Ok(s).ok = TRUE /\ Ok(s).s = s
         /\ Failure(s).ok = FALSE /\ Failure(s).s = s
BY DEF Ok, Failure

LEMMA TrackParentSingle ==
  ASSUME NEW s \in States, FileOK(s.file), NEW save, NEW p, SinglePatch(p), OneTracked(s, p.opt),
         NEW t, t = TrackParent(s, save, p)
  PROVE  SameBut(t, s, p.opt) /\ t.track[p.opt] = {Plain(p.val)}
<1> DEFINE o == p.opt
           old == Tracked(s, p)
           new == [val |-> p.val, ref |-> p.ref,
                   ttl |-> IF old = {} THEN NoTtl ELSE (CHOOSE q \in old : TRUE).ttl]
           was == IF old = {} THEN Key(new) ELSE Key(CHOOSE q \in old : TRUE)
<1>1. /\ o \in Singles /\ o \in Opts /\ o # "DEV" /\ p.val \in ValuesOf(o) /\ p.ref = NoRef
      /\ old = s.track[o]
  BY SinglePatchFields, SingleFound
<1>2. new = Plain(p.val)
  <2>1. (IF old = {} THEN NoTtl ELSE (CHOOSE q \in old : TRUE).ttl) = NoTtl
    BY <1>1 DEF OneTracked, Plain
  <2> QED
    BY <1>1, <2>1 DEF Plain
<1>3. Plain(p.val) \in Parents /\ Key(Plain(p.val)) = p.val /\ p.val \in KeysOf(o)
  BY <1>1, PlainTyped, ValuesAre DEF Key
<1>4. CASE \E q \in old : Same(q, p)
  <2>1. t = s
    BY <1>4 DEF TrackParent
  <2>2. old = {Plain(p.val)}
    BY <1>1, <1>4, PlainTyped DEF OneTracked, Same
  <2> QED
    BY <1>1, <2>1, <2>2 DEF SameBut
<1>5. CASE ~ \E q \in old : Same(q, p)
  <2>1. t = [s EXCEPT !.track[o] = (s.track[o] \ old) \cup {Plain(p.val)},
                      !.file = IF save THEN Store(s.file, o, was, p.val) ELSE s.file]
    BY <1>2, <1>3, <1>5 DEF TrackParent
  <2> HIDE DEF old, new, was, o
  <2>2. FileOK(Store(s.file, o, was, p.val))
    BY <1>1, <1>3, StoreOK
  <2>3. Store(s.file, o, was, p.val) \in [Opts -> SUBSET Saved]
    BY <2>2 DEF FileOK
  <2> DEFINE D == (s.track[o] \ old) \cup {Plain(p.val)}
             f == IF save THEN Store(s.file, o, was, p.val) ELSE s.file
  <2>4. D \in SUBSET Parents /\ f \in [Opts -> SUBSET Saved] /\ FileOK(f)
    BY <1>1, <1>3, <2>2, <2>3 DEF States
  <2>5. D = {Plain(p.val)}
    BY <1>1
  <2>6. t = With(s, o, D, f)
    BY <2>1 DEF With
  <2> HIDE DEF D, f
  <2>7. SameBut(t, s, o) /\ t.track[o] = D
    BY <1>1, <2>4, <2>6, WithSame
  <2> QED
    BY <2>5, <2>7 DEF o
<1> QED
  BY <1>4, <1>5

LEMMA TrackSingle ==
  ASSUME NEW s \in States, FileOK(s.file), NEW save \in BOOLEAN, NEW p, SinglePatch(p),
         OneTracked(s, p.opt), NEW r, r = Track("apply", s, save, p)
  PROVE  /\ r.ok \in BOOLEAN /\ SameBut(r.s, s, p.opt)
         /\ r.s.track[p.opt] = IF p.diff = "del" THEN {} ELSE {Plain(p.val)}
<1> DEFINE o == p.opt
           old == Tracked(s, p)
           t == TrackParent(s, save, p)
<1>1. /\ o \in Singles /\ o \in Opts /\ o # "DEV" /\ p.ttl = Unsaid /\ p.diff \in {"add", "del"}
      /\ old = s.track[o]
  BY SinglePatchFields, SingleFound
<1>2. CASE p.diff = "del" /\ old = {}
  <2>1. r = [ok |-> ~save, s |-> s]
    BY <1>2 DEF Track
  <2>2. r.s = s /\ r.ok = ~save
    BY <2>1
  <2>3. r.ok \in BOOLEAN
    BY <2>2, Zenon
  <2> QED
    BY <1>1, <1>2, <2>2, <2>3 DEF SameBut
<1>3. CASE p.diff = "del" /\ old # {}
  <2> DEFINE key == Key(CHOOSE q \in old : TRUE)
             u == [s EXCEPT !.track[o] = s.track[o] \ old,
                            !.file = IF save THEN Erase(s.file, o, key) ELSE s.file]
  <2>1. r = Ok(u)
    BY <1>3 DEF Track
  <2> HIDE DEF old, key, o
  <2>2. FileOK(Erase(s.file, o, key))
    BY <1>1, EraseOK
  <2>3. Erase(s.file, o, key) \in [Opts -> SUBSET Saved]
    BY <2>2 DEF FileOK
  <2> DEFINE D == s.track[o] \ old
             f == IF save THEN Erase(s.file, o, key) ELSE s.file
  <2>4. D \in SUBSET Parents /\ f \in [Opts -> SUBSET Saved] /\ FileOK(f) /\ D = {}
    BY <1>1, <2>2, <2>3 DEF States
  <2>5. u = With(s, o, D, f)
    BY DEF With
  <2> HIDE DEF D, f, u
  <2>6. SameBut(u, s, o) /\ u.track[o] = D
    BY <1>1, <2>4, <2>5, WithSame
  <2>7. r.ok = TRUE /\ r.s = u
    BY <2>1, Outcomes
  <2> QED
    BY <1>3, <2>4, <2>6, <2>7 DEF o
<1>4. CASE p.diff = "add"
  <2>1. SameBut(t, s, o) /\ t.track[o] = {Plain(p.val)}
    BY TrackParentSingle
  <2>2. TrackTtl(t, save, p) = t
    BY <1>1 DEF TrackTtl
  <2>3. r = Failure(t) \/ r = Ok(t)
    <3> HIDE DEF t, old
    <3> QED
      BY <1>4, <2>2 DEF Track, t, old
  <2>4. r.ok \in BOOLEAN /\ r.s = t
    BY <2>3, Outcomes
  <2> HIDE DEF t
  <2> QED
    BY <1>4, <2>1, <2>4
<1> QED
  BY <1>1, <1>2, <1>3, <1>4

(* Another value of an option.                                                *)
Using(s, o, v) == [s EXCEPT !.use[o] = v]

LEMMA UsingFields ==
  ASSUME NEW s \in States, NEW o \in Opts, NEW v \in InForce
  PROVE  /\ Using(s, o, v) \in States /\ Using(s, o, v).file = s.file
         /\ Using(s, o, v).fly = s.fly /\ Using(s, o, v).track = s.track
         /\ Using(s, o, v).primary = s.primary /\ Using(s, o, v).use[o] = v
         /\ \A x \in Opts \ {o} : Using(s, o, v).use[x] = s.use[x]
BY DEF States, Using

(* What stays when the single option o changes, tracked and in force.         *)
OnlyOption(t, s, o) ==
  /\ t \in States /\ FileOK(t.file) /\ t.fly = s.fly /\ t.primary = s.primary
  /\ \A x \in Opts \ {o} : t.track[x] = s.track[x] /\ t.use[x] = s.use[x]

(* The other class is reset.                                                  *)
LEMMA DroppedIs ==
  ASSUME NEW s \in States, FileOK(s.file), NEW save, NEW o \in Singles, SingleOK(s, o),
         NEW t, t = Dropped(s, save, o)
  PROVE  OnlyOption(t, s, o) /\ t.track[o] = {} /\ t.use[o] = Default[o]
<1>1. o \in Opts /\ o # "DEV" /\ Default[o] \in InForce
  BY OptsAre, DefaultTyped
<1>2. CASE s.track[o] = {}
  <2>1. t = s
    BY <1>2 DEF Dropped
  <2> QED
    BY <1>2, <2>1 DEF SingleOK, OnlyOption
<1>3. CASE s.track[o] # {}
  <2> DEFINE f == IF save THEN Erase(s.file, o, o) ELSE s.file
             u == Using(s, o, Default[o])
             w == With(u, o, {}, f)
  <2>1. t = [s EXCEPT !.use[o] = Default[o], !.track[o] = {}, !.file = f]
    BY <1>3 DEF Dropped
  <2>2. FileOK(f)
    BY <1>1, EraseOK
  <2> HIDE DEF f
  <2>3. t = w
    BY <2>1 DEF With, Using
  <2>4. /\ u \in States /\ u.fly = s.fly /\ u.track = s.track /\ u.primary = s.primary
        /\ u.use[o] = Default[o] /\ \A x \in Opts \ {o} : u.use[x] = s.use[x]
    BY <1>1, UsingFields
  <2> HIDE DEF u
  <2>5. /\ w \in States /\ w.file = f /\ w.fly = u.fly /\ w.use = u.use
        /\ w.primary = u.primary /\ w.track[o] = {}
        /\ \A x \in Opts \ {o} : w.track[x] = u.track[x]
    BY <1>1, <2>2, <2>4, WithFields
  <2> HIDE DEF w
  <2> QED
    BY <2>2, <2>3, <2>4, <2>5 DEF OnlyOption
<1> QED
  BY <1>2, <1>3

(* The value a patch gives a single option.                                   *)
NewValue(p) == IF p.diff = "del" THEN Default[p.opt] ELSE Meant(p.opt, p.val)

LEMMA NewValueTyped ==
  ASSUME NEW p, SinglePatch(p)
  PROVE  NewValue(p) \in InForce
BY SinglePatchFields, DefaultTyped, MeantTyped DEF NewValue

(* What stays when a patch of a single option is installed: the devices and   *)
(* the others, except that the other class may be reset.                      *)
Installs(t, s, o) ==
  /\ t \in States /\ FileOK(t.file) /\ t.fly = s.fly /\ t.primary = s.primary
  /\ t.track["DEV"] = s.track["DEV"] /\ t.use["DEV"] = s.use["DEV"]
  /\ \A x \in Singles \ {o} : SingleOK(t, x)
  /\ t.track[o] = s.track[o]

LEMMA InstalledSingle ==
  ASSUME NEW s, Good(s), NEW save, NEW p, SinglePatch(p), NEW t, t = Installed(s, save, p)
  PROVE  Installs(t, s, p.opt) /\ t.use[p.opt] = NewValue(p) /\ OneClass(t)
<1> DEFINE o == p.opt
           v == NewValue(p)
           u == Using(s, o, v)
<1>1. /\ o \in Singles /\ o \in Opts /\ o # "DEV" /\ v \in InForce
      /\ s \in States /\ FileOK(s.file) /\ "DEV" \in Opts
  BY SinglePatchFields, NewValueTyped, OptsAre DEF Good
<1>2. t = CASE o = "RT" /\ v # 0 -> Dropped(u, save, "GW")
            [] o = "GW" /\ v # NoSpeed -> Dropped(u, save, "RT")
            [] OTHER -> u
  BY <1>1 DEF Installed, NewValue, Meant, Using
<1>3. /\ u \in States /\ FileOK(u.file) /\ u.fly = s.fly /\ u.track = s.track
      /\ u.primary = s.primary /\ u.use[o] = v
      /\ \A x \in Opts \ {o} : u.use[x] = s.use[x]
  BY <1>1, UsingFields
<1> HIDE DEF u, v, o
<1>4. \A x \in Singles \ {o} : SingleOK(u, x)
  BY <1>3, OptsAre DEF Good, SinglesOK, SingleOK
<1>5. ASSUME NEW x \in Singles \ {o}, NEW w, w = Dropped(u, save, x)
      PROVE  Installs(w, s, o) /\ w.use[o] = v /\ w.use[x] = Default[x]
  <2>1. OnlyOption(w, u, x) /\ w.track[x] = {} /\ w.use[x] = Default[x]
    BY <1>3, <1>4, <1>5, DroppedIs
  <2>2. x # "DEV" /\ x \in Opts /\ \A y \in Singles : y \in Opts
    BY OptsAre
  <2>3. \A y \in Singles \ {o} : SingleOK(w, y)
    BY <1>4, <2>1, <2>2 DEF OnlyOption, SingleOK
  <2> QED
    BY <1>1, <1>3, <2>1, <2>2, <2>3 DEF OnlyOption, Installs
<1>6. CASE o = "RT" /\ v # 0
  <2>1. "GW" \in Singles \ {o} /\ t = Dropped(u, save, "GW")
    BY <1>2, <1>6, OptsAre
  <2> QED
    BY <1>5, <2>1, DefaultTyped DEF OneClass, o, v
<1>7. CASE o = "GW" /\ v # NoSpeed
  <2>1. "RT" \in Singles \ {o} /\ t = Dropped(u, save, "RT")
    BY <1>2, <1>7, OptsAre
  <2> QED
    BY <1>5, <2>1, DefaultTyped DEF OneClass, o, v
<1>8. CASE ~(o = "RT" /\ v # 0) /\ ~(o = "GW" /\ v # NoSpeed)
  <2>1. t = u
    BY <1>2, <1>8
  <2>2. OneClass(u)
    BY <1>1, <1>3, <1>8, OptsAre DEF Good, OneClass
  <2> QED
    BY <1>1, <1>3, <1>4, <2>1, <2>2 DEF Installs, o, v
<1> QED
  BY <1>6, <1>7, <1>8

(* call_opt_apply() of what is left of a patch.                               *)
LEMMA Judgement ==
  ASSUME NEW s, NEW save, NEW p, NEW c, c = Cleaned(s, p)
  PROVE  /\ c.diff = "nop" /\ c.ttl = Unsaid => Apply("apply", s, save, p) = Ok(s)
         /\ ~(c.diff = "nop" /\ c.ttl = Unsaid) /\ Refused(s, c) =>
               Apply("apply", s, save, p) = Failure(s)
         /\ ~(c.diff = "nop" /\ c.ttl = Unsaid) /\ ~Refused(s, c) =>
               Apply("apply", s, save, p) = Ok(Installed(s, save, c))
<1>1. CASE c.diff = "nop" /\ c.ttl = Unsaid
  BY <1>1 DEF Apply
<1>2. CASE ~(c.diff = "nop" /\ c.ttl = Unsaid) /\ Refused(s, c)
  BY <1>2 DEF Apply
<1>3. CASE ~(c.diff = "nop" /\ c.ttl = Unsaid) /\ ~Refused(s, c)
  BY <1>3 DEF Apply
<1> QED
  BY <1>1, <1>2, <1>3

(* What call_opt_apply() makes of a single option; one that is tracked as the *)
(* patch wants it is in force already.                                        *)
LEMMA ApplySingle ==
  ASSUME NEW s, Good(s), NEW save, NEW p, SinglePatch(p), NEW a, a = Apply("apply", s, save, p)
  PROVE  \/ a.ok = FALSE /\ a.s = s
         \/ /\ a.ok = TRUE /\ Installs(a.s, s, p.opt)
            /\ a.s.use[p.opt] = NewValue(p) /\ OneClass(a.s)
<1> DEFINE o == p.opt
           c == Cleaned(s, p)
           noop == IF p.diff = "del" THEN s.track[o] = {}
                   ELSE \E q \in s.track[o] : q.val = p.val
<1>1. /\ o \in Singles /\ o \in Opts /\ o # "DEV" /\ p.diff \in {"add", "del"}
      /\ p.val \in ValuesOf(o) /\ p.ttl = Unsaid /\ p = Patch(o, p.diff, p.val, NoRef, Unsaid)
      /\ ByVal(s, p) = s.track[o]
  BY SinglePatchFields, SingleFound
<1>2. c = IF noop THEN [p EXCEPT !.diff = "nop"] ELSE p
  <2>1. ((p.diff = "del") = (s.track[o] = {}) /\
         (o \in Singles => p.diff = "del" \/ \E q \in s.track[o] : q.val = p.val)) <=> noop
    BY <1>1
  <2>2. c = [p EXCEPT !.diff = IF noop THEN "nop" ELSE p.diff, !.ttl = Unsaid]
    <3> HIDE DEF noop
    <3> QED
      BY <1>1, <2>1 DEF Cleaned
  <2> HIDE DEF noop, c
  <2> QED
    BY <1>1, <2>2 DEF Patch
<1>3. CASE noop
  <2>1. c.diff = "nop" /\ c.ttl = Unsaid
    BY <1>1, <1>2, <1>3 DEF Patch
  <2> HIDE DEF noop
  <2>2. a = Ok(s)
    BY <2>1, Judgement
  <2>3. a.ok = TRUE /\ a.s = s
    BY <2>2, Outcomes
  <2>4. s.use[o] = NewValue(p)
    <3>1. SingleOK(s, o) /\ noop
      BY <1>1, <1>3 DEF Good, SinglesOK
    <3> QED
      BY <1>1, <3>1, PlainTyped DEF NewValue, SingleOK, noop
  <2>5. Installs(s, s, o) /\ OneClass(s)
    BY <1>1 DEF Good, SinglesOK, Installs
  <2> QED
    BY <2>3, <2>4, <2>5
<1>4. CASE ~noop
  <2>1. c = p /\ p.diff # "nop"
    BY <1>1, <1>2, <1>4
  <2> HIDE DEF noop
  <2>2. a = IF Refused(s, p) THEN Failure(s) ELSE Ok(Installed(s, save, p))
    BY <2>1, Judgement
  <2>3. CASE Refused(s, p)
    BY <2>2, <2>3, Outcomes
  <2>4. CASE ~Refused(s, p)
    <3>1. a.ok = TRUE /\ a.s = Installed(s, save, p)
      BY <2>2, <2>4, Outcomes
    <3> QED
      BY <3>1, InstalledSingle
  <2> QED
    BY <2>3, <2>4
<1> QED
  BY <1>3, <1>4

(* What an operation leaves behind: a good state, and no device is lost       *)
(* altogether.                                                                *)
Succeeded(a) == a.ok = TRUE
Keeps(r, s) ==
  /\ r.ok \in BOOLEAN /\ Good(r.s) /\ r.s.fly = s.fly
  /\ Equipped(s) => Equipped(r.s)

(* Whatever becomes of a single option, the state stays good.                 *)
LEMMA SingleApplied ==
  ASSUME NEW s, Good(s), NEW save \in BOOLEAN, NEW p, SinglePatch(p),
         NEW a, a = Apply("apply", s, save, p), Succeeded(a),
         NEW r, r = Track("apply", a.s, save, p)
  PROVE  Keeps(r, s)
<1> DEFINE o == p.opt
           t == a.s
<1>1. /\ o \in Singles /\ o \in Opts /\ o # "DEV" /\ p.val \in ValuesOf(o) /\ "DEV" \in Opts
      /\ \A x \in Singles : x \in Opts
  BY SinglePatchFields, OptsAre
<1>2. Installs(t, s, o) /\ t.use[o] = NewValue(p) /\ OneClass(t)
  BY ApplySingle DEF Succeeded
<1>3. OneTracked(t, o)
  BY <1>1, <1>2, OneIsTracked DEF Good, SinglesOK, Installs, OneTracked
<1>4. t \in States /\ FileOK(t.file)
  BY <1>2 DEF Installs
<1>5. /\ r.ok \in BOOLEAN /\ SameBut(r.s, t, o)
      /\ r.s.track[o] = IF p.diff = "del" THEN {} ELSE {Plain(p.val)}
  BY <1>3, <1>4, TrackSingle
<1> HIDE DEF t, o
<1>6. /\ r.s \in States /\ FileOK(r.s.file) /\ r.s.fly = s.fly
      /\ r.s.use = t.use /\ r.s.primary = s.primary
      /\ \A x \in Opts \ {o} : r.s.track[x] = t.track[x]
  BY <1>2, <1>5 DEF Installs, SameBut
<1>7. SinglesOK(r.s)
  <2>1. \A x \in Singles \ {o} : SingleOK(r.s, x)
    BY <1>1, <1>2, <1>6 DEF Installs, SingleOK
  <2>2. SingleOK(r.s, o)
    BY <1>1, <1>2, <1>5, <1>6 DEF SingleOK, NewValue, o
  <2> QED
    BY <2>1, <2>2 DEF SinglesOK
<1>8. OneClass(r.s)
  BY <1>2, <1>6 DEF OneClass
<1>9. DevsOK(r.s) /\ r.s.track["DEV"] = s.track["DEV"]
  BY <1>1, <1>2, <1>6 DEF Good, DevsOK, First, Installs
<1> QED
  BY <1>5, <1>6, <1>7, <1>8, <1>9 DEF Good, Keeps, Equipped

-----------------------------------------------------------------------------
(* The devices.                                                               *)
LEMMA AddPatchFields ==
  ASSUME NEW p, AddPatch(p)
  PROVE  /\ p.opt = "DEV" /\ p.diff = "add" /\ p.val \in Devs /\ p.ref \in {NoRef, Ref}
         /\ p.ttl \in Ttls \cup {Unsaid, Reset} /\ (p.ref = Ref => p.val # "a" /\ p.val = net)
         /\ p = Patch("DEV", "add", p.val, p.ref, p.ttl)
BY DEF AddPatch, Patch

LEMMA DevFound ==
  ASSUME NEW s, NEW p, p.opt = "DEV"
  PROVE  /\ ByVal(s, p) = {q \in s.track["DEV"] : q.val = p.val}
         /\ ByRef(s, p) = {q \in s.track["DEV"] : p.ref # NoRef /\ q.ref = p.ref}
BY OptsAre DEF ByVal, ByRef

(* What stays when the devices change.                                        *)
DevOnly(t, s) ==
  /\ t \in States /\ FileOK(t.file) /\ t.fly = s.fly
  /\ \A x \in Opts \ {"DEV"} : t.track[x] = s.track[x] /\ t.use[x] = s.use[x]

LEMMA DevGood ==
  ASSUME NEW s, Good(s), NEW t, DevOnly(t, s), DevsOK(t)
  PROVE  Good(t)
<1>1. SinglesOK(t) /\ OneClass(t)
  BY OptsAre DEF Good, SinglesOK, SingleOK, OneClass, DevOnly
<1> QED
  BY <1>1 DEF Good, DevOnly

LEMMA GoodDevs ==
  ASSUME NEW s, Good(s)
  PROVE  /\ s \in States /\ FileOK(s.file) /\ s.track["DEV"] \subseteq Parents
         /\ s.use["DEV"] = InUse(s.track["DEV"]) /\ s.use["DEV"] \subseteq Running
         /\ Apart(s.track["DEV"]) /\ ByName(s.track["DEV"]) /\ First(s)
<1>1. s \in States /\ "DEV" \in Opts /\ s.track["DEV"] \subseteq Parents
  BY OptsAre DEF Good, States
<1>2. InUse(s.track["DEV"]) \subseteq Running
  BY <1>1 DEF Good, DevsOK, ByName, InUse, Running, Parents
<1> QED
  BY <1>1, <1>2 DEF Good, DevsOK

(* A device that is not the first one can be dropped.                         *)
LEMMA DroppedDevGood ==
  ASSUME NEW s, Good(s), NEW save, NEW q \in s.track["DEV"], q.val # "a",
         NEW t, t = DroppedDev(s, save, q)
  PROVE  Good(t) /\ t.track["DEV"] = s.track["DEV"] \ {q} /\ t.fly = s.fly /\ Equipped(t)
<1> DEFINE D == s.track["DEV"]
           E == D \ {q}
           U == {d \in s.use["DEV"] : d.dev # q.val}
           f == IF save THEN Erase(s.file, "DEV", Key(q)) ELSE s.file
           u == Using(s, "DEV", U)
           w == With(u, "DEV", E, f)
<1>1. /\ s \in States /\ FileOK(s.file) /\ D \subseteq Parents /\ s.use["DEV"] = InUse(D)
      /\ s.use["DEV"] \subseteq Running /\ Apart(D) /\ ByName(D) /\ First(s) /\ "DEV" \in Opts
  BY GoodDevs, OptsAre
<1>2. q.val \in Devs /\ q.ref \in {NoRef, Ref} /\ Key(q) # "a"
  BY <1>1 DEF ByName, Parents, Key, Ref, NoRef
<1>3. ~Refused(s, Patch("DEV", "del", q.val, NoRef, Unsaid))
  <2>1. s.primary = "a"
    BY DEF Good, DevsOK, First
  <2>2. \E d \in s.use["DEV"] : d.dev = q.val
    <3>1. [dev |-> q.val, ttl |-> q.ttl] \in s.use["DEV"]
      BY <1>1 DEF InUse
    <3> QED
      BY <3>1
  <2> QED
    BY <2>1, <2>2 DEF Refused, Patch
<1>4. t = [s EXCEPT !.use["DEV"] = U, !.track["DEV"] = E, !.file = f]
  BY <1>3 DEF DroppedDev
<1>5. FileOK(f)
  BY <1>1, <1>2, EraseOK
<1>6. U = InUse(E)
  BY <1>1 DEF InUse, Apart
<1>7. U \in InForce /\ E \in SUBSET Parents
  BY <1>1 DEF InForce
<1>8. Apart(E) /\ ByName(E) /\ \E x \in E : x.val = "a"
  BY <1>1 DEF Apart, ByName, First
<1> HIDE DEF f, U, E
<1>9. t = w
  BY <1>4 DEF With, Using
<1>10. /\ u \in States /\ u.fly = s.fly /\ u.track = s.track /\ u.primary = s.primary
       /\ u.use["DEV"] = U /\ \A x \in Opts \ {"DEV"} : u.use[x] = s.use[x]
  BY <1>1, <1>7, UsingFields
<1> HIDE DEF u
<1>11. /\ w \in States /\ w.file = f /\ w.fly = u.fly /\ w.use = u.use
       /\ w.primary = u.primary /\ w.track["DEV"] = E
       /\ \A x \in Opts \ {"DEV"} : w.track[x] = u.track[x]
  BY <1>1, <1>5, <1>7, <1>10, WithFields
<1> HIDE DEF w
<1>12. DevOnly(t, s)
  BY <1>5, <1>9, <1>10, <1>11 DEF DevOnly
<1>13. DevsOK(t)
  <2>1. First(t)
    <3>1. s.primary = "a"
      BY <1>1 DEF First
    <3> QED
      BY <1>8, <1>9, <1>10, <1>11, <3>1 DEF First
  <2> QED
    BY <1>6, <1>8, <1>9, <1>10, <1>11, <2>1 DEF DevsOK
<1>14. Good(t)
  BY <1>12, <1>13, DevGood
<1> QED
  BY <1>8, <1>9, <1>11, <1>12, <1>14 DEF DevOnly, Equipped, E

(* After the device a reference stood for has been removed, whatever is       *)
(* tracked for the patch is so for its value.                                 *)
ByItsValue(s, p) == ByRef(s, p) \subseteq ByVal(s, p)

LEMMA RederivedGood ==
  ASSUME NEW s, Good(s), NEW save, NEW p, AddPatch(p), ~Distinct(s, p),
         NEW t, t = Rederived("apply", s, save, p)
  PROVE  /\ Good(t) /\ t.fly = s.fly /\ ByItsValue(t, p)
         /\ Equipped(s) => Equipped(t)
         /\ ~Equipped(s) => t = s
<1> DEFINE D == s.track["DEV"]
           old == {q \in Tracked(s, p) : p.opt = "DEV" /\ p.diff = "add" /\ q.val # p.val
                                         /\ (p.ref # NoRef \/ q.ref # NoRef)}
<1>1. /\ p.opt = "DEV" /\ p.diff = "add"
      /\ ByVal(s, p) = {q \in D : q.val = p.val}
      /\ ByRef(s, p) = {q \in D : p.ref # NoRef /\ q.ref = p.ref}
  BY AddPatchFields, DevFound
<1>2. t = IF old = {} THEN s ELSE DroppedDev(s, save, CHOOSE q \in old : TRUE)
  BY DEF Rederived
<1>3. CASE old = {}
  <2>1. ByItsValue(s, p)
    <3>1. CASE ByVal(s, p) = {}
      <4>1. Tracked(s, p) = ByRef(s, p)
        BY <3>1 DEF Tracked
      <4>2. ASSUME NEW q \in ByRef(s, p) PROVE FALSE
        <5>1. q.val # p.val /\ p.ref # NoRef
          BY <1>1, <3>1, <4>2
        <5>2. q \in old
          BY <1>1, <4>1, <5>1
        <5> QED
          BY <1>3, <5>2
      <4> QED
        BY <4>2 DEF ByItsValue
    <3>2. CASE ByVal(s, p) # {}
      BY <1>1, <3>2 DEF Distinct, ByItsValue
    <3> QED
      BY <3>1, <3>2
  <2> QED
    BY <1>2, <1>3, <2>1
<1>4. CASE old # {}
  <2> DEFINE q == CHOOSE x \in old : TRUE
  <2>1. q \in Tracked(s, p) /\ q.val # p.val
    BY <1>4
  <2>2. q \in ByRef(s, p)
    BY <1>1, <2>1 DEF Tracked
  <2>3. q \in D /\ p.ref # NoRef /\ q.ref = p.ref
    BY <1>1, <2>2
  <2>4. q.val # "a" /\ Apart(D)
    BY <2>3, GoodDevs DEF ByName
  <2>5. t = DroppedDev(s, save, q)
    BY <1>2, <1>4
  <2> HIDE DEF q, old
  <2>6. Good(t) /\ t.track["DEV"] = D \ {q} /\ t.fly = s.fly /\ Equipped(t)
    BY <2>3, <2>4, <2>5, DroppedDevGood
  <2>7. ByRef(t, p) = {}
    BY <1>1, <2>3, <2>4, <2>6, DevFound DEF Apart
  <2> QED
    BY <2>3, <2>6, <2>7 DEF ByItsValue, Equipped
<1> QED
  BY <1>3, <1>4

(* The parents and the devices of one value.                                  *)
Valued(D, v) == {q \in D : q.val = v}
Named(U, v) == {d \in U : d.dev = v}

(* Set as tracked: the mark of a device after a patch.                        *)
NewMark(old, ttl) ==
  IF ttl \in Ttls THEN ttl
  ELSE IF ttl = Unsaid /\ old # {} THEN (CHOOSE q \in old : TRUE).ttl ELSE NoTtl
Renewed(s, p) == [val |-> p.val, ref |-> p.ref, ttl |-> NewMark(ByVal(s, p), p.ttl)]
Renewal(s, p) == (s.track["DEV"] \ ByVal(s, p)) \cup {Renewed(s, p)}

(* Other devices in use and another first one.                                *)
Equip(s, U, pr) == [s EXCEPT !.use["DEV"] = U, !.primary = pr]

LEMMA EquipFields ==
  ASSUME NEW s \in States, NEW U \in InForce, NEW pr \in Devs \cup {NoDev}
  PROVE  /\ Equip(s, U, pr) \in States /\ Equip(s, U, pr).file = s.file
         /\ Equip(s, U, pr).track = s.track /\ Equip(s, U, pr).fly = s.fly
         /\ Equip(s, U, pr).use["DEV"] = U /\ Equip(s, U, pr).primary = pr
         /\ \A x \in Opts \ {"DEV"} : Equip(s, U, pr).use[x] = s.use[x]
BY OptsAre DEF States, Equip

(* opt_dev() for a device to be added.                                        *)
LEMMA SetDevIs ==
  ASSUME NEW s, Good(s), NEW c, c.opt = "DEV", c.diff # "del", c.val \in Devs,
         NEW m \in Marks,
         NEW old, old = Named(s.use["DEV"], c.val),
         m = NewMark(old, c.ttl),
         NEW t, t = SetDev(s, c)
  PROVE  /\ DevOnly(t, s) /\ t.file = s.file /\ t.track = s.track
         /\ t.use["DEV"] = (s.use["DEV"] \ old) \cup {[dev |-> c.val, ttl |-> m]}
         /\ t.primary = IF s.use["DEV"] = {} THEN c.val ELSE s.primary
<1> DEFINE U == (s.use["DEV"] \ old) \cup {[dev |-> c.val, ttl |-> m]}
           pr == IF s.use["DEV"] = {} THEN c.val ELSE s.primary
<1>1. s \in States /\ s.use["DEV"] \subseteq Running /\ "DEV" \in Opts /\ FileOK(s.file)
  BY GoodDevs, OptsAre
<1>2. t = Equip(s, U, pr)
  <2>1. (CASE c.ttl \in Ttls -> c.ttl
           [] c.ttl = Unsaid /\ old # {} -> (CHOOSE d \in old : TRUE).ttl
           [] OTHER -> NoTtl) = m
    BY DEF Ttls, Unsaid, NewMark
  <2> QED
    BY <2>1 DEF SetDev, Equip, Named
<1>3. U \in InForce
  <2>1. [dev |-> c.val, ttl |-> m] \in Running
    BY DEF Running
  <2> QED
    BY <1>1, <2>1 DEF InForce
<1>4. pr \in Devs \cup {NoDev}
  BY <1>1 DEF States
<1> HIDE DEF U, pr
<1>5. /\ t \in States /\ t.file = s.file /\ t.track = s.track /\ t.fly = s.fly
      /\ t.use["DEV"] = U /\ t.primary = pr
      /\ \A x \in Opts \ {"DEV"} : t.use[x] = s.use[x]
  BY <1>1, <1>2, <1>3, <1>4, EquipFields
<1> QED
  BY <1>1, <1>5 DEF DevOnly, U, pr

(* The devices of one value, tracked and in use.                              *)
LEMMA DevOfValue ==
  ASSUME NEW s, Good(s), NEW v
  PROVE  \/ Valued(s.track["DEV"], v) = {} /\ Named(s.use["DEV"], v) = {}
         \/ \E q \in s.track["DEV"] :
              /\ Valued(s.track["DEV"], v) = {q} /\ q.val = v /\ q.ttl \in Marks
              /\ Named(s.use["DEV"], v) = {[dev |-> v, ttl |-> q.ttl]}
<1> DEFINE D == s.track["DEV"]
           B == Valued(D, v)
           U == Named(s.use["DEV"], v)
<1>1. D \subseteq Parents /\ s.use["DEV"] = InUse(D) /\ Apart(D)
  BY GoodDevs
<1>2. CASE B = {}
  <2>1. U = {}
    BY <1>1, <1>2 DEF InUse, Valued, Named
  <2> QED
    BY <1>2, <2>1
<1>3. CASE B # {}
  <2>1. PICK q \in D : q.val = v
    BY <1>3 DEF Valued
  <2>2. B = {q}
    BY <1>1, <2>1 DEF Apart, Valued
  <2>3. q.ttl \in Marks
    BY <1>1 DEF Parents
  <2>4. [dev |-> v, ttl |-> q.ttl] \in U
    BY <1>1, <2>1 DEF InUse, Named
  <2>5. ASSUME NEW d \in U PROVE d = [dev |-> v, ttl |-> q.ttl]
    <3>1. PICK x \in D : d = [dev |-> x.val, ttl |-> x.ttl]
      BY <1>1 DEF InUse, Named
    <3>2. x.val = v
      BY <3>1 DEF Named
    <3> QED
      BY <2>2, <3>1, <3>2 DEF Valued
  <2>6. U = {[dev |-> v, ttl |-> q.ttl]}
    BY <2>4, <2>5
  <2> QED
    BY <2>1, <2>2, <2>3, <2>6
<1> QED
  BY <1>2, <1>3

LEMMA MarkTyped ==
  ASSUME NEW s, Good(s), NEW p, AddPatch(p)
  PROVE  NewMark(ByVal(s, p), p.ttl) \in Marks
<1>1. ByVal(s, p) \subseteq Parents
  BY GoodDevs, AddPatchFields, DevFound
<1> QED
  BY <1>1 DEF NewMark, Marks, Parents

LEMMA RenewalInUse ==
  ASSUME NEW s, Good(s), NEW p, AddPatch(p)
  PROVE  InUse(Renewal(s, p)) =
           (s.use["DEV"] \ Named(s.use["DEV"], p.val))
           \cup {[dev |-> p.val, ttl |-> NewMark(ByVal(s, p), p.ttl)]}
<1> DEFINE D == s.track["DEV"]
           m == NewMark(ByVal(s, p), p.ttl)
<1>1. s.use["DEV"] = InUse(D) /\ ByVal(s, p) = {q \in D : q.val = p.val}
  BY GoodDevs, AddPatchFields, DevFound
<1>2. InUse(D \ ByVal(s, p)) = InUse(D) \ {d \in InUse(D) : d.dev = p.val}
  BY <1>1 DEF InUse
<1>3. Renewed(s, p).val = p.val /\ Renewed(s, p).ttl = m
  BY DEF Renewed
<1> HIDE DEF m
<1>4. InUse(Renewal(s, p)) = InUse(D \ ByVal(s, p)) \cup {[dev |-> p.val, ttl |-> m]}
  BY <1>3 DEF InUse, Renewal
<1> QED
  BY <1>1, <1>2, <1>4 DEF m, Named

(* What call_opt_apply() makes of a device to be added.                       *)
SameTracked(t, s) == t.track = s.track

LEMMA ApplyAdd ==
  ASSUME NEW s, Good(s), NEW save, NEW p, AddPatch(p), NEW a, a = Apply("apply", s, save, p)
  PROVE  /\ a.ok = TRUE /\ DevOnly(a.s, s) /\ SameTracked(a.s, s)
         /\ a.s.use["DEV"] = InUse(Renewal(s, p))
         /\ a.s.primary = IF Equipped(s) THEN s.primary ELSE p.val
<1> DEFINE D == s.track["DEV"]
           B == ByVal(s, p)
           O == Named(s.use["DEV"], p.val)
           m == NewMark(B, p.ttl)
           new == [dev |-> p.val, ttl |-> m]
           c == Cleaned(s, p)
           ttls == {q.ttl : q \in B} \ {NoTtl}
           said == ~((p.ttl = Reset /\ ttls = {}) \/ p.ttl \in ttls)
<1>1. /\ p.opt = "DEV" /\ p.diff = "add" /\ p.val \in Devs
      /\ p.ttl \in Ttls \cup {Unsaid, Reset} /\ p = Patch("DEV", "add", p.val, p.ref, p.ttl)
      /\ B = Valued(D, p.val) /\ "DEV" \notin Singles
  BY AddPatchFields, DevFound, OptsAre DEF Valued
<1>2. /\ s \in States /\ D \subseteq Parents /\ s.use["DEV"] = InUse(D) /\ FileOK(s.file)
      /\ m \in Marks
  BY GoodDevs, MarkTyped
<1>3. InUse(Renewal(s, p)) = (s.use["DEV"] \ O) \cup {new}
  BY RenewalInUse
<1>4. \/ B = {} /\ O = {}
      \/ \E q \in D : B = {q} /\ q.val = p.val /\ q.ttl \in Marks
                      /\ O = {[dev |-> p.val, ttl |-> q.ttl]}
  BY <1>1, DevOfValue
<1>5. Equipped(s) <=> s.use["DEV"] # {}
  BY <1>2 DEF Equipped, InUse
<1>6. c = [p EXCEPT !.diff = IF B # {} THEN "nop" ELSE "add",
                    !.ttl = IF said THEN p.ttl ELSE Unsaid]
  <2> HIDE DEF B
  <2> QED
    BY <1>1 DEF Cleaned, B
<1>7. /\ c.opt = "DEV" /\ c.diff = (IF B # {} THEN "nop" ELSE "add") /\ c.val = p.val
      /\ c.ttl = IF said THEN p.ttl ELSE Unsaid
  <2> HIDE DEF said, c, B
  <2> QED
    BY <1>1, <1>6 DEF Patch
<1>8. CASE B # {} /\ c.ttl = Unsaid
  <2>1. a = Ok(s)
    BY <1>7, <1>8, Judgement
  <2>2. PICK q \in D : B = {q} /\ q.val = p.val /\ q.ttl \in Marks
                       /\ O = {[dev |-> p.val, ttl |-> q.ttl]}
    BY <1>4, <1>8
  <2>3. m = q.ttl
    <3>1. p.ttl = Unsaid \/ (p.ttl = Reset /\ q.ttl = NoTtl) \/ p.ttl = q.ttl
      BY <1>7, <1>8, <2>2
    <3> QED
      BY <2>2, <3>1 DEF NewMark, Marks, Ttls, Unsaid, Reset, NoTtl
  <2>4. s.use["DEV"] = InUse(Renewal(s, p))
    <3>1. new \in s.use["DEV"] /\ O = {new}
      BY <2>2, <2>3 DEF Named
    <3> QED
      BY <1>3, <3>1
  <2>5. a.ok = TRUE /\ a.s = s
    BY <2>1, Outcomes
  <2> QED
    BY <1>2, <2>2, <2>4, <2>5 DEF DevOnly, Equipped, SameTracked
<1>9. CASE ~(B # {} /\ c.ttl = Unsaid)
  <2>1. ~(c.diff = "nop" /\ c.ttl = Unsaid) /\ c.diff # "del"
    BY <1>7, <1>9
  <2>2. ~Refused(s, c)
    BY <1>7, <2>1 DEF Refused
  <2>3. a = Ok(Installed(s, save, c))
    BY <2>1, <2>2, Judgement
  <2>4. Installed(s, save, c) = SetDev(s, c)
    BY <1>7 DEF Installed
  <2>5. m = NewMark(O, c.ttl)
    <3>1. CASE B = {}
      <4>1. O = {} /\ ttls = {} /\ (c.ttl = p.ttl \/ (p.ttl = Reset /\ c.ttl = Unsaid))
        BY <1>4, <1>7, <3>1
      <4> QED
        BY <1>1, <3>1, <4>1 DEF NewMark, Ttls, Unsaid, Reset
    <3>2. CASE B # {}
      <4>1. c.ttl = p.ttl /\ c.ttl # Unsaid
        BY <1>7, <1>9, <3>2
      <4> QED
        BY <1>1, <4>1 DEF NewMark, Ttls, Unsaid, Reset
    <3> QED
      BY <3>1, <3>2
  <2> DEFINE t == SetDev(s, c)
  <2>8. O = Named(s.use["DEV"], c.val)
    BY <1>7
  <2> HIDE DEF c, m, B, O, t
  <2>6. /\ DevOnly(t, s) /\ t.file = s.file /\ t.track = s.track
        /\ t.use["DEV"] = (s.use["DEV"] \ O) \cup {[dev |-> p.val, ttl |-> m]}
        /\ t.primary = IF s.use["DEV"] = {} THEN p.val ELSE s.primary
    <3>1. t = SetDev(s, c) /\ c.opt = "DEV" /\ c.diff # "del" /\ c.val \in Devs
      BY <1>1, <1>7, <2>1 DEF t
    <3>2. /\ DevOnly(t, s) /\ t.file = s.file /\ t.track = s.track
          /\ t.use["DEV"] = (s.use["DEV"] \ O) \cup {[dev |-> c.val, ttl |-> m]}
          /\ t.primary = IF s.use["DEV"] = {} THEN c.val ELSE s.primary
      BY <1>2, <2>5, <2>8, <3>1, SetDevIs
    <3> QED
      BY <1>7, <3>2
  <2>7. a.ok = TRUE /\ a.s = t
    BY <2>3, <2>4, Outcomes DEF t
  <2> QED
    BY <1>3, <1>5, <2>6, <2>7 DEF SameTracked
<1> QED
  BY <1>8, <1>9

(* What is tracked for a patch, by its value.                                 *)
LEMMA TrackedByValue ==
  ASSUME NEW s, Apart(s.track["DEV"]), NEW p, AddPatch(p), ByItsValue(s, p)
  PROVE  /\ Tracked(s, p) = ByVal(s, p) /\ ByVal(s, p) = Valued(s.track["DEV"], p.val)
         /\ \/ ByVal(s, p) = {}
            \/ \E q \in s.track["DEV"] : ByVal(s, p) = {q} /\ q.val = p.val
<1>1. ByVal(s, p) = Valued(s.track["DEV"], p.val)
  BY AddPatchFields, DevFound DEF Valued
<1>2. Tracked(s, p) = ByVal(s, p)
  BY DEF Tracked, ByItsValue
<1>3. ASSUME ByVal(s, p) # {}
      PROVE  \E q \in s.track["DEV"] : ByVal(s, p) = {q} /\ q.val = p.val
  BY <1>1, <1>3 DEF Valued, Apart
<1> QED
  BY <1>1, <1>2, <1>3

(* The new parent, with the mark of the old one.                              *)
Kept(s, p) ==
  [val |-> p.val, ref |-> p.ref,
   ttl |-> IF ByVal(s, p) = {} THEN NoTtl ELSE (CHOOSE q \in ByVal(s, p) : TRUE).ttl]

LEMMA TrackParentDev ==
  ASSUME NEW s \in States, FileOK(s.file), Apart(s.track["DEV"]), ByName(s.track["DEV"]),
         NEW save, NEW p, AddPatch(p), ByItsValue(s, p), NEW t, t = TrackParent(s, save, p)
  PROVE  /\ SameBut(t, s, "DEV") /\ Kept(s, p) \in Parents
         /\ t.track["DEV"] = (s.track["DEV"] \ ByVal(s, p)) \cup {Kept(s, p)}
<1> DEFINE D == s.track["DEV"]
           B == ByVal(s, p)
           k == Kept(s, p)
           was == IF B = {} THEN Key(k) ELSE Key(CHOOSE q \in B : TRUE)
           E == (D \ B) \cup {k}
           f == IF save THEN Store(s.file, "DEV", was, Key(k)) ELSE s.file
<1>1. /\ p.opt = "DEV" /\ p.val \in Devs /\ p.ref \in {NoRef, Ref} /\ (p.ref = Ref => p.val # "a")
      /\ "DEV" \in Opts
  BY AddPatchFields, OptsAre
<1>2. /\ Tracked(s, p) = B
      /\ B = {} \/ \E q \in D : B = {q} /\ q.val = p.val
  BY TrackedByValue
<1>3. D \subseteq Parents
  BY <1>1 DEF States
<1>4. k \in Parents /\ k.val = p.val /\ k.ref = p.ref
  <2>1. (IF B = {} THEN NoTtl ELSE (CHOOSE q \in B : TRUE).ttl) \in Marks
    BY <1>2, <1>3 DEF Parents, Marks
  <2> HIDE DEF B
  <2> QED
    BY <1>1, <2>1 DEF Kept, Parents, AnyVal, B
<1>5. CASE \E q \in B : Same(q, p)
  <2>1. t = s
    BY <1>2, <1>5 DEF TrackParent
  <2>2. PICK q \in D : B = {q} /\ Same(q, p)
    BY <1>2, <1>5
  <2>3. k = q
    <3>1. k = [val |-> q.val, ref |-> q.ref, ttl |-> q.ttl]
      BY <2>2 DEF Kept, Same
    <3> QED
      BY <1>3, <3>1 DEF Parents
  <2> QED
    BY <1>4, <2>1, <2>2, <2>3 DEF SameBut
<1>6. CASE ~ \E q \in B : Same(q, p)
  <2>1. t = [s EXCEPT !.track["DEV"] = E, !.file = f]
    <3> HIDE DEF B
    <3> QED
      BY <1>1, <1>2, <1>6 DEF TrackParent, Kept, B
  <2>2. Key(k) \in KeysOf("DEV")
    BY <1>1, <1>4 DEF Key, KeysOf
  <2>3. was = "a" => Key(k) = "a"
    <3>1. CASE B = {}
      BY <3>1
    <3>2. CASE B # {}
      <4>1. PICK q \in D : B = {q} /\ q.val = p.val
        BY <1>2, <3>2
      <4>2. was = Key(q) /\ q.ref \in {NoRef, Ref}
        BY <1>3, <4>1 DEF Parents
      <4>3. ASSUME was = "a" PROVE Key(k) = "a"
        <5>1. p.val = "a"
          BY <4>1, <4>2, <4>3 DEF Key, Ref, NoRef
        <5> QED
          BY <1>1, <1>4, <5>1 DEF Key
      <4> QED
        BY <4>3
    <3> QED
      BY <3>1, <3>2
  <2> HIDE DEF was, k
  <2>4. FileOK(f)
    BY <1>1, <2>2, <2>3, StoreOK
  <2>5. E \in SUBSET Parents
    BY <1>3, <1>4
  <2> HIDE DEF f, E
  <2>6. t = With(s, "DEV", E, f)
    BY <2>1 DEF With
  <2>7. SameBut(t, s, "DEV") /\ t.track["DEV"] = E
    BY <1>1, <2>4, <2>5, <2>6, WithSame
  <2> QED
    BY <1>4, <2>7 DEF E, k
<1> QED
  BY <1>5, <1>6

(* The child option of the new parent.                                        *)
Marked(q, ttl) == IF ttl = Unsaid THEN q.ttl ELSE IF ttl = Reset THEN NoTtl ELSE ttl

LEMMA TrackTtlDev ==
  ASSUME NEW t \in States, FileOK(t.file), NEW save, NEW p, AddPatch(p), NEW q \in Parents,
         q.val = p.val, q.ref = p.ref, NEW R, t.track["DEV"] = R \cup {q},
         \A x \in R : x.val # p.val,
         NEW m, m = Marked(q, p.ttl),
         NEW u, u = TrackTtl(t, save, p)
  PROVE  /\ SameBut(u, t, "DEV")
         /\ u.track["DEV"] = R \cup {[val |-> p.val, ref |-> p.ref, ttl |-> m]}
<1> DEFINE new == [val |-> p.val, ref |-> p.ref, ttl |-> m]
           E == R \cup {new}
           f == IF save THEN StoreTtl(t.file, Key(q), m) ELSE t.file
<1>1. /\ p.opt = "DEV" /\ p.val \in Devs /\ p.ref \in {NoRef, Ref} /\ "DEV" \in Opts
      /\ p.ttl \in Ttls \cup {Unsaid, Reset}
  BY AddPatchFields, OptsAre
<1>2. (CHOOSE x \in t.track[p.opt] : Same(x, p)) = q
  BY <1>1 DEF Same
<1>3. q = [val |-> p.val, ref |-> p.ref, ttl |-> q.ttl] /\ q.ttl \in Marks /\ q \notin R
  BY DEF Parents
<1>4. m \in Marks
  BY <1>1, <1>3 DEF Marks, Marked
<1>5. CASE p.ttl = Unsaid \/ q.ttl = m
  <2>1. u = t
    BY <1>1, <1>2, <1>5 DEF TrackTtl, Marked
  <2>2. new = q
    BY <1>3, <1>5 DEF Marked
  <2> QED
    BY <2>1, <2>2 DEF SameBut
<1>6. CASE ~(p.ttl = Unsaid \/ q.ttl = m)
  <2>1. u = [t EXCEPT !.track["DEV"] = (t.track["DEV"] \ {q}) \cup {[q EXCEPT !.ttl = m]},
                      !.file = f]
    <3>1. p.ttl # Unsaid /\ m = IF p.ttl = Reset THEN NoTtl ELSE p.ttl
      BY <1>6 DEF Marked
    <3>2. u = [t EXCEPT !.track[p.opt] = (t.track[p.opt] \ {q}) \cup {[q EXCEPT !.ttl = m]},
                        !.file = f]
      <4> DEFINE z == CHOOSE x \in t.track[p.opt] : Same(x, p)
                 n == IF p.ttl = Reset THEN NoTtl ELSE p.ttl
      <4>1. u = IF p.ttl = Unsaid \/ z.ttl = n THEN t
                ELSE [t EXCEPT !.track[p.opt] = (@ \ {z}) \cup {[z EXCEPT !.ttl = n]},
                               !.file = IF save THEN StoreTtl(@, Key(z), n) ELSE @]
        BY DEF TrackTtl
      <4>2. z = q /\ n = m
        BY <1>2, <3>1
      <4> HIDE DEF z, n
      <4> QED
        BY <1>6, <3>1, <4>1, <4>2
    <3> HIDE DEF f
    <3> QED
      BY <1>1, <3>2
  <2>2. [q EXCEPT !.ttl = m] = new
    BY <1>3 DEF Parents
  <2>3. (t.track["DEV"] \ {q}) \cup {new} = E
    BY <1>3
  <2>4. Key(q) \in Devs \cup {Ref}
    BY <1>1 DEF Key
  <2>5. FileOK(f)
    BY <1>4, <2>4, StoreTtlOK
  <2>6. E \in SUBSET Parents
    <3>1. new \in Parents
      BY <1>1, <1>4 DEF Parents, AnyVal
    <3>2. R \subseteq Parents
      BY <1>1 DEF States
    <3> QED
      BY <3>1, <3>2
  <2> HIDE DEF f, E, new
  <2>7. u = With(t, "DEV", E, f)
    BY <2>1, <2>2, <2>3 DEF With
  <2>8. SameBut(u, t, "DEV") /\ u.track["DEV"] = E
    BY <1>1, <2>5, <2>6, <2>7, WithSame
  <2> QED
    BY <2>8 DEF E, new
<1> QED
  BY <1>5, <1>6

(* track_opt_parent() for a device to be added.                               *)
LEMMA TrackAdd ==
  ASSUME NEW s \in States, FileOK(s.file), Apart(s.track["DEV"]), ByName(s.track["DEV"]),
         NEW save, NEW p, AddPatch(p), ByItsValue(s, p), NEW r, r = Track("apply", s, save, p)
  PROVE  /\ r.ok \in BOOLEAN /\ SameBut(r.s, s, "DEV")
         /\ r.s.track["DEV"] = Renewal(s, p)
<1> DEFINE D == s.track["DEV"]
           B == ByVal(s, p)
           R == D \ B
           k == Kept(s, p)
           t == TrackParent(s, save, p)
           u == TrackTtl(t, save, p)
           m == Marked(k, p.ttl)
           unknown == p.ttl = Reset /\ (\A q \in B : q.ttl = NoTtl)
           unchanged == (\E q \in B : Same(q, p))
                        /\ (p.ttl = Unsaid \/ unknown \/ \E q \in B : q.ttl = p.ttl)
<1>1. /\ p.opt = "DEV" /\ p.diff = "add" /\ p.val \in Devs /\ p.ref \in {NoRef, Ref}
      /\ p.ttl \in Ttls \cup {Unsaid, Reset}
  BY AddPatchFields
<1>2. /\ Tracked(s, p) = B /\ B = Valued(D, p.val)
      /\ B = {} \/ \E q \in D : B = {q} /\ q.val = p.val
  BY TrackedByValue
<1>3. SameBut(t, s, "DEV") /\ k \in Parents /\ t.track["DEV"] = R \cup {k}
  BY TrackParentDev
<1>4. k.val = p.val /\ k.ref = p.ref
      /\ k.ttl = IF B = {} THEN NoTtl ELSE (CHOOSE q \in B : TRUE).ttl
  BY DEF Kept
<1>5. Renewed(s, p) = [val |-> p.val, ref |-> p.ref, ttl |-> m]
  <2>1. NewMark(B, p.ttl) = m
    BY <1>1, <1>4 DEF NewMark, Marked, Ttls, Unsaid, Reset
  <2> HIDE DEF m
  <2> QED
    BY <2>1 DEF Renewed
<1>6. SameBut(u, t, "DEV") /\ u.track["DEV"] = Renewal(s, p)
  <2>1. \A x \in R : x.val # p.val
    BY <1>2 DEF Valued
  <2>2. t \in States /\ FileOK(t.file)
    BY <1>3 DEF SameBut
  <2> HIDE DEF t, k, R, m
  <2>4. m = Marked(k, p.ttl) /\ u = TrackTtl(t, save, p)
    BY DEF m
  <2> HIDE DEF u
  <2>3. /\ SameBut(u, t, "DEV")
        /\ u.track["DEV"] = R \cup {[val |-> p.val, ref |-> p.ref, ttl |-> m]}
    BY <1>3, <1>4, <2>1, <2>2, <2>4, TrackTtlDev
  <2> QED
    BY <1>5, <2>3 DEF Renewal, R
<1>7. r = Failure(t) \/ r = Ok(u)
  <2> HIDE DEF B
  <2> QED
    BY <1>1, <1>2 DEF Track
<1>8. r = Failure(t) => unknown \/ unchanged
  <2>1. ASSUME ~unknown, ~unchanged PROVE r = Ok(u)
    <3> HIDE DEF B
    <3> QED
      BY <1>1, <1>2, <2>1 DEF Track
  <2>2. Failure(t) # Ok(u)
    BY DEF Failure, Ok
  <2> HIDE DEF unknown, unchanged, t, u
  <2> QED
    BY <2>1, <2>2
<1>9. unknown \/ unchanged => t.track["DEV"] = Renewal(s, p)
  <2>1. ASSUME unknown \/ unchanged PROVE m = k.ttl
    <3>1. CASE B = {}
      BY <1>4, <2>1, <3>1 DEF Unsaid, Reset, Marked
    <3>2. CASE B # {}
      <4>1. PICK q \in D : B = {q}
        BY <1>2, <3>2
      <4>2. k.ttl = q.ttl
        BY <1>4, <4>1
      <4> QED
        BY <1>3, <2>1, <4>1, <4>2 DEF Marked, Parents, Marks, Ttls, Unsaid, Reset, NoTtl
    <3> QED
      BY <3>1, <3>2
  <2>2. k = [val |-> p.val, ref |-> p.ref, ttl |-> k.ttl]
    BY <1>3, <1>4 DEF Parents
  <2> HIDE DEF unknown, unchanged, t, k, m, R
  <2> QED
    BY <1>3, <1>5, <2>1, <2>2 DEF Renewal, R
<1>10. SameBut(u, s, "DEV")
  BY <1>3, <1>6 DEF SameBut
<1> HIDE DEF t, u, unknown, unchanged
<1>11. CASE r = Failure(t)
  <2>1. r.ok = FALSE /\ r.s = t
    BY <1>11, Outcomes
  <2> QED
    BY <1>3, <1>8, <1>9, <1>11, <2>1
<1>12. CASE r = Ok(u)
  <2>1. r.ok = TRUE /\ r.s = u
    BY <1>12, Outcomes
  <2> QED
    BY <1>6, <1>10, <2>1
<1> QED
  BY <1>7, <1>11, <1>12

(* Whatever becomes of a device to be added, the state stays good.            *)
LEMMA AddGood ==
  ASSUME NEW s, Good(s), NEW save, NEW p, AddPatch(p), ~Distinct(s, p),
         Equipped(s) \/ p.val = "a",
         NEW t, t = Rederived("apply", s, save, p),
         NEW a, a = Apply("apply", t, save, p),
         NEW r, r = Track("apply", a.s, save, p)
  PROVE  Succeeded(a) /\ Keeps(r, s) /\ Equipped(r.s)
<1> DEFINE D == t.track["DEV"]
           B == ByVal(t, p)
           E == Renewal(t, p)
           n == Renewed(t, p)
           v == a.s
<1>1. /\ p.opt = "DEV" /\ p.val \in Devs /\ p.ref \in {NoRef, Ref} /\ (p.ref = Ref => p.val # "a")
      /\ "DEV" \in Opts
  BY AddPatchFields, OptsAre
<1>2. /\ Good(t) /\ t.fly = s.fly /\ ByItsValue(t, p) /\ (Equipped(s) => Equipped(t))
  BY RederivedGood
<1>3. D \subseteq Parents /\ Apart(D) /\ ByName(D) /\ First(t)
  BY <1>2, GoodDevs
<1>4. /\ B = Valued(D, p.val)
      /\ ByRef(t, p) = {q \in D : p.ref # NoRef /\ q.ref = p.ref}
  BY <1>1, <1>2, <1>3, TrackedByValue, DevFound
<1>5. /\ a.ok = TRUE /\ DevOnly(v, t) /\ v.track = t.track /\ v.use["DEV"] = InUse(E)
      /\ v.primary = IF Equipped(t) THEN t.primary ELSE p.val
  <2>1. Good(t) /\ AddPatch(p) /\ a = Apply("apply", t, save, p)
    BY <1>2
  <2>2. /\ a.ok = TRUE /\ DevOnly(a.s, t) /\ SameTracked(a.s, t)
        /\ a.s.use["DEV"] = InUse(Renewal(t, p))
        /\ a.s.primary = IF Equipped(t) THEN t.primary ELSE p.val
    BY <2>1, ApplyAdd
  <2> QED
    BY <2>2 DEF SameTracked
<1>6. ByVal(v, p) = B /\ ByRef(v, p) = ByRef(t, p) /\ Renewal(v, p) = E
  <2>1. ByVal(v, p) = B /\ ByRef(v, p) = ByRef(t, p)
    BY <1>5 DEF ByVal, ByRef
  <2> QED
    BY <1>5, <2>1 DEF Renewal, Renewed
<1>7. r.ok \in BOOLEAN /\ SameBut(r.s, v, "DEV") /\ r.s.track["DEV"] = E
  <2>1. v \in States /\ FileOK(v.file) /\ Apart(v.track["DEV"]) /\ ByName(v.track["DEV"])
        /\ ByItsValue(v, p)
    BY <1>2, <1>3, <1>5, <1>6 DEF DevOnly, ByItsValue
  <2> HIDE DEF v, E
  <2> QED
    BY <1>6, <2>1, TrackAdd DEF v
<1>8. E = (D \ B) \cup {n} /\ n.val = p.val /\ n.ref = p.ref
  BY DEF Renewal, Renewed
<1>9. Apart(E)
  <2>1. \A q \in D \ B : q.val # n.val /\ ~(q.ref = n.ref /\ q.ref # NoRef)
    BY <1>2, <1>4, <1>8 DEF ByItsValue, Valued
  <2> HIDE DEF n, E, B
  <2> QED
    BY <1>3, <1>8, <2>1 DEF Apart
<1>10. ByName(E)
  <2> HIDE DEF n, E, B
  <2> QED
    BY <1>1, <1>3, <1>8 DEF ByName
<1>11. v.primary = "a" /\ \E q \in E : q.val = "a"
  <2>1. CASE Equipped(t)
    <3>1. t.primary = "a" /\ \E q \in D : q.val = "a"
      BY <1>3, <2>1 DEF First, Equipped
    <3>2. PICK q \in D : q.val = "a"
      BY <3>1
    <3>3. q \in B => n.val = "a"
      BY <1>4, <1>8, <3>2 DEF Valued
    <3> HIDE DEF n, E, B
    <3> QED
      BY <1>5, <1>8, <2>1, <3>1, <3>2, <3>3
  <2>2. CASE ~Equipped(t)
    <3>1. p.val = "a"
      BY <1>2, <2>2
    <3> HIDE DEF n, E, B
    <3> QED
      BY <1>5, <1>8, <2>2, <3>1
  <2> QED
    BY <2>1, <2>2
<1> HIDE DEF E, v, n, B
<1>12. DevOnly(r.s, t)
  BY <1>5, <1>7 DEF DevOnly, SameBut
<1>13. DevsOK(r.s)
  BY <1>5, <1>7, <1>9, <1>10, <1>11 DEF DevsOK, First, SameBut
<1>14. Good(r.s)
  BY <1>2, <1>12, <1>13, DevGood
<1> QED
  BY <1>2, <1>5, <1>7, <1>11, <1>12, <1>14 DEF Equipped, DevOnly, Succeeded, Keeps

(* The same for a device to be removed.                                       *)
LEMMA DelGood ==
  ASSUME NEW s, Good(s), NEW save \in BOOLEAN, NEW p, DelPatch(s, p),
         NEW a, a = Apply("apply", s, save, p),
         NEW r, r = IF a.ok THEN Track("apply", a.s, save, p) ELSE a
  PROVE  /\ Rederived("apply", s, save, p) = s
         /\ r.ok \in BOOLEAN /\ Good(r.s) /\ (Equipped(s) => Equipped(r.s)) /\ r.s.fly = s.fly
<1> DEFINE D == s.track["DEV"]
           B == ByVal(s, p)
           c == Cleaned(s, p)
<1>1. /\ p.opt = "DEV" /\ p.diff = "del" /\ p.val \in Devs /\ p.ref \in {NoRef, Ref}
      /\ p.ttl = Unsaid /\ p = Patch("DEV", "del", p.val, p.ref, Unsaid)
      /\ (p.ref = Ref => \E q \in ByRef(s, p) : q.val = p.val)
  BY DEF DelPatch, Patch
<1>2. /\ B = {q \in D : q.val = p.val} /\ B = Valued(D, p.val) /\ "DEV" \notin Singles
      /\ ByRef(s, p) = {q \in D : p.ref # NoRef /\ q.ref = p.ref} /\ "DEV" \in Opts
  BY <1>1, DevFound, OptsAre DEF Valued
<1>3. Rederived("apply", s, save, p) = s
  BY <1>1 DEF Rederived
<1>4. s \in States /\ FileOK(s.file) /\ D \subseteq Parents /\ s.use["DEV"] = InUse(D)
      /\ s.use["DEV"] \subseteq Running /\ Apart(D) /\ ByName(D) /\ First(s)
  BY GoodDevs
<1>5. c = IF B = {} THEN [p EXCEPT !.diff = "nop"] ELSE p
  <2>1. c = [p EXCEPT !.diff = IF B = {} THEN "nop" ELSE "del", !.ttl = Unsaid]
    <3> HIDE DEF B
    <3> QED
      BY <1>1, <1>2 DEF Cleaned, B
  <2> HIDE DEF c, B
  <2> QED
    BY <1>1, <2>1 DEF Patch
<1>6. CASE B = {}
  <2>1. c.diff = "nop" /\ c.ttl = Unsaid
    BY <1>1, <1>5, <1>6 DEF Patch
  <2>2. a = Ok(s)
    BY <2>1, Judgement
  <2>3. a.ok = TRUE /\ a.s = s
    BY <2>2, Outcomes
  <2>4. Tracked(s, p) = {}
    BY <1>1, <1>2, <1>6 DEF Tracked
  <2>5. r = [ok |-> ~save, s |-> s]
    BY <1>1, <2>3, <2>4 DEF Track
  <2>6. r.s = s /\ r.ok = ~save
    BY <2>5
  <2>7. r.ok \in BOOLEAN
    BY <2>6, Zenon
  <2> QED
    BY <1>3, <2>6, <2>7
<1>7. CASE B # {} /\ Refused(s, p)
  <2>1. ~(c.diff = "nop" /\ c.ttl = Unsaid) /\ c = p
    BY <1>1, <1>5, <1>7
  <2>2. a = Failure(s)
    BY <1>7, <2>1, Judgement
  <2>3. a.ok = FALSE /\ a.s = s
    BY <2>2, Outcomes
  <2> QED
    BY <1>3, <2>3
<1>8. CASE B # {} /\ ~Refused(s, p)
  <2> DEFINE O == Named(s.use["DEV"], p.val)
             U == s.use["DEV"] \ O
             u == Using(s, "DEV", U)
             E == D \ B
             q == CHOOSE x \in B : TRUE
             f == IF save THEN Erase(u.file, "DEV", Key(q)) ELSE u.file
             w == With(u, "DEV", E, f)
  <2>1. ~(c.diff = "nop" /\ c.ttl = Unsaid) /\ c = p
    BY <1>1, <1>5, <1>8
  <2>2. a = Ok(Installed(s, save, p))
    BY <1>8, <2>1, Judgement
  <2>3. Installed(s, save, p) = u
    <3>1. Installed(s, save, p) = SetDev(s, p)
      BY <1>1 DEF Installed
    <3>2. SetDev(s, p) = u
      BY <1>1 DEF SetDev, Using, Named
    <3> QED
      BY <3>1, <3>2
  <2>4. a.ok = TRUE /\ a.s = u
    BY <2>2, <2>3, Outcomes
  <2>5. q \in D /\ B = {q} /\ q.val = p.val /\ q.ref \in {NoRef, Ref}
    BY <1>2, <1>4, <1>8 DEF Apart, Parents
  <2>6. p.val # "a"
    <3>1. p.val # s.primary
      BY <1>1, <1>8 DEF Refused
    <3> QED
      BY <1>4, <2>5, <3>1 DEF First
  <2>7. Key(q) # "a"
    <3> HIDE DEF q
    <3> QED
      BY <2>5, <2>6 DEF Key, Ref, NoRef
  <2>8. U = InUse(E)
    BY <1>2, <1>4 DEF InUse, Named
  <2>9. U \in InForce /\ E \in SUBSET Parents
    BY <1>4 DEF InForce
  <2>10. Apart(E) /\ ByName(E)
    BY <1>4 DEF Apart, ByName
  <2>11. D # {} /\ s.primary = "a" /\ \E x \in E : x.val = "a"
    BY <1>2, <1>4, <2>5, <2>6 DEF First
  <2> HIDE DEF U, E, q
  <2>12. /\ u \in States /\ u.file = s.file /\ u.fly = s.fly /\ u.track = s.track
         /\ u.primary = s.primary /\ u.use["DEV"] = U
         /\ \A x \in Opts \ {"DEV"} : u.use[x] = s.use[x]
    BY <1>2, <1>4, <2>9, UsingFields
  <2> HIDE DEF u
  <2>13. FileOK(f)
    BY <1>2, <1>4, <2>7, <2>12, EraseOK
  <2>14. Tracked(u, p) = B
    <3>1. ByVal(u, p) = B
      BY <2>12 DEF ByVal
    <3> HIDE DEF B
    <3> QED
      BY <1>8, <3>1 DEF Tracked
  <2>15. r = Ok(w)
    <3>1. r = Track("apply", u, save, p)
      BY <2>4
    <3>2. Track("apply", u, save, p) =
            Ok([u EXCEPT !.track["DEV"] = @ \ B,
                         !.file = IF save THEN Erase(@, "DEV", Key(q)) ELSE @])
      <4> HIDE DEF B
      <4> QED
        BY <1>1, <1>8, <2>14 DEF Track, q
    <3>3. u.track["DEV"] \ B = E
      BY <2>12 DEF E
    <3> HIDE DEF B
    <3> QED
      BY <3>1, <3>2, <3>3 DEF With
  <2>16. r.ok = TRUE /\ r.s = w
    BY <2>15, Outcomes
  <2> HIDE DEF f
  <2>17. /\ w \in States /\ w.file = f /\ w.fly = u.fly /\ w.use = u.use
         /\ w.primary = u.primary /\ w.track["DEV"] = E
         /\ \A x \in Opts \ {"DEV"} : w.track[x] = u.track[x]
    BY <1>2, <2>9, <2>12, <2>13, WithFields
  <2> HIDE DEF w
  <2>18. DevOnly(w, s)
    BY <2>12, <2>13, <2>17 DEF DevOnly
  <2>19. DevsOK(w)
    BY <2>8, <2>10, <2>11, <2>12, <2>17 DEF DevsOK, First
  <2>20. Good(w)
    BY <2>18, <2>19, DevGood
  <2> QED
    BY <1>3, <2>11, <2>16, <2>17, <2>12, <2>20 DEF Equipped
<1> QED
  BY <1>6, <1>7, <1>8

-----------------------------------------------------------------------------
(* Calls of an option.                                                        *)

(* call_option() of a patch.                                                  *)
Tracking(cmd, a, save, p) == IF ~a.ok THEN a ELSE Track(cmd, a.s, save, p)
Carried(cmd, s, save, p) ==
  IF Distinct(s, p) THEN Failure([s EXCEPT !.dead = TRUE])
  ELSE Tracking(cmd, Apply(cmd, Rederived(cmd, s, save, p), save, p), save, p)

LEMMA CallIs ==
  ASSUME NEW cmd, NEW s, NEW save, NEW e
  PROVE  /\ Patched(s, e) = {} => Call(cmd, s, save, e) = Failure(s)
         /\ \A p : Patched(s, e) = {p} => Call(cmd, s, save, e) = Carried(cmd, s, save, p)
         /\ Patched(s, e) # {} => \E p \in Patched(s, e) :
                                     Call(cmd, s, save, e) = Carried(cmd, s, save, p)
<1>1. ASSUME Patched(s, e) = {} PROVE Call(cmd, s, save, e) = Failure(s)
  BY <1>1 DEF Call
<1>2. ASSUME Patched(s, e) # {}
      PROVE  Call(cmd, s, save, e) = Carried(cmd, s, save, CHOOSE x \in Patched(s, e) : TRUE)
  BY <1>2 DEF Call, Carried, Tracking
<1>3. ASSUME NEW p, Patched(s, e) = {p} PROVE Call(cmd, s, save, e) = Carried(cmd, s, save, p)
  <2>1. (CHOOSE x \in Patched(s, e) : TRUE) = p
    BY <1>3
  <2> QED
    BY <1>2, <1>3, <2>1
<1>4. ASSUME Patched(s, e) # {}
      PROVE  \E p \in Patched(s, e) : Call(cmd, s, save, e) = Carried(cmd, s, save, p)
  <2>1. (CHOOSE x \in Patched(s, e) : TRUE) \in Patched(s, e)
    BY <1>4
  <2> QED
    BY <1>2, <1>4, <2>1
<1> QED
  BY <1>1, <1>3, <1>4

(* A state whose paranoia() check has failed is as good as it was.            *)
Dead(s) == [s EXCEPT !.dead = TRUE]

LEMMA DeadGood ==
  ASSUME NEW s, Good(s)
  PROVE  Good(Dead(s)) /\ Dead(s).fly = s.fly /\ (Equipped(s) => Equipped(Dead(s)))
<1>1. s \in States
  BY DEF Good
<1>2. /\ Dead(s) \in States /\ Dead(s).fly = s.fly /\ Dead(s).track = s.track
      /\ Dead(s).use = s.use /\ Dead(s).primary = s.primary /\ Dead(s).file = s.file
  BY <1>1 DEF Dead, States
<1> QED
  BY <1>2 DEF Good, SinglesOK, SingleOK, OneClass, DevsOK, First, Equipped

(* A check changes nothing, unless a paranoia() check fails.                  *)
Checked(r, s) ==
  /\ r.ok \in BOOLEAN /\ r.s \in {s, Dead(s)}
  /\ r.ok => r.s = s

LEMMA CheckCall ==
  ASSUME NEW s, NEW save \in BOOLEAN, NEW e
  PROVE  Checked(Call("check", s, save, e), s)
<1> DEFINE r == Call("check", s, save, e)
<1>1. CASE Patched(s, e) = {}
  <2>1. r = Failure(s)
    BY <1>1, CallIs
  <2>2. r.ok = FALSE /\ r.s = s
    BY <2>1, Outcomes
  <2> QED
    BY <2>2 DEF Checked
<1>2. CASE Patched(s, e) # {}
  <2>1. PICK p \in Patched(s, e) : r = Carried("check", s, save, p)
    BY <1>2, CallIs
  <2> DEFINE a == Apply("check", Rederived("check", s, save, p), save, p)
  <2> HIDE DEF r
  <2>2. CASE Distinct(s, p)
    <3>1. r = Failure(Dead(s))
      BY <2>1, <2>2 DEF Carried, Dead
    <3>2. r.ok = FALSE /\ r.s = Dead(s)
      BY <3>1, Outcomes
    <3> QED
      BY <3>2 DEF Checked, r
  <2>3. CASE ~Distinct(s, p)
    <3>1. Rederived("check", s, save, p) = s
      BY DEF Rederived
    <3>2. a = Ok(s) \/ a = Failure(s)
      BY <3>1 DEF Apply
    <3>3. r = IF ~a.ok THEN a ELSE Track("check", a.s, save, p)
      BY <2>1, <2>3 DEF Carried, Tracking
    <3> HIDE DEF a
    <3>4. CASE a = Failure(s)
      <4>1. a.ok = FALSE /\ a.s = s
        BY <3>4, Outcomes
      <4> QED
        BY <3>3, <4>1 DEF Checked, r
    <3>5. CASE a = Ok(s)
      <4>1. a.ok = TRUE /\ a.s = s
        BY <3>5, Outcomes
      <4>2. r = Track("check", s, save, p)
        BY <3>3, <4>1
      <4>3. r = [ok |-> ~save, s |-> s] \/ r = Ok(s) \/ r = Failure(s)
        BY <4>2 DEF Track
      <4>4. CASE r = [ok |-> ~save, s |-> s]
        <5>1. r.ok = ~save /\ r.s = s
          BY <4>4
        <5>2. r.ok \in BOOLEAN
          BY <5>1, Zenon
        <5> QED
          BY <5>1, <5>2 DEF Checked, r
      <4>5. CASE r = Ok(s) \/ r = Failure(s)
        <5>1. r.ok \in BOOLEAN /\ r.s = s
          BY <4>5, Outcomes
        <5> QED
          BY <5>1 DEF Checked, r
      <4> QED
        BY <4>3, <4>4, <4>5
    <3> QED
      BY <3>2, <3>4, <3>5
  <2> QED
    BY <2>2, <2>3
<1> QED
  BY <1>1, <1>2

(* The reference does not stand for the first device.                         *)
NetOK == net \in (Devs \ {"a"}) \cup {Unresolved}

(* What a configured entry is patched to.                                     *)
LEMMA PatchedSingle ==
  ASSUME NEW s, NEW e, IsEntry(e), e.opt \in Singles
  PROVE  Patched(s, e) = {} \/ \E p : Patched(s, e) = {p} /\ SinglePatch(p)
<1>1. /\ e.diff \in {"add", "del"} /\ e.val \in ValuesOf(e.opt)
      /\ e = Patch(e.opt, e.diff, e.val, NoRef, Unsaid)
  <2>1. e.opt \notin {"TEST", "RELOAD", "DEV"}
    BY OptsAre
  <2>2. \A key, ttl : \A diff : e = Entry(key, diff, ttl) => e.opt = "DEV"
    BY DEF Entry, Patch
  <2> QED
    BY <2>1, <2>2 DEF IsEntry
<1>2. SinglePatch(e)
  BY <1>1 DEF SinglePatch
<1>3. CASE e.opt \in {"PORT", "PEDANTIC"}
  BY <1>2, <1>3 DEF Patched
<1>4. CASE e.opt = "RT"
  <2>1. Patched(s, e) = {x \in {e} : e.diff = "del" \/ e.val \in 0..3}
    BY <1>4 DEF Patched
  <2> QED
    BY <1>2, <2>1
<1>5. CASE e.opt = "GW"
  <2> DEFINE v == IF e.diff = "add" THEN AdjustedOf[e.val] ELSE NoSpeed
             p == [e EXCEPT !.val = v]
  <2>1. Patched(s, e) = {p}
    BY <1>5 DEF Patched
  <2>2. v \in ValuesOf("GW") /\ e.val \in Speeds
    BY <1>1, <1>5, SpeedsAssumption DEF ValuesOf, AdjustedOf
  <2> HIDE DEF v
  <2>3. p = Patch("GW", e.diff, v, NoRef, Unsaid)
    BY <1>1, <1>5 DEF Patch
  <2>4. SinglePatch(p)
    BY <1>1, <2>2, <2>3, OptsAre DEF SinglePatch
  <2> QED
    BY <2>1, <2>4
<1> QED
  BY <1>3, <1>4, <1>5, OptsAre

LEMMA EntryKinds ==
  ASSUME NEW e, IsEntry(e), e.opt = "DEV"
  PROVE  \E key \in Devs \cup {Ref} :
           \/ e = Entry(key, "del", Unsaid)
           \/ \E ttl \in Ttls \cup {Unsaid, Reset} : e = Entry(key, "add", ttl)
<1>1. e.opt \notin {"TEST", "RELOAD"} /\ e.opt \notin Singles
  BY OptsAre
<1> QED
  BY <1>1 DEF IsEntry

LEMMA PatchedAdd ==
  ASSUME NEW s, NetOK, NEW key \in Devs \cup {Ref}, NEW ttl \in Ttls \cup {Unsaid, Reset}
  PROVE  \/ key = Ref /\ Patched(s, Entry(key, "add", ttl)) = {}
         \/ \E p : /\ Patched(s, Entry(key, "add", ttl)) = {p} /\ AddPatch(p)
                   /\ key # Ref => p.val = key
<1> DEFINE e == Entry(key, "add", ttl)
<1>1. CASE key = Ref
  <2>1. e = Patch("DEV", "add", Unresolved, Ref, ttl)
    BY <1>1 DEF Entry
  <2>2. e.opt = "DEV" /\ e.ref # NoRef /\ e.diff = "add"
    BY <2>1 DEF Patch, Ref, NoRef
  <2> HIDE DEF e
  <2>3. Patched(s, e) = {[e EXCEPT !.val = net] : x \in {n \in {net} : n # Unresolved}}
    BY <2>2 DEF Patched
  <2>4. CASE net = Unresolved
    BY <1>1, <2>3, <2>4 DEF e
  <2>5. CASE net # Unresolved
    <3> DEFINE p == Patch("DEV", "add", net, Ref, ttl)
    <3>1. Patched(s, e) = {p}
      BY <2>1, <2>3, <2>5 DEF Patch
    <3>2. AddPatch(p)
      <4>1. net \in Devs /\ net # "a"
        BY <2>5 DEF NetOK
      <4> QED
        BY <4>1 DEF AddPatch
    <3> QED
      BY <1>1, <3>1, <3>2 DEF e
  <2> QED
    BY <2>4, <2>5
<1>2. CASE key # Ref
  <2>1. e = Patch("DEV", "add", key, NoRef, ttl)
    BY <1>2 DEF Entry
  <2>2. e.opt = "DEV" /\ e.ref = NoRef /\ e.diff = "add" /\ e.val = key
    BY <2>1 DEF Patch
  <2>3. AddPatch(e)
    BY <1>2, <2>1 DEF AddPatch, Ref, NoRef
  <2> HIDE DEF e
  <2>4. Patched(s, e) = {e}
    BY <2>2 DEF Patched
  <2> QED
    BY <2>2, <2>3, <2>4 DEF e
<1> QED
  BY <1>1, <1>2

LEMMA PatchedDel ==
  ASSUME NEW s, Good(s), NEW key \in Devs \cup {Ref}
  PROVE  \/ Patched(s, Entry(key, "del", Unsaid)) = {}
         \/ \E p : Patched(s, Entry(key, "del", Unsaid)) = {p} /\ DelPatch(s, p)
<1> DEFINE e == Entry(key, "del", Unsaid)
           D == s.track["DEV"]
<1>1. CASE key = Ref
  <2>1. e = Patch("DEV", "del", Unresolved, Ref, Unsaid)
    BY <1>1 DEF Entry
  <2>2. e.opt = "DEV" /\ e.ref = Ref /\ e.ref # NoRef /\ e.diff = "del"
    BY <2>1 DEF Patch, Ref, NoRef
  <2> HIDE DEF e
  <2>3. Patched(s, e) = {[e EXCEPT !.val = q.val] : q \in ByRef(s, e)}
    BY <2>2 DEF Patched
  <2>4. CASE ByRef(s, e) = {}
    BY <2>3, <2>4 DEF e
  <2>5. CASE ByRef(s, e) # {}
    <3>1. ByRef(s, e) = {q \in D : e.ref # NoRef /\ q.ref = e.ref}
      BY <2>2, DevFound
    <3>2. PICK q \in D : ByRef(s, e) = {q} /\ q.val \in Devs
      BY <2>5, <3>1, GoodDevs DEF Apart, ByName
    <3> DEFINE p == Patch("DEV", "del", q.val, Ref, Unsaid)
    <3>3. Patched(s, e) = {p}
      BY <2>1, <2>3, <3>2 DEF Patch
    <3>4. p.opt = "DEV" /\ p.ref = Ref /\ p.val = q.val
      BY DEF Patch
    <3>5. q \in ByRef(s, p)
      BY <2>2, <3>1, <3>2, <3>4, DevFound
    <3>6. DelPatch(s, p)
      BY <3>2, <3>5 DEF DelPatch
    <3> HIDE DEF p
    <3> QED
      BY <3>3, <3>6 DEF e
  <2> QED
    BY <2>4, <2>5
<1>2. CASE key # Ref
  <2>1. e = Patch("DEV", "del", key, NoRef, Unsaid)
    BY <1>2 DEF Entry
  <2>2. e.opt = "DEV" /\ e.ref = NoRef
    BY <2>1 DEF Patch
  <2>3. DelPatch(s, e)
    BY <1>2, <2>1 DEF DelPatch, Ref, NoRef
  <2> HIDE DEF e
  <2>4. Patched(s, e) = {e}
    BY <2>2 DEF Patched
  <2> QED
    BY <2>3, <2>4 DEF e
<1> QED
  BY <1>1, <1>2

(* The first device to be added is "a".                                       *)
Fits(s, e) == Equipped(s) \/ e.opt # "DEV" \/ e.diff = "del" \/ e.val = "a"

LEMMA RefusedKeeps ==
  ASSUME NEW s, Good(s), NEW r, r = Failure(s) \/ r = Failure(Dead(s))
  PROVE  r.ok = FALSE /\ Keeps(r, s)
<1>1. r.ok = FALSE /\ (r.s = s \/ r.s = Dead(s))
  BY Outcomes
<1> QED
  BY <1>1, DeadGood DEF Keeps

LEMMA CarriedSingle ==
  ASSUME NEW s, Good(s), NEW save \in BOOLEAN, NEW p, SinglePatch(p),
         NEW r, r = Carried("apply", s, save, p)
  PROVE  Keeps(r, s)
<1>1. PICK a : a = Apply("apply", s, save, p)
  OBVIOUS
<1>2. ~Distinct(s, p) /\ Rederived("apply", s, save, p) = s
  BY SinglePatchFields DEF Distinct, Rederived
<1>3. r = IF ~a.ok THEN a ELSE Track("apply", a.s, save, p)
  BY <1>1, <1>2 DEF Carried, Tracking
<1>4. a.ok \in BOOLEAN /\ (a.ok = FALSE => a.s = s)
  BY <1>1, ApplySingle
<1>5. CASE a.ok = FALSE
  <2>1. r = a
    BY <1>3, <1>5
  <2> QED
    BY <1>4, <1>5, <2>1 DEF Keeps
<1>6. CASE a.ok = TRUE
  <2>1. r = Track("apply", a.s, save, p)
    BY <1>3, <1>6
  <2>2. Succeeded(a)
    BY <1>6 DEF Succeeded
  <2> QED
    BY <1>1, <2>1, <2>2, SingleApplied
<1> QED
  BY <1>4, <1>5, <1>6

LEMMA CarriedAdd ==
  ASSUME NEW s, Good(s), NEW save, NEW p, AddPatch(p), Equipped(s) \/ p.val = "a",
         NEW r, r = Carried("apply", s, save, p)
  PROVE  Keeps(r, s) /\ (r.ok => Equipped(r.s))
<1>1. CASE Distinct(s, p)
  <2>1. r = Failure(Dead(s))
    BY <1>1 DEF Carried, Dead
  <2> QED
    BY <2>1, RefusedKeeps
<1>2. CASE ~Distinct(s, p)
  <2>1. PICK t : t = Rederived("apply", s, save, p)
    OBVIOUS
  <2>2. PICK a : a = Apply("apply", t, save, p)
    OBVIOUS
  <2>3. PICK u : u = Track("apply", a.s, save, p)
    OBVIOUS
  <2>4. Succeeded(a) /\ Keeps(u, s) /\ Equipped(u.s)
    BY <1>2, <2>1, <2>2, <2>3, AddGood
  <2>5. r = IF ~a.ok THEN a ELSE u
    BY <1>2, <2>1, <2>2, <2>3 DEF Carried, Tracking
  <2>6. r = u
    BY <2>4, <2>5 DEF Succeeded
  <2> QED
    BY <2>4, <2>6
<1> QED
  BY <1>1, <1>2

LEMMA CarriedDel ==
  ASSUME NEW s, Good(s), NEW save \in BOOLEAN, NEW p, DelPatch(s, p),
         NEW r, r = Carried("apply", s, save, p)
  PROVE  Keeps(r, s)
<1>1. CASE Distinct(s, p)
  <2>1. r = Failure(Dead(s))
    BY <1>1 DEF Carried, Dead
  <2> QED
    BY <2>1, RefusedKeeps
<1>2. CASE ~Distinct(s, p)
  <2> DEFINE a == Apply("apply", s, save, p)
             u == IF a.ok THEN Track("apply", a.s, save, p) ELSE a
  <2>1. /\ Rederived("apply", s, save, p) = s
        /\ u.ok \in BOOLEAN /\ Good(u.s) /\ (Equipped(s) => Equipped(u.s)) /\ u.s.fly = s.fly
    BY DelGood
  <2>2. r = IF ~a.ok THEN a ELSE Track("apply", a.s, save, p)
    BY <1>2, <2>1 DEF Carried, Tracking
  <2>3. r = u
    <3> HIDE DEF a
    <3> QED
      BY <2>2
  <2> HIDE DEF u
  <2> QED
    BY <2>1, <2>3 DEF Keeps
<1> QED
  BY <1>1, <1>2

LEMMA CallGood ==
  ASSUME NEW s, Good(s), NetOK, NEW save \in BOOLEAN, NEW e, IsEntry(e), e.opt \in Opts,
         Fits(s, e), NEW r, r = Call("apply", s, save, e)
  PROVE  Keeps(r, s) /\ (e.opt = "DEV" /\ e.diff = "add" /\ r.ok => Equipped(r.s))
<1>1. CASE Patched(s, e) = {}
  <2>1. r = Failure(s)
    BY <1>1, CallIs
  <2> QED
    BY <2>1, RefusedKeeps
<1>2. CASE e.opt \in Singles /\ Patched(s, e) # {}
  <2>1. PICK p : Patched(s, e) = {p} /\ SinglePatch(p)
    BY <1>2, PatchedSingle
  <2>2. r = Carried("apply", s, save, p)
    BY <2>1, CallIs
  <2>3. e.opt # "DEV"
    BY <1>2, OptsAre
  <2> QED
    BY <2>1, <2>2, <2>3, CarriedSingle
<1>3. CASE e.opt = "DEV" /\ Patched(s, e) # {}
  <2>1. PICK key \in Devs \cup {Ref} :
           \/ e = Entry(key, "del", Unsaid)
           \/ \E ttl \in Ttls \cup {Unsaid, Reset} : e = Entry(key, "add", ttl)
    BY <1>3, EntryKinds
  <2>2. CASE e = Entry(key, "del", Unsaid)
    <3>1. PICK p : Patched(s, e) = {p} /\ DelPatch(s, p)
      BY <1>3, <2>2, PatchedDel
    <3>2. r = Carried("apply", s, save, p)
      BY <3>1, CallIs
    <3>3. e.diff = "del"
      BY <2>2 DEF Entry, Patch
    <3> QED
      BY <3>1, <3>2, <3>3, CarriedDel
  <2>3. ASSUME NEW ttl \in Ttls \cup {Unsaid, Reset}, e = Entry(key, "add", ttl)
        PROVE  Keeps(r, s) /\ (r.ok => Equipped(r.s))
    <3>1. PICK p : Patched(s, e) = {p} /\ AddPatch(p) /\ (key # Ref => p.val = key)
      BY <1>3, <2>3, PatchedAdd
    <3>2. r = Carried("apply", s, save, p)
      BY <3>1, CallIs
    <3>3. Equipped(s) \/ p.val = "a"
      <4>1. e.opt = "DEV" /\ e.diff = "add" /\ (key # Ref => e.val = key)
            /\ (key = Ref => e.val = Unresolved)
        BY <2>3 DEF Entry, Patch
      <4>2. Unresolved # "a"
        BY DEF Unresolved
      <4> QED
        BY <3>1, <4>1, <4>2 DEF Fits
    <3> QED
      BY <3>1, <3>2, <3>3, CarriedAdd
  <2> QED
    BY <2>1, <2>2, <2>3
<1> QED
  BY <1>1, <1>2, <1>3, OptsAre
-----------------------------------------------------------------------------
(* The options one after the other: what holds before and passes every step   *)
(* holds afterwards.                                                          *)

(* The sections of the file.                                                  *)
SectionStep(cmd, s, x, k) ==
  IF x.ok THEN IF AllSections[k] \in file.DEV
               THEN Call(cmd, x.s, FALSE, Section(s, AllSections[k])) ELSE Ok(x.s)
  ELSE x

LEMMA SectionsWalk ==
  ASSUME NEW cmd, NEW s, NEW U, NEW T \in [0..8 -> SUBSET U], Ok(s) \in T[0],
         \A k \in 1..8 : \A x \in T[k - 1] : SectionStep(cmd, s, x, k) \in T[k]
  PROVE  LoadSections(cmd, s) \in T[8]
<1> DEFINE n == Len(AllSections)
           Go(x, k) == SectionStep(cmd, s, x, k)
           step == [y \in U \X (1..8) |-> Go(y[1], y[2])]
           Val(h, k) == IF k = 0 THEN Ok(s) ELSE Go(h[k - 1], k)
           Whole(h) == [k \in 0..n |-> Val(h, k)]
<1>1. n = 8
  BY DEF AllSections
<1>2. \A k \in 0..8 : k # 0 => k \in 1..8
  OBVIOUS
<1>3. \A x \in U : \A k \in 1..8 : step[<<x, k>>] = Go(x, k)
  <2> HIDE DEF Go
  <2> QED
    OBVIOUS
<1>4. PICK f : WalksThrough(f, U, T, Ok(s), 8, step)
  <2>1. \A k \in 1..8 : \A x \in T[k - 1] : step[<<x, k>>] \in T[k]
    <3>1. \A k \in 1..8 : k - 1 \in 0..8 /\ T[k - 1] \subseteq U
      OBVIOUS
    <3> HIDE DEF step
    <3> QED
      BY <1>3, <3>1
  <2>2. 8 \in Nat
    OBVIOUS
  <2> HIDE DEF step, Go
  <2> QED
    BY <2>1, <2>2, WalkThrough
<1>5. /\ f \in [0..8 -> U] /\ f[0] = Ok(s) /\ \A k \in 0..8 : f[k] \in T[k]
      /\ \A k \in 1..8 : f[k] = Go(f[k - 1], k)
  <2>1. \A k \in 1..8 : f[k - 1] \in U
    BY <1>4 DEF WalksThrough
  <2> HIDE DEF step, Go
  <2> QED
    BY <1>3, <1>4, <2>1 DEF WalksThrough
<1>6. f = Whole(f)
  <2>1. \A k \in 0..8 : f[k] = Val(f, k)
    <3> HIDE DEF Go
    <3> QED
      BY <1>2, <1>5
  <2> HIDE DEF Val, n
  <2> QED
    BY <1>1, <1>5, <2>1
<1> DEFINE g == CHOOSE h : h = Whole(h)
<1>7. g = Whole(g)
  BY <1>6, Zenon
<1>8. LoadSections(cmd, s) = g[n]
  BY DEF LoadSections, EachOf, SectionStep
<1> HIDE DEF g
<1>9. g[0] = Ok(s) /\ \A k \in 1..8 : g[k] = Go(g[k - 1], k)
  <2>1. \A k \in 0..8 : g[k] = Val(g, k)
    <3> HIDE DEF Val, n
    <3> QED
      BY <1>1, <1>7
  <2> HIDE DEF Go
  <2> QED
    BY <2>1
<1>10. g[8] = f[8]
  <2>1. g[0] = f[0] /\ \A k \in 1..8 : g[k - 1] = f[k - 1] => g[k] = f[k]
    <3> HIDE DEF Go
    <3> QED
      BY <1>5, <1>9
  <2>2. 8 \in Nat
    OBVIOUS
  <2> HIDE DEF Go
  <2> QED
    BY <2>1, <2>2, WalkUnique
<1> QED
  BY <1>1, <1>5, <1>8, <1>10

(* The devices no section has mentioned.                                      *)
RemovalStep(cmd, gone, x, k) ==
  IF x.ok THEN IF \E q \in gone : q.val = <<"a", "b", "c">>[k]
               THEN Call(cmd, x.s, FALSE, Entry(<<"a", "b", "c">>[k], "del", Unsaid)) ELSE Ok(x.s)
  ELSE x

LEMMA RemovalWalk ==
  ASSUME NEW cmd, NEW s, NEW gone, NEW U, NEW T \in [0..3 -> SUBSET U], Ok(s) \in T[0],
         \A k \in 1..3 : \A x \in T[k - 1] : RemovalStep(cmd, gone, x, k) \in T[k]
  PROVE  RemoveDevs(cmd, s, gone) \in T[3]
<1> DEFINE n == Len(<<"a", "b", "c">>)
           Go(x, k) == RemovalStep(cmd, gone, x, k)
           step == [y \in U \X (1..3) |-> Go(y[1], y[2])]
           Val(h, k) == IF k = 0 THEN Ok(s) ELSE Go(h[k - 1], k)
           Whole(h) == [k \in 0..n |-> Val(h, k)]
<1>1. n = 3
  OBVIOUS
<1>2. \A k \in 0..3 : k # 0 => k \in 1..3
  OBVIOUS
<1>3. \A x \in U : \A k \in 1..3 : step[<<x, k>>] = Go(x, k)
  <2> HIDE DEF Go
  <2> QED
    OBVIOUS
<1>4. PICK f : WalksThrough(f, U, T, Ok(s), 3, step)
  <2>1. \A k \in 1..3 : \A x \in T[k - 1] : step[<<x, k>>] \in T[k]
    <3>1. \A k \in 1..3 : k - 1 \in 0..3 /\ T[k - 1] \subseteq U
      OBVIOUS
    <3> HIDE DEF step
    <3> QED
      BY <1>3, <3>1
  <2>2. 3 \in Nat
    OBVIOUS
  <2> HIDE DEF step, Go
  <2> QED
    BY <2>1, <2>2, WalkThrough
<1>5. /\ f \in [0..3 -> U] /\ f[0] = Ok(s) /\ \A k \in 0..3 : f[k] \in T[k]
      /\ \A k \in 1..3 : f[k] = Go(f[k - 1], k)
  <2>1. \A k \in 1..3 : f[k - 1] \in U
    BY <1>4 DEF WalksThrough
  <2> HIDE DEF step, Go
  <2> QED
    BY <1>3, <1>4, <2>1 DEF WalksThrough
<1>6. f = Whole(f)
  <2>1. \A k \in 0..3 : f[k] = Val(f, k)
    <3> HIDE DEF Go
    <3> QED
      BY <1>2, <1>5
  <2> HIDE DEF Val, n
  <2> QED
    BY <1>1, <1>5, <2>1
<1> DEFINE g == CHOOSE h : h = Whole(h)
<1>7. g = Whole(g)
  BY <1>6, Zenon
<1>8. RemoveDevs(cmd, s, gone) = g[n]
  BY DEF RemoveDevs, EachOf, RemovalStep
<1> HIDE DEF g
<1>9. g[0] = Ok(s) /\ \A k \in 1..3 : g[k] = Go(g[k - 1], k)
  <2>1. \A k \in 0..3 : g[k] = Val(g, k)
    <3> HIDE DEF Val, n
    <3> QED
      BY <1>1, <1>7
  <2> HIDE DEF Go
  <2> QED
    BY <2>1
<1>10. g[3] = f[3]
  <2>1. g[0] = f[0] /\ \A k \in 1..3 : g[k - 1] = f[k - 1] => g[k] = f[k]
    <3> HIDE DEF Go
    <3> QED
      BY <1>5, <1>9
  <2>2. 3 \in Nat
    OBVIOUS
  <2> HIDE DEF Go
  <2> QED
    BY <2>1, <2>2, WalkUnique
<1> QED
  BY <1>1, <1>5, <1>8, <1>10

(* The options of the file.                                                   *)
OrderStep(cmd, first, last, x, k) ==
  IF x.ok THEN IF OrderOf(ListOrder[k]) \in first..last
               THEN Load(cmd, x.s, ListOrder[k]) ELSE Ok(x.s)
  ELSE x

LEMMA OrdersWalk ==
  ASSUME NEW cmd, NEW s, NEW first, NEW last, NEW U, NEW T \in [0..5 -> SUBSET U], Ok(s) \in T[0],
         \A k \in 1..5 : \A x \in T[k - 1] : OrderStep(cmd, first, last, x, k) \in T[k]
  PROVE  LoadOrders(cmd, s, first, last) \in T[5]
<1> DEFINE n == Len(ListOrder)
           Go(x, k) == OrderStep(cmd, first, last, x, k)
           step == [y \in U \X (1..5) |-> Go(y[1], y[2])]
           Val(h, k) == IF k = 0 THEN Ok(s) ELSE Go(h[k - 1], k)
           Whole(h) == [k \in 0..n |-> Val(h, k)]
<1>1. n = 5
  BY DEF ListOrder
<1>2. \A k \in 0..5 : k # 0 => k \in 1..5
  OBVIOUS
<1>3. \A x \in U : \A k \in 1..5 : step[<<x, k>>] = Go(x, k)
  <2> HIDE DEF Go
  <2> QED
    OBVIOUS
<1>4. PICK f : WalksThrough(f, U, T, Ok(s), 5, step)
  <2>1. \A k \in 1..5 : \A x \in T[k - 1] : step[<<x, k>>] \in T[k]
    <3>1. \A k \in 1..5 : k - 1 \in 0..5 /\ T[k - 1] \subseteq U
      OBVIOUS
    <3> HIDE DEF step
    <3> QED
      BY <1>3, <3>1
  <2>2. 5 \in Nat
    OBVIOUS
  <2> HIDE DEF step, Go
  <2> QED
    BY <2>1, <2>2, WalkThrough
<1>5. /\ f \in [0..5 -> U] /\ f[0] = Ok(s) /\ \A k \in 0..5 : f[k] \in T[k]
      /\ \A k \in 1..5 : f[k] = Go(f[k - 1], k)
  <2>1. \A k \in 1..5 : f[k - 1] \in U
    BY <1>4 DEF WalksThrough
  <2> HIDE DEF step, Go
  <2> QED
    BY <1>3, <1>4, <2>1 DEF WalksThrough
<1>6. f = Whole(f)
  <2>1. \A k \in 0..5 : f[k] = Val(f, k)
    <3> HIDE DEF Go
    <3> QED
      BY <1>2, <1>5
  <2> HIDE DEF Val, n
  <2> QED
    BY <1>1, <1>5, <2>1
<1> DEFINE g == CHOOSE h : h = Whole(h)
<1>7. g = Whole(g)
  BY <1>6, Zenon
<1>8. LoadOrders(cmd, s, first, last) = g[n]
  BY DEF LoadOrders, EachOf, OrderStep
<1> HIDE DEF g
<1>9. g[0] = Ok(s) /\ \A k \in 1..5 : g[k] = Go(g[k - 1], k)
  <2>1. \A k \in 0..5 : g[k] = Val(g, k)
    <3> HIDE DEF Val, n
    <3> QED
      BY <1>1, <1>7
  <2> HIDE DEF Go
  <2> QED
    BY <2>1
<1>10. g[5] = f[5]
  <2>1. g[0] = f[0] /\ \A k \in 1..5 : g[k - 1] = f[k - 1] => g[k] = f[k]
    <3> HIDE DEF Go
    <3> QED
      BY <1>5, <1>9
  <2>2. 5 \in Nat
    OBVIOUS
  <2> HIDE DEF Go
  <2> QED
    BY <2>1, <2>2, WalkUnique
<1> QED
  BY <1>1, <1>5, <1>8, <1>10

-----------------------------------------------------------------------------
(* The file is read.                                                          *)

(* A call returns whether it succeeded and the state it leaves behind.        *)
IsOutcome(r) == \E ok, t : r = [ok |-> ok, s |-> t]

LEMMA CallOutcome ==
  ASSUME NEW cmd, NEW s, NEW save, NEW e
  PROVE  IsOutcome(Call(cmd, s, save, e))
<1>1. \A t : IsOutcome(Ok(t)) /\ IsOutcome(Failure(t))
  BY DEF IsOutcome, Ok, Failure
<1>2. \A t, p : IsOutcome(Apply(cmd, t, save, p))
  <2> TAKE t, p
  <2>1. \E u : Apply(cmd, t, save, p) = Ok(u) \/ Apply(cmd, t, save, p) = Failure(u)
    BY DEF Apply
  <2> QED
    BY <1>1, <2>1
<1>3. \A t, p : IsOutcome(Track(cmd, t, save, p))
  <2> TAKE t, p
  <2> DEFINE r == Track(cmd, t, save, p)
  <2>1. r = [ok |-> ~save, s |-> t] \/ \E u : r = Ok(u) \/ r = Failure(u)
    BY DEF Track
  <2>2. IsOutcome([ok |-> ~save, s |-> t])
    BY DEF IsOutcome
  <2> HIDE DEF r
  <2>3. IsOutcome(r)
    BY <1>1, <2>1, <2>2
  <2> QED
    BY <2>3 DEF r
<1>4. \A p : IsOutcome(Carried(cmd, s, save, p))
  BY <1>1, <1>2, <1>3 DEF Carried, Tracking
<1>5. CASE Patched(s, e) = {}
  BY <1>1, <1>5, CallIs
<1>6. CASE Patched(s, e) # {}
  <2>1. PICK p : Call(cmd, s, save, e) = Carried(cmd, s, save, p)
    BY <1>6, CallIs
  <2> QED
    BY <1>4, <2>1
<1> QED
  BY <1>5, <1>6

(* What a check may return, and what a good application returns.              *)
Outs == [ok : BOOLEAN, s : States]
CheckedOf(s) == {r \in [ok : BOOLEAN, s : {s, Dead(s)}] : r.ok => r.s = s}
KeptOf(s) == {r \in Outs : Keeps(r, s)}

LEMMA CheckedIn ==
  ASSUME NEW s
  PROVE  /\ Ok(s) \in CheckedOf(s)
         /\ \A r : IsOutcome(r) /\ Checked(r, s) => r \in CheckedOf(s)
         /\ \A r \in CheckedOf(s) : r.ok \in BOOLEAN /\ r.s \in {s, Dead(s)} /\ (r.ok => r.s = s)
BY DEF CheckedOf, IsOutcome, Checked, Ok

LEMMA KeptIn ==
  ASSUME NEW s, Good(s)
  PROVE  /\ Ok(s) \in KeptOf(s)
         /\ \A r : IsOutcome(r) /\ Keeps(r, s) => r \in KeptOf(s)
         /\ \A r \in KeptOf(s) : Keeps(r, s)
<1>1. Ok(s) \in Outs /\ Keeps(Ok(s), s)
  BY DEF Good, Outs, Keeps, Ok
<1>2. ASSUME NEW r, IsOutcome(r), Keeps(r, s) PROVE r \in Outs
  <2>1. r.ok \in BOOLEAN /\ r.s \in States
    BY <1>2 DEF Keeps, Good
  <2>2. r = [ok |-> r.ok, s |-> r.s]
    BY <1>2 DEF IsOutcome
  <2> QED
    BY <2>1, <2>2 DEF Outs
<1> QED
  BY <1>1, <1>2 DEF KeptOf

(* One after the other.                                                       *)
LEMMA KeptOn ==
  ASSUME NEW s, NEW r, Keeps(r, s), NEW x, x \in KeptOf(r.s)
  PROVE  x \in KeptOf(s)
BY DEF Keeps, KeptOf

LEMMA CallChecked ==
  ASSUME NEW s, NEW e
  PROVE  Call("check", s, FALSE, e) \in CheckedOf(s)
<1>1. FALSE \in BOOLEAN
  OBVIOUS
<1>2. Checked(Call("check", s, FALSE, e), s)
  BY <1>1, CheckCall
<1> QED
  BY <1>2, CallOutcome, CheckedIn

LEMMA CallKept ==
  ASSUME NEW s, Good(s), NetOK, NEW save \in BOOLEAN, NEW e, IsEntry(e), e.opt \in Opts, Fits(s, e)
  PROVE  /\ Call("apply", s, save, e) \in KeptOf(s)
         /\ e.opt = "DEV" /\ e.diff = "add" /\ Succeeded(Call("apply", s, save, e)) =>
              Equipped(Call("apply", s, save, e).s)
<1> DEFINE r == Call("apply", s, save, e)
<1>1. PICK x : x = r
  OBVIOUS
<1>2. Keeps(x, s) /\ (e.opt = "DEV" /\ e.diff = "add" /\ x.ok => Equipped(x.s))
  BY <1>1, CallGood
<1>3. IsOutcome(x)
  BY <1>1, CallOutcome
<1>4. x \in KeptOf(s)
  BY <1>2, <1>3, KeptIn
<1> QED
  BY <1>1, <1>2, <1>4 DEF Succeeded

(* A single option.                                                           *)
LEMMA DefaultEntry ==
  ASSUME NEW o \in Singles, NEW v \in ValuesOf(o), NEW diff \in {"add", "del"}
  PROVE  /\ IsEntry(Patch(o, diff, v, NoRef, Unsaid)) /\ Patch(o, diff, v, NoRef, Unsaid).opt = o
         /\ o \in Opts /\ o # "DEV"
BY OptsAre DEF IsEntry, Patch

LEMMA LoadSingleChecked ==
  ASSUME NEW s, NEW o
  PROVE  LoadSingle("check", s, o) \in CheckedOf(s)
<1>1. \/ \E e : LoadSingle("check", s, o) = Call("check", s, FALSE, e)
      \/ LoadSingle("check", s, o) = Ok(s)
  BY DEF LoadSingle
<1> QED
  BY <1>1, CallChecked, CheckedIn

LEMMA LoadSingleKept ==
  ASSUME NEW s, Good(s), NetOK, FileOK(file), NEW o \in Singles
  PROVE  LoadSingle("apply", s, o) \in KeptOf(s)
<1>1. ASSUME NEW v \in ValuesOf(o), NEW diff \in {"add", "del"}
      PROVE  Call("apply", s, FALSE, Patch(o, diff, v, NoRef, Unsaid)) \in KeptOf(s)
  <2> DEFINE e == Patch(o, diff, v, NoRef, Unsaid)
  <2>1. IsEntry(e) /\ e.opt = o /\ o \in Opts /\ o # "DEV" /\ FALSE \in BOOLEAN
    BY DefaultEntry
  <2> HIDE DEF e
  <2>2. Fits(s, e)
    BY <2>1 DEF Fits
  <2>3. Call("apply", s, FALSE, e) \in KeptOf(s)
    BY <2>1, <2>2, CallKept
  <2> QED
    BY <2>3 DEF e
<1>2. CASE file[o] # {}
  <2> DEFINE v == (CHOOSE r \in file[o] : TRUE).key
  <2>1. v \in ValuesOf(o)
    <3>1. o \in Opts /\ KeysOf(o) = ValuesOf(o)
      BY ValuesAre, DefaultTyped, OptsAre
    <3> QED
      BY <1>2, <3>1 DEF FileOK
  <2>2. LoadSingle("apply", s, o) = Call("apply", s, FALSE, Patch(o, "add", v, NoRef, Unsaid))
    BY <1>2 DEF LoadSingle, Single
  <2> HIDE DEF v
  <2> QED
    BY <1>1, <2>1, <2>2
<1>3. CASE file[o] = {} /\ s.fly
  <2>1. LoadSingle("apply", s, o) = Call("apply", s, FALSE, Patch(o, "del", Default[o], NoRef, Unsaid))
    BY <1>3 DEF LoadSingle, Single
  <2> QED
    BY <1>1, <2>1, DefaultTyped
<1>4. CASE file[o] = {} /\ ~s.fly
  <2>1. LoadSingle("apply", s, o) = Ok(s)
    BY <1>4 DEF LoadSingle
  <2> QED
    BY <2>1, KeptIn
<1> QED
  BY <1>2, <1>3, <1>4

(* The sections of the devices: the first device's are read first.            *)
LEMMA SectionsAre ==
  /\ \A k \in 1..8 : AllSections[k] \in Saved /\ AllSections[k].key \in Devs \cup {Ref}
  /\ AllSections[1] = [key |-> "a", ttl |-> NoTtl]
  /\ AllSections[2] = [key |-> "a", ttl |-> "short"]
<1>1. \A k \in 1..8 : (k + 1) \div 2 \in 1..4
  OBVIOUS
<1>2. \A j \in 1..4 : <<"a", Ref, "b", "c">>[j] \in {"a", "b", "c", Ref}
  OBVIOUS
<1>3. \A k \in 1..8 : /\ AllSections[k].key \in {"a", "b", "c", Ref}
                      /\ AllSections[k] = [key |-> AllSections[k].key, ttl |-> AllSections[k].ttl]
                      /\ AllSections[k].ttl \in {"short", NoTtl}
  BY <1>1, <1>2 DEF AllSections
<1>4. \A k \in 1..8 : AllSections[k] \in Saved
  BY <1>3 DEF Saved, Marks, Ttls, Devs, AnyVal
<1>5. AllSections[1] = [key |-> "a", ttl |-> NoTtl] /\ AllSections[2] = [key |-> "a", ttl |-> "short"]
  BY DEF AllSections
<1> QED
  BY <1>3, <1>4, <1>5 DEF Devs

LEMMA SectionEntry ==
  ASSUME NEW s, NEW r, r.key \in Devs \cup {Ref}, r.ttl \in Marks
  PROVE  /\ IsEntry(Section(s, r)) /\ Section(s, r).opt = "DEV" /\ Section(s, r).diff = "add"
         /\ r.key = "a" => Section(s, r).val = "a"
<1> DEFINE ttl == IF r.ttl # NoTtl THEN r.ttl ELSE IF s.fly THEN Reset ELSE Unsaid
<1>1. ttl \in Ttls \cup {Unsaid, Reset}
  BY DEF Marks
<1>2. Section(s, r) = Entry(r.key, "add", ttl)
  BY DEF Section
<1> HIDE DEF ttl
<1>3. IsEntry(Entry(r.key, "add", ttl))
  BY <1>1 DEF IsEntry
<1>4. Entry(r.key, "add", ttl).opt = "DEV" /\ Entry(r.key, "add", ttl).diff = "add"
      /\ (r.key # Ref => Entry(r.key, "add", ttl).val = r.key)
  BY DEF Entry, Patch
<1>5. "a" # Ref
  BY DEF Ref
<1> QED
  BY <1>2, <1>3, <1>4, <1>5

LEMMA SectionsChecked ==
  ASSUME NEW s
  PROVE  LoadSections("check", s) \in CheckedOf(s)
<1> DEFINE C == CheckedOf(s)
           T == [k \in 0..8 |-> C]
<1>1. T \in [0..8 -> SUBSET C] /\ Ok(s) \in T[0]
  <2>1. Ok(s) \in C
    BY CheckedIn
  <2> HIDE DEF C
  <2> QED
    BY <2>1
<1>2. ASSUME NEW k \in 1..8, NEW x \in T[k - 1]
      PROVE  SectionStep("check", s, x, k) \in T[k]
  <2>1. x \in CheckedOf(s)
    OBVIOUS
  <2>2. x.ok \in BOOLEAN /\ (x.ok => x.s = s)
    BY <2>1, CheckedIn
  <2>3. SectionStep("check", s, x, k) \in CheckedOf(s)
    BY <2>1, <2>2, CallChecked, CheckedIn DEF SectionStep
  <2> QED
    BY <2>3
<1>3. LoadSections("check", s) \in T[8]
  <2> HIDE DEF T, C
  <2> QED
    BY <1>1, <1>2, SectionsWalk
<1> QED
  BY <1>3

(* Once they are read there is a device.                                      *)
Begun(x, k) ==
  x.ok /\ (k >= 2 \/ (k = 1 /\ AllSections[1] \in file["DEV"])) => Equipped(x.s)
SectionsOf(s, k) == {x \in KeptOf(s) : Begun(x, k)}

LEMMA SectionKept ==
  ASSUME NEW s, Good(s), NetOK, FileOK(file), NEW k \in 1..8, NEW x \in SectionsOf(s, k - 1)
  PROVE  SectionStep("apply", s, x, k) \in SectionsOf(s, k)
<1> DEFINE e == Section(s, AllSections[k])
           y == Call("apply", x.s, FALSE, e)
<1>1. x \in KeptOf(s) /\ Keeps(x, s) /\ Good(x.s) /\ x.ok \in BOOLEAN /\ Begun(x, k - 1)
  BY KeptIn DEF SectionsOf, Keeps
<1>2. CASE x.ok = FALSE
  <2>1. SectionStep("apply", s, x, k) = x
    BY <1>2 DEF SectionStep
  <2> QED
    BY <1>1, <1>2, <2>1 DEF SectionsOf, Begun
<1>3. CASE x.ok = TRUE /\ AllSections[k] \in file["DEV"]
  <2>1. SectionStep("apply", s, x, k) = y
    BY <1>3 DEF SectionStep
  <2>2. IsEntry(e) /\ e.opt = "DEV" /\ e.diff = "add" /\ e.opt \in Opts
        /\ (AllSections[k].key = "a" => e.val = "a")
    BY SectionsAre, SectionEntry, OptsAre DEF Saved
  <2>3. Fits(x.s, e)
    <3>1. CASE k = 1 \/ k = 2
      <4>1. AllSections[k].key = "a"
        BY <3>1, SectionsAre
      <4> QED
        BY <2>2, <4>1 DEF Fits
    <3>2. CASE k >= 3
      <4>1. k - 1 >= 2
        BY <3>2
      <4>2. Equipped(x.s)
        BY <1>1, <1>3, <4>1 DEF Begun
      <4> QED
        BY <4>2 DEF Fits
    <3> QED
      BY <3>1, <3>2
  <2>4. FALSE \in BOOLEAN
    OBVIOUS
  <2> HIDE DEF e
  <2>5. y \in KeptOf(x.s) /\ (Succeeded(y) => Equipped(y.s))
    BY <1>1, <2>2, <2>3, <2>4, CallKept
  <2> HIDE DEF y
  <2>6. y \in KeptOf(s)
    BY <1>1, <2>5, KeptOn
  <2>7. y.ok \in BOOLEAN
    BY <2>6, KeptIn DEF Keeps
  <2> QED
    BY <2>1, <2>5, <2>6, <2>7 DEF SectionsOf, Begun, Succeeded
<1>4. CASE x.ok = TRUE /\ AllSections[k] \notin file["DEV"]
  <2> DEFINE z == Ok(x.s)
  <2>1. SectionStep("apply", s, x, k) = z
    BY <1>4 DEF SectionStep
  <2>2. z \in KeptOf(x.s) /\ z.s = x.s
    BY <1>1, KeptIn, Outcomes
  <2> HIDE DEF z
  <2>3. z \in KeptOf(s)
    BY <1>1, <2>2, KeptOn
  <2>4. k # 1 => Equipped(x.s)
    <3>1. CASE k = 2
      <4>1. \E r \in file["DEV"] : r.key = "a" /\ r \in Saved
        BY OptsAre DEF FileOK
      <4>2. AllSections[1] \in file["DEV"]
        BY <1>4, <3>1, <4>1, SectionsAre DEF Saved, Marks, Ttls
      <4> QED
        BY <1>1, <1>4, <3>1, <4>2 DEF Begun
    <3>2. CASE k >= 3
      <4>1. k - 1 >= 2
        BY <3>2
      <4> QED
        BY <1>1, <1>4, <4>1 DEF Begun
    <3> QED
      BY <3>1, <3>2
  <2>5. Begun(z, k)
    BY <1>4, <2>2, <2>4 DEF Begun
  <2> QED
    BY <2>1, <2>3, <2>5 DEF SectionsOf
<1> QED
  BY <1>1, <1>2, <1>3, <1>4

LEMMA SectionsKept ==
  ASSUME NEW s, Good(s), NetOK, FileOK(file)
  PROVE  /\ LoadSections("apply", s) \in KeptOf(s)
         /\ LoadSections("apply", s).ok => Equipped(LoadSections("apply", s).s)
<1> DEFINE T == [k \in 0..8 |-> SectionsOf(s, k)]
<1>1. T \in [0..8 -> SUBSET KeptOf(s)]
  BY DEF SectionsOf
<1>2. Ok(s) \in T[0]
  BY KeptIn DEF SectionsOf, Begun
<1>3. \A k \in 1..8 : \A x \in T[k - 1] : SectionStep("apply", s, x, k) \in T[k]
  <2>1. \A k \in 1..8 : T[k - 1] = SectionsOf(s, k - 1) /\ T[k] = SectionsOf(s, k)
    OBVIOUS
  <2> HIDE DEF T
  <2> QED
    BY <2>1, SectionKept
<1>4. LoadSections("apply", s) \in T[8]
  <2> HIDE DEF T
  <2> QED
    BY <1>1, <1>2, <1>3, SectionsWalk
<1>5. LoadSections("apply", s) \in SectionsOf(s, 8)
  BY <1>4
<1> QED
  BY <1>5 DEF SectionsOf, Begun

(* The devices no section has mentioned.                                      *)
LEMMA RemovalEntry ==
  ASSUME NEW k \in 1..3, NEW s
  PROVE  LET e == Entry(<<"a", "b", "c">>[k], "del", Unsaid)
         IN  IsEntry(e) /\ e.opt \in Opts /\ Fits(s, e)
<1> DEFINE d == <<"a", "b", "c">>[k]
           e == Entry(d, "del", Unsaid)
<1>1. d \in Devs
  BY DEF Devs
<1> HIDE DEF d
<1>2. IsEntry(e)
  BY <1>1 DEF IsEntry
<1>3. e.opt = "DEV" /\ e.diff = "del"
  BY DEF Entry, Patch
<1>4. e.opt \in Opts /\ Fits(s, e)
  BY <1>3, OptsAre DEF Fits
<1> QED
  BY <1>2, <1>4 DEF d

LEMMA RemovalChecked ==
  ASSUME NEW s, NEW gone
  PROVE  RemoveDevs("check", s, gone) \in CheckedOf(s)
<1> DEFINE C == CheckedOf(s)
           T == [k \in 0..3 |-> C]
<1>1. T \in [0..3 -> SUBSET C] /\ Ok(s) \in T[0]
  <2>1. Ok(s) \in C
    BY CheckedIn
  <2> HIDE DEF C
  <2> QED
    BY <2>1
<1>2. ASSUME NEW k \in 1..3, NEW x \in T[k - 1]
      PROVE  RemovalStep("check", gone, x, k) \in T[k]
  <2>1. x \in CheckedOf(s)
    OBVIOUS
  <2>2. x.ok \in BOOLEAN /\ (x.ok => x.s = s)
    BY <2>1, CheckedIn
  <2>3. RemovalStep("check", gone, x, k) \in CheckedOf(s)
    BY <2>1, <2>2, CallChecked, CheckedIn DEF RemovalStep
  <2> QED
    BY <2>3
<1>3. RemoveDevs("check", s, gone) \in T[3]
  <2> HIDE DEF T, C
  <2> QED
    BY <1>1, <1>2, RemovalWalk
<1> QED
  BY <1>3

LEMMA RemovalKept ==
  ASSUME NEW s, Good(s), NetOK, NEW gone
  PROVE  RemoveDevs("apply", s, gone) \in KeptOf(s)
<1> DEFINE C == KeptOf(s)
           T == [k \in 0..3 |-> C]
<1>1. T \in [0..3 -> SUBSET C] /\ Ok(s) \in T[0]
  <2>1. Ok(s) \in C
    BY KeptIn
  <2> HIDE DEF C
  <2> QED
    BY <2>1
<1>2. ASSUME NEW k \in 1..3, NEW x \in T[k - 1]
      PROVE  RemovalStep("apply", gone, x, k) \in T[k]
  <2> DEFINE e == Entry(<<"a", "b", "c">>[k], "del", Unsaid)
  <2>1. x \in KeptOf(s)
    OBVIOUS
  <2>2. Keeps(x, s) /\ Good(x.s)
    BY <2>1, KeptIn DEF Keeps
  <2>3. IsEntry(e) /\ e.opt \in Opts /\ Fits(x.s, e) /\ FALSE \in BOOLEAN
    BY RemovalEntry
  <2>4. \/ RemovalStep("apply", gone, x, k) = Call("apply", x.s, FALSE, e)
        \/ RemovalStep("apply", gone, x, k) = Ok(x.s)
        \/ RemovalStep("apply", gone, x, k) = x
    BY DEF RemovalStep
  <2> HIDE DEF e
  <2>5. Call("apply", x.s, FALSE, e) \in KeptOf(x.s) /\ Ok(x.s) \in KeptOf(x.s)
    BY <2>2, <2>3, CallKept, KeptIn
  <2>6. RemovalStep("apply", gone, x, k) \in KeptOf(s)
    BY <2>1, <2>2, <2>4, <2>5, KeptOn
  <2> QED
    BY <2>6
<1>3. RemoveDevs("apply", s, gone) \in T[3]
  <2> HIDE DEF T, C
  <2> QED
    BY <1>1, <1>2, RemovalWalk
<1> QED
  BY <1>3

(* An option.                                                                 *)
LEMMA LoadIs ==
  ASSUME NEW cmd, NEW s
  PROVE  /\ \A o : o # "DEV" => Load(cmd, s, o) = LoadSingle(cmd, s, o)
         /\ LoadSections(cmd, s).ok => \E gone :
              Load(cmd, s, "DEV") = RemoveDevs(cmd, LoadSections(cmd, s).s, gone)
         /\ ~LoadSections(cmd, s).ok => Load(cmd, s, "DEV") = LoadSections(cmd, s)
BY DEF Load

LEMMA LoadChecked ==
  ASSUME NEW s, NEW o
  PROVE  Load("check", s, o) \in CheckedOf(s)
<1> DEFINE l == LoadSections("check", s)
<1>1. CASE o # "DEV"
  <2>1. Load("check", s, o) = LoadSingle("check", s, o)
    BY <1>1, LoadIs
  <2> QED
    BY <2>1, LoadSingleChecked
<1>2. CASE o = "DEV"
  <2>1. l \in CheckedOf(s) /\ l.ok \in BOOLEAN /\ (l.ok => l.s = s)
    BY SectionsChecked, CheckedIn
  <2>2. /\ l.ok => \E gone : Load("check", s, o) = RemoveDevs("check", l.s, gone)
        /\ ~l.ok => Load("check", s, o) = l
    BY <1>2, LoadIs
  <2> HIDE DEF l
  <2> QED
    BY <2>1, <2>2, RemovalChecked
<1> QED
  BY <1>1, <1>2

LEMMA LoadKept ==
  ASSUME NEW s, Good(s), NetOK, FileOK(file), NEW o \in Opts
  PROVE  /\ Load("apply", s, o) \in KeptOf(s)
         /\ o = "DEV" /\ Load("apply", s, o).ok => Equipped(Load("apply", s, o).s)
<1> DEFINE l == LoadSections("apply", s)
<1>1. CASE o # "DEV"
  <2>1. Load("apply", s, o) = LoadSingle("apply", s, o) /\ o \in Singles
    BY <1>1, LoadIs DEF Singles
  <2> QED
    BY <1>1, <2>1, LoadSingleKept
<1>2. CASE o = "DEV"
  <2>1. l \in KeptOf(s) /\ Keeps(l, s) /\ Good(l.s) /\ l.ok \in BOOLEAN /\ (l.ok => Equipped(l.s))
    BY SectionsKept, KeptIn DEF Keeps
  <2>2. /\ l.ok => \E gone : Load("apply", s, o) = RemoveDevs("apply", l.s, gone)
        /\ ~l.ok => Load("apply", s, o) = l
    BY <1>2, LoadIs
  <2> HIDE DEF l
  <2>3. CASE l.ok = FALSE
    BY <2>1, <2>2, <2>3
  <2>4. CASE l.ok = TRUE
    <3>1. PICK gone : Load("apply", s, o) = RemoveDevs("apply", l.s, gone)
      BY <2>2, <2>4
    <3>2. Load("apply", s, o) \in KeptOf(l.s)
      BY <2>1, <3>1, RemovalKept
    <3>3. Equipped(Load("apply", s, o).s)
      BY <2>1, <2>4, <3>2, KeptIn DEF Keeps
    <3> QED
      BY <2>1, <3>2, <3>3, KeptOn
  <2> QED
    BY <2>1, <2>3, <2>4
<1> QED
  BY <1>1, <1>2

LEMMA OrdersChecked ==
  ASSUME NEW s, NEW first, NEW last
  PROVE  LoadOrders("check", s, first, last) \in CheckedOf(s)
<1> DEFINE C == CheckedOf(s)
           T == [k \in 0..5 |-> C]
<1>1. T \in [0..5 -> SUBSET C] /\ Ok(s) \in T[0]
  <2>1. Ok(s) \in C
    BY CheckedIn
  <2> HIDE DEF C
  <2> QED
    BY <2>1
<1>2. ASSUME NEW k \in 1..5, NEW x \in T[k - 1]
      PROVE  OrderStep("check", first, last, x, k) \in T[k]
  <2>1. x \in CheckedOf(s)
    OBVIOUS
  <2>2. x.ok \in BOOLEAN /\ (x.ok => x.s = s)
    BY <2>1, CheckedIn
  <2>3. OrderStep("check", first, last, x, k) \in CheckedOf(s)
    BY <2>1, <2>2, LoadChecked, CheckedIn DEF OrderStep
  <2> QED
    BY <2>3
<1>3. LoadOrders("check", s, first, last) \in T[5]
  <2> HIDE DEF T, C
  <2> QED
    BY <1>1, <1>2, OrdersWalk
<1> QED
  BY <1>3

(* Once the devices are loaded there is one.                                  *)
Provided(x, first, last, k) == x.ok /\ k >= 3 /\ 5 \in first..last => Equipped(x.s)
OrdersOf(s, first, last, k) == {x \in KeptOf(s) : Provided(x, first, last, k)}

LEMMA OrderKept ==
  ASSUME NEW s, Good(s), NetOK, FileOK(file), NEW first, NEW last, NEW k \in 1..5,
         NEW x \in OrdersOf(s, first, last, k - 1)
  PROVE  OrderStep("apply", first, last, x, k) \in OrdersOf(s, first, last, k)
<1> DEFINE o == ListOrder[k]
           y == Load("apply", x.s, o)
<1>1. x \in KeptOf(s) /\ Keeps(x, s) /\ Good(x.s) /\ x.ok \in BOOLEAN
      /\ Provided(x, first, last, k - 1)
  BY KeptIn DEF OrdersOf, Keeps
<1>2. CASE x.ok = FALSE
  <2>1. OrderStep("apply", first, last, x, k) = x
    BY <1>2 DEF OrderStep
  <2> QED
    BY <1>1, <1>2, <2>1 DEF OrdersOf, Provided
<1>3. o \in Opts /\ (k = 3 => o = "DEV" /\ OrderOf(o) = 5)
  BY OptsAre DEF ListOrder, OrderOf
<1>4. CASE x.ok = TRUE /\ OrderOf(o) \in first..last
  <2>1. OrderStep("apply", first, last, x, k) = y
    BY <1>4 DEF OrderStep
  <2> HIDE DEF o
  <2>2. y \in KeptOf(x.s) /\ (o = "DEV" /\ y.ok => Equipped(y.s))
    BY <1>1, <1>3, LoadKept
  <2>3. Keeps(y, x.s)
    BY <1>1, <2>2, KeptIn
  <2> HIDE DEF y
  <2>4. y \in KeptOf(s)
    BY <1>1, <2>2, KeptOn
  <2>5. ASSUME y.ok, k >= 3, 5 \in first..last PROVE Equipped(y.s)
    <3>1. CASE k = 3
      BY <1>3, <2>2, <2>5, <3>1
    <3>2. CASE k - 1 >= 3
      <4>1. Equipped(x.s)
        BY <1>1, <1>4, <2>5, <3>2 DEF Provided
      <4> QED
        BY <2>3, <4>1 DEF Keeps
    <3> QED
      BY <2>5, <3>1, <3>2
  <2>6. Provided(y, first, last, k)
    BY <2>5 DEF Provided
  <2> QED
    BY <2>1, <2>4, <2>6 DEF OrdersOf
<1>5. CASE x.ok = TRUE /\ OrderOf(o) \notin first..last
  <2> DEFINE z == Ok(x.s)
  <2>1. OrderStep("apply", first, last, x, k) = z
    BY <1>5 DEF OrderStep
  <2>2. z \in KeptOf(x.s) /\ z.s = x.s
    BY <1>1, KeptIn, Outcomes
  <2> HIDE DEF z, o
  <2>3. z \in KeptOf(s)
    BY <1>1, <2>2, KeptOn
  <2>4. ASSUME k >= 3, 5 \in first..last PROVE Equipped(x.s)
    <3>1. k # 3
      BY <1>3, <1>5, <2>4
    <3>2. k - 1 >= 3
      BY <2>4, <3>1
    <3> QED
      BY <1>1, <1>5, <2>4, <3>2 DEF Provided
  <2>5. Provided(z, first, last, k)
    BY <2>2, <2>4 DEF Provided
  <2> QED
    BY <2>1, <2>3, <2>5 DEF OrdersOf
<1> QED
  BY <1>1, <1>2, <1>4, <1>5

LEMMA OrdersKept ==
  ASSUME NEW s, Good(s), NetOK, FileOK(file), NEW first, NEW last
  PROVE  /\ LoadOrders("apply", s, first, last) \in KeptOf(s)
         /\ 5 \in first..last /\ LoadOrders("apply", s, first, last).ok =>
              Equipped(LoadOrders("apply", s, first, last).s)
<1> DEFINE T == [k \in 0..5 |-> OrdersOf(s, first, last, k)]
<1>1. T \in [0..5 -> SUBSET KeptOf(s)]
  BY DEF OrdersOf
<1>2. Ok(s) \in T[0]
  BY KeptIn DEF OrdersOf, Provided
<1>3. \A k \in 1..5 : \A x \in T[k - 1] : OrderStep("apply", first, last, x, k) \in T[k]
  <2>1. \A k \in 1..5 : T[k - 1] = OrdersOf(s, first, last, k - 1)
                        /\ T[k] = OrdersOf(s, first, last, k)
    OBVIOUS
  <2> HIDE DEF T
  <2> QED
    BY <2>1, OrderKept
<1>4. LoadOrders("apply", s, first, last) \in T[5]
  <2> HIDE DEF T
  <2> QED
    BY <1>1, <1>2, <1>3, OrdersWalk
<1>5. LoadOrders("apply", s, first, last) \in OrdersOf(s, first, last, 5)
  BY <1>4
<1> QED
  BY <1>5 DEF OrdersOf, Provided

-----------------------------------------------------------------------------
(* A line.                                                                    *)
IsLine(line) ==
  /\ Len(line) \in Nat /\ DOMAIN line = 1..Len(line)
  /\ \A k \in 1..Len(line) : IsEntry(line[k])

StreamStart(s, load) == [ok |-> TRUE, s |-> s, order |-> 0, load |-> load, done |-> FALSE]
StreamEnd(cmd, end) == IF ~end.ok \/ end.done THEN end ELSE Ordered(cmd, end, LastOrder)

LEMMA StreamWalk ==
  ASSUME NEW cmd, NEW s, NEW line, NEW load, Len(line) \in Nat,
         NEW U, NEW T \in [0..Len(line) -> SUBSET U], StreamStart(s, load) \in T[0],
         \A k \in 1..Len(line) : \A x \in T[k - 1] : Step(cmd, x, line[k]) \in T[k]
  PROVE  \E end \in T[Len(line)] : Stream(cmd, s, line, load) = StreamEnd(cmd, end)
<1> DEFINE n == Len(line)
           base == StreamStart(s, load)
           Go(x, k) == Step(cmd, x, line[k])
           step == [y \in U \X (1..n) |-> Go(y[1], y[2])]
           Val(h, k) == IF k = 0 THEN base ELSE Go(h[k - 1], k)
           Whole(h) == [k \in 0..n |-> Val(h, k)]
<1>1. n \in 0..n /\ 0 \in 0..n /\ \A k \in 0..n : k # 0 => k \in 1..n
  OBVIOUS
<1>2. \A x \in U : \A k \in 1..n : step[<<x, k>>] = Go(x, k)
  <2> HIDE DEF Go, n
  <2> QED
    OBVIOUS
<1>3. PICK f : WalksThrough(f, U, T, base, n, step)
  <2>1. \A k \in 1..n : \A x \in T[k - 1] : step[<<x, k>>] \in T[k]
    <3>1. \A k \in 1..n : k - 1 \in 0..n /\ T[k - 1] \subseteq U
      OBVIOUS
    <3> HIDE DEF step, base
    <3> QED
      BY <1>2, <3>1
  <2>2. n \in Nat
    OBVIOUS
  <2> HIDE DEF step, Go, base
  <2> QED
    BY <2>1, <2>2, WalkThrough DEF base
<1>4. /\ f \in [0..n -> U] /\ f[0] = base /\ \A k \in 0..n : f[k] \in T[k]
      /\ \A k \in 1..n : f[k] = Go(f[k - 1], k)
  <2>1. \A k \in 1..n : f[k - 1] \in U
    BY <1>3 DEF WalksThrough
  <2> HIDE DEF step, Go, base
  <2> QED
    BY <1>2, <1>3, <2>1 DEF WalksThrough
<1>5. f = Whole(f)
  <2>1. \A k \in 0..n : f[k] = Val(f, k)
    <3> HIDE DEF Go, base
    <3> QED
      BY <1>1, <1>4
  <2> HIDE DEF Val, n
  <2> QED
    BY <1>4, <2>1
<1> DEFINE g == CHOOSE h : h = Whole(h)
<1>6. g = Whole(g)
  BY <1>5, Zenon
<1>7. Stream(cmd, s, line, load) = StreamEnd(cmd, g[n])
  BY DEF Stream, StreamStart, StreamEnd
<1> HIDE DEF g
<1>8. g[0] = base /\ \A k \in 1..n : g[k] = Go(g[k - 1], k)
  <2>1. \A k \in 0..n : g[k] = Val(g, k)
    <3> HIDE DEF Val, n
    <3> QED
      BY <1>6
  <2>2. \A k \in 1..n : k \in 0..n /\ k # 0
    OBVIOUS
  <2> HIDE DEF Go, base, n
  <2> QED
    BY <1>1, <2>1, <2>2
<1>9. g[n] = f[n]
  <2>1. g[0] = f[0] /\ \A k \in 1..n : g[k - 1] = f[k - 1] => g[k] = f[k]
    <3> HIDE DEF Go, base, n
    <3> QED
      BY <1>4, <1>8
  <2> HIDE DEF Go, base
  <2> QED
    BY <2>1, WalkUnique
<1> QED
  BY <1>1, <1>4, <1>7, <1>9

(* The steps of a line.                                                       *)
Streams(S) == [ok : BOOLEAN, s : S, order : Nat, load : BOOLEAN, done : BOOLEAN]

LEMMA OrderOfIs ==
  ASSUME NEW e, IsEntry(e)
  PROVE  /\ OrderOf(e.opt) \in {0, 1, 4, 5} /\ (e.opt = "DEV" => OrderOf(e.opt) = 5)
         /\ e.opt \in {"TEST", "RELOAD"} \cup Opts
<1>1. \A key, diff, ttl : Entry(key, diff, ttl).opt = "DEV"
  BY DEF Entry, Patch
<1>2. e.opt \in {"TEST", "RELOAD"} \cup Opts
  BY <1>1, OptsAre DEF IsEntry
<1> QED
  BY <1>2, OptsAre DEF OrderOf

(* Another outcome of a stream.                                               *)
Taken(r, l) == [r EXCEPT !.ok = l.ok, !.s = l.s]
TakenAt(r, l, next) == [r EXCEPT !.ok = l.ok, !.s = l.s, !.order = next]

LEMMA TakenFields ==
  ASSUME NEW S, NEW r \in Streams(S), NEW l, l.ok \in BOOLEAN, l.s \in S, NEW next \in Nat
  PROVE  /\ Taken(r, l) \in Streams(S) /\ Taken(r, l).ok = l.ok /\ Taken(r, l).s = l.s
         /\ Taken(r, l).order = r.order /\ Taken(r, l).load = r.load
         /\ TakenAt(r, l, next) \in Streams(S) /\ TakenAt(r, l, next).ok = l.ok
         /\ TakenAt(r, l, next).s = l.s /\ TakenAt(r, l, next).order = next
         /\ TakenAt(r, l, next).load = r.load
BY DEF Streams, Taken, TakenAt

LEMMA StreamFields ==
  ASSUME NEW S, NEW r \in Streams(S)
  PROVE  /\ r.ok \in BOOLEAN /\ r.s \in S /\ r.order \in Nat /\ r.load \in BOOLEAN
         /\ r.done \in BOOLEAN
BY DEF Streams

Loaded(cmd, r, next) ==
  IF r.load THEN LoadOrders(cmd, r.s, r.order + 1, next) ELSE Ok(r.s)

LEMMA OrderedIs ==
  ASSUME NEW cmd, NEW S, NEW r \in Streams(S), NEW next \in Nat
  PROVE  \/ next \in {0, r.order} /\ Ordered(cmd, r, next) = r
         \/ next # 0 /\ r.order > next /\ Ordered(cmd, r, next) = [r EXCEPT !.ok = FALSE]
         \/ /\ next # 0 /\ r.order < next
            /\ Ordered(cmd, r, next) = TakenAt(r, Loaded(cmd, r, next), next)
<1>1. r.order \in Nat
  BY StreamFields
<1>2. CASE next \in {0, r.order}
  BY <1>2 DEF Ordered
<1>3. CASE next # 0 /\ r.order > next
  BY <1>1, <1>3 DEF Ordered
<1>4. CASE next # 0 /\ r.order < next
  <2>1. next \notin {0, r.order} /\ ~(r.order > next)
    BY <1>1, <1>4
  <2>2. Ordered(cmd, r, next) = TakenAt(r, Loaded(cmd, r, next), next)
    BY <2>1 DEF Ordered, TakenAt, Loaded
  <2> QED
    BY <1>4, <2>2
<1> QED
  BY <1>1, <1>2, <1>3, <1>4

LEMMA FailedStream ==
  ASSUME NEW S, NEW r \in Streams(S), NEW y, y = [r EXCEPT !.ok = FALSE]
  PROVE  y \in Streams(S) /\ y.ok = FALSE /\ y.s = r.s /\ y.order = r.order /\ y.load = r.load
BY DEF Streams

(* A line is checked.                                                         *)
CheckedStream(s) == {r \in Streams({s, Dead(s)}) : r.ok => r.s = s}

LEMMA OrderedChecked ==
  ASSUME NEW s, NEW r \in CheckedStream(s), r.ok = TRUE, NEW next \in Nat
  PROVE  Ordered("check", r, next) \in CheckedStream(s)
<1> DEFINE S == {s, Dead(s)}
           y == Ordered("check", r, next)
<1>1. r \in Streams(S) /\ r.s = s
  BY DEF CheckedStream
<1>2. PICK l : l = Loaded("check", r, next)
  OBVIOUS
<1>3. l \in CheckedOf(s)
  BY <1>1, <1>2, OrdersChecked, CheckedIn DEF Loaded
<1>4. l.ok \in BOOLEAN /\ l.s \in S /\ (l.ok => l.s = s)
  BY <1>3, CheckedIn
<1> HIDE DEF S
<1>5. TakenAt(r, l, next) \in Streams(S) /\ TakenAt(r, l, next).ok = l.ok
      /\ TakenAt(r, l, next).s = l.s
  BY <1>1, <1>4, TakenFields
<1>6. y = r \/ y = [r EXCEPT !.ok = FALSE] \/ y = TakenAt(r, l, next)
  BY <1>1, <1>2, OrderedIs
<1>7. CASE y = [r EXCEPT !.ok = FALSE]
  <2>1. y \in Streams(S) /\ y.ok = FALSE
    <3> HIDE DEF y
    <3> QED
      BY <1>1, <1>7, FailedStream
  <2> HIDE DEF y
  <2> QED
    BY <2>1 DEF CheckedStream, S, y
<1>8. CASE y = TakenAt(r, l, next)
  <2> HIDE DEF y
  <2> QED
    BY <1>4, <1>5, <1>8 DEF CheckedStream, S, y
<1> QED
  BY <1>6, <1>7, <1>8

Flagged(o, cmd) == [o EXCEPT !.done = cmd = "apply"]
Loading(o) == [o EXCEPT !.load = TRUE]

LEMMA StepIs ==
  ASSUME NEW cmd, NEW r, NEW e, NEW o, o = Ordered(cmd, r, OrderOf(e.opt)), r.ok, ~r.done
  PROVE  /\ ~o.ok => Step(cmd, r, e) = o
         /\ o.ok /\ e.opt = "TEST" => Step(cmd, r, e) = Flagged(o, cmd)
         /\ o.ok /\ e.opt = "RELOAD" => Step(cmd, r, e) = Loading(o)
         /\ o.ok /\ e.opt \notin {"TEST", "RELOAD"} =>
              Step(cmd, r, e) = Taken(o, Call(cmd, o.s, r.s.fly, e))
BY DEF Step, Taken, Flagged, Loading

LEMMA FlaggedStream ==
  ASSUME NEW S, NEW o \in Streams(S), NEW cmd,
         NEW y, y = Flagged(o, cmd) \/ y = Loading(o)
  PROVE  y \in Streams(S) /\ y.ok = o.ok /\ y.s = o.s /\ y.order = o.order
         /\ (y.load = o.load \/ y.load = TRUE)
<1>1. (cmd = "apply") \in BOOLEAN
  BY Zenon
<1> DEFINE b == cmd = "apply"
<1> HIDE DEF b
<1>2. CASE y = [o EXCEPT !.done = b]
  BY <1>1, <1>2 DEF Streams, b
<1>3. CASE y = [o EXCEPT !.load = TRUE]
  BY <1>3 DEF Streams
<1> QED
  BY <1>2, <1>3 DEF b, Flagged, Loading

LEMMA StepChecked ==
  ASSUME NEW s \in States, NEW e, IsEntry(e), NEW r \in CheckedStream(s)
  PROVE  Step("check", r, e) \in CheckedStream(s)
<1>1. PICK S : S = {s, Dead(s)}
  OBVIOUS
<1>2. PICK y : y = Step("check", r, e)
  OBVIOUS
<1>3. r \in Streams(S) /\ r.ok \in BOOLEAN /\ r.done \in BOOLEAN
  BY <1>1, StreamFields DEF CheckedStream
<1>4. CASE ~r.ok \/ r.done
  <2>1. y = r
    BY <1>2, <1>4 DEF Step
  <2> QED
    BY <1>2, <2>1
<1>5. CASE r.ok = TRUE /\ r.done = FALSE
  <2>1. PICK o : o = Ordered("check", r, OrderOf(e.opt))
    OBVIOUS
  <2>2. OrderOf(e.opt) \in Nat
    BY OrderOfIs
  <2>3. o \in CheckedStream(s) /\ o \in Streams(S) /\ r.s = s
    BY <1>5, <2>1, <2>2, OrderedChecked, <1>1 DEF CheckedStream
  <2>4. o.ok \in BOOLEAN /\ o.s \in S /\ (o.ok => o.s = s)
    BY <1>1, <2>3, StreamFields DEF CheckedStream
  <2>5. /\ ~o.ok => y = o
        /\ o.ok /\ e.opt = "TEST" => y = Flagged(o, "check")
        /\ o.ok /\ e.opt = "RELOAD" => y = Loading(o)
        /\ o.ok /\ e.opt \notin {"TEST", "RELOAD"} => y = Taken(o, Call("check", o.s, r.s.fly, e))
    BY <1>5, <2>1, <1>2, StepIs
  <2>6. CASE o.ok = FALSE
    BY <1>2, <2>3, <2>5, <2>6
  <2>7. CASE o.ok = TRUE /\ e.opt \in {"TEST", "RELOAD"}
    <3>1. y = Flagged(o, "check") \/ y = Loading(o)
      BY <2>5, <2>7
    <3>2. o \in Streams(S)
      BY <2>3
    <3>3. /\ y \in Streams(S) /\ y.ok = o.ok /\ y.s = o.s /\ y.order = o.order
          /\ (y.load = o.load \/ y.load = TRUE)
      BY <3>1, <3>2, FlaggedStream
    <3> QED
      BY <2>4, <3>3, <1>1, <1>2 DEF CheckedStream
  <2>8. CASE o.ok = TRUE /\ e.opt \notin {"TEST", "RELOAD"}
    <3>1. PICK c : c = Call("check", o.s, r.s.fly, e)
      OBVIOUS
    <3>2. y = Taken(o, c)
      BY <2>5, <2>8, <3>1
    <3>3. r.s.fly \in BOOLEAN /\ o.s = s
      BY <2>3, <2>4, <2>8 DEF States
    <3>4. Checked(c, s)
      BY <3>1, <3>3, CheckCall
    <3>5. c.ok \in BOOLEAN /\ c.s \in S /\ (c.ok => c.s = s)
      BY <1>1, <3>4 DEF Checked
    <3>6. Taken(o, c) \in Streams(S) /\ Taken(o, c).ok = c.ok /\ Taken(o, c).s = c.s
      BY <2>3, <3>5, 0 \in Nat, TakenFields
    <3> QED
      BY <3>2, <3>5, <3>6, <1>1, <1>2 DEF CheckedStream
  <2> QED
    BY <2>4, <2>6, <2>7, <2>8
<1> QED
  BY <1>3, <1>4, <1>5

(* What a check leaves behind is what it found.                               *)
LEMMA StreamChecked ==
  ASSUME NEW s \in States, NEW line, IsLine(line), NEW load \in BOOLEAN,
         NEW r, r = Stream("check", s, line, load)
  PROVE  r.ok \in BOOLEAN /\ r.s \in {s, Dead(s)} /\ (r.ok => r.s = s)
<1> DEFINE C == CheckedStream(s)
           n == Len(line)
           T == [k \in 0..n |-> C]
<1>1. n \in Nat /\ \A k \in 1..n : IsEntry(line[k])
  BY DEF IsLine
<1>2. StreamStart(s, load) \in C
  BY DEF StreamStart, CheckedStream, Streams
<1>3. T \in [0..n -> SUBSET C] /\ StreamStart(s, load) \in T[0]
  <2> HIDE DEF C
  <2> QED
    BY <1>1, <1>2
<1>4. \A k \in 1..n : \A x \in T[k - 1] : Step("check", x, line[k]) \in T[k]
  <2>1. \A k \in 1..n : T[k - 1] = C /\ T[k] = C
    <3> HIDE DEF C
    <3> QED
      BY <1>1
  <2> HIDE DEF T
  <2> QED
    BY <1>1, <2>1, StepChecked
<1>5. PICK end \in T[n] : r = StreamEnd("check", end)
  <2> HIDE DEF T, C
  <2> QED
    BY <1>1, <1>3, <1>4, StreamWalk
<1>6. end \in CheckedStream(s)
  <2> HIDE DEF C
  <2>1. end \in C
    BY <1>1, <1>5
  <2> QED
    BY <2>1 DEF C
<1>7. r \in CheckedStream(s)
  <2>1. LastOrder \in Nat
    BY DEF LastOrder
  <2>2. end.ok \in BOOLEAN
    BY <1>6, StreamFields DEF CheckedStream
  <2> HIDE DEF T, C
  <2> QED
    BY <1>5, <1>6, <2>1, <2>2, OrderedChecked DEF StreamEnd
<1> QED
  BY <1>7, StreamFields DEF CheckedStream

(* A line is applied: there is a device, or one will be loaded with the file  *)
(* before any is set.                                                         *)
WillHave(r) == Equipped(r.s) \/ (r.load /\ r.order < 5)
KeptStream(s) == {r \in Streams(States) : Keeps(r, s) /\ (r.ok => WillHave(r))}

LEMMA OrderedKept ==
  ASSUME NEW s, Good(s), NetOK, FileOK(file), NEW r \in KeptStream(s), r.ok = TRUE, NEW next \in Nat,
         NEW y, y = Ordered("apply", r, next)
  PROVE  /\ y \in Streams(States) /\ Keeps(y, s)
         /\ y.ok /\ next <= 5 => WillHave(y)
         /\ y.ok /\ next = 5 => Equipped(y.s)
<1>1. r \in Streams(States) /\ Keeps(r, s) /\ Good(r.s) /\ WillHave(r)
      /\ r.order \in Nat /\ r.load \in BOOLEAN
  BY StreamFields DEF KeptStream, Keeps
<1>2. PICK l : l = Loaded("apply", r, next)
  OBVIOUS
<1>3. l \in KeptOf(r.s)
  BY <1>1, <1>2, OrdersKept, KeptIn DEF Loaded
<1>4. Keeps(l, r.s) /\ Good(l.s) /\ l.ok \in BOOLEAN /\ l.s \in States
  BY <1>1, <1>3, KeptIn DEF Keeps, Good
<1>5. \/ next \in {0, r.order} /\ y = r
      \/ next # 0 /\ r.order > next /\ y = [r EXCEPT !.ok = FALSE]
      \/ next # 0 /\ r.order < next /\ y = TakenAt(r, l, next)
  BY <1>1, <1>2, OrderedIs
<1>6. CASE next \in {0, r.order} /\ y = r
  <2>1. next = 5 => Equipped(r.s)
    BY <1>1, <1>6 DEF WillHave
  <2> QED
    BY <1>1, <1>6, <2>1
<1>7. CASE y = [r EXCEPT !.ok = FALSE]
  <2>1. y \in Streams(States) /\ y.ok = FALSE /\ y.s = r.s
    BY <1>1, <1>7, FailedStream
  <2> QED
    BY <1>1, <2>1 DEF Keeps
<1>8. CASE next # 0 /\ r.order < next /\ y = TakenAt(r, l, next)
  <2>1. /\ y \in Streams(States) /\ y.ok = l.ok /\ y.s = l.s
        /\ y.order = next /\ y.load = r.load
    BY <1>1, <1>4, <1>8, TakenFields
  <2>2. Keeps(y, s)
    BY <1>1, <1>4, <2>1 DEF Keeps
  <2>3. ASSUME y.ok, next = 5 PROVE Equipped(y.s)
    <3>1. CASE Equipped(r.s)
      BY <1>4, <2>1, <3>1 DEF Keeps
    <3>2. CASE ~Equipped(r.s)
      <4>1. r.load = TRUE /\ r.order + 1 <= 5
        BY <1>1, <3>2 DEF WillHave
      <4>2. l = LoadOrders("apply", r.s, r.order + 1, next)
        BY <1>2, <4>1 DEF Loaded
      <4>3. 5 \in (r.order + 1)..next
        BY <1>1, <2>3, <4>1
      <4>4. l.ok => Equipped(l.s)
        BY <1>1, <4>2, <4>3, OrdersKept
      <4> QED
        BY <2>1, <2>3, <4>4
    <3> QED
      BY <3>1, <3>2
  <2>4. ASSUME y.ok, next <= 5 PROVE WillHave(y)
    <3>1. CASE Equipped(r.s)
      BY <1>4, <2>1, <3>1 DEF Keeps, WillHave
    <3>2. CASE ~Equipped(r.s) /\ next < 5
      BY <1>1, <2>1, <3>2 DEF WillHave
    <3>3. CASE next = 5
      BY <2>3, <2>4, <3>3 DEF WillHave
    <3> QED
      BY <2>4, <3>1, <3>2, <3>3
  <2> QED
    BY <2>1, <2>2, <2>3, <2>4
<1> QED
  BY <1>5, <1>6, <1>7, <1>8

LEMMA StepKept ==
  ASSUME NEW s, Good(s), NetOK, FileOK(file), NEW e, IsEntry(e), NEW r \in KeptStream(s)
  PROVE  Step("apply", r, e) \in KeptStream(s)
<1> DEFINE y == Step("apply", r, e)
<1>1. r \in Streams(States) /\ r.ok \in BOOLEAN /\ r.done \in BOOLEAN
  BY StreamFields DEF KeptStream
<1>2. CASE ~r.ok \/ r.done
  <2>1. y = r
    BY <1>2 DEF Step
  <2> QED
    BY <2>1
<1>3. CASE r.ok = TRUE /\ r.done = FALSE
  <2>1. PICK o : o = Ordered("apply", r, OrderOf(e.opt))
    OBVIOUS
  <2>2. /\ OrderOf(e.opt) \in Nat /\ OrderOf(e.opt) <= 5 /\ (e.opt = "DEV" => OrderOf(e.opt) = 5)
        /\ e.opt \in {"TEST", "RELOAD"} \cup Opts
    BY OrderOfIs
  <2>3. /\ o \in Streams(States) /\ Keeps(o, s) /\ (o.ok => WillHave(o))
        /\ (o.ok /\ e.opt = "DEV" => Equipped(o.s))
    BY <1>3, <2>1, <2>2, OrderedKept
  <2>4. o.ok \in BOOLEAN /\ Good(o.s) /\ o \in KeptStream(s)
    BY <2>3 DEF Keeps, KeptStream
  <2> HIDE DEF y
  <2>5. /\ ~o.ok => y = o
        /\ o.ok /\ e.opt = "TEST" => y = Flagged(o, "apply")
        /\ o.ok /\ e.opt = "RELOAD" => y = Loading(o)
        /\ o.ok /\ e.opt \notin {"TEST", "RELOAD"} => y = Taken(o, Call("apply", o.s, r.s.fly, e))
    BY <1>3, <2>1, StepIs DEF y
  <2>6. CASE o.ok = FALSE
    BY <2>4, <2>5, <2>6 DEF y
  <2>7. CASE o.ok = TRUE /\ e.opt \in {"TEST", "RELOAD"}
    <3>1. y = Flagged(o, "apply") \/ y = Loading(o)
      BY <2>5, <2>7
    <3>2. /\ y \in Streams(States) /\ y.ok = o.ok /\ y.s = o.s /\ y.order = o.order
          /\ (y.load = o.load \/ y.load = TRUE)
      BY <2>3, <3>1, FlaggedStream
    <3>3. Keeps(y, s) /\ WillHave(y)
      BY <2>3, <2>7, <3>2 DEF Keeps, WillHave
    <3> QED
      BY <3>2, <3>3 DEF KeptStream, y
  <2>8. CASE o.ok = TRUE /\ e.opt \notin {"TEST", "RELOAD"}
    <3>1. PICK save : save = r.s.fly
      OBVIOUS
    <3>2. PICK c : c = Call("apply", o.s, save, e)
      OBVIOUS
    <3>3. y = Taken(o, c)
      BY <2>5, <2>8, <3>1, <3>2
    <3>4. save \in BOOLEAN
      <4>1. r.s \in States
        BY <1>1, StreamFields
      <4> QED
        BY <3>1, <4>1 DEF States
    <3>5. Fits(o.s, e) /\ e.opt \in Opts
      BY <2>2, <2>3, <2>8 DEF Fits
    <3>6. Keeps(c, o.s)
      BY <2>4, <3>2, <3>4, <3>5, CallGood
    <3>7. c.ok \in BOOLEAN /\ c.s \in States
      BY <3>6 DEF Keeps, Good
    <3>8. /\ Taken(o, c) \in Streams(States) /\ Taken(o, c).ok = c.ok /\ Taken(o, c).s = c.s
          /\ Taken(o, c).order = o.order /\ Taken(o, c).load = o.load
      BY <2>3, <3>7, 0 \in Nat, TakenFields
    <3>9. Keeps(y, s) /\ WillHave(y)
      BY <2>3, <2>8, <3>3, <3>6, <3>8 DEF Keeps, WillHave
    <3> QED
      BY <3>3, <3>8, <3>9 DEF KeptStream, y
  <2> QED
    BY <2>4, <2>6, <2>7, <2>8
<1> QED
  BY <1>1, <1>2, <1>3

LEMMA StreamKept ==
  ASSUME NEW s, Good(s), NetOK, FileOK(file), NEW line, IsLine(line), NEW load \in BOOLEAN,
         Equipped(s) \/ load, NEW r, r = Stream("apply", s, line, load)
  PROVE  Keeps(r, s)
<1> DEFINE C == KeptStream(s)
           n == Len(line)
           T == [k \in 0..n |-> C]
           start == StreamStart(s, load)
<1>1. n \in Nat /\ \A k \in 1..n : IsEntry(line[k])
  BY DEF IsLine
<1>2. start \in C
  <2>1. /\ start.ok = TRUE /\ start.s = s /\ start.order = 0 /\ start.load = load
        /\ s \in States
    BY DEF StreamStart, Good
  <2>2. start \in Streams(States)
    BY <2>1 DEF StreamStart, Streams
  <2> HIDE DEF start
  <2>3. Keeps(start, s)
    BY <2>1 DEF Keeps
  <2>4. WillHave(start)
    <3>1. Equipped(s) \/ load = TRUE
      OBVIOUS
    <3> QED
      BY <2>1, <3>1 DEF WillHave
  <2> QED
    BY <2>2, <2>3, <2>4 DEF KeptStream
<1>3. T \in [0..n -> SUBSET C] /\ start \in T[0]
  <2> HIDE DEF C
  <2> QED
    BY <1>1, <1>2
<1>4. \A k \in 1..n : \A x \in T[k - 1] : Step("apply", x, line[k]) \in T[k]
  <2>1. \A k \in 1..n : T[k - 1] = C /\ T[k] = C
    <3> HIDE DEF C
    <3> QED
      BY <1>1
  <2> HIDE DEF T
  <2> QED
    BY <1>1, <2>1, StepKept
<1>5. PICK end \in T[n] : r = StreamEnd("apply", end)
  <2> HIDE DEF T, C
  <2> QED
    BY <1>1, <1>3, <1>4, StreamWalk
<1>6. end \in KeptStream(s)
  <2> HIDE DEF C
  <2>1. end \in C
    BY <1>1, <1>5
  <2> QED
    BY <2>1 DEF C
<1>7. LastOrder \in Nat
  BY DEF LastOrder
<1>8. end.ok \in BOOLEAN /\ Keeps(end, s)
  BY <1>6, StreamFields DEF KeptStream
<1> HIDE DEF T, C
<1>9. CASE end.ok = TRUE /\ r = Ordered("apply", end, LastOrder)
  BY <1>6, <1>7, <1>9, OrderedKept
<1> QED
  BY <1>5, <1>8, <1>9 DEF StreamEnd

-----------------------------------------------------------------------------
(* The daemon.                                                                *)

(* A change of the network makes the reference stand for another device than  *)
(* the first one.                                                             *)
ReferenceApart == "a" \notin RefDevs

Halted == track = Nothing /\ use = Default /\ primary = NoDev
OptionsInv ==
  /\ Good(State) /\ NetOK
  /\ up \in BOOLEAN /\ (up => Equipped(State)) /\ (~up => Halted)

LEMMA StateFields ==
  /\ State.fly = up /\ State.track = track /\ State.use = use /\ State.primary = primary
  /\ State.file = file /\ State.dead = FALSE
BY DEF State

(* Only what is tracked, in force and saved makes a state good.               *)
LEMMA GoodByFields ==
  ASSUME NEW s, Good(s), NEW t \in States, t.track = s.track, t.use = s.use,
         t.primary = s.primary, t.file = s.file
  PROVE  Good(t) /\ (Equipped(s) => Equipped(t))
BY DEF Good, SinglesOK, SingleOK, OneClass, DevsOK, First, Equipped

(* Nothing is configured yet.                                                 *)
Unstarted(f) == [fly |-> FALSE, track |-> Nothing, use |-> Default, primary |-> NoDev,
                 file |-> f, dead |-> FALSE]

LEMMA UnstartedGood ==
  ASSUME NEW f, FileOK(f)
  PROVE  Good(Unstarted(f)) /\ Unstarted(f).fly = FALSE
<1> DEFINE s == Unstarted(f)
<1>1. Nothing \in [Opts -> SUBSET Parents] /\ \A o \in Opts : Nothing[o] = {}
  BY DEF Nothing
<1>2. /\ s.fly = FALSE /\ s.track = Nothing /\ s.use = Default /\ s.primary = NoDev /\ s.file = f
      /\ s \in States
  BY <1>1, DefaultTyped DEF Unstarted, States, FileOK
<1> HIDE DEF s
<1>3. "DEV" \in Opts /\ Singles \subseteq Opts
  BY OptsAre
<1>4. SinglesOK(s)
  BY <1>1, <1>2, <1>3 DEF SinglesOK, SingleOK
<1>5. OneClass(s)
  BY <1>2, DefaultTyped DEF OneClass
<1>6. DevsOK(s)
  BY <1>1, <1>2, <1>3, DefaultTyped DEF DevsOK, InUse, Apart, ByName, First
<1> QED
  BY <1>2, <1>4, <1>5, <1>6 DEF Good, s

(* At the start only the first device is in the file.                         *)
LEMMA InitialFile ==
  ASSUME NEW f, f = [Nothing EXCEPT !["DEV"] = {[key |-> "a", ttl |-> NoTtl]}]
  PROVE  FileOK(f)
<1> DEFINE r == [key |-> "a", ttl |-> NoTtl]
<1>1. "DEV" \in Opts /\ \A o \in Opts : Nothing[o] = {}
  BY OptsAre DEF Nothing
<1>2. r \in Saved /\ r.key = "a" /\ "a" \in KeysOf("DEV")
  BY DEF Saved, AnyVal, Marks, Devs, KeysOf
<1>3. f = [o \in Opts |-> IF o = "DEV" THEN {r} ELSE {}]
  BY DEF Nothing
<1> HIDE DEF r
<1>4. f["DEV"] = {r} /\ \A o \in Opts : o # "DEV" => f[o] = {}
  BY <1>1, <1>3
<1>5. f \in [Opts -> SUBSET Saved]
  <2>1. \A o \in Opts : (IF o = "DEV" THEN {r} ELSE {}) \in SUBSET Saved
    BY <1>2
  <2> QED
    BY <1>3, <2>1
<1>6. \A o \in Opts : \A q \in f[o] : q.key \in KeysOf(o)
  BY <1>2, <1>4
<1> QED
  BY <1>2, <1>4, <1>5, <1>6 DEF FileOK

LEMMA InvInit ==
  ASSUME Init
  PROVE  OptionsInv
<1>1. FileOK(file)
  BY InitialFile DEF Init
<1>2. State = Unstarted(file) /\ up = FALSE /\ Halted
  BY DEF Init, State, Unstarted, Halted
<1>3. NetOK
  BY DEF Init, NetOK, Devs
<1> QED
  BY <1>1, <1>2, <1>3, UnstartedGood DEF OptionsInv

(* What the options leave behind is good; the first device stays.             *)
LEMMA SettleInv ==
  ASSUME NetOK, NEW s, Good(s), Equipped(s), NEW sync, Settle(s, sync)
  PROVE  OptionsInv'
<1>1. PICK t : /\ t = IF s.dead THEN [Fresh EXCEPT !.file = s.file] ELSE s
               /\ up' = ~s.dead
               /\ track' = t.track /\ use' = t.use /\ primary' = t.primary /\ file' = t.file
               /\ net' = net
  BY DEF Settle
<1>2. s.dead \in BOOLEAN /\ FileOK(s.file) /\ s \in States
  BY DEF Good, States
<1>3. NetOK'
  BY <1>1 DEF NetOK
<1> DEFINE n == State'
<1>4. n = [fly |-> up', track |-> track', use |-> use', primary |-> primary',
           file |-> file', dead |-> FALSE]
  BY DEF State
<1>5. up' \in BOOLEAN
  BY <1>1, Zenon
<1>6. CASE s.dead = TRUE
  <2>1. t = Unstarted(s.file)
    BY <1>1, <1>6 DEF Fresh, Unstarted
  <2>2. up' = FALSE
    BY <1>1, <1>6, Zenon
  <2>3. /\ track' = Nothing /\ use' = Default /\ primary' = NoDev /\ file' = s.file
    BY <1>1, <2>1 DEF Unstarted
  <2>4. n = Unstarted(s.file)
    BY <1>4, <2>2, <2>3 DEF Unstarted
  <2>5. Halted'
    BY <2>3 DEF Halted
  <2>6. Good(n)
    <3> HIDE DEF n
    <3> QED
      BY <1>2, <2>4, UnstartedGood
  <2> QED
    BY <1>3, <1>5, <2>2, <2>5, <2>6 DEF OptionsInv
<1>7. CASE s.dead = FALSE
  <2>1. t = s
    BY <1>1, <1>7
  <2>2. up' = TRUE
    BY <1>1, <1>7, Zenon
  <2>3. /\ n.track = s.track /\ n.use = s.use /\ n.primary = s.primary /\ n.file = s.file
        /\ n \in States
    BY <1>1, <1>2, <1>4, <1>5, <2>1 DEF States
  <2>4. Good(n) /\ Equipped(n)
    <3> HIDE DEF n
    <3> QED
      BY <2>3, GoodByFields
  <2> QED
    BY <1>3, <1>5, <2>2, <2>4 DEF OptionsInv
<1> QED
  BY <1>2, <1>6, <1>7

(* The daemon is started.                                                     *)
StartStep(line, x, k) ==
  IF x.ok THEN IF <<"check", "file", "apply">>[k] = "file"
               THEN LoadOrders("check", x.s, 2, LastOrder)
               ELSE Stream(<<"check", "file", "apply">>[k], x.s, line,
                           <<"check", "file", "apply">>[k] = "apply")
  ELSE x

LEMMA StartedIs ==
  ASSUME NEW line
  PROVE  \E c, l : /\ c = Stream("check", Fresh, line, FALSE)
                   /\ l = IF c.ok THEN LoadOrders("check", c.s, 2, LastOrder) ELSE c
                   /\ Started(line) = IF l.ok THEN Stream("apply", l.s, line, TRUE) ELSE l
<1> DEFINE n == Len(<<"check", "file", "apply">>)
           Go(x, k) == StartStep(line, x, k)
           Val(h, k) == IF k = 0 THEN Ok(Fresh) ELSE Go(h[k - 1], k)
           Whole(h) == [k \in 0..n |-> Val(h, k)]
<1>1. n = 3 /\ 0..3 = {0, 1, 2, 3}
  OBVIOUS
<1>2. PICK one : one = Go(Ok(Fresh), 1)
  OBVIOUS
<1>3. PICK two : two = Go(one, 2)
  OBVIOUS
<1>4. PICK three : three = Go(two, 3)
  OBVIOUS
<1>5. \E h : h = Whole(h)
  <2> DEFINE f == [k \in 0..3 |-> IF k = 0 THEN Ok(Fresh) ELSE IF k = 1 THEN one
                                 ELSE IF k = 2 THEN two ELSE three]
  <2>1. f[0] = Ok(Fresh) /\ f[1] = one /\ f[2] = two /\ f[3] = three
    BY <1>1
  <2>2. f = [k \in 0..3 |-> f[k]]
    OBVIOUS
  <2> HIDE DEF f, Go
  <2>3. \A k \in 0..3 : f[k] = Val(f, k)
    BY <1>1, <1>2, <1>3, <1>4, <2>1
  <2> HIDE DEF Val, n
  <2> QED
    BY <1>1, <2>2, <2>3
<1> DEFINE g == CHOOSE h : h = Whole(h)
<1>6. g = Whole(g)
  BY <1>5, Zenon
<1>7. Started(line) = g[n]
  BY DEF Started, EachOf, StartStep
<1> HIDE DEF g
<1>8. \A k \in 0..3 : g[k] = Val(g, k)
  <2> HIDE DEF Val, n
  <2> QED
    BY <1>1, <1>6
<1>9. Started(line) = three
  <2> HIDE DEF Go
  <2> QED
    BY <1>1, <1>2, <1>3, <1>4, <1>7, <1>8
<1>10. one = Stream("check", Fresh, line, FALSE)
  BY <1>2 DEF StartStep, Ok
<1>11. two = IF one.ok THEN LoadOrders("check", one.s, 2, LastOrder) ELSE one
  BY <1>3 DEF StartStep
<1>12. three = IF two.ok THEN Stream("apply", two.s, line, TRUE) ELSE two
  BY <1>4 DEF StartStep
<1> HIDE DEF Go, n, Val
<1> QED
  BY <1>9, <1>10, <1>11, <1>12

LEMMA StartedKept ==
  ASSUME FileOK(file), NetOK, NEW line, IsLine(line), NEW r, r = Started(line), r.ok = TRUE
  PROVE  Good(r.s)
<1>1. PICK c, l : /\ c = Stream("check", Fresh, line, FALSE)
                  /\ l = IF c.ok THEN LoadOrders("check", c.s, 2, LastOrder) ELSE c
                  /\ r = IF l.ok THEN Stream("apply", l.s, line, TRUE) ELSE l
  BY StartedIs
<1>2. Fresh = Unstarted(file)
  BY DEF Fresh, Unstarted
<1>3. Good(Fresh) /\ Fresh \in States
  BY <1>2, UnstartedGood DEF Good
<1>4. c.ok \in BOOLEAN /\ (c.ok => c.s = Fresh)
  BY <1>1, <1>3, FALSE \in BOOLEAN, StreamChecked
<1>5. l.ok \in BOOLEAN /\ (l.ok => l.s = Fresh)
  <2>1. CASE c.ok = TRUE
    <3>1. l = LoadOrders("check", Fresh, 2, LastOrder)
      BY <1>1, <1>4, <2>1
    <3> QED
      BY <3>1, OrdersChecked, CheckedIn
  <2>2. CASE c.ok = FALSE
    <3>1. l = c
      BY <1>1, <2>2
    <3> QED
      BY <2>2, <3>1
  <2> QED
    BY <1>4, <2>1, <2>2
<1>6. l.ok = TRUE
  <2>1. CASE l.ok = FALSE
    <3>1. r = l
      BY <1>1, <2>1
    <3> QED
      BY <2>1, <3>1
  <2> QED
    BY <1>5, <2>1
<1>7. r = Stream("apply", Fresh, line, TRUE)
  BY <1>1, <1>5, <1>6
<1>8. Keeps(r, Fresh)
  BY <1>3, <1>7, TRUE \in BOOLEAN, StreamKept
<1> QED
  BY <1>8 DEF Keeps

LEMMA StartInv ==
  ASSUME OptionsInv, NEW line, IsLine(line), Start(line)
  PROVE  OptionsInv'
<1>1. PICK r : r = Started(line) /\ r.ok /\ r.s.use.DEV # {}
               /\ Settle(r.s, line = <<>> /\ Sound(file, net))
  BY DEF Start
<1>2. FileOK(file) /\ NetOK
  BY StateFields DEF OptionsInv, Good
<1>3. Good(r.s)
  BY <1>1, <1>2, StartedKept
<1>4. Equipped(r.s)
  BY <1>1, <1>3 DEF Good, DevsOK, InUse, Equipped
<1> QED
  BY <1>1, <1>2, <1>3, <1>4, SettleInv

(* It is given a line.                                                        *)
HandleStep(line, x, k) ==
  IF x.ok THEN Stream(<<"check", "apply">>[k], x.s, line, FALSE) ELSE x

LEMMA HandledIs ==
  ASSUME NEW s, NEW line
  PROVE  \E c : /\ c = Stream("check", s, line, FALSE)
                /\ Handled(s, line) = IF c.ok THEN Stream("apply", c.s, line, FALSE) ELSE c
<1> DEFINE n == Len(<<"check", "apply">>)
           Go(x, k) == HandleStep(line, x, k)
           Val(h, k) == IF k = 0 THEN Ok(s) ELSE Go(h[k - 1], k)
           Whole(h) == [k \in 0..n |-> Val(h, k)]
<1>1. n = 2 /\ 0..2 = {0, 1, 2}
  OBVIOUS
<1>2. PICK one : one = Go(Ok(s), 1)
  OBVIOUS
<1>3. PICK two : two = Go(one, 2)
  OBVIOUS
<1>4. \E h : h = Whole(h)
  <2> DEFINE f == [k \in 0..2 |-> IF k = 0 THEN Ok(s) ELSE IF k = 1 THEN one ELSE two]
  <2>1. f[0] = Ok(s) /\ f[1] = one /\ f[2] = two
    BY <1>1
  <2>2. f = [k \in 0..2 |-> f[k]]
    OBVIOUS
  <2> HIDE DEF f, Go
  <2>3. \A k \in 0..2 : f[k] = Val(f, k)
    BY <1>1, <1>2, <1>3, <2>1
  <2> HIDE DEF Val, n
  <2> QED
    BY <1>1, <2>2, <2>3
<1> DEFINE g == CHOOSE h : h = Whole(h)
<1>5. g = Whole(g)
  BY <1>4, Zenon
<1>6. Handled(s, line) = g[n]
  BY DEF Handled, EachOf, HandleStep
<1> HIDE DEF g
<1>7. \A k \in 0..2 : g[k] = Val(g, k)
  <2> HIDE DEF Val, n
  <2> QED
    BY <1>1, <1>5
<1>8. Handled(s, line) = two
  <2> HIDE DEF Go
  <2> QED
    BY <1>1, <1>2, <1>3, <1>6, <1>7
<1>9. one = Stream("check", s, line, FALSE)
  BY <1>2 DEF HandleStep, Ok
<1>10. two = IF one.ok THEN Stream("apply", one.s, line, FALSE) ELSE one
  BY <1>3 DEF HandleStep
<1> HIDE DEF Go, n, Val
<1> QED
  BY <1>8, <1>9, <1>10

LEMMA HandledKept ==
  ASSUME NEW s, Good(s), Equipped(s), FileOK(file), NetOK, NEW line, IsLine(line),
         NEW r, r = Handled(s, line)
  PROVE  Good(r.s) /\ Equipped(r.s)
<1>1. PICK c : /\ c = Stream("check", s, line, FALSE)
               /\ r = IF c.ok THEN Stream("apply", c.s, line, FALSE) ELSE c
  BY HandledIs
<1>2. c.ok \in BOOLEAN /\ c.s \in {s, Dead(s)} /\ (c.ok => c.s = s)
  BY <1>1, FALSE \in BOOLEAN, StreamChecked DEF Good
<1>3. r = IF c.ok THEN Stream("apply", c.s, line, FALSE) ELSE c
  BY <1>1
<1>4. CASE c.ok = TRUE
  <2>1. r = Stream("apply", s, line, FALSE)
    BY <1>2, <1>3, <1>4
  <2>2. Keeps(r, s)
    BY <2>1, FALSE \in BOOLEAN, StreamKept
  <2> QED
    BY <2>2 DEF Keeps
<1>5. CASE c.ok = FALSE
  <2>1. r.s = s \/ r.s = Dead(s)
    BY <1>2, <1>3, <1>5
  <2> QED
    BY <2>1, DeadGood
<1> QED
  BY <1>2, <1>4, <1>5

LEMMA CommandLineInv ==
  ASSUME OptionsInv, NEW line, IsLine(line), CommandLine(line)
  PROVE  OptionsInv'
<1>1. PICK r : r = Handled(State, line) /\ \E sync : Settle(r.s, sync)
  BY DEF CommandLine
<1>2. FileOK(file) /\ NetOK /\ Good(State) /\ Equipped(State)
  BY StateFields DEF OptionsInv, Good, CommandLine
<1>3. Good(r.s) /\ Equipped(r.s)
  BY <1>1, <1>2, HandledKept
<1> QED
  BY <1>1, <1>2, <1>3, SettleInv

LEMMA StopInv ==
  ASSUME OptionsInv, Stop
  PROVE  OptionsInv'
<1> DEFINE n == State'
<1>1. n = Unstarted(file) /\ up' = FALSE /\ Halted' /\ NetOK'
  BY DEF OptionsInv, Stop, State, Unstarted, Halted, NetOK
<1>2. FileOK(file)
  BY StateFields DEF OptionsInv, Good
<1>3. Good(n)
  <2> HIDE DEF n
  <2> QED
    BY <1>1, <1>2, UnstartedGood
<1> QED
  BY <1>1, <1>3 DEF OptionsInv

(* Somebody else writes the file: the first device's section stays.           *)
LEMMA EditedFile ==
  ASSUME FileOK(file), ReferenceApart, EditFile
  PROVE  FileOK(file')
<1>1. ASSUME NEW o \in Singles, NEW D, file' = [file EXCEPT ![o] = D],
             D \in SUBSET Saved, \A r \in D : r.key \in ValuesOf(o)
      PROVE  FileOK(file')
  <2>1. o \in Opts /\ o # "DEV" /\ KeysOf(o) = ValuesOf(o)
    BY OptsAre, ValuesAre
  <2>2. /\ file' \in [Opts -> SUBSET Saved] /\ file'[o] = D
        /\ \A x \in Opts \ {o} : file'[x] = file[x]
    BY <1>1, <2>1 DEF FileOK
  <2> QED
    BY <1>1, <2>1, <2>2, OptsAre DEF FileOK
<1>2. ASSUME NEW o \in Singles, NEW v \in ValuesOf(o),
             file' = [file EXCEPT ![o] = IF @ = {} THEN {[key |-> v, ttl |-> NoTtl]} ELSE {}]
      PROVE  FileOK(file')
  <2> DEFINE D == IF file[o] = {} THEN {[key |-> v, ttl |-> NoTtl]} ELSE {}
  <2>1. v \in AnyVal
    BY ValuesAre
  <2>2. D \in SUBSET Saved /\ \A r \in D : r.key \in ValuesOf(o)
    BY <2>1 DEF Saved, Marks
  <2>3. file' = [file EXCEPT ![o] = D]
    BY <1>2
  <2> HIDE DEF D
  <2> QED
    BY <1>1, <2>2, <2>3
<1>3. CASE \E o \in IF scene = "classes" THEN {"PORT", "PEDANTIC", "RT"} ELSE {"PEDANTIC"} :
             file' = [file EXCEPT ![o] = IF @ = {} THEN {[key |-> 1, ttl |-> NoTtl]} ELSE {}]
  <2>1. PICK o \in {"PORT", "PEDANTIC", "RT"} :
          file' = [file EXCEPT ![o] = IF @ = {} THEN {[key |-> 1, ttl |-> NoTtl]} ELSE {}]
    BY <1>3
  <2>2. o \in Singles /\ 1 \in ValuesOf(o)
    BY OptsAre DEF ValuesOf
  <2> QED
    BY <1>2, <2>1, <2>2
<1>4. CASE \E t \in Speeds :
             file' = [file EXCEPT !["GW"] = IF @ = {} THEN {[key |-> t, ttl |-> NoTtl]} ELSE {}]
  <2>1. "GW" \in Singles /\ ValuesOf("GW") = Speeds
    BY OptsAre DEF ValuesOf
  <2> QED
    BY <1>2, <1>4, <2>1
<1>5. CASE \E key \in {Ref} \cup RefDevs, ttl \in Ttls \cup {NoTtl} :
             file' = [file EXCEPT !["DEV"] =
                       IF Sections(file, "DEV", key) # {} THEN @ \ Sections(file, "DEV", key)
                       ELSE @ \cup {[key |-> key, ttl |-> ttl]}]
  <2>1. PICK key \in {Ref} \cup RefDevs, ttl \in Ttls \cup {NoTtl} :
             file' = [file EXCEPT !["DEV"] =
                       IF Sections(file, "DEV", key) # {} THEN @ \ Sections(file, "DEV", key)
                       ELSE @ \cup {[key |-> key, ttl |-> ttl]}]
    BY <1>5
  <2>2. key # "a" /\ key \in Devs \cup {Ref} /\ "DEV" \in Opts /\ "DEV" \notin Singles
    BY RefDevsAssumption, OptsAre DEF ReferenceApart, Ref
  <2> DEFINE gone == Sections(file, "DEV", key)
             r == [key |-> key, ttl |-> ttl]
             D == IF gone # {} THEN file["DEV"] \ gone ELSE file["DEV"] \cup {r}
  <2>3. r \in Saved /\ r.key = key /\ \A q \in gone : q.key = key
    BY <2>2 DEF Saved, Marks, AnyVal, Sections
  <2>4. file' = [file EXCEPT !["DEV"] = D]
    BY <2>1
  <2> HIDE DEF r, gone
  <2>5. D \in SUBSET Saved /\ (\A q \in D : q.key \in Devs \cup {Ref}) /\ \E q \in D : q.key = "a"
    BY <2>2, <2>3 DEF FileOK, KeysOf
  <2> HIDE DEF D
  <2>6. file' \in [Opts -> SUBSET Saved] /\ file'["DEV"] = D
        /\ \A x \in Opts \ {"DEV"} : file'[x] = file[x]
    BY <2>2, <2>4, <2>5 DEF FileOK
  <2> QED
    BY <2>2, <2>5, <2>6 DEF FileOK, KeysOf
<1> QED
  BY <1>3, <1>4, <1>5 DEF EditFile

LEMMA EditFileInv ==
  ASSUME OptionsInv, ReferenceApart, EditFile
  PROVE  OptionsInv'
<1> DEFINE n == State'
<1>1. FileOK(file)
  BY StateFields DEF OptionsInv, Good
<1>2. FileOK(file')
  BY <1>1, EditedFile
<1>3. /\ up' = up /\ track' = track /\ use' = use /\ primary' = primary /\ net' = net
  BY DEF EditFile
<1>4. n = [fly |-> up, track |-> track, use |-> use, primary |-> primary,
           file |-> file', dead |-> FALSE]
  BY <1>3 DEF State
<1>5. up' \in BOOLEAN /\ (Halted => Halted') /\ NetOK'
  BY <1>3 DEF OptionsInv, Halted, NetOK
<1>6. PICK s : s = State
  OBVIOUS
<1>7. /\ n.track = s.track /\ n.use = s.use /\ n.primary = s.primary /\ n.file = file'
      /\ n \in States
  <2>1. s \in States /\ file' \in [Opts -> SUBSET Saved]
    BY <1>2, <1>6 DEF OptionsInv, Good, FileOK
  <2>2. s.fly = up /\ s.track = track /\ s.use = use /\ s.primary = primary
    BY <1>6, StateFields
  <2> HIDE DEF n
  <2> QED
    BY <1>4, <2>1, <2>2 DEF States
<1> HIDE DEF n
<1>8. Good(n) /\ (Equipped(s) => Equipped(n))
  BY <1>2, <1>6, <1>7 DEF OptionsInv, Good, SinglesOK, SingleOK, OneClass, DevsOK, First, Equipped
<1> QED
  BY <1>3, <1>5, <1>6, <1>8 DEF OptionsInv, n

LEMMA EditNetworkInv ==
  ASSUME OptionsInv, ReferenceApart, EditNetwork
  PROVE  OptionsInv'
<1>1. NetOK'
  BY RefDevsAssumption DEF EditNetwork, NetOK, ReferenceApart
<1>2. State' = State /\ up' = up /\ (Halted => Halted')
  BY DEF EditNetwork, State, Halted
<1> DEFINE n == State'
<1>3. Good(n) /\ (Equipped(State) => Equipped(n))
  BY <1>2 DEF OptionsInv
<1> QED
  BY <1>1, <1>2, <1>3 DEF OptionsInv

(* The lines there are.                                                       *)
LEMMA SequenceIsLine ==
  ASSUME NEW S, NEW line \in Seq(S), \A k \in DOMAIN line : IsEntry(line[k])
  PROVE  IsLine(line)
<1>1. Len(line) \in Nat /\ DOMAIN line = 1..Len(line)
  OBVIOUS
<1> QED
  BY <1>1 DEF IsLine

LEMMA StartupLine ==
  ASSUME NEW i \in DOMAIN Startups
  PROVE  IsLine(Startups[i])
<1>1. Startups[i] \in Seq(Range(Startups[i])) /\ \A k \in DOMAIN Startups[i] : IsEntry(Startups[i][k])
  BY StartupsAssumption, EntriesAssumption
<1> QED
  BY <1>1, SequenceIsLine

LEMMA ClientLine ==
  ASSUME scene \in Scenes, NEW line \in Lines
  PROVE  IsLine([i \in DOMAIN line |-> Entries[scene][line[i]]])
<1> DEFINE E == Entries[scene]
           l == [i \in DOMAIN line |-> E[line[i]]]
           S == {E[j] : j \in DOMAIN E}
<1>1. PICK n \in 1..MaxLine : line \in [1..n -> DOMAIN E]
  BY DEF Lines
<1>2. n \in Nat /\ \A j \in DOMAIN E : IsEntry(E[j])
  BY <1>1, EntriesAssumption
<1> HIDE DEF E
<1>3. l \in [1..n -> S] /\ \A k \in 1..n : l[k] = E[line[k]] /\ line[k] \in DOMAIN E
  BY <1>1
<1>4. l \in Seq(S)
  <2> HIDE DEF l, S
  <2> QED
    BY <1>2, <1>3
<1>5. \A k \in DOMAIN l : IsEntry(l[k])
  BY <1>1, <1>2, <1>3
<1>6. IsLine(l)
  <2> HIDE DEF l, S
  <2> QED
    BY <1>4, <1>5, SequenceIsLine
<1> QED
  BY <1>6 DEF E

LEMMA ReloadLine == IsLine(<<Patch("RELOAD", "add", 0, NoRef, Unsaid)>>)
<1> DEFINE e == Patch("RELOAD", "add", 0, NoRef, Unsaid)
<1>1. IsEntry(e)
  BY DEF IsEntry, Patch
<1> HIDE DEF e
<1>2. <<e>> \in Seq({e}) /\ \A k \in DOMAIN <<e>> : <<e>>[k] = e
  OBVIOUS
<1>3. IsLine(<<e>>)
  BY <1>1, <1>2, SequenceIsLine
<1> QED
  BY <1>3 DEF e

LEMMA SceneStays ==
  ASSUME scene \in Scenes, [Next]_vars
  PROVE  scene' \in Scenes
BY DEF Next, vars, Start, CommandLine, Reload, Stop, EditFile, EditNetwork, Settle

LEMMA InvStep ==
  ASSUME ReferenceApart, OptionsInv, scene \in Scenes, [Next]_vars
  PROVE  OptionsInv'
<1>1. CASE \E i \in DOMAIN Startups : Start(Startups[i])
  BY <1>1, StartupLine, StartInv
<1>2. CASE \E line \in Lines : CommandLine([i \in DOMAIN line |-> Entries[scene][line[i]]])
  <2>1. PICK line \in Lines : CommandLine([i \in DOMAIN line |-> Entries[scene][line[i]]])
    BY <1>2
  <2> QED
    BY <2>1, ClientLine, CommandLineInv
<1>3. CASE Reload
  BY <1>3, ReloadLine, CommandLineInv DEF Reload
<1>4. CASE Stop
  BY <1>4, StopInv
<1>5. CASE EditFile
  BY <1>5, EditFileInv
<1>6. CASE EditNetwork
  BY <1>6, EditNetworkInv
<1>7. CASE UNCHANGED vars
  <2>1. State' = State /\ up' = up /\ (Halted => Halted') /\ NetOK'
    BY <1>7 DEF OptionsInv, vars, State, Halted, NetOK
  <2> DEFINE n == State'
  <2>2. Good(n) /\ (Equipped(State) => Equipped(n))
    BY <2>1 DEF OptionsInv
  <2> QED
    BY <2>1, <2>2 DEF OptionsInv
<1> QED
  BY <1>1, <1>2, <1>3, <1>4, <1>5, <1>6, <1>7 DEF Next

(* A good state is in force as it is tracked.                                 *)
LEMMA InvImpliesEffect ==
  ASSUME OptionsInv
  PROVE  EffectAsTracked
<1>1. Good(State)
  BY DEF OptionsInv
<1>2. ASSUME NEW o \in Singles
      PROVE  use[o] = IF track[o] = {} THEN Default[o]
                      ELSE LET v == (CHOOSE q \in track[o] : TRUE).val
                           IN  IF o = "GW" THEN ClassOf[v] ELSE v
  <2>1. SingleOK(State, o)
    BY <1>1 DEF Good, SinglesOK
  <2>2. CASE track[o] = {} /\ use[o] = Default[o]
    BY <2>2
  <2>3. ASSUME NEW v \in ValuesOf(o), track[o] = {Plain(v)}, use[o] = Meant(o, v)
        PROVE  use[o] = IF track[o] = {} THEN Default[o]
                        ELSE LET w == (CHOOSE q \in track[o] : TRUE).val
                             IN  IF o = "GW" THEN ClassOf[w] ELSE w
    <3>1. (CHOOSE q \in track[o] : TRUE) = Plain(v) /\ Plain(v).val = v
      BY <2>3, PlainTyped
    <3> QED
      BY <2>3, <3>1 DEF Meant
  <2> QED
    BY <2>1, <2>2, <2>3, StateFields DEF SingleOK
<1>3. use["DEV"] = {[dev |-> q.val, ttl |-> q.ttl] : q \in track["DEV"]}
  BY <1>1, StateFields DEF Good, DevsOK, InUse
<1>4. NeverBothClasses
  BY <1>1, StateFields DEF Good, OneClass, NeverBothClasses
<1> QED
  BY <1>2, <1>3, <1>4 DEF EffectAsTracked

(* control.c: what is in force is what is tracked, after every line, whole or *)
(* failed, and never both classes: for any lines, speeds and edits, as long   *)
(* as no change of the network makes the reference stand for the first        *)
(* device.                                                                    *)
THEOREM InForceAsTracked ==
  ASSUME ReferenceApart
  PROVE  Spec => []EffectAsTracked
<1> DEFINE I == OptionsInv /\ scene \in Scenes
<1>1. Init => I
  BY InvInit DEF Init
<1>2. I /\ [Next]_vars => I'
  BY InvStep, SceneStays
<1>3. I => EffectAsTracked
  BY InvImpliesEffect
<1> QED
  BY <1>1, <1>2, <1>3, PTL DEF Spec

-----------------------------------------------------------------------------
(* The file and what is tracked.                                              *)

(* The sections of what is tracked.                                           *)
SectionOf(q) == [key |-> Key(q), ttl |-> q.ttl]
InFile(D) == {SectionOf(q) : q \in D}

(* What is tracked for a reference is what it stands for.                     *)
Standing(D) == \A q \in D : q.ref = Ref => q.val = net
Matches(s, o) == s.file[o] = InFile(s.track[o]) /\ (o = "DEV" => Standing(s.track["DEV"]))

(* A single option is one line of the file.                                   *)
OneLine(f) == \A o \in Singles : f[o] = {} \/ \E v \in ValuesOf(o) : f[o] = {SectionOf(Plain(v))}

(* What an operation on the options of O does to the file: nothing unless it  *)
(* saves, and if it does the file says again what is tracked.                 *)
Saves(t, s, save, O) ==
  /\ save = FALSE => t.file = s.file
  /\ save = TRUE => \A o \in Opts : Matches(s, o) => Matches(t, o)
  /\ OneLine(s.file) => OneLine(t.file)
  /\ \A o \in Opts \ O : t.track[o] = s.track[o] /\ t.file[o] = s.file[o]

LEMMA SavesNothing ==
  ASSUME NEW s, NEW t, t.track = s.track, t.file = s.file, NEW save, NEW O
  PROVE  Saves(t, s, save, O)
BY DEF Saves, Matches

LEMMA SavesOn ==
  ASSUME NEW s, NEW t, NEW u, NEW save, NEW O, Saves(t, s, save, O), Saves(u, t, save, O)
  PROVE  Saves(u, s, save, O)
BY DEF Saves

LEMMA SavesMore ==
  ASSUME NEW s, NEW t, NEW save, NEW O, NEW P, O \subseteq P, Saves(t, s, save, O)
  PROVE  Saves(t, s, save, P)
BY DEF Saves

(* The file in which the parents D of the option are saved.                   *)
Rewrites(f, s, save, o, D) ==
  /\ save = FALSE => f = s.file
  /\ \A x \in Opts \ {o} : f[x] = s.file[x]
  /\ save = TRUE => (Matches(s, o) => f[o] = InFile(D) /\ (o = "DEV" => Standing(D)))
  /\ o \in Singles /\ save = TRUE =>
       f[o] \in {s.file[o], {}} \/ \E v \in ValuesOf(o) : f[o] = {SectionOf(Plain(v))}

(* An option is tracked and saved otherwise.                                  *)
LEMMA WithSaves ==
  ASSUME NEW s \in States, NEW o \in Opts, NEW D \in SUBSET Parents, NEW f, FileOK(f),
         NEW save \in BOOLEAN, Rewrites(f, s, save, o, D)
  PROVE  Saves(With(s, o, D, f), s, save, {o})
<1> DEFINE t == With(s, o, D, f)
<1>1. t.file = f /\ t.track[o] = D /\ \A x \in Opts \ {o} : t.track[x] = s.track[x]
  BY WithFields
<1>2. \A x \in Singles : x \in Opts
  BY OptsAre
<1> HIDE DEF t
<1>3. save = TRUE => \A x \in Opts : Matches(s, x) => Matches(t, x)
  BY <1>1 DEF Matches, Rewrites
<1>4. OneLine(s.file) => OneLine(f)
  <2> SUFFICES ASSUME OneLine(s.file), NEW x \in Singles
               PROVE  f[x] = {} \/ \E v \in ValuesOf(x) : f[x] = {SectionOf(Plain(v))}
    BY DEF OneLine
  <2>1. s.file[x] = {} \/ \E v \in ValuesOf(x) : s.file[x] = {SectionOf(Plain(v))}
    BY DEF OneLine
  <2>2. CASE x = o /\ save = TRUE
    BY <2>1, <2>2 DEF Rewrites
  <2>3. CASE x # o \/ save = FALSE
    <3>1. f[x] = s.file[x]
      BY <1>2, <2>3 DEF Rewrites
    <3> QED
      BY <2>1, <3>1
  <2> QED
    BY <2>2, <2>3
<1>5. save = FALSE => f = s.file
  BY DEF Rewrites
<1>6. \A x \in Opts \ {o} : f[x] = s.file[x]
  BY DEF Rewrites
<1> QED
  BY <1>1, <1>3, <1>4, <1>5, <1>6 DEF Saves, t

-----------------------------------------------------------------------------
(* A single option.                                                           *)

LEMMA PlainSection ==
  ASSUME NEW v
  PROVE  SectionOf(Plain(v)) = [key |-> v, ttl |-> NoTtl] /\ InFile({Plain(v)}) = {SectionOf(Plain(v))}
         /\ InFile({}) = {}
BY DEF SectionOf, Plain, Key, InFile

LEMMA DroppedSaves ==
  ASSUME NEW s \in States, FileOK(s.file), NEW save \in BOOLEAN, NEW o \in Singles,
         NEW t, t = Dropped(s, save, o)
  PROVE  Saves(t, s, save, {o})
<1>1. o \in Opts /\ o # "DEV" /\ Default[o] \in InForce
  BY OptsAre, DefaultTyped
<1>2. CASE s.track[o] = {}
  <2>1. t = s
    BY <1>2 DEF Dropped
  <2> QED
    BY <2>1, SavesNothing
<1>3. CASE s.track[o] # {}
  <2> DEFINE f == IF save THEN Erase(s.file, o, o) ELSE s.file
             u == Using(s, o, Default[o])
             w == With(u, o, {}, f)
  <2>1. t = [s EXCEPT !.use[o] = Default[o], !.track[o] = {}, !.file = f]
    BY <1>3 DEF Dropped
  <2>2. FileOK(f)
    BY <1>1, EraseOK
  <2>3. /\ save = FALSE => f = s.file
        /\ \A x \in Opts \ {o} : f[x] = s.file[x]
        /\ save = TRUE => f[o] = {}
    BY <1>1 DEF Erase, Sections, FileOK
  <2> HIDE DEF f
  <2>4. t = w
    BY <2>1 DEF With, Using
  <2>5. u \in States /\ u.track = s.track /\ u.file = s.file
    BY <1>1, UsingFields
  <2> HIDE DEF u
  <2>6. Saves(w, u, save, {o})
    <3>1. Rewrites(f, u, save, o, {}) /\ {} \in SUBSET Parents
      BY <1>1, <2>3, <2>5, PlainSection DEF Rewrites
    <3> QED
      BY <1>1, <2>2, <2>5, <3>1, WithSaves
  <2>7. Saves(u, s, save, {o})
    BY <2>5, SavesNothing
  <2> QED
    BY <2>4, <2>6, <2>7, SavesOn
<1> QED
  BY <1>2, <1>3

(* What a patch of the option may touch: the classes reset each other.        *)
Touched(o) == {o} \cup (IF o \in {"RT", "GW"} THEN {"RT", "GW"} ELSE {})

LEMMA InstalledSaves ==
  ASSUME NEW s, Good(s), NEW save \in BOOLEAN, NEW p, SinglePatch(p),
         NEW t, t = Installed(s, save, p)
  PROVE  Saves(t, s, save, Touched(p.opt))
<1> DEFINE o == p.opt
           v == NewValue(p)
           u == Using(s, o, v)
<1>1. /\ o \in Singles /\ o \in Opts /\ o # "DEV" /\ v \in InForce
      /\ s \in States /\ FileOK(s.file) /\ "DEV" \in Opts
  BY SinglePatchFields, NewValueTyped, OptsAre DEF Good
<1>2. t = CASE o = "RT" /\ v # 0 -> Dropped(u, save, "GW")
            [] o = "GW" /\ v # NoSpeed -> Dropped(u, save, "RT")
            [] OTHER -> u
  BY <1>1 DEF Installed, NewValue, Meant, Using
<1>3. u \in States /\ FileOK(u.file) /\ u.track = s.track /\ u.file = s.file
  BY <1>1, UsingFields
<1> HIDE DEF u, v
<1>4. Saves(u, s, save, Touched(o))
  BY <1>3, SavesNothing
<1>5. ASSUME NEW x \in Singles, {x} \subseteq Touched(o), t = Dropped(u, save, x)
      PROVE  Saves(t, s, save, Touched(o))
  <2>1. Saves(t, u, save, {x})
    BY <1>3, <1>5, DroppedSaves
  <2>2. Saves(t, u, save, Touched(o))
    BY <1>5, <2>1, SavesMore
  <2> QED
    BY <1>4, <2>2, SavesOn
<1>6. CASE o = "RT" /\ v # 0
  <2>1. "GW" \in Singles /\ {"GW"} \subseteq Touched(o) /\ t = Dropped(u, save, "GW")
    BY <1>2, <1>6, OptsAre DEF Touched
  <2> QED
    BY <1>5, <2>1
<1>7. CASE o = "GW" /\ v # NoSpeed
  <2>1. "RT" \in Singles /\ {"RT"} \subseteq Touched(o) /\ t = Dropped(u, save, "RT")
    BY <1>2, <1>7, OptsAre DEF Touched
  <2> QED
    BY <1>5, <2>1
<1>8. CASE ~(o = "RT" /\ v # 0) /\ ~(o = "GW" /\ v # NoSpeed)
  <2>1. t = u
    BY <1>2, <1>8
  <2> QED
    BY <1>4, <2>1
<1> QED
  BY <1>6, <1>7, <1>8

LEMMA ApplySingleIs ==
  ASSUME NEW s, NEW save, NEW p, SinglePatch(p), NEW a, a = Apply("apply", s, save, p)
  PROVE  a.s = s \/ a.s = Installed(s, save, p)
<1>1. PICK c : c = Cleaned(s, p)
  OBVIOUS
<1>2. p.ttl = Unsaid /\ p = Patch(p.opt, p.diff, p.val, NoRef, Unsaid)
  BY SinglePatchFields
<1>3. \E d \in {"nop", p.diff} : c = [p EXCEPT !.diff = d, !.ttl = Unsaid]
  BY <1>1, <1>2 DEF Cleaned
<1>4. c.ttl = Unsaid /\ (c.diff # "nop" => c = p)
  BY <1>2, <1>3 DEF Patch
<1>6. CASE a.s # s
  <2>1. ~(c.diff = "nop" /\ c.ttl = Unsaid)
    <3>1. CASE c.diff = "nop" /\ c.ttl = Unsaid
      <4>1. a = Ok(s)
        BY <1>1, <3>1, Judgement
      <4> QED
        BY <1>6, <4>1, Outcomes
    <3> QED
      BY <3>1
  <2>2. ~Refused(s, c)
    <3>1. CASE Refused(s, c)
      <4>1. a = Failure(s)
        BY <1>1, <2>1, <3>1, Judgement
      <4> QED
        BY <1>6, <4>1, Outcomes
    <3> QED
      BY <3>1
  <2>3. a = Ok(Installed(s, save, c))
    BY <1>1, <2>1, <2>2, Judgement
  <2>4. c = p
    BY <1>4, <2>1
  <2>5. a.s = Installed(s, save, p)
    BY <2>3, <2>4, Outcomes
  <2> QED
    BY <2>5
<1> QED
  BY <1>6

(* The other class is no longer tracked, unless the patch only resets its own.*)
Harmless(p) == (p.opt = "RT" => NewValue(p) = 0) /\ (p.opt = "GW" => NewValue(p) = NoSpeed)
Drops(t, s, p) ==
  \A x \in Opts \ {p.opt} :
    t.track[x] \in {s.track[x], {}} /\ (Harmless(p) => t.track[x] = s.track[x])

LEMMA InstalledDrops ==
  ASSUME NEW s, Good(s), NEW save \in BOOLEAN, NEW p, SinglePatch(p),
         NEW t, t = Installed(s, save, p)
  PROVE  Drops(t, s, p)
<1> DEFINE o == p.opt
           v == NewValue(p)
           u == Using(s, o, v)
<1>1. /\ o \in Singles /\ o \in Opts /\ o # "DEV" /\ v \in InForce
      /\ s \in States /\ FileOK(s.file) /\ "DEV" \in Opts /\ "RT" \in Singles /\ "GW" \in Singles
  BY SinglePatchFields, NewValueTyped, OptsAre DEF Good
<1>2. t = CASE o = "RT" /\ v # 0 -> Dropped(u, save, "GW")
            [] o = "GW" /\ v # NoSpeed -> Dropped(u, save, "RT")
            [] OTHER -> u
  BY <1>1 DEF Installed, NewValue, Meant, Using
<1>3. u \in States /\ u.track = s.track
  BY <1>1, UsingFields
<1> HIDE DEF u
<1>4. \A o2 \in Singles : \A x \in Opts : Dropped(u, save, o2).track[x] \in {u.track[x], {}}
  BY <1>1, <1>3, OptsAre DEF Dropped, States
<1>5. CASE o = "RT" /\ v # 0
  <2>1. ~Harmless(p) /\ t = Dropped(u, save, "GW")
    BY <1>2, <1>5 DEF Harmless
  <2> QED
    BY <1>1, <1>3, <1>4, <2>1 DEF Drops
<1>6. CASE o = "GW" /\ v # NoSpeed
  <2>1. ~Harmless(p) /\ t = Dropped(u, save, "RT")
    BY <1>2, <1>6 DEF Harmless
  <2> QED
    BY <1>1, <1>3, <1>4, <2>1 DEF Drops
<1>7. CASE ~(o = "RT" /\ v # 0) /\ ~(o = "GW" /\ v # NoSpeed)
  <2>1. t = u
    BY <1>2, <1>7
  <2> QED
    BY <1>3, <2>1 DEF Drops
<1> QED
  BY <1>5, <1>6, <1>7

LEMMA ApplySingleSaves ==
  ASSUME NEW s, Good(s), NEW save \in BOOLEAN, NEW p, SinglePatch(p),
         NEW a, a = Apply("apply", s, save, p)
  PROVE  Saves(a.s, s, save, Touched(p.opt)) /\ Drops(a.s, s, p)
<1>1. CASE a.s = s
  BY <1>1, SavesNothing DEF Drops
<1>2. CASE a.s = Installed(s, save, p)
  BY <1>2, InstalledSaves, InstalledDrops
<1> QED
  BY <1>1, <1>2, ApplySingleIs

LEMMA TrackParentSingleSaves ==
  ASSUME NEW s \in States, FileOK(s.file), NEW save \in BOOLEAN, NEW p, SinglePatch(p),
         OneTracked(s, p.opt), NEW t, t = TrackParent(s, save, p)
  PROVE  Saves(t, s, save, {p.opt})
<1> DEFINE o == p.opt
           old == Tracked(s, p)
           new == [val |-> p.val, ref |-> p.ref,
                   ttl |-> IF old = {} THEN NoTtl ELSE (CHOOSE q \in old : TRUE).ttl]
           was == IF old = {} THEN Key(new) ELSE Key(CHOOSE q \in old : TRUE)
<1>1. /\ o \in Singles /\ o \in Opts /\ o # "DEV" /\ p.val \in ValuesOf(o) /\ p.ref = NoRef
      /\ old = s.track[o]
  BY SinglePatchFields, SingleFound
<1>2. new = Plain(p.val)
  <2>1. (IF old = {} THEN NoTtl ELSE (CHOOSE q \in old : TRUE).ttl) = NoTtl
    BY <1>1 DEF OneTracked, Plain
  <2> QED
    BY <1>1, <2>1 DEF Plain
<1>3. Plain(p.val) \in Parents /\ Key(Plain(p.val)) = p.val /\ p.val \in KeysOf(o)
  BY <1>1, PlainTyped, ValuesAre DEF Key
<1>4. CASE \E q \in old : Same(q, p)
  <2>1. t = s
    BY <1>4 DEF TrackParent
  <2> QED
    BY <2>1, SavesNothing
<1>5. CASE ~ \E q \in old : Same(q, p)
  <2> DEFINE D == {Plain(p.val)}
             f == IF save THEN Store(s.file, o, was, p.val) ELSE s.file
  <2>1. t = [s EXCEPT !.track[o] = (s.track[o] \ old) \cup {Plain(p.val)}, !.file = f]
    BY <1>2, <1>3, <1>5 DEF TrackParent
  <2>2. (s.track[o] \ old) \cup {Plain(p.val)} = D
    BY <1>1
  <2> HIDE DEF old, new, was, o
  <2>3. FileOK(Store(s.file, o, was, p.val))
    BY <1>1, <1>3, StoreOK
  <2>4. FileOK(f) /\ D \in SUBSET Parents
    BY <1>3, <2>3
  <2>5. Store(s.file, o, was, p.val)[o] = {[key |-> p.val, ttl |-> NoTtl]}
        /\ \A x \in Opts \ {o} : Store(s.file, o, was, p.val)[x] = s.file[x]
    BY <1>1 DEF Store, Sections, FileOK
  <2>6. /\ save = FALSE => f = s.file
        /\ \A x \in Opts \ {o} : f[x] = s.file[x]
        /\ save = TRUE => f[o] = {SectionOf(Plain(p.val))} /\ f[o] = InFile(D)
    BY <2>5, PlainSection
  <2>7. t = With(s, o, D, f)
    BY <2>1, <2>2 DEF With
  <2> HIDE DEF D, f
  <2>8. Saves(With(s, o, D, f), s, save, {o})
    <3>1. Rewrites(f, s, save, o, D)
      BY <1>1, <2>6 DEF Rewrites
    <3> QED
      BY <1>1, <2>4, <3>1, WithSaves
  <2>9. Saves(t, s, save, {o})
    BY <2>7, <2>8
  <2> QED
    BY <2>9 DEF o
<1> QED
  BY <1>4, <1>5

LEMMA TrackSingleSaves ==
  ASSUME NEW s \in States, FileOK(s.file), NEW save \in BOOLEAN, NEW p, SinglePatch(p),
         OneTracked(s, p.opt), NEW r, r = Track("apply", s, save, p)
  PROVE  Saves(r.s, s, save, {p.opt})
<1> DEFINE o == p.opt
           old == Tracked(s, p)
           t == TrackParent(s, save, p)
<1>1. /\ o \in Singles /\ o \in Opts /\ o # "DEV" /\ p.ttl = Unsaid /\ p.diff \in {"add", "del"}
      /\ old = s.track[o]
  BY SinglePatchFields, SingleFound
<1>2. CASE p.diff = "del" /\ old = {}
  <2>1. r = [ok |-> ~save, s |-> s]
    BY <1>2 DEF Track
  <2>2. r.s = s
    BY <2>1
  <2> QED
    BY <2>2, SavesNothing
<1>3. CASE p.diff = "del" /\ old # {}
  <2> DEFINE key == Key(CHOOSE q \in old : TRUE)
             D == s.track[o] \ old
             f == IF save THEN Erase(s.file, o, key) ELSE s.file
             u == [s EXCEPT !.track[o] = D, !.file = f]
  <2>1. r = Ok(u)
    BY <1>3 DEF Track
  <2> HIDE DEF old, key, o
  <2>2. FileOK(Erase(s.file, o, key))
    BY <1>1, EraseOK
  <2>3. D \in SUBSET Parents /\ FileOK(f) /\ D = {}
    BY <1>1, <2>2 DEF States
  <2>4. Erase(s.file, o, key)[o] = {} /\ \A x \in Opts \ {o} : Erase(s.file, o, key)[x] = s.file[x]
    BY <1>1 DEF Erase, Sections, FileOK
  <2>5. /\ save = FALSE => f = s.file
        /\ \A x \in Opts \ {o} : f[x] = s.file[x]
        /\ save = TRUE => f[o] = {} /\ f[o] = InFile(D)
    BY <2>3, <2>4, PlainSection
  <2>6. u = With(s, o, D, f)
    BY DEF With
  <2> HIDE DEF D, f, u
  <2>7. Saves(With(s, o, D, f), s, save, {o})
    <3>1. Rewrites(f, s, save, o, D)
      BY <1>1, <2>5 DEF Rewrites
    <3> QED
      BY <1>1, <2>3, <3>1, WithSaves
  <2>8. r.s = u
    BY <2>1, Outcomes
  <2> QED
    BY <2>6, <2>7, <2>8 DEF o
<1>4. CASE p.diff = "add"
  <2>1. Saves(t, s, save, {o})
    BY TrackParentSingleSaves
  <2>2. TrackTtl(t, save, p) = t
    BY <1>1 DEF TrackTtl
  <2>3. r = Failure(t) \/ r = Ok(t)
    <3> HIDE DEF t, old
    <3> QED
      BY <1>4, <2>2 DEF Track, t, old
  <2>4. r.s = t
    BY <2>3, Outcomes
  <2> HIDE DEF t
  <2> QED
    BY <2>1, <2>4
<1> QED
  BY <1>1, <1>2, <1>3, <1>4

(* A call for a single option.                                                *)
LEMMA SingleSaves ==
  ASSUME NEW s, Good(s), NEW save \in BOOLEAN, NEW p, SinglePatch(p),
         NEW a, a = Apply("apply", s, save, p), Succeeded(a),
         NEW r, r = Track("apply", a.s, save, p)
  PROVE  /\ Saves(r.s, s, save, Touched(p.opt)) /\ Drops(r.s, s, p)
         /\ r.s.track[p.opt] = IF p.diff = "del" THEN {} ELSE {Plain(p.val)}
<1> DEFINE o == p.opt
           t == a.s
<1>1. o \in Singles /\ o \in Opts
  BY SinglePatchFields
<1>2. Installs(t, s, o)
  BY ApplySingle DEF Succeeded
<1>3. OneTracked(t, o)
  BY <1>1, <1>2, OneIsTracked DEF Good, SinglesOK, Installs, OneTracked
<1>4. t \in States /\ FileOK(t.file)
  BY <1>2 DEF Installs
<1>5. Saves(r.s, t, save, {o})
  BY <1>3, <1>4, TrackSingleSaves
<1>6. Saves(r.s, t, save, Touched(o))
  <2>1. {o} \subseteq Touched(o)
    BY DEF Touched
  <2> QED
    BY <1>5, <2>1, SavesMore
<1>7. Saves(t, s, save, Touched(o)) /\ Drops(t, s, p)
  BY ApplySingleSaves
<1>8. SameBut(r.s, t, o) /\ r.s.track[o] = IF p.diff = "del" THEN {} ELSE {Plain(p.val)}
  BY <1>3, <1>4, TrackSingle
<1>9. Drops(r.s, s, p)
  BY <1>7, <1>8 DEF Drops, SameBut
<1> QED
  BY <1>6, <1>7, <1>8, <1>9, SavesOn

(* What a patch leaves tracked.                                               *)
Leaves(p) == IF p.diff = "del" THEN {} ELSE {Plain(p.val)}

LEMMA CarriedSingleSaves ==
  ASSUME NEW s, Good(s), NEW save \in BOOLEAN, NEW p, SinglePatch(p),
         NEW r, r = Carried("apply", s, save, p)
  PROVE  /\ Saves(r.s, s, save, Touched(p.opt)) /\ Drops(r.s, s, p)
         /\ r.ok => r.s.track[p.opt] = Leaves(p)
<1>1. PICK a : a = Apply("apply", s, save, p)
  OBVIOUS
<1>2. ~Distinct(s, p) /\ Rederived("apply", s, save, p) = s
  BY SinglePatchFields DEF Distinct, Rederived
<1>3. r = IF ~a.ok THEN a ELSE Track("apply", a.s, save, p)
  BY <1>1, <1>2 DEF Carried, Tracking
<1>4. a.ok \in BOOLEAN /\ (a.ok = FALSE => a.s = s)
  BY <1>1, ApplySingle
<1>5. CASE a.ok = FALSE
  <2>1. r = a
    BY <1>3, <1>5
  <2>2. r.s = s /\ r.ok = FALSE
    BY <1>4, <1>5, <2>1
  <2> QED
    BY <2>2, SavesNothing DEF Drops
<1>6. CASE a.ok = TRUE
  <2>1. r = Track("apply", a.s, save, p)
    BY <1>3, <1>6
  <2>2. Succeeded(a)
    BY <1>6 DEF Succeeded
  <2>3. /\ Saves(r.s, s, save, Touched(p.opt)) /\ Drops(r.s, s, p)
        /\ r.s.track[p.opt] = IF p.diff = "del" THEN {} ELSE {Plain(p.val)}
    BY <1>1, <2>1, <2>2, SingleSaves
  <2> QED
    BY <2>3 DEF Leaves
<1> QED
  BY <1>4, <1>5, <1>6

-----------------------------------------------------------------------------
(* The devices.                                                               *)

(* Each has a section of its own.                                             *)
LEMMA KeysApart ==
  ASSUME NEW D, D \subseteq Parents, Apart(D), ByName(D), NEW q \in D, NEW r \in D, Key(q) = Key(r)
  PROVE  q = r
<1>1. q.val \in Devs /\ r.val \in Devs /\ q.ref \in {NoRef, Ref} /\ r.ref \in {NoRef, Ref}
  BY DEF Parents, ByName
<1>2. CASE q.ref = NoRef /\ r.ref = NoRef
  BY <1>2 DEF Key, Apart
<1>3. CASE q.ref = Ref /\ r.ref = Ref
  BY <1>3 DEF Apart, Ref, NoRef
<1>4. CASE q.ref # r.ref
  BY <1>1, <1>4 DEF Key, Ref, NoRef, Devs
<1> QED
  BY <1>1, <1>2, <1>3, <1>4

LEMMA SectionOfDevice ==
  ASSUME NEW s \in States, Apart(s.track["DEV"]), ByName(s.track["DEV"]), Matches(s, "DEV"),
         NEW q \in s.track["DEV"]
  PROVE  /\ Sections(s.file, "DEV", Key(q)) = {SectionOf(q)}
         /\ s.file["DEV"] \ {SectionOf(q)} = InFile(s.track["DEV"] \ {q})
<1> DEFINE D == s.track["DEV"]
<1>1. D \subseteq Parents /\ "DEV" \notin Singles /\ s.file["DEV"] = InFile(D)
  BY OptsAre DEF States, Matches
<1>2. \A x \in D : Key(x) = Key(q) => x = q
  BY <1>1, KeysApart
<1>3. \A x \in D : SectionOf(x).key = Key(x)
  BY DEF SectionOf
<1>4. Sections(s.file, "DEV", Key(q)) = {SectionOf(q)}
  BY <1>1, <1>2, <1>3 DEF Sections, InFile
<1>5. \A x \in D : SectionOf(x) = SectionOf(q) => x = q
  BY <1>2, <1>3
<1>6. s.file["DEV"] \ {SectionOf(q)} = InFile(D \ {q})
  BY <1>1, <1>5 DEF InFile
<1> QED
  BY <1>4, <1>6

(* One that is not tracked has none.                                          *)
LEMMA NoSection ==
  ASSUME NEW s, Matches(s, "DEV"), NEW key, \A q \in s.track["DEV"] : Key(q) # key
  PROVE  Sections(s.file, "DEV", key) = {}
BY OptsAre DEF Sections, Matches, InFile, SectionOf

(* Another device is tracked in the place of some.                            *)
LEMMA InFileWith ==
  ASSUME NEW D, NEW q
  PROVE  InFile(D \cup {q}) = InFile(D) \cup {SectionOf(q)}
BY DEF InFile

LEMMA DevRewrites ==
  ASSUME NEW s \in States, NEW save \in BOOLEAN, NEW D, NEW f, NEW g,
         f = IF save THEN g ELSE s.file,
         \A x \in Opts \ {"DEV"} : g[x] = s.file[x],
         Matches(s, "DEV") => g["DEV"] = InFile(D) /\ Standing(D)
  PROVE  Rewrites(f, s, save, "DEV", D)
BY OptsAre DEF Rewrites

LEMMA DroppedDevSaves ==
  ASSUME NEW s, Good(s), NEW save \in BOOLEAN, NEW q \in s.track["DEV"], q.val # "a",
         NEW t, t = DroppedDev(s, save, q)
  PROVE  Saves(t, s, save, {"DEV"})
<1> DEFINE D == s.track["DEV"]
           U == {d \in s.use["DEV"] : d.dev # q.val}
           g == Erase(s.file, "DEV", Key(q))
           f == IF save THEN g ELSE s.file
           u == Using(s, "DEV", U)
           w == With(u, "DEV", D \ {q}, f)
<1>1. /\ s \in States /\ FileOK(s.file) /\ D \subseteq Parents
      /\ s.use["DEV"] \subseteq Running /\ Apart(D) /\ ByName(D) /\ "DEV" \in Opts
  BY GoodDevs, OptsAre
<1>2. CASE Refused(s, Patch("DEV", "del", q.val, NoRef, Unsaid))
  <2>1. t = s
    BY <1>2 DEF DroppedDev
  <2> QED
    BY <2>1, SavesNothing
<1>3. CASE ~Refused(s, Patch("DEV", "del", q.val, NoRef, Unsaid))
  <2>1. t = [s EXCEPT !.use["DEV"] = U, !.track["DEV"] = D \ {q}, !.file = f]
    BY <1>3 DEF DroppedDev
  <2>2. q.val \in Devs /\ q.ref \in {NoRef, Ref} /\ Key(q) # "a"
    BY <1>1 DEF ByName, Parents, Key, Ref, NoRef
  <2>3. FileOK(g)
    BY <1>1, <2>2, EraseOK
  <2>4. U \in InForce /\ D \ {q} \in SUBSET Parents
    BY <1>1 DEF InForce
  <2>5. \A x \in Opts \ {"DEV"} : g[x] = s.file[x]
    BY <1>1 DEF Erase, FileOK
  <2>6. Matches(s, "DEV") => g["DEV"] = InFile(D \ {q}) /\ Standing(D \ {q})
    <3>1. g["DEV"] = s.file["DEV"] \ Sections(s.file, "DEV", Key(q))
      BY <1>1 DEF Erase, FileOK
    <3>2. Matches(s, "DEV") => Standing(D \ {q})
      BY DEF Matches, Standing
    <3>3. Matches(s, "DEV") => g["DEV"] = InFile(D \ {q})
      BY <1>1, <3>1, SectionOfDevice
    <3> QED
      BY <3>2, <3>3
  <2> HIDE DEF U, g
  <2>7. FileOK(f)
    BY <1>1, <2>3
  <2>8. u \in States /\ u.track = s.track /\ u.file = s.file
    BY <1>1, <2>4, UsingFields
  <2>9. t = w
    BY <2>1 DEF With, Using
  <2> HIDE DEF u
  <2>10. Rewrites(f, u, save, "DEV", D \ {q})
    <3>1. f = IF save THEN g ELSE u.file
      BY <2>8
    <3>2. (\A x \in Opts \ {"DEV"} : g[x] = u.file[x])
          /\ (Matches(u, "DEV") => g["DEV"] = InFile(D \ {q}) /\ Standing(D \ {q}))
      BY <2>5, <2>6, <2>8 DEF Matches
    <3> HIDE DEF f
    <3> QED
      BY <2>8, <3>1, <3>2, DevRewrites
  <2> HIDE DEF f
  <2>11. Saves(w, u, save, {"DEV"})
    BY <1>1, <2>4, <2>7, <2>8, <2>10, WithSaves
  <2>12. Saves(u, s, save, {"DEV"})
    BY <2>8, SavesNothing
  <2> QED
    BY <2>9, <2>11, <2>12, SavesOn
<1> QED
  BY <1>2, <1>3

LEMMA TrackParentDevSaves ==
  ASSUME NEW s \in States, FileOK(s.file), Apart(s.track["DEV"]), ByName(s.track["DEV"]),
         NEW save \in BOOLEAN, NEW p, AddPatch(p), ByItsValue(s, p), NEW t, t = TrackParent(s, save, p)
  PROVE  Saves(t, s, save, {"DEV"})
<1> DEFINE D == s.track["DEV"]
           B == ByVal(s, p)
           k == Kept(s, p)
           was == IF B = {} THEN Key(k) ELSE Key(CHOOSE q \in B : TRUE)
           E == (D \ B) \cup {k}
           g == Store(s.file, "DEV", was, Key(k))
           f == IF save THEN g ELSE s.file
<1>1. /\ p.opt = "DEV" /\ p.val \in Devs /\ p.ref \in {NoRef, Ref} /\ "DEV" \in Opts
      /\ "DEV" \notin Singles /\ (p.ref = Ref => p.val = net)
  BY AddPatchFields, OptsAre
<1>2. /\ Tracked(s, p) = B
      /\ B = {} \/ \E q \in D : B = {q} /\ q.val = p.val
  BY TrackedByValue
<1>3. D \subseteq Parents
  BY <1>1 DEF States
<1>4. k \in Parents /\ k.val = p.val /\ k.ref = p.ref
      /\ SameBut(t, s, "DEV") /\ t.track["DEV"] = E
  <2>1. k.val = p.val /\ k.ref = p.ref
    BY DEF Kept
  <2> QED
    BY <2>1, TrackParentDev
<1>5. CASE \E q \in B : Same(q, p)
  <2>1. t = s
    BY <1>2, <1>5 DEF TrackParent
  <2> QED
    BY <2>1, SavesNothing
<1>6. CASE ~ \E q \in B : Same(q, p)
  <2>1. t = [s EXCEPT !.track["DEV"] = E, !.file = f]
    <3> HIDE DEF B
    <3> QED
      BY <1>1, <1>2, <1>6 DEF TrackParent, Kept, B
  <2>2. \A x \in Opts \ {"DEV"} : g[x] = s.file[x]
    BY <1>1 DEF Store, FileOK
  <2>3. g["DEV"] = (s.file["DEV"] \ Sections(s.file, "DEV", was)) \cup
          {[key |-> Key(k), ttl |-> IF Sections(s.file, "DEV", was) # {}
                                    THEN (CHOOSE r \in Sections(s.file, "DEV", was) : TRUE).ttl
                                    ELSE NoTtl]}
    <3> HIDE DEF was, k
    <3> QED
      BY <1>1 DEF Store, FileOK
  <2>4. ASSUME Matches(s, "DEV") PROVE g["DEV"] = InFile(E)
    <3>1. InFile(E) = InFile(D \ B) \cup {SectionOf(k)}
      BY InFileWith
    <3>2. CASE B = {}
      <4>1. \A q \in D : Key(q) # Key(k)
        <5> SUFFICES ASSUME NEW q \in D, Key(q) = Key(k) PROVE FALSE
          OBVIOUS
        <5>1. q.val # p.val /\ ~(p.ref # NoRef /\ q.ref = p.ref)
          BY <1>1, <3>2, DevFound DEF ByItsValue
        <5>2. q.val \in Devs /\ q.ref \in {NoRef, Ref}
          BY <1>3 DEF Parents, ByName
        <5> HIDE DEF k
        <5> QED
          BY <1>1, <1>4, <5>1, <5>2 DEF Key, Ref, NoRef, Devs
      <4>2. was = Key(k) /\ k.ttl = NoTtl /\ D \ B = D
        BY <3>2 DEF Kept
      <4> HIDE DEF was, k, B
      <4>3. Sections(s.file, "DEV", was) = {}
        BY <2>4, <4>1, <4>2, NoSection
      <4>4. g["DEV"] = s.file["DEV"] \cup {[key |-> Key(k), ttl |-> NoTtl]}
        BY <2>3, <4>3
      <4>5. s.file["DEV"] = InFile(D)
        BY <2>4 DEF Matches
      <4> HIDE DEF g, E
      <4> QED
        BY <3>1, <4>2, <4>4, <4>5 DEF SectionOf
    <3>3. CASE B # {}
      <4>1. PICK q \in D : B = {q} /\ q.val = p.val
        BY <1>2, <3>3
      <4>2. was = Key(q) /\ k.ttl = q.ttl
        BY <4>1 DEF Kept
      <4>3. /\ Sections(s.file, "DEV", Key(q)) = {SectionOf(q)}
            /\ s.file["DEV"] \ {SectionOf(q)} = InFile(D \ {q})
        BY <2>4, SectionOfDevice
      <4> HIDE DEF was, k, B
      <4>4. g["DEV"] = InFile(D \ B) \cup {[key |-> Key(k), ttl |-> SectionOf(q).ttl]}
        BY <2>3, <4>1, <4>2, <4>3
      <4> HIDE DEF g, E
      <4> QED
        BY <3>1, <4>2, <4>4 DEF SectionOf
    <3> QED
      BY <3>2, <3>3
  <2>10. Matches(s, "DEV") => Standing(E)
    <3>1. k.ref = Ref => k.val = net
      BY <1>1, <1>4
    <3> HIDE DEF k, B
    <3> QED
      BY <3>1 DEF Matches, Standing
  <2>5. FileOK(t.file) /\ t.file = f
    BY <1>4, <2>1 DEF SameBut, States
  <2>6. E \in SUBSET Parents
    BY <1>3, <1>4
  <2> HIDE DEF g, E
  <2>7. Rewrites(f, s, save, "DEV", E)
    <3>1. Matches(s, "DEV") => g["DEV"] = InFile(E) /\ Standing(E)
      BY <2>4, <2>10
    <3>2. f = IF save THEN g ELSE s.file
      OBVIOUS
    <3> HIDE DEF f
    <3> QED
      BY <2>2, <3>1, <3>2, DevRewrites
  <2>8. t = With(s, "DEV", E, f)
    BY <2>1 DEF With
  <2> HIDE DEF f
  <2>9. Saves(With(s, "DEV", E, f), s, save, {"DEV"})
    BY <1>1, <2>5, <2>6, <2>7, WithSaves
  <2> QED
    BY <2>8, <2>9
<1> QED
  BY <1>5, <1>6

(* The child option.                                                          *)
LEMMA TrackTtlDevSaves ==
  ASSUME NEW t \in States, FileOK(t.file), Apart(t.track["DEV"]), ByName(t.track["DEV"]),
         NEW save \in BOOLEAN, NEW p, AddPatch(p), NEW q \in t.track["DEV"],
         q.val = p.val, q.ref = p.ref,
         NEW u, u = TrackTtl(t, save, p)
  PROVE  Saves(u, t, save, {"DEV"})
<1> DEFINE D == t.track["DEV"]
           m == IF p.ttl = Reset THEN NoTtl ELSE p.ttl
           n == [q EXCEPT !.ttl = m]
           E == (D \ {q}) \cup {n}
           g == StoreTtl(t.file, Key(q), m)
           f == IF save THEN g ELSE t.file
<1>1. /\ p.opt = "DEV" /\ p.val \in Devs /\ p.ref \in {NoRef, Ref} /\ "DEV" \in Opts
      /\ p.ttl \in Ttls \cup {Unsaid, Reset}
  BY AddPatchFields, OptsAre
<1>2. D \subseteq Parents
  BY <1>1 DEF States
<1>3. (CHOOSE x \in t.track[p.opt] : Same(x, p)) = q
  BY <1>1 DEF Same, Apart
<1>4. CASE p.ttl = Unsaid \/ q.ttl = m
  <2>1. u = t
    BY <1>3, <1>4 DEF TrackTtl
  <2> QED
    BY <2>1, SavesNothing
<1>5. CASE ~(p.ttl = Unsaid \/ q.ttl = m)
  <2>1. u = [t EXCEPT !.track["DEV"] = E, !.file = f]
    <3> DEFINE z == CHOOSE x \in t.track[p.opt] : Same(x, p)
    <3>1. u = IF p.ttl = Unsaid \/ z.ttl = m THEN t
              ELSE [t EXCEPT !.track[p.opt] = (@ \ {z}) \cup {[z EXCEPT !.ttl = m]},
                             !.file = IF save THEN StoreTtl(@, Key(z), m) ELSE @]
      BY DEF TrackTtl
    <3>2. z = q
      BY <1>3
    <3> HIDE DEF z, m
    <3> QED
      BY <1>1, <1>5, <3>1, <3>2
  <2>2. m \in Marks
    BY <1>1, <1>5 DEF Marks
  <2>3. Key(q) \in Devs \cup {Ref}
    BY <1>1 DEF Key
  <2>4. q \in Parents
    BY <1>2
  <2> HIDE DEF m
  <2>5. n \in Parents /\ SectionOf(n) = [key |-> Key(q), ttl |-> m]
    BY <2>2, <2>4 DEF Parents, SectionOf, Key
  <2>15. n.val = q.val /\ n.ref = q.ref
    BY <2>4 DEF Parents
  <2>6. FileOK(g)
    BY <2>2, <2>3, StoreTtlOK
  <2>7. \A x \in Opts \ {"DEV"} : g[x] = t.file[x]
    BY DEF StoreTtl, FileOK
  <2>8. g["DEV"] = (t.file["DEV"] \ Sections(t.file, "DEV", Key(q)))
                   \cup {[key |-> Key(q), ttl |-> m]}
    BY <1>1 DEF StoreTtl, FileOK
  <2> HIDE DEF g, n
  <2>9. Matches(t, "DEV") => g["DEV"] = InFile(E) /\ Standing(E)
    <3> SUFFICES ASSUME Matches(t, "DEV") PROVE g["DEV"] = InFile(E) /\ Standing(E)
      OBVIOUS
    <3>3. Standing(E)
      BY <2>4, <2>15 DEF Matches, Standing
    <3>1. /\ Sections(t.file, "DEV", Key(q)) = {SectionOf(q)}
          /\ t.file["DEV"] \ {SectionOf(q)} = InFile(D \ {q})
      BY SectionOfDevice
    <3>2. InFile(E) = InFile(D \ {q}) \cup {SectionOf(n)}
      BY InFileWith
    <3> HIDE DEF E, D
    <3> QED
      BY <2>5, <2>8, <3>1, <3>2, <3>3
  <2>10. E \in SUBSET Parents
    BY <1>2, <2>5
  <2> HIDE DEF E
  <2>11. FileOK(f)
    BY <2>6
  <2>12. Rewrites(f, t, save, "DEV", E)
    <3>1. f = IF save THEN g ELSE t.file
      OBVIOUS
    <3> HIDE DEF f
    <3> QED
      BY <2>7, <2>9, <3>1, DevRewrites
  <2>13. u = With(t, "DEV", E, f)
    BY <2>1 DEF With
  <2> HIDE DEF f
  <2>14. Saves(With(t, "DEV", E, f), t, save, {"DEV"})
    BY <1>1, <2>10, <2>11, <2>12, WithSaves
  <2> QED
    BY <2>13, <2>14
<1> QED
  BY <1>4, <1>5

LEMMA TrackAddSaves ==
  ASSUME NEW s \in States, FileOK(s.file), Apart(s.track["DEV"]), ByName(s.track["DEV"]),
         NEW save \in BOOLEAN, NEW p, AddPatch(p), ByItsValue(s, p),
         NEW r, r = Track("apply", s, save, p)
  PROVE  Saves(r.s, s, save, {"DEV"})
<1> DEFINE D == s.track["DEV"]
           B == ByVal(s, p)
           k == Kept(s, p)
           t == TrackParent(s, save, p)
           u == TrackTtl(t, save, p)
<1>1. p.opt = "DEV" /\ p.diff = "add" /\ p.val \in Devs /\ (p.ref = Ref => p.val # "a")
      /\ p.ref \in {NoRef, Ref}
  BY AddPatchFields
<1>2. SameBut(t, s, "DEV") /\ k \in Parents /\ t.track["DEV"] = (D \ B) \cup {k}
  BY TrackParentDev
<1>3. k.val = p.val /\ k.ref = p.ref
  BY DEF Kept
<1>4. Saves(t, s, save, {"DEV"})
  BY TrackParentDevSaves
<1>5. B = {q \in D : q.val = p.val}
      /\ ByRef(s, p) = {q \in D : p.ref # NoRef /\ q.ref = p.ref}
  BY <1>1, DevFound
<1>6. \A x \in D \ B : x.val # p.val /\ ~(x.ref = p.ref /\ x.ref # NoRef)
  BY <1>5 DEF ByItsValue
<1> HIDE DEF t, k, B
<1>7. Apart(t.track["DEV"]) /\ ByName(t.track["DEV"])
  <2>1. Apart((D \ B) \cup {k})
    BY <1>3, <1>6 DEF Apart
  <2>2. ByName((D \ B) \cup {k})
    BY <1>1, <1>3 DEF ByName
  <2> QED
    BY <1>2, <2>1, <2>2
<1>8. Saves(u, s, save, {"DEV"})
  <2>1. t \in States /\ FileOK(t.file) /\ k \in t.track["DEV"]
    BY <1>2 DEF SameBut
  <2>2. Saves(u, t, save, {"DEV"})
    BY <1>3, <1>7, <2>1, TrackTtlDevSaves
  <2> HIDE DEF u
  <2> QED
    BY <1>4, <2>2, SavesOn
<1>9. r = Failure(t) \/ r = Ok(u)
  BY <1>1 DEF Track, t
<1> HIDE DEF u
<1>10. r.s = t \/ r.s = u
  BY <1>9, Outcomes
<1> QED
  BY <1>4, <1>8, <1>10

(* A call for a device to be added, and what is tracked then.                 *)
LEMMA RederivedSaves ==
  ASSUME NEW s, Good(s), NEW save \in BOOLEAN, NEW p, AddPatch(p), ~Distinct(s, p),
         NEW t, t = Rederived("apply", s, save, p)
  PROVE  Saves(t, s, save, {"DEV"})
         /\ t.track["DEV"] = IF ByVal(s, p) = {} THEN s.track["DEV"] \ ByRef(s, p)
                             ELSE s.track["DEV"]
<1> DEFINE D == s.track["DEV"]
           old == {q \in Tracked(s, p) : p.opt = "DEV" /\ p.diff = "add" /\ q.val # p.val
                                         /\ (p.ref # NoRef \/ q.ref # NoRef)}
<1>1. /\ p.opt = "DEV" /\ p.diff = "add"
      /\ ByVal(s, p) = {q \in D : q.val = p.val}
      /\ ByRef(s, p) = {q \in D : p.ref # NoRef /\ q.ref = p.ref}
  BY AddPatchFields, DevFound
<1>2. t = IF old = {} THEN s ELSE DroppedDev(s, save, CHOOSE q \in old : TRUE)
  BY DEF Rederived
<1>3. old = IF ByVal(s, p) = {} THEN ByRef(s, p) ELSE {}
  <2>1. CASE ByVal(s, p) = {}
    <3>1. Tracked(s, p) = ByRef(s, p)
      BY <2>1 DEF Tracked
    <3> QED
      BY <1>1, <2>1, <3>1
  <2>2. CASE ByVal(s, p) # {}
    <3>1. Tracked(s, p) = ByVal(s, p)
      BY <2>2 DEF Tracked
    <3> QED
      BY <1>1, <2>2, <3>1
  <2> QED
    BY <2>1, <2>2
<1> HIDE DEF old
<1>4. CASE old = {}
  <2>1. t = s
    BY <1>2, <1>4
  <2>2. t.track["DEV"] = IF ByVal(s, p) = {} THEN D \ ByRef(s, p) ELSE D
    BY <1>3, <1>4, <2>1
  <2> QED
    BY <2>1, <2>2, SavesNothing
<1>5. CASE old # {}
  <2> DEFINE q == CHOOSE x \in old : TRUE
  <2>1. q \in ByRef(s, p) /\ ByVal(s, p) = {} /\ old = ByRef(s, p)
    BY <1>3, <1>5
  <2>2. q \in D /\ p.ref # NoRef /\ q.ref = p.ref
    BY <1>1, <2>1
  <2>3. q.val # "a" /\ Apart(D)
    BY <2>2, GoodDevs DEF ByName
  <2>4. t = DroppedDev(s, save, q)
    BY <1>2, <1>5
  <2> HIDE DEF q
  <2>5. ByRef(s, p) = {q}
    BY <1>1, <2>2, <2>3 DEF Apart
  <2>6. t.track["DEV"] = D \ {q}
    BY <2>2, <2>3, <2>4, DroppedDevGood
  <2>7. Saves(t, s, save, {"DEV"})
    BY <2>2, <2>3, <2>4, DroppedDevSaves
  <2> QED
    BY <2>1, <2>5, <2>6, <2>7
<1> QED
  BY <1>4, <1>5

LEMMA AddSaves ==
  ASSUME NEW s, Good(s), NEW save \in BOOLEAN, NEW p, AddPatch(p), ~Distinct(s, p),
         NEW t, t = Rederived("apply", s, save, p),
         NEW a, a = Apply("apply", t, save, p),
         NEW r, r = Track("apply", a.s, save, p)
  PROVE  /\ Saves(r.s, s, save, {"DEV"})
         /\ r.s.track["DEV"] = Renewal(t, p)
<1> DEFINE D == t.track["DEV"]
           v == a.s
<1>1. Good(t) /\ ByItsValue(t, p) /\ Saves(t, s, save, {"DEV"})
  BY RederivedGood, RederivedSaves
<1>2. D \subseteq Parents /\ Apart(D) /\ ByName(D)
  BY <1>1, GoodDevs
<1>3. DevOnly(v, t) /\ v.track = t.track
  <2>1. DevOnly(a.s, t) /\ SameTracked(a.s, t)
    BY <1>1, ApplyAdd
  <2> QED
    BY <2>1 DEF SameTracked
<1>4. ByVal(v, p) = ByVal(t, p) /\ ByRef(v, p) = ByRef(t, p)
  BY <1>3 DEF ByVal, ByRef
<1>5. Renewal(v, p) = Renewal(t, p)
  BY <1>3, <1>4 DEF Renewal, Renewed
<1>6. v \in States /\ FileOK(v.file) /\ Apart(v.track["DEV"]) /\ ByName(v.track["DEV"])
      /\ ByItsValue(v, p)
  BY <1>1, <1>2, <1>3, <1>4 DEF DevOnly, ByItsValue
<1>7. v.file = t.file
  PROOF
  <2>1. PICK c : c = Cleaned(t, p)
    OBVIOUS
  <2>2. c.opt = "DEV"
    BY <2>1, AddPatchFields DEF Cleaned, Patch
  <2>3. a = Ok(t) \/ a = Failure(t) \/ a = Ok(Installed(t, save, c))
    BY <2>1, Judgement
  <2>4. Installed(t, save, c).file = t.file
    <3>1. Installed(t, save, c) = SetDev(t, c)
      BY <2>2 DEF Installed
    <3>2. t \in States
      BY <1>1 DEF Good
    <3>3. SetDev(t, c).file = t.file
      BY <3>2 DEF SetDev, States
    <3> QED
      BY <3>1, <3>3
  <2> QED
    BY <2>3, <2>4, Outcomes
<1> HIDE DEF v, D
<1>8. Saves(v, t, save, {"DEV"})
  BY <1>3, <1>7, SavesNothing
<1>9. r = Track("apply", v, save, p)
  BY DEF v
<1>10. Saves(r.s, v, save, {"DEV"}) /\ r.s.track["DEV"] = Renewal(v, p)
  BY <1>6, <1>9, TrackAddSaves, TrackAdd
<1> QED
  BY <1>1, <1>5, <1>8, <1>10, SavesOn

LEMMA CarriedAddSaves ==
  ASSUME NEW s, Good(s), NEW save \in BOOLEAN, NEW p, AddPatch(p),
         NEW r, r = Carried("apply", s, save, p)
  PROVE  /\ Saves(r.s, s, save, {"DEV"})
         /\ r.ok => /\ ~Distinct(s, p)
                    /\ r.s.track["DEV"] = Renewal(Rederived("apply", s, save, p), p)
<1>1. CASE Distinct(s, p)
  <2>1. r = Failure(Dead(s))
    BY <1>1 DEF Carried, Dead
  <2>2. r.ok = FALSE /\ r.s = Dead(s)
    BY <2>1, Outcomes
  <2>3. Dead(s).track = s.track /\ Dead(s).file = s.file
    BY DEF Dead, Good, States
  <2> QED
    BY <2>2, <2>3, SavesNothing
<1>2. CASE ~Distinct(s, p)
  <2>1. PICK t : t = Rederived("apply", s, save, p)
    OBVIOUS
  <2>2. PICK a : a = Apply("apply", t, save, p)
    OBVIOUS
  <2>3. PICK u : u = Track("apply", a.s, save, p)
    OBVIOUS
  <2>4. Saves(u.s, s, save, {"DEV"}) /\ u.s.track["DEV"] = Renewal(t, p)
    BY <1>2, <2>1, <2>2, <2>3, AddSaves
  <2>5. a.ok = TRUE
    <3>1. Good(t)
      BY <1>2, <2>1, RederivedGood
    <3> QED
      BY <2>2, <3>1, ApplyAdd
  <2>6. r = IF ~a.ok THEN a ELSE u
    BY <1>2, <2>1, <2>2, <2>3 DEF Carried, Tracking
  <2>7. r = u
    BY <2>5, <2>6
  <2> QED
    BY <1>2, <2>1, <2>4, <2>7
<1> QED
  BY <1>1, <1>2

LEMMA DelSaves ==
  ASSUME NEW s, Good(s), NEW save \in BOOLEAN, NEW p, DelPatch(s, p),
         NEW a, a = Apply("apply", s, save, p),
         NEW r, r = IF a.ok THEN Track("apply", a.s, save, p) ELSE a
  PROVE  /\ Saves(r.s, s, save, {"DEV"})
         /\ r.ok => r.s.track["DEV"] = s.track["DEV"] \ ByVal(s, p)
<1> DEFINE D == s.track["DEV"]
           B == ByVal(s, p)
           c == Cleaned(s, p)
<1>1. /\ p.opt = "DEV" /\ p.diff = "del" /\ p.val \in Devs /\ p.ref \in {NoRef, Ref}
      /\ p.ttl = Unsaid /\ p = Patch("DEV", "del", p.val, p.ref, Unsaid)
      /\ (p.ref = Ref => \E q \in ByRef(s, p) : q.val = p.val)
  BY DEF DelPatch, Patch
<1>2. /\ B = {q \in D : q.val = p.val} /\ "DEV" \notin Singles
      /\ ByRef(s, p) = {q \in D : p.ref # NoRef /\ q.ref = p.ref} /\ "DEV" \in Opts
  BY <1>1, DevFound, OptsAre
<1>4. s \in States /\ FileOK(s.file) /\ D \subseteq Parents /\ s.use["DEV"] = InUse(D)
      /\ s.use["DEV"] \subseteq Running /\ Apart(D) /\ ByName(D) /\ First(s)
  BY GoodDevs
<1>5. c = IF B = {} THEN [p EXCEPT !.diff = "nop"] ELSE p
  <2>1. c = [p EXCEPT !.diff = IF B = {} THEN "nop" ELSE "del", !.ttl = Unsaid]
    <3> HIDE DEF B
    <3> QED
      BY <1>1, <1>2 DEF Cleaned, B
  <2> HIDE DEF c, B
  <2> QED
    BY <1>1, <2>1 DEF Patch
<1>6. CASE B = {}
  <2>1. c.diff = "nop" /\ c.ttl = Unsaid
    BY <1>1, <1>5, <1>6 DEF Patch
  <2>2. a = Ok(s)
    BY <2>1, Judgement
  <2>3. a.ok = TRUE /\ a.s = s
    BY <2>2, Outcomes
  <2>4. Tracked(s, p) = {}
    BY <1>1, <1>2, <1>6 DEF Tracked
  <2>5. r = [ok |-> ~save, s |-> s]
    BY <1>1, <2>3, <2>4 DEF Track
  <2>6. r.s = s /\ s.track["DEV"] = D \ B
    BY <1>6, <2>5
  <2> QED
    BY <2>6, SavesNothing
<1>7. CASE B # {} /\ Refused(s, p)
  <2>1. ~(c.diff = "nop" /\ c.ttl = Unsaid) /\ c = p
    BY <1>1, <1>5, <1>7
  <2>2. a = Failure(s)
    BY <1>7, <2>1, Judgement
  <2>3. r.ok = FALSE /\ r.s = s
    BY <2>2, Outcomes
  <2> QED
    BY <2>3, SavesNothing
<1>8. CASE B # {} /\ ~Refused(s, p)
  <2> DEFINE U == s.use["DEV"] \ Named(s.use["DEV"], p.val)
             u == Using(s, "DEV", U)
             E == D \ B
             q == CHOOSE x \in B : TRUE
             g == Erase(s.file, "DEV", Key(q))
             f == IF save THEN g ELSE s.file
             w == With(u, "DEV", E, f)
  <2>1. ~(c.diff = "nop" /\ c.ttl = Unsaid) /\ c = p
    BY <1>1, <1>5, <1>8
  <2>2. a = Ok(Installed(s, save, p))
    BY <1>8, <2>1, Judgement
  <2>3. Installed(s, save, p) = u
    <3>1. Installed(s, save, p) = SetDev(s, p)
      BY <1>1 DEF Installed
    <3>2. SetDev(s, p) = u
      BY <1>1 DEF SetDev, Using, Named
    <3> QED
      BY <3>1, <3>2
  <2>4. a.ok = TRUE /\ a.s = u
    BY <2>2, <2>3, Outcomes
  <2>5. q \in D /\ B = {q} /\ q.val = p.val /\ q.ref \in {NoRef, Ref}
    BY <1>2, <1>4, <1>8 DEF Apart, Parents
  <2>6. p.val # "a"
    <3>1. p.val # s.primary
      BY <1>1, <1>8 DEF Refused
    <3> QED
      BY <1>4, <2>5, <3>1 DEF First
  <2>7. Key(q) # "a"
    <3> HIDE DEF q
    <3> QED
      BY <2>5, <2>6 DEF Key, Ref, NoRef
  <2>8. U \in InForce /\ E \in SUBSET Parents
    BY <1>4 DEF InForce
  <2> HIDE DEF U, q
  <2>9. u \in States /\ u.track = s.track /\ u.file = s.file
    BY <1>2, <1>4, <2>8, UsingFields
  <2> HIDE DEF u
  <2>10. FileOK(g)
    BY <1>2, <1>4, <2>7, EraseOK
  <2>11. Tracked(u, p) = B
    <3>1. ByVal(u, p) = B
      BY <2>9 DEF ByVal
    <3> HIDE DEF B
    <3> QED
      BY <1>8, <3>1 DEF Tracked
  <2>12. r = Ok(w)
    <3>1. r = Track("apply", u, save, p)
      BY <2>4
    <3>2. Track("apply", u, save, p) =
            Ok([u EXCEPT !.track["DEV"] = @ \ B,
                         !.file = IF save THEN Erase(@, "DEV", Key(q)) ELSE @])
      <4> HIDE DEF B
      <4> QED
        BY <1>1, <1>8, <2>11 DEF Track, q
    <3>3. u.track["DEV"] \ B = E
      BY <2>9
    <3> HIDE DEF B, E
    <3> QED
      BY <2>9, <3>1, <3>2, <3>3 DEF With
  <2>13. r.s = w
    BY <2>12, Outcomes
  <2>14. \A x \in Opts \ {"DEV"} : g[x] = u.file[x]
    BY <1>2, <1>4, <2>9 DEF Erase, FileOK
  <2>15. Matches(u, "DEV") => g["DEV"] = InFile(E) /\ Standing(E)
    <3> SUFFICES ASSUME Matches(s, "DEV") PROVE g["DEV"] = InFile(E) /\ Standing(E)
      BY <2>9 DEF Matches
    <3>3. Standing(E)
      BY DEF Matches, Standing
    <3>1. g["DEV"] = s.file["DEV"] \ Sections(s.file, "DEV", Key(q))
      BY <1>2, <1>4 DEF Erase, FileOK
    <3>2. /\ Sections(s.file, "DEV", Key(q)) = {SectionOf(q)}
          /\ s.file["DEV"] \ {SectionOf(q)} = InFile(D \ {q})
      BY <1>4, <2>5, SectionOfDevice
    <3>4. Standing(E) /\ E = D \ {q}
      BY <2>5, <3>3
    <3> HIDE DEF g, B, D, E
    <3> QED
      BY <2>5, <3>1, <3>2, <3>4
  <2> HIDE DEF g, E
  <2>16. Rewrites(f, u, save, "DEV", E)
    <3>1. f = IF save THEN g ELSE u.file
      BY <2>9
    <3> HIDE DEF f
    <3> QED
      BY <2>9, <2>14, <2>15, <3>1, DevRewrites
  <2>17. FileOK(f)
    BY <1>4, <2>10
  <2> HIDE DEF f
  <2>18. Saves(w, u, save, {"DEV"})
    BY <1>2, <2>8, <2>9, <2>16, <2>17, WithSaves
  <2>19. Saves(u, s, save, {"DEV"})
    BY <2>9, SavesNothing
  <2>20. w.track["DEV"] = E
    BY <1>2, <2>8, <2>9, <2>17, WithFields
  <2> HIDE DEF w
  <2>21. Saves(w, s, save, {"DEV"})
    BY <2>18, <2>19, SavesOn
  <2> QED
    BY <2>13, <2>20, <2>21 DEF E
<1> QED
  BY <1>6, <1>7, <1>8

LEMMA CarriedDelSaves ==
  ASSUME NEW s, Good(s), NEW save \in BOOLEAN, NEW p, DelPatch(s, p),
         NEW r, r = Carried("apply", s, save, p)
  PROVE  /\ Saves(r.s, s, save, {"DEV"})
         /\ r.ok => r.s.track["DEV"] = s.track["DEV"] \ ByVal(s, p)
<1>1. CASE Distinct(s, p)
  <2>1. r = Failure(Dead(s))
    BY <1>1 DEF Carried, Dead
  <2>2. r.ok = FALSE /\ r.s = Dead(s)
    BY <2>1, Outcomes
  <2>3. Dead(s).track = s.track /\ Dead(s).file = s.file
    BY DEF Dead, Good, States
  <2> QED
    BY <2>2, <2>3, SavesNothing
<1>2. CASE ~Distinct(s, p)
  <2> DEFINE a == Apply("apply", s, save, p)
             u == IF a.ok THEN Track("apply", a.s, save, p) ELSE a
  <2>1. Rederived("apply", s, save, p) = s
    BY DelGood
  <2>2. /\ Saves(u.s, s, save, {"DEV"})
        /\ u.ok => u.s.track["DEV"] = s.track["DEV"] \ ByVal(s, p)
    BY DelSaves
  <2>3. r = IF ~a.ok THEN a ELSE Track("apply", a.s, save, p)
    BY <1>2, <2>1 DEF Carried, Tracking
  <2>4. r = u
    <3> HIDE DEF a
    <3> QED
      BY <2>3
  <2> HIDE DEF u
  <2> QED
    BY <2>2, <2>4
<1> QED
  BY <1>1, <1>2

(* A call keeps the file as tracked if it saves, and leaves it alone if not.  *)
LEMMA CallSaves ==
  ASSUME NEW s, Good(s), NetOK, NEW save \in BOOLEAN, NEW e, IsEntry(e), e.opt \in Opts,
         NEW r, r = Call("apply", s, save, e)
  PROVE  Saves(r.s, s, save, Touched(e.opt))
<1>1. CASE Patched(s, e) = {}
  <2>1. r = Failure(s)
    BY <1>1, CallIs
  <2>2. r.s = s
    BY <2>1, Outcomes
  <2> QED
    BY <2>2, SavesNothing
<1>2. CASE e.opt \in Singles /\ Patched(s, e) # {}
  <2>1. PICK p : Patched(s, e) = {p} /\ SinglePatch(p)
    BY <1>2, PatchedSingle
  <2>2. r = Carried("apply", s, save, p)
    BY <2>1, CallIs
  <2>3. p.opt = e.opt
    <3>1. p \in Patched(s, e) /\ e.opt # "DEV"
      BY <1>2, <2>1, OptsAre
    <3>2. e = Patch(e.opt, e.diff, e.val, NoRef, Unsaid)
      <4>1. e.opt \notin {"TEST", "RELOAD", "DEV"}
        BY <1>2, OptsAre
      <4>2. \A key, ttl : \A diff : e = Entry(key, diff, ttl) => e.opt = "DEV"
        BY DEF Entry, Patch
      <4> QED
        BY <4>1, <4>2 DEF IsEntry
    <3> QED
      BY <3>1, <3>2 DEF Patched, Patch
  <2>4. Saves(r.s, s, save, Touched(p.opt))
    BY <2>1, <2>2, CarriedSingleSaves
  <2> QED
    BY <2>3, <2>4
<1>3. CASE e.opt = "DEV" /\ Patched(s, e) # {}
  <2>1. PICK key \in Devs \cup {Ref} :
           \/ e = Entry(key, "del", Unsaid)
           \/ \E ttl \in Ttls \cup {Unsaid, Reset} : e = Entry(key, "add", ttl)
    BY <1>3, EntryKinds
  <2>2. CASE e = Entry(key, "del", Unsaid)
    <3>1. PICK p : Patched(s, e) = {p} /\ DelPatch(s, p)
      BY <1>3, <2>2, PatchedDel
    <3>2. r = Carried("apply", s, save, p)
      BY <3>1, CallIs
    <3>3. Saves(r.s, s, save, {"DEV"})
      BY <3>1, <3>2, CarriedDelSaves
    <3> QED
      BY <1>3, <3>3, SavesMore DEF Touched
  <2>3. ASSUME NEW ttl \in Ttls \cup {Unsaid, Reset}, e = Entry(key, "add", ttl)
        PROVE  Saves(r.s, s, save, Touched(e.opt))
    <3>1. PICK p : Patched(s, e) = {p} /\ AddPatch(p)
      BY <1>3, <2>3, PatchedAdd
    <3>2. r = Carried("apply", s, save, p)
      BY <3>1, CallIs
    <3>3. Saves(r.s, s, save, {"DEV"})
      BY <3>1, <3>2, CarriedAddSaves
    <3> QED
      BY <1>3, <3>3, SavesMore DEF Touched
  <2> QED
    BY <2>1, <2>2, <2>3
<1> QED
  BY <1>1, <1>2, <1>3, OptsAre

-----------------------------------------------------------------------------
(* The file is read and tracked.                                              *)

(* No class is adjusted to another one when it is read again.                 *)
ClassesExact == \A v \in Speeds : AdjustedOf[v] = v

LEMMA NoClass == ClassOf[NoSpeed] = NoSpeed
BY SpeedsAssumption DEF ClassOf, Class, NoSpeed

LEMMA PatchedExact ==
  ASSUME ClassesExact, NEW s, NEW e, SinglePatch(e), e.diff = "del" => e.val = Default[e.opt]
  PROVE  Patched(s, e) = {} \/ Patched(s, e) = {e}
<1>1. /\ e.opt \in Singles /\ e.val \in ValuesOf(e.opt) /\ e.diff \in {"add", "del"}
      /\ e = Patch(e.opt, e.diff, e.val, NoRef, Unsaid)
  BY SinglePatchFields
<1>3. CASE e.opt \in {"PORT", "PEDANTIC"}
  BY <1>3 DEF Patched
<1>4. CASE e.opt = "RT"
  BY <1>4 DEF Patched
<1>5. CASE e.opt = "GW"
  <2> DEFINE v == IF e.diff = "add" THEN AdjustedOf[e.val] ELSE NoSpeed
  <2>1. Patched(s, e) = {[e EXCEPT !.val = v]}
    BY <1>5 DEF Patched
  <2>2. v = e.val
    BY <1>1, <1>5, DefaultTyped DEF ValuesOf, ClassesExact
  <2> HIDE DEF v
  <2>3. [e EXCEPT !.val = v] = e
    BY <1>1, <2>2 DEF Patch
  <2> QED
    BY <2>1, <2>3
<1> QED
  BY <1>1, <1>3, <1>4, <1>5, OptsAre

(* A single option of the file.                                               *)
NoClassSaved == \A r \in file["GW"] : r.key = NoSpeed

LEMMA SingleIs ==
  ASSUME FileOK(file), OneLine(file), NEW o \in Singles
  PROVE  /\ SinglePatch(Single(o)) /\ IsEntry(Single(o)) /\ Single(o).opt = o /\ o \in Opts
         /\ Single(o).diff = "del" => Single(o).val = Default[o]
         /\ IF Single(o).diff = "del" THEN file[o] = {}
            ELSE file[o] = {SectionOf(Plain(Single(o).val))}
         /\ o = "GW" /\ NoClassSaved => Harmless(Single(o))
<1>1. o \in Opts /\ o # "DEV" /\ Default[o] \in ValuesOf(o)
  BY DefaultTyped, OptsAre
<1>2. \A v \in ValuesOf(o) : \A diff \in {"add", "del"} :
         /\ SinglePatch(Patch(o, diff, v, NoRef, Unsaid)) /\ IsEntry(Patch(o, diff, v, NoRef, Unsaid))
         /\ Patch(o, diff, v, NoRef, Unsaid).opt = o /\ Patch(o, diff, v, NoRef, Unsaid).diff = diff
         /\ Patch(o, diff, v, NoRef, Unsaid).val = v
  BY <1>1, DefaultEntry DEF SinglePatch, Patch
<1>3. CASE file[o] = {}
  <2>1. Single(o) = Patch(o, "del", Default[o], NoRef, Unsaid)
    BY <1>3 DEF Single
  <2>2. o = "GW" => Harmless(Single(o))
    BY <1>1, <1>2, <2>1, DefaultTyped DEF Harmless, NewValue
  <2> QED
    BY <1>1, <1>2, <1>3, <2>1, <2>2
<1>4. CASE file[o] # {}
  <2>1. PICK v \in ValuesOf(o) : file[o] = {SectionOf(Plain(v))}
    BY <1>4 DEF OneLine
  <2>5. SectionOf(Plain(v)).key = v
    <3>1. SectionOf(Plain(v)) = [key |-> v, ttl |-> NoTtl]
      BY PlainSection
    <3> QED
      BY <3>1
  <2>2. (CHOOSE r \in file[o] : TRUE).key = v
    <3>1. (CHOOSE r \in file[o] : TRUE) = SectionOf(Plain(v))
      BY <2>1
    <3> QED
      BY <2>5, <3>1
  <2>3. Single(o) = Patch(o, "add", v, NoRef, Unsaid)
    BY <1>4, <2>2 DEF Single
  <2>4. o = "GW" /\ NoClassSaved => Harmless(Single(o))
    <3>1. NoClassSaved /\ o = "GW" => v = NoSpeed
      BY <2>1, <2>5 DEF NoClassSaved
    <3> QED
      BY <1>2, <2>3, <3>1, NoClass DEF Harmless, NewValue, Meant
  <2> QED
    BY <1>1, <1>2, <2>1, <2>3, <2>4
<1> QED
  BY <1>3, <1>4

(* What loading one option does to the others.                                *)
Spares(t, s, o) ==
  /\ Saves(t, s, FALSE, Touched(o))
  /\ \A x \in Opts \ {o} : t.track[x] \in {s.track[x], {}}
  /\ o = "GW" /\ NoClassSaved => \A x \in Opts \ {o} : t.track[x] = s.track[x]

LEMMA SparesSame ==
  ASSUME NEW s, NEW o
  PROVE  Spares(s, s, o)
BY SavesNothing DEF Spares

LEMMA SingleLoaded ==
  ASSUME NEW s, Good(s), NetOK, FileOK(file), OneLine(file), ClassesExact, NEW o \in Singles,
         NEW r, r = LoadSingle("apply", s, o)
  PROVE  /\ Spares(r.s, s, o)
         /\ r.ok /\ (s.fly \/ s.track[o] = {}) => file[o] = InFile(r.s.track[o])
<1>1. PICK e : e = Single(o)
  OBVIOUS
<1>2. /\ SinglePatch(e) /\ IsEntry(e) /\ e.opt = o /\ o \in Opts
      /\ (e.diff = "del" => e.val = Default[o])
      /\ IF e.diff = "del" THEN file[o] = {} ELSE file[o] = {SectionOf(Plain(e.val))}
      /\ (o = "GW" /\ NoClassSaved => Harmless(e))
  BY <1>1, SingleIs
<1>3. CASE file[o] = {} /\ ~s.fly
  <2>1. r = Ok(s)
    BY <1>3 DEF LoadSingle
  <2>2. r.s = s
    BY <2>1, Outcomes
  <2>3. s.track[o] = {} => file[o] = InFile(r.s.track[o])
    BY <1>3, <2>2, PlainSection
  <2> QED
    BY <1>3, <2>2, <2>3, SparesSame
<1>4. CASE ~(file[o] = {} /\ ~s.fly)
  <2>1. r = Call("apply", s, FALSE, e)
    BY <1>1, <1>4 DEF LoadSingle
  <2>2. CASE Patched(s, e) = {}
    <3>1. r = Failure(s)
      BY <2>1, <2>2, CallIs
    <3>2. r.s = s /\ r.ok = FALSE
      BY <3>1, Outcomes
    <3> QED
      BY <3>2, SparesSame
  <2>3. CASE Patched(s, e) = {e}
    <3>1. r = Carried("apply", s, FALSE, e)
      BY <2>1, <2>3, CallIs
    <3>2. FALSE \in BOOLEAN
      OBVIOUS
    <3>3. /\ Saves(r.s, s, FALSE, Touched(e.opt)) /\ Drops(r.s, s, e)
          /\ r.ok => r.s.track[e.opt] = Leaves(e)
      BY <1>2, <3>1, <3>2, CarriedSingleSaves
    <3>4. Spares(r.s, s, o)
      BY <1>2, <3>3 DEF Spares, Drops
    <3>5. r.ok => file[o] = InFile(r.s.track[o])
      BY <1>2, <3>3, PlainSection DEF Leaves
    <3> QED
      BY <3>4, <3>5
  <2> QED
    BY <1>2, <2>2, <2>3, PatchedExact
<1> QED
  BY <1>3, <1>4

-----------------------------------------------------------------------------
(* The sections of the file, one after the other: what each stands for, and   *)
(* which of the devices it accounts for.                                      *)
At(k) == AllSections[k]
ValOf(key) == IF key = Ref THEN net ELSE key
RefOf(key) == IF key = Ref THEN Ref ELSE NoRef
Target(r) == [val |-> ValOf(r.key), ref |-> RefOf(r.key), ttl |-> r.ttl]
Accounts(r, q) == q.val = ValOf(r.key) \/ (r.key = Ref /\ q.ref = Ref)

(* After the first k of them, the devices left of D, and those read.          *)
Left(D, k) == {q \in D : \A i \in 1..k : At(i) \in file["DEV"] => ~Accounts(At(i), q)}
ReadIn(k) == {Target(At(i)) : i \in {j \in 1..k : At(j) \in file["DEV"]}}

(* Nothing else stood for the value of the reference.                         *)
Clear(D, k) ==
  \A i \in 1..k : At(i) \in file["DEV"] /\ At(i).key = Ref =>
    \A q, r \in Left(D, i - 1) : q.ref = Ref /\ r.val = net => q = r

SoundDevs ==
  /\ \A q, r \in file["DEV"] : q.key = r.key => q = r
  /\ \A r \in file["DEV"] : r.key = Ref => net # Unresolved /\ ~ \E q \in file["DEV"] : q.key = net

LEMMA SectionsListed ==
  /\ \A i, j \in 1..8 : At(i) = At(j) => i = j
  /\ \A r \in Saved : r.key \in Devs \cup {Ref} => \E i \in 1..8 : r = At(i)
  /\ \A i \in 1..8 : At(i).key \in Devs \cup {Ref} /\ At(i).ttl \in Marks
<1>1. /\ At(1) = [key |-> "a", ttl |-> NoTtl] /\ At(2) = [key |-> "a", ttl |-> "short"]
      /\ At(3) = [key |-> Ref, ttl |-> NoTtl] /\ At(4) = [key |-> Ref, ttl |-> "short"]
      /\ At(5) = [key |-> "b", ttl |-> NoTtl] /\ At(6) = [key |-> "b", ttl |-> "short"]
      /\ At(7) = [key |-> "c", ttl |-> NoTtl] /\ At(8) = [key |-> "c", ttl |-> "short"]
  BY DEF At, AllSections
<1>2. \A i \in 1..8 : i \in {1, 2, 3, 4, 5, 6, 7, 8}
  OBVIOUS
<1>3. "a" # Ref /\ "b" # Ref /\ "c" # Ref /\ NoTtl # "short"
  BY DEF Ref, NoTtl
<1>4. \A i, j \in 1..8 : At(i) = At(j) => i = j
  <2> SUFFICES ASSUME NEW i \in {1, 2, 3, 4, 5, 6, 7, 8}, NEW j \in {1, 2, 3, 4, 5, 6, 7, 8},
                      At(i) = At(j)
               PROVE  i = j
    BY <1>2
  <2> HIDE DEF At
  <2>1. At(i).key = At(j).key /\ At(i).ttl = At(j).ttl
    OBVIOUS
  <2>2. At(1).key = "a" /\ At(2).key = "a" /\ At(3).key = Ref /\ At(4).key = Ref
        /\ At(5).key = "b" /\ At(6).key = "b" /\ At(7).key = "c" /\ At(8).key = "c"
        /\ At(1).ttl = NoTtl /\ At(3).ttl = NoTtl /\ At(5).ttl = NoTtl /\ At(7).ttl = NoTtl
        /\ At(2).ttl = "short" /\ At(4).ttl = "short" /\ At(6).ttl = "short" /\ At(8).ttl = "short"
    BY <1>1
  <2> QED
    BY <1>3, <2>1, <2>2
<1>5. ASSUME NEW r \in Saved, r.key \in Devs \cup {Ref} PROVE \E i \in 1..8 : r = At(i)
  <2>1. r = [key |-> r.key, ttl |-> r.ttl] /\ r.ttl \in {"short", NoTtl}
        /\ r.key \in {"a", "b", "c", Ref}
    BY <1>5 DEF Saved, Marks, Ttls, Devs
  <2> QED
    BY <1>1, <2>1
<1>6. \A i \in 1..8 : At(i).key \in Devs \cup {Ref} /\ At(i).ttl \in Marks
  BY SectionsAre DEF At, Saved
<1> QED
  BY <1>4, <1>5, <1>6

(* What one more section adds and removes.                                    *)
LEMMA SectionAdds ==
  ASSUME NEW D, NEW k \in 1..8, At(k) \in file["DEV"]
  PROVE  /\ Left(D, k) = {q \in Left(D, k - 1) : ~Accounts(At(k), q)}
         /\ ReadIn(k) = ReadIn(k - 1) \cup {Target(At(k))}
<1>1. 1..k = (1..(k - 1)) \cup {k}
  OBVIOUS
<1>2. Left(D, k) = {q \in Left(D, k - 1) : ~Accounts(At(k), q)}
  BY <1>1 DEF Left
<1>3. {j \in 1..k : At(j) \in file["DEV"]} = {j \in 1..(k - 1) : At(j) \in file["DEV"]} \cup {k}
  BY <1>1
<1> QED
  BY <1>2, <1>3 DEF ReadIn

LEMMA NothingAdded ==
  ASSUME NEW D, NEW k \in 1..8, At(k) \notin file["DEV"]
  PROVE  Left(D, k) = Left(D, k - 1) /\ ReadIn(k) = ReadIn(k - 1) /\ (Clear(D, k - 1) => Clear(D, k))
<1>1. 1..k = (1..(k - 1)) \cup {k}
  OBVIOUS
<1>2. Left(D, k) = Left(D, k - 1)
  BY <1>1 DEF Left
<1>3. {j \in 1..k : At(j) \in file["DEV"]} = {j \in 1..(k - 1) : At(j) \in file["DEV"]}
  BY <1>1
<1>4. Clear(D, k - 1) => Clear(D, k)
  BY <1>1 DEF Clear
<1> QED
  BY <1>2, <1>3, <1>4 DEF ReadIn

LEMMA NothingRead ==
  ASSUME NEW D
  PROVE  Left(D, 0) = D /\ ReadIn(0) = {} /\ Clear(D, 0)
BY DEF Left, ReadIn, Clear

(* The sections of a sound file account for none of each other's devices.     *)
LEMMA TargetsApart ==
  ASSUME SoundDevs, NEW q \in file["DEV"], NEW r \in file["DEV"], q # r
  PROVE  ~Accounts(r, Target(q))
<1>1. q.key # r.key
  BY DEF SoundDevs
<1>2. Target(q).val = ValOf(q.key) /\ Target(q).ref = RefOf(q.key)
  BY DEF Target
<1>3. ValOf(q.key) # ValOf(r.key)
  BY <1>1 DEF SoundDevs, ValOf
<1>4. r.key = Ref => RefOf(q.key) # Ref
  BY <1>1 DEF RefOf, Ref, NoRef
<1> QED
  BY <1>2, <1>3, <1>4 DEF Accounts

LEMMA ReadApart ==
  ASSUME SoundDevs, NEW k \in 1..8, At(k) \in file["DEV"], NEW q \in ReadIn(k - 1)
  PROVE  ~Accounts(At(k), q)
<1>1. PICK i \in 1..(k - 1) : At(i) \in file["DEV"] /\ q = Target(At(i))
  BY DEF ReadIn
<1>2. At(i) # At(k)
  BY <1>1, SectionsListed
<1> QED
  BY <1>1, <1>2, TargetsApart

(* A file that is read is tracked.                                            *)
LEMMA ReadSaved ==
  ASSUME FileOK(file)
  PROVE  InFile(ReadIn(8)) = file["DEV"]
<1>1. /\ \A r \in file["DEV"] : r \in Saved /\ r.key \in Devs \cup {Ref}
  BY OptsAre DEF FileOK, KeysOf
<1>2. ASSUME NEW r \in file["DEV"] PROVE SectionOf(Target(r)) = r
  <2>1. r.key # Ref => r.key \in Devs
    BY <1>1
  <2>2. Target(r).val = ValOf(r.key) /\ Target(r).ref = RefOf(r.key) /\ Target(r).ttl = r.ttl
    BY DEF Target
  <2>3. Key(Target(r)) = r.key
    BY <2>2 DEF Key, ValOf, RefOf, Ref, NoRef
  <2> QED
    BY <1>1, <2>2, <2>3 DEF SectionOf, Saved
<1>3. InFile(ReadIn(8)) \subseteq file["DEV"]
  BY <1>2 DEF InFile, ReadIn
<1>4. ASSUME NEW r \in file["DEV"] PROVE r \in InFile(ReadIn(8))
  <2>1. PICK i \in 1..8 : r = At(i)
    BY <1>1, SectionsListed
  <2>2. Target(r) \in ReadIn(8)
    BY <2>1 DEF ReadIn
  <2> QED
    BY <1>2, <2>2 DEF InFile
<1> QED
  BY <1>3, <1>4

(* The entry of a section, and the device it adds.                            *)
LEMMA PatchedAddIs ==
  ASSUME NetOK, NEW s, NEW key \in Devs \cup {Ref}, NEW ttl \in Ttls \cup {Unsaid, Reset}
  PROVE  \/ Patched(s, Entry(key, "add", ttl)) = {}
         \/ /\ AddPatch(Patch("DEV", "add", ValOf(key), RefOf(key), ttl))
            /\ Patched(s, Entry(key, "add", ttl)) = {Patch("DEV", "add", ValOf(key), RefOf(key), ttl)}
<1> DEFINE e == Entry(key, "add", ttl)
           p == Patch("DEV", "add", ValOf(key), RefOf(key), ttl)
<1>1. CASE key = Ref
  <2>1. e = Patch("DEV", "add", Unresolved, Ref, ttl) /\ p = Patch("DEV", "add", net, Ref, ttl)
    BY <1>1 DEF Entry, ValOf, RefOf
  <2>2. e.opt = "DEV" /\ e.ref # NoRef /\ e.diff = "add"
    BY <2>1 DEF Patch, Ref, NoRef
  <2> HIDE DEF e, p
  <2>3. Patched(s, e) = {[e EXCEPT !.val = net] : x \in {n \in {net} : n # Unresolved}}
    BY <2>2 DEF Patched
  <2>4. CASE net = Unresolved
    BY <1>1, <2>3, <2>4 DEF e
  <2>5. CASE net # Unresolved
    <3>1. Patched(s, e) = {p}
      BY <2>1, <2>3, <2>5 DEF Patch
    <3>2. AddPatch(p)
      <4>1. net \in Devs /\ net # "a"
        BY <2>5 DEF NetOK
      <4> QED
        BY <2>1, <4>1 DEF AddPatch
    <3> QED
      BY <1>1, <3>1, <3>2 DEF e, p
  <2> QED
    BY <2>4, <2>5
<1>2. CASE key # Ref
  <2>1. e = Patch("DEV", "add", key, NoRef, ttl) /\ p = e
    BY <1>2 DEF Entry, ValOf, RefOf
  <2>2. e.opt = "DEV" /\ e.ref = NoRef /\ e.diff = "add" /\ e.val = key
    BY <2>1 DEF Patch
  <2>3. AddPatch(e)
    BY <1>2, <2>1 DEF AddPatch, Ref, NoRef
  <2> HIDE DEF e, p
  <2>4. Patched(s, e) = {e}
    BY <2>2 DEF Patched
  <2> QED
    BY <2>1, <2>3, <2>4 DEF e, p
<1> QED
  BY <1>1, <1>2

(* What is tracked after a device has been added.                             *)
LEMMA RenewalIs ==
  ASSUME NEW s, Good(s), NEW p, AddPatch(p), ~Distinct(s, p), NEW save \in BOOLEAN,
         NEW t, t = Rederived("apply", s, save, p)
  PROVE  Renewal(t, p) = (s.track["DEV"] \ (ByVal(s, p) \cup ByRef(s, p)))
                         \cup {[val |-> p.val, ref |-> p.ref, ttl |-> NewMark(ByVal(s, p), p.ttl)]}
<1> DEFINE D == s.track["DEV"]
<1>1. p.opt = "DEV"
  BY AddPatchFields
<1>2. /\ ByVal(s, p) = {q \in D : q.val = p.val}
      /\ ByVal(t, p) = {q \in t.track["DEV"] : q.val = p.val}
  BY <1>1, DevFound
<1>3. t.track["DEV"] = IF ByVal(s, p) = {} THEN D \ ByRef(s, p) ELSE D
  BY RederivedSaves
<1>4. ByVal(t, p) = ByVal(s, p)
  BY <1>2, <1>3
<1>5. t.track["DEV"] \ ByVal(t, p) = D \ (ByVal(s, p) \cup ByRef(s, p))
  <2>1. CASE ByVal(s, p) = {}
    BY <1>3, <1>4, <2>1
  <2>2. CASE ByVal(s, p) # {}
    <3>1. ByRef(s, p) = {} \/ ByRef(s, p) = ByVal(s, p)
      BY <1>1, <2>2 DEF Distinct
    <3> QED
      BY <1>3, <1>4, <2>2, <3>1
  <2> QED
    BY <2>1, <2>2
<1>6. Renewal(t, p) = (t.track["DEV"] \ ByVal(t, p)) \cup
        {[val |-> p.val, ref |-> p.ref, ttl |-> NewMark(ByVal(t, p), p.ttl)]}
  BY DEF Renewal, Renewed
<1> QED
  BY <1>4, <1>5, <1>6

-----------------------------------------------------------------------------
(* The devices while the sections are read.                                   *)
Reading(x, s, k) ==
  /\ Saves(x.s, s, FALSE, {"DEV"})
  /\ x.ok => /\ x.s.track["DEV"] = Left(s.track["DEV"], k) \cup ReadIn(k)
             /\ Clear(s.track["DEV"], k)
ReadOf(s, k) == {x \in SectionsOf(s, k) : Reading(x, s, k)}
ReadyDevs(s) == s.fly \/ s.track["DEV"] = {}

(* One of them: the devices of D it does not account for; whether it accounts *)
(* for one of each at most; and how it may be read.                           *)
Unaccounted(D, r) == {q \in D : ~Accounts(r, q)}
Sole(D, r) == r.key = Ref => \A q, x \in D : q.ref = Ref /\ x.val = net => q = x
ReadAs(D, r, ttl) ==
  /\ r.key \in Devs \cup {Ref} /\ r.ttl \in Marks /\ ttl \in Ttls \cup {Unsaid, Reset}
  /\ r.ttl # NoTtl => ttl = r.ttl
  /\ r.ttl = NoTtl => ttl \in {Unsaid, Reset}
  /\ ttl = Unsaid => \A q \in D : ~Accounts(r, q)

LEMMA SectionCalled ==
  ASSUME NEW s, Good(s), NetOK, NEW r, NEW ttl, ReadAs(s.track["DEV"], r, ttl),
         NEW y, y = Call("apply", s, FALSE, Entry(r.key, "add", ttl)), y.ok
  PROVE  /\ y.s.track["DEV"] = Unaccounted(s.track["DEV"], r) \cup {Target(r)}
         /\ Sole(s.track["DEV"], r)
<1> DEFINE D == s.track["DEV"]
           p == Patch("DEV", "add", ValOf(r.key), RefOf(r.key), ttl)
           e == Entry(r.key, "add", ttl)
<1>0. /\ r.key \in Devs \cup {Ref} /\ r.ttl \in Marks /\ ttl \in Ttls \cup {Unsaid, Reset}
      /\ (r.ttl # NoTtl => ttl = r.ttl) /\ (r.ttl = NoTtl => ttl \in {Unsaid, Reset})
      /\ (ttl = Unsaid => \A q \in D : ~Accounts(r, q))
  BY DEF ReadAs
<1>1. AddPatch(p) /\ Patched(s, e) = {p}
  <2>1. CASE Patched(s, e) = {}
    <3>1. y = Failure(s)
      BY <2>1, CallIs
    <3> QED
      BY <3>1, Outcomes
  <2> QED
    BY <1>0, <2>1, PatchedAddIs
<1>3. p.opt = "DEV" /\ p.val = ValOf(r.key) /\ p.ref = RefOf(r.key) /\ p.ttl = ttl
  BY DEF Patch
<1>12. y = Call("apply", s, FALSE, e)
  OBVIOUS
<1> HIDE DEF p, e
<1>2. y = Carried("apply", s, FALSE, p)
  BY <1>1, <1>12, CallIs
<1>4. ~Distinct(s, p) /\ y.s.track["DEV"] = Renewal(Rederived("apply", s, FALSE, p), p)
  <2>1. FALSE \in BOOLEAN
    OBVIOUS
  <2> QED
    BY <1>1, <1>2, <2>1, CarriedAddSaves
<1>5. y.s.track["DEV"] = (D \ (ByVal(s, p) \cup ByRef(s, p)))
        \cup {[val |-> p.val, ref |-> p.ref, ttl |-> NewMark(ByVal(s, p), p.ttl)]}
  <2>1. FALSE \in BOOLEAN
    OBVIOUS
  <2> QED
    BY <1>1, <1>4, <2>1, RenewalIs
<1>6. /\ ByVal(s, p) = {q \in D : q.val = ValOf(r.key)}
      /\ ByRef(s, p) = {q \in D : RefOf(r.key) # NoRef /\ q.ref = RefOf(r.key)}
  BY <1>3, DevFound
<1>7. ByRef(s, p) = {q \in D : r.key = Ref /\ q.ref = Ref}
  BY <1>6 DEF RefOf, Ref, NoRef
<1>8. D \ (ByVal(s, p) \cup ByRef(s, p)) = {q \in D : ~Accounts(r, q)}
  BY <1>6, <1>7 DEF Accounts
<1>9. NewMark(ByVal(s, p), ttl) = r.ttl
  <2>1. CASE r.ttl # NoTtl
    BY <1>0, <2>1 DEF NewMark, Marks
  <2>2. CASE r.ttl = NoTtl /\ ttl = Reset
    BY <2>2 DEF NewMark, Reset, Unsaid, Ttls
  <2>3. CASE r.ttl = NoTtl /\ ttl = Unsaid
    <3>1. ByVal(s, p) = {}
      BY <1>0, <1>6, <2>3 DEF Accounts
    <3> QED
      BY <2>3, <3>1 DEF NewMark, Unsaid, Ttls
  <2> QED
    BY <1>0, <2>1, <2>2, <2>3
<1>10. y.s.track["DEV"] = {q \in D : ~Accounts(r, q)} \cup {Target(r)}
  BY <1>3, <1>5, <1>8, <1>9 DEF Target
<1>11. ASSUME r.key = Ref, NEW q \in D, NEW x \in D, q.ref = Ref, x.val = net PROVE q = x
  <2>1. q \in ByRef(s, p) /\ x \in ByVal(s, p)
    BY <1>6, <1>7, <1>11 DEF ValOf
  <2>2. ByRef(s, p) = ByVal(s, p)
    BY <1>3, <1>4, <2>1 DEF Distinct
  <2>3. q.val = x.val
    BY <1>6, <2>1, <2>2
  <2> QED
    BY <2>3, GoodDevs DEF Apart
<1> QED
  BY <1>10, <1>11 DEF Unaccounted, Sole

LEMMA SectionReads ==
  ASSUME NEW s, Good(s), NetOK, FileOK(file), SoundDevs, ReadyDevs(s),
         NEW k \in 1..8, NEW x \in ReadOf(s, k - 1)
  PROVE  SectionStep("apply", s, x, k) \in ReadOf(s, k)
<1> DEFINE D == s.track["DEV"]
           r == At(k)
           y == SectionStep("apply", s, x, k)
<1>1. x \in SectionsOf(s, k - 1) /\ x \in KeptOf(s) /\ Good(x.s) /\ x.ok \in BOOLEAN
      /\ Reading(x, s, k - 1)
  BY KeptIn DEF ReadOf, SectionsOf, Keeps
<1>2. y \in SectionsOf(s, k)
  BY <1>1, SectionKept
<1>3. r.key \in Devs \cup {Ref} /\ r.ttl \in Marks
  BY SectionsListed
<1>4. CASE x.ok = FALSE
  <2>1. y = x
    BY <1>4 DEF SectionStep
  <2> QED
    BY <1>1, <1>2, <1>4, <2>1 DEF ReadOf, Reading
<1>5. CASE x.ok = TRUE /\ r \notin file["DEV"]
  <2>1. y = Ok(x.s)
    BY <1>5 DEF SectionStep, At
  <2>2. y.s = x.s
    BY <2>1, Outcomes
  <2>3. Left(D, k) = Left(D, k - 1) /\ ReadIn(k) = ReadIn(k - 1) /\ (Clear(D, k - 1) => Clear(D, k))
    BY <1>5, NothingAdded
  <2> HIDE DEF y
  <2>4. Reading(y, s, k)
    BY <1>1, <1>5, <2>2, <2>3 DEF Reading
  <2> QED
    BY <1>2, <2>4 DEF ReadOf, y
<1>6. CASE x.ok = TRUE /\ r \in file["DEV"]
  <2> DEFINE ttl == IF r.ttl # NoTtl THEN r.ttl ELSE IF s.fly THEN Reset ELSE Unsaid
             e == Entry(r.key, "add", ttl)
  <2>1. y = Call("apply", x.s, FALSE, e)
    BY <1>6 DEF SectionStep, At, Section
  <2>2. IsEntry(e) /\ e.opt = "DEV" /\ e.opt \in Opts /\ FALSE \in BOOLEAN
    <3>1. e = Section(s, r)
      BY DEF Section
    <3> HIDE DEF e, r
    <3> QED
      BY <1>3, <3>1, SectionEntry, OptsAre
  <2>3. ttl \in Ttls \cup {Unsaid, Reset} /\ (r.ttl # NoTtl => ttl = r.ttl)
        /\ (r.ttl = NoTtl => ttl \in {Unsaid, Reset}) /\ (ttl = Unsaid => ~s.fly)
    <3>1. r.ttl \in Ttls \cup {NoTtl}
      BY <1>3 DEF Marks
    <3> HIDE DEF r
    <3> QED
      BY <3>1 DEF Unsaid, Reset, Ttls
  <2>4. Saves(y.s, x.s, FALSE, {"DEV"})
    <3> HIDE DEF e, y
    <3>1. Saves(y.s, x.s, FALSE, Touched(e.opt))
      BY <1>1, <2>1, <2>2, CallSaves
    <3>2. Touched(e.opt) = {"DEV"}
      BY <2>2 DEF Touched
    <3> QED
      BY <3>1, <3>2
  <2>5. Saves(y.s, s, FALSE, {"DEV"})
    BY <1>1, <2>4, SavesOn DEF Reading
  <2>6. x.s.track["DEV"] = Left(D, k - 1) \cup ReadIn(k - 1) /\ Clear(D, k - 1)
    BY <1>1, <1>6 DEF Reading
  <2>7. /\ Left(D, k) = {q \in Left(D, k - 1) : ~Accounts(r, q)}
        /\ ReadIn(k) = ReadIn(k - 1) \cup {Target(r)}
    BY <1>6, SectionAdds
  <2>8. \A q \in ReadIn(k - 1) : ~Accounts(r, q)
    BY <1>6, ReadApart
  <2> HIDE DEF ttl, r, y
  <2>9. ASSUME y.ok
        PROVE  y.s.track["DEV"] = Left(D, k) \cup ReadIn(k) /\ Clear(D, k)
    <3>1. PICK z : z = x.s
      OBVIOUS
    <3>2. ReadAs(z.track["DEV"], r, ttl)
      <4>1. ttl = Unsaid => \A q \in z.track["DEV"] : ~Accounts(r, q)
        <5> SUFFICES ASSUME ttl = Unsaid PROVE \A q \in x.s.track["DEV"] : ~Accounts(r, q)
          BY <3>1
        <5>1. D = {}
          BY <2>3 DEF ReadyDevs
        <5>2. Left(D, k - 1) = {}
          BY <5>1 DEF Left
        <5> QED
          BY <2>6, <2>8, <5>2
      <4> QED
        BY <1>3, <2>3, <4>1 DEF ReadAs
    <3>5. Good(z) /\ y = Call("apply", z, FALSE, Entry(r.key, "add", ttl))
      BY <1>1, <2>1, <3>1
    <3>6. y.s.track["DEV"] = Unaccounted(z.track["DEV"], r) \cup {Target(r)}
          /\ Sole(z.track["DEV"], r)
      BY <2>9, <3>2, <3>5, SectionCalled
    <3>7. /\ y.s.track["DEV"] = {q \in x.s.track["DEV"] : ~Accounts(r, q)} \cup {Target(r)}
          /\ r.key = Ref => \A q, w \in x.s.track["DEV"] : q.ref = Ref /\ w.val = net => q = w
      BY <3>1, <3>6 DEF Unaccounted, Sole
    <3>3. y.s.track["DEV"] = Left(D, k) \cup ReadIn(k)
      BY <2>6, <2>7, <2>8, <3>7
    <3>4. Clear(D, k)
      <4>1. \A i \in 1..k : i = k \/ i \in 1..(k - 1)
        OBVIOUS
      <4>2. \A i \in 1..(k - 1) : i \in 1..k
        OBVIOUS
      <4>3. r.key = Ref => \A q, w \in Left(D, k - 1) : q.ref = Ref /\ w.val = net => q = w
        BY <2>6, <3>7
      <4> QED
        BY <2>6, <4>1, <4>3 DEF Clear, r
    <3> QED
      BY <3>3, <3>4
  <2>10. Reading(y, s, k)
    BY <2>5, <2>9 DEF Reading
  <2> QED
    BY <1>2, <2>10 DEF ReadOf, y
<1> QED
  BY <1>1, <1>4, <1>5, <1>6

LEMMA SectionsRead ==
  ASSUME NEW s, Good(s), NetOK, FileOK(file), SoundDevs, ReadyDevs(s)
  PROVE  LoadSections("apply", s) \in ReadOf(s, 8)
<1> DEFINE T == [k \in 0..8 |-> ReadOf(s, k)]
<1>1. T \in [0..8 -> SUBSET KeptOf(s)]
  BY DEF ReadOf, SectionsOf
<1>2. Ok(s) \in T[0]
  <2>1. Ok(s) \in SectionsOf(s, 0)
    BY KeptIn DEF SectionsOf, Begun
  <2>2. Reading(Ok(s), s, 0)
    <3>1. Ok(s).s = s /\ s.track["DEV"] = Left(s.track["DEV"], 0) \cup ReadIn(0)
          /\ Clear(s.track["DEV"], 0)
      BY Outcomes, NothingRead
    <3>2. Saves(s, s, FALSE, {"DEV"})
      BY SavesNothing
    <3> QED
      BY <3>1, <3>2 DEF Reading
  <2> QED
    BY <2>1, <2>2 DEF ReadOf
<1>3. \A k \in 1..8 : \A x \in T[k - 1] : SectionStep("apply", s, x, k) \in T[k]
  <2>1. \A k \in 1..8 : T[k - 1] = ReadOf(s, k - 1) /\ T[k] = ReadOf(s, k)
    OBVIOUS
  <2> HIDE DEF T
  <2> QED
    BY <2>1, SectionReads
<1>4. LoadSections("apply", s) \in T[8]
  <2> HIDE DEF T
  <2> QED
    BY <1>1, <1>2, <1>3, SectionsWalk
<1> QED
  BY <1>4

-----------------------------------------------------------------------------
(* The devices no section has mentioned are those that are left.              *)
MentionStep(x, k) ==
  IF x.ok THEN Ok(IF AllSections[k] \in file.DEV THEN x.s \ Mentioned(x.s, AllSections[k].key) ELSE x.s)
  ELSE x

LEMMA MentionWalk ==
  ASSUME NEW s, NEW U, NEW T \in [0..8 -> SUBSET U], Ok(s.track.DEV) \in T[0],
         \A k \in 1..8 : \A x \in T[k - 1] : MentionStep(x, k) \in T[k]
  PROVE  \E x \in T[8] : Unmentioned(s) = x.s
<1> DEFINE n == Len(AllSections)
           base == Ok(s.track.DEV)
           Go(x, k) == MentionStep(x, k)
           step == [y \in U \X (1..8) |-> Go(y[1], y[2])]
           Val(h, k) == IF k = 0 THEN base ELSE Go(h[k - 1], k)
           Whole(h) == [k \in 0..n |-> Val(h, k)]
<1>1. n = 8
  BY DEF AllSections
<1>2. \A k \in 0..8 : k # 0 => k \in 1..8
  OBVIOUS
<1>3. \A x \in U : \A k \in 1..8 : step[<<x, k>>] = Go(x, k)
  <2> HIDE DEF Go
  <2> QED
    OBVIOUS
<1>4. PICK f : WalksThrough(f, U, T, base, 8, step)
  <2>1. \A k \in 1..8 : \A x \in T[k - 1] : step[<<x, k>>] \in T[k]
    <3>1. \A k \in 1..8 : k - 1 \in 0..8 /\ T[k - 1] \subseteq U
      OBVIOUS
    <3> HIDE DEF step
    <3> QED
      BY <1>3, <3>1
  <2>2. 8 \in Nat /\ base \in T[0]
    OBVIOUS
  <2> HIDE DEF step, Go, base
  <2> QED
    BY <2>1, <2>2, WalkThrough
<1>5. /\ f \in [0..8 -> U] /\ f[0] = base /\ \A k \in 0..8 : f[k] \in T[k]
      /\ \A k \in 1..8 : f[k] = Go(f[k - 1], k)
  <2>1. \A k \in 1..8 : f[k - 1] \in U
    BY <1>4 DEF WalksThrough
  <2> HIDE DEF step, Go, base
  <2> QED
    BY <1>3, <1>4, <2>1 DEF WalksThrough
<1>6. f = Whole(f)
  <2>1. \A k \in 0..8 : f[k] = Val(f, k)
    <3> HIDE DEF Go, base
    <3> QED
      BY <1>2, <1>5
  <2> HIDE DEF Val, n, base
  <2> QED
    BY <1>1, <1>5, <2>1
<1> DEFINE g == CHOOSE h : h = Whole(h)
<1>7. g = Whole(g)
  BY <1>6, Zenon
<1>8. Unmentioned(s) = g[n].s
  BY DEF Unmentioned, EachOf, MentionStep
<1> HIDE DEF g, base
<1>9. g[0] = base /\ \A k \in 1..8 : g[k] = Go(g[k - 1], k)
  <2>1. \A k \in 0..8 : g[k] = Val(g, k)
    <3> HIDE DEF Val, n
    <3> QED
      BY <1>1, <1>7
  <2> HIDE DEF Go
  <2> QED
    BY <2>1
<1>10. g[8] = f[8]
  <2>1. g[0] = f[0] /\ \A k \in 1..8 : g[k - 1] = f[k - 1] => g[k] = f[k]
    <3> HIDE DEF Go
    <3> QED
      BY <1>5, <1>9
  <2>2. 8 \in Nat
    OBVIOUS
  <2> HIDE DEF Go
  <2> QED
    BY <2>1, <2>2, WalkUnique
<1> QED
  BY <1>1, <1>5, <1>8, <1>10

LEMMA MentionedIs ==
  ASSUME NEW X, NEW r, Sole(X, r)
  PROVE  X \ Mentioned(X, r.key) = Unaccounted(X, r)
<1> DEFINE byRef == {q \in X : r.key = Ref /\ q.ref = Ref}
           byVal == {q \in X : q.val = ValOf(r.key)}
<1>1. Mentioned(X, r.key) = IF byRef # {} THEN byRef ELSE byVal
  BY DEF Mentioned, ValOf
<1>2. Unaccounted(X, r) = X \ (byRef \cup byVal)
  BY DEF Unaccounted, Accounts
<1>3. byRef # {} => byVal \subseteq byRef
  BY DEF Sole, ValOf
<1> HIDE DEF byRef, byVal
<1> QED
  BY <1>1, <1>2, <1>3

LEMMA UnmentionedIs ==
  ASSUME NEW s, Clear(s.track["DEV"], 8)
  PROVE  Unmentioned(s) = Left(s.track["DEV"], 8)
<1> DEFINE D == s.track["DEV"]
           T == [k \in 0..8 |-> {Ok(Left(D, k))}]
           U == {Ok(Left(D, k)) : k \in 0..8}
<1>1. T \in [0..8 -> SUBSET U]
  OBVIOUS
<1>2. Ok(s.track.DEV) \in T[0]
  BY NothingRead
<1>3. ASSUME NEW k \in 1..8, NEW x \in T[k - 1]
      PROVE  MentionStep(x, k) \in T[k]
  <2> DEFINE X == Left(D, k - 1)
             r == At(k)
  <2>1. x = Ok(X)
    OBVIOUS
  <2>2. x.ok = TRUE /\ x.s = X
    BY <2>1, Outcomes
  <2> HIDE DEF X
  <2>3. MentionStep(x, k) = Ok(IF r \in file["DEV"] THEN X \ Mentioned(X, r.key) ELSE X)
    BY <2>2 DEF MentionStep, At
  <2>4. (IF r \in file["DEV"] THEN X \ Mentioned(X, r.key) ELSE X) = Left(D, k)
    <3>1. CASE r \in file["DEV"]
      <4>1. Sole(X, r)
        BY <3>1 DEF Clear, Sole, X
      <4>2. X \ Mentioned(X, r.key) = Unaccounted(X, r)
        <5> HIDE DEF r
        <5> QED
          BY <4>1, MentionedIs
      <4>3. Left(D, k) = {q \in Left(D, k - 1) : ~Accounts(At(k), q)}
        BY <3>1, SectionAdds
      <4> QED
        BY <3>1, <4>2, <4>3 DEF Unaccounted, X
    <3>2. CASE r \notin file["DEV"]
      BY <3>2, NothingAdded DEF X
    <3> QED
      BY <3>1, <3>2
  <2> QED
    BY <2>3, <2>4
<1> HIDE DEF T, U
<1>4. PICK x \in T[8] : Unmentioned(s) = x.s
  BY <1>1, <1>2, <1>3, MentionWalk
<1>5. x = Ok(Left(D, 8))
  BY <1>4 DEF T
<1> QED
  BY <1>4, <1>5, Outcomes

-----------------------------------------------------------------------------
(* They are removed.                                                          *)
Ends == <<"a", "b", "c">>
Without(D, d) == {q \in D : q.val # d}
Spared(D, gone, k) == {q \in D : ~ \E i \in 1..k : Ends[i] = q.val /\ \E x \in gone : x.val = Ends[i]}

LEMMA SparedAre ==
  ASSUME NEW D, NEW gone
  PROVE  /\ Spared(D, gone, 0) = D
         /\ \A k \in 1..3 : Spared(D, gone, k) =
              IF \E x \in gone : x.val = Ends[k] THEN Without(Spared(D, gone, k - 1), Ends[k])
              ELSE Spared(D, gone, k - 1)
<1>1. ASSUME NEW k \in 1..3
      PROVE  Spared(D, gone, k) =
              IF \E x \in gone : x.val = Ends[k] THEN Without(Spared(D, gone, k - 1), Ends[k])
              ELSE Spared(D, gone, k - 1)
  <2>1. 1..k = (1..(k - 1)) \cup {k}
    OBVIOUS
  <2> QED
    BY <2>1 DEF Spared, Without
<1>2. Spared(D, gone, 0) = D
  BY DEF Spared
<1> QED
  BY <1>1, <1>2

Removing(x, s, gone, k) ==
  /\ Saves(x.s, s, FALSE, {"DEV"})
  /\ x.ok => x.s.track["DEV"] = Spared(s.track["DEV"], gone, k)
RemovedOf(s, gone, k) == {x \in KeptOf(s) : Removing(x, s, gone, k)}

LEMMA RemovalCalled ==
  ASSUME NEW s, Good(s), NetOK, NEW d \in Devs, NEW y, y = Call("apply", s, FALSE, Entry(d, "del", Unsaid))
  PROVE  /\ Saves(y.s, s, FALSE, {"DEV"})
         /\ y.ok => y.s.track["DEV"] = Without(s.track["DEV"], d)
<1> DEFINE e == Entry(d, "del", Unsaid)
<1>1. d # Ref
  BY DEF Devs, Ref
<1>2. e = Patch("DEV", "del", d, NoRef, Unsaid)
  BY <1>1 DEF Entry
<1>3. e.opt = "DEV" /\ e.ref = NoRef /\ e.val = d
  BY <1>2 DEF Patch
<1>4. DelPatch(s, e)
  BY <1>2 DEF DelPatch, Ref, NoRef
<1>5. y = Call("apply", s, FALSE, e) /\ FALSE \in BOOLEAN
  OBVIOUS
<1> HIDE DEF e
<1>6. Patched(s, e) = {e}
  BY <1>3 DEF Patched
<1>7. y = Carried("apply", s, FALSE, e)
  BY <1>5, <1>6, CallIs
<1>8. /\ Saves(y.s, s, FALSE, {"DEV"})
      /\ y.ok => y.s.track["DEV"] = s.track["DEV"] \ ByVal(s, e)
  BY <1>4, <1>5, <1>7, CarriedDelSaves
<1>9. ByVal(s, e) = {q \in s.track["DEV"] : q.val = d}
  BY <1>3, DevFound
<1>10. s.track["DEV"] \ ByVal(s, e) = Without(s.track["DEV"], d)
  BY <1>9 DEF Without
<1> QED
  BY <1>8, <1>10

LEMMA RemovalRemoves ==
  ASSUME NEW s, Good(s), NetOK, NEW gone, NEW k \in 1..3, NEW x \in RemovedOf(s, gone, k - 1)
  PROVE  RemovalStep("apply", gone, x, k) \in RemovedOf(s, gone, k)
<1> DEFINE d == Ends[k]
           y == RemovalStep("apply", gone, x, k)
           D == s.track["DEV"]
           e == Entry(d, "del", Unsaid)
<1>1. x \in KeptOf(s) /\ Good(x.s) /\ x.ok \in BOOLEAN /\ Removing(x, s, gone, k - 1)
  BY KeptIn DEF RemovedOf, Keeps
<1>2. d \in Devs
  BY DEF Ends, Devs
<1>3. Spared(D, gone, k) =
        IF \E q \in gone : q.val = d THEN Without(Spared(D, gone, k - 1), d)
        ELSE Spared(D, gone, k - 1)
  <2> HIDE DEF D
  <2> QED
    BY SparedAre
<1>4. IsEntry(e) /\ e.opt \in Opts /\ Fits(x.s, e) /\ FALSE \in BOOLEAN
  BY RemovalEntry DEF Ends
<1> HIDE DEF d
<1>5. CASE x.ok = FALSE
  <2>1. y = x
    BY <1>5 DEF RemovalStep
  <2> QED
    BY <1>1, <1>5, <2>1 DEF RemovedOf, Removing
<1>6. CASE x.ok = TRUE /\ \E q \in gone : q.val = d
  <2>1. y = Call("apply", x.s, FALSE, e)
    BY <1>6 DEF RemovalStep, Ends, d
  <2> HIDE DEF y
  <2>2. y \in KeptOf(s)
    <3> HIDE DEF e
    <3>1. y \in KeptOf(x.s)
      BY <1>1, <1>4, <2>1, CallKept
    <3>2. Keeps(x, s)
      BY <1>1, KeptIn
    <3> QED
      BY <3>1, <3>2, KeptOn
  <2>3. /\ Saves(y.s, x.s, FALSE, {"DEV"})
        /\ y.ok => y.s.track["DEV"] = Without(x.s.track["DEV"], d)
    <3>1. PICK z : z = x.s
      OBVIOUS
    <3>2. Good(z) /\ y = Call("apply", z, FALSE, Entry(d, "del", Unsaid))
      BY <1>1, <2>1, <3>1
    <3>3. /\ Saves(y.s, z, FALSE, {"DEV"})
          /\ y.ok => y.s.track["DEV"] = Without(z.track["DEV"], d)
      BY <1>2, <3>2, RemovalCalled
    <3> QED
      BY <3>1, <3>3
  <2>4. Saves(y.s, s, FALSE, {"DEV"})
    BY <1>1, <2>3, SavesOn DEF Removing
  <2>5. y.ok => y.s.track["DEV"] = Spared(D, gone, k)
    BY <1>1, <1>3, <1>6, <2>3 DEF Removing
  <2> QED
    BY <2>2, <2>4, <2>5 DEF RemovedOf, Removing, y
<1>7. CASE x.ok = TRUE /\ ~ \E q \in gone : q.val = d
  <2>1. y = Ok(x.s)
    BY <1>7 DEF RemovalStep, Ends, d
  <2>2. y.ok = TRUE /\ y.s = x.s
    BY <2>1, Outcomes
  <2>3. y \in KeptOf(s)
    <3>1. y \in KeptOf(x.s) /\ Keeps(x, s)
      BY <1>1, <2>1, KeptIn
    <3> QED
      BY <3>1, KeptOn
  <2> HIDE DEF y
  <2>4. Removing(y, s, gone, k)
    BY <1>1, <1>3, <1>7, <2>2 DEF Removing
  <2> QED
    BY <2>3, <2>4 DEF RemovedOf, y
<1> QED
  BY <1>1, <1>5, <1>6, <1>7

LEMMA RemovalRead ==
  ASSUME NEW s, Good(s), NetOK, NEW gone
  PROVE  RemoveDevs("apply", s, gone) \in RemovedOf(s, gone, 3)
<1> DEFINE T == [k \in 0..3 |-> RemovedOf(s, gone, k)]
<1>1. T \in [0..3 -> SUBSET KeptOf(s)]
  BY DEF RemovedOf
<1>2. Ok(s) \in T[0]
  <2>1. Ok(s) \in KeptOf(s)
    BY KeptIn
  <2>2. Ok(s).s = s
    BY Outcomes
  <2>5. Spared(s.track["DEV"], gone, 0) = s.track["DEV"]
    BY SparedAre
  <2>3. Saves(s, s, FALSE, {"DEV"})
    BY SavesNothing
  <2>4. Removing(Ok(s), s, gone, 0)
    BY <2>2, <2>3, <2>5 DEF Removing
  <2> QED
    BY <2>1, <2>4 DEF RemovedOf
<1>3. \A k \in 1..3 : \A x \in T[k - 1] : RemovalStep("apply", gone, x, k) \in T[k]
  <2>1. \A k \in 1..3 : T[k - 1] = RemovedOf(s, gone, k - 1) /\ T[k] = RemovedOf(s, gone, k)
    OBVIOUS
  <2> HIDE DEF T
  <2> QED
    BY <2>1, RemovalRemoves
<1>4. RemoveDevs("apply", s, gone) \in T[3]
  <2> HIDE DEF T
  <2> QED
    BY <1>1, <1>2, <1>3, RemovalWalk
<1> QED
  BY <1>4

-----------------------------------------------------------------------------
(* The devices that are left are removed, and those read stay.                *)
LEMMA LeftAreSpared ==
  ASSUME NEW D, ByName(D)
  PROVE  Spared(Left(D, 8) \cup ReadIn(8), Left(D, 8), 3) = ReadIn(8)
<1> DEFINE L == Left(D, 8)
<1>1. ASSUME NEW q \in L PROVE \E i \in 1..3 : Ends[i] = q.val /\ \E x \in L : x.val = Ends[i]
  <2>1. q \in D
    BY DEF Left
  <2>2. q.val \in {"a", "b", "c"}
    BY <2>1 DEF ByName, Devs
  <2>3. \E i \in 1..3 : Ends[i] = q.val
    BY <2>2 DEF Ends
  <2> HIDE DEF L
  <2> QED
    BY <2>3
<1>2. ASSUME NEW q \in ReadIn(8), NEW x \in L PROVE x.val # q.val
  <2>1. PICK i \in 1..8 : At(i) \in file["DEV"] /\ q = Target(At(i))
    BY DEF ReadIn
  <2>2. ~Accounts(At(i), x)
    BY <2>1 DEF Left
  <2>3. q.val = ValOf(At(i).key)
    BY <2>1 DEF Target
  <2> QED
    BY <2>2, <2>3 DEF Accounts
<1> HIDE DEF L
<1>3. Spared(L \cup ReadIn(8), L, 3) \subseteq ReadIn(8)
  BY <1>1 DEF Spared
<1>4. ReadIn(8) \subseteq Spared(L \cup ReadIn(8), L, 3)
  BY <1>2 DEF Spared
<1> QED
  BY <1>3, <1>4 DEF L

(* Reading the sections of the devices never writes the file.                 *)
SavedSections(s, k) == {x \in SectionsOf(s, k) : Saves(x.s, s, FALSE, {"DEV"})}

LEMMA SectionSaves ==
  ASSUME NEW s, Good(s), NetOK, FileOK(file), NEW k \in 1..8, NEW x \in SectionsOf(s, k - 1),
         Saves(x.s, s, FALSE, {"DEV"})
  PROVE  Saves(SectionStep("apply", s, x, k).s, s, FALSE, {"DEV"})
<1> DEFINE r == At(k)
           y == SectionStep("apply", s, x, k)
<1>1. x \in KeptOf(s) /\ Good(x.s) /\ x.ok \in BOOLEAN
  BY KeptIn DEF SectionsOf, Keeps
<1>2. CASE x.ok = FALSE
  <2>1. y = x
    BY <1>2 DEF SectionStep
  <2> QED
    BY <2>1
<1>3. CASE x.ok = TRUE /\ r \notin file["DEV"]
  <2>1. y = Ok(x.s)
    BY <1>3 DEF SectionStep, At
  <2>2. y.s = x.s
    BY <2>1, Outcomes
  <2> QED
    BY <2>2
<1>4. CASE x.ok = TRUE /\ r \in file["DEV"]
  <2>1. PICK e : e = Section(s, r)
    OBVIOUS
  <2>2. y = Call("apply", x.s, FALSE, e)
    BY <1>4, <2>1 DEF SectionStep, At
  <2>3. IsEntry(e) /\ e.opt = "DEV" /\ e.opt \in Opts /\ FALSE \in BOOLEAN
    <3>1. r.key \in Devs \cup {Ref} /\ r.ttl \in Marks
      BY SectionsListed
    <3> HIDE DEF r
    <3> QED
      BY <2>1, <3>1, SectionEntry, OptsAre
  <2> HIDE DEF y
  <2>4. Saves(y.s, x.s, FALSE, Touched(e.opt))
    BY <1>1, <2>2, <2>3, CallSaves
  <2>5. Touched(e.opt) = {"DEV"}
    BY <2>3 DEF Touched
  <2>6. Saves(y.s, x.s, FALSE, {"DEV"})
    BY <2>4, <2>5
  <2>7. Saves(y.s, s, FALSE, {"DEV"})
    BY <2>6, SavesOn
  <2> QED
    BY <2>7 DEF y
<1> QED
  BY <1>1, <1>2, <1>3, <1>4

LEMMA SectionsSave ==
  ASSUME NEW s, Good(s), NetOK, FileOK(file)
  PROVE  Saves(LoadSections("apply", s).s, s, FALSE, {"DEV"})
<1> DEFINE T == [k \in 0..8 |-> SavedSections(s, k)]
<1>1. T \in [0..8 -> SUBSET KeptOf(s)]
  BY DEF SavedSections, SectionsOf
<1>2. Ok(s) \in T[0]
  <2>1. Ok(s) \in SectionsOf(s, 0)
    BY KeptIn DEF SectionsOf, Begun
  <2>2. Saves(Ok(s).s, s, FALSE, {"DEV"})
    <3>1. Ok(s).s = s
      BY Outcomes
    <3> QED
      BY <3>1, SavesNothing
  <2>3. Ok(s) \in SavedSections(s, 0)
    BY <2>1, <2>2 DEF SavedSections
  <2> QED
    BY <2>3
<1>3. \A k \in 1..8 : \A x \in T[k - 1] : SectionStep("apply", s, x, k) \in T[k]
  <2>1. \A k \in 1..8 : T[k - 1] = SavedSections(s, k - 1) /\ T[k] = SavedSections(s, k)
    OBVIOUS
  <2>2. ASSUME NEW k \in 1..8, NEW x \in SavedSections(s, k - 1)
        PROVE  SectionStep("apply", s, x, k) \in SavedSections(s, k)
    BY SectionKept, SectionSaves DEF SavedSections
  <2> HIDE DEF T
  <2> QED
    BY <2>1, <2>2
<1>4. LoadSections("apply", s) \in T[8]
  <2> HIDE DEF T
  <2> QED
    BY <1>1, <1>2, <1>3, SectionsWalk
<1>5. LoadSections("apply", s) \in SavedSections(s, 8)
  <2>1. T[8] = SavedSections(s, 8)
    OBVIOUS
  <2> HIDE DEF T
  <2> QED
    BY <1>4, <2>1
<1> QED
  BY <1>5 DEF SavedSections

(* Loading the devices.                                                       *)
LEMMA LoadDevsIs ==
  ASSUME NEW s, NEW l, l = LoadSections("apply", s)
  PROVE  /\ l.ok => Load("apply", s, "DEV") = RemoveDevs("apply", l.s, Unmentioned(s))
         /\ ~l.ok => Load("apply", s, "DEV") = l
BY DEF Load

LEMMA DevsSpare ==
  ASSUME NEW s, Good(s), NetOK, FileOK(file), NEW r, r = Load("apply", s, "DEV")
  PROVE  Spares(r.s, s, "DEV")
<1>1. PICK l : l = LoadSections("apply", s)
  OBVIOUS
<1>2. Saves(l.s, s, FALSE, {"DEV"}) /\ Good(l.s) /\ l.ok \in BOOLEAN
  BY <1>1, SectionsSave, SectionsKept, KeptIn DEF Keeps
<1>3. Saves(r.s, s, FALSE, {"DEV"})
  <2>1. CASE l.ok
    <3>1. PICK gone : r = RemoveDevs("apply", l.s, gone)
      BY <1>1, <2>1, LoadDevsIs
    <3>2. r \in RemovedOf(l.s, gone, 3)
      BY <1>2, <3>1, RemovalRead
    <3>3. Saves(r.s, l.s, FALSE, {"DEV"})
      BY <3>2 DEF RemovedOf, Removing
    <3> QED
      BY <1>2, <3>3, SavesOn
  <2>2. CASE ~l.ok
    BY <1>1, <1>2, <2>2, LoadDevsIs
  <2> QED
    BY <2>1, <2>2
<1>4. Touched("DEV") = {"DEV"}
  BY DEF Touched
<1> QED
  BY <1>3, <1>4 DEF Spares, Saves

(* An option is tracked as the file says.                                     *)
AsFile(s, o) == file[o] = InFile(s.track[o]) /\ (o = "DEV" => Standing(s.track["DEV"]))

LEMMA DevsLoaded ==
  ASSUME NEW s, Good(s), NetOK, FileOK(file), SoundDevs, ReadyDevs(s),
         NEW r, r = Load("apply", s, "DEV"), r.ok
  PROVE  AsFile(r.s, "DEV")
<1> DEFINE D == s.track["DEV"]
<1>1. PICK l : l = LoadSections("apply", s)
  OBVIOUS
<1>2. l \in ReadOf(s, 8) /\ Good(l.s)
  BY <1>1, SectionsRead, SectionsKept, KeptIn DEF Keeps
<1>3. CASE ~l.ok
  <2>1. r = l
    BY <1>1, <1>3, LoadDevsIs
  <2> QED
    BY <1>3, <2>1
<1>4. CASE l.ok
  <2>1. l.s.track["DEV"] = Left(D, 8) \cup ReadIn(8) /\ Clear(D, 8)
    BY <1>2, <1>4 DEF ReadOf, Reading
  <2>2. Unmentioned(s) = Left(D, 8)
    BY <2>1, UnmentionedIs
  <2>3. r = RemoveDevs("apply", l.s, Left(D, 8))
    BY <1>1, <1>4, <2>2, LoadDevsIs
  <2>4. r \in RemovedOf(l.s, Left(D, 8), 3)
    <3>1. PICK gone : gone = Left(D, 8)
      OBVIOUS
    <3> QED
      BY <1>2, <2>3, <3>1, RemovalRead
  <2>5. r.s.track["DEV"] = Spared(Left(D, 8) \cup ReadIn(8), Left(D, 8), 3)
    BY <2>1, <2>4 DEF RemovedOf, Removing
  <2>6. ByName(D)
    BY GoodDevs
  <2>7. r.s.track["DEV"] = ReadIn(8)
    <3> HIDE DEF D
    <3> QED
      BY <2>5, <2>6, LeftAreSpared
  <2>8. Standing(ReadIn(8))
    BY DEF Standing, ReadIn, Target, ValOf, RefOf, Ref, NoRef
  <2> QED
    BY <2>7, <2>8, ReadSaved DEF AsFile
<1> QED
  BY <1>3, <1>4

-----------------------------------------------------------------------------
(* Loading an option.                                                         *)
LEMMA LoadSpares ==
  ASSUME NEW s, Good(s), NetOK, FileOK(file), OneLine(file), ClassesExact, NEW o \in Opts,
         NEW r, r = Load("apply", s, o)
  PROVE  Spares(r.s, s, o)
<1>1. CASE o = "DEV"
  BY <1>1, DevsSpare
<1>2. CASE o # "DEV"
  <2>1. o \in Singles /\ r = LoadSingle("apply", s, o)
    BY <1>2, OptsAre, LoadIs
  <2> QED
    BY <2>1, SingleLoaded
<1> QED
  BY <1>1, <1>2

Ready(s, o) == s.fly \/ s.track[o] = {}

LEMMA LoadReads ==
  ASSUME NEW s, Good(s), NetOK, FileOK(file), OneLine(file), ClassesExact, SoundDevs, NEW o \in Opts,
         Ready(s, o), NEW r, r = Load("apply", s, o), r.ok
  PROVE  AsFile(r.s, o)
<1>1. CASE o = "DEV"
  <2>1. ReadyDevs(s)
    BY <1>1 DEF Ready, ReadyDevs
  <2>2. r = Load("apply", s, "DEV")
    BY <1>1
  <2>3. AsFile(r.s, "DEV")
    BY <2>1, <2>2, DevsLoaded
  <2> QED
    BY <1>1, <2>3
<1>2. CASE o # "DEV"
  <2>1. o \in Singles /\ r = LoadSingle("apply", s, o)
    BY <1>2, OptsAre, LoadIs
  <2> QED
    BY <1>2, <2>1, SingleLoaded DEF Ready, AsFile
<1> QED
  BY <1>1, <1>2

(* The options of some orders.                                                *)
OfOrders(first, last) == {o \in Opts : OrderOf(o) \in first..last}

LEMMA TouchedOrders ==
  ASSUME NEW first, NEW last, NEW o \in OfOrders(first, last)
  PROVE  Touched(o) \subseteq OfOrders(first, last)
<1>1. \A x \in Touched(o) : x \in Opts /\ OrderOf(x) = OrderOf(o)
  BY OptsAre DEF Touched, OrderOf, OfOrders
<1> QED
  BY <1>1 DEF OfOrders

LEMMA ListIs ==
  /\ \A k \in 1..5 : ListOrder[k] \in Opts
  /\ \A j, k \in 1..5 : ListOrder[j] = ListOrder[k] => j = k
  /\ \A o \in Opts : \E k \in 1..5 : o = ListOrder[k]
  /\ ListOrder[4] = "RT" /\ ListOrder[5] = "GW"
<1>1. /\ ListOrder[1] = "PORT" /\ ListOrder[2] = "PEDANTIC" /\ ListOrder[3] = "DEV"
      /\ ListOrder[4] = "RT" /\ ListOrder[5] = "GW"
  BY DEF ListOrder
<1>2. \A k \in 1..5 : k \in {1, 2, 3, 4, 5}
  OBVIOUS
<1> QED
  BY <1>1, <1>2, OptsAre

(* The file is loaded up to the kth option.                                   *)
ReadOption(x, k) == AsFile(x.s, ListOrder[k])
OptionsRead(x, s, first, last, k) ==
  /\ Saves(x.s, s, FALSE, OfOrders(first, last))
  /\ x.ok => /\ \A i \in 1..k : ListOrder[i] \in OfOrders(first, last) => ReadOption(x, i)
             /\ \A i \in (k + 1)..5 : x.s.track[ListOrder[i]] \in {s.track[ListOrder[i]], {}}
LoadedOf(s, first, last, k) ==
  {x \in OrdersOf(s, first, last, k) : OptionsRead(x, s, first, last, k)}

(* What has been read stays as it was: the two classes are not both set.      *)
SoundFile == SoundDevs /\ (file["RT"] = {} \/ NoClassSaved)
Loadable(s) == \A o \in Opts : Ready(s, o)

LEMMA StillRead ==
  ASSUME SoundFile, NEW k \in 1..5, NEW i \in 1..(k - 1), NEW x, NEW y, ReadOption(x, i),
         Spares(y.s, x.s, ListOrder[k])
  PROVE  ReadOption(y, i)
<1> DEFINE o == ListOrder[k]
           v == ListOrder[i]
<1>1. v \in Opts \ {o} /\ o \in Opts
  BY ListIs
<1>2. y.s.track[v] \in {x.s.track[v], {}} /\ (v \notin Touched(o) => y.s.track[v] = x.s.track[v])
  BY <1>1 DEF Spares, Saves
<1>3. CASE v \notin Touched(o)
  BY <1>2, <1>3 DEF ReadOption, AsFile
<1>4. CASE v \in Touched(o)
  <2>1. o = "GW" /\ v = "RT"
    <3>1. o \in {"RT", "GW"} /\ v \in {"RT", "GW"}
      BY <1>1, <1>4 DEF Touched
    <3>2. \A j \in 1..5 : (ListOrder[j] = "RT" => j = 4) /\ (ListOrder[j] = "GW" => j = 5)
      BY ListIs
    <3>3. (v = "RT" => i = 4) /\ (v = "GW" => i = 5) /\ (o = "RT" => k = 4)
      BY <3>2
    <3> HIDE DEF o, v
    <3> QED
      BY <1>1, <3>1, <3>3
  <2>2. CASE NoClassSaved
    <3>1. y.s.track[v] = x.s.track[v]
      BY <1>1, <2>1, <2>2 DEF Spares
    <3> QED
      BY <2>1, <3>1 DEF ReadOption, AsFile
  <2>3. CASE file["RT"] = {}
    <3>1. InFile(x.s.track[v]) = {}
      BY <2>1, <2>3 DEF ReadOption, AsFile
    <3>2. x.s.track[v] = {}
      BY <3>1 DEF InFile
    <3>3. y.s.track[v] = x.s.track[v]
      BY <1>2, <3>2
    <3> QED
      BY <2>1, <3>3 DEF ReadOption, AsFile
  <2> QED
    BY <2>2, <2>3 DEF SoundFile
<1> QED
  BY <1>3, <1>4

LEMMA OptionSkipped ==
  ASSUME NEW first, NEW last, NEW s, NEW x, NEW k \in 1..5, OptionsRead(x, s, first, last, k - 1),
         ListOrder[k] \notin OfOrders(first, last), NEW z, z.s = x.s, z.ok => x.ok
  PROVE  OptionsRead(z, s, first, last, k)
<1>1. \A i \in 1..k : i = k \/ i \in 1..(k - 1)
  OBVIOUS
<1>2. \A i \in (k + 1)..5 : i \in ((k - 1) + 1)..5
  OBVIOUS
<1>3. Saves(z.s, s, FALSE, OfOrders(first, last))
  BY DEF OptionsRead
<1>4. ASSUME z.ok, NEW i \in 1..k, ListOrder[i] \in OfOrders(first, last) PROVE ReadOption(z, i)
  <2>1. i \in 1..(k - 1)
    BY <1>1, <1>4
  <2>2. ReadOption(x, i)
    BY <1>4, <2>1 DEF OptionsRead
  <2> QED
    BY <2>2 DEF ReadOption
<1>5. ASSUME z.ok, NEW i \in (k + 1)..5 PROVE z.s.track[ListOrder[i]] \in {s.track[ListOrder[i]], {}}
  BY <1>2, <1>5 DEF OptionsRead
<1> QED
  BY <1>3, <1>4, <1>5 DEF OptionsRead

LEMMA OptionLoaded ==
  ASSUME NEW s, Good(s), NetOK, FileOK(file), OneLine(file), ClassesExact, SoundFile, Loadable(s),
         NEW first, NEW last, NEW k \in 1..5, NEW x \in LoadedOf(s, first, last, k - 1)
  PROVE  OrderStep("apply", first, last, x, k) \in LoadedOf(s, first, last, k)
<1> DEFINE o == ListOrder[k]
           y == OrderStep("apply", first, last, x, k)
<1>1. x \in OrdersOf(s, first, last, k - 1) /\ x \in KeptOf(s) /\ Good(x.s) /\ x.ok \in BOOLEAN
      /\ x.s.fly = s.fly /\ OptionsRead(x, s, first, last, k - 1)
  BY KeptIn DEF LoadedOf, OrdersOf, Keeps
<1>2. y \in OrdersOf(s, first, last, k)
  BY <1>1, OrderKept
<1>3. o \in Opts
  BY ListIs
<1>4. CASE x.ok = FALSE
  <2>1. y = x
    BY <1>4 DEF OrderStep
  <2>2. OptionsRead(x, s, first, last, k)
    BY <1>1, <1>4 DEF OptionsRead
  <2> QED
    BY <1>2, <2>1, <2>2 DEF LoadedOf
<1>5. CASE x.ok = TRUE /\ o \notin OfOrders(first, last)
  <2>1. y = Ok(x.s)
    BY <1>3, <1>5 DEF OrderStep, OfOrders
  <2>2. y.s = x.s
    BY <2>1, Outcomes
  <2> HIDE DEF y
  <2>3. OptionsRead(y, s, first, last, k)
    BY <1>1, <1>5, <2>2, OptionSkipped
  <2> QED
    BY <1>2, <2>3 DEF LoadedOf, y
<1>6. CASE x.ok = TRUE /\ o \in OfOrders(first, last)
  <2>1. y = Load("apply", x.s, o)
    BY <1>6 DEF OrderStep, OfOrders
  <2> HIDE DEF y, o
  <2>2. Spares(y.s, x.s, o)
    BY <1>1, <1>3, <2>1, LoadSpares
  <2>3. Saves(y.s, s, FALSE, OfOrders(first, last))
    <3>1. Saves(y.s, x.s, FALSE, Touched(o)) /\ Touched(o) \subseteq OfOrders(first, last)
      BY <1>6, <2>2, TouchedOrders DEF Spares
    <3>2. Saves(y.s, x.s, FALSE, OfOrders(first, last))
      BY <3>1, SavesMore
    <3> QED
      BY <1>1, <3>2, SavesOn DEF OptionsRead
  <2>4. Ready(x.s, o)
    <3>1. k \in ((k - 1) + 1)..5
      OBVIOUS
    <3>2. x.s.track[o] \in {s.track[o], {}}
      BY <1>1, <1>6, <3>1 DEF OptionsRead, o
    <3> QED
      BY <1>1, <1>3, <3>2 DEF Ready, Loadable
  <2>5. y.ok => AsFile(y.s, o)
    BY <1>1, <1>3, <2>1, <2>4, LoadReads DEF SoundFile
  <2>6. ASSUME y.ok, NEW i \in 1..k, ListOrder[i] \in OfOrders(first, last) PROVE ReadOption(y, i)
    <3>1. CASE i = k
      BY <2>5, <2>6, <3>1 DEF ReadOption, o
    <3>2. CASE i \in 1..(k - 1)
      <4>1. ReadOption(x, i)
        BY <1>1, <1>6, <2>6, <3>2 DEF OptionsRead
      <4>2. Spares(y.s, x.s, ListOrder[k])
        BY <2>2 DEF o
      <4> QED
        BY <3>2, <4>1, <4>2, StillRead
    <3> QED
      BY <3>1, <3>2
  <2>7. ASSUME y.ok, NEW i \in (k + 1)..5
        PROVE  y.s.track[ListOrder[i]] \in {s.track[ListOrder[i]], {}}
    <3>1. i \in ((k - 1) + 1)..5 /\ i \in 1..5 /\ i # k
      BY <2>7
    <3>2. x.s.track[ListOrder[i]] \in {s.track[ListOrder[i]], {}}
      BY <1>1, <1>6, <3>1 DEF OptionsRead
    <3>3. ListOrder[i] \in Opts \ {o}
      BY <3>1, ListIs DEF o
    <3>4. y.s.track[ListOrder[i]] \in {x.s.track[ListOrder[i]], {}}
      BY <2>2, <3>3 DEF Spares
    <3> QED
      BY <3>2, <3>4
  <2>8. OptionsRead(y, s, first, last, k)
    BY <2>3, <2>6, <2>7 DEF OptionsRead
  <2> QED
    BY <1>2, <2>8 DEF LoadedOf, y
<1> QED
  BY <1>1, <1>4, <1>5, <1>6

(* What was read of the file is tracked.                                      *)
LEMMA OrdersRead ==
  ASSUME NEW s, Good(s), NetOK, FileOK(file), OneLine(file), ClassesExact, SoundFile, Loadable(s),
         NEW first, NEW last, NEW r, r = LoadOrders("apply", s, first, last), r.ok
  PROVE  \A o \in OfOrders(first, last) : AsFile(r.s, o)
<1> DEFINE T == [k \in 0..5 |-> LoadedOf(s, first, last, k)]
<1>1. T \in [0..5 -> SUBSET KeptOf(s)]
  BY DEF LoadedOf, OrdersOf
<1>2. Ok(s) \in T[0]
  <2>1. Ok(s) \in OrdersOf(s, first, last, 0)
    BY KeptIn DEF OrdersOf, Provided
  <2>2. Ok(s).s = s
    BY Outcomes
  <2>3. Saves(s, s, FALSE, OfOrders(first, last))
    BY SavesNothing
  <2>4. OptionsRead(Ok(s), s, first, last, 0)
    <3>1. Saves(Ok(s).s, s, FALSE, OfOrders(first, last))
      BY <2>2, <2>3
    <3>2. \A i \in (0 + 1)..5 : Ok(s).s.track[ListOrder[i]] \in {s.track[ListOrder[i]], {}}
      BY <2>2
    <3>3. \A i \in 1..0 : ReadOption(Ok(s), i)
      OBVIOUS
    <3> QED
      BY <3>1, <3>2, <3>3 DEF OptionsRead
  <2>5. Ok(s) \in LoadedOf(s, first, last, 0)
    BY <2>1, <2>4 DEF LoadedOf
  <2> QED
    BY <2>5
<1>3. \A k \in 1..5 : \A x \in T[k - 1] : OrderStep("apply", first, last, x, k) \in T[k]
  <2>1. \A k \in 1..5 : T[k - 1] = LoadedOf(s, first, last, k - 1)
                        /\ T[k] = LoadedOf(s, first, last, k)
    OBVIOUS
  <2> HIDE DEF T
  <2> QED
    BY <2>1, OptionLoaded
<1>4. r \in T[5]
  <2> HIDE DEF T
  <2> QED
    BY <1>1, <1>2, <1>3, OrdersWalk
<1>5. r \in LoadedOf(s, first, last, 5)
  BY <1>4
<1>6. \A i \in 1..5 : ListOrder[i] \in OfOrders(first, last) => ReadOption(r, i)
  BY <1>5 DEF LoadedOf, OptionsRead
<1> QED
  BY <1>6, ListIs DEF OfOrders, ReadOption

(* Nothing is ever written while the file is read.                            *)
SparedOf(s, first, last, k) ==
  {x \in OrdersOf(s, first, last, k) : Saves(x.s, s, FALSE, OfOrders(first, last))}

LEMMA OptionSpared ==
  ASSUME NEW s, Good(s), NetOK, FileOK(file), OneLine(file), ClassesExact,
         NEW first, NEW last, NEW k \in 1..5, NEW x \in SparedOf(s, first, last, k - 1)
  PROVE  OrderStep("apply", first, last, x, k) \in SparedOf(s, first, last, k)
<1> DEFINE o == ListOrder[k]
           y == OrderStep("apply", first, last, x, k)
<1>1. x \in OrdersOf(s, first, last, k - 1) /\ x \in KeptOf(s) /\ Good(x.s) /\ x.ok \in BOOLEAN
      /\ Saves(x.s, s, FALSE, OfOrders(first, last))
  BY KeptIn DEF SparedOf, OrdersOf, Keeps
<1>2. y \in OrdersOf(s, first, last, k)
  BY <1>1, OrderKept
<1>3. o \in Opts
  BY ListIs
<1>4. CASE x.ok = FALSE
  <2>1. y = x
    BY <1>4 DEF OrderStep
  <2> QED
    BY <1>1, <1>2, <2>1 DEF SparedOf
<1>5. CASE x.ok = TRUE /\ o \notin OfOrders(first, last)
  <2>1. y = Ok(x.s)
    BY <1>3, <1>5 DEF OrderStep, OfOrders
  <2>2. y.s = x.s
    BY <2>1, Outcomes
  <2> QED
    BY <1>1, <1>2, <2>2 DEF SparedOf
<1>6. CASE x.ok = TRUE /\ o \in OfOrders(first, last)
  <2>1. y = Load("apply", x.s, o)
    BY <1>6 DEF OrderStep, OfOrders
  <2> HIDE DEF y, o
  <2>2. Saves(y.s, x.s, FALSE, Touched(o)) /\ Touched(o) \subseteq OfOrders(first, last)
    BY <1>1, <1>3, <1>6, <2>1, LoadSpares, TouchedOrders DEF Spares
  <2>3. Saves(y.s, x.s, FALSE, OfOrders(first, last))
    BY <2>2, SavesMore
  <2>4. Saves(y.s, s, FALSE, OfOrders(first, last))
    BY <1>1, <2>3, SavesOn
  <2> QED
    BY <1>2, <2>4 DEF SparedOf, y
<1> QED
  BY <1>1, <1>4, <1>5, <1>6

LEMMA OrdersSave ==
  ASSUME NEW s, Good(s), NetOK, FileOK(file), OneLine(file), ClassesExact,
         NEW first, NEW last, NEW r, r = LoadOrders("apply", s, first, last)
  PROVE  Saves(r.s, s, FALSE, OfOrders(first, last))
<1> DEFINE T == [k \in 0..5 |-> SparedOf(s, first, last, k)]
<1>1. T \in [0..5 -> SUBSET KeptOf(s)]
  BY DEF SparedOf, OrdersOf
<1>2. Ok(s) \in T[0]
  <2>1. Ok(s) \in OrdersOf(s, first, last, 0)
    BY KeptIn DEF OrdersOf, Provided
  <2>2. Ok(s).s = s
    BY Outcomes
  <2>3. Saves(s, s, FALSE, OfOrders(first, last))
    BY SavesNothing
  <2>4. Ok(s) \in SparedOf(s, first, last, 0)
    BY <2>1, <2>2, <2>3 DEF SparedOf
  <2> QED
    BY <2>4
<1>3. \A k \in 1..5 : \A x \in T[k - 1] : OrderStep("apply", first, last, x, k) \in T[k]
  <2>1. \A k \in 1..5 : T[k - 1] = SparedOf(s, first, last, k - 1)
                        /\ T[k] = SparedOf(s, first, last, k)
    OBVIOUS
  <2> HIDE DEF T
  <2> QED
    BY <2>1, OptionSpared
<1>4. r \in T[5]
  <2> HIDE DEF T
  <2> QED
    BY <1>1, <1>2, <1>3, OrdersWalk
<1>5. r \in SparedOf(s, first, last, 5)
  BY <1>4
<1> QED
  BY <1>5 DEF SparedOf

-----------------------------------------------------------------------------
(* A line is applied and saved.  What has not been called yet is as in the    *)
(* file; what has been loaded is as in the file again.                        *)
Follows(x, s) ==
  /\ OneLine(x.s.file)
  /\ s.fly /\ ~x.load => \A o \in Opts : Matches(s, o) => Matches(x.s, o)
  /\ s.fly /\ x.ok =>
       \A o \in Opts :
         /\ OrderOf(o) > x.order => x.s.file[o] = file[o]
         /\ SoundFile /\ x.load /\ OrderOf(o) <= x.order => Matches(x.s, o)

LEMMA OrdersOfOptions == \A o \in Opts : OrderOf(o) \in {4, 5}
BY OptsAre DEF OrderOf

LEMMA FollowsSame ==
  ASSUME NEW s, NEW x, Follows(x, s), NEW y, y.s = x.s, y.load = x.load,
         y.ok => x.ok /\ y.order = x.order
  PROVE  Follows(y, s)
BY DEF Follows

(* The file's options of the classes in between are loaded.                   *)
LEMMA LoadFollows ==
  ASSUME NEW s, NEW x, Good(x.s), NetOK, FileOK(file), OneLine(file), ClassesExact,
         x.s.fly = s.fly, x.order \in Nat, x.ok = TRUE, x.load = TRUE, Follows(x, s),
         NEW next \in Nat, x.order < next,
         NEW l, l = LoadOrders("apply", x.s, x.order + 1, next),
         NEW y, y.ok = l.ok, y.s = l.s, y.order = next, y.load = TRUE
  PROVE  Follows(y, s)
<1> DEFINE first == x.order + 1
<1>1. Saves(l.s, x.s, FALSE, OfOrders(first, next))
  BY OrdersSave
<1>2. OneLine(y.s.file) /\ y.s.file = x.s.file
  BY <1>1 DEF Saves, Follows
<1>3. ASSUME s.fly = TRUE, y.ok, NEW o \in Opts, OrderOf(o) > next PROVE y.s.file[o] = file[o]
  <2>1. OrderOf(o) > x.order
    BY <1>3, OrdersOfOptions
  <2>2. x.s.file[o] = file[o]
    BY <1>3, <2>1 DEF Follows
  <2> QED
    BY <1>2, <2>2
<1>4. ASSUME s.fly = TRUE, y.ok, SoundFile, NEW o \in Opts, OrderOf(o) <= next PROVE Matches(y.s, o)
  <2>1. CASE OrderOf(o) <= x.order
    <3>1. Matches(x.s, o)
      BY <1>4, <2>1 DEF Follows
    <3>2. o \notin OfOrders(first, next)
      BY <2>1, OrdersOfOptions DEF OfOrders
    <3>3. l.s.track[o] = x.s.track[o] /\ l.s.file[o] = x.s.file[o]
      BY <1>1, <3>2 DEF Saves
    <3> QED
      BY <3>1, <3>3 DEF Matches
  <2>2. CASE OrderOf(o) > x.order
    <3>1. o \in OfOrders(first, next)
      BY <1>4, <2>2, OrdersOfOptions DEF OfOrders
    <3>2. Loadable(x.s)
      BY <1>4 DEF Loadable, Ready
    <3>3. AsFile(l.s, o)
      BY <1>4, <3>1, <3>2, OrdersRead
    <3>4. x.s.file[o] = file[o]
      BY <1>4, <2>2 DEF Follows
    <3> QED
      BY <1>2, <3>3, <3>4 DEF Matches, AsFile
  <2> QED
    BY <2>1, <2>2, OrdersOfOptions
<1> QED
  BY <1>2, <1>3, <1>4 DEF Follows

Moves(y, x, next) == y.load = x.load /\ (y.ok = TRUE /\ next # 0 => y.order = next)

LEMMA OrderedFollows ==
  ASSUME NEW s, NetOK, FileOK(file), OneLine(file), ClassesExact,
         NEW x \in KeptStream(s), x.ok = TRUE, Follows(x, s), NEW next \in Nat,
         NEW y, y = Ordered("apply", x, next)
  PROVE  Follows(y, s) /\ Moves(y, x, next)
<1>1. x \in Streams(States) /\ Good(x.s) /\ x.s.fly = s.fly /\ x.order \in Nat /\ x.load \in BOOLEAN
  BY StreamFields DEF KeptStream, Keeps
<1>2. PICK l : l = Loaded("apply", x, next)
  OBVIOUS
<1>3. \/ next \in {0, x.order} /\ y = x
      \/ next # 0 /\ x.order > next /\ y = [x EXCEPT !.ok = FALSE]
      \/ next # 0 /\ x.order < next /\ y = TakenAt(x, l, next)
  BY <1>1, <1>2, OrderedIs
<1>4. CASE next \in {0, x.order} /\ y = x
  BY <1>4 DEF Moves
<1>5. CASE y = [x EXCEPT !.ok = FALSE]
  <2>1. y.ok = FALSE /\ y.s = x.s /\ y.load = x.load
    BY <1>1, <1>5, FailedStream
  <2> QED
    BY <2>1, FollowsSame DEF Moves
<1>6. CASE next # 0 /\ x.order < next /\ y = TakenAt(x, l, next)
  <2>1. l.ok \in BOOLEAN /\ l.s \in States
    <3>1. l \in KeptOf(x.s)
      BY <1>1, <1>2, OrdersKept, KeptIn DEF Loaded
    <3> QED
      BY <1>1, <3>1, KeptIn DEF Keeps, Good
  <2>2. y.ok = l.ok /\ y.s = l.s /\ y.order = next /\ y.load = x.load
    BY <1>1, <1>6, <2>1, TakenFields
  <2>3. CASE x.load = TRUE
    <3>1. l = LoadOrders("apply", x.s, x.order + 1, next)
      BY <1>2, <2>3 DEF Loaded
    <3>2. Follows(y, s)
      BY <1>1, <1>6, <2>2, <2>3, <3>1, LoadFollows
    <3> QED
      BY <2>2, <3>2 DEF Moves
  <2>4. CASE x.load = FALSE
    <3>1. l = Ok(x.s)
      BY <1>2, <2>4 DEF Loaded
    <3>2. y.s = x.s /\ y.load = FALSE
      BY <2>2, <2>4, <3>1, Outcomes
    <3>3. ASSUME s.fly = TRUE, NEW o \in Opts, OrderOf(o) > next PROVE y.s.file[o] = file[o]
      <4>1. OrderOf(o) > x.order
        BY <1>1, <1>6, <3>3, OrdersOfOptions
      <4> QED
        BY <3>2, <3>3, <4>1 DEF Follows
    <3>4. Follows(y, s)
      BY <2>2, <2>4, <3>2, <3>3 DEF Follows
    <3> QED
      BY <2>2, <3>4 DEF Moves
  <2> QED
    BY <1>1, <2>3, <2>4
<1> QED
  BY <1>3, <1>4, <1>5, <1>6

(* An option is called.                                                       *)
LEMMA CallFollows ==
  ASSUME NEW s, NEW x, Good(x.s), NetOK, x.s.fly = s.fly, s.fly \in BOOLEAN, x.ok = TRUE, Follows(x, s),
         NEW e, IsEntry(e), e.opt \in Opts, x.order = OrderOf(e.opt),
         NEW c, c = Call("apply", x.s, s.fly, e),
         NEW y, y.s = c.s, y.load = x.load, y.order = x.order
  PROVE  Follows(y, s)
<1>1. Saves(c.s, x.s, s.fly, Touched(e.opt))
  BY CallSaves
<1>2. OneLine(y.s.file)
  BY <1>1 DEF Saves, Follows
<1>3. s.fly => \A o \in Opts : Matches(x.s, o) => Matches(y.s, o)
  BY <1>1 DEF Saves
<1>4. \A o \in Touched(e.opt) : OrderOf(o) = x.order
  BY OptsAre DEF Touched, OrderOf
<1>5. ASSUME s.fly, NEW o \in Opts, OrderOf(o) > x.order PROVE y.s.file[o] = file[o]
  <2>1. o \notin Touched(e.opt)
    BY <1>4, <1>5, OrdersOfOptions
  <2>2. y.s.file[o] = x.s.file[o]
    BY <1>1, <2>1 DEF Saves
  <2> QED
    BY <1>5, <2>2 DEF Follows
<1> QED
  BY <1>2, <1>3, <1>5 DEF Follows

(* Whether the file is to be loaded.                                          *)
Mentioning(line, k) == \E i \in 1..k : line[i].opt = "RELOAD"
Asked(x, line, k) ==
  /\ x.load => Mentioning(line, k)
  /\ x.ok /\ ~x.done /\ Mentioning(line, k) => x.load
FollowedOf(s, line, k) == {x \in KeptStream(s) : Follows(x, s) /\ (s.fly => Asked(x, line, k))}

LEMMA MentioningMore ==
  ASSUME NEW line, NEW k \in Nat \ {0}
  PROVE  Mentioning(line, k) <=> Mentioning(line, k - 1) \/ line[k].opt = "RELOAD"
<1>1. 1..k = (1..(k - 1)) \cup {k}
  OBVIOUS
<1> QED
  BY <1>1 DEF Mentioning

LEMMA FlaggedFields ==
  ASSUME NEW S, NEW o \in Streams(S)
  PROVE  /\ Flagged(o, "apply").done = TRUE /\ Flagged(o, "apply").load = o.load
         /\ Flagged(o, "apply").ok = o.ok /\ Flagged(o, "apply").s = o.s
         /\ Flagged(o, "apply").order = o.order
         /\ Loading(o).load = TRUE
BY DEF Streams, Flagged, Loading

(* RELOAD comes before every option.                                          *)
LEMMA LoadingFollows ==
  ASSUME NEW s, NEW x, Follows(x, s), x.ok => x.order = 1,
         NEW y, y.s = x.s, y.ok = x.ok, y.order = x.order, y.load = TRUE
  PROVE  Follows(y, s)
BY OrdersOfOptions DEF Follows

LEMMA StepFollows ==
  ASSUME NEW s, Good(s), NetOK, FileOK(file), OneLine(file), ClassesExact,
         NEW line, NEW k \in Nat \ {0}, IsEntry(line[k]), NEW x \in FollowedOf(s, line, k - 1)
  PROVE  Step("apply", x, line[k]) \in FollowedOf(s, line, k)
<1>1. PICK e : e = line[k]
  OBVIOUS
<1>2. PICK y : y = Step("apply", x, e)
  OBVIOUS
<1>3. /\ x \in KeptStream(s) /\ Follows(x, s) /\ (s.fly => Asked(x, line, k - 1))
      /\ x.ok \in BOOLEAN /\ x.done \in BOOLEAN /\ Keeps(x, s) /\ s.fly \in BOOLEAN
      /\ x.s.fly = s.fly
  BY StreamFields DEF FollowedOf, KeptStream, Keeps, Good, States
<1>4. y \in KeptStream(s)
  BY <1>1, <1>2, <1>3, StepKept
<1>5. Mentioning(line, k) <=> Mentioning(line, k - 1) \/ e.opt = "RELOAD"
  BY <1>1, MentioningMore
<1>6. CASE ~x.ok \/ x.done
  <2>1. y = x
    BY <1>2, <1>6 DEF Step
  <2>2. Asked(x, line, k - 1) => Asked(x, line, k)
    BY <1>5, <1>6 DEF Asked
  <2> QED
    BY <1>1, <1>2, <1>3, <2>1, <2>2 DEF FollowedOf
<1>7. CASE x.ok = TRUE /\ x.done = FALSE
  <2>1. PICK o : o = Ordered("apply", x, OrderOf(e.opt))
    OBVIOUS
  <2>2. /\ OrderOf(e.opt) \in Nat /\ OrderOf(e.opt) <= 5
        /\ e.opt \in {"TEST", "RELOAD"} \cup Opts
        /\ (e.opt = "RELOAD" => OrderOf(e.opt) = 1) /\ (e.opt \in Opts => OrderOf(e.opt) # 0)
    <3>1. IsEntry(e)
      BY <1>1
    <3>2. OrderOf("RELOAD") = 1
      BY DEF OrderOf
    <3> QED
      BY <3>1, <3>2, OrderOfIs, OrdersOfOptions
  <2>3. /\ Follows(o, s) /\ o.load = x.load
        /\ (o.ok = TRUE /\ OrderOf(e.opt) # 0 => o.order = OrderOf(e.opt))
    <3>1. PICK next \in Nat : next = OrderOf(e.opt)
      BY <2>2
    <3>2. o = Ordered("apply", x, next)
      BY <2>1, <3>1
    <3>3. Follows(o, s) /\ Moves(o, x, next)
      BY <1>3, <1>7, <3>2, OrderedFollows
    <3> QED
      BY <3>1, <3>3 DEF Moves
  <2>4. o \in Streams(States) /\ Keeps(o, s)
    BY <1>3, <1>7, <2>1, <2>2, OrderedKept
  <2>5. o.ok \in BOOLEAN /\ Good(o.s) /\ o.s.fly = s.fly
    BY <2>4 DEF Keeps
  <2>6. /\ ~o.ok => y = o
        /\ o.ok /\ e.opt = "TEST" => y = Flagged(o, "apply")
        /\ o.ok /\ e.opt = "RELOAD" => y = Loading(o)
        /\ o.ok /\ e.opt \notin {"TEST", "RELOAD"} => y = Taken(o, Call("apply", o.s, x.s.fly, e))
    BY <1>2, <1>7, <2>1, StepIs
  <2>7. s.fly => (o.load <=> Mentioning(line, k - 1))
    BY <1>3, <1>7, <2>3 DEF Asked
  <2>8. CASE o.ok = FALSE
    <3>1. y = o
      BY <2>6, <2>8
    <3>2. s.fly => Asked(y, line, k)
      BY <1>5, <2>7, <2>8, <3>1 DEF Asked
    <3> QED
      BY <1>1, <1>2, <1>4, <2>3, <3>1, <3>2 DEF FollowedOf
  <2>9. CASE o.ok = TRUE /\ e.opt = "TEST"
    <3>1. y = Flagged(o, "apply")
      BY <2>6, <2>9
    <3>2. y.ok = o.ok /\ y.s = o.s /\ y.order = o.order
      BY <2>4, <3>1, FlaggedFields
    <3>3. y.done = TRUE /\ y.load = o.load
      BY <2>4, <3>1, FlaggedFields
    <3>4. Follows(y, s)
      BY <2>3, <3>2, <3>3, FollowsSame
    <3>5. s.fly => Asked(y, line, k)
      BY <1>5, <2>7, <3>3 DEF Asked
    <3> QED
      BY <1>1, <1>2, <1>4, <3>4, <3>5 DEF FollowedOf
  <2>10. CASE o.ok = TRUE /\ e.opt = "RELOAD"
    <3>1. y = Loading(o)
      BY <2>6, <2>10
    <3>2. y.ok = o.ok /\ y.s = o.s /\ y.order = o.order
      BY <2>4, <3>1, FlaggedStream
    <3>3. y.load = TRUE
      BY <2>4, <3>1, FlaggedFields
    <3>4. Follows(y, s)
      <4>1. o.ok => o.order = 1
        BY <2>2, <2>3, <2>10
      <4> QED
        BY <2>3, <3>2, <3>3, <4>1, LoadingFollows
    <3>5. Asked(y, line, k)
      BY <1>5, <2>10, <3>3 DEF Asked
    <3> QED
      BY <1>1, <1>2, <1>4, <3>4, <3>5 DEF FollowedOf
  <2>11. CASE o.ok = TRUE /\ e.opt \in Opts
    <3>1. e.opt \notin {"TEST", "RELOAD"}
      BY <2>11, OptsAre
    <3>2. PICK c : c = Call("apply", o.s, s.fly, e)
      OBVIOUS
    <3>3. y = Taken(o, c)
      BY <1>3, <2>6, <2>11, <3>1, <3>2
    <3>4. y.s = c.s /\ y.load = o.load /\ y.order = o.order
      BY <2>4, <3>3 DEF Streams, Taken
    <3>5. Follows(y, s)
      <4>1. o.order = OrderOf(e.opt)
        BY <2>2, <2>3, <2>11
      <4>2. IsEntry(e) /\ e.opt \in Opts
        BY <1>1, <2>11
      <4> QED
        BY <1>3, <2>3, <2>5, <2>11, <3>2, <3>4, <4>1, <4>2, CallFollows
    <3>6. s.fly => Asked(y, line, k)
      BY <1>5, <2>7, <3>1, <3>4 DEF Asked
    <3> QED
      BY <1>1, <1>2, <1>4, <3>5, <3>6 DEF FollowedOf
  <2> QED
    BY <2>2, <2>5, <2>8, <2>9, <2>10, <2>11
<1> QED
  BY <1>3, <1>6, <1>7

(* What a line leaves behind.                                                 *)
LEMMA StreamFollows ==
  ASSUME NEW s, Good(s), NetOK, FileOK(file), OneLine(file), ClassesExact, s.file = file,
         NEW line, IsLine(line), NEW load \in BOOLEAN, IF s.fly THEN load = FALSE /\ Equipped(s) ELSE load = TRUE,
         NEW r, r = Stream("apply", s, line, load)
  PROVE  /\ OneLine(r.s.file)
         /\ s.fly /\ ~Has(line, "RELOAD") => \A o \in Opts : Matches(s, o) => Matches(r.s, o)
         /\ s.fly /\ Has(line, "RELOAD") /\ r.ok /\ ~r.done /\ SoundFile =>
              \A o \in Opts : Matches(r.s, o)
<1> DEFINE n == Len(line)
           T == [k \in 0..n |-> FollowedOf(s, line, k)]
           start == StreamStart(s, load)
<1>1. n \in Nat /\ \A k \in 1..n : IsEntry(line[k])
  BY DEF IsLine
<1>2. start \in FollowedOf(s, line, 0)
  <2>1. /\ start.ok = TRUE /\ start.s = s /\ start.order = 0 /\ start.load = load
        /\ s \in States /\ s.fly \in BOOLEAN
    BY DEF StreamStart, Good, States
  <2>2. start \in Streams(States)
    BY <2>1 DEF StreamStart, Streams
  <2> HIDE DEF start
  <2>3. Keeps(start, s)
    BY <2>1 DEF Keeps
  <2>4. WillHave(start)
    BY <2>1 DEF WillHave
  <2>5. Follows(start, s)
    BY <2>1, OrdersOfOptions DEF Follows
  <2>6. s.fly => Asked(start, line, 0)
    BY <2>1 DEF Asked, Mentioning
  <2> QED
    BY <2>2, <2>3, <2>4, <2>5, <2>6 DEF KeptStream, FollowedOf
<1>3. T \in [0..n -> SUBSET KeptStream(s)] /\ start \in T[0]
  <2> HIDE DEF start, n
  <2>1. \A k \in 0..n : FollowedOf(s, line, k) \in SUBSET KeptStream(s)
    BY DEF FollowedOf
  <2> QED
    BY <1>1, <1>2, <2>1
<1>4. \A k \in 1..n : \A x \in T[k - 1] : Step("apply", x, line[k]) \in T[k]
  <2>1. \A k \in 1..n : T[k - 1] = FollowedOf(s, line, k - 1) /\ T[k] = FollowedOf(s, line, k)
                        /\ k \in Nat \ {0}
    <3> HIDE DEF n
    <3> QED
      BY <1>1
  <2> HIDE DEF T
  <2> QED
    BY <1>1, <2>1, StepFollows
<1>5. PICK end \in T[n] : r = StreamEnd("apply", end)
  <2> HIDE DEF T
  <2> QED
    BY <1>1, <1>3, <1>4, StreamWalk
<1>6. end \in FollowedOf(s, line, n)
  <2> HIDE DEF n
  <2> QED
    BY <1>1, <1>5
<1>7. LastOrder \in Nat /\ LastOrder # 0 /\ LastOrder = 99
  BY DEF LastOrder
<1>8. /\ end.ok \in BOOLEAN /\ end.done \in BOOLEAN /\ end \in KeptStream(s) /\ Follows(end, s)
      /\ (s.fly => Asked(end, line, n))
  BY <1>6, StreamFields DEF FollowedOf, KeptStream
<1>9. Has(line, "RELOAD") <=> Mentioning(line, n)
  BY DEF Has, Mentioning, IsLine
<1> HIDE DEF T, n
<1>14. ASSUME end.ok = TRUE, r = Ordered("apply", end, LastOrder)
       PROVE  Follows(r, s) /\ Moves(r, end, LastOrder)
  <2>1. PICK next \in Nat : next = LastOrder
    BY <1>7
  <2>2. r = Ordered("apply", end, next)
    BY <1>14, <2>1
  <2>3. Follows(r, s) /\ Moves(r, end, next)
    BY <1>8, <1>14, <2>2, OrderedFollows
  <2> QED
    BY <2>1, <2>3
<1>10. Follows(r, s) /\ r.load = end.load
  <2>1. CASE end.ok = TRUE /\ r = Ordered("apply", end, LastOrder)
    BY <1>14, <2>1 DEF Moves
  <2>2. CASE r = end
    BY <1>8, <2>2
  <2> QED
    BY <1>5, <1>8, <2>1, <2>2 DEF StreamEnd
<1>11. ASSUME s.fly, ~Has(line, "RELOAD") PROVE \A o \in Opts : Matches(s, o) => Matches(r.s, o)
  <2>1. ~r.load
    BY <1>8, <1>9, <1>10, <1>11 DEF Asked
  <2> QED
    BY <1>10, <1>11, <2>1 DEF Follows
<1>12. ASSUME s.fly, Has(line, "RELOAD"), r.ok, ~r.done, SoundFile
       PROVE  \A o \in Opts : Matches(r.s, o)
  <2>1. end.ok = TRUE /\ end.done = FALSE /\ r = Ordered("apply", end, LastOrder)
    BY <1>5, <1>8, <1>12 DEF StreamEnd
  <2>2. r.load
    BY <1>8, <1>9, <1>10, <1>12, <2>1 DEF Asked
  <2>3. r.order = LastOrder
    <3>1. r.ok \in BOOLEAN
      <4>1. r = Stream("apply", s, line, load)
        OBVIOUS
      <4>2. Equipped(s) \/ load = TRUE
        OBVIOUS
      <4>3. Keeps(r, s)
        BY <4>1, <4>2, StreamKept
      <4> QED
        BY <4>3 DEF Keeps
    <3>2. Moves(r, end, LastOrder)
      BY <1>14, <2>1
    <3> QED
      BY <1>7, <1>12, <3>1, <3>2 DEF Moves
  <2>4. \A o \in Opts : OrderOf(o) <= r.order
    BY <1>7, <2>3, OrdersOfOptions
  <2> QED
    BY <1>10, <1>12, <2>2, <2>4 DEF Follows
<1>13. OneLine(r.s.file)
  BY <1>10 DEF Follows
<1> QED
  BY <1>11, <1>12, <1>13

-----------------------------------------------------------------------------
(* The file stays as the daemon wrote it or read it last.                     *)
Agrees(s) == \A o \in Opts : Matches(s, o)
SavedInv == OneLine(file) /\ (inSync => Agrees(State))

LEMMA SettleSaved ==
  ASSUME NEW s, Good(s), OneLine(s.file), NEW sync, sync /\ ~s.dead => Agrees(s), Settle(s, sync)
  PROVE  SavedInv'
<1>1. PICK t : /\ t = IF s.dead THEN [Fresh EXCEPT !.file = s.file] ELSE s
               /\ track' = t.track /\ file' = t.file
               /\ inSync' = (sync /\ ~s.dead) /\ net' = net
  BY DEF Settle
<1>2. s.dead \in BOOLEAN
  BY DEF Good, States
<1>3. file' = s.file
  <2>1. CASE s.dead = TRUE
    <3>1. t = Unstarted(s.file)
      BY <1>1, <2>1 DEF Fresh, Unstarted
    <3> QED
      BY <1>1, <3>1 DEF Unstarted
  <2>2. CASE s.dead = FALSE
    BY <1>1, <2>2
  <2> QED
    BY <1>2, <2>1, <2>2
<1>4. OneLine(file)'
  <2>1. OneLine(file')
    BY <1>3
  <2> QED
    BY <2>1 DEF OneLine
<1> DEFINE n == State'
<1>5. n.track = track' /\ n.file = file'
  BY DEF State
<1> HIDE DEF n
<1>6. ASSUME inSync' PROVE Agrees(n)
  <2>1. s.dead = FALSE /\ Agrees(s)
    BY <1>1, <1>2, <1>6
  <2>2. t = s
    BY <1>1, <2>1
  <2>3. n.track = s.track /\ n.file = s.file
    BY <1>1, <1>3, <1>5, <2>2
  <2> QED
    BY <2>1, <2>3 DEF Agrees, Matches
<1> QED
  BY <1>1, <1>4, <1>6 DEF SavedInv, Agrees, Matches, Standing, n

(* A line without options loads the whole file.                               *)
LEMMA EmptyStream ==
  ASSUME NEW s \in States
  PROVE  Stream("apply", s, <<>>, TRUE) =
           TakenAt(StreamStart(s, TRUE), LoadOrders("apply", s, 1, LastOrder), LastOrder)
<1> DEFINE line == <<>>
           start == StreamStart(s, TRUE)
           T == [k \in 0..Len(line) |-> {start}]
<1>1. Len(line) = 0
  OBVIOUS
<1>2. PICK end \in T[Len(line)] : Stream("apply", s, line, TRUE) = StreamEnd("apply", end)
  <2>1. T \in [0..Len(line) -> SUBSET {start}] /\ start \in T[0]
    BY <1>1
  <2>2. \A k \in 1..Len(line) : \A x \in T[k - 1] : Step("apply", x, line[k]) \in T[k]
    BY <1>1
  <2> HIDE DEF T, line
  <2> QED
    BY <1>1, <2>1, <2>2, StreamWalk
<1>3. end = start
  BY <1>1, <1>2
<1>4. start.ok = TRUE /\ start.done = FALSE /\ start.order = 0 /\ start.load = TRUE /\ start.s = s
      /\ start \in Streams(States)
  BY DEF StreamStart, Streams
<1>5. LastOrder \in Nat /\ LastOrder # 0 /\ LastOrder > 0
  BY DEF LastOrder
<1> HIDE DEF start
<1>6. Stream("apply", s, line, TRUE) = Ordered("apply", start, LastOrder)
  BY <1>2, <1>3, <1>4 DEF StreamEnd
<1>7. Ordered("apply", start, LastOrder) = TakenAt(start, Loaded("apply", start, LastOrder), LastOrder)
  BY <1>4, <1>5, OrderedIs
<1>8. Loaded("apply", start, LastOrder) = LoadOrders("apply", s, 1, LastOrder)
  BY <1>4 DEF Loaded
<1> QED
  BY <1>6, <1>7, <1>8 DEF start

(* A start that succeeds has applied its line to nothing.                     *)
LEMMA StartedStream ==
  ASSUME FileOK(file), NEW line, IsLine(line), NEW r, r = Started(line), r.ok = TRUE
  PROVE  r = Stream("apply", Fresh, line, TRUE)
<1>1. PICK c, l : /\ c = Stream("check", Fresh, line, FALSE)
                  /\ l = IF c.ok THEN LoadOrders("check", c.s, 2, LastOrder) ELSE c
                  /\ r = IF l.ok THEN Stream("apply", l.s, line, TRUE) ELSE l
  BY StartedIs
<1>2. Fresh = Unstarted(file)
  BY DEF Fresh, Unstarted
<1>3. Fresh \in States
  BY <1>2, UnstartedGood DEF Good
<1>4. c.ok \in BOOLEAN /\ (c.ok => c.s = Fresh)
  BY <1>1, <1>3, FALSE \in BOOLEAN, StreamChecked
<1>5. l.ok \in BOOLEAN /\ (l.ok => l.s = Fresh)
  <2>1. CASE c.ok = TRUE
    <3>1. l = LoadOrders("check", Fresh, 2, LastOrder)
      BY <1>1, <1>4, <2>1
    <3> QED
      BY <3>1, OrdersChecked, CheckedIn
  <2>2. CASE c.ok = FALSE
    <3>1. l = c
      BY <1>1, <2>2
    <3> QED
      BY <2>2, <3>1
  <2> QED
    BY <1>4, <2>1, <2>2
<1>6. l.ok = TRUE
  <2>1. CASE l.ok = FALSE
    <3>1. r = l
      BY <1>1, <2>1
    <3> QED
      BY <2>1, <3>1
  <2> QED
    BY <1>5, <2>1
<1> QED
  BY <1>1, <1>5, <1>6

LEMMA SoundIs ==
  ASSUME Sound(file, net)
  PROVE  SoundFile
BY OptsAre DEF Sound, SoundFile, SoundDevs, NoClassSaved

LEMMA FreshFields ==
  ASSUME FileOK(file)
  PROVE  /\ Good(Fresh) /\ Fresh \in States /\ Fresh.fly = FALSE /\ Fresh.file = file
         /\ Loadable(Fresh)
<1>1. Fresh = Unstarted(file)
  BY DEF Fresh, Unstarted
<1>2. Good(Fresh) /\ Fresh.fly = FALSE
  BY <1>1, UnstartedGood
<1>3. Fresh.file = file /\ Fresh.track = Nothing
  BY DEF Fresh
<1>4. Loadable(Fresh)
  BY <1>3 DEF Loadable, Ready, Nothing
<1> QED
  BY <1>2, <1>3, <1>4 DEF Good

LEMMA StartSaved ==
  ASSUME OptionsInv, ClassesExact, SavedInv, NEW line, IsLine(line), Start(line)
  PROVE  SavedInv'
<1>1. PICK r : r = Started(line) /\ r.ok /\ Settle(r.s, line = <<>> /\ Sound(file, net))
  BY DEF Start
<1>2. FileOK(file) /\ NetOK /\ OneLine(file)
  BY StateFields DEF OptionsInv, Good, SavedInv
<1>3. Good(r.s)
  <2>1. Keeps(r, Fresh)
    <3>1. r.ok = TRUE => r = Stream("apply", Fresh, line, TRUE)
      BY <1>1, <1>2, StartedStream
    <3> QED
      BY <1>1, <1>2, <3>1, FreshFields, TRUE \in BOOLEAN, StreamKept
  <2> QED
    BY <2>1 DEF Keeps
<1>4. r = Stream("apply", Fresh, line, TRUE)
  BY <1>1, <1>2, StartedStream
<1>5. OneLine(r.s.file)
  <2>1. Good(Fresh) /\ Fresh.file = file /\ (IF Fresh.fly THEN TRUE = FALSE /\ Equipped(Fresh) ELSE TRUE = TRUE)
    BY <1>2, FreshFields
  <2> QED
    BY <1>2, <1>4, <2>1, TRUE \in BOOLEAN, StreamFollows
<1>6. ASSUME line = <<>>, Sound(file, net) PROVE Agrees(r.s)
  <2>1. PICK l : l = LoadOrders("apply", Fresh, 1, LastOrder)
    OBVIOUS
  <2>2. r = TakenAt(StreamStart(Fresh, TRUE), l, LastOrder)
    BY <1>2, <1>4, <1>6, <2>1, FreshFields, EmptyStream
  <2>3. r.ok = l.ok /\ r.s = l.s
    BY <2>2 DEF TakenAt, StreamStart
  <2>4. Saves(l.s, Fresh, FALSE, OfOrders(1, LastOrder))
    BY <1>2, <2>1, FreshFields, OrdersSave
  <2>5. \A o \in OfOrders(1, LastOrder) : AsFile(l.s, o)
    BY <1>1, <1>2, <1>6, <2>1, <2>3, FreshFields, SoundIs, OrdersRead
  <2>6. Opts \subseteq OfOrders(1, LastOrder)
    BY OrdersOfOptions DEF OfOrders, LastOrder
  <2>7. l.s.file = file
    BY <1>2, <2>4, FreshFields DEF Saves
  <2> QED
    BY <2>3, <2>5, <2>6, <2>7 DEF Agrees, Matches, AsFile
<1> QED
  BY <1>1, <1>3, <1>5, <1>6, SettleSaved

(* A line of a client.                                                        *)
LEMMA HandledSaved ==
  ASSUME NEW s, Good(s), Equipped(s), s.fly = TRUE, s.file = file, FileOK(file), NetOK, OneLine(file),
         ClassesExact, NEW line, IsLine(line), NEW r, r = Handled(s, line)
  PROVE  /\ OneLine(r.s.file)
         /\ ~Has(line, "RELOAD") /\ Agrees(s) => Agrees(r.s)
         /\ Has(line, "RELOAD") /\ r.ok /\ ~r.done /\ SoundFile => Agrees(r.s)
<1>1. PICK c : /\ c = Stream("check", s, line, FALSE)
               /\ r = IF c.ok THEN Stream("apply", c.s, line, FALSE) ELSE c
  BY HandledIs
<1>2. c.ok \in BOOLEAN /\ c.s \in {s, Dead(s)} /\ (c.ok => c.s = s)
  BY <1>1, FALSE \in BOOLEAN, StreamChecked DEF Good
<1>3. r = IF c.ok THEN Stream("apply", c.s, line, FALSE) ELSE c
  BY <1>1
<1>4. CASE c.ok = TRUE
  <2>1. r = Stream("apply", s, line, FALSE)
    BY <1>2, <1>3, <1>4
  <2>2. IF s.fly THEN FALSE = FALSE /\ Equipped(s) ELSE FALSE = TRUE
    OBVIOUS
  <2>3. /\ OneLine(r.s.file)
        /\ s.fly /\ ~Has(line, "RELOAD") => \A o \in Opts : Matches(s, o) => Matches(r.s, o)
        /\ s.fly /\ Has(line, "RELOAD") /\ r.ok /\ ~r.done /\ SoundFile =>
             \A o \in Opts : Matches(r.s, o)
    BY <2>1, <2>2, FALSE \in BOOLEAN, StreamFollows
  <2> QED
    BY <2>3 DEF Agrees
<1>5. CASE c.ok = FALSE
  <2>1. r.s \in {s, Dead(s)} /\ r.ok = FALSE
    BY <1>2, <1>3, <1>5
  <2>2. r.s.file = s.file /\ r.s.track = s.track
    BY <2>1 DEF Dead, Good, States
  <2> QED
    BY <2>1, <2>2 DEF Agrees, Matches
<1> QED
  BY <1>2, <1>4, <1>5

LEMMA CommandLineSaved ==
  ASSUME OptionsInv, ClassesExact, SavedInv, NEW line, IsLine(line), CommandLine(line)
  PROVE  SavedInv'
<1>1. PICK r : r = Handled(State, line) /\ Settle(r.s,
                 IF Has(line, "RELOAD") /\ r.ok /\ ~r.done THEN Sound(file, net)
                 ELSE inSync /\ (Has(line, "RELOAD") => r.s = State))
  BY DEF CommandLine
<1>2. PICK s : s = State
  OBVIOUS
<1>3. /\ Good(s) /\ Equipped(s) /\ s.fly = TRUE /\ s.file = file /\ FileOK(file) /\ NetOK
      /\ OneLine(file) /\ (inSync => Agrees(s))
  BY <1>2, StateFields DEF OptionsInv, Good, CommandLine, SavedInv
<1>4. Good(r.s)
  BY <1>1, <1>2, <1>3, HandledKept
<1>5. /\ OneLine(r.s.file)
      /\ ~Has(line, "RELOAD") /\ Agrees(s) => Agrees(r.s)
      /\ Has(line, "RELOAD") /\ r.ok /\ ~r.done /\ SoundFile => Agrees(r.s)
  BY <1>1, <1>2, <1>3, HandledSaved
<1>6. PICK sync : /\ sync = IF Has(line, "RELOAD") /\ r.ok /\ ~r.done THEN Sound(file, net)
                            ELSE inSync /\ (Has(line, "RELOAD") => r.s = State)
                  /\ Settle(r.s, sync)
  BY <1>1
<1>7. sync => Agrees(r.s)
  BY <1>2, <1>3, <1>5, <1>6, SoundIs
<1> QED
  BY <1>4, <1>5, <1>6, <1>7, SettleSaved

(* Somebody else writes the file, in single lines.                            *)
LEMMA EditedLine ==
  ASSUME FileOK(file), OneLine(file), EditFile
  PROVE  OneLine(file')
<1>1. ASSUME NEW o \in Singles, NEW v \in ValuesOf(o),
             file' = [file EXCEPT ![o] = IF @ = {} THEN {[key |-> v, ttl |-> NoTtl]} ELSE {}]
      PROVE  OneLine(file')
  <2> DEFINE D == IF file[o] = {} THEN {[key |-> v, ttl |-> NoTtl]} ELSE {}
  <2>1. D = {} \/ D = {SectionOf(Plain(v))}
    BY PlainSection
  <2>2. file' = [file EXCEPT ![o] = D]
    BY <1>1
  <2> HIDE DEF D
  <2>3. Singles \subseteq Opts
    BY OptsAre
  <2>4. file'[o] = D /\ \A x \in Singles \ {o} : file'[x] = file[x]
    BY <2>2, <2>3 DEF FileOK
  <2> QED
    BY <2>1, <2>4 DEF OneLine
<1>2. CASE \E o \in IF scene = "classes" THEN {"PORT", "PEDANTIC", "RT"} ELSE {"PEDANTIC"} :
             file' = [file EXCEPT ![o] = IF @ = {} THEN {[key |-> 1, ttl |-> NoTtl]} ELSE {}]
  <2>1. PICK o \in {"PORT", "PEDANTIC", "RT"} :
          file' = [file EXCEPT ![o] = IF @ = {} THEN {[key |-> 1, ttl |-> NoTtl]} ELSE {}]
    BY <1>2
  <2>2. o \in Singles /\ 1 \in ValuesOf(o)
    BY OptsAre DEF ValuesOf
  <2> QED
    BY <1>1, <2>1, <2>2
<1>3. CASE \E t \in Speeds :
             file' = [file EXCEPT !["GW"] = IF @ = {} THEN {[key |-> t, ttl |-> NoTtl]} ELSE {}]
  <2>1. "GW" \in Singles /\ ValuesOf("GW") = Speeds
    BY OptsAre DEF ValuesOf
  <2> QED
    BY <1>1, <1>3, <2>1
<1>4. CASE \E key \in {Ref} \cup RefDevs, ttl \in Ttls \cup {NoTtl} :
             file' = [file EXCEPT !["DEV"] =
                       IF Sections(file, "DEV", key) # {} THEN @ \ Sections(file, "DEV", key)
                       ELSE @ \cup {[key |-> key, ttl |-> ttl]}]
  <2>1. PICK D : file' = [file EXCEPT !["DEV"] = D]
    BY <1>4
  <2>2. \A x \in Singles : file'[x] = file[x]
    BY <2>1, OptsAre DEF FileOK
  <2> QED
    BY <2>2 DEF OneLine
<1> QED
  BY <1>2, <1>3, <1>4 DEF EditFile

LEMMA SavedStep ==
  ASSUME OptionsInv, ClassesExact, SavedInv, scene \in Scenes, [Next]_vars
  PROVE  SavedInv'
<1>1. CASE \E i \in DOMAIN Startups : Start(Startups[i])
  BY <1>1, StartupLine, StartSaved
<1>2. CASE \E line \in Lines : CommandLine([i \in DOMAIN line |-> Entries[scene][line[i]]])
  <2>1. PICK line \in Lines : CommandLine([i \in DOMAIN line |-> Entries[scene][line[i]]])
    BY <1>2
  <2> QED
    BY <2>1, ClientLine, CommandLineSaved
<1>3. CASE Reload
  BY <1>3, ReloadLine, CommandLineSaved DEF Reload
<1>4. ASSUME file' = file, inSync' = FALSE PROVE SavedInv'
  <2>1. OneLine(file')
    BY <1>4 DEF SavedInv
  <2> QED
    BY <1>4, <2>1 DEF SavedInv, OneLine
<1>5. CASE Stop \/ EditNetwork
  BY <1>4, <1>5 DEF Stop, EditNetwork
<1>6. CASE EditFile
  <2>1. OneLine(file')
    BY <1>6, EditedLine, StateFields DEF OptionsInv, Good, SavedInv
  <2>2. inSync' = FALSE
    BY <1>6 DEF EditFile
  <2> QED
    BY <2>1, <2>2 DEF SavedInv, OneLine
<1>7. CASE UNCHANGED vars
  BY <1>7 DEF SavedInv, OneLine, Agrees, Matches, Standing, State, vars
<1> QED
  BY <1>1, <1>2, <1>3, <1>5, <1>6, <1>7 DEF Next

LEMMA SavedInit ==
  ASSUME Init
  PROVE  SavedInv
<1>1. \A o \in Singles : file[o] = {}
  BY OptsAre DEF Init, Nothing
<1> QED
  BY <1>1 DEF SavedInv, OneLine, Init

(* control.c and the uci plugin: unless somebody else has written the file    *)
(* since it was read, it says what is tracked, whatever lines were given and  *)
(* however they failed: for any lines, edits, and speeds that are classes     *)
(* themselves, as long as no change of the network makes the reference stand  *)
(* for the first device.                                                      *)
THEOREM FileAsTracked ==
  ASSUME ReferenceApart, ClassesExact
  PROVE  Spec => []SavedAsTracked
<1> DEFINE I == OptionsInv /\ scene \in Scenes /\ SavedInv
<1>1. Init => I
  BY InvInit, SavedInit DEF Init
<1>2. I /\ [Next]_vars => I'
  BY InvStep, SceneStays, SavedStep
<1>3. I => SavedAsTracked
  BY StateFields DEF SavedInv, Agrees, Matches, InFile, SectionOf, SavedAsTracked
<1> QED
  BY <1>1, <1>2, <1>3, PTL DEF Spec

-----------------------------------------------------------------------------
(* A file that is as tracked is loaded again.                                 *)

(* Nothing has been done, whether it was refused or not.                      *)
Still(s) == {Ok(s), Failure(s)}

LEMMA StillIs ==
  ASSUME NEW s
  PROVE  /\ Ok(s) \in Still(s) /\ Failure(s) \in Still(s)
         /\ \A x \in Still(s) : x.s = s /\ x.ok \in BOOLEAN
BY Outcomes, TRUE \in BOOLEAN, FALSE \in BOOLEAN DEF Still

(* What is said again of an option that is tracked so already.                *)
Known(s, p) ==
  /\ Tracked(s, p) = ByVal(s, p)
  /\ p.diff = "del" => p.opt \in Singles /\ ByVal(s, p) = {} /\ p.ttl = Unsaid
  /\ p.diff = "add" => \E q \in s.track[p.opt] : /\ ByVal(s, p) = {q} /\ Same(q, p)
                                                 /\ p.ttl \in {Unsaid, Reset, q.ttl}
                                                 /\ p.ttl # NoTtl /\ (p.ttl = Reset => q.ttl = NoTtl)
                                                 /\ \A x \in s.track[p.opt] : Same(x, p) => x = q
  /\ p.diff \in {"add", "del"}

LEMMA MarksApart == Reset # NoTtl /\ Unsaid # NoTtl /\ Unsaid # Reset
BY DEF Reset, Unsaid, NoTtl

LEMMA KnownCleaned ==
  ASSUME NEW s, NEW p, Known(s, p), NEW o, NEW diff, NEW v, NEW ref, NEW ttl, p = Patch(o, diff, v, ref, ttl)
  PROVE  Cleaned(s, p).diff = "nop" /\ Cleaned(s, p).ttl = Unsaid
<1> DEFINE B == ByVal(s, p)
           ttls == {q.ttl : q \in B} \ {NoTtl}
<1>1. CASE p.diff = "del"
  <2>1. p.opt \in Singles /\ B = {} /\ p.ttl = Unsaid
    BY <1>1 DEF Known
  <2>2. ttls = {}
    BY <2>1
  <2>3. Cleaned(s, p) = [p EXCEPT !.diff = "nop", !.ttl = Unsaid]
    <3> HIDE DEF B
    <3> QED
      BY <1>1, <2>1, <2>2 DEF Cleaned, B
  <2> QED
    BY <2>3 DEF Patch
<1>2. CASE p.diff = "add"
  <2>1. PICK q \in s.track[p.opt] : B = {q} /\ Same(q, p) /\ p.ttl \in {Unsaid, Reset, q.ttl}
                                    /\ p.ttl # NoTtl /\ (p.ttl = Reset => q.ttl = NoTtl)
    BY <1>2 DEF Known
  <2>2. ttls = {q.ttl} \ {NoTtl}
    BY <2>1
  <2>3. (IF (p.ttl = Reset /\ ttls = {}) \/ p.ttl \in ttls THEN Unsaid ELSE p.ttl) = Unsaid
    BY <2>1, <2>2
  <2>4. (p.diff = "del") = (B = {}) /\ \E x \in B : x.val = p.val
    BY <1>2, <2>1 DEF Same
  <2>5. Cleaned(s, p) = [p EXCEPT !.diff = "nop", !.ttl = Unsaid]
    <3> HIDE DEF B, ttls
    <3> QED
      BY <1>2, <2>3, <2>4 DEF Cleaned, B, ttls
  <2> QED
    BY <2>5 DEF Patch
<1> QED
  BY <1>1, <1>2 DEF Known

LEMMA KnownTracked ==
  ASSUME NEW cmd, NEW s, NEW p, Known(s, p)
  PROVE  Track(cmd, s, FALSE, p) = Ok(s)
<1> DEFINE B == ByVal(s, p)
<1>1. Tracked(s, p) = B
  BY DEF Known
<1>2. CASE p.diff = "del"
  <2>1. B = {}
    BY <1>2 DEF Known
  <2>2. Track(cmd, s, FALSE, p) = [ok |-> ~FALSE, s |-> s]
    <3> HIDE DEF B
    <3> QED
      BY <1>1, <1>2, <2>1 DEF Track
  <2> QED
    BY <2>2 DEF Ok
<1>3. CASE p.diff = "add"
  <2>1. PICK q \in s.track[p.opt] : B = {q} /\ Same(q, p) /\ p.ttl \in {Unsaid, Reset, q.ttl}
                                    /\ (p.ttl = Reset => q.ttl = NoTtl)
                                    /\ \A x \in s.track[p.opt] : Same(x, p) => x = q
    BY <1>3 DEF Known
  <2>2. TrackParent(s, FALSE, p) = s
    BY <1>1, <2>1 DEF TrackParent
  <2>3. TrackTtl(s, FALSE, p) = s
    <3> DEFINE z == CHOOSE x \in s.track[p.opt] : Same(x, p)
               m == IF p.ttl = Reset THEN NoTtl ELSE p.ttl
    <3>1. z = q
      BY <2>1
    <3>2. p.ttl = Unsaid \/ z.ttl = m
      BY <2>1, <3>1
    <3>3. TrackTtl(s, FALSE, p) =
            IF p.ttl = Unsaid \/ z.ttl = m THEN s
            ELSE [s EXCEPT !.track[p.opt] = (@ \ {z}) \cup {[z EXCEPT !.ttl = m]},
                           !.file = IF FALSE THEN StoreTtl(@, Key(z), m) ELSE @]
      BY DEF TrackTtl
    <3> HIDE DEF z, m
    <3> QED
      BY <3>2, <3>3
  <2>4. PICK t : t = IF cmd = "apply" THEN TrackParent(s, FALSE, p) ELSE s
    OBVIOUS
  <2>5. Track(cmd, s, FALSE, p) = Ok(IF cmd = "apply" THEN TrackTtl(t, FALSE, p) ELSE t)
    BY <1>3, <2>4 DEF Track
  <2>6. t = s
    BY <2>2, <2>4
  <2> QED
    BY <2>3, <2>5, <2>6
<1> QED
  BY <1>2, <1>3 DEF Known

LEMMA KnownCarried ==
  ASSUME NEW cmd, NEW s, NEW p, Known(s, p), ~Distinct(s, p),
         NEW o, NEW diff, NEW v, NEW ref, NEW ttl, p = Patch(o, diff, v, ref, ttl)
  PROVE  Carried(cmd, s, FALSE, p) = Ok(s)
<1>1. Rederived(cmd, s, FALSE, p) = s
  <2> DEFINE old == {q \in Tracked(s, p) : p.opt = "DEV" /\ p.diff = "add" /\ q.val # p.val
                                           /\ (p.ref # NoRef \/ q.ref # NoRef)}
  <2>1. old = {}
    BY DEF Known, Same
  <2>2. Rederived(cmd, s, FALSE, p) =
          IF cmd = "check" \/ old = {} THEN s ELSE DroppedDev(s, FALSE, CHOOSE q \in old : TRUE)
    BY DEF Rederived
  <2> HIDE DEF old
  <2> QED
    BY <2>1, <2>2
<1>2. Apply(cmd, s, FALSE, p) = Ok(s)
  BY KnownCleaned DEF Apply
<1>3. Carried(cmd, s, FALSE, p) = Tracking(cmd, Ok(s), FALSE, p)
  BY <1>1, <1>2 DEF Carried
<1>4. Tracking(cmd, Ok(s), FALSE, p) = Track(cmd, s, FALSE, p)
  BY Outcomes DEF Tracking
<1> QED
  BY <1>3, <1>4, KnownTracked

(* The daemon as it is when the file is as tracked.                           *)
Resting(s) ==
  /\ Good(s) /\ s.fly = TRUE /\ s.file = file /\ Agrees(s)
  /\ NetOK /\ OneLine(file) /\ ClassesExact

LEMMA SingleStill ==
  ASSUME NEW cmd, NEW s, Resting(s), NEW o \in Singles
  PROVE  LoadSingle(cmd, s, o) \in Still(s)
<1>7. PICK y : y = LoadSingle(cmd, s, o)
  OBVIOUS
<1>1. PICK e : e = Single(o)
  OBVIOUS
<1>2. FileOK(file) /\ OneLine(file) /\ ClassesExact
  BY DEF Resting, Good
<1>3. /\ SinglePatch(e) /\ e.opt = o /\ o \in Opts /\ (e.diff = "del" => e.val = Default[o])
      /\ IF e.diff = "del" THEN file[o] = {} ELSE file[o] = {SectionOf(Plain(e.val))}
  BY <1>1, <1>2, SingleIs
<1>4. y = Call(cmd, s, FALSE, e)
  BY <1>1, <1>7 DEF LoadSingle, Resting
<1>5. CASE Patched(s, e) = {}
  <2>1. y = Failure(s)
    BY <1>4, <1>5, CallIs
  <2>2. y \in Still(s)
    BY <2>1, StillIs
  <2> QED
    BY <1>7, <2>2
<1>6. CASE Patched(s, e) = {e}
  <2>1. y = Carried(cmd, s, FALSE, e)
    BY <1>4, <1>6, CallIs
  <2>2. /\ e = Patch(o, e.diff, e.val, NoRef, Unsaid) /\ e.diff \in {"add", "del"} /\ e.ref = NoRef
        /\ e.ttl = Unsaid
    BY <1>3, SinglePatchFields
  <2>3. ByVal(s, e) = s.track[o] /\ Tracked(s, e) = s.track[o] /\ ByRef(s, e) = {}
    BY <1>3, SingleFound
  <2>4. file[o] = InFile(s.track[o])
    BY <1>3 DEF Resting, Agrees, Matches
  <2>5. s.track[o] = {} \/ \E v \in ValuesOf(o) : s.track[o] = {Plain(v)}
    BY DEF Resting, Good, SinglesOK, SingleOK
  <2>6. e.diff = "del" => s.track[o] = {}
    BY <1>3, <2>4 DEF InFile
  <2>7. e.diff = "add" => s.track[o] = {Plain(e.val)}
    <3> SUFFICES ASSUME e.diff = "add" PROVE s.track[o] = {Plain(e.val)}
      OBVIOUS
    <3>1. InFile(s.track[o]) = {SectionOf(Plain(e.val))}
      BY <1>3, <2>4
    <3>2. s.track[o] # {}
      BY <3>1 DEF InFile
    <3>3. PICK v : s.track[o] = {Plain(v)}
      BY <2>5, <3>2
    <3>4. SectionOf(Plain(v)) = SectionOf(Plain(e.val))
      BY <3>1, <3>3, PlainSection
    <3>5. [key |-> v, ttl |-> NoTtl] = [key |-> e.val, ttl |-> NoTtl]
      BY <3>4, PlainSection
    <3>6. v = e.val
      BY <3>5
    <3> QED
      BY <3>3, <3>6
  <2>8. Plain(e.val).val = e.val /\ Plain(e.val).ref = NoRef /\ Plain(e.val).ttl = NoTtl
    BY DEF Plain
  <2>9. Known(s, e)
    <3>1. CASE e.diff = "del"
      BY <1>3, <2>2, <2>3, <2>6, <3>1 DEF Known
    <3>2. CASE e.diff = "add"
      BY <1>3, <2>2, <2>3, <2>7, <2>8, <3>2, MarksApart DEF Known, Same
    <3> QED
      BY <2>2, <3>1, <3>2
  <2>10. ~Distinct(s, e)
    BY <2>3 DEF Distinct
  <2>11. PICK diff, v, ref, ttl : e = Patch(o, diff, v, ref, ttl)
    BY <2>2
  <2>12. Carried(cmd, s, FALSE, e) = Ok(s)
    BY <2>9, <2>10, <2>11, KnownCarried
  <2>13. y = Ok(s)
    BY <2>1, <2>12
  <2>14. y \in Still(s)
    BY <2>13, StillIs
  <2> QED
    BY <1>7, <2>14
<1> QED
  BY <1>2, <1>3, <1>5, <1>6, PatchedExact

LEMMA SectionStill ==
  ASSUME NEW cmd, NEW s, Resting(s), NEW r \in file["DEV"]
  PROVE  Call(cmd, s, FALSE, Section(s, r)) \in Still(s)
<1> DEFINE D == s.track["DEV"]
           ttl == IF r.ttl # NoTtl THEN r.ttl ELSE Reset
           e == Entry(r.key, "add", ttl)
           p == Patch("DEV", "add", ValOf(r.key), RefOf(r.key), ttl)
<1>1. Section(s, r) = e
  BY DEF Section, Resting
<1>2. /\ D \subseteq Parents /\ Apart(D) /\ ByName(D) /\ Standing(D) /\ NetOK
      /\ file["DEV"] = InFile(D)
  BY GoodDevs, OptsAre DEF Resting, Agrees, Matches
<1>3. PICK q \in D : r = SectionOf(q)
  BY <1>2 DEF InFile
<1>4. r.key = Key(q) /\ r.ttl = q.ttl
  BY <1>3 DEF SectionOf
<1>5. q.val \in Devs /\ q.ref \in {NoRef, Ref} /\ q.ttl \in Marks /\ (q.ref = Ref => q.val = net)
  BY <1>2 DEF Parents, ByName, Standing
<1>6. ValOf(r.key) = q.val /\ RefOf(r.key) = q.ref /\ r.key \in Devs \cup {Ref}
  BY <1>4, <1>5 DEF Key, ValOf, RefOf, Ref, NoRef, Devs
<1>7. ttl \in Ttls \cup {Unsaid, Reset}
  BY <1>4, <1>5 DEF Marks
<1>8. ttl \in {Unsaid, Reset, q.ttl} /\ ttl # NoTtl /\ (ttl = Reset => q.ttl = NoTtl)
  BY <1>4, <1>5, MarksApart DEF Marks, Ttls, Reset, NoTtl
<1>9. /\ p.opt = "DEV" /\ p.diff = "add" /\ p.val = q.val /\ p.ref = q.ref /\ p.ttl = ttl
  BY <1>6 DEF Patch
<1>10. Patched(s, e) = {} \/ (AddPatch(p) /\ Patched(s, e) = {p})
  <2> HIDE DEF ttl
  <2> QED
    BY <1>2, <1>6, <1>7, PatchedAddIs
<1>11. p = Patch("DEV", "add", ValOf(r.key), RefOf(r.key), ttl)
  OBVIOUS
<1> HIDE DEF e, p, ttl
<1>14. PICK y : y = Call(cmd, s, FALSE, Section(s, r))
  OBVIOUS
<1>15. y = Call(cmd, s, FALSE, e)
  BY <1>1, <1>14
<1>12. CASE Patched(s, e) = {}
  <2>1. y = Failure(s)
    BY <1>12, <1>15, CallIs
  <2>2. y \in Still(s)
    BY <2>1, StillIs
  <2> QED
    BY <1>14, <2>2
<1>13. CASE AddPatch(p) /\ Patched(s, e) = {p}
  <2>1. /\ ByVal(s, p) = {x \in D : x.val = p.val}
        /\ ByRef(s, p) = {x \in D : p.ref # NoRef /\ x.ref = p.ref}
    BY <1>9, DevFound
  <2>2. ByVal(s, p) = {q}
    BY <1>2, <1>9, <2>1 DEF Apart
  <2>3. ByRef(s, p) \in {{}, {q}}
    BY <1>2, <1>9, <2>1 DEF Apart
  <2>4. Tracked(s, p) = ByVal(s, p)
    BY <2>2 DEF Tracked
  <2>5. Same(q, p) /\ \A x \in D : Same(x, p) => x = q
    BY <1>2, <1>9 DEF Same, Apart
  <2>6. Known(s, p)
    BY <1>8, <1>9, <2>2, <2>4, <2>5 DEF Known
  <2>7. ~Distinct(s, p)
    BY <2>2, <2>3 DEF Distinct
  <2>8. Carried(cmd, s, FALSE, p) = Ok(s)
    BY <1>11, <2>6, <2>7, KnownCarried
  <2>9. y = Ok(s)
    BY <1>13, <1>15, <2>8, CallIs
  <2>10. y \in Still(s)
    BY <2>9, StillIs
  <2> QED
    BY <1>14, <2>10
<1> QED
  BY <1>10, <1>12, <1>13

LEMMA SectionsStill ==
  ASSUME NEW cmd, NEW s, Resting(s)
  PROVE  LoadSections(cmd, s) \in Still(s)
<1> DEFINE C == Still(s)
           T == [k \in 0..8 |-> C]
<1>1. T \in [0..8 -> SUBSET C] /\ Ok(s) \in T[0]
  <2>1. Ok(s) \in C
    BY StillIs
  <2> HIDE DEF C
  <2> QED
    BY <2>1
<1>2. ASSUME NEW k \in 1..8, NEW x \in T[k - 1]
      PROVE  SectionStep(cmd, s, x, k) \in T[k]
  <2>1. x \in Still(s) /\ x.s = s /\ x.ok \in BOOLEAN
    BY StillIs
  <2>2. CASE x.ok /\ AllSections[k] \in file["DEV"]
    <3>1. SectionStep(cmd, s, x, k) = Call(cmd, s, FALSE, Section(s, AllSections[k]))
      BY <2>1, <2>2 DEF SectionStep
    <3>2. PICK r \in file["DEV"] : r = AllSections[k]
      BY <2>2
    <3>3. SectionStep(cmd, s, x, k) = Call(cmd, s, FALSE, Section(s, r))
      BY <3>1, <3>2
    <3>4. Call(cmd, s, FALSE, Section(s, r)) \in Still(s)
      BY SectionStill
    <3>5. SectionStep(cmd, s, x, k) \in Still(s)
      BY <3>3, <3>4
    <3> QED
      BY <3>5
  <2>3. CASE x.ok /\ AllSections[k] \notin file["DEV"]
    <3>1. SectionStep(cmd, s, x, k) = Ok(s)
      BY <2>1, <2>3 DEF SectionStep
    <3> QED
      BY <3>1, StillIs
  <2>4. CASE ~x.ok
    BY <2>1, <2>4 DEF SectionStep
  <2> QED
    BY <2>1, <2>2, <2>3, <2>4
<1>3. LoadSections(cmd, s) \in T[8]
  <2> HIDE DEF T, C
  <2> QED
    BY <1>1, <1>2, SectionsWalk
<1> QED
  BY <1>3

(* Every device has a section.                                                *)
LEMMA NoneLeft ==
  ASSUME NEW s, Resting(s)
  PROVE  Unmentioned(s) = {}
<1> DEFINE D == s.track["DEV"]
<1>1. /\ D \subseteq Parents /\ Apart(D) /\ ByName(D) /\ Standing(D)
      /\ file["DEV"] = InFile(D) /\ FileOK(file)
  BY GoodDevs, OptsAre DEF Resting, Agrees, Matches
<1>2. Clear(D, 8)
  BY <1>1 DEF Clear, Left, Apart, Standing
<1>3. ASSUME NEW q \in D PROVE \E i \in 1..8 : At(i) \in file["DEV"] /\ Accounts(At(i), q)
  <2>1. SectionOf(q) \in file["DEV"] /\ SectionOf(q).key = Key(q)
    BY <1>1 DEF InFile, SectionOf
  <2>2. SectionOf(q) \in Saved /\ SectionOf(q).key \in Devs \cup {Ref}
    BY <1>1, <2>1, OptsAre DEF FileOK, KeysOf
  <2>3. PICK i \in 1..8 : SectionOf(q) = At(i)
    BY <2>2, SectionsListed
  <2>4. At(i).key = Key(q)
    BY <2>1, <2>3
  <2>5. q.ref \in {NoRef, Ref} /\ q.val \in Devs
    BY <1>1 DEF Parents, ByName
  <2>6. Accounts(At(i), q)
    <3>1. PICK key : key = At(i).key
      OBVIOUS
    <3>2. key = Key(q)
      BY <2>4, <3>1
    <3>3. q.val = ValOf(key) \/ (key = Ref /\ q.ref = Ref)
      BY <2>5, <3>2 DEF ValOf, Key, Ref, NoRef, Devs
    <3> QED
      BY <3>1, <3>3 DEF Accounts
  <2> QED
    BY <2>1, <2>3, <2>6
<1>4. Left(D, 8) = {}
  BY <1>3 DEF Left
<1> QED
  BY <1>2, <1>4, UnmentionedIs

LEMMA NoneRemoved ==
  ASSUME NEW cmd, NEW s
  PROVE  RemoveDevs(cmd, s, {}) \in Still(s)
<1> DEFINE C == Still(s)
           T == [k \in 0..3 |-> C]
<1>1. T \in [0..3 -> SUBSET C] /\ Ok(s) \in T[0]
  <2>1. Ok(s) \in C
    BY StillIs
  <2> HIDE DEF C
  <2> QED
    BY <2>1
<1>2. ASSUME NEW k \in 1..3, NEW x \in T[k - 1]
      PROVE  RemovalStep(cmd, {}, x, k) \in T[k]
  <2>1. x \in Still(s) /\ x.s = s
    BY StillIs
  <2>2. RemovalStep(cmd, {}, x, k) \in {Ok(s), x}
    BY <2>1 DEF RemovalStep
  <2>3. RemovalStep(cmd, {}, x, k) \in Still(s)
    BY <2>1, <2>2, StillIs
  <2> QED
    BY <2>3
<1>3. RemoveDevs(cmd, s, {}) \in T[3]
  <2> HIDE DEF T, C
  <2> QED
    BY <1>1, <1>2, RemovalWalk
<1> QED
  BY <1>3

LEMMA LoadStill ==
  ASSUME NEW cmd, NEW s, Resting(s), NEW o \in Opts
  PROVE  Load(cmd, s, o) \in Still(s)
<1>1. CASE o # "DEV"
  <2>1. o \in Singles /\ Load(cmd, s, o) = LoadSingle(cmd, s, o)
    BY <1>1, OptsAre, LoadIs
  <2> QED
    BY <2>1, SingleStill
<1>2. CASE o = "DEV"
  <2>1. PICK l : l = LoadSections(cmd, s)
    OBVIOUS
  <2>2. l \in Still(s) /\ l.s = s
    BY <2>1, SectionsStill, StillIs
  <2>3. Load(cmd, s, o) = IF l.ok THEN RemoveDevs(cmd, l.s, Unmentioned(s)) ELSE l
    BY <1>2, <2>1 DEF Load
  <2>4. Load(cmd, s, o) \in {RemoveDevs(cmd, s, {}), l}
    BY <2>2, <2>3, NoneLeft
  <2> QED
    BY <2>2, <2>4, NoneRemoved
<1> QED
  BY <1>1, <1>2

LEMMA OrdersStill ==
  ASSUME NEW cmd, NEW s, Resting(s), NEW first, NEW last
  PROVE  LoadOrders(cmd, s, first, last) \in Still(s)
<1> DEFINE C == Still(s)
           T == [k \in 0..5 |-> C]
<1>1. T \in [0..5 -> SUBSET C] /\ Ok(s) \in T[0]
  <2>1. Ok(s) \in C
    BY StillIs
  <2> HIDE DEF C
  <2> QED
    BY <2>1
<1>2. ASSUME NEW k \in 1..5, NEW x \in T[k - 1]
      PROVE  OrderStep(cmd, first, last, x, k) \in T[k]
  <2>1. x \in Still(s) /\ x.s = s /\ ListOrder[k] \in Opts
    BY StillIs, ListIs
  <2>2. OrderStep(cmd, first, last, x, k) \in {Load(cmd, s, ListOrder[k]), Ok(s), x}
    BY <2>1 DEF OrderStep
  <2>3. OrderStep(cmd, first, last, x, k) \in Still(s)
    BY <2>1, <2>2, LoadStill, StillIs
  <2> QED
    BY <2>3
<1>3. LoadOrders(cmd, s, first, last) \in T[5]
  <2> HIDE DEF T, C
  <2> QED
    BY <1>1, <1>2, OrdersWalk
<1> QED
  BY <1>3

(* A line that does nothing but load the file.                                *)
StillStream(s) == {x \in Streams(States) : x.s = s}

LEMMA OrderedStill ==
  ASSUME NEW cmd, NEW s, Resting(s), NEW x \in StillStream(s), NEW next \in Nat
  PROVE  Ordered(cmd, x, next) \in StillStream(s)
<1>1. x \in Streams(States) /\ x.s = s /\ s \in States
  BY DEF StillStream, Resting, Good
<1>2. PICK l : l = Loaded(cmd, x, next)
  OBVIOUS
<1>3. l \in Still(s)
  BY <1>1, <1>2, OrdersStill, StillIs DEF Loaded
<1>4. l.ok \in BOOLEAN /\ l.s = s /\ l.s \in States
  BY <1>1, <1>3, StillIs
<1>5. PICK y : y = Ordered(cmd, x, next)
  OBVIOUS
<1>6. y = x \/ y = [x EXCEPT !.ok = FALSE] \/ y = TakenAt(x, l, next)
  BY <1>1, <1>2, <1>5, OrderedIs
<1>8. TakenAt(x, l, next) \in Streams(States) /\ TakenAt(x, l, next).s = l.s
  BY <1>1, <1>4, TakenFields
<1>9. ASSUME y = [x EXCEPT !.ok = FALSE] PROVE y \in Streams(States) /\ y.s = s
  BY <1>1, <1>9, FailedStream
<1>7. y \in Streams(States) /\ y.s = s
  BY <1>1, <1>4, <1>6, <1>8, <1>9
<1> QED
  BY <1>5, <1>7 DEF StillStream

LEMMA ReloadStepStill ==
  ASSUME NEW cmd, NEW s, Resting(s), NEW x \in StillStream(s), NEW e, e.opt = "RELOAD"
  PROVE  Step(cmd, x, e) \in StillStream(s)
<1>1. x.ok \in BOOLEAN /\ x.done \in BOOLEAN
  BY StreamFields DEF StillStream
<1>2. CASE ~x.ok \/ x.done
  BY <1>2 DEF Step
<1>3. CASE x.ok /\ ~x.done
  <2>1. PICK o : o = Ordered(cmd, x, OrderOf(e.opt))
    OBVIOUS
  <2>2. OrderOf(e.opt) = 1
    BY DEF OrderOf
  <2>3. o \in StillStream(s)
    <3>1. PICK next \in Nat : next = OrderOf(e.opt)
      BY <2>2
    <3>2. o = Ordered(cmd, x, next)
      BY <2>1, <3>1
    <3> QED
      BY <3>2, OrderedStill
  <2>4. Step(cmd, x, e) \in {o, Loading(o)}
    <3>1. o.ok \in BOOLEAN
      BY <2>3, StreamFields DEF StillStream
    <3> QED
      BY <1>3, <2>1, <3>1, StepIs
  <2>5. Loading(o) \in StillStream(s)
    BY <2>3 DEF StillStream, Streams, Loading
  <2> QED
    BY <2>3, <2>4, <2>5
<1> QED
  BY <1>1, <1>2, <1>3

LEMMA StreamStill ==
  ASSUME NEW cmd, NEW s, Resting(s), NEW e, e.opt = "RELOAD", NEW line, line = <<e>>
  PROVE  Stream(cmd, s, line, FALSE) \in StillStream(s)
<1> DEFINE C == StillStream(s)
           start == StreamStart(s, FALSE)
           T == [k \in 0..1 |-> C]
<1>1. Len(line) = 1 /\ line[1] = e
  OBVIOUS
<1>2. start \in C
  <2>1. s \in States
    BY DEF Resting, Good
  <2> QED
    BY <2>1 DEF StreamStart, Streams, StillStream
<1>3. T \in [0..Len(line) -> SUBSET C] /\ start \in T[0]
  <2> HIDE DEF C, start
  <2> QED
    BY <1>1, <1>2
<1>4. \A k \in 1..Len(line) : \A x \in T[k - 1] : Step(cmd, x, line[k]) \in T[k]
  <2> SUFFICES ASSUME NEW k \in 1..1, NEW x \in T[k - 1] PROVE Step(cmd, x, line[k]) \in T[k]
    BY <1>1
  <2>1. k = 1 /\ x \in C /\ line[k] = e
    BY <1>1
  <2>2. Step(cmd, x, e) \in C
    BY <2>1, ReloadStepStill
  <2> HIDE DEF C
  <2> QED
    BY <2>1, <2>2
<1>5. PICK end \in T[Len(line)] : Stream(cmd, s, line, FALSE) = StreamEnd(cmd, end)
  <2>1. Len(line) \in Nat
    BY <1>1
  <2> HIDE DEF T, C
  <2> QED
    BY <1>3, <1>4, <2>1, StreamWalk DEF start
<1>6. end \in StillStream(s)
  BY <1>1, <1>5
<1>7. LastOrder \in Nat
  BY DEF LastOrder
<1>8. StreamEnd(cmd, end) \in {end, Ordered(cmd, end, LastOrder)}
  BY DEF StreamEnd
<1> HIDE DEF T, C, start
<1> QED
  BY <1>5, <1>6, <1>7, <1>8, OrderedStill

LEMMA HandledStill ==
  ASSUME NEW s, Resting(s), NEW e, e.opt = "RELOAD"
  PROVE  Handled(s, <<e>>).s = s
<1>1. PICK line : line = <<e>>
  OBVIOUS
<1>2. PICK c : /\ c = Stream("check", s, line, FALSE)
               /\ Handled(s, line) = IF c.ok THEN Stream("apply", c.s, line, FALSE) ELSE c
  BY HandledIs
<1>3. c \in StillStream(s)
  BY <1>1, <1>2, StreamStill
<1>4. c.s = s
  BY <1>3 DEF StillStream
<1>5. PICK a : a = Stream("apply", s, line, FALSE)
  OBVIOUS
<1>6. a \in StillStream(s)
  BY <1>1, <1>5, StreamStill
<1>7. a.s = s
  BY <1>6 DEF StillStream
<1>8. Handled(s, line) \in {a, c}
  BY <1>2, <1>4, <1>5
<1> QED
  BY <1>1, <1>4, <1>7, <1>8

LEMMA ReloadStill ==
  ASSUME OptionsInv, ClassesExact, SavedInv, Reload, inSync
  PROVE  UNCHANGED <<up, track, use, primary, file>>
<1> DEFINE e == Patch("RELOAD", "add", 0, NoRef, Unsaid)
<1>1. PICK r : /\ up = TRUE /\ r = Handled(State, <<e>>) /\ \E sync : Settle(r.s, sync)
  BY DEF Reload, CommandLine, OptionsInv
<1>2. PICK s : s = State
  OBVIOUS
<1>3. /\ s.fly = up /\ s.track = track /\ s.use = use /\ s.primary = primary /\ s.file = file
      /\ s.dead = FALSE
  BY <1>2, StateFields
<1>4. Resting(s)
  BY <1>1, <1>2, <1>3 DEF OptionsInv, SavedInv, Resting
<1>5. e.opt = "RELOAD"
  BY DEF Patch
<1> HIDE DEF e
<1>6. r.s = s
  BY <1>1, <1>2, <1>4, <1>5, HandledStill
<1>7. PICK t : /\ t = IF s.dead THEN [Fresh EXCEPT !.file = s.file] ELSE s
               /\ up' = ~s.dead
               /\ track' = t.track /\ use' = t.use /\ primary' = t.primary /\ file' = t.file
  BY <1>1, <1>6 DEF Settle
<1>8. t = s
  BY <1>3, <1>7
<1> QED
  BY <1>1, <1>3, <1>7, <1>8

(* control.c, signal_hup_handler() and bmx_load_config(): reloading a file    *)
(* nobody has touched takes no interface and no tunnel down, whatever it says *)
(* and however it came about; with the same hypotheses.                       *)
THEOREM ReloadIsIdle ==
  ASSUME ReferenceApart, ClassesExact
  PROVE  Spec => ReloadChangesNothing
<1> DEFINE I == OptionsInv /\ scene \in Scenes /\ SavedInv
<1>1. Init => I
  BY InvInit, SavedInit DEF Init
<1>2. I /\ [Next]_vars => I'
  BY InvStep, SceneStays, SavedStep
<1>3. I /\ [Next]_vars => [Reload /\ inSync => UNCHANGED <<up, track, use, primary, file>>]_vars
  BY ReloadStill
<1> QED
  BY <1>1, <1>2, <1>3, PTL DEF Spec, ReloadChangesNothing
==============================================================================
