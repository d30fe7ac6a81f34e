------------------------------- MODULE Options -------------------------------
(* The configuration of bmxd: command lines, sent by a client or given at     *)
(* startup, go through control.c, which sets the option, remembers ("tracks") *)
(* what was set and saves it; the uci plugin keeps the configuration file.    *)
(* A line is first checked as a whole, then applied option by option; nothing *)
(* is undone when one of them fails.                                          *)
(*                                                                            *)
(* Five options stand for the kinds the code tells apart: RT and GW exclude   *)
(* each other, PEDANTIC changes how lines are judged, PORT can only be set at *)
(* startup, and DEV may be given many times, has a child option, and its      *)
(* value may be a reference into another file ("ref:...").  TEST and RELOAD   *)
(* have no value.                                                             *)
EXTENDS GatewayClass, SequencesExt

CONSTANTS
  Scenes,          \* what one behaviour is about
  Entries,         \* [Scenes -> sequence]: what a line may contain
  MaxLine,         \* entries of a line
  Startups,        \* a sequence: the lines the daemon may be started with
  Speeds,          \* the values of GW, and what they are adjusted to
  RefDevs,         \* devices the reference may stand for
  MaxEdits         \* foreign edits between two reloads

NoRef == "none"
Ref == "ref:lan"
Unresolved == "none"
NoDev == "none"
NoTtl == "default"                            \* not configured (-1 in the code)
Unsaid == "unsaid"                            \* the line does not mention it
Reset == "reset"                              \* the line says "-"
Devs == {"a", "b", "c"}
Ttls == {"short"}

ListOrder == <<"PORT", "PEDANTIC", "DEV", "RT", "GW">>
Opts == Range(ListOrder)
Singles == Opts \ {"DEV"}
OrderOf(o) == CASE o = "TEST" -> 0 [] o = "RELOAD" -> 1 [] o = "PORT" -> 4 [] OTHER -> 5
LastOrder == 99

Default == [PORT |-> 0, PEDANTIC |-> 0, RT |-> 0, GW |-> NoSpeed, DEV |-> {}]

(* An entry or patch: diff is "add", "del" or "nop"; ttl is for DEV only.     *)
Patch(o, diff, val, ref, ttl) ==
  [opt |-> o, diff |-> diff, val |-> val, ref |-> ref, ttl |-> ttl]

Entry(key, diff, ttl) ==
  IF key = Ref THEN Patch("DEV", diff, Unresolved, Ref, ttl)
  ELSE Patch("DEV", diff, key, NoRef, ttl)

(* What a line may contain: references and child options are for DEV, and     *)
(* what is removed has none.                                                  *)
ValuesOf(o) == IF o = "GW" THEN Speeds ELSE Nat
IsEntry(e) ==
  \/ e.opt \in {"TEST", "RELOAD"}
  \/ /\ e.opt \in Singles /\ e.diff \in {"add", "del"} /\ e.val \in ValuesOf(e.opt)
     /\ e = Patch(e.opt, e.diff, e.val, NoRef, Unsaid)
  \/ \E key \in Devs \cup {Ref} :
       \/ e = Entry(key, "del", Unsaid)
       \/ \E ttl \in Ttls \cup {Unsaid, Reset} : e = Entry(key, "add", ttl)

ASSUME EntriesAssumption ==
  /\ \A s \in Scenes : \A i \in DOMAIN Entries[s] : IsEntry(Entries[s][i])
  /\ \A i \in DOMAIN Startups : \A j \in DOMAIN Startups[i] : IsEntry(Startups[i][j])
ASSUME StartupsAssumption ==
  \A i \in DOMAIN Startups : Startups[i] \in Seq(Range(Startups[i]))
ASSUME SpeedsAssumption == NoSpeed \in Speeds /\ \A v \in Speeds : Adjusted(v) \in Speeds
ASSUME RefDevsAssumption == RefDevs \subseteq Devs

(* Class() and Adjusted(), for the values in use.                             *)
ClassOf == [v \in Speeds |-> Class(v)]
AdjustedOf == [v \in Speeds |-> Adjusted(v)]

VARIABLES
  scene,
  up,         \* the daemon runs (on_the_fly)
  aborted,    \* a paranoia() check has ended it
  track,      \* [Opts -> SUBSET [val, ref, ttl]]: parents_instance_list
  use,        \* what is in force: *ival, Gateway_class, if_list (set of [dev, ttl])
  primary,    \* primary_if
  file,       \* [Opts -> SUBSET [key, ttl]]: the configuration file
  net,        \* the device the reference stands for in the network configuration
  edits,      \* foreign edits of the file or of net since the last reload
  inSync      \* no foreign edit since a start without options or a reload

vars == <<scene, up, aborted, track, use, primary, file, net, edits, inSync>>
----------------------------------------------------------------------------
(* The daemon's part of the state, as the option handlers pass it on; dead:   *)
(* a paranoia() check has failed.                                             *)
State == [fly |-> up, track |-> track, use |-> use, primary |-> primary,
          file |-> file, dead |-> FALSE]
Nothing == [o \in Opts |-> {}]
Fresh == [fly |-> FALSE, track |-> Nothing, use |-> Default,
          primary |-> NoDev, file |-> file, dead |-> FALSE]
Ok(s) == [ok |-> TRUE, s |-> s]
Failure(s) == [ok |-> FALSE, s |-> s]

ByVal(s, p) ==
  {q \in s.track[p.opt] : q.val = p.val \/ p.opt \in Singles}
ByRef(s, p) == {q \in s.track[p.opt] : p.ref # NoRef /\ q.ref = p.ref}
Tracked(s, p) == IF ByVal(s, p) # {} THEN ByVal(s, p) ELSE ByRef(s, p)
Same(q, p) == q.val = p.val /\ q.ref = p.ref
Key(q) == IF q.ref # NoRef THEN q.ref ELSE q.val

(* bmx_save_config(): a single option is a line of the general section, a     *)
(* device a section of its own, found by the value it was saved with.         *)
Sections(f, o, key) == {r \in f[o] : o \in Singles \/ r.key = key}
Erase(f, o, key) == [f EXCEPT ![o] = @ \ Sections(f, o, key)]
Store(f, o, old, key) ==
  [f EXCEPT ![o] =
    (@ \ Sections(f, o, old)) \cup
    {[key |-> key, ttl |-> IF o = "DEV" /\ Sections(f, o, old) # {}
                           THEN (CHOOSE r \in Sections(f, o, old) : TRUE).ttl
                           ELSE NoTtl]}]
StoreTtl(f, key, ttl) ==
  [f EXCEPT !["DEV"] = (@ \ Sections(f, "DEV", key)) \cup {[key |-> key, ttl |-> ttl]}]
----------------------------------------------------------------------------
(* call_opt_patch() and OPT_ADJUST: the patches an entry stands for; none if  *)
(* the reference cannot be derived or the value is out of its range.          *)
Patched(s, e) ==
  CASE e.opt = "DEV" /\ e.ref # NoRef /\ e.diff = "add" ->
         {[e EXCEPT !.val = net] : x \in {n \in {net} : n # Unresolved}}
    [] e.opt = "DEV" /\ e.ref # NoRef /\ e.diff = "del" ->
         {[e EXCEPT !.val = q.val] : q \in ByRef(s, e)}
    [] e.opt = "RT" -> {x \in {e} : e.diff = "del" \/ e.val \in 0..3}
    [] e.opt = "GW" -> {[e EXCEPT !.val = IF e.diff = "add" THEN AdjustedOf[@] ELSE NoSpeed]}
    [] OTHER -> {e}

(* cleanup_patch(): what is tracked already is taken out of the patch.        *)
Cleaned(s, p) ==
  LET old == ByVal(s, p)
      ttls == {q.ttl : q \in old} \ {NoTtl}
  IN  [p EXCEPT !.diff = IF (p.diff = "del") = (old = {}) /\
                             (p.opt \in Singles => p.diff = "del" \/ \E q \in old : q.val = p.val)
                         THEN "nop" ELSE @,
                !.ttl = IF (p.ttl = Reset /\ ttls = {}) \/ p.ttl \in ttls THEN Unsaid ELSE @]

(* opt_dev() for OPT_CHECK and OPT_APPLY; an option of type A_INI.            *)
Refused(s, p) ==
  \/ p.opt = "DEV" /\ p.diff = "del"
     /\ (p.val = s.primary \/ ~ \E d \in s.use.DEV : d.dev = p.val)
  \/ p.opt = "PORT" /\ s.fly

(* Mutant: the class that was reset stays in the file.                        *)
DroppedUnsaved(s, save, o) ==
  IF s.track[o] = {} THEN s
  ELSE [s EXCEPT !.use[o] = Default[o], !.track[o] = {}]

(* check_apply_parent_option(DEL, OPT_APPLY, ...) of the other class.         *)
Dropped(s, save, o) ==
  IF s.track[o] = {} THEN s
  ELSE [s EXCEPT !.use[o] = Default[o], !.track[o] = {},
                 !.file = IF save THEN Erase(@, o, o) ELSE @]

(* The same for a device, whose custom function may refuse.                   *)
DroppedDev(s, save, q) ==
  IF Refused(s, Patch("DEV", "del", q.val, NoRef, Unsaid)) THEN s
  ELSE [s EXCEPT !.use["DEV"] = {d \in @ : d.dev # q.val},
                 !.track["DEV"] = @ \ {q},
                 !.file = IF save THEN Erase(@, "DEV", Key(q)) ELSE @]

(* opt_dev(OPT_APPLY): the first device becomes the primary one.              *)
SetDev(s, p) ==
  LET old == {d \in s.use.DEV : d.dev = p.val}
      ttl == CASE p.ttl \in Ttls -> p.ttl
               [] p.ttl = Unsaid /\ old # {} -> (CHOOSE d \in old : TRUE).ttl
               [] OTHER -> NoTtl
  IN  IF p.diff = "del" THEN [s EXCEPT !.use["DEV"] = @ \ old]
      ELSE [s EXCEPT !.use["DEV"] = (@ \ old) \cup {[dev |-> p.val, ttl |-> ttl]},
                     !.primary = IF s.use.DEV = {} THEN p.val ELSE @]

(* *ival and the custom functions; opt_rt_class() and opt_gw_class() reset    *)
(* each other.                                                                *)
Installed(s, save, p) ==
  LET v == IF p.diff = "del" THEN Default[p.opt]
           ELSE IF p.opt = "GW" THEN ClassOf[p.val] ELSE p.val
      t == [s EXCEPT !.use[p.opt] = v]
  IN  CASE p.opt = "DEV" -> SetDev(s, p)
        [] p.opt = "RT" /\ v # 0 -> Dropped(t, save, "GW")
        [] p.opt = "GW" /\ v # NoSpeed -> Dropped(t, save, "RT")
        [] OTHER -> t

(* call_opt_apply(): CHECK changes nothing.                                   *)
Apply(cmd, s, save, p) ==
  LET Judged(c) ==
        IF c.diff = "nop" /\ c.ttl = Unsaid THEN Ok(s)
        ELSE IF Refused(s, c) THEN Failure(s)
        ELSE Ok(IF cmd = "apply" THEN Installed(s, save, c) ELSE s)
  IN  Judged(Cleaned(s, p))

(* track_opt_parent(), for the parent ...                                     *)
TrackParent(s, save, p) ==
  LET old == Tracked(s, p)
      new == [val |-> p.val, ref |-> p.ref,
              ttl |-> IF old = {} THEN NoTtl ELSE (CHOOSE q \in old : TRUE).ttl]
      was == IF old = {} THEN Key(new) ELSE Key(CHOOSE q \in old : TRUE)
  IN  IF \E q \in old : Same(q, p) THEN s
      ELSE [s EXCEPT !.track[p.opt] = (@ \ old) \cup {new},
                     !.file = IF save THEN Store(@, p.opt, was, Key(new)) ELSE @]

(* ... and for the child option.                                              *)
TrackTtl(s, save, p) ==
  LET q == CHOOSE x \in s.track[p.opt] : Same(x, p)
      ttl == IF p.ttl = Reset THEN NoTtl ELSE p.ttl
  IN  IF p.ttl = Unsaid \/ q.ttl = ttl THEN s
      ELSE [s EXCEPT !.track[p.opt] = (@ \ {q}) \cup {[q EXCEPT !.ttl = ttl]},
                     !.file = IF save THEN StoreTtl(@, Key(q), ttl) ELSE @]

Track(cmd, s, save, p) ==
  LET old == Tracked(s, p)
      unknown == p.ttl = Reset /\ (\A q \in old : q.ttl = NoTtl)
      unchanged == (\E q \in old : Same(q, p))
                   /\ (p.ttl = Unsaid \/ unknown \/ \E q \in old : q.ttl = p.ttl)
      t == IF cmd = "apply" THEN TrackParent(s, save, p) ELSE s
  IN  CASE p.diff = "del" /\ old = {} -> [ok |-> ~save, s |-> s]
        [] p.diff = "del" /\ old # {} ->
             Ok(IF cmd = "check" THEN s
                ELSE [s EXCEPT !.track[p.opt] = @ \ old,
                               !.file = IF save THEN Erase(@, p.opt, Key(CHOOSE q \in old : TRUE))
                                        ELSE @])
        [] p.diff = "add" /\ unknown /\ save /\ (cmd = "apply" \/ old # {}) -> Failure(t)
        [] p.diff = "add" /\ unchanged /\ s.fly /\ save /\ s.use.PEDANTIC = 1 -> Failure(t)
        [] OTHER -> Ok(IF cmd = "apply" THEN TrackTtl(t, save, p) ELSE t)

(* Mutant: a device the reference no longer stands for is not removed.        *)
RederivedKept(cmd, s, save, p) == s

(* The value of a reference has changed: the device it stood for is removed   *)
(* first; whether that works is not looked at.                                *)
Rederived(cmd, s, save, p) ==
  LET old == {q \in Tracked(s, p) : p.opt = "DEV" /\ p.diff = "add" /\ q.val # p.val
                                    /\ (p.ref # NoRef \/ q.ref # NoRef)}
  IN  IF cmd = "check" \/ old = {} THEN s ELSE DroppedDev(s, save, CHOOSE q \in old : TRUE)

(* paranoia(-500129): the reference and the value of a patch are not tracked  *)
(* as two different devices.                                                  *)
Distinct(s, p) ==
  p.opt = "DEV" /\ ByRef(s, p) # {} /\ ByVal(s, p) # {} /\ ByRef(s, p) # ByVal(s, p)

(* call_option(OPT_PATCH), (OPT_ADJUST) and then cmd.                         *)
Call(cmd, s, save, e) ==
  LET Tracking(a, p) == IF ~a.ok THEN a ELSE Track(cmd, a.s, save, p)
      With(p) == IF Distinct(s, p) THEN Failure([s EXCEPT !.dead = TRUE])
                 ELSE Tracking(Apply(cmd, Rederived(cmd, s, save, p), save, p), p)
  IN  IF Patched(s, e) = {} THEN Failure(s) ELSE With(CHOOSE x \in Patched(s, e) : TRUE)
----------------------------------------------------------------------------
(* An operation that may fail, for one element after the other.               *)
EachOf(Op(_, _), s, seq) ==
  LET r[i \in 0..Len(seq)] ==
        IF i = 0 THEN Ok(s)
        ELSE LET last == r[i - 1] IN IF last.ok THEN Op(last.s, seq[i]) ELSE last
  IN  r[Len(seq)]

(* The file's sections in the order they are read.                            *)
AllSections == [i \in 1..8 |-> [key |-> <<"a", Ref, "b", "c">>[(i + 1) \div 2],
                                ttl |-> IF i % 2 = 0 THEN "short" ELSE NoTtl]]

(* bmx_load_config(): a single option that is not in the file is reset; so    *)
(* are the devices no section has mentioned.  At startup nothing is reset.    *)
Single(o) ==
  IF file[o] # {} THEN Patch(o, "add", (CHOOSE r \in file[o] : TRUE).key, NoRef, Unsaid)
  ELSE Patch(o, "del", Default[o], NoRef, Unsaid)

LoadSingle(cmd, s, o) ==
  IF file[o] # {} \/ s.fly THEN Call(cmd, s, FALSE, Single(o)) ELSE Ok(s)

Section(s, r) ==
  Entry(r.key, "add", IF r.ttl # NoTtl THEN r.ttl ELSE IF s.fly THEN Reset ELSE Unsaid)

LoadSections(cmd, s) ==
  EachOf(LAMBDA t, r : IF r \in file.DEV THEN Call(cmd, t, FALSE, Section(s, r)) ELSE Ok(t),
         s, AllSections)

(* Mutant: only values are compared.                                          *)
MentionedByVal(cached, key) == {q \in cached : q.val = key}

(* The cached parent a section accounts for: by its reference, else by value. *)
Mentioned(cached, key) ==
  LET byRef == {q \in cached : key = Ref /\ q.ref = Ref}
      byVal == {q \in cached : q.val = IF key = Ref THEN net ELSE key}
  IN  IF byRef # {} THEN byRef ELSE byVal

Unmentioned(s) ==
  EachOf(LAMBDA c, r : Ok(IF r \in file.DEV THEN c \ Mentioned(c, r.key) ELSE c),
         s.track.DEV, AllSections).s

RemoveDevs(cmd, s, gone) ==
  EachOf(LAMBDA t, d : IF \E q \in gone : q.val = d
                       THEN Call(cmd, t, FALSE, Entry(d, "del", Unsaid)) ELSE Ok(t),
         s, <<"a", "b", "c">>)

Load(cmd, s, o) ==
  LET Completed(l) == IF l.ok THEN RemoveDevs(cmd, l.s, Unmentioned(s)) ELSE l
  IN  IF o = "DEV" THEN Completed(LoadSections(cmd, s)) ELSE LoadSingle(cmd, s, o)

LoadOrders(cmd, s, first, last) ==
  EachOf(LAMBDA t, o : IF OrderOf(o) \in first..last THEN Load(cmd, t, o) ELSE Ok(t),
         s, ListOrder)

(* apply_stream_opts() and respect_opt_order(): r is [ok, s, order, load,     *)
(* done]; options come in the order of their classes, and the file's options  *)
(* of a class are loaded before the line's.                                   *)
Ordered(cmd, r, next) ==
  LET Loaded(l) == [r EXCEPT !.ok = l.ok, !.s = l.s, !.order = next]
  IN  CASE next \in {0, r.order} -> r
        [] next # 0 /\ r.order > next -> [r EXCEPT !.ok = FALSE]
        [] OTHER -> Loaded(IF r.load THEN LoadOrders(cmd, r.s, r.order + 1, next) ELSE Ok(r.s))

Step(cmd, r, e) ==
  LET Called(o, c) == [o EXCEPT !.ok = c.ok, !.s = c.s]
      InOrder(o) ==
        CASE e.opt = "TEST" -> [o EXCEPT !.done = cmd = "apply"]
          [] e.opt = "RELOAD" -> [o EXCEPT !.load = TRUE]
          [] OTHER -> Called(o, Call(cmd, o.s, r.s.fly, e))
      Then(o) == IF o.ok THEN InOrder(o) ELSE o
  IN  IF ~r.ok \/ r.done THEN r ELSE Then(Ordered(cmd, r, OrderOf(e.opt)))

Stream(cmd, s, line, load) ==
  LET r[i \in 0..Len(line)] ==
        IF i = 0 THEN [ok |-> TRUE, s |-> s, order |-> 0, load |-> load, done |-> FALSE]
        ELSE Step(cmd, r[i - 1], line[i])
      End(end) == IF ~end.ok \/ end.done THEN end ELSE Ordered(cmd, end, LastOrder)
  IN  End(r[Len(line)])

(* handle_ctrl_node(): the check must succeed before anything is applied.     *)
Handled(s, line) ==
  EachOf(LAMBDA t, cmd : Stream(cmd, t, line, FALSE), s, <<"check", "apply">>)

(* apply_init_args(): the file is read from order 2 on, when opt_conf_file()  *)
(* has set the callbacks, and checked first.                                  *)
Started(line) ==
  EachOf(LAMBDA s, phase : IF phase = "file" THEN LoadOrders("check", s, 2, LastOrder)
                           ELSE Stream(phase, s, line, phase = "apply"),
         Fresh, <<"check", "file", "apply">>)

Lines == UNION {[1..n -> DOMAIN Entries[scene]] : n \in 1..MaxLine}
Has(line, o) == \E i \in DOMAIN line : line[i].opt = o

(* The file says one thing: not both classes, and one section for a device.   *)
Sound(f, n) ==
  /\ f.RT = {} \/ \A r \in f.GW : r.key = NoSpeed
  /\ \A q, r \in f.DEV : q.key = r.key => q = r
  /\ \A r \in f.DEV : r.key = Ref => n # Unresolved /\ ~ \E q \in f.DEV : q.key = n
----------------------------------------------------------------------------
(* What the options leave behind; a paranoia() that fails ends the program.   *)
Settle(s, sync) ==
  \E t \in {IF s.dead THEN [Fresh EXCEPT !.file = s.file] ELSE s} :
    /\ up' = ~s.dead /\ aborted' = s.dead
    /\ track' = t.track /\ use' = t.use /\ primary' = t.primary /\ file' = t.file
    /\ inSync' = (sync /\ ~s.dead)
    /\ UNCHANGED <<scene, net>>

Init ==
  /\ scene \in Scenes
  /\ up = FALSE /\ aborted = FALSE
  /\ track = Nothing /\ use = Default /\ primary = NoDev
  /\ file = [Nothing EXCEPT !["DEV"] = {[key |-> "a", ttl |-> NoTtl]}]
  /\ net = "b"
  /\ edits = 0 /\ inSync = FALSE

(* A failed start, or one without a device, ends the program.                 *)
Start(line) ==
  /\ ~up
  /\ \E r \in {Started(line)} :
       /\ r.ok /\ r.s.use.DEV # {}
       /\ Settle(r.s, line = <<>> /\ Sound(file, net))
  /\ UNCHANGED edits

CommandLine(line) ==
  /\ up
  /\ \E r \in {Handled(State, line)} :
       LET loaded == Has(line, "RELOAD") /\ r.ok /\ ~r.done
       IN  /\ Settle(r.s, IF loaded THEN Sound(file, net)
                          ELSE inSync /\ (Has(line, "RELOAD") => r.s = State))
           /\ edits' = IF loaded THEN 0 ELSE edits

(* signal_hup_handler()                                                       *)
Reload == CommandLine(<<Patch("RELOAD", "add", 0, NoRef, Unsaid)>>)

Stop ==
  /\ up
  /\ up' = FALSE
  /\ track' = Nothing /\ use' = Default /\ primary' = NoDev
  /\ inSync' = FALSE
  /\ UNCHANGED <<scene, aborted, file, net, edits>>

(* Somebody else writes the file or the network configuration.                *)
EditFile ==
  /\ edits < MaxEdits
  /\ \/ \E o \in IF scene = "classes" THEN {"PORT", "PEDANTIC", "RT"} ELSE {"PEDANTIC"} :
          file' = [file EXCEPT ![o] = IF @ = {} THEN {[key |-> 1, ttl |-> NoTtl]} ELSE {}]
     \/ \E t \in Speeds :
          /\ scene = "classes"
          /\ file' = [file EXCEPT !["GW"] = IF @ = {} THEN {[key |-> t, ttl |-> NoTtl]} ELSE {}]
     \/ \E key \in {Ref} \cup RefDevs, ttl \in Ttls \cup {NoTtl} :
          /\ scene = "devices"
          /\ file' = [file EXCEPT !["DEV"] =
                    IF Sections(file, "DEV", key) # {} THEN @ \ Sections(file, "DEV", key)
                    ELSE @ \cup {[key |-> key, ttl |-> ttl]}]
  /\ edits' = edits + 1 /\ inSync' = FALSE
  /\ UNCHANGED <<scene, up, aborted, track, use, primary, net>>

EditNetwork ==
  /\ edits < MaxEdits
  /\ net' \in (RefDevs \cup {Unresolved}) \ {net}
  /\ edits' = edits + 1 /\ inSync' = FALSE
  /\ UNCHANGED <<scene, up, aborted, track, use, primary, file>>

Next ==
  \/ \E i \in DOMAIN Startups : Start(Startups[i])
  \/ \E line \in Lines : CommandLine([i \in DOMAIN line |-> Entries[scene][line[i]]])
  \/ Reload
  \/ Stop
  \/ EditFile
  \/ EditNetwork

Spec == Init /\ [][Next]_vars
----------------------------------------------------------------------------
(* Unless somebody else has written the file since it was last read, it       *)
(* contains exactly what is tracked: also after lines that failed half way,   *)
(* that reset the other class, renamed a section or followed a reference.     *)
SavedAsTracked ==
  inSync => \A o \in Opts : file[o] = {[key |-> Key(q), ttl |-> q.ttl] : q \in track[o]}

(* A node never offers its uplink and looks for one at the same time.         *)
NeverBothClasses == use.RT = 0 \/ use.GW = NoSpeed

(* What is in force is what is tracked, after every line, whole or failed,    *)
(* and never both classes.                                                    *)
EffectAsTracked ==
  /\ \A o \in Singles :
       use[o] = IF track[o] = {} THEN Default[o]
                ELSE LET v == (CHOOSE q \in track[o] : TRUE).val
                     IN  IF o = "GW" THEN ClassOf[v] ELSE v
  /\ use.DEV = {[dev |-> q.val, ttl |-> q.ttl] : q \in track.DEV}
  /\ NeverBothClasses

(* Reloading a file nobody has touched changes nothing: no interface and no   *)
(* tunnel is taken down and set up again.                                     *)
ReloadChangesNothing ==
  [][Reload /\ inSync => UNCHANGED <<up, track, use, primary, file>>]_vars

(* paranoia(-500129, p_reftr && p_track && p_reftr != p_track) never fires.   *)
NeverAborts == ~aborted

(* The file written by the daemon brings back the class it announces: the     *)
(* running one and the one after a restart are the same.                      *)
ClassSurvives ==
  up /\ inSync /\ file.GW # {} =>
    use.GW = ClassOf[AdjustedOf[(CHOOSE r \in file.GW : TRUE).key]]
=============================================================================
