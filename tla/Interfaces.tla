----------------------------- MODULE Interfaces -----------------------------
(* The interfaces of bmxd: what is configured for them (opt_dev,             *)
(* opt_if_soft), what the kernel says of them (if_validate), what is in      *)
(* force (if_activate, if_reconfigure_soft, check_interfaces), and the       *)
(* system settings they need while they are active (check_proc_sys,          *)
(* check_kernel_config, restore_kernel_config).                              *)
(*                                                                           *)
(* The kernel changes at any time; the daemon sees it at its next check.     *)
(* One file of /proc/sys stands for rp_filter and send_redirects of a        *)
(* physical device, which its aliases share, and one for the global files.   *)
EXTENDS Integers, SequencesExt

CONSTANTS
  Devs,       \* names of interfaces
  Primary,    \* the first one configured
  Phy,        \* [Devs -> dev_phy]
  Radio,      \* the physical devices the kernel calls wireless
  Kernels,    \* what an interface can be in the kernel: sets of [up, addr, mtu]
  MaxMtu,     \* MAX_MTU
  Ttls,       \* values of the ttl options
  Originals,  \* what may be in a file of /proc/sys
  MaxBroken,  \* interfaces whose sockets fail in a check
  MaxChanges  \* changes by the kernel's and the daemon's administrators

ASSUME InterfacesAssumption ==
  /\ IsFiniteSet(Devs) /\ Primary \in Devs /\ Phy \in [Devs -> STRING] /\ Radio \subseteq Range(Phy)
  /\ MaxMtu \in Nat /\ Kernels \subseteq [up : BOOLEAN, addr : STRING, mtu : 1..MaxMtu]
  /\ IsFiniteSet(Ttls) /\ Ttls # {} /\ Ttls \subseteq Nat /\ Originals \subseteq Nat

Unset == -1
All == "all"
NoAddr == "0.0.0.0"     \* an address, netmask or broadcast that is none
LanClones == 1
WlanClones == 2
Files == Range(Phy) \cup {All}
File(key) == IF key = All THEN All ELSE Phy[key]
Kinds == {"lan", "wlan"}

VARIABLES
  kernel,     \* [Devs -> what SIOCGIF* say]
  ifs,        \* if_list: [configured interfaces -> struct batman_if]
  soft,       \* if_conf_soft_changed
  Ttl,        \* option ttl
  mtuMin,     \* Mtu_min
  primaryAddr, \* primary_addr
  announced,  \* the Mtu_min the plugins were called with last
  line,       \* options were applied whose OPT_POST is still to come
  phase,      \* "starting" until on_the_fly, "running", "ended"
  failed,     \* interfaces whose sockets failed in the last check
  sys,        \* [Files -> value]
  original,   \* what sys was before bmxd
  backup,     \* if_rp_filter_all_orig
  touched,    \* touched_systen_config
  pedantic,   \* Pedantic_cleanup
  checked,    \* nothing was changed since the last check
  changes     \* changes so far

kernelSide == <<kernel, original, changes>>
config == <<soft, Ttl, pedantic>>
proc == <<sys, backup, touched>>
ours == <<ifs, mtuMin, primaryAddr, announced>>
vars == <<kernelSide, config, proc, ours, line, phase, failed, checked>>

TypeOK ==
  /\ kernel \in [Devs -> Kernels]
  /\ Primary \in DOMAIN ifs /\ DOMAIN ifs \subseteq Devs
  /\ mtuMin \in 1..MaxMtu
  /\ sys \in [Files -> Originals \cup {0, 1}]
  /\ backup \in [Devs \cup {All} -> Originals \cup {Unset, 0, 1}]
  /\ phase \in {"starting", "running", "ended"}
----------------------------------------------------------------------------
(* A new struct batman_if: zeroed, the backup of its settings included, and   *)
(* its options unspecified.                                                   *)
NewIf ==
  [active |-> FALSE, addr |-> NoAddr, mtu |-> 0, ttl |-> 0, clones |-> 0, ll |-> "lo",
   ttlConf |-> Unset, llConf |-> "unset", soft |-> FALSE, hard |-> FALSE]

(* What the functions below read and write.                                   *)
World == [ifs |-> ifs, mtuMin |-> mtuMin, primaryAddr |-> primaryAddr,
          announced |-> announced, told |-> FALSE, sys |-> sys, backup |-> backup, touched |-> touched]

(* check_proc_sys() with a backup: the value found is saved, and replaced     *)
(* when it is not the desired one, which is zero.                             *)
CheckKernelConfig(w, key) ==
  [w EXCEPT !.backup[key] = w.sys[File(key)], !.sys[File(key)] = 0,
            !.touched = @ \/ w.sys[File(key)] # 0]

(* restore_kernel_config(); what is written is 0 or 1.                        *)
Restore(w, key) ==
  IF ~w.touched \/ w.backup[key] = Unset THEN w
  ELSE [w EXCEPT !.backup[key] = Unset,
                 !.sys[File(key)] = IF ~pedantic \/ @ = w.backup[key] THEN @
                                    ELSE IF w.backup[key] = 0 THEN 0 ELSE 1]

(* if_reconfigure_soft(), of an inactive interface as well.                   *)
Softened(i, d) ==
  [i EXCEPT !.soft = FALSE,
            !.ttl = IF i.ttlConf # Unset THEN i.ttlConf ELSE IF d = Primary THEN Ttl ELSE 1,
            !.clones = CASE ~i.active \/ i.ll = "lo" -> @
                         [] i.active /\ i.ll = "wlan" -> WlanClones
                         [] i.active /\ i.ll = "lan" -> LanClones]
Reconfigure(w, d) == [w EXCEPT !.ifs[d] = Softened(@, d)]

(* if_deactivate()                                                            *)
Deactivate(w, d) == Restore([w EXCEPT !.ifs[d].active = FALSE], d)

(* if_validate() of what is known.                                            *)
(* Mutant: the address only.                                                  *)
ValidatesAddr(i, d) == kernel[d].addr # NoAddr /\ i.addr = kernel[d].addr

Validates(i, d) == kernel[d].addr # NoAddr /\ i.addr = kernel[d].addr /\ i.mtu = kernel[d].mtu

LinkLayer(i, d) ==
  CASE Phy[d] = "lo" -> "lo"
    [] Phy[d] # "lo" /\ i.llConf # "unset" -> i.llConf
    [] OTHER -> IF Phy[d] \in Radio THEN "wlan" ELSE "lan"

(* if_activate(): an interface whose address or netmask is invalid, or whose  *)
(* sockets cannot be had, is deactivated again.  The plugins are called with  *)
(* the Mtu_min that has been reached.                                         *)
Counted(w, d) == [w EXCEPT !.mtuMin = Min({@, w.ifs[d].mtu})]

Known(i, d) == [i EXCEPT !.addr = kernel[d].addr, !.mtu = kernel[d].mtu, !.ll = LinkLayer(i, d)]

Activated(w, d) ==
  [w EXCEPT !.ifs[d] = [@ EXCEPT !.active = TRUE, !.hard = FALSE],
            !.primaryAddr = IF d = Primary THEN w.ifs[d].addr ELSE @]

Activate(w, d, sockets) ==
  LET known == Counted([w EXCEPT !.ifs[d] = Known(@, d)], d)
      active == Activated(CheckKernelConfig(known, d), d)
  IN  IF kernel[d].addr = NoAddr THEN Deactivate([w EXCEPT !.ifs[d].addr = NoAddr], d)
      ELSE IF ~sockets THEN Deactivate(known, d)
      ELSE [Reconfigure(active, d) EXCEPT !.announced = active.mtuMin]

(* One interface in check_interfaces(): what is active is validated.          *)
Seen(w, d) ==
  LET i == w.ifs[d]
      still == i.active /\ kernel[d].up /\ ~i.hard /\ Validates(i, d)
      bad == i.active /\ kernel[d].up /\ ~i.hard /\ ~Validates(i, d)
  IN  IF still THEN Counted(w, d)
      ELSE IF i.active
      THEN [Deactivate([w EXCEPT !.ifs[d].addr = IF bad THEN NoAddr ELSE @], d) EXCEPT !.told = TRUE]
      ELSE w

(* Then it is activated, if it can be, and what was configured set.  That its *)
(* address might be in use is asked of the interface itself, which has        *)
(* another name never.                                                        *)
Marked(w, d) == [w EXCEPT !.ifs[d].soft = @ \/ soft]

Checked(w, d, sockets) ==
  LET marked == Marked(Seen(w, d), d)
      up == IF ~marked.ifs[d].active /\ kernel[d].up THEN Activate(marked, d, sockets) ELSE marked
  IN  IF up.ifs[d].soft THEN Reconfigure(up, d) ELSE up

(* check_interfaces(): the interfaces in the order of if_list.                *)
AllChecked(broken) ==
  LET order == <<Primary>> \o SetToSeq(DOMAIN ifs \ {Primary})
      w[n \in 0..Len(order)] ==
        IF n = 0 THEN [World EXCEPT !.mtuMin = MaxMtu]
        ELSE LET last == w[n - 1] IN Checked(last, order[n], order[n] \notin broken)
      end == w[Len(order)]
  IN  IF end.told THEN [end EXCEPT !.announced = end.mtuMin] ELSE end

(* cleanup_all(): the global settings first, then the interfaces.             *)
CleanedUp(world) ==
  LET order == SetToSeq({d \in DOMAIN ifs : world.ifs[d].active})
      w[n \in 0..Len(order)] ==
        IF n = 0 THEN Restore(world, All)
        ELSE LET last == w[n - 1] IN Deactivate(last, order[n])
  IN  w[Len(order)]

Store(w) ==
  /\ ifs' = w.ifs /\ mtuMin' = w.mtuMin /\ primaryAddr' = w.primaryAddr
  /\ announced' = w.announced
  /\ sys' = w.sys /\ backup' = w.backup /\ touched' = w.touched
----------------------------------------------------------------------------
(* main() up to the first check_interfaces(): check_kernel_config(NULL), and  *)
(* the interfaces that are configured at the start.                           *)
Init ==
  /\ kernel \in [Devs -> Kernels]
  /\ \E value \in Originals : original = [file \in Files |-> value]
  /\ ifs = [d \in Devs |-> NewIf]
  /\ backup = [key \in Devs \cup {All} |-> IF key = All THEN original[All] ELSE 0]
  /\ sys = [original EXCEPT ![All] = 0]
  /\ touched = (original[All] # 0)
  /\ soft = FALSE /\ Ttl = Max(Ttls) /\ pedantic \in BOOLEAN
  /\ mtuMin = MaxMtu /\ announced = MaxMtu /\ primaryAddr = NoAddr
  /\ phase = "starting" /\ failed = {} /\ checked = FALSE /\ changes = 0 /\ line = TRUE

(* check_interfaces(), by its task or for an event of the kernel, or after    *)
(* the options of a line (OPT_POST), when the plugins are called in the end.  *)
(* At the start the primary interface must be there.                          *)
CheckInterfaces ==
  /\ phase # "ended" /\ line' = FALSE
  /\ \E broken \in {b \in SUBSET DOMAIN ifs : Cardinality(b) <= MaxBroken} :
       \E w \in {AllChecked(broken)} :
         IF phase = "starting" /\ ~w.ifs[Primary].active
         THEN /\ phase' = "ended" /\ Store(CleanedUp(w))
              /\ UNCHANGED <<config, failed, checked>>
         ELSE /\ phase' = "running"
              /\ Store([w EXCEPT !.announced = IF line THEN w.mtuMin ELSE @])
              /\ soft' = FALSE /\ failed' = broken /\ checked' = TRUE
              /\ UNCHANGED <<Ttl, pedantic>>
  /\ UNCHANGED kernelSide

(* Every five seconds, in batman().                                           *)
CheckConfig ==
  /\ phase = "running" /\ ~line
  /\ LET order == <<All>> \o SetToSeq({d \in DOMAIN ifs : ifs[d].active})
         w[n \in 0..Len(order)] ==
           IF n = 0 THEN World
           ELSE LET last == w[n - 1] IN CheckKernelConfig(last, order[n])
     IN  Store(w[Len(order)])
  /\ UNCHANGED <<kernelSide, config, line, phase, failed, checked>>

(* opt_dev(): an interface is added or removed, or one of its options set.    *)
Changing == phase = "running" /\ changes < MaxChanges /\ changes' = changes + 1 /\ checked' = FALSE
Applying == Changing /\ line' = TRUE

AddDev(d) ==
  /\ Applying /\ d \notin DOMAIN ifs
  /\ ifs' = [e \in DOMAIN ifs \cup {d} |-> IF e = d THEN NewIf ELSE ifs[e]]
  /\ backup' = [backup EXCEPT ![d] = 0]
  /\ UNCHANGED <<kernel, original, config, sys, touched, mtuMin, primaryAddr, announced, phase, failed>>

DelDev(d) ==
  /\ Applying /\ d \in DOMAIN ifs \ {Primary}
  /\ \E w \in {IF ifs[d].active THEN Deactivate(World, d) ELSE World} :
       Store([w EXCEPT !.ifs = Restrict(w.ifs, DOMAIN ifs \ {d})])
  /\ UNCHANGED <<kernel, original, config, phase, failed>>

(* Mutant: as the comment in if_activate() has it, the link layer is left to  *)
(* if_reconfigure_soft().                                                     *)
SetLinkLayerSoft(i, ll) == [i EXCEPT !.llConf = ll, !.soft = TRUE]
SetLinkLayer(i, ll) == [i EXCEPT !.llConf = ll, !.hard = TRUE, !.soft = TRUE]

SetDev(d) ==
  /\ Applying /\ d \in DOMAIN ifs
  /\ \/ \E ttl \in Ttls \cup {Unset} :
          ifs' = [ifs EXCEPT ![d] = [@ EXCEPT !.ttlConf = ttl, !.soft = TRUE]]
     \/ \E ll \in Kinds \cup {"unset"} : ifs' = [ifs EXCEPT ![d] = SetLinkLayer(@, ll)]
  /\ UNCHANGED <<kernel, original, config, proc, mtuMin, primaryAddr, announced, phase, failed>>

(* opt_if_soft(), for the ttl.                                                *)
OptTtl ==
  /\ Applying
  /\ Ttl' \in Ttls \ {Ttl} /\ soft' = TRUE
  /\ UNCHANGED <<kernel, original, pedantic, proc, ours, phase, failed>>

(* The administrator of the system.                                           *)
Reconfigured(d) ==
  /\ Changing
  /\ \E k \in Kernels \ {kernel[d]} : kernel' = [kernel EXCEPT ![d] = k]
  /\ UNCHANGED <<original, config, proc, ours, line, phase, failed>>

Terminate ==
  /\ phase = "running" /\ ~line /\ phase' = "ended"
  /\ \E w \in {CleanedUp(World)} : Store(w)
  /\ UNCHANGED <<kernelSide, config, line, failed, checked>>

Next ==
  \/ CheckInterfaces
  \/ CheckConfig
  \/ \E d \in Devs : AddDev(d) \/ DelDev(d) \/ SetDev(d) \/ Reconfigured(d)
  \/ OptTtl
  \/ Terminate

Spec == Init /\ [][Next]_vars
----------------------------------------------------------------------------
(* Unless pedantic cleanup gives them back earlier, the settings of the       *)
(* system are the ones bmxd needs as long as an interface is active, though   *)
(* aliases that come and go share them.                                       *)
KernelReady ==
  phase = "running" /\ ~pedantic => \A d \in DOMAIN ifs : ifs[d].active => sys[File(d)] = 0

(* After a check nothing that was configured waits: an interface that is      *)
(* active runs with its own ttl or, as primary or not, with the one for all,  *)
(* with its own link layer or the kernel's, and with the clones of that.      *)
AsConfigured ==
  phase = "running" /\ checked => \A d \in DOMAIN ifs : ifs[d].active =>
    /\ ifs[d].ttl = IF ifs[d].ttlConf # Unset THEN ifs[d].ttlConf
                    ELSE IF d = Primary THEN Ttl ELSE 1
    /\ ifs[d].ll = LinkLayer(ifs[d], d)
    /\ ifs[d].ll # "lo" => ifs[d].clones = IF ifs[d].ll = "wlan" THEN WlanClones ELSE LanClones

(* The settings of an active interface are in force, the daemon's and those   *)
(* of the system.                                                             *)
SettingsInForce == AsConfigured /\ KernelReady

(* After a check the interfaces are active that the kernel has up with a      *)
(* valid address, all of them whose sockets could be had, with the kernel's   *)
(* address and MTU; the daemon's address is its primary interface's, and no   *)
(* active interface has a smaller MTU than the tunnels are made for.          *)
ActiveAsKernel ==
  phase = "running" /\ checked => \A d \in DOMAIN ifs :
    /\ ifs[d].active => /\ kernel[d].up /\ kernel[d].addr # NoAddr
                        /\ ifs[d].addr = kernel[d].addr /\ ifs[d].mtu = kernel[d].mtu
    /\ ~ifs[d].active => ~kernel[d].up \/ kernel[d].addr = NoAddr \/ d \in failed
    /\ ifs[d].active /\ d = Primary => primaryAddr = ifs[d].addr
    /\ ifs[d].active => mtuMin <= ifs[d].mtu

(* The help of --pedantic_cleanup: the configuration of the system is cleaned *)
(* up at termination.                                                         *)
CleanupRestores == phase = "ended" /\ pedantic => sys = original

(* The comment in if_activate(): plugins that are interested in it learn of   *)
(* a changed configuration of the interfaces.                                 *)
PluginsKnowMtu == phase = "running" /\ checked => announced = mtuMin
=============================================================================
