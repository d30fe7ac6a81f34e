# Verification of bmxd, the mesh routing daemon of vserver-base

The repository sets up a Freifunk "vserver": a machine that takes part in the
mesh network through tunnels. Its own program is `bmxd`
(`src/compiled-tools/bmx/bmxd/`, about 16000 lines of C), a B.A.T.M.A.N.
experimental routing daemon; the rest is shell scripts, configuration, web
pages and third-party archives. All paths below are relative to
`src/compiled-tools/bmx/bmxd/` unless they begin with `src/`.

bmxd is a single process with a single thread. `batman()` (batman.c) loops over
`whats_next()` (run the tasks that are due) and `wait4Event()` (wait for
packets, control clients, tunnel devices, interface events), and about once a
second calls `purge_orig()`. A handler runs to its end before the next begins,
so what interleaves is the order of handlers: packets of many nodes, expiring
timers, interfaces that come and go, options set by control clients. What is
concurrent is outside: the kernel's tables and interfaces, the other nodes, the
network, whoever edits the configuration.

## Inventory

| part | state | operations | what is hard, and what makes it correct |
|---|---|---|---|
| originator database (originator.c) | `orig_avl` of `orig_node`s; per originator neighbours, router, link, primary with reference count, neighbour identifier | `process_ogm`, `purge_orig`, `opt_purge`, called also by `if_deactivate` | expiry and flushes between the steps that build a route; pointers between originators. Routes point to living, confirmed, active links; counts are exact; nothing freed is used; identifiers are unique |
| metrics (metrics.c) | `sq_record` per neighbour and link device | `update_lounged_metric`, `flush_sq_record`, `upd_wavg` | numbers modulo 2^16, re-ordering, integer division. The average stays in range, counts each number once, fades |
| path decision (originator.c) | `last_valid_sqn`, `last_decided_sqn`, `last_considered_seqno`, metrics of all neighbours | `validate_orig_seqno`, `validate_considered_order`, `update_orig` | several windows on the same wrapping numbers. Each OGM is decided once, in order; the best path wins; no stale metric is compared |
| OGM scheduler (schedule.c) | `send_list`, a packet buffer, a sequence number and an own-OGM chain per interface | `schedule_rcvd_ogm`, `schedule_own_ogm`, `aggregate_outstanding_ogms`, `remove_outstanding_ogms` | copies, sizes and interfaces that vanish while OGMs wait. No buffer overruns, no dangling interface, the chain never breaks or doubles, numbers advance |
| task list and main loop (schedule.c, batman.c, posix/posix.c) | `task_list`, `receive_wait_set`, `changed_readfds`, `cb_fd_list` | `register_task`, `remove_task`, `whats_next`, `check_selects`, `wait4Event`, `batman` | handlers open, close and reuse descriptors between `select()` and the use of what it returned; tasks register each other. What is watched is open and its owner's; no periodic task dies or doubles; clients are answered |
| control clients (control.c, lib/bmx_http_info) | `ctrl_list`, connections and their closing stamps | `accept_ctrl_node`, `handle_ctrl_node`, `close_ctrl_node`, `http_info_rcv_tcp_data` | clients that vanish while served, connections marked and closed later. None is closed without a reason |
| options (control.c) | tracked parents and children of each option, what is in force | `call_option`, `check_apply_parent_option`, `track_opt_parent`, `apply_stream_opts`, `respect_opt_order` | lines that fail half way, options that reset each other, values that are references. Tracked = in force = saved |
| uci configuration (lib/bmx_uci_config) | the configuration file | `bmx_load_config`, `bmx_save_config`, `bmx_derive_config`, SIGHUP | reload against what is tracked, edits by others. A reload of what bmxd wrote changes nothing |
| interfaces (linux/route.c, originator.c) | `if_list`: configured, known, active; `Mtu_min`, `primary_addr`; saved `/proc/sys` values | `check_interfaces`, `if_validate`, `if_activate`, `if_deactivate`, `if_reconfigure_soft`, `opt_dev`, `check_proc_sys`, `restore_kernel_config` | the kernel changes between checks, activation fails half way, aliases share settings. After a check: active as the kernel has it, with what is configured |
| kernel routes and rules (linux/route.c) | `routes_list`, `rules_list`; the kernel's tables, which outlive the daemon | `add_del_route`, `add_del_rule`, `track_*`, `flush_*`, `update_interface_rules`, `cleanup_route` | several owners of one route, crashes. The kernel has what is tracked |
| HNA (hna.c) | `hna_avl` (owner of each network), `plugin_data` (networks of each originator) | `add_del_hna`, `update_other_hna`, `cb_hna_ogm_hook`, `cb_hna_orig_destroy`, `opt_hna` | conflicts and hand-over between originators. One owner per network, routes follow the owner's |
| tunnels (posix/tunnel.c) | gateway list, `curr_gateway`, the client's arguments, the server's lease table | `update_gw_list`, `cb_choose_gw`, `gwc_*`, `gws_*`, `opt_rt_class`, `opt_gw_class` | request and reply with loss and delay, lease expiry against renewal, gateway restart, failing gateways. A lease counted on is held; one address each; the tunnel is the announced one |
| plugins and hooks (plugin.c) | hook lists, data slots of originators | `add_del_thread_hook`, `cb_*_hooks`, `set_fd_hook` | a list changed while it is walked |
| containers (avl.c, list-batman.c) | trees, lists with a tail pointer | insert, remove, find, next | a mistake shows only after many operations. A sorted set, a sequence |
| vis and service plugins (batman.c) | announced services | `opt_srv`, `cb_srv_*` | as HNA without conflicts |
| gateway check (`src/files/usr/bin/freifunk-gateway-check.sh`) | routing tables of the gateway, the vpn state | the script, run by cron | tests of the outside world |

OGMs come in through `process_packet` and `process_ogm`, which uses the metrics
and the path decision, changes the originator database, asks the hooks (HNA,
tunnels, services) and hands the OGM to the scheduler; the scheduler and the
database share `if_list` and the echoes of own OGMs; `update_routes` sets the
host routes, and HNA and the interface rules put theirs into the same kernel
tables. A tunnel that goes up or down makes the interface rules be rebuilt.
Everything is configured through the options, whose handlers set up interfaces,
tunnels and announcements, and which the uci plugin loads and saves.

## Modules

| module | models |
|---|---|
| `Originator`, `MCOriginator` | the originator database; small networks for it |
| `OriginatorAging` | the same once the network falls silent, for liveness |
| `OriginatorProofs` | theorems about `Originator` |
| `SqRecord` | sequence number arithmetic and the functions on one `sq_record` |
| `LoungedMetric` | one `sq_record` under any calls, the loop of `update_lounged_metric` round by round |
| `AtomicMetric` | its abstract specification: each call is one step by the operator `Updated`, which `PathDecision` and `MetricFading` use |
| `MetricFading` | a record that only sees missed OGMs, for liveness |
| `MCLoungedMetric` | an instance of the two, and the refinement mapping |
| `MetricAtomicity` | `LoungedMetric` with a history variable, the record before the call under way; what refines `AtomicMetric` |
| `PathDecision`, `MCPathDecision` | how the OGMs of one originator, brought by several neighbours, are judged |
| `MetricProofs` | theorems about `LoungedMetric`, `AtomicMetric` and `PathDecision` |
| `OgmScheduler`, `MCOgmScheduler` | `send_list` and the packets |
| `OgmSchedulerProofs` | theorems about it |
| `KernelTables` | the tracked routes and rules and the kernel's tables |
| `InterfaceRules`, `Hna` | the two writers of those tables |
| `Routing` | both composed, with crash, termination and restart |
| `RoutingProofs` | theorems about it |
| `TunnelServer` | a gateway's lease table |
| `TunnelClient` | gateway list, selection, the client's tunnel, the node's own service |
| `Tunnel`, `MCTunnel` | gateways, a client and others composed over a network; an instance |
| `TunnelProofs` | theorems about it |
| `GatewayClass` | the arithmetic of the announced bandwidth |
| `Options`, `MCOptions` | options, tracking, configuration file and reload |
| `OptionsProofs` | theorems about it |
| `EventLoop` | tasks, descriptors, control and http clients, one pass of `wait4Event` in steps |
| `Interfaces` | `if_list` against the kernel's interfaces, and the settings in `/proc/sys` |
| `AvlTree`, `SortedSet` | avl.c, and the abstract specification it implements |
| `LinkedList`, `ListSequence` | list-batman.c, and the abstract specification it implements |
| `MCParts` | the four that keep their state to themselves in one instance: it extends three and instantiates `AvlTree` |
| `PartsProofs` | theorems about `EventLoop`, `Interfaces` and `LinkedList` |
| `WalkLemmas` | lemmas the proof modules share: walks over lists, sequences that grow and shrink, least and greatest elements |

### Originator

`db` is a record with one function per member of `struct orig_node`; the pointer
to a `neigh_node` is its key (neighbour address, interface), the pointer to
another originator its address. `process_ogm()` appears as one action per place
where it gives up (`DropUnwelcome`, `DropSqn`, `DropPip`, `DropNoId`,
`DropReordered`) and `Consider` for its end; everything done before it gives up
is part of the action. `purge_orig()` is a walk: `purge` holds the call and the
originators still to visit, and each iteration is a step, so that the invariants
are also checked within it. Time and metrics are abstracted to verdicts: which
OGM is accepted, whether this neighbour is now the best, what has expired. They
are chosen freely, hence what is shown holds for every clock and every metric.
Two things are kept because the code depends on them: a router has a positive
metric (`rated`), and an echo is needed before a link counts as bidirectional
(`rtq`). The kernel's route is `router`, as `update_routes()` keeps them equal.

`echoed` is a history variable: on which links own OGMs came back since the
interface is up. `OriginatorAging` adds the fairness of `purge_orig()`; the network is
silent from the moment on from which all steps are its (`Ages`).

### Metrics

A call of `update_lounged_metric` is `Enter` (early return, distance,
"offset >= ws"), `Round` for each round of the loop and `Return` (probe and
rounding). Unsigned division and wrap-around are as in C.

### PathDecision

The originator numbers its OGMs without end, modulo `SqMod`; a neighbour may
bring each of them once, in any order, up to `Lag` OGMs late. The state holds
only differences, so wraps are explored without a counter. The history variables
say how old the newest valid and the newest decided OGM really are; the
properties compare the code's modular arithmetic with them. Modelled for the
default `fast_path_faktor`, where the recent metric is not consulted.

### OgmScheduler

A node of `send_list` is a record; `due` says how many at the front have a send
time that has come. `rand_num(100)` is a choice. Lengths are in units in which
the bat_header is 1, `if_send_clones` in units in which 100 is `Hundred` = 2, so
that values between multiples of 100 are there. Power saving lets any of the
interfaces in `PowerSave` be skipped for any OGM. One iteration of the loop over
`send_list` is a step; `Begin` .. `End` exclude all other handlers.

### KernelTables, InterfaceRules, Hna, Routing

`routes_list` and `rules_list` are bags of entries (key, owner): two owners, or
two interfaces with the same network, may track the same route. The kernel is
asked for the first of them and told of the last (`LastOne`); it refuses a second
route to a destination in a table (`FibAdd`, NLM_F_EXCL) and deletes what matches
destination, table, gateway and source, not the type (`FibDel`). The operators
are functions on the tables, so that each handler composes them in the order of
its calls. `InterfaceRules` follows `update_interface_rules()`: the checksum over
the addresses decides whether everything of "my_net" is flushed and installed
again; `CheckFails` is the SIOCGIFCONF that fails before or after the flush.
`Hna` keeps the registry (`hna_avl`) and the announcement stored per originator;
`RecvOgm` is the part of `process_ogm()` that sets the route and calls
`cb_hna_ogm_hook()`, whose refusal flushes the originator. An announcement is a
set of networks, its address range (`ddmesh_ignore_hna`) whether the originator
is in `Vservers`. `Routing` puts both on one `kt`: `Crash` leaves the kernel's
tables as they are, `Terminate` cleans up, `Start` flushes orphans and
configures. The order in which the options of one start are applied is
`Start`'s composition.

### TunnelServer, TunnelClient, Tunnel

The lease table is a function from addresses to leases; `Chosen` is the two
cycles of `gws_get_ip_addr()`. In the client, times are ages in steps of
`TUNNEL_IP_REQUEST_TIMEOUT` since a stamp was set, capped where no condition
tells them apart; `node` holds the static variables of tunnel.c together with
what the plugin set up in the host (rules, default route, script, announcement).
Each handler is a function on that state and the messages under way, because
they call each other: `gwc_cleanup`, `gwc_init`, `update_gw_list` and
`cb_tun_conf_changed` are `Cleanup`, `GwcInit`, `UpdateGwList`, `ConfChanged`.
`gwc_init` may end at a socket, at the device or at the address (`Steps`).
`cb_tun_ogm_hook` reads `tuno` after `update_gw_list` may have freed it: what it
reads then is any announcement (`RecvOgm`).

A behaviour of `Tunnel` belongs to one of two scenes, because their interesting
bounds differ. In "leases" a two-way gateway stays announced while it is
restarted, another client asks, and messages are delayed, lost and overtaken. In
"choice" gateways come, change, improve and go, the node is client, gateway or
neither, and a gateway sends whatever it likes.

### Options, GatewayClass

Five options stand for the kinds the code tells apart: RT and GW exclude each
other, PEDANTIC makes redundant settings errors, PORT can only be set at the
start, DEV may be given many times, has a child option (ttl) and a value that may
be a reference (`ref:lan`) into the network configuration. A line is a sequence
of entries, already parsed; `Handled` checks it as a whole and then applies entry
by entry, `Stream` with the loads of the file in between that
`respect_opt_order()` makes. `track`, `use` and `file` are what control.c
remembers, what is in force and what is written. `aborted` says that a
`paranoia()` check ended the daemon.

### EventLoop

`open` is the kernel's descriptor table, a new descriptor is the lowest free
number; `fdOf`, `hooks` and `nodes` are what the daemon keeps. A pass of
`wait4Event()` is `Select`, `Packets`, `Hooks`, `AcceptClient`, `HandleClient`
(one node a step) with the local `tmp_wait_set` (`ready`) and the return value of
`select()` (`selected`) as in the code, including that a socket without a packet
is not counted as handled. Connections close in four ways (`CloseEnded`,
`CloseStraight`, `Overdue`, http_info after its answer). Handlers that change
descriptors are there by that effect: an interface found up or down, a tunnel set
up or ended.

### Interfaces

`Checked` is the body of the loop in `check_interfaces()` for one interface, by
the functions it calls (`Seen` validates it, `Activate` activates it,
`Reconfigure` sets what was configured), `AllChecked` the loop in the order of `if_list`, including
when the plugins are called. Which socket or ioctl of `if_activate()` failed is one
choice. The kernel's side (`kernel`) changes at any time. `rp_filter` and
`send_redirects` of a device are one file, shared by its aliases.

### AvlTree, LinkedList

The tree is the array of links, parents and stored heights of the nodes; a
rotation moves pointers as avl.c does, and the way back up stops where the code
stops. `SortedSet` is a set that answers `find` and `next`; `ListSequence` a
sequence. Both refinements map the abstract state to what a walk over the
pointers finds (`Nodes`, `Walked`).

## Runs

| run | checks |
|---|---|
| `relay` | `OriginatorAging` with a node of two interfaces heard on two of ours; interfaces go down, everything is flushed, at last the network is silent and all is purged. Two originators and two interfaces are the least for a route to move, for a walk to be half done and for a primary to outlive who refers to it |
| `renumber` | a node of three interfaces, two of which have each been the primary of the other and the third becomes one; reference counts and identifiers, of which there are fewer than interfaces |
| `flush_downward` | (violated) `flush_all` with a primary at the lower address |
| `metric` | all calls on one record with a window of several numbers; the loop implements the atomic call; the metric of a silent neighbour reaches zero |
| `path` | two neighbours, numbers modulo 9, window 4, lounge 1; every relation of two numbers (newer, within the lounge, within the window, beyond) occurs, and the wrap |
| `sched` | two interfaces, one and one or two copies, OGMs of every kind up to and above the preferred and the legal size, power saving, numbers modulo 4 that wrap while own OGMs come back; and each chain of own OGMs goes on for ever |
| `routing` | `Routing` with two vservers and an originator outside the range, two routers, two networks of which one is also one's own, a network that is an interface's, an own and a thrown one at once; crash, termination and restart |
| `tunnel` | both scenes of `Tunnel`: two gateways, two leasable addresses, two clients; a lease of 11 steps, so that one step lies between its 90 % and its end, and messages one step late |
| `options` | lines of up to two of nine (or eight) entries in both scenes, three command lines at the start, one edit by others between two reloads |
| `options_aborts` | (violated) a device known by its name and by a reference |
| `parts` | the four parts of `MCParts` in one run: a behaviour belongs to one of them, and the others rest |
| `interfaces_mtu` | (violated) the tunnels' MTU after the primary interface comes up again |

`PROJECT.json` lists the properties of each run; each is stated in words where it
is defined. Some are conjunctions of parts that belong together, so that the
configuration files stay short: `PacketsSound` and `ListSound` (OgmScheduler),
`TunnelInForce` (TunnelClient and its host), `SettingsInForce` (Interfaces).

Bounds: `Lag`, `Gap` (OGMs lost in a row at every neighbour), `MaxQueue`,
`EchoLag`, `MaxNet` (messages under way), `MaxRequests`, `MaxDelay`, `MaxLine`,
`MaxEdits`, `MaxFd`, `MaxNodes`, `MaxEvents`, `MaxChanges`, `MaxBroken`, and the
sets of OGMs, announcements and lines. `SqMod` stands for 2^16; the code only
compares differences, and the instance keeps windows, lounge and their sum below
half of it as the constants of originator.h do. Eight keys give trees of height
four: every rotation on the way back from an insertion or a removal occurs with
subtrees on all sides, and the heir of a removed node both right below it and
further down. Four list entries suffice for a list with a first, an inner and a
last entry beside the one that moves. Two changes (`MaxChanges`) reach every
order of a setting and a change in the kernel around a check; a third only
repeats one of them, as a check leaves no other trace than the interfaces'
state. `MaxFd` is never reached: descriptors do not run out.

Fairness, and why the code justifies it:

* `relay`: `purge_orig` is called about once a second (WF of `Ages`).
* `sched`: `aggregate_outstanding_ogms` registers itself again (WF of
  `Aggregate`), and every send time, once set, comes although other OGMs may be
  put before it, each at most once (SF of `Tick`, which takes the clock to one
  interface's send time). No message is assumed to arrive.
* `tunnel`: `cb_choose_gw` and `gwc_maintain_twt` are tasks that register
  themselves again, and time passes (WF). Of requests and replies that are sent
  again and again some arrive while the client still waits (SF): a network that
  loses them all lets nobody keep an address. `KeepsAddress` also presumes that
  the gateway is not restarted for ever.
* `parts`: the process is scheduled and time passes (WF), and `select()` looks at
  its descriptors at least once in the time it has (SF of `Select`), which is what
  the system call promises.

## What the violated runs show

* `flush_downward`: `purge_orig(0, NULL)` frees originators in address order
  whatever `pog_refcnt` says; `set_primary_orig()` of a later one then touches a
  freed primary.
* `options_aborts`: the file has a section for a device and one for a reference;
  when the network configuration is edited so that the reference stands for the
  same device, the next reload finds two tracked parents and `paranoia()`
  (control.c:2325) ends the running daemon.
* `interfaces_mtu`: `if_activate()` of the primary interface calls the plugins
  while `check_interfaces()` has counted `Mtu_min` over the first interfaces only;
  a later one with a smaller MTU lowers it without a call.

More limits are drawn by the constants of the passing runs; outside them the
properties fail, as can be seen by changing the configuration:

* `PrevHopIdsDistinct` needs no more identifiers than the byte `prev_hop_id` can
  hold; `MAX_ID4HIM` is 1024. `IdMod = 2` in `MCOriginatorRenumber.cfg` breaks it.
* `StaleOriginatorsPurged` needs that primaries do not change in a circle: after A
  has named B and B names A neither count becomes zero, and both stay for ever
  (originator.c:1099). `Ogms <- SwappedOgms` in `MCOriginatorRelay.cfg` breaks it.
* `PacketsSound` needs that no loopback interface sends OGMs:
  `send_aggregated_ogms()` skips them, but OGMs are appended to their buffers if
  `if_send_clones` is set, by option or because the interface was a wireless one
  before. `Loopback = {B}` in `MCOgmScheduler.cfg` breaks it.
* `BetterPathTaken` speaks only of originators for which something was decided
  recently. `last_decided_sqn` starts at 0, so the OGMs of a new originator with
  a number up to `pws` - 1 below 0 count as decided (originator.c:315).
* `DecidedForward` needs `Lounge < Pws`; the options allow a lounge of 31 and a
  window of 10. `Lounge = 5` in `MCPathDecision.cfg` breaks it.
* `SeqnoAdvances` needs own OGMs to come back before the next is sent
  (`EchoLag = 0`): just after the wrap a later one makes `update_rtq_link()` set
  `if_seqno` back, as it compares an int (originator.c:793).
* `ListSound` needs an own OGM to fit with the bat_header;
  `schedule_own_ogm()` checks it without (schedule.c:1476), so
  `OwnLen <- OwnAtLimit` breaks it.
* `EffectAsTracked` needs that the first device, the primary interface, is not
  configured by a reference that changes. `call_option()` removes the device the
  reference stood for and does not look at whether that worked (control.c:2332);
  `opt_dev()` refuses to remove the primary interface (originator.c:1824), which
  then stays in use with nothing that tracks it. `RefDevs = {"a", "b"}` in
  `MCOptions.cfg` breaks it.

Three further properties are stated next to the others and hold only in part; no
run checks them:

* `CleanupRestores` (Interfaces): with pedantic cleanup the settings in
  `/proc/sys` are those found at the start. `check_kernel_config()` saves them
  again every five seconds, when they are bmxd's own (linux/route.c:2176), a
  loose 2 is written back as 1, and a removed alias restores a file its sibling
  still needs.
* `ThrowRespected` (Routing): a network of `--throw` has its throw routes. A route
  that is there already wins, as the kernel refuses a second one to the
  destination and the refused one is tracked (linux/route.c:1537);
  `ThrowNets = {n1}` in `Routing.cfg` shows it.
* `ClassSurvives` (Options): the class that is saved is the class in force. Above
  2048 KBit it is saved in whole MBit (posix/tunnel.c:2194), so 6144/4608 KBit
  comes back as another class; the class of `MCOptions`, 1024/256, is below.

Seen while modelling, within what the modules do, and no property of theirs:

* a preferred gateway that is penalised is left for another by `cb_choose_gw` and
  the selection restarted for it by its next OGM (posix/tunnel.c:672 and 1899);
  packets of the host sent before an address is there penalise the gateway (909);
* `gwc_recv_tun` ends the tunnel for a packet with the gateway's own source without
  resetting `curr_gateway` (972); the next `cb_choose_gw` sets it up again only
  through the CONF hook;
* a client goes on with an address after its lease while its requests are
  unanswered, until `MAX_TUNNEL_IP_REQUESTS`; data of another gateway verifies the
  current one;
* a refused route or rule is tracked as if it were there; with throw rules disabled
  the flush of orphans leaves throw routes (linux/route.c:1413);
* `OPT_CHECK` of a reload judges the new file against the current state, so a line
  that passes may fail when applied; the result of saving is ignored; a line that
  fails half way returns before the POST and CONF hooks;
* a configuration file with both classes changes the class twice at each reload;
* an interface's address that another one has is looked for with the wrong loop
  variable (linux/route.c:1893), so it is never found.

## Proofs

`MetricProofs` (checked by TLAPS) shows of `LoungedMetric`, for every modulus, window of at
least 2, lounge, scale and probe range:

* `MetricTypes`: the record keeps its type; in particular the unsigned average
  never falls below zero and the loop's counter stays below the window.
* `MetricHasRoom`: the inductive invariant. Whenever the record may count a new
  number, its average leaves room for a whole probe: either it has been aged at
  least once since the last probe (`AgingMakesRoom`, a fact on integer division),
  or the number it was aged up to is the one counted last.
* `MetricWithinRange`: a quality never exceeds `PROBE_RANGE`. It follows from
  `MetricHasRoom`; on its own it is not inductive, as it does not say that a
  number is not counted twice.

`OriginatorProofs` shows for every set of addresses and interfaces, every OGM
that may arrive and with `flush_all` allowed:

* `TypeCorrect`, `RouterSafe` and `LinksSafe`: the invariants `TypeOK`,
  `RouterIsNeighbour` and `LinksOwned`;
* `IdsDistinct`: `PrevHopIdsDistinct`, if `MaxId4Him <= IdMod`, as with the 255
  that stands commented out in batman.h:614. With the 1024 of the code the
  conclusion fails, see above; the theorem says that this constant is all that is
  wrong.

The inductive invariant `Inv` is `TypeOK` and `Sound(db)`, where `Sound` speaks of
a database and not of a state: the handlers are compositions of functions on the
database (`GetOrig`, `SetPrimary`, `FlushOrig`, `FreeLink`, ...), so one lemma for
each function says that it keeps a database sound, one for each stage of
`process_ogm()` and of the loop body of `purge_orig()` composes them, and one for
each group of actions concludes `Inv'`. `RouterIsNeighbour` would be inductive
only together with the type; distinct identifiers need that `init_pifnb_node()`
takes one from `FreeIds`, for which `LeastExists` shows that the CHOOSE has a
value.

Two more invariants of the same module build on it.

* `RoutesConfirmed`: `RouterConfirmed`, routes lead only over links an own OGM has
  come back by since the interface is up; `InterfacesCleared`:
  `NothingOnInactiveIf`. Neither is inductive. A route is confirmed because its
  metric was only given while the link had echo quality, so `LinkInv` bounds
  metrics and echo quality (`RatedIn`) and neighbours and link devices (`LinksIn`)
  by the echoed and the active links. In the middle of a purge an originator still
  to visit may exceed the bound by what the purge is about to take away
  (`Leftover`); that the walk has all originators to visit when it begins needs
  that one that does not exist has no neighbours (`Forgotten`).
* `CountsExact`, `NothingLeft` and `FreedUntouched`: `RefcntExact`,
  `NothingOutlivesOrig` and `NoUseAfterFree`. `RefInv` says which originators are
  counted for which (`Counted`), that one that does not exist has nothing
  (`Bare`), and during a walk what the originators still to visit may refer to
  (`WalkSound`). The hypothesis is `PrimariesFollow`: where `purge_orig(0, NULL)`
  may run, a primary has the higher address. Without it the conclusion fails, as
  the run `flush_downward` shows.

`MetricProofs` also proves `CallsAreAtomic`: `MetricAtomicity`, which is
`LoungedMetric` with a variable that remembers the record at the beginning of the
call, implements `AtomicMetric`. A round of the loop stutters; the last one has to
make what the recursive function `Aged` makes of the record, which follows from
`Aged` being equal to the rounds done so far and the rest
(`AgedRoundByRound`). The other instances of the two are `metric` and its
refinement mapping in `MCLoungedMetric`.

It shows of `PathDecision`:

* `MetricsCompared`: `MetricsAligned`, with any window and lounge. `Inv` adds that a
  neighbour not heard yet has an empty record (`Unheard`).
* `NewestIsKnown`, `DecidedInOrder`, `BetterTakesOver`: `LastValidIsNewest` and the
  action properties `DecidedForward` and `BetterPathTaken`, under `InTheWindow`:
  an OGM is overtaken by less than the window, or the lounge is below the
  window and an OGM is overtaken by no more than the two; and the
  window and the distance `Far` of the last decision stay below half of the
  numbers. TLC finds violations for constants outside. The code keeps a lounge
  of at most 31 and a window of at least 10, by default 8 and 100. `SeqInv`
  relates the numbers modulo `SqMod` to the unbounded distances (`Lag` variables
  of the model), which is where wrapping is dealt with.

`OgmSchedulerProofs`:

* `OneChainEach`: `OneOwnPending`, for every number of interfaces, copies and OGMs.
  `OgmInv` says that each interface has at most one own OGM of the first
  iteration in the list or is about to schedule it (`Chain`), that nodes
  go out by interfaces that exist (`Existing`) and that each is well-formed
  (`AllFine`).
* `ListKept`: `ListSound`, if own OGMs fit (`OwnPacketFits`).
* `NumbersAdvance`: `SeqnoAdvances`, if they fit and come back before the next is
  sent (`EchoLag = 0`).
* `PacketsFit`: `PacketsSound`, if a loopback interface sends no OGMs
  (`LoopbackSilent`).

The three hypotheses are the limits named above: without each of them TLC violates
the property.

`RoutingProofs` goes from the kernel up:

* `Agrees`: what is tracked and what the kernel has say the same, one lemma for
  each function of `KernelTables` (`add_del_route`, `add_del_rule`, the flushes);
* `Sane` and `Consistent`: the registry of networks and each originator's own list
  of them;
* `Carried`: the tracked routes are those of the interfaces (`Owned`) and of the
  originators and their networks (`Routed`). A network's route leads over the
  router its announcer had when it was set, which is not always the one it has
  now: while `update_routes` is between two of its steps these differ.

From `RoutingInv` follow `RegistryNeverContradicts` (`NeverContradicts`),
`KernelIsTracked` (`KernelAsTracked`), `NetworksFollowHosts`
(`NetworkFollowsHost`) and `RulesStayCurrent` (`RulesCurrent`). The second and
third have the hypothesis `Disjoint`: no host address is a network of this node, no
foreign network a local or thrown one. Otherwise the kernel refuses a second
route to a destination although it is tracked (`NLM_F_EXCL`,
linux/route.c:1537), and deleting the second takes the first away.

`TunnelProofs`, for any number of gateways, clients and addresses, and any requests
and replies under way:

* `AddressesDistinct`: `OneAddressEach`;
* `TunnelLeadsRight`: `TunnelInForce`. The plugin's functions call each other, so
  `Sound` says what holds of a node between them and `Torn` what is left when the
  tunnel has just been taken down; a lemma for each function carries one to the
  other.
* `LeasesHonoured`: `LeaseHonoured`. The lease of the client and the gateway's entry
  start at different times, and between them are a request and a reply
  (`AnswersHeld`, `TunnelHeld`); hence the hypothesis `Timely`, that ten times the
  delay of a message is below the lease.
* `BestIsChosen`: the action property `ChoosesBest`.

`PartsProofs` has the theorems about the main loop, the interfaces and the lists; they
speak of `LoopSpec`, `Spec` of `Interfaces` and `ListSpec`. A behaviour of the run
`parts` is one of one of them, or of the trees.

* `EventLoop`: `DescriptorsWatched` (`WatchedIsOpen`), `TasksKept` (`TasksInOrder`)
  and `NobodyCutOff` (the action property `ClosedForAReason`). `LoopInv` says
  that sources and control nodes own their descriptors and no two the same (`Held`),
  how many there are, so that a free one exists (`Room`, by counting, from
  `LoopAssumption`), in which order hooks and tasks are (`HooksHeld`, `TasksFit`),
  what of it `check_selects` has not noticed yet (`Watching`), and that during a
  pass a descriptor used again is none that is still ready (`Passing`).
* `Interfaces`: `SettingsHeld` (`SettingsInForce`) and `ActiveIsKernels`
  (`ActiveAsKernel`). `IfsInv` says what an active interface has, unless
  something waits for the next check (`AllKept`), and that after a check
  everything is as the kernel's (`AllCurrent`). One lemma for each stage of the loop
  body of `check_interfaces` (`Seen`, `Marked`, `Activate`, `Reconfigure`) says that it
  makes its interface current and touches no other.
* `LinkedList`: `ListsAreSequences`, the refinement `ImplementsSequence`. `ListInv`
  says that there is a sequence without repetitions whose entries the links
  join, from the head on and back to it (`Linked`); a walk finds that sequence
  (`WalkedIs`), and one lemma each says what becomes of it when an entry is put
  between two others (`Inserted`) or taken out (`TakenOut`).

`OptionsProofs` shows `InForceAsTracked`: `EffectAsTracked` for any lines, of any
length, any command lines at startup and any edits. A line is a walk of walks:
over its entries, before each of them over the options of the orders between,
for the devices over the sections of the file and then over the devices no
section mentions, and every step may fail and leave what was done. The invariant
`Good` speaks of what these functions pass on, so it holds after each call, failed
or not:

* `SinglesOK`, `OneClass`, `DevsOK`: each option in force is the one tracked, not
  both classes are, and a device is in use with its ttl for each one tracked;
* `Apart`: no two tracked devices have the same name or the same reference, so that
  `CHOOSE` and the lookups by value and by reference find one device and
  `Distinct` says when they find two; `ByName`: each has a name, and the first is
  not tracked by a reference;
* `First`: if there is any device the first one is the primary one. The
  primary is what `opt_dev()` refuses to remove, and a removal that is
  refused is what `call_option()` does not look at;
* `FileOK`: the file always has a section for the first device. It is read first,
  and the primary interface is the first one added.

`CheckCall` and `StreamChecked` say that a check changes nothing unless a
`paranoia()` fails, `CallGood` that a call keeps `Good` whatever it answers,
`HandledKept` the same of a whole line. `OptionsInv` adds that the daemon has a device
while it runs and nothing while it does not. The hypothesis `ReferenceApart` is the
limit named above.

The same module shows `FileAsTracked`: `SavedAsTracked`, from `SavedInv`, which says
that a single option is at most one line of the file and that file and tracking
agree while `inSync`; with it `Standing`: what is tracked for the reference is the
device the reference stands for.

* `Saves` is what every operation does to the file: nothing unless it saves, and if
  it does, an option whose lines said what was tracked has lines that say so again;
  no option but the one called, and the class it resets, is touched. It holds of
  failed operations too, which is why a line that fails half way keeps the file.
* `Follows` is what a line keeps: the options of later orders are as in the file
  still, and those that were loaded agree again.
* Loading the devices: `Left` are the tracked devices the first k sections do not
  account for, `ReadIn` those the sections stand for. After the last section both
  together are tracked, and `RemoveDevs` removes the first (`Clear` is what
  `Sound` gives: the sections account for none of each other's devices).

Its second hypothesis is `ClassesExact`: the speeds given are classes, as 1024/256 of
`MCSpeeds` is. It is needed: with 5000/1000 in the file the option tracks what
`OPT_ADJUST` makes of it and the file keeps what the administrator wrote, so the two
differ until the option is set again; TLC shows it in two steps.

With the same two hypotheses, `ReloadIsIdle` shows `ReloadChangesNothing`: loading a
file nobody has touched takes no interface and no tunnel down, whatever it says. A
daemon whose file is as tracked is `Resting`, and then every call of the second walk
over the file answers `Ok(s)` or `Failure(s)` of the state it began with (`Still`):
what a section says is `Known`, so `cleanup_patch()` leaves nothing of it to apply, to
derive again or to track, and a ttl that is not in the section is reset only where
there was none; every tracked device has a section, so none is removed (`NoneLeft`). It
holds of the check and of applying, and so no `paranoia()` fails between the two.

What a function makes of a list or of a number of rounds is proved in `WalkLemmas`
and with it: the library's induction theorems take an operator as a parameter,
which the provers cannot instantiate, but a property of numbers can be given as
the set of the numbers that have it, and then `UpTo` (by the least counterexample)
is an induction, `WalkExists` gives the functions of the model their values and
`WalkUnique` their equality. `WalkThrough` says in which sets of outcomes a walk
stays whose steps lead from one set to the next.

The theorems speak of the specifications without fairness; where a run checks one
with fairness, or with a variable of the instance, the properties are the same. They
assume the named ASSUMEs of the modules they are about, which TLC evaluates in the
runs, and the hypotheses named above, which the constants of the passing runs
satisfy.

Left to TLC:

* liveness: `StaleOriginatorsPurged`, `Fades`, `KeepsAnnouncing`, `KeepsAddress`,
  `AnswersClients`; the provers have neither ENABLED nor fairness;
* `Balanced` and `ImplementsSortedSet` of `AvlTree`: rotations along the path of
  an insertion need the tree's shape as a recursive notion.

## What is not modelled, and the plan

Next, in this order:

1. the balance of `AvlTree` for any keys;
2. `strip_packet` and `process_packet`: which malformed packets end a handler half
   way;
3. the clock correction in `update_batman_time()`.

Not modelled, and why:

* status output, debug levels, argument parsing and formatting: wording only;
* packet hooks (plugin.c:141): the list is walked one entry behind and a hook may
  unregister others, but no plugin of the repository registers one;
* SIGHUP runs the reload inside the signal handler (uci_config.c:50). `Options`
  has it between two handlers. Inside one, any pointer on the stack may be stale;
  no property of the daemon survives that, and there is none to check;
* the vis and service plugins: an announcement equals the configuration, without
  the conflicts and routes that make HNA worth a model;
* memory and profiling wrappers, the map and the example plugin: no behaviour of
  their own; hash.c is not compiled into the daemon;
* the gateway check script: what it does depends on the answers of ping, wget and
  nslookup in an order of interfaces; its own state is a routing table and a file;
* the installation scripts, web pages, configuration files and the vendored
  archives (fastd, tinc, vtun, json, nuttcp, qrencode).

Abstractions of the newer modules beyond those named with them: of the data a
tunnel carries only whether some arrived counts, and ICMP is not told apart
(tunnel.c uses it to tell verified from unverified gateways); a refusal of the
kernel that bmxd does not itself cause is left out; users act while `select()`
waits, as the loop would notice no earlier; tasks with data are left out; the
sections of the configuration file are in a fixed order.

## Files

`PROJECT.json` lists components, runs with their properties, mutations of the
definitions that make each property fail, the lines of code each definition
stands for, the hazards of the code and the theorems. A definition marked
"Mutant" is such a mutation and is used nowhere else.
