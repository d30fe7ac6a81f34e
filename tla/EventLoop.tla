----------------------------- MODULE EventLoop -----------------------------
(* The main loop of bmxd: the list of tasks (schedule.c), the descriptors    *)
(* select() waits for, and who is served when they are readable: the packet  *)
(* sockets of an interface, the hooks of the plugins (the two descriptors of *)
(* a tunnel, the socket of http_info), and the control clients.              *)
(*                                                                           *)
(* A descriptor is a small number the kernel gives out again as soon as it   *)
(* is closed: whoever holds on to one that was closed watches, reads or      *)
(* closes somebody else's.  One pass of wait4Event() is several steps, so    *)
(* that clients and the network act between them.                            *)
EXTENDS Integers, FiniteSetsExt, SequencesExt

CONSTANTS
  Clients,        \* users of the control socket
  Browsers,       \* users of http_info
  MaxFd,          \* descriptors the kernel can give out
  MaxSelect,      \* MAX_SELECT_TIMEOUT_MS
  Period,         \* [task -> when it registers itself again]
  ClosingTimeout, \* CTRL_CLOSING_TIMEOUT
  RegularTimeout, \* of the regular tasks, 1000 ms
  MaxEvents,      \* interface events of a behaviour
  MaxNodes        \* control nodes, ended ones included

Users == Clients \cup Browsers
Sources == {"ifevent", "unix", "dev", "udp", "tun", "http"}
Free == "free"

(* The descriptors suffice for all sources and control nodes.                 *)
ASSUME LoopAssumption ==
  /\ Clients \cap Browsers = {} /\ IsFiniteSet(Users)
  /\ Users \cap (Sources \cup {Free}) = {}
  /\ {MaxSelect, ClosingTimeout, RegularTimeout, MaxEvents} \subseteq Nat
  /\ {MaxFd, MaxNodes} \subseteq Nat /\ MaxFd >= Cardinality(Sources) + MaxNodes
  /\ Period \in [{"check_interfaces", "choose_gw"} -> Nat \ {0}]

None == 0
NoFds == [s \in Sources |-> None]
Forever == 99

VARIABLES
  pc,         \* where the loop is
  tasks,      \* task_list: a sequence of [task, due], due counted from now
  wait,       \* return_time of wait4Event(), counted from now
  regular,    \* time since the regular tasks
  open,       \* the kernel's descriptors: [1..MaxFd -> whose]
  fdOf,       \* the descriptors the daemon keeps for its sources
  hooks,      \* cb_fd_list: a sequence of sources
  nodes,      \* ctrl_list: a sequence of [user, fd, closing]
  watched,    \* receive_wait_set
  changed,    \* changed_readfds
  ready,      \* tmp_wait_set
  selected,   \* what select() has returned, less what was handled
  conn,       \* the users' connections: "none", "queued", "open"
  sent,       \* what a user has sent that was not read
  scene,      \* what comes and goes: the "tunnel" or the "interface"
  events      \* interface events that are still to come

loop == <<pc, tasks, wait, regular>>
table == <<open, fdOf, hooks, nodes, watched, changed>>
users == <<conn, sent, scene, events>>
loopVars == <<loop, table, ready, selected, users>>

(* A line, an invalid one or the demand to end, or nothing any more.          *)
Sent == {"nothing", "line", "bad", "gone"}

LoopTypes ==
  /\ pc \in {"main", "select", "packets", "hooks", "accept", "clients", "regular"}
  /\ open \in [1..MaxFd -> Sources \cup Users \cup {Free}]
  /\ fdOf \in [Sources -> 0..MaxFd]
  /\ watched \subseteq 0..MaxFd /\ ready \subseteq watched
  /\ conn \in [Users -> {"none", "queued", "open"}]
  /\ sent \in [Users -> Sent]
----------------------------------------------------------------------------
(* register_task() and remove_task(), on the sequence; among tasks due at the *)
(* same time the new one is last.                                             *)
(* Mutant: the new one goes before the first that is due no later.            *)
RegisterWrong(ts, task, due) ==
  LET later == {i \in DOMAIN ts : ts[i].due <= due}
  IN  InsertAt(ts, IF later = {} THEN Len(ts) + 1 ELSE Min(later), [task |-> task, due |-> due])

Register(ts, task, due) ==
  LET later == {i \in DOMAIN ts : ts[i].due > due}
  IN  InsertAt(ts, IF later = {} THEN Len(ts) + 1 ELSE Min(later), [task |-> task, due |-> due])

(* What list_for_each_safe() leaves of a list when it deletes some entries.   *)
Left(list, gone) ==
  LET w[n \in 0..Len(list)] ==
        IF n = 0 THEN <<>>
        ELSE IF n \in gone THEN w[n - 1] ELSE Append(w[n - 1], list[n])
  IN  w[Len(list)]

RemoveTask(ts, task) == Left(ts, {i \in DOMAIN ts : ts[i].task = task})

Later(ts) == [i \in DOMAIN ts |-> [ts[i] EXCEPT !.due = IF @ > -1 THEN @ - 1 ELSE @]]

(* The daemon's tables, as the handlers pass them on.                         *)
Tables == [open |-> open, fdOf |-> fdOf, hooks |-> hooks, nodes |-> nodes,
           changed |-> changed, tasks |-> tasks, conn |-> conn, sent |-> sent]

Lowest(t) == Min({fd \in 1..MaxFd : t.open[fd] = Free})

(* socket() or open() for a source; close().                                  *)
OpenSource(t, s) ==
  [t EXCEPT !.open[Lowest(t)] = s, !.fdOf[s] = Lowest(t), !.changed = TRUE]
CloseSource(t, s) ==
  IF t.fdOf[s] = None THEN t
  ELSE [t EXCEPT !.open[t.fdOf[s]] = Free, !.fdOf[s] = None, !.changed = TRUE]

(* set_fd_hook() for an open source, and its removal.                         *)
Hook(t, s) == [OpenSource(t, s) EXCEPT !.hooks = Append(@, s)]
Unhook(t, s) == [CloseSource(t, s) EXCEPT !.hooks = Left(@, {i \in DOMAIN @ : @[i] = s})]

(* gwc_cleanup() and gwc_init(), as far as descriptors are concerned.         *)
CleanupTunnel(t) == Unhook(Unhook(t, "tun"), "udp")
InitTunnel(t) == Hook(Hook(CleanupTunnel(t), "udp"), "tun")

(* if_deactivate() and if_activate() of the one interface that comes and      *)
(* goes, as check_interfaces() finds it; the task is registered again.        *)
CheckedIfs(t, up) ==
  LET u == IF up /\ t.fdOf["dev"] = None THEN OpenSource(t, "dev")
           ELSE IF ~up THEN CloseSource(t, "dev") ELSE t
  IN  [u EXCEPT !.tasks = Register(RemoveTask(@, "check_interfaces"), "check_interfaces",
                                   Period["check_interfaces"])]
Up == IF scene = "interface" THEN BOOLEAN ELSE {TRUE}
----------------------------------------------------------------------------
(* close_ctrl_node(): an ended connection is closed at once and its node kept *)
(* until CTRL_CLEANUP; a delayed one is only marked.                          *)
Cut(f, gone, value) == [x \in DOMAIN f |-> IF x \in gone THEN value ELSE f[x]]

Dropped(t, closed) ==
  LET still == {i \in closed : t.nodes[i].fd # None}
      whose == {t.nodes[i].user : i \in still}
  IN  [t EXCEPT !.open = Cut(@, {t.nodes[i].fd : i \in still}, Free),
                !.conn = Cut(@, whose, "none"), !.sent = Cut(@, whose, "nothing"),
                !.changed = @ \/ still # {}]

(* Mutant: the node keeps the number of the closed descriptor.                *)
CloseEndedKept(t, i) ==
  [Dropped(t, {i}) EXCEPT !.nodes[i].closing = 0]

CloseEnded(t, i) ==
  [Dropped(t, {i}) EXCEPT !.nodes[i] = [@ EXCEPT !.fd = None, !.closing = 0]]

CloseStraight(t, i) == [Dropped(t, {i}) EXCEPT !.nodes = Left(@, {i})]

(* Mutant: every connection that is to be closed some day.                    *)
OverdueAny(n) == n.closing > -1

Overdue(n) == n.closing > ClosingTimeout

Cleanup(t) ==
  LET old == {i \in DOMAIN t.nodes : Overdue(t.nodes[i])}
  IN  [Dropped(t, old) EXCEPT !.nodes = Left(@, old)]

Older(ns) ==
  [i \in DOMAIN ns |-> [ns[i] EXCEPT !.closing =
     IF @ \in 0..ClosingTimeout THEN @ + 1 ELSE @]]

(* accept(): the first of the queued users gets the lowest free descriptor;   *)
(* http_info closes its connections after CTRL_CLOSING_TIMEOUT at the latest. *)
Accept(t, u) ==
  [t EXCEPT !.open[Lowest(t)] = u, !.conn[u] = "open", !.changed = TRUE,
            !.nodes = Append(@, [user |-> u, fd |-> Lowest(t),
                                 closing |-> IF u \in Browsers THEN 0 ELSE -1])]

Queued(U) == {u \in U : conn[u] = "queued"}

(* check_selects()                                                            *)
Wanted(t) ==
  {t.fdOf["ifevent"], t.fdOf["unix"]}
  \cup {t.nodes[i].fd : i \in {j \in DOMAIN t.nodes : t.nodes[j].fd > 0}}
  \cup {fd \in {t.fdOf["dev"]} : fd # None}
  \cup {t.fdOf[t.hooks[i]] : i \in DOMAIN t.hooks}

Selects == IF changed THEN Wanted(Tables) ELSE watched

(* What the kernel may find readable: from the network anything may have come *)
(* at any time.                                                               *)
Readable(fd, net) ==
  CASE open[fd] = "unix" -> Queued(Clients) # {}
    [] open[fd] = "http" -> Queued(Browsers) # {}
    [] open[fd] \in Users -> sent[open[fd]] # "nothing"
    [] OTHER -> open[fd] \in net

Network == {"dev", "udp", "tun"} \cup {s \in {"ifevent"} : events > 0}
----------------------------------------------------------------------------
StoreTables(t) ==
  /\ open' = t.open /\ fdOf' = t.fdOf /\ hooks' = t.hooks /\ nodes' = t.nodes
  /\ changed' = t.changed /\ tasks' = t.tasks /\ conn' = t.conn /\ sent' = t.sent

Start ==
  LET empty == [open |-> [fd \in 1..MaxFd |-> Free], fdOf |-> NoFds, hooks |-> <<>>,
                nodes |-> <<>>, changed |-> TRUE, tasks |-> <<>>,
                conn |-> [u \in Users |-> "none"], sent |-> [u \in Users |-> "nothing"]]
  IN  [Hook(OpenSource(OpenSource(OpenSource(empty, "ifevent"), "unix"), "dev"), "http")
         EXCEPT !.tasks = Register(Register(<<>>, "choose_gw", Period["choose_gw"]),
                                   "check_interfaces", Period["check_interfaces"])]

LoopInit ==
  /\ pc = "main" /\ wait = 0 /\ regular = 0
  /\ open = Start.open /\ fdOf = Start.fdOf /\ hooks = Start.hooks /\ nodes = Start.nodes
  /\ changed = Start.changed /\ tasks = Start.tasks
  /\ conn = Start.conn /\ sent = Start.sent
  /\ watched = {} /\ ready = {} /\ selected = 0
  /\ scene \in {"tunnel", "interface"}
  /\ events = IF scene = "interface" THEN MaxEvents ELSE 0

(* whats_next(): one task that is due, else how long to wait for the next.    *)
(* cb_choose_gw() registers itself and may set up a tunnel.                   *)
RunTask ==
  /\ pc = "main" /\ tasks # <<>> /\ Head(tasks).due <= 0
  /\ LET t == [Tables EXCEPT !.tasks = Tail(tasks)]
     IN  \/ /\ Head(tasks).task = "check_interfaces"
            /\ \E up \in Up : StoreTables(CheckedIfs(t, up))
         \/ /\ Head(tasks).task = "choose_gw"
            /\ LET u == [t EXCEPT !.tasks = Register(@, "choose_gw", Period["choose_gw"])]
               IN  StoreTables(u) \/ (scene = "tunnel" /\ StoreTables(InitTunnel(u)))
  /\ pc' = "regular"
  /\ UNCHANGED <<wait, regular, watched, ready, selected, scene, events>>

Wait4Event ==
  /\ pc = "main" /\ (tasks = <<>> \/ Head(tasks).due > 0)
  /\ wait' = Min({MaxSelect} \cup {tasks[i].due : i \in DOMAIN tasks})
  /\ pc' = "select"
  /\ UNCHANGED <<tasks, regular, table, ready, selected, users>>

(* The regular tasks of batman(), as far as clients are concerned.            *)
Regular ==
  /\ pc = "regular" /\ pc' = "main"
  /\ IF regular > RegularTimeout THEN StoreTables(Cleanup(Tables)) /\ regular' = 0
     ELSE UNCHANGED <<open, fdOf, hooks, nodes, changed, tasks, conn, sent, regular>>
  /\ UNCHANGED <<wait, watched, ready, selected, scene, events>>

(* select() blocks until something is readable or the time is over; it fails  *)
(* for a descriptor that is closed.  A change of an interface ends the pass.  *)
SelectFails ==
  /\ pc = "select" /\ wait > 0
  /\ \E fd \in Selects : fd = None \/ open[fd] = Free
  /\ watched' = Selects /\ changed' = FALSE
  /\ pc' = "regular"
  /\ UNCHANGED <<tasks, wait, regular, open, fdOf, hooks, nodes, ready, selected, users>>

Select ==
  /\ pc = "select" /\ wait > 0
  /\ \A fd \in Selects : fd # None /\ open[fd] # Free
  /\ \E net \in SUBSET Network :
       \E r \in {{fd \in Selects : Readable(fd, net)}} :
         /\ r # {} /\ net \subseteq {open[fd] : fd \in r}
         /\ watched' = Selects
         /\ IF "ifevent" \in net
            THEN /\ pc' = "regular" /\ events' = events - 1
                 /\ \E up \in Up : StoreTables(CheckedIfs([Tables EXCEPT !.changed = FALSE], up))
                 /\ UNCHANGED <<ready, selected>>
            ELSE /\ pc' = "packets" /\ ready' = r /\ selected' = Cardinality(r) /\ changed' = FALSE
                 /\ UNCHANGED <<open, fdOf, hooks, nodes, tasks, conn, sent, events>>
  /\ UNCHANGED <<wait, regular, scene>>

TimeOver ==
  /\ pc = "select" /\ wait = 0 /\ pc' = "regular"
  /\ UNCHANGED <<tasks, wait, regular, table, ready, selected, users>>

(* After something was handled: back to select() when that was all.           *)
(* Mutant: back to select() in any case.                                      *)
HandledOne(rest, phase) == selected' = 0 /\ ready' = {} /\ pc' = "select"

Handled(rest, phase) ==
  /\ selected' = selected - 1
  /\ IF selected = 1 THEN pc' = "select" /\ ready' = {} ELSE pc' = phase /\ ready' = rest

(* Without a packet after all (EAGAIN) the socket is not counted as handled.  *)
Packets ==
  /\ pc = "packets"
  /\ \/ fdOf["dev"] \in ready /\ Handled(ready, "hooks")
     \/ pc' = "hooks" /\ UNCHANGED <<ready, selected>>
  /\ UNCHANGED <<tasks, wait, regular, table, users>>

(* The first hook whose descriptor is readable; the list is walked from its   *)
(* start again afterwards.  What a tunnel receives may end it.                *)
DueHooks == {i \in DOMAIN hooks : fdOf[hooks[i]] \in ready}

Hooks ==
  /\ pc = "hooks" /\ DueHooks # {}
  /\ \E s \in {hooks[Min(DueHooks)]} :
       /\ Handled(ready \ {fdOf[s]}, "hooks")
       /\ \/ s \in {"udp", "tun"} /\ (StoreTables(Tables) \/ StoreTables(CleanupTunnel(Tables)))
          \/ s = "http" /\ \E u \in Queued(Browsers) : StoreTables(Accept(Tables, u))
  /\ UNCHANGED <<wait, regular, watched, scene, events>>

NoHook ==
  /\ pc = "hooks" /\ DueHooks = {} /\ pc' = "accept"
  /\ UNCHANGED <<tasks, wait, regular, table, ready, selected, users>>

(* accept_ctrl_node()                                                         *)
AcceptClient ==
  /\ pc = "accept"
  /\ IF fdOf["unix"] \in ready
     THEN /\ Handled(ready, "clients")
          /\ \E u \in Queued(Clients) : StoreTables(Accept(Tables, u))
     ELSE /\ pc' = "clients"
          /\ UNCHANGED <<ready, selected, open, fdOf, hooks, nodes, changed, tasks, conn, sent>>
  /\ UNCHANGED <<wait, regular, watched, scene, events>>

(* What a line does besides being answered: nothing, an interface is taken in *)
(* or out, a tunnel is ended.                                                 *)
Line(t) ==
  \/ StoreTables(t)
  \/ \E up \in Up : StoreTables(CheckedIfs(t, up))
  \/ StoreTables(CleanupTunnel(t))

(* handle_ctrl_node(), and http_info_rcv_tcp_data(), which closes in any case. *)
Served(t, i) ==
  LET u == t.nodes[i].user
  IN  CASE u \in Browsers -> StoreTables(CloseStraight(t, i))
        [] u \in Clients /\ sent[u] = "line" -> Line([t EXCEPT !.sent[u] = "nothing"])
        [] u \in Clients /\ sent[u] = "bad" -> StoreTables(CloseEnded(t, i))
        [] OTHER -> StoreTables(CloseStraight(t, i))

DueNodes == {i \in DOMAIN nodes : nodes[i].fd \in ready}

HandleClient ==
  /\ pc = "clients" /\ DueNodes # {}
  /\ \E i \in {Min(DueNodes)} : Served(Tables, i) /\ ready' = ready \ {nodes[i].fd}
  /\ UNCHANGED <<pc, wait, regular, watched, selected, scene, events>>

(* The descriptors of this pass are a local variable.                         *)
PassEnds ==
  /\ pc = "clients" /\ DueNodes = {}
  /\ pc' = "regular" /\ ready' = {} /\ selected' = 0
  /\ UNCHANGED <<tasks, wait, regular, table, users>>
----------------------------------------------------------------------------
(* Time and the users.  What they do during a pass is only seen by the next   *)
(* select(), so they act while the daemon waits.                              *)
Tick ==
  /\ pc = "select" /\ wait > 0
  /\ wait' = wait - 1 /\ regular' = IF regular > RegularTimeout THEN regular ELSE regular + 1
  /\ tasks' = Later(tasks)
  /\ nodes' = Older(nodes)
  /\ UNCHANGED <<pc, open, fdOf, hooks, watched, changed, ready, selected, users>>

Connect(u) ==
  /\ pc = "select" /\ conn[u] = "none" /\ Len(nodes) + Cardinality(Queued(Users)) < MaxNodes
  /\ conn' = [conn EXCEPT ![u] = "queued"]
  /\ UNCHANGED <<loop, table, ready, selected, sent, scene, events>>

Send(u) ==
  /\ pc = "select" /\ conn[u] = "open" /\ sent[u] = "nothing"
  /\ \E what \in IF u \in Clients THEN Sent \ {"nothing"} ELSE {"line"} :
       sent' = [sent EXCEPT ![u] = what]
  /\ UNCHANGED <<loop, table, ready, selected, conn, scene, events>>

Loop ==
  \/ RunTask \/ Wait4Event \/ Regular
  \/ SelectFails \/ Select \/ TimeOver
  \/ Packets \/ Hooks \/ NoHook \/ AcceptClient \/ HandleClient \/ PassEnds

LoopNext ==
  \/ Loop
  \/ Tick
  \/ \E u \in Users : Connect(u) \/ Send(u)

LoopSpec == LoopInit /\ [][LoopNext]_loopVars

(* The process is scheduled, time passes, and each wait4Event() looks at the  *)
(* descriptors at least once before its time is over.                         *)
LoopFairSpec == LoopSpec /\ WF_loopVars(Loop) /\ WF_loopVars(Tick) /\ SF_loopVars(Select)
----------------------------------------------------------------------------
(* When select() is called every descriptor it is given is open and belongs   *)
(* to who watches it, and none that is open is forgotten: closing, taking     *)
(* over or reusing a descriptor never escapes check_selects().                *)
WatchedIsOpen ==
  pc = "select" =>
    /\ \A fd \in Selects : fd # None /\ open[fd] # Free
    /\ \A s \in Sources : fdOf[s] # None => open[fdOf[s]] = s /\ fdOf[s] \in Selects
    /\ \A i \in DOMAIN nodes : nodes[i].fd # None =>
         open[nodes[i].fd] = nodes[i].user /\ nodes[i].fd \in Selects
    /\ \A fd \in 1..MaxFd : open[fd] # Free => fd \in Selects

(* A connection is only closed for a reason: the user has hung up, asked for  *)
(* the end or sent something invalid, or it is http_info's and was answered   *)
(* or has been there for too long.  Nobody loses it to a descriptor that was  *)
(* somebody else's when select() returned.                                    *)
ClosedForAReason ==
  [][\A u \in Users :
       conn[u] = "open" /\ conn'[u] # "open" =>
         \/ sent[u] \in {"bad", "gone"}
         \/ u \in Browsers /\ (sent[u] = "line" \/ \E i \in DOMAIN nodes :
              nodes[i].user = u /\ nodes[i].closing > ClosingTimeout)]_loopVars

(* The list of tasks is in the order they are due in, and holds each periodic *)
(* task exactly once, though events, options and the tasks themselves all     *)
(* register them: none dies, none multiplies.                                 *)
TasksInOrder ==
  /\ \A i, j \in DOMAIN tasks : i < j => tasks[i].due <= tasks[j].due
  /\ \A task \in DOMAIN Period : Cardinality({i \in DOMAIN tasks : tasks[i].task = task}) = 1

(* A line is read and answered, whatever arrives on the other descriptors.    *)
AnswersClients == \A u \in Clients : sent[u] = "line" ~> sent[u] # "line"
=============================================================================
