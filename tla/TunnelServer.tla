---------------------------- MODULE TunnelServer ----------------------------
(* The gateway's side of a two-way tunnel (tunnel.c, the gws functions):    *)
(* the table of leased virtual addresses. An entry is freed when its client *)
(* has not renewed it for the lease time.                                   *)
EXTENDS Naturals, FiniteSetsExt

CONSTANTS
    None,        \* a NULL pointer
    Size,        \* my_tun_suffix_mask_h: entry 0 and Size itself are not leased
    Clients,     \* the addresses clients ask from
    First        \* i_random: where the search for a client's entry begins

ASSUME TunnelServerAssumption ==
    /\ Size \in Nat \ {0, 1}
    /\ First \in [Clients -> 1..(Size - 1)]
    /\ None \notin [client : Clients, age : Nat]

Addrs == 1..(Size - 1)
NoAddr == 0

Lease(c) == [client |-> c, age |-> 0]
NoLeases == [a \in Addrs |-> None]

HeldBy(l, a, c) == a \in Addrs /\ l[a] # None /\ l[a].client = c

(* The entries in the order the two cycles of gws_get_ip_addr visit them.   *)
Rank(c, a) == IF a >= First[c] THEN a ELSE a + Size
Foremost(c, S) == CHOOSE a \in S : \A b \in S : Rank(c, a) <= Rank(c, b)

(* Mutant: an entry the client already has is found in the first cycle only. *)
OwnUp(l, c) == {a \in Addrs : a >= First[c] /\ HeldBy(l, a, c)}

(* What the search finds for a client: its own entry, or a free one.        *)
Own(l, c) == {a \in Addrs : HeldBy(l, a, c)}
Unleased(l) == {a \in Addrs : l[a] = None}

(* gws_get_ip_addr: the address for client c, which would like pref.        *)
Chosen(l, c, pref) ==
    IF HeldBy(l, pref, c) THEN pref
    ELSE IF Own(l, c) # {} THEN Foremost(c, Own(l, c))
    ELSE IF pref \in Unleased(l) THEN pref
    ELSE IF Unleased(l) # {} THEN Foremost(c, Unleased(l))
    ELSE NoAddr

(* Mutant: renewing an entry leaves its time alone. *)
GrantedOnce(l, c, a) == IF a = NoAddr \/ HeldBy(l, a, c) THEN l ELSE [l EXCEPT ![a] = Lease(c)]

(* The table after it: the entry is new, or its keep-alive time is.         *)
Granted(l, c, a) == IF a = NoAddr THEN l ELSE [l EXCEPT ![a] = Lease(c)]

(* gws_cleanup_leased_tun_ips; a lease time of zero frees every entry.      *)
Expired(l, lt) ==
    [a \in Addrs |-> IF l[a] # None /\ (lt = 0 \/ l[a].age >= lt) THEN None ELSE l[a]]

(* Time passes for the entries of the clients in C; ages are capped.         *)
Aged(l, C, d, cap) ==
    [a \in Addrs |-> IF l[a] = None \/ l[a].client \notin C THEN l[a]
                     ELSE [l[a] EXCEPT !.age = Min({@ + d, cap})]]
=============================================================================
