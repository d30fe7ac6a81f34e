---------------------------- MODULE MCOriginator ----------------------------
(* Small networks for Originator.                                          *)
EXTENDS Originator

CONSTANTS a, b      \* interfaces

OgmOf(o, n, i, p) == [orig |-> o, neigh |-> n, iif |-> i, pip |-> p, cloned |-> FALSE]

OneIf  == {a}
TwoIfs == {a, b}

(* A neighbouring node with its primary interface 2 and another one, 1,    *)
(* that we hear on both of ours: it sends its own OGM and the primary's,   *)
(* and the routes to both move between our interfaces.                     *)
RelayedOgms == { OgmOf(1, 1, a, 2), OgmOf(1, 1, b, 2),
                 OgmOf(2, 1, a, NULL), OgmOf(2, 1, b, NULL) }
RelayedEchoes == { <<1, a>>, <<1, b>> }

(* 1, 2 and 3 are interfaces of a neighbouring node, which is reconfigured: *)
(* 1 and 2 have each been the primary of the other, and 3 has become one.   *)
RenumberedOgms == { OgmOf(1, 1, a, 2), OgmOf(2, 2, a, 1), OgmOf(2, 2, a, NULL),
                    OgmOf(3, 3, a, NULL) }

(* 1 is the primary interface of the node and 2 another one. *)
DownwardOgms == { OgmOf(1, 1, a, NULL), OgmOf(2, 2, b, 1) }
=============================================================================
