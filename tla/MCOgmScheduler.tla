--------------------------- MODULE MCOgmScheduler ---------------------------
(* Instances of OgmScheduler for TLC: interface A is an ethernet and the    *)
(* primary, B wireless, L a loopback alias.  A hundred is 2.                *)
EXTENDS OgmScheduler

CONSTANTS A, B, L

TwoIfs == {A, B}
ThreeIfs == {A, B, L}

(* One copy on A, one or two on B (150). *)
SomeCopies == [i \in Ifs |-> IF i = A THEN 2 ELSE 3]
OneCopy == [i \in Ifs |-> 2]

DivOne == [i \in Ifs |-> 1]
DivB == [i \in Ifs |-> IF i = B THEN 2 ELSE 1]

OwnFits == [i \in Ifs |-> IF i = PrimaryIf THEN 4 ELSE 2]

(* The primary's OGM passes the check of schedule_own_ogm() exactly. *)
OwnAtLimit == [i \in Ifs |-> IF i = PrimaryIf THEN Pref ELSE 2]

Ogm(direct, best, cloned, asocial, ttl, len) ==
    [direct |-> direct, best |-> best, cloned |-> cloned, asocial |-> asocial,
     ttl |-> ttl, len |-> len]

(* From a neighbour over the best path; over another one, to be told so;   *)
(* from afar and longer than the preferred size, longer than the legal one. *)
SomeOgms ==
    { Ogm(TRUE, TRUE, FALSE, FALSE, 1, 2),
      Ogm(TRUE, FALSE, FALSE, FALSE, 2, 2),
      Ogm(FALSE, TRUE, FALSE, FALSE, 2, 6),
      Ogm(FALSE, TRUE, TRUE, FALSE, 2, 8) }
FewOgms == { Ogm(FALSE, TRUE, FALSE, FALSE, 2, 2) }
NoOgms == {}
=============================================================================
