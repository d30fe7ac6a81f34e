----------------------------- MODULE SortedSet -----------------------------
(* What the users of avl.c rely on: a set of keys that can be asked for a    *)
(* key and for the least key above another, which is how every table of      *)
(* bmxd is walked while it may change.                                       *)
EXTENDS Integers, FiniteSetsExt

CONSTANTS Keys, Nil

VARIABLES
  elements, \* the keys
  reply     \* what the last operation has returned

vars == <<elements, reply>>

Above(k) == {e \in elements : e > k}

Init == elements = {} /\ reply = Nil

Insert(k) == k \notin elements /\ elements' = elements \cup {k} /\ UNCHANGED reply
Remove(k) == k \in elements /\ elements' = elements \ {k} /\ reply' = k
Find(k) == reply' = (IF k \in elements THEN k ELSE Nil) /\ UNCHANGED elements
NextKey(k) == reply' = (IF Above(k) = {} THEN Nil ELSE Min(Above(k))) /\ UNCHANGED elements

Next == \E k \in Keys : Insert(k) \/ Remove(k) \/ Find(k) \/ NextKey(k)

Spec == Init /\ [][Next]_vars
=============================================================================
