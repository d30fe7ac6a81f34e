----------------------------- MODULE LinkedList -----------------------------
(* list-batman.c: the lists of bmxd, linked in one direction only.  The head *)
(* knows the first and the last entry, an entry only the next one, so that   *)
(* who inserts or deletes says what comes before: the entry it has seen      *)
(* while walking the list, or the head.                                      *)
EXTENDS Integers, SequencesExt

CONSTANTS Entries, Anchor

(* No entry, and not the head.                                                *)
Null == "null"

ASSUME ListAssumption == IsFiniteSet(Entries) /\ Entries \cap {Anchor, Null} = {}

VARIABLES
  next,   \* [Entries and the head -> an entry, or the head behind the last]
  prev    \* of the head: the last entry, or the head

listVars == <<next, prev>>

(* list_for_each(): the entries from the first on.                            *)
Walked ==
  LET w[n \in 0..Cardinality(Entries)] ==
        IF n = 0 THEN <<>>
        ELSE LET seen == w[n - 1]
                 at == IF seen = <<>> THEN Anchor ELSE seen[Len(seen)]
             IN  IF next[at] \in {Anchor, Null} THEN seen ELSE Append(seen, next[at])
  IN  w[Cardinality(Entries)]

Before(e) == CHOOSE p \in Range(Walked) \cup {Anchor} : next[p] = e
Unused == Entries \ Range(Walked)

ListInit ==
  /\ next = [e \in Entries \cup {Anchor} |-> IF e = Anchor THEN Anchor ELSE Null]
  /\ prev = Anchor

(* list_add()                                                                 *)
PrevAfterAdd(e) == IF prev = Anchor THEN e ELSE prev

Add(e) ==
  /\ e \in Unused
  /\ next' = [next EXCEPT ![e] = next[Anchor], ![Anchor] = e]
  /\ prev' = PrevAfterAdd(e)

(* list_add_tail()                                                            *)
AddTail(e) ==
  /\ e \in Unused
  /\ next' = [next EXCEPT ![e] = Anchor, ![prev] = e]
  /\ prev' = e

(* list_add_before(), where a walk has stopped.                               *)
AddBefore(e, at) ==
  /\ e \in Unused /\ at \in Range(Walked)
  /\ next' = [next EXCEPT ![Before(at)] = e, ![e] = at]
  /\ UNCHANGED prev

(* list_del() of an entry a walk has come to.                                 *)
(* Mutant: the head keeps the entry as its last.                              *)
PrevAfterDelKept(e) == prev
PrevAfterDel(e) == IF prev = e THEN Before(e) ELSE prev

Del(e) ==
  /\ e \in Range(Walked)
  /\ prev' = PrevAfterDel(e)
  /\ next' = [next EXCEPT ![Before(e)] = next[e], ![e] = Null]

ListNext ==
  \E e \in Entries : Add(e) \/ AddTail(e) \/ Del(e) \/ \E at \in Entries : AddBefore(e, at)

ListSpec == ListInit /\ [][ListNext]_listVars

(* A list is the sequence its users take it for: whatever the order of        *)
(* insertions and deletions, an entry that is appended is found behind all    *)
(* others by the next walk, and none is lost or left in after its deletion.   *)
(* What a walk finds depends on the links alone, so that this is              *)
(* AsSequence!Spec.                                                           *)
AsSequence == INSTANCE ListSequence WITH seq <- Walked
ImplementsSequence ==
  AsSequence!Init /\ [][next' # next => [AsSequence!Next]_Walked]_next
=============================================================================
