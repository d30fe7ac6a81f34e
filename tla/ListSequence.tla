---------------------------- MODULE ListSequence ----------------------------
(* What the users of list-batman.c rely on: a sequence of entries, with one  *)
(* more in front, behind or before an entry, or one less, in the same order. *)
EXTENDS Integers, SequencesExt

CONSTANT Entries

VARIABLE seq

Free == Entries \ Range(seq)

Init == seq = <<>>

Add(e) == e \in Free /\ seq' = <<e>> \o seq
AddTail(e) == e \in Free /\ seq' = Append(seq, e)
AddBefore(e, i) == e \in Free /\ seq' = InsertAt(seq, i, e)
Del(i) == seq' = RemoveAt(seq, i)

Next ==
  \/ \E e \in Entries : Add(e) \/ AddTail(e)
  \/ \E i \in DOMAIN seq : Del(i) \/ \E e \in Entries : AddBefore(e, i)

Spec == Init /\ [][Next]_seq
=============================================================================
