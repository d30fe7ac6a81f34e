------------------------------ MODULE AvlTree ------------------------------
(* avl.c: the balanced trees that hold originators, link nodes, neighbours   *)
(* and announced networks.  A node is named by the key it points to; a node  *)
(* that takes another one's key takes its name.  Callers look a key up       *)
(* before they insert it, so no key is there twice, and the directions that  *)
(* avl_insert() and avl_remove() save are those a comparison gives.          *)
EXTENDS Integers, Sequences, FiniteSetsExt

CONSTANTS Keys, Nil,
  MaxHeight \* AVL_MAX_HEIGHT, nodes on a path

AvlAssumption ==
  Keys \subseteq Nat /\ Nil \notin Keys /\ MaxHeight \in Nat \ {0}

VARIABLES
  tree,   \* struct avl_tree: [root, link, up, balance]
  reply   \* what the last operation has returned

vars == <<tree, reply>>

Sides == {0, 1}
Other(side) == 1 - side
Unlinked == [side \in Sides |-> Nil]

(* memcmp() <= 0                                                              *)
Side(node, k) == IF node <= k THEN 1 ELSE 0

Height(t, node) == IF node = Nil THEN -1 ELSE t.balance[node]
Taller(t, a, b) == Max({Height(t, a), Height(t, b)})
Measured(t, node) ==
  [t EXCEPT !.balance[node] = Taller(t, t.link[node][0], t.link[node][1]) + 1]

(* up[] of avl_insert() and avl_remove(): from the root towards k, as far as  *)
(* it goes or until "at" is reached.                                          *)
Path(t, k, at) ==
  LET p[n \in 1..MaxHeight] ==
        IF n = 1 THEN <<t.root>>
        ELSE LET q == p[n - 1]
                 node == q[Len(q)]
             IN  IF node = at \/ t.link[node][Side(node, k)] = Nil THEN q
                 ELSE Append(q, t.link[node][Side(node, k)])
  IN  p[MaxHeight]

(* A child and its pointer back; Nil has none.                                *)
Linked(t, parent, side, child) ==
  LET l == [t EXCEPT !.link[parent][side] = child]
  IN  IF child = Nil THEN l ELSE [l EXCEPT !.up[child] = parent]

(* The parent of a node now has another one in its place.                     *)
Replaced(t, parent, old, new) ==
  IF parent = Nil
  THEN LET r == [t EXCEPT !.root = new]
       IN  IF new = Nil THEN r ELSE [r EXCEPT !.up[new] = Nil]
  ELSE Linked(t, parent, CHOOSE side \in Sides : t.link[parent][side] = old, new)
----------------------------------------------------------------------------
(* avl_rotate_single(): the child on the other side comes to the top.         *)
RotateSingle(t, root, dir) ==
  LET save == t.link[root][Other(dir)]
      turned == Linked(Linked(t, root, Other(dir), t.link[save][dir]), save, dir, root)
  IN  Measured(Measured(turned, root), save)

RotateDouble(t, root, dir) ==
  LET child == t.link[root][Other(dir)]
      grand == t.link[child][dir]
  IN  RotateSingle(Linked(RotateSingle(t, child, Other(dir)), root, Other(dir), grand), root, dir)

(* A node that has become too heavy on one side is turned away from it, and   *)
(* its parent gets the one that came to the top.                              *)
Turned(t, node, parent, heavy, single) ==
  LET child == t.link[node][heavy]
      top == IF single THEN child ELSE t.link[child][Other(heavy)]
      r == IF single THEN RotateSingle(t, node, Other(heavy))
           ELSE RotateDouble(t, node, Other(heavy))
  IN  Replaced(r, parent, node, top)

Lean(t, node, side) == Height(t, t.link[node][side]) - Height(t, t.link[node][Other(side)])
Outer(t, node, heavy) == Height(t, t.link[t.link[node][heavy]][heavy])
Inner(t, node, heavy) == Height(t, t.link[t.link[node][heavy]][Other(heavy)])

(* avl_insert(): a leaf, and the way back until a height is as it was.        *)
Grown(t, node, parent, side) ==
  IF Lean(t, node, side) >= 2
  THEN Turned(t, node, parent, side, Outer(t, node, side) >= Inner(t, node, side))
  ELSE Measured(t, node)

Inserted(t, k) ==
  LET path == Path(t, k, Nil)
      up(i) == IF i = 1 THEN Nil ELSE path[i - 1]
      w[i \in 1..Len(path) + 1] ==
        IF i > Len(path)
        THEN [tree |-> Linked(t, path[Len(path)], Side(path[Len(path)], k), k), done |-> FALSE]
        ELSE LET last == w[i + 1]
                 lean == Lean(last.tree, path[i], Side(path[i], k))
             IN  IF last.done THEN last
                 ELSE [tree |-> Grown(last.tree, path[i], up(i), Side(path[i], k)),
                       done |-> lean = 0 \/ lean >= 2]
  IN  IF t.root = Nil THEN [t EXCEPT !.root = k] ELSE w[1].tree
----------------------------------------------------------------------------
(* avl_remove(): a node without two children is replaced by the one it has.   *)
Gone(t, node) == [t EXCEPT !.link[node] = Unlinked, !.up[node] = Nil, !.balance[node] = 0]

Bypassed(t, node, parent) ==
  Gone(Replaced(t, parent, node, t.link[node][IF t.link[node][0] = Nil THEN 1 ELSE 0]), node)

(* Another one takes the key of the least above it, which is unlinked first.  *)
(* Mutant: as if that were always a left child.                               *)
HeirSideLeft(parent, node) == 0
HeirSide(parent, node) == IF parent = node THEN 1 ELSE 0

Inherited(t, node, parent, heir, above) ==
  LET u == Linked(t, above, HeirSide(above, node), t.link[heir][1])
      r == Replaced([u EXCEPT !.balance[heir] = t.balance[node]], parent, node, heir)
  IN  Gone(Linked(Linked(r, heir, 0, u.link[node][0]), heir, 1, u.link[node][1]), node)

(* The way back: further while a height may have changed.                     *)
(* Mutant: a single turn only when the inner one is lower.                    *)
SingleStrict(t, node, heavy) == Inner(t, node, heavy) < Outer(t, node, heavy)
Single(t, node, heavy) == Inner(t, node, heavy) <= Outer(t, node, heavy)

Shrunk(t, node, parent, side) ==
  LET m == Measured(t, node)
  IN  IF Lean(m, node, side) >= -1 THEN m
      ELSE Turned(m, node, parent, Other(side), Single(m, node, Other(side)))

Removed(t, k) ==
  LET two == \A side \in Sides : t.link[k][side] # Nil
      path == Path(t, k, IF two THEN Nil ELSE k)
      heir == path[Len(path)]
      at == CHOOSE i \in DOMAIN path : path[i] = k
      parent == IF at = 1 THEN Nil ELSE path[at - 1]
      name(i) == IF i = 0 THEN Nil ELSE IF path[i] = k THEN heir ELSE path[i]
      w[i \in 1..Len(path)] ==
        IF i = Len(path)
        THEN [tree |-> IF two THEN Inherited(t, k, parent, heir, path[Len(path) - 1])
                       ELSE Bypassed(t, k, parent),
              done |-> FALSE]
        ELSE LET last == w[i + 1]
             IN  IF last.done THEN last
                 ELSE [tree |-> Shrunk(last.tree, name(i), name(i - 1), Side(path[i], k)),
                       done |-> Lean(last.tree, name(i), Side(path[i], k)) = -1]
  IN  w[1].tree
----------------------------------------------------------------------------
(* avl_find() and avl_next(), which remembers the last node it went left at.  *)
Found(t, k) ==
  LET an[n \in 1..MaxHeight] ==
        IF n = 1 THEN t.root
        ELSE LET last == an[n - 1]
             IN  IF last \in {k, Nil} THEN last ELSE t.link[last][Side(last, k)]
      end == an[MaxHeight]
  IN  IF end = k THEN k ELSE Nil

NextAbove(t, k) ==
  LET path == Path(t, k, Nil)
      left == {i \in DOMAIN path : Side(path[i], k) = 0}
  IN  IF t.root = Nil \/ left = {} THEN Nil ELSE path[Max(left)]

(* The nodes that are reached from the root.                                  *)
Nodes(t) ==
  LET level[n \in 1..MaxHeight] ==
        IF n = 1 THEN {t.root} \ {Nil}
        ELSE LET last == level[n - 1]
             IN  last \cup ({t.link[node][side] : node \in last, side \in Sides} \ {Nil})
  IN  level[MaxHeight]
----------------------------------------------------------------------------
Init ==
  /\ tree = [root |-> Nil, link |-> [k \in Keys |-> Unlinked], up |-> [k \in Keys |-> Nil],
             balance |-> [k \in Keys |-> 0]]
  /\ reply = Nil

Insert(k) == k \notin Nodes(tree) /\ tree' = Inserted(tree, k) /\ UNCHANGED reply
Remove(k) == k \in Nodes(tree) /\ tree' = Removed(tree, k) /\ reply' = k
Find(k) == reply' = Found(tree, k) /\ UNCHANGED tree
NextKey(k) == reply' = NextAbove(tree, k) /\ UNCHANGED tree

Next == \E k \in Keys : Insert(k) \/ Remove(k) \/ Find(k) \/ NextKey(k)

Spec == Init /\ [][Next]_vars
----------------------------------------------------------------------------
(* The stored heights are the heights, no two children differ by more than    *)
(* one, and every node knows its parent, after rotations on the way back from *)
(* any insertion or removal: the depth of the paths, which are kept in arrays *)
(* of a fixed size, stays logarithmic.                                        *)
Balanced ==
  \A node \in Nodes(tree) :
    /\ tree.balance[node] = Taller(tree, tree.link[node][0], tree.link[node][1]) + 1
    /\ Lean(tree, node, 0) \in -1..1
    /\ \A side \in Sides : tree.link[node][side] # Nil => tree.up[tree.link[node][side]] = node
    /\ tree.root = node => tree.up[node] = Nil

(* The tree behaves as a sorted set: no rotation and no exchange of keys      *)
(* loses a key or lets avl_find() or avl_next() miss one.                     *)
Sorted == INSTANCE SortedSet WITH elements <- Nodes(tree)
ImplementsSortedSet == Sorted!Spec
=============================================================================
