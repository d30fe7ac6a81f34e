------------------------------ MODULE MCParts ------------------------------
(* Four parts of bmxd that keep their state to themselves, model-checked in  *)
(* one run: a behaviour belongs to one of them, and the others rest.         *)
EXTENDS EventLoop, Interfaces, LinkedList

VARIABLES part, tree, reply

MCPeriod == [check_interfaces |-> 2, choose_gw |-> 2]

(* An interface and its alias; what is wrong with them differs.               *)
MCPhy == [a |-> "eth", b |-> "eth"]
MCKernels ==
  LET Is(up, addr, mtu) == [up |-> up, addr |-> addr, mtu |-> mtu]
  IN  {Is(TRUE, "1", 3), Is(TRUE, "1", 1), Is(TRUE, "2", 1), Is(TRUE, "0.0.0.0", 3),
       Is(FALSE, "1", 3)}
Tree == INSTANCE AvlTree WITH Keys <- 1..8, Nil <- 0, MaxHeight <- 5

ASSUME PartsAssumption == Tree!AvlAssumption

treeVars == <<tree, reply>>
partsVars == <<part, loopVars, vars, treeVars, listVars>>

Parts == {"loop", "interfaces", "tree", "list"}

(* A part that rests has one initial state.                                   *)
PartsInit ==
  /\ part \in Parts
  /\ LoopInit /\ (part # "loop" => scene = "tunnel")
  /\ Init
  /\ part # "interfaces" => ~pedantic /\ (\A d \in Devs : ~kernel[d].up)
                                      /\ (\A f \in Files : original[f] = CHOOSE o \in Originals : TRUE)
  /\ Tree!Init
  /\ ListInit

Turn(p) == part = p /\ part' = part

LoopStep(A) == Turn("loop") /\ A /\ UNCHANGED <<vars, treeVars, listVars>>

PartsNext ==
  \/ Turn("loop") /\ LoopNext /\ UNCHANGED <<vars, treeVars, listVars>>
  \/ Turn("interfaces") /\ Next /\ UNCHANGED <<loopVars, treeVars, listVars>>
  \/ Turn("tree") /\ Tree!Next /\ UNCHANGED <<loopVars, vars, listVars>>
  \/ Turn("list") /\ ListNext /\ UNCHANGED <<loopVars, vars, treeVars>>

PartsSpec == PartsInit /\ [][PartsNext]_partsVars

(* The fairness of the main loop.                                             *)
PartsFairSpec ==
  /\ PartsSpec
  /\ WF_partsVars(LoopStep(Loop)) /\ WF_partsVars(LoopStep(Tick)) /\ SF_partsVars(LoopStep(Select))
----------------------------------------------------------------------------
(* The trees of avl.c are balanced: see AvlTree.                              *)
Balanced == Tree!Balanced

(* The trees of avl.c are sorted sets: see ImplementsSortedSet of AvlTree.    *)
(* The steps of the other parts leave the tree alone.                         *)
ImplementsSortedSet ==
  Tree!Sorted!Init /\ [][Turn("tree") => [Tree!Sorted!Next]_(Tree!Sorted!vars)]_partsVars
=============================================================================
