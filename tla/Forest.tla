------------------------------- MODULE Forest -------------------------------
(***************************************************************************)
(* What a tree of XML nodes promises its user, without pointers: a node is *)
(* there or not, and has a sequence of children.  Nodes come and go, move  *)
(* from one place to another, and disappear with everything below them.    *)
(* MxmlTree implements it with links in the nodes.                         *)
(***************************************************************************)
EXTENDS FiniteSets, SequencesExt

CONSTANT Node

VARIABLES live,     \* the nodes there are
          kids      \* the children of every node, in order

vars == <<live, kids>>

(* The nodes below n, and n itself, when the children are those of k.       *)
Subtree(k, n) ==
  LET below[m \in Node] == {m} \cup UNION {below[c] : c \in ToSet(k[m])}
  IN  below[n]

Childless == [n \in Node |-> <<>>]

Init == live = {} /\ kids = Childless

(* The children when n is taken from wherever it is.                        *)
Without(n) == [p \in Node |-> RemoveFirst(kids[p], n)]

(* A node appears, alone or as the last child of p.                         *)
Appear(n) == n \notin live /\ live' = live \cup {n} /\ UNCHANGED kids

AppearUnder(n, p) ==
  /\ n \notin live
  /\ live' = live \cup {n}
  /\ kids' = [kids EXCEPT ![p] = Append(@, n)]

(* A node is taken out, or moved below p, at any place among its children.  *)
Detach(n) == kids' = Without(n) /\ UNCHANGED live

Move(n, p) ==
  /\ p \notin Subtree(kids, n)
  /\ \E i \in 1..(Len(Without(n)[p]) + 1) :
       kids' = [Without(n) EXCEPT ![p] = InsertAt(@, i, n)]
  /\ UNCHANGED live

(* A node disappears, and all below it.                                     *)
Prune(n) ==
  /\ live' = live \ Subtree(kids, n)
  /\ kids' = [p \in Node |-> IF p \in live' THEN Without(n)[p] ELSE <<>>]

Next ==
  \/ \E n \in Node : Appear(n)
  \/ \E n \in Node, p \in live : AppearUnder(n, p)
  \/ \E n, p \in live : Move(n, p)
  \/ \E n \in live : Detach(n) \/ Prune(n)

Spec == Init /\ [][Next]_vars
=============================================================================
