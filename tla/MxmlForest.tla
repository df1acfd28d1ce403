----------------------------- MODULE MxmlForest -----------------------------
(***************************************************************************)
(* MxmlTree implements Forest.  The children of a node are found by        *)
(* following next from child.  A node counts as gone as soon as mxmlDelete *)
(* was called for it or for a node above it.                               *)
(***************************************************************************)
EXTENDS MxmlTree, SequencesExt

(* A node and those behind it in the list of its parent.                    *)
ListFrom(t, n) ==
  LET list[m \in Node] == <<m>> \o IF t.next[m] = NULL THEN <<>> ELSE list[t.next[m]]
  IN  IF n = NULL THEN <<>> ELSE list[n]

Staying == {n \in live : doomed \notin UpFrom(links, n)}

Kids == [n \in Node |-> IF n \in Staying THEN ListFrom(links, links.child[n]) ELSE <<>>]

Abstract == INSTANCE Forest WITH live <- Staying, kids <- Kids

(* Every call does to the tree as it is walked what its documentation says, *)
(* and no more: a node taken out keeps its children, one that is deleted    *)
(* takes everything below it along, and nothing else.                       *)
ImplementsForest == Abstract!Spec

-----------------------------------------------------------------------------
(* mxmlWalkNext, mxmlWalkPrev with MXML_DESCEND.                            *)
Onwards(t, n, top) ==
  LET on[m \in Node] ==
        IF m = top THEN NULL
        ELSE IF t.next[m] # NULL THEN t.next[m]
        ELSE IF t.parent[m] # NULL THEN on[t.parent[m]] ELSE NULL
  IN  on[n]

(* Mutant of WalkNext: below the top itself the walk does not end.          *)
WalkNextPastTop(t, n, top) ==
  IF t.child[n] # NULL THEN t.child[n]
  ELSE IF t.next[n] # NULL THEN t.next[n]
  ELSE IF t.parent[n] = NULL THEN NULL ELSE Onwards(t, t.parent[n], top)

WalkNext(t, n, top) ==
  IF t.child[n] # NULL THEN t.child[n]
  ELSE Onwards(t, n, top)

LastBelow(t, n) ==
  LET down[m \in Node] == IF t.last_child[m] = NULL THEN m ELSE down[t.last_child[m]]
  IN  down[n]

WalkPrev(t, n, top) ==
  IF n = top THEN NULL
  ELSE IF t.prev[n] # NULL THEN LastBelow(t, t.prev[n])
  ELSE IF t.parent[n] # top THEN t.parent[n] ELSE NULL

(* Mutant of Written: above the last child the way back is not stopped.     *)
WrittenPastTop(t, top) ==
  LET tags[at \in Node \X BOOLEAN] ==
        LET m == at[1]
            p == t.parent[m] IN
        IF at[2]
          THEN IF t.child[m] = NULL THEN <<<<"empty", m>>>> \o (IF m = top THEN <<>> ELSE tags[<<m, FALSE>>])
               ELSE <<<<"open", m>>>> \o tags[<<t.child[m], TRUE>>]
        ELSE IF t.next[m] # NULL THEN tags[<<t.next[m], TRUE>>]
        ELSE IF p = NULL THEN <<>> ELSE <<<<"close", p>>>> \o tags[<<p, FALSE>>]
  IN  tags[<<top, TRUE>>]

(* mxml_write_node: the tags of a node and what is below it, when the loop  *)
(* gets there, and when it has ended what is below.                         *)
Written(t, top) ==
  LET tags[at \in Node \X BOOLEAN] ==
        LET m == at[1]
            p == t.parent[m] IN
        IF at[2]
          THEN IF t.child[m] = NULL THEN <<<<"empty", m>>>> \o (IF m = top THEN <<>> ELSE tags[<<m, FALSE>>])
               ELSE <<<<"open", m>>>> \o tags[<<t.child[m], TRUE>>]
        ELSE IF t.next[m] # NULL THEN tags[<<t.next[m], TRUE>>]
        ELSE IF m = top \/ p = NULL THEN <<>>
        ELSE <<<<"close", p>>>> \o (IF p = top THEN <<>> ELSE tags[<<p, FALSE>>])
  IN  tags[<<top, TRUE>>]

(* The nodes below n, as they are in the document.                          *)
DocumentOrder(n) ==
  LET order[m \in Node] == <<m>> \o FlattenSeq([i \in DOMAIN Kids[m] |-> order[Kids[m][i]]])
  IN  order[n]

(* Walking on from the top passes every node below it once, in the order of *)
(* the document, and stops there; walking back from any of them reverses it *)
(* up to the first child.                                                   *)
WalkIsDocumentOrder ==
  Idle =>
    \A top \in live :
      LET order == DocumentOrder(top)
      IN  \A i \in DOMAIN order :
            /\ WalkNext(links, order[i], top) = IF i = Len(order) THEN NULL ELSE order[i + 1]
            /\ WalkPrev(links, order[i], top) = IF i <= 2 THEN NULL ELSE order[i - 1]

(* The tags of n and of what is below it, as they should be.                *)
Nested(n) ==
  LET nested[m \in Node] ==
        IF Kids[m] = <<>> THEN <<<<"empty", m>>>>
        ELSE <<<<"open", m>>>> \o FlattenSeq([i \in DOMAIN Kids[m] |-> nested[Kids[m][i]]])
               \o <<<<"close", m>>>>
  IN  nested[n]

(* What is saved of any node is that node with all that is below it, each   *)
(* tag closed where it should be, and nothing beside it: mxml_write_node    *)
(* finds its way back by the links alone.                                   *)
WrittenIsNested ==
  Idle => \A n \in live : Written(links, n) = Nested(n)

(* A document is read, in either direction, and written as it was built.    *)
WalkedAndWritten == WalkIsDocumentOrder /\ WrittenIsNested
=============================================================================
