------------------------------ MODULE MxmlTree ------------------------------
(***************************************************************************)
(* mxml-node.c and mxml-search.c: the tree of nodes that a StationXML      *)
(* document is held in, linked both ways.  A caller creates nodes, adds,   *)
(* removes, retains and releases them; releasing the last reference        *)
(* deletes a node and what is below it, one node at a time, which is the   *)
(* loop of mxmlDelete here.                                                *)
(*                                                                         *)
(* A node that is freed loses its links: reading them is what              *)
(* CurrentIsLive forbids.                                                  *)
(***************************************************************************)
EXTENDS Integers

CONSTANTS Node,       \* the addresses nodes are allocated at
          NULL,
          MaxRefs     \* bound on the references to a node

ASSUME NullAssumption == NULL \notin Node

VARIABLES live,       \* the nodes that are allocated
          links,      \* their pointers, by name of the member
          ref_count,
          doomed,     \* mxmlDelete: its argument, or NULL when it is not running
          current     \* mxmlDelete: the loop variable

vars == <<live, links, ref_count, doomed, current>>

Ptr == [Node -> Node \cup {NULL}]

NoLinks == [parent |-> [n \in Node |-> NULL], child |-> [n \in Node |-> NULL],
            last_child |-> [n \in Node |-> NULL],
            prev |-> [n \in Node |-> NULL], next |-> [n \in Node |-> NULL]]

-----------------------------------------------------------------------------
(* f with v at n, unless n is no node.                                      *)
Set(f, n, v) == [m \in Node |-> IF m = n THEN v ELSE f[m]]

(* mxmlRemove                                                               *)
Removed(t, n) ==
  LET p == t.parent[n]
      before == t.prev[n]
      behind == t.next[n]
  IN  IF p = NULL THEN t
      ELSE [parent |-> Set(t.parent, n, NULL),
            child |-> IF before = NULL THEN Set(t.child, p, behind) ELSE t.child,
            last_child |-> IF behind = NULL THEN Set(t.last_child, p, before) ELSE t.last_child,
            prev |-> Set(Set(t.prev, behind, before), n, NULL),
            next |-> Set(Set(t.next, before, behind), n, NULL)]

(* Mutant of AddedFirst: the first child is not told of the one before it.  *)
AddedFirstOneWay(t, p, n) ==
  [t EXCEPT !.parent = Set(@, n, p),
            !.child = Set(@, p, n),
            !.last_child = IF t.child[p] = NULL THEN Set(@, p, n) ELSE @,
            !.next = Set(@, n, t.child[p])]

(* mxmlAdd, at one of its four places; n has no parent.                     *)
AddedFirst(t, p, n) ==
  [t EXCEPT !.parent = Set(@, n, p),
            !.child = Set(@, p, n),
            !.last_child = IF t.child[p] = NULL THEN Set(@, p, n) ELSE @,
            !.prev = Set(@, t.child[p], n),
            !.next = Set(@, n, t.child[p])]

AddedLast(t, p, n) ==
  [t EXCEPT !.parent = Set(@, n, p),
            !.last_child = Set(@, p, n),
            !.child = IF t.last_child[p] = NULL THEN Set(@, p, n) ELSE @,
            !.next = Set(@, t.last_child[p], n),
            !.prev = Set(@, n, t.last_child[p])]

AddedBefore(t, p, c, n) ==
  [t EXCEPT !.parent = Set(@, n, p),
            !.child = IF t.prev[c] = NULL THEN Set(@, p, n) ELSE @,
            !.next = Set(Set(@, n, c), t.prev[c], n),
            !.prev = Set(Set(@, n, t.prev[c]), c, n)]

AddedAfter(t, p, c, n) ==
  [t EXCEPT !.parent = Set(@, n, p),
            !.last_child = IF t.next[c] = NULL THEN Set(@, p, n) ELSE @,
            !.prev = Set(Set(@, n, c), t.next[c], n),
            !.next = Set(Set(@, n, t.next[c]), c, n)]

(* mxmlAdd: a child that is NULL, or none of p's, stands for the end.  The  *)
(* node is taken from its parent first, so that it cannot be that child.    *)
Added(t, p, where, c, n) ==
  LET r == Removed(t, n)
      atEnd(end) == c = NULL \/ c = end \/ r.parent[c] # p
  IN  IF where = "before"
        THEN IF atEnd(r.child[p]) THEN AddedFirst(r, p, n) ELSE AddedBefore(r, p, c, n)
        ELSE IF atEnd(r.last_child[p]) THEN AddedLast(r, p, n) ELSE AddedAfter(r, p, c, n)

(* The node and those above it.                                             *)
UpFrom(t, n) ==
  LET up[m \in Node] == {m} \cup IF t.parent[m] = NULL THEN {} ELSE up[t.parent[m]]
  IN  up[n]

-----------------------------------------------------------------------------
Idle == doomed = NULL

Init ==
  /\ live = {}
  /\ links = NoLinks
  /\ ref_count = [n \in Node |-> 0]
  /\ doomed = NULL
  /\ current = NULL

(* mxml_new, for every mxmlNew function                                     *)
New(n, p) ==
  /\ Idle
  /\ n \notin live
  /\ live' = live \cup {n}
  /\ links' = IF p = NULL THEN links ELSE Added(links, p, "after", NULL, n)
  /\ ref_count' = [ref_count EXCEPT ![n] = 1]
  /\ UNCHANGED <<doomed, current>>

(* mxmlAdd by a caller, who must not put a node below itself.               *)
Add(n, p, where, c) ==
  /\ Idle
  /\ n \notin UpFrom(links, p)
  /\ links' = Added(links, p, where, c, n)
  /\ UNCHANGED <<live, ref_count, doomed, current>>

TakeOut(n) ==
  /\ Idle
  /\ links' = Removed(links, n)
  /\ UNCHANGED <<live, ref_count, doomed, current>>

Retain(n) ==
  /\ Idle
  /\ ref_count[n] < MaxRefs
  /\ ref_count' = [ref_count EXCEPT ![n] = @ + 1]
  /\ UNCHANGED <<live, links, doomed, current>>

(* mxmlRelease, when others still hold the node.                            *)
Release(n) ==
  /\ Idle
  /\ ref_count[n] > 1
  /\ ref_count' = [ref_count EXCEPT ![n] = @ - 1]
  /\ UNCHANGED <<live, links, doomed, current>>

(* mxmlDelete until its loop, called as such or from the last mxmlRelease.  *)
Delete(n) ==
  /\ Idle
  /\ links' = Removed(links, n)
  /\ doomed' = n
  /\ current' = links'.child[n]
  /\ UNCHANGED <<live, ref_count>>

-----------------------------------------------------------------------------
(* mxml_free: what the node pointed to is gone with it.                     *)
Freed(t, n) ==
  [parent |-> Set(t.parent, n, NULL), child |-> Set(t.child, n, NULL),
   last_child |-> Set(t.last_child, n, NULL),
   prev |-> Set(t.prev, n, NULL), next |-> Set(t.next, n, NULL)]

Free(n) ==
  /\ live' = live \ {n}
  /\ links' = Freed(links, n)
  /\ ref_count' = [ref_count EXCEPT ![n] = 0]

(* Mutant of Descend: the node does not forget its children.                *)
DescendKeeping ==
  /\ ~Idle
  /\ current # NULL
  /\ links.child[current] # NULL
  /\ current' = links.child[current]
  /\ UNCHANGED <<live, links, ref_count, doomed>>

(* Children first: the node forgets them, for when the loop comes back.     *)
Descend ==
  /\ ~Idle
  /\ current # NULL
  /\ links.child[current] # NULL
  /\ links' = [links EXCEPT !.child = Set(@, current, NULL)]
  /\ current' = links.child[current]
  /\ UNCHANGED <<live, ref_count, doomed>>

(* Mutant of NextOf: from the last child the loop does not go up.           *)
NextOfSiblings(n) == links.next[n]

NextOf(n) ==
  IF links.next[n] # NULL THEN links.next[n]
  ELSE IF links.parent[n] = doomed THEN NULL ELSE links.parent[n]

FreeCurrent ==
  /\ ~Idle
  /\ current # NULL
  /\ links.child[current] = NULL
  /\ Free(current)
  /\ current' = NextOf(current)
  /\ UNCHANGED doomed

(* Mutant of FreeDoomed: a node that others hold stays.                     *)
FreeDoomedUnheld ==
  /\ ~Idle
  /\ current = NULL
  /\ ref_count[doomed] = 1
  /\ Free(doomed)
  /\ doomed' = NULL
  /\ UNCHANGED current

FreeDoomed ==
  /\ ~Idle
  /\ current = NULL
  /\ Free(doomed)
  /\ doomed' = NULL
  /\ UNCHANGED current

DeleteLoop == Descend \/ FreeCurrent \/ FreeDoomed

Next ==
  \/ \E n \in Node, p \in live \cup {NULL} : New(n, p)
  \/ \E n, p \in live, where \in {"before", "after"}, c \in live \cup {NULL} : Add(n, p, where, c)
  \/ \E n \in live : TakeOut(n) \/ Retain(n) \/ Release(n) \/ Delete(n)
  \/ DeleteLoop

(* The caller may stop anywhere; mxmlDelete does not.                       *)
Spec == Init /\ [][Next]_vars /\ WF_vars(DeleteLoop)

-----------------------------------------------------------------------------
TypeOK ==
  /\ live \subseteq Node
  /\ links \in [parent : Ptr, child : Ptr, last_child : Ptr, prev : Ptr, next : Ptr]
  /\ ref_count \in [Node -> 0..MaxRefs]
  /\ doomed \in Node \cup {NULL}
  /\ current \in Node \cup {NULL}

(* mxmlAdd and mxmlRemove keep both directions of every link, the ends of   *)
(* every list and the parent in step, wherever a node comes from and goes   *)
(* to: the readers of a document go forwards, mxmlDelete up, and the next   *)
(* mxmlAdd starts from the last child.                                      *)
InStep(t, n) ==
  /\ t.next[n] # NULL => t.prev[t.next[n]] = n /\ t.parent[t.next[n]] = t.parent[n]
  /\ t.prev[n] # NULL => t.next[t.prev[n]] = n /\ t.parent[t.prev[n]] = t.parent[n]
  /\ t.child[n] # NULL => t.parent[t.child[n]] = n /\ t.prev[t.child[n]] = NULL
  /\ t.last_child[n] # NULL => t.parent[t.last_child[n]] = n /\ t.next[t.last_child[n]] = NULL
  /\ t.parent[n] # NULL =>
       /\ t.prev[n] = NULL => t.child[t.parent[n]] = n
       /\ t.next[n] = NULL => t.last_child[t.parent[n]] = n
  /\ t.parent[n] = NULL => t.prev[n] = NULL /\ t.next[n] = NULL

Linked(t) == \A n \in Node : InStep(t, n)

WellLinked == Idle => Linked(links)

(* mxmlDelete frees nodes while it walks over them, clearing child pointers *)
(* to find its way: it never comes back to a node it has freed, and frees   *)
(* its argument last.                                                       *)
CurrentIsLive ==
  /\ current # NULL => current \in live \ {doomed}
  /\ doomed # NULL => doomed \in live

(* Between operations the links agree, and within mxmlDelete none leads to  *)
(* what is freed.                                                           *)
TreeSound == WellLinked /\ CurrentIsLive

(* The loop of mxmlDelete ends, however the nodes below are arranged.       *)
DeleteEnds == doomed # NULL ~> doomed = NULL
=============================================================================
