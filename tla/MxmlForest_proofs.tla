-------------------------- MODULE MxmlForest_proofs -------------------------
(***************************************************************************)
(* Proofs about MxmlTree and how it implements Forest, for every set of    *)
(* nodes, finite or not, and every sequence of calls; about what walks and *)
(* writing make of the tree; and about what MxmlLoad leaves of it.         *)
(***************************************************************************)
EXTENDS MxmlForest, MxmlLoad, SequenceLemmas

Tree == [parent : Ptr, child : Ptr, last_child : Ptr, prev : Ptr, next : Ptr]

Typed ==
  /\ live \subseteq Node
  /\ links \in Tree
  /\ doomed \in Node \cup {NULL}
  /\ current \in Node \cup {NULL}

(* A node that is not allocated points nowhere.                             *)
DeadBare(t, alive) ==
  \A n \in Node \ alive :
    /\ t.parent[n] = NULL /\ t.child[n] = NULL /\ t.last_child[n] = NULL
    /\ t.prev[n] = NULL /\ t.next[n] = NULL

(* What Linked leaves open: pointers lead to allocated nodes, and a list    *)
(* has a first node when it has a last one.                                 *)
Closed(t, alive) ==
  \A n \in alive :
    /\ t.child[n] # NULL => t.child[n] \in alive
    /\ t.last_child[n] # NULL => t.last_child[n] \in alive
    /\ t.prev[n] # NULL => t.prev[n] \in alive
    /\ t.next[n] # NULL => t.next[n] \in alive
    /\ t.child[n] = NULL <=> t.last_child[n] = NULL

Whole(t, alive) == Linked(t) /\ DeadBare(t, alive) /\ Closed(t, alive)

-----------------------------------------------------------------------------
(* Within mxmlDelete, S is the argument and the nodes from it down to the   *)
(* loop variable.  All but the last were opened: they have forgotten their  *)
(* first child (except the argument, which only loses it), and everything   *)
(* in their list before the node of S is freed.                             *)
Spine(S) ==
  /\ S \subseteq live
  /\ doomed \in S
  /\ current = NULL => S = {doomed}
  /\ current # NULL => current \in S \ {doomed}
  /\ \A x \in S \ {doomed} : links.parent[x] \in S /\ links.prev[x] \notin live
  /\ \A T \in SUBSET S : current \in T /\ (\A x \in T \ {doomed} : links.parent[x] \in T) => T = S
  /\ \A x, y \in S : links.parent[x] = links.parent[y] => x = y
  /\ \A x \in S : links.parent[x] # current \/ current = NULL
  /\ \A x \in S \ {doomed, current} : links.child[x] = NULL
  /\ links.child[doomed] \in live => links.child[doomed] \in S \ {doomed}

(* The last of S has no child left when it has forgotten its first.         *)
LastIsBare ==
  /\ current = NULL => links.child[doomed] \notin live /\ links.last_child[doomed] \notin live
  /\ current # NULL /\ links.child[current] = NULL => links.last_child[current] \notin live

(* What is left of Linked and Closed off the trail of the loop.             *)
PartlyLinked(S) ==
  \A n \in live :
    /\ links.next[n] # NULL =>
         /\ links.next[n] \in live
         /\ links.prev[links.next[n]] = n
         /\ links.parent[links.next[n]] = links.parent[n]
    /\ links.prev[n] # NULL =>
         \/ n \in S \ {doomed}
         \/ /\ links.prev[n] \in live
            /\ links.next[links.prev[n]] = n
            /\ links.parent[links.prev[n]] = links.parent[n]
    /\ links.child[n] # NULL /\ n # doomed =>
         /\ links.child[n] \in live
         /\ links.parent[links.child[n]] = n
         /\ links.prev[links.child[n]] = NULL
    /\ links.last_child[n] # NULL =>
         \/ n \in S /\ links.last_child[n] \notin live
         \/ /\ links.last_child[n] \in live
            /\ links.parent[links.last_child[n]] = n
            /\ links.next[links.last_child[n]] = NULL
    /\ links.parent[n] # NULL =>
         /\ links.prev[n] = NULL => n \in S \/ links.child[links.parent[n]] = n
         /\ links.next[n] = NULL => links.last_child[links.parent[n]] = n
    /\ links.parent[n] = NULL => links.prev[n] = NULL /\ links.next[n] = NULL
    /\ n \notin S => (links.child[n] = NULL <=> links.last_child[n] = NULL)

Deleting ==
  \E S \in SUBSET Node : Spine(S) /\ LastIsBare /\ PartlyLinked(S)

(* The inductive invariant.                                                 *)
TreeInv ==
  /\ Typed
  /\ DeadBare(links, live)
  /\ Idle => current = NULL /\ Whole(links, live)
  /\ ~Idle => links.parent[doomed] = NULL /\ Deleting
-----------------------------------------------------------------------------
(* Writing one pointer.                                                    *)
LEMMA SetIs ==
  ASSUME NEW f \in Ptr, NEW n, NEW v \in Node \cup {NULL}
  PROVE  /\ Set(f, n, v) \in Ptr
         /\ \A m \in Node : Set(f, n, v)[m] = IF m = n THEN v ELSE f[m]
BY DEF Set, Ptr

(* The pointers of a tree are nodes or NULL.                               *)
LEMMA TreePointers ==
  ASSUME NEW t \in Tree
  PROVE  /\ t.parent \in Ptr /\ t.child \in Ptr /\ t.last_child \in Ptr
         /\ t.prev \in Ptr /\ t.next \in Ptr
         /\ \A m \in Node : /\ t.parent[m] \in Node \cup {NULL}
                            /\ t.child[m] \in Node \cup {NULL}
                            /\ t.last_child[m] \in Node \cup {NULL}
                            /\ t.prev[m] \in Node \cup {NULL}
                            /\ t.next[m] \in Node \cup {NULL}
BY DEF Tree, Ptr

(* What every pointer of every node is once n was taken from its list.      *)
LEMMA RemovedIs ==
  ASSUME NEW t \in Tree, NEW n \in Node, t.parent[n] # NULL
  PROVE  /\ Removed(t, n) \in Tree
         /\ \A m \in Node :
              /\ Removed(t, n).parent[m] = IF m = n THEN NULL ELSE t.parent[m]
              /\ Removed(t, n).child[m] =
                   IF m = t.parent[n] /\ t.prev[n] = NULL THEN t.next[n] ELSE t.child[m]
              /\ Removed(t, n).last_child[m] =
                   IF m = t.parent[n] /\ t.next[n] = NULL THEN t.prev[n] ELSE t.last_child[m]
              /\ Removed(t, n).prev[m] =
                   IF m = n THEN NULL ELSE IF m = t.next[n] THEN t.prev[n] ELSE t.prev[m]
              /\ Removed(t, n).next[m] =
                   IF m = n THEN NULL ELSE IF m = t.prev[n] THEN t.next[n] ELSE t.next[m]
<1> DEFINE pa == Set(t.parent, n, NULL)
           ch == IF t.prev[n] = NULL THEN Set(t.child, t.parent[n], t.next[n]) ELSE t.child
           la == IF t.next[n] = NULL THEN Set(t.last_child, t.parent[n], t.prev[n])
                 ELSE t.last_child
           pr == Set(Set(t.prev, t.next[n], t.prev[n]), n, NULL)
           ne == Set(Set(t.next, t.prev[n], t.next[n]), n, NULL)
<1>1. Removed(t, n) = [parent |-> pa, child |-> ch, last_child |-> la, prev |-> pr, next |-> ne]
  BY DEF Removed
<1>2. pa \in Ptr /\ \A m \in Node : pa[m] = IF m = n THEN NULL ELSE t.parent[m]
  BY TreePointers, SetIs
<1>3. ch \in Ptr /\ \A m \in Node :
        ch[m] = IF m = t.parent[n] /\ t.prev[n] = NULL THEN t.next[n] ELSE t.child[m]
  BY TreePointers, SetIs
<1>4. la \in Ptr /\ \A m \in Node :
        la[m] = IF m = t.parent[n] /\ t.next[n] = NULL THEN t.prev[n] ELSE t.last_child[m]
  BY TreePointers, SetIs
<1>5. pr \in Ptr /\ \A m \in Node :
        pr[m] = IF m = n THEN NULL ELSE IF m = t.next[n] THEN t.prev[n] ELSE t.prev[m]
  BY TreePointers, SetIs
<1>6. ne \in Ptr /\ \A m \in Node :
        ne[m] = IF m = n THEN NULL ELSE IF m = t.prev[n] THEN t.next[n] ELSE t.next[m]
  BY TreePointers, SetIs
<1> HIDE DEF pa, ch, la, pr, ne
<1> QED
  BY <1>1, <1>2, <1>3, <1>4, <1>5, <1>6 DEF Tree

(* mxmlRemove leaves a whole tree whole, and the node on its own.           *)
LEMMA RemovedWhole ==
  ASSUME NEW t \in Tree, NEW alive, alive \subseteq Node, NEW n \in Node, Whole(t, alive)
  PROVE  /\ Removed(t, n) \in Tree /\ Whole(Removed(t, n), alive)
         /\ Removed(t, n).parent[n] = NULL
         /\ Removed(t, n).prev[n] = NULL /\ Removed(t, n).next[n] = NULL
<1>1. CASE t.parent[n] = NULL
  <2>1. Removed(t, n) = t
    BY <1>1 DEF Removed
  <2>2. t.prev[n] = NULL /\ t.next[n] = NULL
    BY <1>1 DEF Whole, Linked, InStep
  <2> QED BY <1>1, <2>1, <2>2
<1>2. CASE t.parent[n] # NULL
  <2> DEFINE r == Removed(t, n)
  <2>1. /\ r \in Tree
        /\ \A m \in Node :
              /\ r.parent[m] = IF m = n THEN NULL ELSE t.parent[m]
              /\ r.child[m] =
                   IF m = t.parent[n] /\ t.prev[n] = NULL THEN t.next[n] ELSE t.child[m]
              /\ r.last_child[m] =
                   IF m = t.parent[n] /\ t.next[n] = NULL THEN t.prev[n] ELSE t.last_child[m]
              /\ r.prev[m] =
                   IF m = n THEN NULL ELSE IF m = t.next[n] THEN t.prev[n] ELSE t.prev[m]
              /\ r.next[m] =
                   IF m = n THEN NULL ELSE IF m = t.prev[n] THEN t.next[n] ELSE t.next[m]
    BY <1>2, RemovedIs
  <2> HIDE DEF r
  <2>2. \A m \in Node : /\ t.next[m] # NULL => t.prev[t.next[m]] = m
                        /\ t.prev[m] # NULL => t.next[t.prev[m]] = m
                        /\ t.next[m] \in Node \cup {NULL} /\ t.prev[m] \in Node \cup {NULL}
    BY TreePointers DEF Whole, Linked, InStep
  <2>3. Linked(r)
    <3> SUFFICES ASSUME NEW m \in Node PROVE InStep(r, m)
      BY DEF Linked
    <3>1. r.next[m] # NULL => r.prev[r.next[m]] = m /\ r.parent[r.next[m]] = r.parent[m]
      BY <1>2, <2>1, <2>2, TreePointers, NullAssumption DEF Whole, Linked, InStep
    <3>2. r.prev[m] # NULL => r.next[r.prev[m]] = m /\ r.parent[r.prev[m]] = r.parent[m]
      BY <1>2, <2>1, <2>2, TreePointers, NullAssumption DEF Whole, Linked, InStep
    <3>3. r.child[m] # NULL => r.parent[r.child[m]] = m /\ r.prev[r.child[m]] = NULL
      BY <1>2, <2>1, <2>2, TreePointers, NullAssumption DEF Whole, Linked, InStep
    <3>4. r.last_child[m] # NULL => r.parent[r.last_child[m]] = m /\ r.next[r.last_child[m]] = NULL
      BY <1>2, <2>1, <2>2, TreePointers, NullAssumption DEF Whole, Linked, InStep
    <3>5. r.parent[m] # NULL => /\ r.prev[m] = NULL => r.child[r.parent[m]] = m
                                /\ r.next[m] = NULL => r.last_child[r.parent[m]] = m
      BY <1>2, <2>1, <2>2, TreePointers, NullAssumption DEF Whole, Linked, InStep
    <3>6. r.parent[m] = NULL => r.prev[m] = NULL /\ r.next[m] = NULL
      BY <1>2, <2>1, <2>2, TreePointers, NullAssumption DEF Whole, Linked, InStep
    <3> QED
      BY <3>1, <3>2, <3>3, <3>4, <3>5, <3>6 DEF InStep
  <2>4. DeadBare(r, alive)
    <3> SUFFICES ASSUME NEW m \in Node \ alive
                 PROVE  /\ r.parent[m] = NULL /\ r.child[m] = NULL /\ r.last_child[m] = NULL
                        /\ r.prev[m] = NULL /\ r.next[m] = NULL
      BY DEF DeadBare
    <3>1. /\ t.parent[m] = NULL /\ t.child[m] = NULL /\ t.last_child[m] = NULL
          /\ t.prev[m] = NULL /\ t.next[m] = NULL
      BY DEF Whole, DeadBare
    <3>2. /\ m = t.next[n] => FALSE
          /\ m = t.prev[n] => FALSE
          /\ m = t.parent[n] => t.next[n] # NULL /\ t.prev[n] # NULL
      BY <1>2, <2>2, <3>1, TreePointers, NullAssumption DEF Whole, Linked, InStep
    <3> QED
      BY <2>1, <3>1, <3>2
  <2>5. Closed(r, alive)
    <3> SUFFICES ASSUME NEW m \in alive
                 PROVE  /\ r.child[m] # NULL => r.child[m] \in alive
                        /\ r.last_child[m] # NULL => r.last_child[m] \in alive
                        /\ r.prev[m] # NULL => r.prev[m] \in alive
                        /\ r.next[m] # NULL => r.next[m] \in alive
                        /\ r.child[m] = NULL <=> r.last_child[m] = NULL
      BY DEF Closed
    <3>1. n \in alive
      BY <1>2 DEF Whole, DeadBare
    <3>2. /\ t.next[n] # NULL => t.next[n] \in alive
          /\ t.prev[n] # NULL => t.prev[n] \in alive
          /\ t.child[m] # NULL => t.child[m] \in alive
          /\ t.last_child[m] # NULL => t.last_child[m] \in alive
          /\ t.prev[m] # NULL => t.prev[m] \in alive
          /\ t.next[m] # NULL => t.next[m] \in alive
          /\ t.child[m] = NULL <=> t.last_child[m] = NULL
      BY <3>1 DEF Whole, Closed
    <3>3. m = t.parent[n] => /\ t.prev[n] = NULL => t.child[m] = n
                             /\ t.next[n] = NULL => t.last_child[m] = n
      BY <1>2 DEF Whole, Linked, InStep
    <3> QED
      BY <2>1, <3>2, <3>3, NullAssumption
  <2> QED
    BY <2>1, <2>3, <2>4, <2>5 DEF Whole, r
<1> QED
  BY <1>1, <1>2

-----------------------------------------------------------------------------
(* All four places at which mxmlAdd can put a node are one: between a and b *)
(* in the list of p, either of which may be missing.                        *)
Place(t, p, a, b) ==
  /\ a # NULL => a \in Node /\ t.parent[a] = p /\ t.next[a] = b
  /\ b # NULL => b \in Node /\ t.parent[b] = p /\ t.prev[b] = a
  /\ a = NULL /\ b = NULL => t.child[p] = NULL /\ t.last_child[p] = NULL

Between(t, r, p, a, b, n) ==
  /\ r \in Tree
  /\ \A m \in Node :
       /\ r.parent[m] = IF m = n THEN p ELSE t.parent[m]
       /\ r.child[m] = IF m = p /\ a = NULL THEN n ELSE t.child[m]
       /\ r.last_child[m] = IF m = p /\ b = NULL THEN n ELSE t.last_child[m]
       /\ r.prev[m] = IF m = n THEN a ELSE IF m = b THEN n ELSE t.prev[m]
       /\ r.next[m] = IF m = n THEN b ELSE IF m = a THEN n ELSE t.next[m]

(* Hanging a node between two neighbours of one parent keeps the links of  *)
(* the tree in agreement.                                                  *)
LEMMA BetweenWhole ==
  ASSUME NEW t \in Tree, NEW alive, alive \subseteq Node, Whole(t, alive),
         NEW n \in Node, t.parent[n] = NULL, NEW p \in alive,
         NEW a, NEW b, Place(t, p, a, b), NEW r, Between(t, r, p, a, b, n)
  PROVE  Whole(r, alive \cup {n})
<1>1. /\ r \in Tree
      /\ \A m \in Node :
            /\ r.parent[m] = IF m = n THEN p ELSE t.parent[m]
            /\ r.child[m] = IF m = p /\ a = NULL THEN n ELSE t.child[m]
            /\ r.last_child[m] = IF m = p /\ b = NULL THEN n ELSE t.last_child[m]
            /\ r.prev[m] = IF m = n THEN a ELSE IF m = b THEN n ELSE t.prev[m]
            /\ r.next[m] = IF m = n THEN b ELSE IF m = a THEN n ELSE t.next[m]
  BY DEF Between
<1>2. /\ a # NULL => a \in Node /\ t.parent[a] = p /\ t.next[a] = b
      /\ b # NULL => b \in Node /\ t.parent[b] = p /\ t.prev[b] = a
      /\ a = NULL /\ b = NULL => t.child[p] = NULL /\ t.last_child[p] = NULL
      /\ p \in Node /\ p # NULL
      /\ t.prev[n] = NULL /\ t.next[n] = NULL /\ a # n /\ b # n
  BY NullAssumption DEF Place, Whole, Linked, InStep
<1>3. /\ a = NULL => t.child[p] = b
      /\ b = NULL => t.last_child[p] = a
  BY <1>2 DEF Whole, Linked, InStep
<1>4. Linked(r)
  <2> SUFFICES ASSUME NEW m \in Node PROVE InStep(r, m)
    BY DEF Linked
  <2>1. r.next[m] # NULL => r.prev[r.next[m]] = m /\ r.parent[r.next[m]] = r.parent[m]
    BY <1>1, <1>2, TreePointers, NullAssumption DEF Whole, Linked, InStep
  <2>2. r.prev[m] # NULL => r.next[r.prev[m]] = m /\ r.parent[r.prev[m]] = r.parent[m]
    BY <1>1, <1>2, TreePointers, NullAssumption DEF Whole, Linked, InStep
  <2>3. r.child[m] # NULL => r.parent[r.child[m]] = m /\ r.prev[r.child[m]] = NULL
    BY <1>1, <1>2, <1>3, TreePointers, NullAssumption DEF Whole, Linked, InStep
  <2>4. r.last_child[m] # NULL => r.parent[r.last_child[m]] = m /\ r.next[r.last_child[m]] = NULL
    BY <1>1, <1>2, <1>3, TreePointers, NullAssumption DEF Whole, Linked, InStep
  <2>5. r.parent[m] # NULL => /\ r.prev[m] = NULL => r.child[r.parent[m]] = m
                              /\ r.next[m] = NULL => r.last_child[r.parent[m]] = m
    BY <1>1, <1>2, <1>3, TreePointers, NullAssumption DEF Whole, Linked, InStep
  <2>6. r.parent[m] = NULL => r.prev[m] = NULL /\ r.next[m] = NULL
    BY <1>1, <1>2, TreePointers, NullAssumption DEF Whole, Linked, InStep
  <2> QED
    BY <2>1, <2>2, <2>3, <2>4, <2>5, <2>6 DEF InStep
<1>5. /\ a # NULL => a \in alive
      /\ b # NULL => b \in alive
  BY <1>2 DEF Whole, DeadBare
<1>6. DeadBare(r, alive \cup {n})
  <2> SUFFICES ASSUME NEW m \in Node \ alive, m # n
               PROVE  /\ r.parent[m] = NULL /\ r.child[m] = NULL /\ r.last_child[m] = NULL
                      /\ r.prev[m] = NULL /\ r.next[m] = NULL
    BY DEF DeadBare
  <2>1. /\ t.parent[m] = NULL /\ t.child[m] = NULL /\ t.last_child[m] = NULL
        /\ t.prev[m] = NULL /\ t.next[m] = NULL
    BY DEF Whole, DeadBare
  <2> QED
    BY <1>1, <1>5, <2>1, NullAssumption
<1>7. Closed(r, alive \cup {n})
  <2> SUFFICES ASSUME NEW m \in alive \cup {n}
               PROVE  /\ r.child[m] # NULL => r.child[m] \in alive \cup {n}
                      /\ r.last_child[m] # NULL => r.last_child[m] \in alive \cup {n}
                      /\ r.prev[m] # NULL => r.prev[m] \in alive \cup {n}
                      /\ r.next[m] # NULL => r.next[m] \in alive \cup {n}
                      /\ r.child[m] = NULL <=> r.last_child[m] = NULL
    BY DEF Closed
  <2>1. /\ t.child[m] # NULL => t.child[m] \in alive
        /\ t.last_child[m] # NULL => t.last_child[m] \in alive
        /\ t.prev[m] # NULL => t.prev[m] \in alive
        /\ t.next[m] # NULL => t.next[m] \in alive
        /\ t.child[m] = NULL <=> t.last_child[m] = NULL
    BY DEF Whole, Closed, DeadBare
  <2> QED
    BY <1>1, <1>2, <1>3, <1>5, <2>1, NullAssumption
<1> QED
  BY <1>4, <1>6, <1>7 DEF Whole

(* mxmlAdd in each of its four cases hangs the node between two            *)
(* neighbours: before all children, ...                                    *)
LEMMA FirstIsBetween ==
  ASSUME NEW t \in Tree, NEW n \in Node, NEW p \in Node, t.prev[n] = NULL,
         t.child[p] # n
  PROVE  Between(t, AddedFirst(t, p, n), p, NULL, t.child[p], n)
<1> DEFINE pa == Set(t.parent, n, p)
           ch == Set(t.child, p, n)
           la == IF t.child[p] = NULL THEN Set(t.last_child, p, n) ELSE t.last_child
           pr == Set(t.prev, t.child[p], n)
           ne == Set(t.next, n, t.child[p])
<1> DEFINE s == AddedFirst(t, p, n)
<1>1. s.parent = pa /\ s.child = ch /\ s.last_child = la /\ s.prev = pr /\ s.next = ne
  BY DEF AddedFirst, Tree
<1>2. pa \in Ptr /\ \A m \in Node : pa[m] = IF m = n THEN p ELSE t.parent[m]
  BY TreePointers, SetIs, NullAssumption
<1>3. ch \in Ptr /\ \A m \in Node : ch[m] = IF m = p /\ NULL = NULL THEN n ELSE t.child[m]
  BY TreePointers, SetIs, NullAssumption
<1>4. la \in Ptr /\ \A m \in Node : la[m] = IF m = p /\ t.child[p] = NULL THEN n ELSE t.last_child[m]
  BY TreePointers, SetIs, NullAssumption
<1>5. pr \in Ptr /\ \A m \in Node : pr[m] = IF m = n THEN NULL ELSE IF m = t.child[p] THEN n ELSE t.prev[m]
  BY TreePointers, SetIs, NullAssumption
<1>6. ne \in Ptr /\ \A m \in Node : ne[m] = IF m = n THEN t.child[p] ELSE IF m = NULL THEN n ELSE t.next[m]
  BY TreePointers, SetIs, NullAssumption
<1>7. s \in Tree
  BY <1>2, <1>3, <1>4, <1>5, <1>6 DEF AddedFirst, Tree
<1> HIDE DEF pa, ch, la, pr, ne, s
<1>8. Between(t, s, p, NULL, t.child[p], n)
  BY <1>1, <1>2, <1>3, <1>4, <1>5, <1>6, <1>7 DEF Between
<1> QED
  BY <1>8 DEF s

(* ... behind all children, ...                                            *)
LEMMA LastIsBetween ==
  ASSUME NEW t \in Tree, NEW n \in Node, NEW p \in Node, t.next[n] = NULL,
         t.last_child[p] # n
  PROVE  Between(t, AddedLast(t, p, n), p, t.last_child[p], NULL, n)
<1> DEFINE pa == Set(t.parent, n, p)
           ch == IF t.last_child[p] = NULL THEN Set(t.child, p, n) ELSE t.child
           la == Set(t.last_child, p, n)
           pr == Set(t.prev, n, t.last_child[p])
           ne == Set(t.next, t.last_child[p], n)
<1> DEFINE s == AddedLast(t, p, n)
<1>1. s.parent = pa /\ s.child = ch /\ s.last_child = la /\ s.prev = pr /\ s.next = ne
  BY DEF AddedLast, Tree
<1>2. pa \in Ptr /\ \A m \in Node : pa[m] = IF m = n THEN p ELSE t.parent[m]
  BY TreePointers, SetIs, NullAssumption
<1>3. ch \in Ptr /\ \A m \in Node : ch[m] = IF m = p /\ t.last_child[p] = NULL THEN n ELSE t.child[m]
  BY TreePointers, SetIs, NullAssumption
<1>4. la \in Ptr /\ \A m \in Node : la[m] = IF m = p /\ NULL = NULL THEN n ELSE t.last_child[m]
  BY TreePointers, SetIs, NullAssumption
<1>5. pr \in Ptr /\ \A m \in Node : pr[m] = IF m = n THEN t.last_child[p] ELSE IF m = NULL THEN n ELSE t.prev[m]
  BY TreePointers, SetIs, NullAssumption
<1>6. ne \in Ptr /\ \A m \in Node : ne[m] = IF m = n THEN NULL ELSE IF m = t.last_child[p] THEN n ELSE t.next[m]
  BY TreePointers, SetIs, NullAssumption
<1>7. s \in Tree
  BY <1>2, <1>3, <1>4, <1>5, <1>6 DEF AddedLast, Tree
<1> HIDE DEF pa, ch, la, pr, ne, s
<1>8. Between(t, s, p, t.last_child[p], NULL, n)
  BY <1>1, <1>2, <1>3, <1>4, <1>5, <1>6, <1>7 DEF Between
<1> QED
  BY <1>8 DEF s

(* ... before a child ...                                                  *)
LEMMA BeforeIsBetween ==
  ASSUME NEW t \in Tree, NEW n \in Node, NEW p \in Node, NEW c \in Node,
         c # n, t.prev[c] # n
  PROVE  Between(t, AddedBefore(t, p, c, n), p, t.prev[c], c, n)
<1> DEFINE pa == Set(t.parent, n, p)
           ch == IF t.prev[c] = NULL THEN Set(t.child, p, n) ELSE t.child
           la == t.last_child
           pr == Set(Set(t.prev, n, t.prev[c]), c, n)
           ne == Set(Set(t.next, n, c), t.prev[c], n)
<1> DEFINE s == AddedBefore(t, p, c, n)
<1>1. s.parent = pa /\ s.child = ch /\ s.last_child = la /\ s.prev = pr /\ s.next = ne
  BY DEF AddedBefore, Tree
<1>2. pa \in Ptr /\ \A m \in Node : pa[m] = IF m = n THEN p ELSE t.parent[m]
  BY TreePointers, SetIs, NullAssumption
<1>3. ch \in Ptr /\ \A m \in Node : ch[m] = IF m = p /\ t.prev[c] = NULL THEN n ELSE t.child[m]
  BY TreePointers, SetIs, NullAssumption
<1>4. la \in Ptr /\ \A m \in Node : la[m] = IF m = p /\ c = NULL THEN n ELSE t.last_child[m]
  BY TreePointers, SetIs, NullAssumption
<1>5. pr \in Ptr /\ \A m \in Node : pr[m] = IF m = n THEN t.prev[c] ELSE IF m = c THEN n ELSE t.prev[m]
  BY TreePointers, SetIs, NullAssumption
<1>6. ne \in Ptr /\ \A m \in Node : ne[m] = IF m = n THEN c ELSE IF m = t.prev[c] THEN n ELSE t.next[m]
  BY TreePointers, SetIs, NullAssumption
<1>7. s \in Tree
  BY <1>2, <1>3, <1>4, <1>5, <1>6 DEF AddedBefore, Tree
<1> HIDE DEF pa, ch, la, pr, ne, s
<1>8. Between(t, s, p, t.prev[c], c, n)
  BY <1>1, <1>2, <1>3, <1>4, <1>5, <1>6, <1>7 DEF Between
<1> QED
  BY <1>8 DEF s

(* ... and behind one.                                                     *)
LEMMA AfterIsBetween ==
  ASSUME NEW t \in Tree, NEW n \in Node, NEW p \in Node, NEW c \in Node,
         c # n, t.next[c] # n
  PROVE  Between(t, AddedAfter(t, p, c, n), p, c, t.next[c], n)
<1> DEFINE pa == Set(t.parent, n, p)
           ch == t.child
           la == IF t.next[c] = NULL THEN Set(t.last_child, p, n) ELSE t.last_child
           pr == Set(Set(t.prev, n, c), t.next[c], n)
           ne == Set(Set(t.next, n, t.next[c]), c, n)
<1> DEFINE s == AddedAfter(t, p, c, n)
<1>1. s.parent = pa /\ s.child = ch /\ s.last_child = la /\ s.prev = pr /\ s.next = ne
  BY DEF AddedAfter, Tree
<1>2. pa \in Ptr /\ \A m \in Node : pa[m] = IF m = n THEN p ELSE t.parent[m]
  BY TreePointers, SetIs, NullAssumption
<1>3. ch \in Ptr /\ \A m \in Node : ch[m] = IF m = p /\ c = NULL THEN n ELSE t.child[m]
  BY TreePointers, SetIs, NullAssumption
<1>4. la \in Ptr /\ \A m \in Node : la[m] = IF m = p /\ t.next[c] = NULL THEN n ELSE t.last_child[m]
  BY TreePointers, SetIs, NullAssumption
<1>5. pr \in Ptr /\ \A m \in Node : pr[m] = IF m = n THEN c ELSE IF m = t.next[c] THEN n ELSE t.prev[m]
  BY TreePointers, SetIs, NullAssumption
<1>6. ne \in Ptr /\ \A m \in Node : ne[m] = IF m = n THEN t.next[c] ELSE IF m = c THEN n ELSE t.next[m]
  BY TreePointers, SetIs, NullAssumption
<1>7. s \in Tree
  BY <1>2, <1>3, <1>4, <1>5, <1>6 DEF AddedAfter, Tree
<1> HIDE DEF pa, ch, la, pr, ne, s
<1>8. Between(t, s, p, c, t.next[c], n)
  BY <1>1, <1>2, <1>3, <1>4, <1>5, <1>6, <1>7 DEF Between
<1> QED
  BY <1>8 DEF s

(* mxmlAdd at any of its places puts the node between two neighbours, and   *)
(* at the end when it is to come behind no child in particular.             *)
LEMMA AddedBetween ==
  ASSUME NEW t \in Tree, NEW alive, alive \subseteq Node, Whole(t, alive),
         NEW n \in Node, NEW p \in alive, NEW where, NEW c \in alive \cup {NULL}
  PROVE  \E a, b : /\ Place(Removed(t, n), p, a, b)
                   /\ Between(Removed(t, n), Added(t, p, where, c, n), p, a, b, n)
                   /\ where = "after" /\ c = NULL => b = NULL
<1> DEFINE r == Removed(t, n)
           s == Added(t, p, where, c, n)
<1>1. /\ r \in Tree /\ Whole(r, alive)
      /\ r.parent[n] = NULL /\ r.prev[n] = NULL /\ r.next[n] = NULL
      /\ p \in Node /\ p # NULL
  BY RemovedWhole, NullAssumption
<1>2. \/ s = AddedFirst(r, p, n) /\ where = "before"
      \/ s = AddedLast(r, p, n)
      \/ c \in Node /\ r.parent[c] = p /\ s = AddedBefore(r, p, c, n)
      \/ c \in Node /\ r.parent[c] = p /\ s = AddedAfter(r, p, c, n)
  BY DEF Added
<1> HIDE DEF r, s
<1>3. ASSUME NEW a, NEW b, Place(r, p, a, b), Between(r, s, p, a, b, n),
             where = "after" /\ c = NULL => b = NULL
      PROVE  \E u, v : /\ Place(r, p, u, v) /\ Between(r, s, p, u, v, n)
                       /\ where = "after" /\ c = NULL => v = NULL
  BY <1>3
<1>4. /\ r.child[p] \in Node \cup {NULL} /\ r.last_child[p] \in Node \cup {NULL}
      /\ r.child[p] # NULL => r.parent[r.child[p]] = p /\ r.prev[r.child[p]] = NULL
      /\ r.last_child[p] # NULL => r.parent[r.last_child[p]] = p /\ r.next[r.last_child[p]] = NULL
      /\ r.child[p] = NULL <=> r.last_child[p] = NULL
  BY <1>1, TreePointers DEF Whole, Linked, InStep, Closed
<1>5. CASE s = AddedFirst(r, p, n) /\ where = "before"
  <2>1. Place(r, p, NULL, r.child[p])
    BY <1>4 DEF Place
  <2>2. Between(r, s, p, NULL, r.child[p], n)
    BY <1>1, <1>4, <1>5, FirstIsBetween, NullAssumption
  <2> QED
    BY <1>3, <1>5, <2>1, <2>2 DEF r, s
<1>6. CASE s = AddedLast(r, p, n)
  <2>1. Place(r, p, r.last_child[p], NULL)
    BY <1>4 DEF Place
  <2>2. Between(r, s, p, r.last_child[p], NULL, n)
    BY <1>1, <1>4, <1>6, LastIsBetween, NullAssumption
  <2> QED
    BY <1>3, <2>1, <2>2 DEF r, s
<1>7. CASE c \in Node /\ r.parent[c] = p /\ s = AddedBefore(r, p, c, n)
  <2>1. InStep(r, c) /\ r.prev[c] \in Node \cup {NULL} /\ c # NULL
    BY <1>1, <1>7, TreePointers, NullAssumption DEF Whole, Linked
  <2>2. c # n /\ r.prev[c] # n
    BY <1>1, <1>7, <2>1, NullAssumption DEF InStep
  <2>3. Place(r, p, r.prev[c], c)
    BY <1>7, <2>1 DEF Place, InStep
  <2>4. Between(r, s, p, r.prev[c], c, n)
    BY <1>1, <1>7, <2>2, BeforeIsBetween
  <2> QED
    BY <1>3, <2>1, <2>3, <2>4 DEF r, s
<1>8. CASE c \in Node /\ r.parent[c] = p /\ s = AddedAfter(r, p, c, n)
  <2>1. InStep(r, c) /\ r.next[c] \in Node \cup {NULL} /\ c # NULL
    BY <1>1, <1>8, TreePointers, NullAssumption DEF Whole, Linked
  <2>2. c # n /\ r.next[c] # n
    BY <1>1, <1>8, <2>1, NullAssumption DEF InStep
  <2>3. Place(r, p, c, r.next[c])
    BY <1>8, <2>1 DEF Place, InStep
  <2>4. Between(r, s, p, c, r.next[c], n)
    BY <1>1, <1>8, <2>2, AfterIsBetween
  <2> QED
    BY <1>3, <2>1, <2>3, <2>4 DEF r, s
<1> QED
  BY <1>2, <1>5, <1>6, <1>7, <1>8 DEF r, s

(* mxmlAdd leaves a whole tree whole, wherever the node was and whatever    *)
(* place is asked for.                                                      *)
LEMMA AddedWhole ==
  ASSUME NEW t \in Tree, NEW alive, alive \subseteq Node, Whole(t, alive),
         NEW n \in Node, NEW p \in alive, NEW where, NEW c \in alive \cup {NULL}
  PROVE  /\ Added(t, p, where, c, n) \in Tree
         /\ Whole(Added(t, p, where, c, n), alive \cup {n})
<1>1. PICK r \in Tree : r = Removed(t, n) /\ Whole(r, alive) /\ r.parent[n] = NULL
  BY RemovedWhole
<1>2. PICK s : s = Added(t, p, where, c, n)
  OBVIOUS
<1>3. PICK a, b : Place(r, p, a, b) /\ Between(r, s, p, a, b, n)
  BY <1>1, <1>2, AddedBetween
<1>4. Whole(s, alive \cup {n})
  BY <1>1, <1>3, BetweenWhole
<1> QED
  BY <1>2, <1>3, <1>4 DEF Between

-----------------------------------------------------------------------------
(* mxmlDelete takes its argument out and starts at its first child.         *)
LEMMA DeleteStarts ==
  ASSUME Typed, Whole(links, live), NEW n \in live, Delete(n)
  PROVE  TreeInv'
<1>1. /\ live' = live /\ doomed' = n /\ links' = Removed(links, n) /\ current' = links'.child[n]
      /\ live \subseteq Node /\ n \in Node /\ n # NULL
  BY NullAssumption DEF Delete, Typed
<1>2. /\ links' \in Tree /\ Whole(links', live) /\ links'.parent[n] = NULL
      /\ links'.prev[n] = NULL /\ links'.next[n] = NULL
  BY <1>1, RemovedWhole DEF Typed
<1>3. Typed'
  BY <1>1, <1>2, TreePointers DEF Typed
<1>4. current' # NULL =>
        /\ current' \in live /\ links'.parent[current'] = n /\ links'.prev[current'] = NULL
        /\ current' # n
        /\ links'.child[current'] = NULL => links'.last_child[current'] = NULL
  BY <1>1, <1>2 DEF Whole, Linked, InStep, Closed
<1>5. current' = NULL => links'.last_child[n] = NULL
  BY <1>1, <1>2 DEF Whole, Closed
<1>6. PICK c : c = current'
  OBVIOUS
<1> DEFINE S == {n} \cup ({c} \ {NULL})
<1>7. Spine(S)'
  <2>1. \A T \in SUBSET S : c \in T /\ (\A x \in T \ {n} : links'.parent[x] \in T) => T = S
    BY <1>1, <1>4, <1>6
  <2>2. \A x, y \in S : links'.parent[x] = links'.parent[y] => x = y
    BY <1>2, <1>4, <1>6, <1>1
  <2>3. \A x \in S : links'.parent[x] # c \/ c = NULL
    BY <1>2, <1>4, <1>6, <1>1
  <2>4. links'.child[n] \in live => links'.child[n] \in S \ {n}
    BY <1>1, <1>4, <1>6, NullAssumption
  <2> QED
    BY <1>1, <1>2, <1>4, <1>6, <2>1, <2>2, <2>3, <2>4, NullAssumption DEF Spine
<1>8. LastIsBare'
  BY <1>1, <1>2, <1>4, <1>5, NullAssumption DEF LastIsBare
<1>9. PartlyLinked(S)'
  BY <1>1, <1>2, <1>4, <1>6, NullAssumption DEF PartlyLinked, Whole, Linked, InStep, Closed
<1>10. S \in SUBSET Node
  BY <1>1, <1>4, <1>6
<1> HIDE DEF S
<1>11. Deleting'
  BY <1>7, <1>8, <1>9, <1>10 DEF Deleting
<1> QED
  BY <1>1, <1>2, <1>3, <1>11 DEF TreeInv, Idle, Whole

(* The node that the loop is at is below the argument, allocated, and has   *)
(* lost everything before it in its list.                                   *)
LEMMA CurrentFacts ==
  ASSUME Typed, NEW S, Spine(S), LastIsBare, PartlyLinked(S), current # NULL
  PROVE  /\ current \in live /\ current \in Node /\ current \in S /\ current # doomed
         /\ links.parent[current] \in S /\ links.parent[current] # current
         /\ links.parent[current] # NULL
         /\ links.prev[current] \notin live
BY NullAssumption DEF Typed, Spine

(* mxmlDelete goes down to a child and keeps the invariant, ...            *)
LEMMA DescendKeeps ==
  ASSUME TreeInv, Descend
  PROVE  TreeInv'
<1>1. /\ live' = live /\ doomed' = doomed /\ current' = links.child[current]
      /\ ~Idle /\ current # NULL /\ current' # NULL
      /\ links' = [links EXCEPT !.child = Set(@, current, NULL)]
      /\ Typed /\ live \subseteq Node /\ DeadBare(links, live) /\ links.parent[doomed] = NULL
  BY DEF Descend, TreeInv, Typed
<1>2. PICK S \in SUBSET Node : Spine(S) /\ LastIsBare /\ PartlyLinked(S)
  BY <1>1 DEF TreeInv, Deleting
<1>3. /\ links' \in Tree
      /\ links'.parent = links.parent /\ links'.last_child = links.last_child
      /\ links'.prev = links.prev /\ links'.next = links.next
      /\ \A m \in Node : links'.child[m] = IF m = current THEN NULL ELSE links.child[m]
  <2>1. Set(links.child, current, NULL) \in Ptr
        /\ \A m \in Node : Set(links.child, current, NULL)[m] =
                            IF m = current THEN NULL ELSE links.child[m]
    BY <1>1, SetIs, TreePointers DEF Typed
  <2> QED
    BY <1>1, <2>1 DEF Typed, Tree
<1>4. /\ current \in live /\ current \in Node /\ current \in S /\ current # doomed
      /\ links.parent[current] \in S
  BY <1>1, <1>2, CurrentFacts
<1>5. /\ current' \in live /\ links.parent[current'] = current /\ links.prev[current'] = NULL
      /\ current' \notin S /\ current' # doomed /\ current' # current
      /\ links.child[current'] = NULL => links.last_child[current'] = NULL
  BY <1>1, <1>2, <1>4 DEF PartlyLinked, Spine
<1>6. PICK c : c = current'
  OBVIOUS
<1> DEFINE R == S \cup {c}
<1>7. Spine(R)'
  <2>1. \A T \in SUBSET R :
          c \in T /\ (\A x \in T \ {doomed} : links.parent[x] \in T) => T = R
    <3> SUFFICES ASSUME NEW T \in SUBSET R, c \in T,
                        \A x \in T \ {doomed} : links.parent[x] \in T
                 PROVE  T = R
      OBVIOUS
    <3>1. /\ T \cap S \in SUBSET S /\ current \in T \cap S
          /\ \A x \in (T \cap S) \ {doomed} : links.parent[x] \in T \cap S
      BY <1>2, <1>4, <1>5, <1>6 DEF Spine
    <3>2. T \cap S = S
      BY <1>2, <3>1 DEF Spine
    <3> QED
      BY <3>2
  <2>2. \A x, y \in R : links.parent[x] = links.parent[y] => x = y
    BY <1>2, <1>4, <1>5, <1>6 DEF Spine
  <2>3. \A x \in R : links.parent[x] # c
    BY <1>1, <1>2, <1>4, <1>5, <1>6, NullAssumption DEF Spine
  <2>4. \A x \in R \ {doomed} : links.parent[x] \in R /\ links.prev[x] \notin live
    BY <1>1, <1>2, <1>4, <1>5, <1>6, NullAssumption DEF Spine
  <2>5. \A x \in R \ {doomed, c} : links'.child[x] = NULL
    BY <1>1, <1>2, <1>3, <1>4, <1>5, <1>6, NullAssumption DEF Spine
  <2>6. links'.child[doomed] \in live => links'.child[doomed] \in R \ {doomed}
    BY <1>1, <1>2, <1>3, <1>4, <1>5, <1>6, NullAssumption DEF Spine
  <2>7. R \subseteq live /\ doomed \in R /\ c \in R \ {doomed}
    BY <1>1, <1>2, <1>5, <1>6 DEF Spine
  <2> HIDE DEF R
  <2> QED
    BY <1>1, <1>3, <1>6, <2>1, <2>2, <2>3, <2>4, <2>5, <2>6, <2>7 DEF Spine
<1>8. LastIsBare'
  BY <1>1, <1>3, <1>5, NullAssumption DEF LastIsBare
<1>9. PartlyLinked(R)'
  BY <1>1, <1>2, <1>3, <1>4, <1>5, <1>6, TreePointers, NullAssumption DEF PartlyLinked, Typed
<1>10. DeadBare(links', live')
  BY <1>1, <1>3, <1>4 DEF DeadBare
<1>11. Typed'
  BY <1>1, <1>3, <1>5 DEF Typed
<1>12. R \in SUBSET Node
  BY <1>1, <1>5, <1>6
<1> HIDE DEF R
<1>13. Deleting'
  BY <1>7, <1>8, <1>9, <1>12 DEF Deleting
<1> QED
  BY <1>1, <1>3, <1>10, <1>11, <1>13 DEF TreeInv, Idle

(* What every pointer of every node is once n was freed.                    *)
LEMMA FreedIs ==
  ASSUME NEW t \in Tree, NEW n \in Node
  PROVE  /\ Freed(t, n) \in Tree
         /\ \A m \in Node :
              /\ Freed(t, n).parent[m] = IF m = n THEN NULL ELSE t.parent[m]
              /\ Freed(t, n).child[m] = IF m = n THEN NULL ELSE t.child[m]
              /\ Freed(t, n).last_child[m] = IF m = n THEN NULL ELSE t.last_child[m]
              /\ Freed(t, n).prev[m] = IF m = n THEN NULL ELSE t.prev[m]
              /\ Freed(t, n).next[m] = IF m = n THEN NULL ELSE t.next[m]
<1>1. \A f \in Ptr : /\ Set(f, n, NULL) \in Ptr
                     /\ \A m \in Node : Set(f, n, NULL)[m] = IF m = n THEN NULL ELSE f[m]
  BY SetIs
<1> QED
  BY <1>1, TreePointers DEF Freed, Tree

(* ... and so it does when it frees a node and goes on from there.         *)
LEMMA FreeCurrentKeeps ==
  ASSUME TreeInv, FreeCurrent
  PROVE  TreeInv'
<1>1. /\ live' = live \ {current} /\ doomed' = doomed /\ links' = Freed(links, current)
      /\ current' = NextOf(current)
      /\ ~Idle /\ current # NULL /\ links.child[current] = NULL
      /\ Typed /\ live \subseteq Node /\ DeadBare(links, live) /\ links.parent[doomed] = NULL
  BY DEF FreeCurrent, Free, TreeInv, Typed
<1>2. PICK S \in SUBSET Node : Spine(S) /\ LastIsBare /\ PartlyLinked(S)
  BY <1>1 DEF TreeInv, Deleting
<1>3. /\ current \in live /\ current \in Node /\ current \in S /\ current # doomed
      /\ links.parent[current] \in S /\ links.parent[current] # current
      /\ links.parent[current] # NULL /\ links.prev[current] \notin live
      /\ doomed \in S /\ doomed # NULL /\ S \subseteq live
      /\ links.last_child[current] \notin live
  BY <1>1, <1>2, CurrentFacts DEF Spine, LastIsBare, Idle
<1>4. /\ links' \in Tree
      /\ \A m \in Node :
            /\ links'.parent[m] = IF m = current THEN NULL ELSE links.parent[m]
            /\ links'.child[m] = IF m = current THEN NULL ELSE links.child[m]
            /\ links'.last_child[m] = IF m = current THEN NULL ELSE links.last_child[m]
            /\ links'.prev[m] = IF m = current THEN NULL ELSE links.prev[m]
            /\ links'.next[m] = IF m = current THEN NULL ELSE links.next[m]
  <2>1. links \in Tree /\ current \in Node /\ links' = Freed(links, current)
    BY <1>1, <1>3 DEF Typed
  <2> QED
    BY <2>1, FreedIs
<1>5. DeadBare(links', live')
  BY <1>1, <1>3, <1>4 DEF DeadBare
(* The spine after the step, whichever way the loop goes on.                *)
<1>6. ASSUME NEW R \in SUBSET Node, S \ {current} \subseteq R, Spine(R)', LastIsBare',
             links.next[current] # NULL => links.next[current] \in R \ {doomed},
             current' \in Node \cup {NULL}
      PROVE  TreeInv'
  <2>1. PartlyLinked(R)'
    <3> SUFFICES ASSUME NEW n \in live, n # current
                 PROVE /\ links'.next[n] # NULL =>
                             /\ links'.next[n] \in live'
                             /\ links'.prev[links'.next[n]] = n
                             /\ links'.parent[links'.next[n]] = links'.parent[n]
                       /\ links'.prev[n] # NULL =>
                             \/ n \in R \ {doomed'}
                             \/ /\ links'.prev[n] \in live'
                                /\ links'.next[links'.prev[n]] = n
                                /\ links'.parent[links'.prev[n]] = links'.parent[n]
                       /\ links'.child[n] # NULL /\ n # doomed' =>
                             /\ links'.child[n] \in live'
                             /\ links'.parent[links'.child[n]] = n
                             /\ links'.prev[links'.child[n]] = NULL
                       /\ links'.last_child[n] # NULL =>
                             \/ n \in R /\ links'.last_child[n] \notin live'
                             \/ /\ links'.last_child[n] \in live'
                                /\ links'.parent[links'.last_child[n]] = n
                                /\ links'.next[links'.last_child[n]] = NULL
                       /\ links'.parent[n] # NULL =>
                             /\ links'.prev[n] = NULL => n \in R \/ links'.child[links'.parent[n]] = n
                             /\ links'.next[n] = NULL => links'.last_child[links'.parent[n]] = n
                       /\ links'.parent[n] = NULL => links'.prev[n] = NULL /\ links'.next[n] = NULL
                       /\ n \notin R => (links'.child[n] = NULL <=> links'.last_child[n] = NULL)
      BY <1>1 DEF PartlyLinked
    <3>1. /\ n \in Node /\ links.next[n] # current
      BY <1>1, <1>2, <1>3 DEF PartlyLinked
    <3>2. links.prev[n] = current => n \in R \ {doomed}
      <4> SUFFICES ASSUME links.prev[n] = current PROVE n \in R \ {doomed}
        OBVIOUS
      <4>1. n \in S \ {doomed} \/ links.next[current] = n
        BY <1>1, <1>2 DEF PartlyLinked
      <4>2. n # NULL
        BY <1>1, NullAssumption
      <4> QED BY <1>6, <4>1, <4>2
    <3>3. n # doomed => links.child[n] # current
      BY <1>1, <1>2, <1>3 DEF PartlyLinked, Spine
    <3>4. links.last_child[n] = current => n \in R
      BY <1>1, <1>2, <1>3, <1>6 DEF PartlyLinked
    <3>5. links.parent[n] = current => links.prev[n] # NULL /\ links.next[n] # NULL
      BY <1>1, <1>2, <1>3 DEF PartlyLinked, Spine
    <3>6. n \in S => n \in R
      BY <1>6
    <3>7. /\ links.next[n] # NULL =>
                /\ links.next[n] \in live
                /\ links.prev[links.next[n]] = n
                /\ links.parent[links.next[n]] = links.parent[n]
          /\ links.prev[n] # NULL =>
                \/ n \in S \ {doomed}
                \/ /\ links.prev[n] \in live
                   /\ links.next[links.prev[n]] = n
                   /\ links.parent[links.prev[n]] = links.parent[n]
          /\ links.child[n] # NULL /\ n # doomed =>
                /\ links.child[n] \in live
                /\ links.parent[links.child[n]] = n
                /\ links.prev[links.child[n]] = NULL
          /\ links.last_child[n] # NULL =>
                \/ n \in S /\ links.last_child[n] \notin live
                \/ /\ links.last_child[n] \in live
                   /\ links.parent[links.last_child[n]] = n
                   /\ links.next[links.last_child[n]] = NULL
          /\ links.parent[n] # NULL =>
                /\ links.prev[n] = NULL => n \in S \/ links.child[links.parent[n]] = n
                /\ links.next[n] = NULL => links.last_child[links.parent[n]] = n
          /\ links.parent[n] = NULL => links.prev[n] = NULL /\ links.next[n] = NULL
          /\ n \notin S => (links.child[n] = NULL <=> links.last_child[n] = NULL)
      BY <1>2 DEF PartlyLinked
    <3>8. links.parent[n] \in Node \cup {NULL}
      BY <1>1, <3>1, TreePointers DEF Typed
    <3> QED
      BY <1>1, <1>4, <3>1, <3>2, <3>3, <3>4, <3>5, <3>6, <3>7, <3>8
  <2>2. Typed'
    BY <1>1, <1>4, <1>6 DEF Typed
  <2>3. Deleting'
    BY <1>6, <2>1 DEF Deleting
  <2> QED
    BY <1>1, <1>3, <1>4, <1>5, <2>2, <2>3 DEF TreeInv, Idle
<1>7. \A x \in S \ {current} : links'.parent[x] = links.parent[x] /\ links'.child[x] = links.child[x]
  BY <1>2, <1>4
<1>8. \A x \in S : x # doomed => links.parent[x] \in S \ {current}
  BY <1>1, <1>2, <1>3 DEF Spine
(* The spine is named by its nodes, not by where the loop is.               *)
<1>9. PICK k : k = current
  OBVIOUS
<1>10. ASSUME NEW b, b = links.next[current], b # NULL
      PROVE  TreeInv'
  <2>1. /\ b \in live /\ b \in Node /\ links.prev[b] = current
        /\ links.parent[b] = links.parent[current] /\ current' = b
    BY <1>9, <1>1, <1>2, <1>3, <1>10 DEF PartlyLinked, NextOf
  <2>2. b \notin S /\ b # current /\ b # doomed
    BY <1>9, <1>1, <1>2, <1>3, <2>1 DEF Spine
  <2> DEFINE R == (S \ {k}) \cup {b}
  <2>3. \A T \in SUBSET R : b \in T /\ (\A x \in T \ {doomed} : links'.parent[x] \in T) => T = R
    <3> SUFFICES ASSUME NEW T \in SUBSET R, b \in T,
                        \A x \in T \ {doomed} : links'.parent[x] \in T
                 PROVE  T = R
      OBVIOUS
    <3> DEFINE U == (T \ {b}) \cup {current}
    <3>1. U \in SUBSET S
      BY <1>9, <1>3
    <3>2. \A x \in U \ {doomed} : links.parent[x] \in U
      <4>1. links'.parent[b] = links.parent[current]
        BY <1>9, <1>4, <2>1, <2>2
      <4>2. links.parent[current] \in T \ {b}
        BY <1>9, <1>3, <2>2, <4>1
      <4>3. \A x \in T \ {b, doomed} : links.parent[x] \in T \ {b}
        BY <1>9, <1>7, <1>8, <2>2
      <4> QED
        BY <1>9, <4>2, <4>3
    <3>3. U = S
      BY <1>9, <1>2, <3>1, <3>2 DEF Spine
    <3> QED
      BY <1>9, <3>3
  <2>4. links'.parent[b] = links.parent[current] /\ links'.prev[b] = current
    BY <1>9, <1>4, <2>1, <2>2
  <2>5. \A x, y \in R : links'.parent[x] = links'.parent[y] => x = y
    BY <1>9, <1>2, <1>3, <1>7, <2>4 DEF Spine
  <2>6. \A x \in R : links'.parent[x] # b
    <3>1. links'.parent[b] # b
      BY <1>9, <1>3, <2>2, <2>4
    <3>2. \A x \in S \ {current, doomed} : links'.parent[x] # b
      BY <1>9, <1>7, <1>8, <2>2
    <3>3. links'.parent[doomed] = NULL
      BY <1>9, <1>1, <1>3, <1>7
    <3> QED
      BY <1>9, <1>10, <3>1, <3>2, <3>3
  <2>7. \A x \in R \ {doomed} : links'.parent[x] \in R /\ links'.prev[x] \notin live'
    <3>1. links'.parent[b] \in R /\ links'.prev[b] \notin live'
      BY <1>9, <1>1, <1>3, <2>4
    <3>2. \A x \in S \ {current, doomed} :
            /\ links.parent[x] \in S \ {current}
            /\ links'.prev[x] = links.prev[x] /\ links.prev[x] \notin live
      BY <1>9, <1>2, <1>4, <1>8 DEF Spine
    <3> QED
      BY <1>9, <1>1, <1>7, <3>1, <3>2
  <2>8. \A x \in R \ {doomed, b} : links'.child[x] = NULL
    BY <1>9, <1>2, <1>7 DEF Spine
  <2>9. links'.child[doomed] \in live' => links'.child[doomed] \in R \ {doomed}
    BY <1>9, <1>1, <1>2, <1>3, <1>7 DEF Spine
  <2>10. R \subseteq live' /\ doomed \in R /\ b \in R \ {doomed}
    BY <1>9, <1>1, <1>3, <2>1, <2>2
  <2>11. R \in SUBSET Node
    BY <1>9, <2>1
  <2>12. S \ {current} \subseteq R
    BY <1>9
  <2> HIDE DEF R
  <2>13. Spine(R)'
    BY <1>9, <1>1, <1>10, <2>1, <2>3, <2>5, <2>6, <2>7, <2>8, <2>9, <2>10 DEF Spine
  <2>14. LastIsBare'
    <3>1. links.child[b] = NULL => links.last_child[b] = NULL
      BY <1>9, <1>2, <2>1, <2>2 DEF PartlyLinked
    <3>2. NULL \notin live'
      BY <1>9, <1>1, NullAssumption
    <3> QED
      BY <1>9, <1>4, <1>10, <2>1, <2>2, <3>1, <3>2 DEF LastIsBare
  <2> QED
    BY <1>9, <1>6, <1>10, <2>1, <2>10, <2>11, <2>12, <2>13, <2>14
<1>11. CASE links.next[current] = NULL
  <2> DEFINE R == S \ {k}
  <2>1. PICK p : p = links.parent[current]
    OBVIOUS
  <2>2. /\ p \in R /\ p \in Node /\ links.last_child[p] = current
        /\ current' = IF p = doomed THEN NULL ELSE p
    BY <1>9, <1>1, <1>2, <1>3, <1>11, <2>1 DEF PartlyLinked, NextOf
  <2>3. \A x \in R \ {doomed} : links'.parent[x] \in R /\ links'.prev[x] \notin live'
    <3>1. \A x \in S \ {current, doomed} :
            links'.prev[x] = links.prev[x] /\ links.prev[x] \notin live
      BY <1>9, <1>2, <1>4 DEF Spine
    <3> QED
      BY <1>9, <1>1, <1>7, <1>8, <3>1
  <2>4. \A x, y \in R : links'.parent[x] = links'.parent[y] => x = y
    BY <1>9, <1>2, <1>7 DEF Spine
  <2>5. \A x \in R : links'.parent[x] # p
    BY <1>9, <1>2, <1>3, <1>7, <2>1 DEF Spine
  <2>6. \A T \in SUBSET R : p \in T /\ (\A x \in T \ {doomed} : links'.parent[x] \in T) => T = R
    <3> SUFFICES ASSUME NEW T \in SUBSET R, p \in T,
                        \A x \in T \ {doomed} : links'.parent[x] \in T
                 PROVE  T = R
      OBVIOUS
    <3> DEFINE U == T \cup {current}
    <3>1. U \in SUBSET S /\ \A x \in U \ {doomed} : links.parent[x] \in U
      BY <1>9, <1>3, <1>7, <2>1
    <3>2. U = S
      BY <1>9, <1>2, <3>1 DEF Spine
    <3> QED
      BY <1>9, <3>2
  <2>7. p = doomed => R = {doomed}
    <3>1. {doomed} \in SUBSET R
      BY <1>3, <1>9
    <3> QED
      BY <2>6, <3>1
  <2>8. \A x \in R \ {doomed} : links'.child[x] = NULL
    BY <1>9, <1>2, <1>7 DEF Spine
  <2>9. links'.child[doomed] \in live' => links'.child[doomed] \in R \ {doomed}
    BY <1>9, <1>1, <1>2, <1>3, <1>7 DEF Spine
  <2>10. R \subseteq live' /\ doomed \in R /\ R \in SUBSET Node
    BY <1>9, <1>1, <1>3
  <2>11. links'.last_child[p] \notin live'
    BY <1>9, <1>1, <1>4, <2>2
  <2>12. p # NULL /\ NULL \notin R
    BY <1>9, <1>3, <2>2, NullAssumption
  <2>13. Spine(R)'
    <3>1. CASE p = doomed
      BY <1>9, <1>1, <2>2, <2>3, <2>4, <2>7, <2>8, <2>9, <2>10, <2>12, <3>1 DEF Spine
    <3>2. CASE p # doomed
      <4> HIDE DEF R
      <4> QED
        BY <1>9, <1>1, <2>2, <2>3, <2>4, <2>5, <2>6, <2>8, <2>9, <2>10, <2>12, <3>2 DEF Spine
    <3> QED
      BY <1>9, <3>1, <3>2
  <2>14. LastIsBare'
    BY <1>9, <1>1, <2>2, <2>7, <2>9, <2>11, <2>12 DEF LastIsBare
  <2> QED
    BY <1>9, <1>6, <1>11, <2>2, <2>10, <2>13, <2>14
<1> QED
  BY <1>10, <1>11

(* Once everything below it is gone, the argument leaves a whole tree       *)
(* behind.                                                                  *)
LEMMA FreeDoomedKeeps ==
  ASSUME TreeInv, FreeDoomed
  PROVE  TreeInv'
<1>1. /\ live' = live \ {doomed} /\ doomed' = NULL /\ links' = Freed(links, doomed)
      /\ current' = NULL /\ current = NULL /\ ~Idle
      /\ Typed /\ live \subseteq Node /\ DeadBare(links, live) /\ links.parent[doomed] = NULL
  BY DEF FreeDoomed, Free, TreeInv, Typed
<1>2. /\ Spine({doomed}) /\ PartlyLinked({doomed})
      /\ links.child[doomed] \notin live /\ links.last_child[doomed] \notin live
  BY <1>1 DEF TreeInv, Deleting, Spine, LastIsBare
<1>3. /\ doomed \in live /\ doomed \in Node /\ links \in Tree
      /\ links.prev[doomed] = NULL /\ links.next[doomed] = NULL
  BY <1>1, <1>2 DEF Spine, Typed, PartlyLinked
<1>4. /\ links' \in Tree
      /\ \A m \in Node :
            /\ links'.parent[m] = IF m = doomed THEN NULL ELSE links.parent[m]
            /\ links'.child[m] = IF m = doomed THEN NULL ELSE links.child[m]
            /\ links'.last_child[m] = IF m = doomed THEN NULL ELSE links.last_child[m]
            /\ links'.prev[m] = IF m = doomed THEN NULL ELSE links.prev[m]
            /\ links'.next[m] = IF m = doomed THEN NULL ELSE links.next[m]
  <2>1. links \in Tree /\ doomed \in Node /\ links' = Freed(links, doomed)
    BY <1>1, <1>3
  <2> QED
    BY <2>1, FreedIs
<1>5. DeadBare(links', live')
  BY <1>1, <1>3, <1>4 DEF DeadBare
<1>6. ASSUME NEW n \in live, n # doomed
      PROVE  /\ n \in Node
             /\ links.next[n] # NULL => links.next[n] # doomed
             /\ links.prev[n] # NULL => links.prev[n] # doomed
             /\ links.child[n] # NULL => links.child[n] # doomed
             /\ links.last_child[n] # NULL => links.last_child[n] # doomed
             /\ links.parent[n] = doomed => links.prev[n] # NULL /\ links.next[n] # NULL
  BY <1>1, <1>2, <1>3, <1>6, NullAssumption DEF PartlyLinked
<1>7. Linked(links')
  <2> SUFFICES ASSUME NEW n \in Node PROVE InStep(links', n)
    BY DEF Linked
  <2>1. CASE n \notin live'
    <3>1. /\ links'.parent[n] = NULL /\ links'.child[n] = NULL /\ links'.last_child[n] = NULL
          /\ links'.prev[n] = NULL /\ links'.next[n] = NULL
      BY <1>5, <2>1 DEF DeadBare
    <3> QED
      BY <3>1 DEF InStep
  <2>2. CASE n \in live'
    <3>1. n \in live /\ n # doomed
      BY <1>1, <2>2
    <3>2. /\ links.next[n] # NULL =>
                /\ links.next[n] \in Node /\ links.next[n] # doomed
                /\ links.prev[links.next[n]] = n
                /\ links.parent[links.next[n]] = links.parent[n]
          /\ links.prev[n] # NULL =>
                /\ links.prev[n] \in Node /\ links.prev[n] # doomed
                /\ links.next[links.prev[n]] = n
                /\ links.parent[links.prev[n]] = links.parent[n]
          /\ links.child[n] # NULL =>
                /\ links.child[n] \in Node /\ links.child[n] # doomed
                /\ links.parent[links.child[n]] = n
                /\ links.prev[links.child[n]] = NULL
          /\ links.last_child[n] # NULL =>
                /\ links.last_child[n] \in Node /\ links.last_child[n] # doomed
                /\ links.parent[links.last_child[n]] = n
                /\ links.next[links.last_child[n]] = NULL
          /\ links.parent[n] # NULL =>
                /\ links.prev[n] = NULL => links.child[links.parent[n]] = n
                /\ links.next[n] = NULL => links.last_child[links.parent[n]] = n
          /\ links.parent[n] = NULL => links.prev[n] = NULL /\ links.next[n] = NULL
      BY <1>1, <1>2, <1>6, <3>1 DEF PartlyLinked
    <3>3. /\ links.parent[n] = doomed => links.prev[n] # NULL /\ links.next[n] # NULL
          /\ links.parent[n] \in Node \cup {NULL}
      BY <1>3, <1>6, <3>1, TreePointers
    <3> QED
      BY <1>4, <3>1, <3>2, <3>3 DEF InStep
  <2> QED
    BY <2>1, <2>2
<1>8. Closed(links', live')
  BY <1>1, <1>2, <1>4, <1>6 DEF Closed, PartlyLinked
<1> QED
  BY <1>1, <1>4, <1>5, <1>7, <1>8 DEF TreeInv, Idle, Whole, Typed

-----------------------------------------------------------------------------
(* The invariant holds of no nodes, ...                                    *)
LEMMA TreeInvInit == Init => TreeInv
<1> SUFFICES ASSUME Init PROVE TreeInv
  OBVIOUS
<1>1. /\ live = {} /\ doomed = NULL /\ current = NULL
      /\ links \in Tree
      /\ \A m \in Node : /\ links.parent[m] = NULL /\ links.child[m] = NULL
                         /\ links.last_child[m] = NULL
                         /\ links.prev[m] = NULL /\ links.next[m] = NULL
  BY DEF Init, NoLinks, Tree, Ptr
<1> QED
  BY <1>1, NullAssumption
  DEF TreeInv, Typed, Idle, Whole, Linked, InStep, DeadBare, Closed

(* ... and every step keeps it.                                            *)
LEMMA TreeInvStep ==
  ASSUME TreeInv, [Next]_vars
  PROVE  TreeInv'
<1>1. /\ Typed /\ DeadBare(links, live)
      /\ Idle => current = NULL /\ Whole(links, live) /\ doomed = NULL
      /\ live \subseteq Node /\ links \in Tree
  BY DEF TreeInv, Typed, Idle
(* Calls that leave mxmlDelete aside: what they leave is whole.             *)
<1>2. ASSUME Idle, UNCHANGED <<doomed, current>>, links' \in Tree, live' \subseteq Node,
             Whole(links', live')
      PROVE  TreeInv'
  BY <1>1, <1>2 DEF TreeInv, Typed, Idle, Whole
<1>3. ASSUME NEW n \in Node, NEW p \in live \cup {NULL}, New(n, p)
      PROVE  TreeInv'
  <2>1. /\ Idle /\ n \notin live /\ live' = live \cup {n} /\ UNCHANGED <<doomed, current>>
    BY <1>3 DEF New
  <2>2. CASE p = NULL
    <3>1. links' = links
      BY <1>3, <2>2 DEF New
    <3>2. Whole(links, live \cup {n})
      BY <1>1, <2>1 DEF Whole, DeadBare, Closed
    <3> QED
      BY <1>1, <1>2, <2>1, <3>1, <3>2
  <2>3. CASE p # NULL
    <3>1. links' = Added(links, p, "after", NULL, n) /\ p \in live
      BY <1>3, <2>3 DEF New
    <3>2. links' \in Tree /\ Whole(links', live \cup {n})
      BY <1>1, <2>1, <3>1, AddedWhole
    <3> QED
      BY <1>1, <1>2, <2>1, <3>2
  <2> QED
    BY <2>2, <2>3
<1>4. ASSUME NEW n \in live, NEW p \in live, NEW where \in {"before", "after"},
             NEW c \in live \cup {NULL}, Add(n, p, where, c)
      PROVE  TreeInv'
  <2>1. /\ Idle /\ live' = live /\ UNCHANGED <<doomed, current>>
        /\ links' = Added(links, p, where, c, n) /\ live \cup {n} = live
    BY <1>4 DEF Add
  <2>2. links' \in Tree /\ Whole(links', live \cup {n})
    BY <1>1, <2>1, AddedWhole
  <2> QED
    BY <1>1, <1>2, <2>1, <2>2
<1>5. ASSUME NEW n \in live, TakeOut(n)
      PROVE  TreeInv'
  <2>1. /\ Idle /\ live' = live /\ UNCHANGED <<doomed, current>> /\ links' = Removed(links, n)
    BY <1>5 DEF TakeOut
  <2>2. links' \in Tree /\ Whole(links', live)
    BY <1>1, <2>1, RemovedWhole
  <2> QED
    BY <1>1, <1>2, <2>1, <2>2
<1>6. ASSUME NEW n \in live, Retain(n) \/ Release(n)
      PROVE  TreeInv'
  BY <1>1, <1>2, <1>6 DEF Retain, Release
<1>7. ASSUME NEW n \in live, Delete(n)
      PROVE  TreeInv'
  BY <1>1, <1>7, DeleteStarts DEF Delete
<1>8. CASE UNCHANGED vars
  BY <1>8 DEF vars, TreeInv, Typed, Idle, Deleting, Spine, LastIsBare, PartlyLinked
<1> QED
  BY <1>3, <1>4, <1>5, <1>6, <1>7, <1>8, DescendKeeps, FreeCurrentKeeps, FreeDoomedKeeps
  DEF Next, DeleteLoop

(* Between calls the links of every node agree in both directions, and in   *)
(* the middle of mxmlDelete the loop is always at a node that is still      *)
(* allocated and is not its argument, which is freed last: for any number   *)
(* of nodes, trees of any shape and any sequence of calls.                  *)
THEOREM TreeIsSound == Spec => []TreeSound
<1>1. TreeInv => TreeSound
  <2> SUFFICES ASSUME TreeInv PROVE TreeSound
    OBVIOUS
  <2>1. WellLinked
    BY DEF TreeInv, WellLinked, Whole
  <2>2. CurrentIsLive
    BY NullAssumption DEF TreeInv, CurrentIsLive, Idle, Deleting, Spine
  <2> QED
    BY <2>1, <2>2 DEF TreeSound
<1> QED
  BY <1>1, TreeInvInit, TreeInvStep, PTL DEF Spec

(* Between calls a node that is allocated has no child, last child or       *)
(* neighbour that is not, whatever was deleted before; and where nothing is *)
(* allocated no pointer is left for the next mxmlNew to find.               *)
THEOREM NothingDangles == Spec => [](Idle => Closed(links, live) /\ DeadBare(links, live))
<1>1. TreeInv => (Idle => Closed(links, live) /\ DeadBare(links, live))
  BY DEF TreeInv, Whole
<1> QED
  BY <1>1, TreeInvInit, TreeInvStep, PTL DEF Spec

-----------------------------------------------------------------------------
(* A set of nodes that has the parents of its nodes.                        *)
Upwards(t, C) == \A x \in C : t.parent[x] # NULL => t.parent[x] \in C

(* The node and those above it, as the nodes no such set can do without.    *)
Up(t, n) == {x \in Node : \A C \in SUBSET Node : n \in C /\ Upwards(t, C) => x \in C}

(* The depth of a node, which is less for its parent, has a bound.          *)
Ranked(t) ==
  \E top \in Nat : \E rank \in [Node -> 0..top] :
    \A x \in Node : t.parent[x] # NULL => rank[t.parent[x]] < rank[x]

(* It has the node, and the parents of its nodes, and no more than it must. *)
LEMMA UpIs ==
  ASSUME NEW t \in Tree, NEW n \in Node
  PROVE  /\ n \in Up(t, n) /\ Up(t, n) \in SUBSET Node /\ Upwards(t, Up(t, n))
         /\ \A C \in SUBSET Node : n \in C /\ Upwards(t, C) => Up(t, n) \subseteq C
         /\ t.parent[n] = NULL => Up(t, n) = {n}
         /\ t.parent[n] # NULL => Up(t, n) = {n} \cup Up(t, t.parent[n])
<1>1. n \in Up(t, n) /\ Up(t, n) \in SUBSET Node
  BY DEF Up
<1>2. Upwards(t, Up(t, n))
  BY TreePointers DEF Up, Upwards
<1>3. \A C \in SUBSET Node : n \in C /\ Upwards(t, C) => Up(t, n) \subseteq C
  BY DEF Up
<1>4. ASSUME t.parent[n] = NULL PROVE Up(t, n) = {n}
  <2>1. Upwards(t, {n})
    BY <1>4 DEF Upwards
  <2> QED BY <1>1, <1>3, <2>1
<1>5. ASSUME t.parent[n] # NULL PROVE Up(t, n) = {n} \cup Up(t, t.parent[n])
  <2>1. PICK p : p = t.parent[n]
    OBVIOUS
  <2>2. p \in Node
    BY <1>5, <2>1, TreePointers
  <2>3. Up(t, p) \in SUBSET Node /\ Upwards(t, Up(t, p)) /\ p \in Up(t, p)
    BY <2>2, TreePointers DEF Up, Upwards
  <2>4. Upwards(t, {n} \cup Up(t, p))
    BY <2>1, <2>3 DEF Upwards
  <2>5. Up(t, n) \subseteq {n} \cup Up(t, p)
    BY <1>3, <2>3, <2>4
  <2>6. p \in Up(t, n)
    BY <1>1, <1>2, <1>5, <2>1 DEF Upwards
  <2>7. Up(t, p) \subseteq Up(t, n)
    BY <1>1, <1>2, <2>6 DEF Up
  <2> QED BY <1>1, <2>1, <2>5, <2>7
<1> QED BY <1>1, <1>2, <1>3, <1>4, <1>5

(* Of the nodes above another, each is the parent of one.                   *)
LEMMA UpChild ==
  ASSUME NEW t \in Tree, NEW n \in Node, NEW y \in Up(t, n), y # n
  PROVE  \E c \in Up(t, n) : t.parent[c] = y
<1> SUFFICES ASSUME \A c \in Up(t, n) : t.parent[c] # y PROVE FALSE
  OBVIOUS
<1>1. PICK U : U = Up(t, n)
  OBVIOUS
<1>2. /\ n \in U /\ U \in SUBSET Node /\ Upwards(t, U)
      /\ \A C \in SUBSET Node : n \in C /\ Upwards(t, C) => U \subseteq C
  BY <1>1, UpIs
<1>3. Upwards(t, U \ {y}) /\ n \in U \ {y} /\ U \ {y} \in SUBSET Node
  BY <1>1, <1>2 DEF Upwards
<1> QED BY <1>1, <1>2, <1>3

(* What is above a node that is above another is above that one too.        *)
LEMMA UpTwice ==
  ASSUME NEW t \in Tree, NEW n \in Node, NEW y \in Up(t, n)
  PROVE  Up(t, y) \subseteq Up(t, n)
<1>1. Up(t, n) \in SUBSET Node /\ Upwards(t, Up(t, n))
  BY UpIs
<1>2. y \in Node
  BY <1>1
<1> QED BY <1>1, <1>2, UpIs

(* The recursion of UpFrom gives these nodes.                               *)
LEMMA UpFromIs ==
  ASSUME NEW t \in Tree, Ranked(t), NEW n \in Node
  PROVE  UpFrom(t, n) = Up(t, n)
<1> DEFINE Is(f) == f = [m \in Node |-> {m} \cup IF t.parent[m] = NULL THEN {} ELSE f[t.parent[m]]]
           f == CHOOSE f : Is(f)
           g == [m \in Node |-> Up(t, m)]
<1>1. Is(g)
  <2>1. ASSUME NEW m \in Node
        PROVE  g[m] = {m} \cup IF t.parent[m] = NULL THEN {} ELSE g[t.parent[m]]
    <3>1. t.parent[m] # NULL => t.parent[m] \in Node
      BY TreePointers
    <3>2. Up(t, m) = {m} \cup IF t.parent[m] = NULL THEN {} ELSE Up(t, t.parent[m])
      BY UpIs
    <3> QED BY <3>1, <3>2
  <2> DEFINE h == [m \in Node |-> {m} \cup IF t.parent[m] = NULL THEN {} ELSE g[t.parent[m]]]
  <2>2. g = [m \in Node |-> g[m]] /\ h = [m \in Node |-> h[m]] /\ \A m \in Node : g[m] = h[m]
    BY <2>1
  <2>3. g = h
    <3> HIDE DEF g, h
    <3> QED BY <2>2
  <2> QED BY <2>3
<1>2. Is(f)
  <2>1. \E h : Is(h)
    <3> HIDE DEF Is, g
    <3> QED BY <1>1
  <2> HIDE DEF Is
  <2> QED BY <2>1
<1>3. UpFrom(t, n) = f[n]
  BY DEF UpFrom
<1>4. \A m \in Node : f[m] = {m} \cup IF t.parent[m] = NULL THEN {} ELSE f[t.parent[m]]
  <2> HIDE DEF f
  <2> QED BY <1>2
<1> HIDE DEF Is, f
<1>5. PICK top \in Nat : \E rank \in [Node -> 0..top] :
        \A x \in Node : t.parent[x] # NULL => rank[t.parent[x]] < rank[x]
  BY DEF Ranked
<1>6. PICK rank \in [Node -> 0..top] :
        \A x \in Node : t.parent[x] # NULL => rank[t.parent[x]] < rank[x]
  BY <1>5
<1> DEFINE T == {k \in Nat : \A m \in Node : rank[m] < k => f[m] = Up(t, m)}
<1>7. 0 \in T
  BY <1>5, <1>6
<1>8. ASSUME NEW k \in Nat, k \in T PROVE k + 1 \in T
  <2> SUFFICES ASSUME NEW m \in Node, rank[m] < k + 1 PROVE f[m] = Up(t, m)
    OBVIOUS
  <2>1. CASE t.parent[m] = NULL
    <3>1. Up(t, m) = {m}
      BY <2>1, UpIs
    <3> QED BY <1>4, <2>1, <3>1
  <2>2. CASE t.parent[m] # NULL
    <3>1. PICK p : p = t.parent[m]
      OBVIOUS
    <3>2. p \in Node /\ rank[p] < rank[m]
      BY <1>6, <2>2, <3>1, TreePointers
    <3>3. rank[p] \in Nat /\ rank[m] \in Nat
      BY <1>5, <1>6, <3>2
    <3>4. f[p] = Up(t, p)
      BY <1>8, <3>2, <3>3
    <3>5. f[m] = {m} \cup f[p]
      BY <1>4, <2>2, <3>1
    <3>6. Up(t, m) = {m} \cup Up(t, p)
      BY <2>2, <3>1, UpIs
    <3> QED BY <3>4, <3>5, <3>6
  <2> QED BY <2>1, <2>2
<1>9. Nat \subseteq T
  <2> HIDE DEF T
  <2> QED BY <1>7, <1>8, Induction
<1>10. rank[n] < top + 1 /\ top + 1 \in Nat
  BY <1>5, <1>6
<1>11. f[n] = Up(t, n)
  BY <1>9, <1>10
<1> QED BY <1>3, <1>11

-----------------------------------------------------------------------------
(* The nodes below another, when children are the nodes whose parent it is. *)
LEMMA SubtreeIs ==
  ASSUME NEW t \in Tree, Ranked(t), NEW k,
         \A m \in Node : ToSet(k[m]) = {c \in Node : t.parent[c] = m},
         NEW n \in Node
  PROVE  Abstract!Subtree(k, n) = {x \in Node : n \in Up(t, x)}
<1> DEFINE Is(f) == f = [m \in Node |-> {m} \cup UNION {f[c] : c \in Abstract!ToSet(k[m])}]
           f == CHOOSE f : Is(f)
           g == [m \in Node |-> {x \in Node : m \in Up(t, x)}]
<1>1. \A m \in Node : Abstract!ToSet(k[m]) = {c \in Node : t.parent[c] = m}
  BY DEF Abstract!ToSet, ToSet
<1>2. ASSUME NEW m \in Node
      PROVE  g[m] = {m} \cup UNION {g[c] : c \in Abstract!ToSet(k[m])}
  <2>1. ASSUME NEW x \in g[m] PROVE x \in {m} \cup UNION {g[c] : c \in Abstract!ToSet(k[m])}
    <3>1. x \in Node /\ m \in Up(t, x)
      OBVIOUS
    <3>2. CASE x # m
      <4>1. PICK c \in Up(t, x) : t.parent[c] = m
        BY <3>1, <3>2, UpChild
      <4>2. c \in Node /\ x \in g[c]
        BY <3>1, <4>1, UpIs
      <4> QED BY <1>1, <4>1, <4>2
    <3> QED BY <3>2
  <2>2. m \in g[m]
    BY UpIs
  <2>3. ASSUME NEW c \in Node, t.parent[c] = m, NEW x \in g[c] PROVE x \in g[m]
    <3>1. x \in Node /\ c \in Up(t, x)
      OBVIOUS
    <3>2. m \in Up(t, x)
      BY <2>3, <3>1, UpIs, NullAssumption DEF Upwards
    <3> QED BY <3>1, <3>2
  <2> HIDE DEF g
  <2>4. {m} \cup UNION {g[c] : c \in Abstract!ToSet(k[m])} \subseteq g[m]
    BY <1>1, <2>2, <2>3
  <2>5. g[m] \subseteq {m} \cup UNION {g[c] : c \in Abstract!ToSet(k[m])}
    BY <2>1
  <2> QED BY <2>4, <2>5
<1>3. Is(g)
  <2> DEFINE h == [m \in Node |-> {m} \cup UNION {g[c] : c \in Abstract!ToSet(k[m])}]
  <2>1. g = [m \in Node |-> g[m]] /\ h = [m \in Node |-> h[m]] /\ \A m \in Node : g[m] = h[m]
    BY <1>2
  <2>2. g = h
    <3> HIDE DEF g, h
    <3> QED BY <2>1
  <2> QED BY <2>2
<1>4. Is(f)
  <2>1. \E h : Is(h)
    <3> HIDE DEF Is, g
    <3> QED BY <1>3
  <2> HIDE DEF Is
  <2> QED BY <2>1
<1>5. Abstract!Subtree(k, n) = f[n]
  BY DEF Abstract!Subtree
<1>6. \A m \in Node : f[m] = {m} \cup UNION {f[c] : c \in Abstract!ToSet(k[m])}
  <2> HIDE DEF f
  <2> QED BY <1>4
<1> HIDE DEF Is, f
<1>7. PICK top \in Nat : \E rank \in [Node -> 0..top] :
        \A x \in Node : t.parent[x] # NULL => rank[t.parent[x]] < rank[x]
  BY DEF Ranked
<1>8. PICK rank \in [Node -> 0..top] :
        \A x \in Node : t.parent[x] # NULL => rank[t.parent[x]] < rank[x]
  BY <1>7
(* From the deepest nodes upwards.                                          *)
<1> DEFINE T == {q \in Nat : \A m \in Node : top - rank[m] < q => f[m] = g[m]}
<1>9. 0 \in T
  BY <1>7, <1>8
<1>10. ASSUME NEW q \in Nat, q \in T PROVE q + 1 \in T
  <2> SUFFICES ASSUME NEW m \in Node, top - rank[m] < q + 1 PROVE f[m] = g[m]
    OBVIOUS
  <2>1. ASSUME NEW c \in Abstract!ToSet(k[m]) PROVE f[c] = g[c]
    <3>1. c \in Node /\ t.parent[c] = m
      BY <1>1, <2>1
    <3>2. rank[m] < rank[c] /\ rank[m] \in 0..top /\ rank[c] \in 0..top
      BY <1>8, <3>1, NullAssumption
    <3>3. top - rank[c] < q
      BY <1>7, <3>2
    <3> HIDE DEF g
    <3> QED BY <1>10, <3>1, <3>3
  <2> HIDE DEF g
  <2>2. UNION {f[c] : c \in Abstract!ToSet(k[m])} = UNION {g[c] : c \in Abstract!ToSet(k[m])}
    BY <2>1
  <2> QED BY <1>2, <1>6, <2>2
<1>11. Nat \subseteq T
  <2> HIDE DEF T
  <2> QED BY <1>9, <1>10, Induction
<1>12. top - rank[n] < top + 1 /\ top + 1 \in Nat
  BY <1>7, <1>8
<1>13. f[n] = g[n]
  <2> HIDE DEF g
  <2> QED BY <1>11, <1>12
<1> QED BY <1>5, <1>13

-----------------------------------------------------------------------------
(* L is the list of p: its children that are allocated, each once, in the   *)
(* order in which next leads through them.                                  *)
Listed(t, alive, p, L) ==
  /\ L \in Seq(alive)
  /\ \A i \in 1..Len(L) : t.parent[L[i]] = p
  /\ \A i \in 1..Len(L) : t.next[L[i]] = IF i = Len(L) THEN NULL ELSE L[i + 1]
  /\ \A i, j \in 1..Len(L) : L[i] = L[j] => i = j
  /\ \A x \in alive : t.parent[x] = p => \E i \in 1..Len(L) : L[i] = x

(* What a forest is besides its links agreeing: nothing is above itself,    *)
(* nothing hangs from what is freed, and next leads to the end of the list. *)
Arranged(t, alive) ==
  /\ Ranked(t)
  /\ \A x \in alive : t.parent[x] # NULL => t.parent[x] \in alive
  /\ \A p \in Node : \E L : Listed(t, alive, p, L)
  /\ \A x \in Node : t.parent[x] = NULL => t.next[x] = NULL
  /\ \A x \in Node \ alive : t.parent[x] = NULL

(* The first node of a list.                                                *)
HeadOf(L) == IF Len(L) = 0 THEN NULL ELSE L[1]

(* The nodes behind m in the list of its parent, from itself on.            *)
ListOver(t, alive, m) == CHOOSE L : Listed(t, alive, t.parent[m], L)
Behind(t, alive, m) ==
  IF t.parent[m] = NULL THEN <<m>>
  ELSE LET L == ListOver(t, alive, m)
           i == CHOOSE j \in 1..Len(L) : L[j] = m
       IN  SubSeq(L, i, Len(L))

(* They are the node and those behind the next one.                        *)
LEMMA BehindIs ==
  ASSUME NEW t \in Tree, NEW alive, alive \subseteq Node, Arranged(t, alive),
         NEW m \in Node
  PROVE  Behind(t, alive, m) =
           <<m>> \o IF t.next[m] = NULL THEN <<>> ELSE Behind(t, alive, t.next[m])
<1>1. CASE t.parent[m] = NULL
  <2>1. t.next[m] = NULL
    BY <1>1 DEF Arranged
  <2>2. <<m>> \o <<>> = <<m>>
    OBVIOUS
  <2> QED BY <1>1, <2>1, <2>2 DEF Behind
<1>2. CASE t.parent[m] # NULL
  <2>1. PICK p : p = t.parent[m]
    OBVIOUS
  <2>2. m \in alive /\ p \in Node
    BY <1>2, <2>1, TreePointers DEF Arranged
  <2>3. PICK L : L = ListOver(t, alive, m)
    OBVIOUS
  <2>4. \E K : Listed(t, alive, p, K)
    BY <2>2 DEF Arranged
  <2>5. L = CHOOSE K : Listed(t, alive, p, K)
    BY <2>1, <2>3 DEF ListOver
  <2>6. Listed(t, alive, p, L)
    BY <2>4, <2>5
  <2>7. /\ L \in Seq(alive) /\ Len(L) \in Nat
        /\ \A i \in 1..Len(L) : t.parent[L[i]] = p
        /\ \A i \in 1..Len(L) : t.next[L[i]] = IF i = Len(L) THEN NULL ELSE L[i + 1]
        /\ \A i, j \in 1..Len(L) : L[i] = L[j] => i = j
        /\ \E i \in 1..Len(L) : L[i] = m
    BY <2>1, <2>2, <2>6 DEF Listed
  <2>8. PICK i \in 1..Len(L) : L[i] = m
    BY <2>7
  <2>9. \A x \in Node, j \in 1..Len(L) : L[j] = x =>
            Behind(t, alive, x) = SubSeq(L, j, Len(L))
    <3> SUFFICES ASSUME NEW x \in Node, NEW j \in 1..Len(L), L[j] = x
                 PROVE  Behind(t, alive, x) = SubSeq(L, j, Len(L))
      OBVIOUS
    <3>1. t.parent[x] = p /\ p # NULL
      BY <1>2, <2>1, <2>7
    <3>2. ListOver(t, alive, x) = L
      BY <2>5, <3>1 DEF ListOver
    <3>3. (CHOOSE k \in 1..Len(L) : L[k] = x) = j
      BY <2>7
    <3> QED BY <3>1, <3>2, <3>3 DEF Behind
  <2>10. Behind(t, alive, m) = SubSeq(L, i, Len(L))
    BY <2>8, <2>9
  <2>11. SubSeq(L, i, Len(L)) = <<m>> \o SubSeq(L, i + 1, Len(L))
    <3>1. Len(L) \in i..Len(L)
      BY <2>7
    <3> QED BY <2>7, <2>8, <3>1, SubSeqRecursiveFirst
  <2>12. CASE i = Len(L)
    <3>1. t.next[m] = NULL
      BY <2>7, <2>8, <2>12
    <3>2. SubSeq(L, i + 1, Len(L)) = <<>>
      <4>1. i + 1 \in Int /\ Len(L) \in Int /\ Len(L) < i + 1
        BY <2>7, <2>12
      <4> QED BY <4>1, SubSeqEmpty
    <3> QED BY <2>10, <2>11, <3>1, <3>2
  <2>13. CASE i # Len(L)
    <3>1. i + 1 \in 1..Len(L)
      BY <2>7, <2>13
    <3>2. t.next[m] = L[i + 1]
      BY <2>7, <2>8, <2>13
    <3>3. L[i + 1] \in Node
      BY <2>7, <3>1
    <3>4. Behind(t, alive, L[i + 1]) = SubSeq(L, i + 1, Len(L))
      BY <2>9, <3>1, <3>3
    <3>5. t.next[m] # NULL
      BY <3>2, <3>3, NullAssumption
    <3> QED BY <2>10, <2>11, <3>2, <3>4, <3>5
  <2> QED BY <2>12, <2>13
<1> QED BY <1>1, <1>2

(* Following next from the first node of a list gives the list.             *)
LEMMA ListFollowed ==
  ASSUME NEW t \in Tree, NEW alive, alive \subseteq Node, Arranged(t, alive),
         NEW p, NEW L, Listed(t, alive, p, L)
  PROVE  ListFrom(t, HeadOf(L)) = L
<1> DEFINE Is(f) == f = [m \in Node |-> <<m>> \o IF t.next[m] = NULL THEN <<>> ELSE f[t.next[m]]]
           f == CHOOSE f : Is(f)
           g == [m \in Node |-> Behind(t, alive, m)]
           len == Len(L)
<1>1. ASSUME NEW m \in Node
      PROVE  g[m] = <<m>> \o IF t.next[m] = NULL THEN <<>> ELSE g[t.next[m]]
  <2>1. t.next[m] # NULL => t.next[m] \in Node
    BY TreePointers
  <2> QED BY <2>1, BehindIs
<1>2. Is(g)
  <2> DEFINE h == [m \in Node |-> <<m>> \o IF t.next[m] = NULL THEN <<>> ELSE g[t.next[m]]]
  <2>1. g = [m \in Node |-> g[m]] /\ h = [m \in Node |-> h[m]] /\ \A m \in Node : g[m] = h[m]
    BY <1>1
  <2>2. g = h
    <3> HIDE DEF g, h
    <3> QED BY <2>1
  <2> QED BY <2>2
<1>3. Is(f)
  <2>1. \E h : Is(h)
    <3> HIDE DEF Is, g
    <3> QED BY <1>2
  <2> HIDE DEF Is
  <2> QED BY <2>1
<1>4. \A m : ListFrom(t, m) = IF m = NULL THEN <<>> ELSE f[m]
  BY DEF ListFrom
<1>5. \A m \in Node : f[m] = <<m>> \o IF t.next[m] = NULL THEN <<>> ELSE f[t.next[m]]
  <2> HIDE DEF f
  <2> QED BY <1>3
<1> HIDE DEF Is, f, g
<1>6. /\ L \in Seq(Node) /\ len \in Nat
      /\ \A i \in 1..len : L[i] \in Node /\ L[i] # NULL
      /\ \A i \in 1..len : t.next[L[i]] = IF i = len THEN NULL ELSE L[i + 1]
  BY NullAssumption DEF Listed
<1> DEFINE T == {k \in Nat : \A i \in 1..len : len - i <= k => f[L[i]] = SubSeq(L, i, len)}
<1> HIDE DEF len
<1>7. \A i \in 1..len : SubSeq(L, i, len) = <<L[i]>> \o SubSeq(L, i + 1, len)
  <2>1. \A i \in 1..len : len \in i..len
    BY <1>6
  <2> QED BY <1>6, <2>1, SubSeqRecursiveFirst DEF len
<1>8. 0 \in T
  <2> SUFFICES ASSUME NEW i \in 1..len, len - i <= 0 PROVE f[L[i]] = SubSeq(L, i, len)
    OBVIOUS
  <2>1. i = len /\ t.next[L[i]] = NULL
    BY <1>6
  <2>2. SubSeq(L, i + 1, len) = <<>>
    <3>1. i + 1 \in Int /\ len \in Int /\ len < i + 1
      BY <1>6, <2>1
    <3> QED BY <3>1, SubSeqEmpty
  <2> QED BY <1>5, <1>6, <1>7, <2>1, <2>2
<1>9. ASSUME NEW k \in Nat, k \in T PROVE k + 1 \in T
  <2> SUFFICES ASSUME NEW i \in 1..len, len - i <= k + 1 PROVE f[L[i]] = SubSeq(L, i, len)
    OBVIOUS
  <2>1. CASE len - i <= k
    BY <1>9, <2>1
  <2>2. CASE ~ (len - i <= k)
    <3>1. i # len /\ i + 1 \in 1..len /\ len - (i + 1) <= k
      BY <1>6, <2>2
    <3>2. f[L[i + 1]] = SubSeq(L, i + 1, len)
      BY <1>9, <3>1
    <3>3. t.next[L[i]] = L[i + 1] /\ L[i + 1] # NULL /\ L[i] \in Node
      BY <1>6, <3>1
    <3>4. f[L[i]] = <<L[i]>> \o f[L[i + 1]]
      BY <1>5, <3>3
    <3> QED BY <1>7, <3>2, <3>4
  <2> QED BY <2>1, <2>2
<1>10. Nat \subseteq T
  <2> HIDE DEF T
  <2> QED BY <1>8, <1>9, Induction
<1>11. CASE len = 0
  <2>1. L = <<>>
    BY <1>6, <1>11 DEF len
  <2> QED BY <1>4, <1>11, <2>1 DEF HeadOf, len
<1>12. CASE len # 0
  <2>1. 1 \in 1..len /\ len - 1 \in Nat /\ len - 1 <= len - 1
    BY <1>6, <1>12
  <2>2. f[L[1]] = SubSeq(L, 1, len)
    BY <1>10, <2>1
  <2>3. SubSeq(L, 1, len) = L
    BY <1>6, SubSeqFull DEF len
  <2>4. L[1] # NULL
    BY <1>6, <2>1
  <2> QED BY <1>4, <1>12, <2>2, <2>3, <2>4 DEF HeadOf, len
<1> QED BY <1>11, <1>12

-----------------------------------------------------------------------------
(* The nodes above others are allocated when those are.                     *)
LEMMA UpAlive ==
  ASSUME NEW t \in Tree, NEW alive, alive \subseteq Node, Arranged(t, alive), NEW x \in alive
  PROVE  Up(t, x) \subseteq alive
BY UpIs DEF Upwards, Arranged

(* Parents that are taken away take nothing but nodes away from above.      *)
LEMMA UpFewer ==
  ASSUME NEW t \in Tree, NEW r \in Tree,
         \A m \in Node : r.parent[m] # NULL => r.parent[m] = t.parent[m],
         NEW x \in Node
  PROVE  /\ Up(r, x) \subseteq Up(t, x)
         /\ (\A m \in Up(r, x) : t.parent[m] # NULL => r.parent[m] # NULL) => Up(r, x) = Up(t, x)
<1>1. Up(r, x) \subseteq Up(t, x)
  <2>1. Upwards(r, Up(t, x)) /\ Up(t, x) \in SUBSET Node /\ x \in Up(t, x)
    BY UpIs DEF Upwards
  <2> QED BY <2>1, UpIs
<1>2. ASSUME \A m \in Up(r, x) : t.parent[m] # NULL => r.parent[m] # NULL
      PROVE  Up(t, x) \subseteq Up(r, x)
  <2>1. Upwards(r, Up(r, x)) /\ Up(r, x) \in SUBSET Node /\ x \in Up(r, x)
    BY UpIs
  <2>2. Upwards(t, Up(r, x))
    BY <1>2, <2>1 DEF Upwards
  <2> QED BY <2>1, <2>2, UpIs
<1> QED BY <1>1, <1>2

(* What hangs below n is the same once n was taken out.                     *)
LEMMA RemovedUp ==
  ASSUME NEW t \in Tree, NEW n \in Node, NEW r \in Tree,
         \A m \in Node : r.parent[m] = IF m = n THEN NULL ELSE t.parent[m],
         NEW x \in Node
  PROVE  /\ n \in Up(r, x) <=> n \in Up(t, x)
         /\ Ranked(t) => Ranked(r)
<1>1. Up(r, x) \subseteq Up(t, x)
  BY UpFewer
<1>2. ASSUME n \notin Up(r, x) PROVE n \notin Up(t, x)
  <2>1. \A m \in Up(r, x) : t.parent[m] # NULL => r.parent[m] # NULL
    BY <1>2, UpIs
  <2> QED BY <1>2, <2>1, UpFewer
<1>3. Ranked(t) => Ranked(r)
  BY NullAssumption DEF Ranked
<1> QED BY <1>1, <1>2, <1>3

(* The first child of a node is the head of its list.                       *)
LEMMA HeadIs ==
  ASSUME NEW t \in Tree, NEW alive, alive \subseteq Node, Whole(t, alive),
         NEW p \in Node, NEW L, Listed(t, alive, p, L)
  PROVE  t.child[p] = HeadOf(L)
<1>1. /\ L \in Seq(alive) /\ Len(L) \in Nat
      /\ \A i \in 1..Len(L) : t.parent[L[i]] = p
      /\ \A i \in 1..Len(L) : t.next[L[i]] = IF i = Len(L) THEN NULL ELSE L[i + 1]
      /\ \A i, j \in 1..Len(L) : L[i] = L[j] => i = j
      /\ \A x \in alive : t.parent[x] = p => \E i \in 1..Len(L) : L[i] = x
      /\ p # NULL
  BY NullAssumption DEF Listed
<1>2. CASE Len(L) = 0
  <2>1. t.child[p] # NULL => t.parent[t.child[p]] = p /\ t.child[p] \in Node
    BY TreePointers DEF Whole, Linked, InStep
  <2>2. t.child[p] # NULL => t.child[p] \in alive
    BY <1>1, <2>1 DEF Whole, DeadBare
  <2> QED BY <1>1, <1>2, <2>1, <2>2 DEF HeadOf
<1>3. CASE Len(L) # 0
  <2>1. PICK h : h = L[1]
    OBVIOUS
  <2>2. h \in alive /\ h \in Node /\ t.parent[h] = p
    BY <1>1, <1>3, <2>1
  <2>3. ASSUME t.prev[h] # NULL PROVE FALSE
    <3>1. PICK z : z = t.prev[h]
      OBVIOUS
    <3>2. z \in alive /\ t.next[z] = h /\ t.parent[z] = p
      BY <2>2, <2>3, <3>1 DEF Whole, Closed, Linked, InStep
    <3>3. PICK j \in 1..Len(L) : L[j] = z
      BY <1>1, <3>2
    <3>4. j # Len(L) /\ L[j + 1] = L[1]
      BY <1>1, <2>1, <2>2, <3>2, <3>3, NullAssumption
    <3>5. j + 1 \in 1..Len(L) /\ 1 \in 1..Len(L) /\ j + 1 # 1
      BY <1>1, <3>4
    <3> QED BY <1>1, <3>4, <3>5
  <2>4. t.child[p] = h
    BY <1>1, <2>2, <2>3 DEF Whole, Linked, InStep
  <2> QED BY <1>3, <2>1, <2>4 DEF HeadOf
<1> QED BY <1>2, <1>3

-----------------------------------------------------------------------------
(* Taking a node out takes it out of its list, and leaves the others.       *)
LEMMA RemovedListed ==
  ASSUME NEW t \in Tree, NEW alive, alive \subseteq Node, Whole(t, alive),
         NEW n \in Node, NEW p \in Node, NEW L, Listed(t, alive, p, L)
  PROVE  Listed(Removed(t, n), alive, p, RemoveFirst(L, n))
<1>1. /\ L \in Seq(alive) /\ Len(L) \in Nat
      /\ \A i \in 1..Len(L) : L[i] \in alive /\ L[i] \in Node /\ t.parent[L[i]] = p
      /\ \A i \in 1..Len(L) : t.next[L[i]] = IF i = Len(L) THEN NULL ELSE L[i + 1]
      /\ \A i, j \in 1..Len(L) : L[i] = L[j] => i = j
      /\ \A x \in alive : t.parent[x] = p => \E i \in 1..Len(L) : L[i] = x
      /\ p # NULL
  BY NullAssumption DEF Listed
<1>2. CASE t.parent[n] = NULL
  <2>1. Removed(t, n) = t
    BY <1>2 DEF Removed
  <2>2. \A i \in 1..Len(L) : L[i] # n
    BY <1>1, <1>2
  <2>3. RemoveFirst(L, n) = L
    BY <1>1, <2>2, RemoveFirstIs
  <2> QED BY <2>1, <2>3
<1>3. CASE t.parent[n] # NULL
  <2> DEFINE r == Removed(t, n)
  <2>1. /\ r \in Tree
        /\ \A m \in Node :
              /\ r.parent[m] = IF m = n THEN NULL ELSE t.parent[m]
              /\ r.next[m] = IF m = n THEN NULL ELSE IF m = t.prev[n] THEN t.next[n] ELSE t.next[m]
    BY <1>3, RemovedIs
  <2> HIDE DEF r
  <2>2. n \in alive /\ InStep(t, n)
    BY <1>3 DEF Whole, DeadBare, Linked
  <2>3. CASE t.parent[n] # p
    <3>1. \A i \in 1..Len(L) : L[i] # n /\ (L[i] = t.prev[n] => FALSE)
      BY <1>1, <2>2, <2>3, NullAssumption DEF InStep
    <3>2. RemoveFirst(L, n) = L
      BY <1>1, <3>1, RemoveFirstIs
    <3>3. \A i \in 1..Len(L) : r.parent[L[i]] = p /\ r.next[L[i]] = t.next[L[i]]
      BY <1>1, <2>1, <3>1
    <3>4. \A x \in alive : r.parent[x] = p => t.parent[x] = p
      BY <1>1, <2>1
    <3>5. Listed(r, alive, p, L)
      BY <1>1, <3>3, <3>4 DEF Listed
    <3> QED BY <3>2, <3>5 DEF r
  <2>4. CASE t.parent[n] = p
    <3>1. PICK i \in 1..Len(L) : L[i] = n
      BY <1>1, <2>2, <2>4
    <3>2. PICK R : R = RemoveFirst(L, n)
      OBVIOUS
    <3>3. OneLess(alive, R, L, i)
      <4>1. \A j \in 1..Len(L) : L[j] = n => j = i
        BY <1>1, <3>1
      <4>2. RemoveFirst(L, n) = RemoveAt(L, i)
        BY <1>1, <3>1, <4>1, RemoveFirstIs
      <4> QED BY <1>1, <3>2, <4>2, RemoveAtIs
    <3>4. /\ R \in Seq(alive) /\ Len(R) = Len(L) - 1
          /\ \A j \in 1..Len(R) : j < i => R[j] = L[j] /\ j \in 1..Len(L)
          /\ \A j \in 1..Len(R) : ~ (j < i) => R[j] = L[j + 1] /\ j + 1 \in 1..Len(L)
      BY <1>1, <3>3 DEF OneLess
    <3>5. ASSUME NEW j \in 1..Len(R) PROVE \E k \in 1..Len(L) : R[j] = L[k] /\ k # i
      <4>1. CASE j < i
        <5>1. j \in 1..Len(L) /\ R[j] = L[j] /\ j # i
          BY <3>4, <4>1
        <5> QED BY <5>1
      <4>2. CASE ~ (j < i)
        <5>1. j + 1 \in 1..Len(L) /\ R[j] = L[j + 1]
          BY <3>4, <4>2
        <5>2. j \in Int /\ i \in Int
          OBVIOUS
        <5>3. j + 1 # i
          BY <4>2, <5>2
        <5> QED BY <5>1, <5>3
      <4> QED BY <4>1, <4>2
    <3>6. \A j \in 1..Len(R) : r.parent[R[j]] = p
      BY <1>1, <2>1, <3>1, <3>5
    <3>7. i > 1 => t.prev[n] = L[i - 1]
      <4> SUFFICES ASSUME i > 1 PROVE t.prev[n] = L[i - 1]
        OBVIOUS
      <4>1. i - 1 \in 1..Len(L) /\ t.next[L[i - 1]] = n
        BY <1>1, <3>1
      <4> QED BY <1>1, <4>1, NullAssumption DEF Whole, Linked, InStep
    <3>8. i = 1 => t.prev[n] \notin alive
      <4> SUFFICES ASSUME i = 1, t.prev[n] \in alive PROVE FALSE
        OBVIOUS
      <4>1. PICK z : z = t.prev[n]
        OBVIOUS
      <4>2. t.next[z] = n /\ t.parent[z] = p /\ z \in alive
        BY <2>2, <2>4, <4>1, NullAssumption DEF InStep
      <4>3. PICK j \in 1..Len(L) : L[j] = z
        BY <1>1, <4>2
      <4>4. j # Len(L) /\ L[j + 1] = L[1]
        BY <1>1, <3>1, <4>2, <4>3, NullAssumption
      <4>5. j + 1 \in 1..Len(L) /\ 1 \in 1..Len(L) /\ j + 1 # 1
        BY <1>1, <4>4
      <4> QED BY <1>1, <4>4, <4>5
    <3>9. \A k \in 1..Len(L) : k # i /\ L[k] = t.prev[n] => k = i - 1
      <4> SUFFICES ASSUME NEW k \in 1..Len(L), k # i, L[k] = t.prev[n] PROVE k = i - 1
        OBVIOUS
      <4>1. i > 1
        BY <1>1, <3>8
      <4> QED BY <1>1, <3>7, <4>1
    <3>10. \A k \in 1..Len(L) : k # i =>
             r.next[L[k]] = IF k = i - 1 THEN t.next[n] ELSE t.next[L[k]]
      <4> SUFFICES ASSUME NEW k \in 1..Len(L), k # i
                   PROVE  r.next[L[k]] = IF k = i - 1 THEN t.next[n] ELSE t.next[L[k]]
        OBVIOUS
      <4>1. L[k] # n /\ L[k] \in Node
        BY <1>1, <3>1
      <4>2. k = i - 1 => L[k] = t.prev[n]
        BY <1>1, <3>7
      <4> QED BY <2>1, <3>9, <4>1, <4>2
    <3>11. ASSUME NEW j \in 1..Len(R)
           PROVE  r.next[R[j]] = IF j = Len(R) THEN NULL ELSE R[j + 1]
      <4>1. CASE j < i - 1
        <5>1. R[j] = L[j] /\ R[j + 1] = L[j + 1] /\ j # Len(R) /\ j # Len(L) /\ j # i /\ j # i - 1
              /\ j \in 1..Len(L)
          BY <1>1, <3>4, <4>1
        <5> QED BY <1>1, <3>10, <5>1
      <4>2. CASE j = i - 1
        <5>1. R[j] = L[j] /\ j # i /\ j \in 1..Len(L)
          BY <1>1, <3>4, <4>2
        <5>2. r.next[R[j]] = IF i = Len(L) THEN NULL ELSE L[i + 1]
          BY <1>1, <3>1, <3>10, <4>2, <5>1
        <5>3. i = Len(L) <=> j = Len(R)
          BY <1>1, <3>4, <4>2
        <5>4. j # Len(R) => R[j + 1] = L[i + 1]
          BY <1>1, <3>4, <4>2
        <5> QED BY <5>2, <5>3, <5>4
      <4>3. CASE j > i - 1
        <5>1. R[j] = L[j + 1] /\ j + 1 # i /\ j + 1 # i - 1 /\ j + 1 \in 1..Len(L)
          BY <1>1, <3>4, <4>3
        <5>2. r.next[R[j]] = IF j + 1 = Len(L) THEN NULL ELSE L[j + 2]
          BY <1>1, <3>10, <5>1
        <5>3. j + 1 = Len(L) <=> j = Len(R)
          BY <1>1, <3>4
        <5>4. j # Len(R) => R[j + 1] = L[j + 2]
          BY <1>1, <3>4, <4>3
        <5> QED BY <5>2, <5>3, <5>4
      <4> QED BY <1>1, <3>4, <4>1, <4>2, <4>3
    <3>12. \A j, k \in 1..Len(R) : R[j] = R[k] => j = k
      <4> SUFFICES ASSUME NEW j \in 1..Len(R), NEW k \in 1..Len(R), R[j] = R[k] PROVE j = k
        OBVIOUS
      <4> DEFINE at(q) == IF q < i THEN q ELSE q + 1
      <4>1. at(j) \in 1..Len(L) /\ at(k) \in 1..Len(L) /\ L[at(j)] = L[at(k)]
        BY <1>1, <3>4
      <4>2. at(j) = at(k)
        <5> HIDE DEF at
        <5> QED BY <1>1, <4>1
      <4> QED BY <1>1, <3>4, <4>2
    <3>13. ASSUME NEW x \in alive, r.parent[x] = p PROVE \E j \in 1..Len(R) : R[j] = x
      <4>1. x # n /\ t.parent[x] = p
        BY <1>1, <2>1, <3>13
      <4>2. PICK k \in 1..Len(L) : L[k] = x
        BY <1>1, <4>1
      <4>3. CASE k < i
        <5>1. k \in 1..Len(R)
          BY <1>1, <3>4, <4>3
        <5>2. R[k] = L[k]
          BY <3>4, <4>3, <5>1
        <5> QED BY <4>2, <5>1, <5>2
      <4>4. CASE k > i
        <5>1. k - 1 \in 1..Len(R) /\ ~ (k - 1 < i) /\ (k - 1) + 1 = k
          BY <1>1, <3>4, <4>4
        <5>2. R[k - 1] = L[k]
          BY <3>4, <5>1
        <5> QED BY <4>2, <5>1, <5>2
      <4> QED BY <1>1, <3>1, <4>1, <4>2, <4>3, <4>4
    <3>14. Listed(r, alive, p, R)
      BY <3>4, <3>6, <3>11, <3>12, <3>13 DEF Listed
    <3> QED BY <3>2, <3>14 DEF r
  <2> QED BY <2>3, <2>4
<1> QED BY <1>2, <1>3

(* ... and leaves a forest.                                                 *)
LEMMA RemovedArranged ==
  ASSUME NEW t \in Tree, NEW alive, alive \subseteq Node, Whole(t, alive), Arranged(t, alive),
         NEW n \in Node
  PROVE  /\ Arranged(Removed(t, n), alive)
         /\ \A x \in Node : n \in Up(Removed(t, n), x) <=> n \in Up(t, x)
<1> DEFINE r == Removed(t, n)
<1>1. /\ r \in Tree /\ Whole(r, alive)
  BY RemovedWhole
<1>2. \A m \in Node : r.parent[m] = IF m = n THEN NULL ELSE t.parent[m]
  <2>1. CASE t.parent[n] = NULL
    BY <2>1 DEF Removed
  <2>2. CASE t.parent[n] # NULL
    BY <2>2, RemovedIs
  <2> QED BY <2>1, <2>2
<1>3. \A p \in Node : \E L : Listed(r, alive, p, L)
  <2> SUFFICES ASSUME NEW p \in Node PROVE \E L : Listed(r, alive, p, L)
    OBVIOUS
  <2>1. PICK L : Listed(t, alive, p, L)
    BY DEF Arranged
  <2>2. Listed(r, alive, p, RemoveFirst(L, n))
    BY <2>1, RemovedListed
  <2> QED BY <2>2
<1> HIDE DEF r
<1>4. Ranked(r)
  BY <1>1, <1>2, RemovedUp DEF Arranged
<1>5. \A x \in Node : n \in Up(r, x) <=> n \in Up(t, x)
  BY <1>1, <1>2, RemovedUp
<1>6. Arranged(r, alive)
  BY <1>1, <1>2, <1>3, <1>4, NullAssumption DEF Arranged, Whole, Linked, InStep
<1> QED BY <1>5, <1>6 DEF r

-----------------------------------------------------------------------------
(* Where a place between two neighbours is in the list.                     *)
LEMMA PlaceInList ==
  ASSUME NEW t \in Tree, NEW alive, alive \subseteq Node, Whole(t, alive), Arranged(t, alive),
         NEW p \in alive, NEW a, NEW b, Place(t, p, a, b), NEW L, Listed(t, alive, p, L)
  PROVE  \E i \in 1..(Len(L) + 1) :
           /\ IF i = 1 THEN a = NULL ELSE i - 1 \in 1..Len(L) /\ a = L[i - 1]
           /\ IF i = Len(L) + 1 THEN b = NULL ELSE i \in 1..Len(L) /\ b = L[i]
<1>1. /\ L \in Seq(alive) /\ Len(L) \in Nat
      /\ \A i \in 1..Len(L) : L[i] \in alive /\ L[i] \in Node /\ L[i] # NULL /\ t.parent[L[i]] = p
      /\ \A i \in 1..Len(L) : t.next[L[i]] = IF i = Len(L) THEN NULL ELSE L[i + 1]
      /\ \A x \in alive : t.parent[x] = p => \E i \in 1..Len(L) : L[i] = x
      /\ p # NULL /\ p \in Node
  BY NullAssumption DEF Listed
<1>2. /\ a # NULL => a \in alive /\ t.parent[a] = p /\ t.next[a] = b
      /\ b # NULL => b \in alive /\ t.parent[b] = p /\ t.prev[b] = a
      /\ a = NULL /\ b = NULL => t.last_child[p] = NULL
  BY <1>1 DEF Place, Arranged
<1>3. CASE a # NULL
  <2>1. PICK k \in 1..Len(L) : L[k] = a
    BY <1>1, <1>2, <1>3
  <2>2. b = IF k = Len(L) THEN NULL ELSE L[k + 1]
    BY <1>1, <1>2, <1>3, <2>1
  <2>3. PICK i : i = k + 1
    OBVIOUS
  <2>4. i \in 1..(Len(L) + 1) /\ i # 1 /\ i - 1 = k /\ (i = Len(L) + 1 <=> k = Len(L))
        /\ (i # Len(L) + 1 => i \in 1..Len(L))
    BY <1>1, <2>3
  <2> QED BY <2>1, <2>2, <2>3, <2>4
<1>4. CASE a = NULL /\ b # NULL
  <2>1. PICK k \in 1..Len(L) : L[k] = b
    BY <1>1, <1>2, <1>4
  <2>2. ASSUME k # 1 PROVE FALSE
    <3>1. k - 1 \in 1..Len(L) /\ t.next[L[k - 1]] = b
      BY <1>1, <2>1, <2>2
    <3>2. t.prev[b] = L[k - 1]
      BY <1>1, <1>4, <3>1 DEF Whole, Linked, InStep
    <3> QED BY <1>1, <1>2, <1>4, <3>1, <3>2
  <2>3. 1 \in 1..(Len(L) + 1) /\ 1 # Len(L) + 1 /\ 1 \in 1..Len(L)
    BY <1>1, <2>1
  <2> QED BY <1>4, <2>1, <2>2, <2>3
<1>5. CASE a = NULL /\ b = NULL
  <2>1. ASSUME Len(L) # 0 PROVE FALSE
    <3>1. PICK y : y = L[Len(L)]
      OBVIOUS
    <3>2. Len(L) \in 1..Len(L)
      BY <1>1, <2>1
    <3>3. y \in Node /\ t.parent[y] = p /\ t.next[y] = NULL /\ y # NULL
      BY <1>1, <3>1, <3>2
    <3>4. t.last_child[p] = y
      BY <1>1, <3>3 DEF Whole, Linked, InStep
    <3> QED BY <1>2, <1>5, <3>3, <3>4
  <2>2. 1 \in 1..(Len(L) + 1) /\ 1 = Len(L) + 1
    BY <1>1, <2>1
  <2> QED BY <1>5, <2>2
<1> QED BY <1>3, <1>4, <1>5

(* A node that is put in between is in the list there.                      *)
LEMMA BetweenListed ==
  ASSUME NEW t \in Tree, NEW alive, alive \subseteq Node, Whole(t, alive), Arranged(t, alive),
         NEW n \in Node, t.parent[n] = NULL, NEW p \in alive,
         NEW a, NEW b, Place(t, p, a, b), NEW r, Between(t, r, p, a, b, n),
         NEW L, Listed(t, alive, p, L)
  PROVE  \E i \in 1..(Len(L) + 1) :
           /\ b = NULL => i = Len(L) + 1
           /\ Listed(r, alive \cup {n}, p, InsertAt(L, i, n))
<1>1. /\ L \in Seq(alive) /\ Len(L) \in Nat
      /\ \A i \in 1..Len(L) : /\ L[i] \in alive /\ L[i] \in Node /\ L[i] # NULL
                              /\ t.parent[L[i]] = p /\ L[i] # n
      /\ \A i \in 1..Len(L) : t.next[L[i]] = IF i = Len(L) THEN NULL ELSE L[i + 1]
      /\ \A i, j \in 1..Len(L) : L[i] = L[j] => i = j
      /\ \A x \in alive : t.parent[x] = p => \E i \in 1..Len(L) : L[i] = x
      /\ p # NULL /\ p \in Node
  BY NullAssumption DEF Listed
<1>2. /\ r \in Tree
      /\ \A m \in Node :
           /\ r.parent[m] = IF m = n THEN p ELSE t.parent[m]
           /\ r.next[m] = IF m = n THEN b ELSE IF m = a THEN n ELSE t.next[m]
  BY DEF Between
<1>3. PICK i \in 1..(Len(L) + 1) :
        /\ IF i = 1 THEN a = NULL ELSE i - 1 \in 1..Len(L) /\ a = L[i - 1]
        /\ IF i = Len(L) + 1 THEN b = NULL ELSE i \in 1..Len(L) /\ b = L[i]
  BY PlaceInList
<1>4. PICK S : S = alive \cup {n}
  OBVIOUS
<1>5. PICK R : R = InsertAt(L, i, n)
  OBVIOUS
<1>6. OneMore(S, R, L, i, n)
  <2>1. L \in Seq(S) /\ n \in S
    <3>1. \A j \in 1..Len(L) : L[j] \in S
      BY <1>1, <1>4
    <3> QED BY <1>1, <1>4, <3>1
  <2> QED BY <1>5, <2>1, InsertAtIs
<1>7. /\ R \in Seq(S) /\ Len(R) = Len(L) + 1 /\ i \in 1..Len(R) /\ R[i] = n
      /\ \A j \in 1..Len(R) : j < i => R[j] = L[j] /\ j \in 1..Len(L)
      /\ \A j \in 1..Len(R) : j > i => R[j] = L[j - 1] /\ j - 1 \in 1..Len(L)
  BY <1>1, <1>6 DEF OneMore
<1>8. ASSUME NEW j \in 1..Len(R), j # i
      PROVE  R[j] \in Node /\ R[j] # n /\ t.parent[R[j]] = p
  <2>1. CASE j < i
    <3>1. R[j] = L[j] /\ j \in 1..Len(L)
      BY <1>7, <2>1
    <3> QED BY <1>1, <3>1
  <2>2. CASE j > i
    <3>1. R[j] = L[j - 1] /\ j - 1 \in 1..Len(L)
      BY <1>7, <2>2
    <3> QED BY <1>1, <3>1
  <2> QED BY <1>1, <1>8, <2>1, <2>2
<1>9. ASSUME NEW j \in 1..Len(R) PROVE r.parent[R[j]] = p
  <2>1. CASE j = i
    BY <1>2, <1>7, <2>1
  <2>2. CASE j # i
    BY <1>2, <1>8, <2>2
  <2> QED BY <2>1, <2>2
<1>10. \A k \in 1..Len(L) :
         r.next[L[k]] = IF k = i - 1 THEN n ELSE IF k = Len(L) THEN NULL ELSE L[k + 1]
  <2> SUFFICES ASSUME NEW k \in 1..Len(L)
               PROVE  r.next[L[k]] = IF k = i - 1 THEN n ELSE IF k = Len(L) THEN NULL ELSE L[k + 1]
    OBVIOUS
  <2>1. L[k] = a <=> k = i - 1
    BY <1>1, <1>3
  <2> QED BY <1>1, <1>2, <2>1
<1>11. ASSUME NEW j \in 1..Len(R)
       PROVE  r.next[R[j]] = IF j = Len(R) THEN NULL ELSE R[j + 1]
  <2>1. CASE j < i - 1
    <3>1. R[j] = L[j] /\ R[j + 1] = L[j + 1] /\ j # Len(R) /\ j # Len(L) /\ j # i - 1 /\ j \in 1..Len(L)
      BY <1>1, <1>7, <2>1
    <3> QED BY <1>10, <3>1
  <2>2. CASE j = i - 1
    <3>1. R[j] = L[j] /\ j \in 1..Len(L) /\ j # Len(R) /\ j + 1 = i
      BY <1>1, <1>7, <2>2
    <3> QED BY <1>7, <1>10, <2>2, <3>1
  <2>3. CASE j = i
    <3>1. r.next[R[j]] = b
      BY <1>2, <1>7, <2>3
    <3>2. j # Len(R) => R[j + 1] = L[i]
      BY <1>1, <1>7, <2>3
    <3> QED BY <1>3, <1>7, <2>3, <3>1, <3>2
  <2>4. CASE j > i
    <3>1. R[j] = L[j - 1] /\ j - 1 \in 1..Len(L) /\ j - 1 # i - 1 /\ (j - 1) + 1 = j
      BY <1>1, <1>7, <2>4
    <3>2. r.next[R[j]] = IF j - 1 = Len(L) THEN NULL ELSE L[j]
      BY <1>10, <3>1
    <3>3. j - 1 = Len(L) <=> j = Len(R)
      BY <1>1, <1>7
    <3>4. j # Len(R) => R[j + 1] = L[j]
      BY <1>1, <1>7, <2>4
    <3> QED BY <3>2, <3>3, <3>4
  <2> QED BY <1>1, <1>7, <2>1, <2>2, <2>3, <2>4
<1>12. \A j, k \in 1..Len(R) : R[j] = R[k] => j = k
  <2> SUFFICES ASSUME NEW j \in 1..Len(R), NEW k \in 1..Len(R), R[j] = R[k] PROVE j = k
    OBVIOUS
  <2>1. j = i <=> k = i
    BY <1>7, <1>8
  <2>2. CASE j # i
    <3> DEFINE at(q) == IF q < i THEN q ELSE q - 1
    <3>1. at(j) \in 1..Len(L) /\ at(k) \in 1..Len(L) /\ L[at(j)] = L[at(k)]
      BY <1>1, <1>7, <2>1, <2>2
    <3>2. at(j) = at(k)
      <4> HIDE DEF at
      <4> QED BY <1>1, <3>1
    <3> QED BY <1>1, <1>7, <2>1, <2>2, <3>2
  <2> QED BY <2>1, <2>2
<1>13. ASSUME NEW x \in S, r.parent[x] = p PROVE \E j \in 1..Len(R) : R[j] = x
  <2>1. CASE x = n
    BY <1>7, <2>1
  <2>2. CASE x # n
    <3>1. x \in alive /\ t.parent[x] = p
      BY <1>2, <1>4, <1>13, <2>2
    <3>2. PICK k \in 1..Len(L) : L[k] = x
      BY <1>1, <3>1
    <3>3. CASE k < i
      <4>1. k \in 1..Len(R)
        BY <1>1, <1>7
      <4> QED BY <1>7, <3>2, <3>3, <4>1
    <3>4. CASE ~ (k < i)
      <4>1. k + 1 \in 1..Len(R) /\ k + 1 > i /\ (k + 1) - 1 = k
        BY <1>1, <1>7, <3>4
      <4>2. R[k + 1] = L[k]
        BY <1>7, <4>1
      <4> QED BY <3>2, <4>1, <4>2
    <3> QED BY <3>3, <3>4
  <2> QED BY <2>1, <2>2
<1>14. Listed(r, S, p, R)
  BY <1>7, <1>9, <1>11, <1>12, <1>13 DEF Listed
<1>15. b = NULL => i = Len(L) + 1
  BY <1>1, <1>3
<1> QED BY <1>4, <1>5, <1>14, <1>15

(* The lists of other nodes stay.                                           *)
LEMMA BetweenOthers ==
  ASSUME NEW t \in Tree, NEW alive, alive \subseteq Node, Whole(t, alive), Arranged(t, alive),
         NEW n \in Node, t.parent[n] = NULL, NEW p \in alive,
         NEW a, NEW b, Place(t, p, a, b), NEW r, Between(t, r, p, a, b, n),
         NEW q \in Node, q # p, NEW L, Listed(t, alive, q, L)
  PROVE  Listed(r, alive \cup {n}, q, L)
<1>1. /\ L \in Seq(alive) /\ Len(L) \in Nat
      /\ \A i \in 1..Len(L) : /\ L[i] \in alive /\ L[i] \in Node /\ L[i] # NULL
                              /\ t.parent[L[i]] = q /\ L[i] # n
      /\ \A i \in 1..Len(L) : t.next[L[i]] = IF i = Len(L) THEN NULL ELSE L[i + 1]
      /\ \A i, j \in 1..Len(L) : L[i] = L[j] => i = j
      /\ \A x \in alive : t.parent[x] = q => \E i \in 1..Len(L) : L[i] = x
      /\ q # NULL
  BY NullAssumption DEF Listed
<1>2. /\ r \in Tree
      /\ \A m \in Node :
           /\ r.parent[m] = IF m = n THEN p ELSE t.parent[m]
           /\ r.next[m] = IF m = n THEN b ELSE IF m = a THEN n ELSE t.next[m]
  BY DEF Between
<1>3. PICK S : S = alive \cup {n}
  OBVIOUS
<1>4. L \in Seq(S)
  <2>1. \A j \in 1..Len(L) : L[j] \in S
    BY <1>1, <1>3
  <2> QED BY <1>1, <1>3, <2>1
<1>5. \A i \in 1..Len(L) : L[i] # a
  BY <1>1 DEF Place
<1>6. \A i \in 1..Len(L) : r.parent[L[i]] = q /\ r.next[L[i]] = t.next[L[i]]
  BY <1>1, <1>2, <1>5
<1>7. \A x \in S : r.parent[x] = q => \E i \in 1..Len(L) : L[i] = x
  BY <1>1, <1>2, <1>3
<1>8. Listed(r, S, q, L)
  BY <1>1, <1>4, <1>6, <1>7 DEF Listed
<1> QED BY <1>3, <1>8

(* A node that is not above p can be put below it.                          *)
LEMMA BetweenRanked ==
  ASSUME NEW t \in Tree, Ranked(t), NEW n \in Node, NEW p \in Node, n \notin Up(t, p),
         NEW r \in Tree, \A m \in Node : r.parent[m] = IF m = n THEN p ELSE t.parent[m]
  PROVE  Ranked(r)
<1>1. PICK top \in Nat : \E rank \in [Node -> 0..top] :
        \A x \in Node : t.parent[x] # NULL => rank[t.parent[x]] < rank[x]
  BY DEF Ranked
<1>2. PICK rank \in [Node -> 0..top] :
        \A x \in Node : t.parent[x] # NULL => rank[t.parent[x]] < rank[x]
  BY <1>1
<1> DEFINE down == [x \in Node |-> IF n \in Up(t, x) THEN rank[x] + rank[p] + 1 ELSE rank[x]]
           most == top + top + 1
<1>3. most \in Nat
  BY <1>1
<1>4. \A x \in Node : rank[x] \in 0..top
  BY <1>2
<1>5. down \in [Node -> 0..most]
  BY <1>1, <1>4
<1>6. ASSUME NEW x \in Node, r.parent[x] # NULL PROVE down[r.parent[x]] < down[x]
  <2>1. CASE x = n
    <3>1. down[p] = rank[p] /\ down[x] = rank[x] + rank[p] + 1 /\ r.parent[x] = p
      BY <2>1, UpIs
    <3> QED BY <1>4, <3>1
  <2>2. CASE x # n
    <3>1. PICK y : y = t.parent[x]
      OBVIOUS
    <3>2. y \in Node /\ y = r.parent[x] /\ y = t.parent[x] /\ rank[y] < rank[x]
      BY <1>2, <1>6, <2>2, <3>1, TreePointers
    <3>3. Up(t, x) = {x} \cup Up(t, y)
      BY <1>6, <3>2, UpIs
    <3>4. n \in Up(t, x) <=> n \in Up(t, y)
      BY <2>2, <3>3
    <3>5. rank[x] \in Nat /\ rank[y] \in Nat /\ rank[p] \in Nat
      BY <1>1, <1>4, <3>2
    <3> QED BY <3>2, <3>4, <3>5
  <2> QED BY <2>1, <2>2
<1> HIDE DEF down, most
<1> QED BY <1>3, <1>5, <1>6 DEF Ranked

(* Both together.                                                           *)
LEMMA BetweenArranged ==
  ASSUME NEW t \in Tree, NEW alive, alive \subseteq Node, Whole(t, alive), Arranged(t, alive),
         NEW n \in Node, t.parent[n] = NULL, NEW p \in alive, n \notin Up(t, p),
         NEW a, NEW b, Place(t, p, a, b), NEW r, Between(t, r, p, a, b, n)
  PROVE  Arranged(r, alive \cup {n})
<1>1. /\ r \in Tree
      /\ \A m \in Node : r.parent[m] = IF m = n THEN p ELSE t.parent[m]
      /\ p \in Node /\ p # NULL
  BY NullAssumption DEF Between
<1>2. Whole(r, alive \cup {n})
  BY BetweenWhole
<1>3. Ranked(r)
  BY <1>1, BetweenRanked DEF Arranged
<1>4. ASSUME NEW q \in Node PROVE \E L : Listed(r, alive \cup {n}, q, L)
  <2>1. PICK L : Listed(t, alive, q, L)
    BY DEF Arranged
  <2>2. CASE q = p
    <3>1. \E i \in 1..(Len(L) + 1) : Listed(r, alive \cup {n}, p, InsertAt(L, i, n))
      BY <2>1, <2>2, BetweenListed
    <3> QED BY <2>2, <3>1
  <2>3. CASE q # p
    BY <2>1, <2>3, BetweenOthers
  <2> QED BY <2>2, <2>3
<1>5. \A x \in alive \cup {n} : r.parent[x] # NULL => r.parent[x] \in alive \cup {n}
  BY <1>1 DEF Arranged
<1>6. \A x \in Node : r.parent[x] = NULL => r.next[x] = NULL
  BY <1>2 DEF Whole, Linked, InStep
<1>7. \A x \in Node \ (alive \cup {n}) : r.parent[x] = NULL
  BY <1>2 DEF Whole, DeadBare
<1> QED BY <1>3, <1>4, <1>5, <1>6, <1>7 DEF Arranged

-----------------------------------------------------------------------------
(* Freeing a node that nothing hangs from and nothing leads to takes it out *)
(* of its list, where it is first, and leaves the other lists and what is   *)
(* above other nodes.                                                       *)
LEMMA FreedListed ==
  ASSUME NEW t \in Tree, NEW alive, alive \subseteq Node, NEW n \in alive,
         \A x \in alive : t.next[x] # n,
         NEW p \in Node, NEW L, Listed(t, alive, p, L)
  PROVE  /\ t.parent[n] # p => Listed(Freed(t, n), alive \ {n}, p, L)
         /\ t.parent[n] = p => \E R : Listed(Freed(t, n), alive \ {n}, p, R)
<1>1. /\ L \in Seq(alive) /\ Len(L) \in Nat
      /\ \A i \in 1..Len(L) : L[i] \in alive /\ L[i] \in Node /\ t.parent[L[i]] = p
      /\ \A i \in 1..Len(L) : t.next[L[i]] = IF i = Len(L) THEN NULL ELSE L[i + 1]
      /\ \A i, j \in 1..Len(L) : L[i] = L[j] => i = j
      /\ \A x \in alive : t.parent[x] = p => \E i \in 1..Len(L) : L[i] = x
      /\ p # NULL /\ n \in Node
  BY NullAssumption DEF Listed
<1>2. /\ Freed(t, n) \in Tree
      /\ \A m \in Node : /\ Freed(t, n).parent[m] = IF m = n THEN NULL ELSE t.parent[m]
                         /\ Freed(t, n).next[m] = IF m = n THEN NULL ELSE t.next[m]
  BY <1>1, FreedIs
<1>3. PICK r \in Tree :
        /\ r = Freed(t, n)
        /\ \A m \in Node : /\ r.parent[m] = IF m = n THEN NULL ELSE t.parent[m]
                           /\ r.next[m] = IF m = n THEN NULL ELSE t.next[m]
  BY <1>2
<1>4. PICK S : S = alive \ {n}
  OBVIOUS
<1>5. ASSUME t.parent[n] # p PROVE Listed(r, S, p, L)
  <2>1. \A i \in 1..Len(L) : L[i] # n
    BY <1>1, <1>5
  <2>2. L \in Seq(S)
    <3>1. \A i \in 1..Len(L) : L[i] \in S
      BY <1>1, <1>4, <2>1
    <3> QED BY <1>1, <3>1
  <2>3. \A i \in 1..Len(L) : r.parent[L[i]] = p /\ r.next[L[i]] = t.next[L[i]]
    BY <1>1, <1>3, <2>1
  <2>4. \A x \in S : r.parent[x] = p => \E i \in 1..Len(L) : L[i] = x
    BY <1>1, <1>3, <1>4
  <2> QED BY <1>1, <2>2, <2>3, <2>4 DEF Listed
<1>6. ASSUME t.parent[n] = p PROVE \E R : Listed(r, S, p, R)
  <2>1. PICK i \in 1..Len(L) : L[i] = n
    BY <1>1, <1>6
  <2>2. i = 1
    <3> SUFFICES ASSUME i # 1 PROVE FALSE
      OBVIOUS
    <3>1. i - 1 \in 1..Len(L) /\ i - 1 # Len(L) /\ (i - 1) + 1 = i
      BY <1>1
    <3>2. t.next[L[i - 1]] = n
      BY <1>1, <2>1, <3>1
    <3> QED BY <1>1, <3>1, <3>2
  <2>3. PICK R : R = RemoveAt(L, i)
    OBVIOUS
  <2>4. OneLess(alive, R, L, i)
    BY <1>1, <2>3, RemoveAtIs
  <2>5. /\ R \in Seq(alive) /\ Len(R) = Len(L) - 1
        /\ \A j \in 1..Len(R) : R[j] = L[j + 1] /\ j + 1 \in 1..Len(L) /\ j + 1 # i
    BY <1>1, <2>2, <2>4 DEF OneLess
  <2>6. \A j \in 1..Len(R) : /\ R[j] \in S /\ r.parent[R[j]] = p
                             /\ r.next[R[j]] = IF j + 1 = Len(L) THEN NULL ELSE L[j + 2]
    <3> SUFFICES ASSUME NEW j \in 1..Len(R)
                 PROVE  /\ R[j] \in S /\ r.parent[R[j]] = p
                        /\ r.next[R[j]] = IF j + 1 = Len(L) THEN NULL ELSE L[j + 2]
      OBVIOUS
    <3>1. R[j] = L[j + 1] /\ j + 1 \in 1..Len(L) /\ j + 1 # i /\ (j + 1) + 1 = j + 2
      BY <1>1, <2>5
    <3>2. R[j] # n /\ R[j] \in alive /\ R[j] \in Node /\ t.parent[R[j]] = p
      BY <1>1, <2>1, <3>1
    <3>3. t.next[R[j]] = IF j + 1 = Len(L) THEN NULL ELSE L[j + 2]
      BY <1>1, <3>1
    <3> QED BY <1>3, <1>4, <3>2, <3>3
  <2>7. R \in Seq(S)
    BY <2>5, <2>6
  <2>8. ASSUME NEW j \in 1..Len(R)
        PROVE  r.next[R[j]] = IF j = Len(R) THEN NULL ELSE R[j + 1]
    <3>1. j + 1 = Len(L) <=> j = Len(R)
      BY <1>1, <2>5
    <3>2. j # Len(R) => R[j + 1] = L[j + 2]
      <4> SUFFICES ASSUME j # Len(R) PROVE R[j + 1] = L[j + 2]
        OBVIOUS
      <4>1. j + 1 \in 1..Len(R) /\ (j + 1) + 1 = j + 2
        BY <1>1, <2>5
      <4> QED BY <2>5, <4>1
    <3> QED BY <2>6, <3>1, <3>2
  <2>9. \A j, k \in 1..Len(R) : R[j] = R[k] => j = k
    <3> SUFFICES ASSUME NEW j \in 1..Len(R), NEW k \in 1..Len(R), R[j] = R[k] PROVE j = k
      OBVIOUS
    <3>1. j + 1 \in 1..Len(L) /\ k + 1 \in 1..Len(L) /\ L[j + 1] = L[k + 1]
      BY <2>5
    <3>2. j + 1 = k + 1
      BY <1>1, <3>1
    <3> QED BY <1>1, <2>5, <3>2
  <2>10. ASSUME NEW x \in S, r.parent[x] = p PROVE \E j \in 1..Len(R) : R[j] = x
    <3>1. x # n /\ x \in alive /\ t.parent[x] = p
      BY <1>3, <1>4, <2>10
    <3>2. PICK k \in 1..Len(L) : L[k] = x
      BY <1>1, <3>1
    <3>3. k - 1 \in 1..Len(R) /\ (k - 1) + 1 = k
      BY <1>1, <2>1, <2>2, <2>5, <3>1, <3>2
    <3>4. R[k - 1] = L[k]
      BY <2>5, <3>3
    <3> QED BY <3>2, <3>3, <3>4
  <2>11. Listed(r, S, p, R)
    BY <2>6, <2>7, <2>8, <2>9, <2>10 DEF Listed
  <2> QED BY <2>11
<1> QED BY <1>3, <1>4, <1>5, <1>6

(* ... and leaves a forest, with the same nodes above those that are left.  *)
LEMMA FreedArranged ==
  ASSUME NEW t \in Tree, NEW alive, alive \subseteq Node, NEW n \in alive, Arranged(t, alive),
         \A x \in alive : t.next[x] # n, \A x \in alive : t.parent[x] # n
  PROVE  /\ Arranged(Freed(t, n), alive \ {n})
         /\ \A x \in alive \ {n} : n \notin Up(t, x) /\ Up(Freed(t, n), x) = Up(t, x)
<1>1. /\ Freed(t, n) \in Tree
      /\ \A m \in Node : /\ Freed(t, n).parent[m] = IF m = n THEN NULL ELSE t.parent[m]
                         /\ Freed(t, n).next[m] = IF m = n THEN NULL ELSE t.next[m]
  BY FreedIs
<1>2. PICK r \in Tree : r = Freed(t, n)
  BY <1>1
<1>3. \A m \in Node : /\ r.parent[m] = IF m = n THEN NULL ELSE t.parent[m]
                      /\ r.next[m] = IF m = n THEN NULL ELSE t.next[m]
  BY <1>1, <1>2
<1>4. ASSUME NEW x \in alive, x # n PROVE n \notin Up(t, x) /\ Up(r, x) = Up(t, x)
  <2>1. n \notin Up(t, x)
    <3> SUFFICES ASSUME n \in Up(t, x) PROVE FALSE
      OBVIOUS
    <3>1. PICK c \in Up(t, x) : t.parent[c] = n
      BY <1>4, UpChild
    <3>2. c \in alive
      BY <3>1, UpAlive
    <3> QED BY <3>1, <3>2
  <2>2. \A m \in Node : r.parent[m] # NULL => r.parent[m] = t.parent[m]
    BY <1>3
  <2>3. x \in Node /\ Up(r, x) \subseteq Up(t, x)
    BY <2>2, UpFewer
  <2>4. \A m \in Up(r, x) : t.parent[m] # NULL => r.parent[m] # NULL
    BY <1>3, <2>1, <2>3, UpIs
  <2>5. Up(r, x) = Up(t, x)
    BY <2>2, <2>3, <2>4, UpFewer
  <2> QED BY <2>1, <2>5
<1>5. Ranked(r)
  BY <1>3, RemovedUp DEF Arranged
<1>6. ASSUME NEW p \in Node PROVE \E R : Listed(r, alive \ {n}, p, R)
  <2>1. PICK L : Listed(t, alive, p, L)
    BY DEF Arranged
  <2> QED BY <1>2, <2>1, FreedListed
<1>7. \A x \in alive \ {n} : r.parent[x] # NULL => r.parent[x] \in alive \ {n}
  BY <1>3 DEF Arranged
<1>8. \A x \in Node : r.parent[x] = NULL => r.next[x] = NULL
  BY <1>3 DEF Arranged
<1>9. \A x \in Node \ (alive \ {n}) : r.parent[x] = NULL
  BY <1>3 DEF Arranged
<1>10. Arranged(r, alive \ {n})
  BY <1>5, <1>6, <1>7, <1>8, <1>9 DEF Arranged
<1> QED BY <1>2, <1>4, <1>10

-----------------------------------------------------------------------------
(* Staying and Kids, of any links.                                          *)
StayingOf(t, alive, d) == {n \in alive : d \notin UpFrom(t, n)}
KidsOf(t, alive, d) ==
  [n \in Node |-> IF n \in StayingOf(t, alive, d) THEN ListFrom(t, t.child[n]) ELSE <<>>]

(* What stays still starts with its first child.                            *)
Fit(t, alive, d) ==
  \A p \in alive : d \notin Up(t, p) => \E L : Listed(t, alive, p, L) /\ t.child[p] = HeadOf(L)

(* The mapping to the abstract forest, before and after a step, in terms of *)
(* the links, which a lemma can speak of.                                   *)
LEMMA MappingIs ==
  /\ Staying = StayingOf(links, live, doomed)
  /\ Kids = KidsOf(links, live, doomed)
  /\ Staying' = StayingOf(links', live', doomed')
  /\ Kids' = KidsOf(links', live', doomed')
BY DEF Staying, StayingOf, Kids, KidsOf

(* What stays is what the argument is not above.                            *)
LEMMA StayingIs ==
  ASSUME NEW t \in Tree, NEW alive, alive \subseteq Node, Arranged(t, alive), NEW d
  PROVE  /\ StayingOf(t, alive, d) = {x \in alive : d \notin Up(t, x)}
         /\ d = NULL => StayingOf(t, alive, d) = alive
<1>1. \A x \in alive : UpFrom(t, x) = Up(t, x)
  BY UpFromIs DEF Arranged
<1>2. \A x \in alive : NULL \notin Up(t, x)
  BY NullAssumption DEF Up
<1> QED BY <1>1, <1>2 DEF StayingOf

(* The children of a node that stays are its list, ...                      *)
LEMMA KidsStaying ==
  ASSUME NEW t \in Tree, NEW alive, alive \subseteq Node, Arranged(t, alive), NEW d,
         NEW p \in alive, d \notin Up(t, p), NEW L, Listed(t, alive, p, L), t.child[p] = HeadOf(L)
  PROVE  KidsOf(t, alive, d)[p] = L
<1>1. p \in StayingOf(t, alive, d) /\ p \in Node
  BY StayingIs
<1>2. ListFrom(t, HeadOf(L)) = L
  BY ListFollowed
<1> QED BY <1>1, <1>2 DEF KidsOf

(* ... and other nodes have none.                                           *)
LEMMA KidsGone ==
  ASSUME NEW t \in Tree, NEW alive, alive \subseteq Node, Arranged(t, alive), NEW d,
         NEW p \in Node, p \in alive => d \in Up(t, p)
  PROVE  KidsOf(t, alive, d)[p] = <<>>
<1>1. p \notin StayingOf(t, alive, d)
  BY StayingIs
<1> QED BY <1>1 DEF KidsOf

(* Nothing hangs from what is not allocated.                                *)
LEMMA DeadChildless ==
  ASSUME NEW t, NEW alive, Arranged(t, alive), NEW p \in Node \ alive,
         NEW L, Listed(t, alive, p, L)
  PROVE  L = <<>>
<1>1. L \in Seq(alive) /\ \A i \in 1..Len(L) : L[i] \in alive /\ t.parent[L[i]] = p /\ p # NULL
  BY NullAssumption DEF Listed
<1>2. Len(L) = 0
  <2> SUFFICES ASSUME Len(L) # 0 PROVE FALSE
    OBVIOUS
  <2>1. 1 \in 1..Len(L)
    BY <1>1
  <2> QED BY <1>1, <2>1 DEF Arranged
<1> QED BY <1>1, <1>2

(* Between calls all lists are the children of their nodes.                 *)
LEMMA KidsIdle ==
  ASSUME NEW t \in Tree, NEW alive, alive \subseteq Node, Arranged(t, alive), Whole(t, alive),
         NEW p \in Node, NEW L, Listed(t, alive, p, L)
  PROVE  KidsOf(t, alive, NULL)[p] = L
<1>1. CASE p \in alive
  <2>1. NULL \notin Up(t, p)
    BY NullAssumption DEF Up
  <2>2. t.child[p] = HeadOf(L)
    BY HeadIs
  <2> QED BY <1>1, <2>1, <2>2, KidsStaying
<1>2. CASE p \notin alive
  <2>1. L = <<>>
    BY <1>2, DeadChildless
  <2>2. KidsOf(t, alive, NULL)[p] = <<>>
    BY <1>2, KidsGone
  <2> QED BY <2>1, <2>2
<1> QED BY <1>1, <1>2

(* In a whole tree all lists start with the first child.                    *)
LEMMA WholeFits ==
  ASSUME NEW t, t \in Tree, NEW alive, alive \subseteq Node, Arranged(t, alive), Whole(t, alive), NEW d
  PROVE  Fit(t, alive, d)
<1> SUFFICES ASSUME NEW p \in alive
             PROVE  \E L : Listed(t, alive, p, L) /\ t.child[p] = HeadOf(L)
  BY DEF Fit
<1>1. PICK L : Listed(t, alive, p, L)
  BY DEF Arranged
<1>2. t.child[p] = HeadOf(L)
  BY <1>1, HeadIs
<1> QED BY <1>1, <1>2

(* The nodes below one, in terms of what is above.                          *)
LEMMA BelowIs ==
  ASSUME NEW t \in Tree, NEW alive, alive \subseteq Node, Arranged(t, alive), Whole(t, alive),
         NEW n \in Node
  PROVE  Abstract!Subtree(KidsOf(t, alive, NULL), n) = {x \in Node : n \in Up(t, x)}
<1>1. ASSUME NEW m \in Node
      PROVE  ToSet(KidsOf(t, alive, NULL)[m]) = {c \in Node : t.parent[c] = m}
  <2>1. PICK L : Listed(t, alive, m, L)
    BY DEF Arranged
  <2>2. KidsOf(t, alive, NULL)[m] = L
    BY <2>1, KidsIdle
  <2>3. /\ L \in Seq(alive)
        /\ \A i \in 1..Len(L) : L[i] \in Node /\ t.parent[L[i]] = m
        /\ \A x \in alive : t.parent[x] = m => \E i \in 1..Len(L) : L[i] = x
        /\ m # NULL
    BY <2>1, NullAssumption DEF Listed
  <2>4. \A c \in Node : t.parent[c] = m => c \in alive
    BY <2>3 DEF Arranged
  <2>5. ToSet(L) = {L[i] : i \in 1..Len(L)}
    BY <2>3 DEF ToSet
  <2> QED BY <2>2, <2>3, <2>4, <2>5
<1>2. Ranked(t)
  BY DEF Arranged
<1> QED BY <1>1, <1>2, SubtreeIs

-----------------------------------------------------------------------------
(* A node that is allocated and put nowhere changes no list.                *)
LEMMA NewArranged ==
  ASSUME NEW t \in Tree, NEW alive, alive \subseteq Node, Arranged(t, alive),
         NEW n \in Node \ alive
  PROVE  /\ Arranged(t, alive \cup {n})
         /\ \A p \in Node : \A L : Listed(t, alive, p, L) => Listed(t, alive \cup {n}, p, L)
<1>1. PICK S : S = alive \cup {n}
  OBVIOUS
<1>2. t.parent[n] = NULL
  BY DEF Arranged
<1>3. ASSUME NEW p \in Node, NEW L, Listed(t, alive, p, L) PROVE Listed(t, S, p, L)
  <2>1. L \in Seq(S)
    <3>1. L \in Seq(alive) /\ \A j \in 1..Len(L) : L[j] \in S
      BY <1>1, <1>3 DEF Listed
    <3> QED BY <3>1
  <2>2. \A x \in S : t.parent[x] = p => \E i \in 1..Len(L) : L[i] = x
    BY <1>1, <1>2, <1>3, NullAssumption DEF Listed
  <2> QED BY <1>3, <2>1, <2>2 DEF Listed
<1>4. \A p \in Node : \E L : Listed(t, S, p, L)
  BY <1>3 DEF Arranged
<1>5. \A x \in S : t.parent[x] # NULL => t.parent[x] \in S
  BY <1>1, <1>2 DEF Arranged
<1>6. Arranged(t, S)
  BY <1>1, <1>4, <1>5 DEF Arranged
<1> QED BY <1>1, <1>3, <1>6

(* Between calls everything stays, and children are lists.                  *)
LEMMA Mapped ==
  ASSUME NEW t \in Tree, NEW alive, alive \subseteq Node, Arranged(t, alive), Whole(t, alive)
  PROVE  /\ StayingOf(t, alive, NULL) = alive
         /\ \A p \in Node : Listed(t, alive, p, KidsOf(t, alive, NULL)[p])
<1>1. StayingOf(t, alive, NULL) = alive
  BY StayingIs
<1>2. ASSUME NEW p \in Node PROVE Listed(t, alive, p, KidsOf(t, alive, NULL)[p])
  <2>1. PICK L : Listed(t, alive, p, L)
    BY DEF Arranged
  <2>2. KidsOf(t, alive, NULL)[p] = L
    BY <2>1, KidsIdle
  <2> QED BY <2>1, <2>2
<1> QED BY <1>1, <1>2

(* Two such functions agree when they do on nodes.                          *)
LEMMA KidsEqual ==
  ASSUME NEW t, NEW alive, NEW d, NEW k, k = [p \in Node |-> k[p]],
         \A p \in Node : KidsOf(t, alive, d)[p] = k[p]
  PROVE  KidsOf(t, alive, d) = k
<1>1. PICK f : f = KidsOf(t, alive, d)
  OBVIOUS
<1>2. f = [p \in Node |-> f[p]]
  BY <1>1 DEF KidsOf
<1> QED BY <1>1, <1>2

(* The abstract forest speaks of the same sequences.                        *)
LEMMA SameOperators ==
  /\ \A s, e : Abstract!RemoveFirst(s, e) = RemoveFirst(s, e)
  /\ \A s, i, e : Abstract!InsertAt(s, i, e) = InsertAt(s, i, e)
<1>1. \A s, e : Abstract!RemoveFirst(s, e) = RemoveFirst(s, e)
  BY DEF Abstract!RemoveFirst, RemoveFirst, Abstract!RemoveAt, RemoveAt,
         Abstract!SelectInSeq, SelectInSeq, Abstract!Min, Min
<1>2. \A s, i, e : Abstract!InsertAt(s, i, e) = InsertAt(s, i, e)
  BY DEF Abstract!InsertAt, InsertAt
<1> QED BY <1>1, <1>2

-----------------------------------------------------------------------------
(* What a step of the tree is to show for, beside TreeInv: it leaves a      *)
(* forest, and is a step of the abstract one, or none.                      *)
Simulated ==
  /\ Arranged(links', live')
  /\ Fit(links', live', doomed')
  /\ [Abstract!Next]_(Abstract!vars)

(* Between calls, the abstract state.                                       *)
LEMMA IdleMapped ==
  ASSUME Typed, doomed = NULL, Whole(links, live), Arranged(links, live)
  PROVE  /\ links \in Tree /\ live \subseteq Node
         /\ Staying = live /\ Kids = [p \in Node |-> Kids[p]]
         /\ \A p \in Node : Listed(links, live, p, Kids[p])
         /\ \A p \in Node : \A L : Listed(links, live, p, L) => L \in Seq(Node)
<1>1. links \in Tree /\ live \subseteq Node
  BY DEF Typed
<1>2. Staying = live /\ \A p \in Node : Listed(links, live, p, Kids[p])
  BY <1>1, Mapped, MappingIs
<1>3. Kids = [p \in Node |-> Kids[p]]
  BY DEF Kids
<1>4. \A p \in Node : \A L : Listed(links, live, p, L) => L \in Seq(Node)
  BY <1>1 DEF Listed
<1> QED BY <1>1, <1>2, <1>3, <1>4

(* A call that leaves a whole tree has the children that its lists say.     *)
LEMMA IdleSimulated ==
  ASSUME Typed', doomed' = NULL, Whole(links', live'), Arranged(links', live')
  PROVE  /\ Staying' = live' /\ Fit(links', live', doomed')
         /\ Kids' = [p \in Node |-> Kids'[p]]
         /\ \A p \in Node : \A L : Listed(links', live', p, L) => Kids'[p] = L
<1>1. links' \in Tree /\ live' \subseteq Node
  BY DEF Typed
<1>2. Staying' = live'
  BY <1>1, Mapped, MappingIs
<1>3. ASSUME NEW p \in Node, NEW L, Listed(links', live', p, L) PROVE Kids'[p] = L
  BY <1>1, <1>3, KidsIdle, MappingIs
<1>4. Fit(links', live', doomed')
  BY <1>1, WholeFits
<1>5. Kids' = [p \in Node |-> Kids'[p]]
  BY DEF Kids
<1> QED BY <1>2, <1>3, <1>4, <1>5

(* mxmlNew without a parent: a node appears on its own, ...                 *)
LEMMA NewAloneSimulated ==
  ASSUME Typed, Typed', doomed = NULL, Whole(links, live), Whole(links', live'),
         Arranged(links, live), NEW n \in Node, New(n, NULL)
  PROVE  Simulated
<1>1. /\ n \notin live /\ live' = live \cup {n} /\ links' = links /\ doomed' = NULL
  BY DEF New
<1>2. /\ links \in Tree /\ live \subseteq Node
      /\ Staying = live /\ Kids = [p \in Node |-> Kids[p]]
      /\ \A p \in Node : Listed(links, live, p, Kids[p])
  BY IdleMapped
<1>3. /\ Arranged(links', live')
      /\ \A p \in Node : Listed(links', live', p, Kids[p])
  BY <1>1, <1>2, NewArranged
<1>4. /\ Staying' = live' /\ Fit(links', live', doomed')
      /\ Kids' = [p \in Node |-> Kids'[p]]
      /\ \A p \in Node : Kids'[p] = Kids[p]
  BY <1>1, <1>3, IdleSimulated
<1>5. Kids' = Kids
  BY <1>2, <1>4
<1>6. Abstract!Appear(n)
  BY <1>1, <1>2, <1>4, <1>5 DEF Abstract!Appear
<1> QED BY <1>3, <1>4, <1>6 DEF Simulated, Abstract!Next

(* ... and with one, as its last child.                                     *)
LEMMA NewBelowSimulated ==
  ASSUME Typed, Typed', doomed = NULL, Whole(links, live), Whole(links', live'),
         Arranged(links, live), NEW n \in Node, NEW p \in live, New(n, p)
  PROVE  Simulated
<1>1. /\ n \notin live /\ live' = live \cup {n} /\ doomed' = NULL /\ p # NULL /\ p \in Node
      /\ links' = Added(links, p, "after", NULL, n)
  BY NullAssumption DEF New, Typed
<1>2. /\ links \in Tree /\ live \subseteq Node
      /\ Staying = live /\ Kids = [q \in Node |-> Kids[q]]
      /\ \A q \in Node : Listed(links, live, q, Kids[q])
      /\ \A q \in Node : Kids[q] \in Seq(Node)
  BY IdleMapped
<1>3. links.parent[n] = NULL /\ Removed(links, n) = links
  BY <1>1 DEF Arranged, Removed
<1>4. n \notin Up(links, p)
  BY <1>1, <1>2, UpAlive
<1>5. PICK a, b : Place(links, p, a, b) /\ Between(links, links', p, a, b, n) /\ b = NULL
  BY <1>1, <1>2, <1>3, AddedBetween
<1>6. Arranged(links', live')
  BY <1>1, <1>2, <1>3, <1>4, <1>5, BetweenArranged
<1>7. Listed(links', live', p, Append(Kids[p], n))
  <2>1. PICK L : L = Kids[p]
    OBVIOUS
  <2>2. Listed(links, live, p, L) /\ L \in Seq(Node)
    BY <1>1, <1>2, <2>1
  <2>3. \E i \in 1..(Len(L) + 1) :
           /\ b = NULL => i = Len(L) + 1
           /\ Listed(links', live \cup {n}, p, InsertAt(L, i, n))
    BY <1>2, <1>3, <1>5, <2>2, BetweenListed
  <2>4. Listed(links', live \cup {n}, p, InsertAt(L, Len(L) + 1, n))
    BY <1>5, <2>3
  <2> QED BY <1>1, <2>1, <2>2, <2>4, InsertAtEnd
<1>8. ASSUME NEW q \in Node, q # p PROVE Listed(links', live', q, Kids[q])
  <2>1. Listed(links', live \cup {n}, q, Kids[q])
    BY <1>2, <1>3, <1>5, <1>8, BetweenOthers
  <2> QED BY <1>1, <2>1
<1>9. /\ Staying' = live' /\ Fit(links', live', doomed')
      /\ Kids' = [q \in Node |-> Kids'[q]]
      /\ Kids'[p] = Append(Kids[p], n)
      /\ \A q \in Node : q # p => Kids'[q] = Kids[q]
  BY <1>1, <1>6, <1>7, <1>8, IdleSimulated
<1>10. Kids' = [Kids EXCEPT ![p] = Append(@, n)]
  <2>1. PICK k : k = [Kids EXCEPT ![p] = Append(@, n)]
    OBVIOUS
  <2>2. /\ k = [q \in Node |-> k[q]] /\ k[p] = Append(Kids[p], n)
        /\ \A q \in Node : q # p => k[q] = Kids[q]
    BY <1>1, <1>2, <2>1
  <2> QED BY <1>9, <2>1, <2>2
<1>11. Abstract!AppearUnder(n, p)
  BY <1>1, <1>2, <1>9, <1>10 DEF Abstract!AppearUnder
<1> QED BY <1>2, <1>6, <1>9, <1>11 DEF Simulated, Abstract!Next

(* The children once n is taken out.                                        *)
LEMMA RemovedKids ==
  ASSUME Typed, doomed = NULL, Whole(links, live), Arranged(links, live), NEW n \in live
  PROVE  /\ Removed(links, n) \in Tree /\ Whole(Removed(links, n), live)
         /\ Removed(links, n).parent[n] = NULL
         /\ Arranged(Removed(links, n), live)
         /\ \A x \in Node : n \in Up(Removed(links, n), x) <=> n \in Up(links, x)
         /\ Abstract!Without(n) = [p \in Node |-> Abstract!Without(n)[p]]
         /\ \A p \in Node : Listed(Removed(links, n), live, p, Abstract!Without(n)[p])
<1>1. /\ links \in Tree /\ live \subseteq Node /\ n \in Node
      /\ \A p \in Node : Listed(links, live, p, Kids[p])
  BY IdleMapped
<1>2. Abstract!Without(n) = [p \in Node |-> RemoveFirst(Kids[p], n)]
  BY SameOperators DEF Abstract!Without
<1>3. ASSUME NEW p \in Node
      PROVE  Listed(Removed(links, n), live, p, RemoveFirst(Kids[p], n))
  BY <1>1, RemovedListed
<1>4. /\ Arranged(Removed(links, n), live)
      /\ \A x \in Node : n \in Up(Removed(links, n), x) <=> n \in Up(links, x)
  BY <1>1, RemovedArranged
<1>5. /\ Removed(links, n) \in Tree /\ Whole(Removed(links, n), live)
      /\ Removed(links, n).parent[n] = NULL
  BY <1>1, RemovedWhole
<1> QED BY <1>2, <1>3, <1>4, <1>5

(* mxmlRemove by a caller takes the node out of its list.                   *)
LEMMA TakeOutSimulated ==
  ASSUME Typed, Typed', doomed = NULL, Whole(links, live), Whole(links', live'),
         Arranged(links, live), NEW n \in live, TakeOut(n)
  PROVE  Simulated
<1>1. live' = live /\ doomed' = NULL /\ links' = Removed(links, n)
  BY DEF TakeOut
<1>2. Staying = live
  BY IdleMapped
<1>3. /\ Arranged(links', live')
      /\ Abstract!Without(n) = [p \in Node |-> Abstract!Without(n)[p]]
      /\ \A p \in Node : Listed(links', live', p, Abstract!Without(n)[p])
  BY <1>1, RemovedKids
<1>4. /\ Staying' = live' /\ Fit(links', live', doomed')
      /\ Kids' = [p \in Node |-> Kids'[p]]
      /\ \A p \in Node : Kids'[p] = Abstract!Without(n)[p]
  BY <1>1, <1>3, IdleSimulated
<1>5. Kids' = Abstract!Without(n)
  BY <1>3, <1>4
<1>6. Abstract!Detach(n)
  BY <1>1, <1>2, <1>4, <1>5 DEF Abstract!Detach
<1> QED BY <1>2, <1>3, <1>4, <1>6 DEF Simulated, Abstract!Next

(* mxmlAdd by a caller moves it to a place in another list, or in the same. *)
LEMMA AddSimulated ==
  ASSUME Typed, Typed', doomed = NULL, Whole(links, live), Whole(links', live'),
         Arranged(links, live), NEW n \in live, NEW p \in live, NEW where,
         NEW c \in live \cup {NULL}, Add(n, p, where, c)
  PROVE  Simulated
<1>1. /\ live' = live /\ doomed' = NULL /\ n \notin UpFrom(links, p)
      /\ links' = Added(links, p, where, c, n)
  BY DEF Add
<1>2. /\ links \in Tree /\ live \subseteq Node /\ Staying = live
      /\ n \in Node /\ p \in Node /\ live \cup {n} = live
  BY IdleMapped
<1>3. PICK r : r = Removed(links, n)
  OBVIOUS
<1>4. PICK W : W = Abstract!Without(n)
  OBVIOUS
<1>5. /\ r \in Tree /\ Whole(r, live) /\ r.parent[n] = NULL /\ Arranged(r, live)
      /\ n \in Up(r, p) <=> n \in Up(links, p)
      /\ W = [q \in Node |-> W[q]]
      /\ \A q \in Node : Listed(r, live, q, W[q])
  BY <1>2, <1>3, <1>4, RemovedKids
<1>6. n \notin Up(links, p)
  BY <1>1, <1>2, UpFromIs DEF Arranged
<1>7. p \notin Abstract!Subtree(Kids, n)
  <2>1. Abstract!Subtree(KidsOf(links, live, NULL), n) = {x \in Node : n \in Up(links, x)}
    BY <1>2, BelowIs
  <2>2. Kids = KidsOf(links, live, NULL)
    BY MappingIs
  <2> QED BY <1>6, <2>1, <2>2
<1>8. PICK a, b : Place(r, p, a, b) /\ Between(r, links', p, a, b, n)
  BY <1>1, <1>2, <1>3, AddedBetween
<1>9. Arranged(links', live')
  BY <1>1, <1>2, <1>5, <1>6, <1>8, BetweenArranged
<1>10. PICK i \in 1..(Len(W[p]) + 1) : Listed(links', live', p, InsertAt(W[p], i, n))
  <2>1. PICK L : L = W[p]
    OBVIOUS
  <2>2. Listed(r, live, p, L)
    BY <1>2, <1>5, <2>1
  <2>3. \E i \in 1..(Len(L) + 1) : Listed(links', live \cup {n}, p, InsertAt(L, i, n))
    BY <1>2, <1>5, <1>8, <2>2, BetweenListed
  <2> QED BY <1>1, <1>2, <2>1, <2>3
<1>11. ASSUME NEW q \in Node, q # p PROVE Listed(links', live', q, W[q])
  <2>1. Listed(links', live \cup {n}, q, W[q])
    BY <1>2, <1>5, <1>8, <1>11, BetweenOthers
  <2> QED BY <1>1, <1>2, <2>1
<1>12. /\ Staying' = live' /\ Fit(links', live', doomed')
       /\ Kids' = [q \in Node |-> Kids'[q]]
       /\ Kids'[p] = InsertAt(W[p], i, n)
       /\ \A q \in Node : q # p => Kids'[q] = W[q]
  BY <1>1, <1>2, <1>9, <1>10, <1>11, IdleSimulated
<1>13. Kids' = [W EXCEPT ![p] = InsertAt(W[p], i, n)]
  <2>1. PICK k : k = [W EXCEPT ![p] = InsertAt(W[p], i, n)]
    OBVIOUS
  <2>2. /\ k = [q \in Node |-> k[q]] /\ k[p] = InsertAt(W[p], i, n)
        /\ \A q \in Node : q # p => k[q] = W[q]
    BY <1>2, <1>5, <2>1
  <2> QED BY <1>12, <2>1, <2>2
<1>14. Abstract!Move(n, p)
  <2>1. Kids' = [Abstract!Without(n) EXCEPT ![p] = Abstract!InsertAt(@, i, n)]
    BY <1>4, <1>13, SameOperators
  <2> QED BY <1>1, <1>2, <1>4, <1>7, <1>10, <1>12, <2>1 DEF Abstract!Move
<1> QED BY <1>2, <1>9, <1>12, <1>14 DEF Simulated, Abstract!Next

(* mxmlDelete takes its argument out, and all that is below it, at once, as *)
(* far as anybody can tell who does not ask for what is freed.              *)
LEMMA DeleteSimulated ==
  ASSUME Typed, Typed', doomed = NULL, Whole(links, live), Arranged(links, live),
         NEW n \in live, Delete(n)
  PROVE  Simulated
<1>1. live' = live /\ doomed' = n /\ links' = Removed(links, n)
  BY DEF Delete
<1>2. links \in Tree /\ live \subseteq Node /\ Staying = live /\ n \in Node /\ links' \in Tree
  BY IdleMapped DEF Typed
<1>3. PICK W : W = Abstract!Without(n)
  OBVIOUS
<1>4. /\ Whole(links', live') /\ Arranged(links', live')
      /\ \A x \in Node : n \in Up(links', x) <=> n \in Up(links, x)
      /\ \A q \in Node : Listed(links', live', q, W[q])
  BY <1>1, <1>3, RemovedKids
<1>5. Abstract!Subtree(Kids, n) = {x \in Node : n \in Up(links, x)}
  BY <1>2, BelowIs, MappingIs
<1>6. Staying' = {x \in live : n \notin Up(links', x)}
  <2>1. StayingOf(links', live', n) = {x \in live' : n \notin Up(links', x)}
    BY <1>1, <1>2, <1>4, StayingIs
  <2>2. Staying' = StayingOf(links', live', n)
    BY <1>1, MappingIs
  <2> QED BY <1>1, <2>1, <2>2
<1>7. Staying' = Staying \ Abstract!Subtree(Kids, n)
  BY <1>2, <1>4, <1>5, <1>6
<1>8. ASSUME NEW p \in Node
      PROVE  Kids'[p] = IF p \in Staying' THEN W[p] ELSE <<>>
  <2>1. CASE p \in Staying'
    <3>1. p \in live' /\ n \notin Up(links', p)
      BY <1>1, <1>6, <2>1
    <3>2. Listed(links', live', p, W[p])
      BY <1>4
    <3>3. links'.child[p] = HeadOf(W[p])
      BY <1>1, <1>2, <1>4, <3>2, HeadIs
    <3>4. KidsOf(links', live', n)[p] = W[p]
      BY <1>1, <1>2, <1>4, <3>1, <3>2, <3>3, KidsStaying
    <3> QED BY <1>1, <2>1, <3>4, MappingIs
  <2>2. CASE p \notin Staying'
    <3>1. p \in live' => n \in Up(links', p)
      BY <1>1, <1>6, <2>2
    <3>2. KidsOf(links', live', n)[p] = <<>>
      BY <1>1, <1>2, <1>4, <3>1, KidsGone
    <3> QED BY <1>1, <2>2, <3>2, MappingIs
  <2> QED BY <2>1, <2>2
<1>9. Kids' = [p \in Node |-> IF p \in Staying' THEN W[p] ELSE <<>>]
  <2>1. PICK k : k = [p \in Node |-> IF p \in Staying' THEN W[p] ELSE <<>>]
    OBVIOUS
  <2>2. k = [p \in Node |-> k[p]] /\ \A p \in Node : k[p] = IF p \in Staying' THEN W[p] ELSE <<>>
    BY <2>1
  <2>3. Kids' = [p \in Node |-> Kids'[p]]
    BY DEF Kids
  <2>4. \A p \in Node : Kids'[p] = k[p]
    BY <1>8, <2>2
  <2> QED BY <2>1, <2>2, <2>3, <2>4
<1>10. Abstract!Prune(n)
  BY <1>3, <1>7, <1>9 DEF Abstract!Prune
<1>11. Fit(links', live', doomed')
  BY <1>1, <1>2, <1>4, WholeFits
<1> QED BY <1>2, <1>4, <1>10, <1>11 DEF Simulated, Abstract!Next

-----------------------------------------------------------------------------
(* The children do not change while those that stay keep their lists.       *)
LEMMA SameKids ==
  ASSUME NEW t \in Tree, NEW alive, alive \subseteq Node, Arranged(t, alive), NEW d,
         NEW s \in Tree, NEW left, left \subseteq Node, Arranged(s, left), NEW e,
         StayingOf(s, left, e) = StayingOf(t, alive, d),
         \A p \in StayingOf(t, alive, d) :
           \E L : /\ Listed(t, alive, p, L) /\ t.child[p] = HeadOf(L)
                  /\ Listed(s, left, p, L) /\ s.child[p] = HeadOf(L)
  PROVE  KidsOf(s, left, e) = KidsOf(t, alive, d) /\ Fit(s, left, e)
<1>1. /\ StayingOf(t, alive, d) = {x \in alive : d \notin Up(t, x)}
      /\ StayingOf(s, left, e) = {x \in left : e \notin Up(s, x)}
  BY StayingIs
<1>2. Fit(s, left, e)
  BY <1>1 DEF Fit
<1>3. ASSUME NEW p \in Node PROVE KidsOf(s, left, e)[p] = KidsOf(t, alive, d)[p]
  <2>1. CASE p \in StayingOf(t, alive, d)
    <3>1. PICK L : /\ Listed(t, alive, p, L) /\ t.child[p] = HeadOf(L)
                   /\ Listed(s, left, p, L) /\ s.child[p] = HeadOf(L)
      BY <2>1
    <3>2. p \in alive /\ d \notin Up(t, p) /\ p \in left /\ e \notin Up(s, p)
      BY <1>1, <2>1
    <3>3. KidsOf(t, alive, d)[p] = L
      BY <3>1, <3>2, KidsStaying
    <3>4. KidsOf(s, left, e)[p] = L
      BY <3>1, <3>2, KidsStaying
    <3> QED BY <3>3, <3>4
  <2>2. CASE p \notin StayingOf(t, alive, d)
    BY <2>2 DEF KidsOf
  <2> QED BY <2>1, <2>2
<1>4. PICK k : k = KidsOf(t, alive, d)
  OBVIOUS
<1>5. k = [p \in Node |-> k[p]]
  BY <1>4 DEF KidsOf
<1>6. KidsOf(s, left, e) = k
  BY <1>3, <1>4, <1>5, KidsEqual
<1> QED BY <1>2, <1>4, <1>6

(* While it frees, mxmlDelete changes nothing that stays.                   *)
LEMMA StaysSimulated ==
  ASSUME Typed, Typed', Arranged(links, live), Arranged(links', live'),
         StayingOf(links', live', doomed') = StayingOf(links, live, doomed),
         \A p \in StayingOf(links, live, doomed) :
           \E L : /\ Listed(links, live, p, L) /\ links.child[p] = HeadOf(L)
                  /\ Listed(links', live', p, L) /\ links'.child[p] = HeadOf(L)
  PROVE  Simulated
<1>1. /\ links \in Tree /\ live \subseteq Node
      /\ links' \in Tree /\ live' \subseteq Node
  BY DEF Typed
<1>2. /\ KidsOf(links', live', doomed') = KidsOf(links, live, doomed)
      /\ Fit(links', live', doomed')
  <2>1. PICK t \in Tree, s \in Tree : t = links /\ s = links'
    BY <1>1
  <2>2. PICK alive, left : alive = live /\ left = live'
    OBVIOUS
  <2>3. PICK d, e : d = doomed /\ e = doomed'
    OBVIOUS
  <2>4. KidsOf(s, left, e) = KidsOf(t, alive, d) /\ Fit(s, left, e)
    <3>1. /\ alive \subseteq Node /\ left \subseteq Node /\ Arranged(t, alive) /\ Arranged(s, left)
          /\ StayingOf(s, left, e) = StayingOf(t, alive, d)
          /\ \A p \in StayingOf(t, alive, d) :
               \E L : /\ Listed(t, alive, p, L) /\ t.child[p] = HeadOf(L)
                      /\ Listed(s, left, p, L) /\ s.child[p] = HeadOf(L)
      BY <1>1, <2>1, <2>2, <2>3
    <3> HIDE <2>1, <2>2, <2>3
    <3> QED BY <3>1, SameKids
  <2> QED BY <2>1, <2>2, <2>3, <2>4
<1>3. Staying' = Staying /\ Kids' = Kids
  BY <1>2, MappingIs
<1> QED BY <1>2, <1>3 DEF Simulated, Abstract!vars

(* A node whose last child is gone has no child any more.                   *)
LEMMA NoChildLeft ==
  ASSUME Typed, Arranged(links, live), NEW S, PartlyLinked(S),
         NEW p \in Node, links.last_child[p] \notin live
  PROVE  \A x \in live : links.parent[x] # p
<1> SUFFICES ASSUME NEW x \in live, links.parent[x] = p PROVE FALSE
  OBVIOUS
<1>1. PICK L : Listed(links, live, p, L)
  BY DEF Arranged
<1>2. /\ L \in Seq(live) /\ Len(L) \in Nat
      /\ \A i \in 1..Len(L) : L[i] \in live /\ links.parent[L[i]] = p
      /\ \A i \in 1..Len(L) : links.next[L[i]] = IF i = Len(L) THEN NULL ELSE L[i + 1]
      /\ \E i \in 1..Len(L) : L[i] = x
  BY <1>1 DEF Listed
<1>3. Len(L) \in 1..Len(L)
  BY <1>2
<1>4. PICK y : y = L[Len(L)]
  OBVIOUS
<1>5. y \in live /\ links.parent[y] = p /\ links.next[y] = NULL
  BY <1>2, <1>3, <1>4
<1>6. p # NULL
  BY NullAssumption
<1>7. links.last_child[p] = y
  BY <1>5, <1>6 DEF PartlyLinked
<1> QED BY <1>5, <1>7

(* The loop is always below the argument.                                   *)
LEMMA CurrentGoes ==
  ASSUME Typed, NEW S, Spine(S), current # NULL
  PROVE  doomed \in Up(links, current)
<1>1. /\ links \in Tree /\ live \subseteq Node /\ S \subseteq live /\ current \in S /\ doomed \in S
      /\ current \in Node /\ NULL \notin S
  BY NullAssumption DEF Typed, Spine
<1> DEFINE T == Up(links, current) \cap S
<1>2. current \in T /\ T \in SUBSET S
  BY <1>1, UpIs
<1>3. \A x \in T \ {doomed} : links.parent[x] \in T
  <2> SUFFICES ASSUME NEW x \in T \ {doomed} PROVE links.parent[x] \in T
    OBVIOUS
  <2>1. links.parent[x] \in S
    BY DEF Spine
  <2>2. Upwards(links, Up(links, current))
    BY <1>1, UpIs
  <2>3. links.parent[x] \in Up(links, current)
    BY <1>1, <2>1, <2>2 DEF Upwards
  <2> QED BY <2>1, <2>3
<1>4. T = S
  <2> HIDE DEF T
  <2> QED BY <1>2, <1>3 DEF Spine
<1> QED BY <1>1, <1>4

(* Going down, the loop leads a node that goes to forget its children.      *)
LEMMA DescendSimulated ==
  ASSUME TreeInv, Typed', Arranged(links, live), Fit(links, live, doomed), Descend
  PROVE  Simulated
<1>1. /\ live' = live /\ doomed' = doomed /\ ~Idle /\ current # NULL
      /\ links' = [links EXCEPT !.child = Set(@, current, NULL)]
      /\ Typed /\ links \in Tree /\ links' \in Tree /\ live \subseteq Node
  BY DEF Descend, TreeInv, Typed
<1>2. PICK S \in SUBSET Node : Spine(S) /\ LastIsBare /\ PartlyLinked(S)
  BY <1>1 DEF TreeInv, Deleting
<1>3. doomed \in Up(links, current)
  BY <1>1, <1>2, CurrentGoes
<1>4. /\ links'.parent = links.parent /\ links'.next = links.next
      /\ \A m \in Node : m # current => links'.child[m] = links.child[m]
  BY <1>1 DEF Tree, Set
<1>5. \A x : Up(links', x) = Up(links, x)
  BY <1>4 DEF Up, Upwards
<1>6. \A p, L : Listed(links', live', p, L) <=> Listed(links, live, p, L)
  BY <1>1, <1>4 DEF Listed
<1>7. Arranged(links', live')
  <2>1. Ranked(links')
    BY <1>4 DEF Arranged, Ranked
  <2> QED BY <1>1, <1>4, <1>6, <2>1 DEF Arranged
<1>8. /\ StayingOf(links, live, doomed) = {x \in live : doomed \notin Up(links, x)}
      /\ StayingOf(links', live', doomed') = {x \in live' : doomed' \notin Up(links', x)}
  <2>1. StayingOf(links, live, doomed) = {x \in live : doomed \notin Up(links, x)}
    BY <1>1, StayingIs
  <2>2. StayingOf(links', live', doomed') = {x \in live' : doomed' \notin Up(links', x)}
    BY <1>1, <1>7, StayingIs
  <2> QED BY <2>1, <2>2
<1>9. StayingOf(links', live', doomed') = StayingOf(links, live, doomed)
  BY <1>1, <1>5, <1>8
<1>10. ASSUME NEW p \in StayingOf(links, live, doomed)
       PROVE  \E L : /\ Listed(links, live, p, L) /\ links.child[p] = HeadOf(L)
                     /\ Listed(links', live', p, L) /\ links'.child[p] = HeadOf(L)
  <2>1. p \in live /\ p \in Node /\ doomed \notin Up(links, p) /\ p # current
    BY <1>1, <1>3, <1>8
  <2>2. PICK L : Listed(links, live, p, L) /\ links.child[p] = HeadOf(L)
    BY <2>1 DEF Fit
  <2>3. Listed(links', live', p, L) /\ links'.child[p] = HeadOf(L)
    BY <1>4, <1>6, <2>1, <2>2
  <2> QED BY <2>2, <2>3
<1> QED BY <1>1, <1>7, <1>9, <1>10, StaysSimulated

(* A node that is freed is no longer in the list of one that goes, ...      *)
LEMMA FreeCurrentSimulated ==
  ASSUME TreeInv, Typed', Arranged(links, live), Fit(links, live, doomed), FreeCurrent
  PROVE  Simulated
<1>1. /\ live' = live \ {current} /\ doomed' = doomed /\ links' = Freed(links, current)
      /\ ~Idle /\ current # NULL /\ links.child[current] = NULL
      /\ Typed /\ links \in Tree /\ live \subseteq Node
  BY DEF FreeCurrent, Free, TreeInv, Typed
<1>2. PICK S \in SUBSET Node : Spine(S) /\ LastIsBare /\ PartlyLinked(S)
  BY <1>1 DEF TreeInv, Deleting
<1>3. /\ current \in live /\ current \in Node /\ current # doomed
      /\ links.prev[current] \notin live /\ links.last_child[current] \notin live
  BY <1>1, <1>2, CurrentFacts DEF LastIsBare
<1>4. doomed \in Up(links, current)
  BY <1>1, <1>2, CurrentGoes
<1>5. \A x \in live : links.parent[x] # current
  BY <1>1, <1>2, <1>3, NoChildLeft
<1>6. \A x \in live : links.next[x] # current
  BY <1>1, <1>2, <1>3 DEF PartlyLinked
<1>7. /\ Arranged(links', live')
      /\ \A x \in live' : current \notin Up(links, x) /\ Up(links', x) = Up(links, x)
  BY <1>1, <1>3, <1>5, <1>6, FreedArranged
<1>8. /\ links' \in Tree /\ live' \subseteq Node
      /\ \A m \in Node : m # current => links'.child[m] = links.child[m]
  BY <1>1, <1>3, FreedIs
<1>9. StayingOf(links, live, doomed) = {x \in live : doomed \notin Up(links, x)}
  BY <1>1, StayingIs
<1>10. StayingOf(links', live', doomed') = {x \in live' : doomed' \notin Up(links', x)}
  BY <1>7, <1>8, StayingIs
<1>11. StayingOf(links', live', doomed') = StayingOf(links, live, doomed)
  BY <1>1, <1>4, <1>7, <1>9, <1>10
<1>12. ASSUME NEW p \in StayingOf(links, live, doomed)
       PROVE  \E L : /\ Listed(links, live, p, L) /\ links.child[p] = HeadOf(L)
                     /\ Listed(links', live', p, L) /\ links'.child[p] = HeadOf(L)
  <2>1. p \in live /\ p \in Node /\ doomed \notin Up(links, p) /\ p # current
    BY <1>1, <1>4, <1>9
  <2>2. PICK L : Listed(links, live, p, L) /\ links.child[p] = HeadOf(L)
    BY <2>1 DEF Fit
  <2>3. links.parent[current] # p
    <3> SUFFICES ASSUME links.parent[current] = p PROVE FALSE
      OBVIOUS
    <3>1. p # NULL
      BY <2>1, NullAssumption
    <3>2. Up(links, current) = {current} \cup Up(links, p)
      BY <1>1, <1>3, <3>1, UpIs
    <3> QED BY <1>3, <1>4, <2>1, <3>2
  <2>4. Listed(links', live', p, L)
    BY <1>1, <1>3, <1>6, <2>1, <2>2, <2>3, FreedListed
  <2>5. links'.child[p] = HeadOf(L)
    BY <1>8, <2>1, <2>2
  <2> QED BY <2>2, <2>4, <2>5
<1> QED BY <1>1, <1>7, <1>11, <1>12, StaysSimulated

(* ... and when the argument is freed, everything below it has been.        *)
LEMMA FreeDoomedSimulated ==
  ASSUME TreeInv, Typed', Arranged(links, live), Fit(links, live, doomed), FreeDoomed
  PROVE  Simulated
<1>1. /\ live' = live \ {doomed} /\ doomed' = NULL /\ links' = Freed(links, doomed)
      /\ ~Idle /\ current = NULL /\ links.parent[doomed] = NULL
      /\ Typed /\ links \in Tree /\ live \subseteq Node
  BY DEF FreeDoomed, Free, TreeInv, Typed
<1>2. PICK S \in SUBSET Node : Spine(S) /\ LastIsBare /\ PartlyLinked(S)
  BY <1>1 DEF TreeInv, Deleting
<1>3. /\ doomed \in live /\ doomed \in Node
      /\ links.prev[doomed] = NULL /\ links.last_child[doomed] \notin live
  BY <1>1, <1>2 DEF Spine, LastIsBare, PartlyLinked
<1>4. \A x \in live : links.parent[x] # doomed
  BY <1>1, <1>2, <1>3, NoChildLeft
<1>5. \A x \in live : links.next[x] # doomed
  BY <1>1, <1>2, <1>3, NullAssumption DEF PartlyLinked
<1>6. /\ Arranged(links', live')
      /\ \A x \in live' : doomed \notin Up(links, x)
  BY <1>1, <1>3, <1>4, <1>5, FreedArranged
<1>7. /\ links' \in Tree /\ live' \subseteq Node
      /\ \A m \in Node : m # doomed => links'.child[m] = links.child[m]
  BY <1>1, <1>3, FreedIs
<1>8. StayingOf(links, live, doomed) = {x \in live : doomed \notin Up(links, x)}
  BY <1>1, StayingIs
<1>9. StayingOf(links', live', doomed') = live'
  BY <1>1, <1>6, <1>7, StayingIs
<1>10. doomed \in Up(links, doomed)
  BY <1>1, <1>3, UpIs
<1>11. StayingOf(links', live', doomed') = StayingOf(links, live, doomed)
  BY <1>1, <1>6, <1>8, <1>9, <1>10
<1>12. ASSUME NEW p \in StayingOf(links, live, doomed)
       PROVE  \E L : /\ Listed(links, live, p, L) /\ links.child[p] = HeadOf(L)
                     /\ Listed(links', live', p, L) /\ links'.child[p] = HeadOf(L)
  <2>1. p \in live /\ p \in Node /\ doomed \notin Up(links, p) /\ p # doomed /\ p # NULL
    BY <1>1, <1>8, <1>10, NullAssumption
  <2>2. PICK L : Listed(links, live, p, L) /\ links.child[p] = HeadOf(L)
    BY <2>1 DEF Fit
  <2>3. links.parent[doomed] # p
    BY <1>1, <2>1
  <2>4. Listed(links', live', p, L)
    BY <1>1, <1>3, <1>5, <2>1, <2>2, <2>3, FreedListed
  <2>5. links'.child[p] = HeadOf(L)
    BY <1>7, <2>1, <2>2
  <2> QED BY <2>2, <2>4, <2>5
<1> QED BY <1>1, <1>6, <1>11, <1>12, StaysSimulated

-----------------------------------------------------------------------------
(* The inductive invariant for all of it.                                   *)
ForestInv == TreeInv /\ Arranged(links, live) /\ Fit(links, live, doomed)

(* It holds of no nodes, which are the abstract forest with none, ...       *)
LEMMA ForestInit == Init => ForestInv /\ Abstract!Init
<1> SUFFICES ASSUME Init PROVE ForestInv /\ Abstract!Init
  OBVIOUS
<1>1. /\ live = {} /\ doomed = NULL /\ links \in Tree
      /\ \A m \in Node : /\ links.parent[m] = NULL /\ links.next[m] = NULL
  BY DEF Init, NoLinks, Tree, Ptr
<1>2. Ranked(links)
  <2>1. [x \in Node |-> 0] \in [Node -> 0..0] /\ 0 \in Nat
    OBVIOUS
  <2> QED BY <1>1, <2>1 DEF Ranked
<1>3. \A p \in Node : Listed(links, live, p, <<>>)
  BY <1>1 DEF Listed
<1>4. Arranged(links, live)
  BY <1>1, <1>2, <1>3 DEF Arranged
<1>5. Fit(links, live, doomed)
  BY <1>1 DEF Fit
<1>6. Staying = {}
  BY <1>1 DEF Staying
<1>7. Kids = [n \in Node |-> <<>>]
  BY <1>6 DEF Kids
<1>8. Abstract!Init
  BY <1>6, <1>7 DEF Abstract!Init, Abstract!Childless
<1> QED BY <1>4, <1>5, <1>8, TreeInvInit DEF ForestInv

(* ... every step keeps it, and does to the tree as it is walked what a     *)
(* step of the abstract forest does, or nothing.                            *)
LEMMA ForestStep ==
  ASSUME ForestInv, [Next]_vars
  PROVE  ForestInv' /\ [Abstract!Next]_(Abstract!vars)
<1>1. TreeInv /\ TreeInv' /\ Arranged(links, live) /\ Fit(links, live, doomed)
  BY TreeInvStep DEF ForestInv
<1>2. /\ Typed /\ Typed' /\ live \subseteq Node
      /\ Idle => doomed = NULL /\ Whole(links, live)
      /\ doomed' = NULL => Whole(links', live')
  BY <1>1 DEF TreeInv, Typed, Idle
<1>3. ASSUME NEW n \in Node, NEW p \in live \cup {NULL}, New(n, p)
      PROVE  Simulated
  <2>1. Idle /\ doomed' = NULL
    BY <1>3 DEF New, Idle
  <2>2. CASE p = NULL
    BY <1>1, <1>2, <1>3, <2>1, <2>2, NewAloneSimulated
  <2>3. CASE p # NULL
    BY <1>1, <1>2, <1>3, <2>1, <2>3, NewBelowSimulated
  <2> QED BY <2>2, <2>3
<1>4. ASSUME NEW n \in live, NEW p \in live, NEW where \in {"before", "after"},
             NEW c \in live \cup {NULL}, Add(n, p, where, c)
      PROVE  Simulated
  <2>1. Idle /\ doomed' = NULL
    BY <1>4 DEF Add, Idle
  <2> QED BY <1>1, <1>2, <1>4, <2>1, AddSimulated
<1>5. ASSUME NEW n \in live, TakeOut(n)
      PROVE  Simulated
  <2>1. Idle /\ doomed' = NULL
    BY <1>5 DEF TakeOut, Idle
  <2> QED BY <1>1, <1>2, <1>5, <2>1, TakeOutSimulated
<1>6. ASSUME NEW n \in live, Delete(n)
      PROVE  Simulated
  <2>1. Idle
    BY <1>6 DEF Delete
  <2> QED BY <1>1, <1>2, <1>6, <2>1, DeleteSimulated
<1>7. ASSUME UNCHANGED <<live, links, doomed>>
      PROVE  Simulated
  BY <1>1, <1>7 DEF Simulated, Abstract!vars, Staying, Kids
<1>8. ASSUME NEW n \in live, Retain(n) \/ Release(n)
      PROVE  Simulated
  BY <1>7, <1>8 DEF Retain, Release
<1>9. UNCHANGED vars => Simulated
  BY <1>7 DEF vars
<1>10. DeleteLoop => Simulated
  BY <1>1, <1>2, DescendSimulated, FreeCurrentSimulated, FreeDoomedSimulated DEF DeleteLoop
<1>11. Simulated
  BY <1>3, <1>4, <1>5, <1>6, <1>8, <1>9, <1>10 DEF Next
<1> QED BY <1>1, <1>11 DEF Simulated, ForestInv

(* However a program creates nodes, puts them below one another, takes them *)
(* out, retains, releases and deletes them, the tree that one finds by      *)
(* following the links is the forest that the documentation speaks of: any  *)
(* number of nodes, trees of any shape, and mxmlDelete in its single steps. *)
THEOREM TreeImplementsForest == Spec => ImplementsForest
<1>1. ForestInv /\ [Next]_vars => ForestInv' /\ [Abstract!Next]_(Abstract!vars)
  BY ForestStep
<1> QED
  BY <1>1, ForestInit, PTL DEF Spec, ImplementsForest, Abstract!Spec

(* Nothing is ever above itself, so that every way up ends, ...             *)
LEMMA NotAboveItself ==
  ASSUME NEW t \in Tree, Ranked(t), NEW n \in Node, t.parent[n] # NULL
  PROVE  n \notin Up(t, t.parent[n])
<1>1. PICK top \in Nat : \E rank \in [Node -> 0..top] :
        \A x \in Node : t.parent[x] # NULL => rank[t.parent[x]] < rank[x]
  BY DEF Ranked
<1>2. PICK rank \in [Node -> 0..top] :
        \A x \in Node : t.parent[x] # NULL => rank[t.parent[x]] < rank[x]
  BY <1>1
<1>3. PICK p \in Node : p = t.parent[n]
  BY TreePointers
<1> DEFINE C == {x \in Node : rank[x] <= rank[p]}
<1>4. ASSUME NEW x \in Node PROVE rank[x] \in Int
  <2>1. rank[x] \in 0..top
    OBVIOUS
  <2> QED BY <2>1
<1>5. p \in C /\ C \in SUBSET Node
  BY <1>3, <1>4
<1>6. Upwards(t, C)
  <2> SUFFICES ASSUME NEW x \in C, t.parent[x] # NULL PROVE t.parent[x] \in C
    BY DEF Upwards
  <2>1. PICK y \in Node : y = t.parent[x]
    BY TreePointers
  <2>2. rank[y] < rank[x] /\ rank[x] <= rank[p]
    BY <1>2, <2>1
  <2>3. rank[y] <= rank[p]
    BY <1>3, <1>4, <2>1, <2>2
  <2> QED BY <2>1, <2>3
<1>7. n \notin C
  BY <1>2, <1>3, <1>4
<1>8. Up(t, p) \subseteq C
  <2> HIDE DEF C
  <2> QED BY <1>5, <1>6, UpIs
<1> QED BY <1>3, <1>7, <1>8

(* ... and at every moment, in the middle of mxmlDelete too, the parent of  *)
(* a node that is allocated is allocated, as is the one that next leads to, *)
(* and the way up from it does not come back.                               *)
THEOREM ParentsOutlive ==
  Spec => [](\A n \in live : links.parent[n] # NULL =>
                /\ links.parent[n] \in live
                /\ n \notin Up(links, links.parent[n])
                /\ links.next[n] # NULL => links.next[n] \in live)
<1> DEFINE Outlive == \A n \in live : links.parent[n] # NULL =>
                        /\ links.parent[n] \in live
                        /\ n \notin Up(links, links.parent[n])
                        /\ links.next[n] # NULL => links.next[n] \in live
<1>1. ForestInv => Outlive
  <2> SUFFICES ASSUME ForestInv, NEW n \in live, links.parent[n] # NULL
               PROVE  /\ links.parent[n] \in live
                      /\ n \notin Up(links, links.parent[n])
                      /\ links.next[n] # NULL => links.next[n] \in live
    OBVIOUS
  <2>1. links \in Tree /\ live \subseteq Node /\ Arranged(links, live)
    BY DEF ForestInv, TreeInv, Typed
  <2>2. links.parent[n] \in live
    BY <2>1 DEF Arranged
  <2>3. n \notin Up(links, links.parent[n])
    BY <2>1, NotAboveItself DEF Arranged
  <2>4. ASSUME links.next[n] # NULL PROVE links.next[n] \in live
    <3>1. PICK p \in Node : p = links.parent[n]
      BY <2>1, <2>2
    <3>2. PICK L : Listed(links, live, p, L)
      BY <2>1 DEF Arranged
    <3>3. PICK i \in 1..Len(L) : L[i] = n
      BY <3>1, <3>2 DEF Listed
    <3>4. i # Len(L) /\ links.next[n] = L[i + 1]
      BY <2>4, <3>2, <3>3 DEF Listed
    <3>5. L \in Seq(live) /\ i + 1 \in 1..Len(L)
      BY <3>2, <3>3, <3>4 DEF Listed
    <3> QED BY <3>4, <3>5
  <2> QED BY <2>2, <2>3, <2>4
<1>2. ForestInv /\ [Next]_vars => ForestInv'
  BY ForestStep
<1>3. Init => ForestInv
  BY ForestInit
<1> QED
  BY <1>1, <1>2, <1>3, PTL DEF Spec

LastOf(L) == IF Len(L) = 0 THEN NULL ELSE L[Len(L)]

(* t links exactly the lists of k, all of whose nodes are deeper than the   *)
(* one they belong to.                                                      *)
LaidOut(t, k, top, rank) ==
  /\ t \in Tree /\ k \in [Node -> Seq(Node)]
  /\ top \in Nat /\ rank \in [Node -> 0..top]
  /\ \A p \in Node :
       /\ t.child[p] = HeadOf(k[p]) /\ t.last_child[p] = LastOf(k[p])
       /\ \A i \in 1..Len(k[p]) :
            /\ t.parent[k[p][i]] = p /\ rank[p] < rank[k[p][i]]
            /\ t.next[k[p][i]] = IF i = Len(k[p]) THEN NULL ELSE k[p][i + 1]
            /\ t.prev[k[p][i]] = IF i = 1 THEN NULL ELSE k[p][i - 1]
  /\ \A m \in Node :
       /\ \A p \in Node : t.parent[m] = p => \E i \in 1..Len(k[p]) : k[p][i] = m
       /\ t.parent[m] = NULL => t.next[m] = NULL /\ t.prev[m] = NULL

(* What that says of one list.                                              *)
LaidList(t, rank, p, L) ==
  /\ L \in Seq(Node) /\ t.child[p] = HeadOf(L) /\ t.last_child[p] = LastOf(L)
  /\ \A q \in 1..Len(L) :
       /\ L[q] \in Node /\ t.parent[L[q]] = p /\ rank[p] < rank[L[q]]
       /\ t.next[L[q]] = IF q = Len(L) THEN NULL ELSE L[q + 1]
       /\ t.prev[L[q]] = IF q = 1 THEN NULL ELSE L[q - 1]
  /\ \A x \in Node : rank[x] \in Nat

(* Each child of a node, as its place in the list says.                     *)
LEMMA ListLaidOut ==
  ASSUME NEW t, NEW k, NEW top, NEW rank, LaidOut(t, k, top, rank),
         NEW p \in Node, NEW L, L = k[p]
  PROVE  LaidList(t, rank, p, L)
<1>1. /\ k \in [Node -> Seq(Node)] /\ top \in Nat /\ rank \in [Node -> 0..top]
      /\ t.child[p] = HeadOf(k[p]) /\ t.last_child[p] = LastOf(k[p])
      /\ \A i \in 1..Len(k[p]) :
           /\ t.parent[k[p][i]] = p /\ rank[p] < rank[k[p][i]]
           /\ t.next[k[p][i]] = IF i = Len(k[p]) THEN NULL ELSE k[p][i + 1]
           /\ t.prev[k[p][i]] = IF i = 1 THEN NULL ELSE k[p][i - 1]
  BY Zenon DEF LaidOut
<1>2. /\ t.child[p] = HeadOf(L) /\ t.last_child[p] = LastOf(L)
      /\ \A q \in 1..Len(L) :
           /\ t.parent[L[q]] = p /\ rank[p] < rank[L[q]]
           /\ t.next[L[q]] = IF q = Len(L) THEN NULL ELSE L[q + 1]
           /\ t.prev[L[q]] = IF q = 1 THEN NULL ELSE L[q - 1]
  BY <1>1, Zenon
<1>3. L \in Seq(Node)
  BY <1>1
<1>4. \A q \in 1..Len(L) : L[q] \in Node
  BY <1>3
<1>5. \A x \in Node : rank[x] \in Nat
  BY <1>1
<1> QED BY <1>2, <1>3, <1>4, <1>5 DEF LaidList

(* The end of a list and the way back in it.                                *)
LEMMA EndsOf ==
  ASSUME NEW t \in Tree, NEW alive, alive \subseteq Node, Whole(t, alive),
         NEW p \in Node, NEW L, Listed(t, alive, p, L)
  PROVE  /\ t.last_child[p] = LastOf(L)
         /\ \A i \in 1..Len(L) : t.prev[L[i]] = IF i = 1 THEN NULL ELSE L[i - 1]
<1>1. /\ L \in Seq(alive) /\ Len(L) \in Nat
      /\ \A i \in 1..Len(L) : L[i] \in alive /\ L[i] \in Node /\ t.parent[L[i]] = p
      /\ \A i \in 1..Len(L) : t.next[L[i]] = IF i = Len(L) THEN NULL ELSE L[i + 1]
      /\ p # NULL
  BY NullAssumption DEF Listed
<1>2. t.child[p] = HeadOf(L)
  BY HeadIs
<1>3. /\ \A n \in alive : t.next[n] # NULL => t.prev[t.next[n]] = n
      /\ \A n \in alive : t.parent[n] # NULL /\ t.next[n] = NULL => t.last_child[t.parent[n]] = n
      /\ t.child[p] # NULL => t.prev[t.child[p]] = NULL
  BY DEF Whole, Linked, InStep
<1>4. t.child[p] = NULL => t.last_child[p] = NULL
  BY DEF Whole, Closed, DeadBare
<1>5. t.last_child[p] = LastOf(L)
  <2>1. CASE Len(L) = 0
    BY <1>2, <1>4, <2>1 DEF HeadOf, LastOf
  <2>2. CASE Len(L) # 0
    <3>1. Len(L) \in 1..Len(L)
      BY <1>1, <2>2
    <3>2. L[Len(L)] \in alive /\ t.parent[L[Len(L)]] = p /\ t.next[L[Len(L)]] = NULL
      BY <1>1, <3>1
    <3> QED BY <1>1, <1>3, <2>2, <3>2 DEF LastOf
  <2> QED BY <2>1, <2>2
<1>6. ASSUME NEW i \in 1..Len(L) PROVE t.prev[L[i]] = IF i = 1 THEN NULL ELSE L[i - 1]
  <2>1. CASE i = 1
    <3>1. t.child[p] = L[1] /\ L[1] \in Node
      BY <1>1, <1>2, <2>1 DEF HeadOf
    <3> QED BY <1>3, <2>1, <3>1, NullAssumption
  <2>2. CASE i # 1
    <3>1. i - 1 \in 1..Len(L) /\ i - 1 # Len(L) /\ (i - 1) + 1 = i
      BY <1>1, <2>2
    <3>2. t.next[L[i - 1]] = L[i] /\ L[i] # NULL /\ L[i - 1] \in alive
      BY <1>1, <3>1, NullAssumption
    <3> QED BY <1>3, <2>2, <3>2
  <2> QED BY <2>1, <2>2
<1> QED BY <1>5, <1>6

(* Between operations the links are laid out as the children are mapped.    *)
LEMMA IdleLaidOut ==
  ASSUME ForestInv, Idle
  PROVE  /\ \E top, rank : LaidOut(links, Kids, top, rank)
         /\ \A n \in live : n \in Node
<1>1. Typed /\ doomed = NULL /\ Whole(links, live) /\ Arranged(links, live)
  BY DEF ForestInv, TreeInv, Idle
<1>2. /\ links \in Tree /\ live \subseteq Node
      /\ Kids = [p \in Node |-> Kids[p]]
      /\ \A p \in Node : Listed(links, live, p, Kids[p])
      /\ \A p \in Node : \A L : Listed(links, live, p, L) => L \in Seq(Node)
  BY <1>1, IdleMapped
<1>3. PICK top, rank : /\ top \in Nat /\ rank \in [Node -> 0..top]
                       /\ \A x \in Node : links.parent[x] # NULL => rank[links.parent[x]] < rank[x]
  BY <1>1 DEF Arranged, Ranked
<1>4. PICK k : k = Kids
  OBVIOUS
<1>5. k \in [Node -> Seq(Node)]
  BY <1>2, <1>4
<1>6. ASSUME NEW p \in Node
      PROVE  /\ links.child[p] = HeadOf(k[p]) /\ links.last_child[p] = LastOf(k[p])
             /\ \A i \in 1..Len(k[p]) :
                  /\ links.parent[k[p][i]] = p /\ rank[p] < rank[k[p][i]]
                  /\ links.next[k[p][i]] = IF i = Len(k[p]) THEN NULL ELSE k[p][i + 1]
                  /\ links.prev[k[p][i]] = IF i = 1 THEN NULL ELSE k[p][i - 1]
  <2>1. Listed(links, live, p, k[p])
    BY <1>2, <1>4
  <2>2. /\ links.child[p] = HeadOf(k[p]) /\ links.last_child[p] = LastOf(k[p])
        /\ \A i \in 1..Len(k[p]) : links.prev[k[p][i]] = IF i = 1 THEN NULL ELSE k[p][i - 1]
    <3>1. PICK L : L = k[p]
      OBVIOUS
    <3>2. Listed(links, live, p, L)
      BY <2>1, <3>1
    <3>0. links \in Tree /\ live \subseteq Node /\ Whole(links, live)
      BY <1>1, <1>2
    <3>3. links.child[p] = HeadOf(L)
      BY <3>0, <3>2, HeadIs
    <3>4. /\ links.last_child[p] = LastOf(L)
          /\ \A i \in 1..Len(L) : links.prev[L[i]] = IF i = 1 THEN NULL ELSE L[i - 1]
      BY <3>0, <3>2, EndsOf
    <3> QED BY <3>1, <3>3, <3>4
  <2>3. /\ \A i \in 1..Len(k[p]) : links.parent[k[p][i]] = p
        /\ \A i \in 1..Len(k[p]) : links.next[k[p][i]] = IF i = Len(k[p]) THEN NULL ELSE k[p][i + 1]
    BY <2>1 DEF Listed
  <2>4. \A i \in 1..Len(k[p]) : k[p][i] \in Node
    BY <1>5
  <2>5. \A i \in 1..Len(k[p]) : rank[p] < rank[k[p][i]]
    BY <1>3, <2>3, <2>4, NullAssumption
  <2> QED BY <2>2, <2>3, <2>5
<1>7. ASSUME NEW m \in Node
      PROVE  /\ \A p \in Node : links.parent[m] = p => \E i \in 1..Len(k[p]) : k[p][i] = m
             /\ links.parent[m] = NULL => links.next[m] = NULL /\ links.prev[m] = NULL
  <2>1. links.parent[m] = NULL => links.next[m] = NULL /\ links.prev[m] = NULL
    BY <1>1 DEF Whole, Linked, InStep
  <2>2. ASSUME NEW p \in Node, links.parent[m] = p
        PROVE  \E i \in 1..Len(k[p]) : k[p][i] = m
    <3>1. m \in live
      BY <1>1, <2>2, NullAssumption DEF Arranged
    <3>2. Listed(links, live, p, k[p])
      BY <1>2, <1>4
    <3> QED BY <2>2, <3>1, <3>2 DEF Listed
  <2> QED BY <2>1, <2>2
<1>8. LaidOut(links, k, top, rank)
  BY <1>2, <1>3, <1>5, <1>6, <1>7 DEF LaidOut
<1> QED BY <1>2, <1>4, <1>8

(* What depends on deeper nodes alone, or on less deep ones alone.          *)
LEMMA DepthWellFounded ==
  ASSUME NEW top \in Nat, NEW rank \in [Node -> 0..top]
  PROVE  /\ \E Dep : /\ WellFounded(Node, Dep)
                     /\ \A x, m \in Node : <<x, m>> \in Dep <=> rank[m] < rank[x]
         /\ \E Dep : /\ WellFounded(Node, Dep)
                     /\ \A x, m \in Node : <<x, m>> \in Dep <=> rank[x] < rank[m]
<1>1. \A m \in Node : rank[m] \in 0..top
  OBVIOUS
<1>2. rank \in [Node -> Nat]
  BY <1>1
<1> DEFINE height == [m \in Node |-> top - rank[m]]
<1>3. height \in [Node -> Nat]
  BY <1>1
<1> DEFINE Up1 == {p \in Node \X Node : rank[p[1]] < rank[p[2]]}
           Down1 == {p \in Node \X Node : rank[p[2]] < rank[p[1]]}
<1>4. \A x, m \in Node : <<x, m>> \in Up1 <=> rank[x] < rank[m]
  OBVIOUS
<1>5. \A x, m \in Node : <<x, m>> \in Down1 <=> rank[m] < rank[x]
  OBVIOUS
<1>6. \A x, m \in Node : <<x, m>> \in Down1 => height[x] < height[m]
  BY <1>1, <1>5
<1> HIDE DEF Up1, Down1, height
<1>7. WellFounded(Node, Up1)
  BY <1>2, <1>4, RankedWellFounded
<1>8. WellFounded(Node, Down1)
  BY <1>3, <1>6, RankedWellFounded
<1> QED BY <1>4, <1>5, <1>7, <1>8

(* What the pointers of a node say of where it is laid out.                 *)
LEMMA LaidOutPointers ==
  ASSUME NEW t, NEW k, NEW top, NEW rank, LaidOut(t, k, top, rank), NEW m \in Node
  PROVE  /\ t.parent[m] # NULL => t.parent[m] \in Node /\ rank[t.parent[m]] < rank[m]
         /\ t.child[m] # NULL => t.child[m] \in Node /\ rank[m] < rank[t.child[m]]
         /\ t.last_child[m] # NULL => t.last_child[m] \in Node /\ rank[m] < rank[t.last_child[m]]
         /\ t.prev[m] # NULL => t.prev[m] \in Node
         /\ t.next[m] # NULL => t.next[m] \in Node
<1>1. /\ t \in Tree /\ k \in [Node -> Seq(Node)]
      /\ t.child[m] = HeadOf(k[m]) /\ t.last_child[m] = LastOf(k[m])
      /\ \A p \in Node : \A i \in 1..Len(k[p]) : rank[p] < rank[k[p][i]]
      /\ \A p \in Node : t.parent[m] = p => \E i \in 1..Len(k[p]) : k[p][i] = m
  BY DEF LaidOut
<1>2. Len(k[m]) \in Nat
  BY <1>1
<1>3. Len(k[m]) # 0 => 1 \in 1..Len(k[m]) /\ Len(k[m]) \in 1..Len(k[m])
  BY <1>2
<1>4. /\ t.parent[m] # NULL => t.parent[m] \in Node
      /\ t.child[m] # NULL => t.child[m] \in Node
      /\ t.last_child[m] # NULL => t.last_child[m] \in Node
      /\ t.prev[m] # NULL => t.prev[m] \in Node
      /\ t.next[m] # NULL => t.next[m] \in Node
  BY <1>1, TreePointers
<1>5. t.parent[m] # NULL => rank[t.parent[m]] < rank[m]
  BY <1>1, <1>4
<1>6. t.child[m] # NULL => rank[m] < rank[t.child[m]]
  BY <1>1, <1>3 DEF HeadOf
<1>7. t.last_child[m] # NULL => rank[m] < rank[t.last_child[m]]
  BY <1>1, <1>3 DEF LastOf
<1> QED BY <1>4, <1>5, <1>6, <1>7

(* Where a walk goes after the last node below m.                           *)
LEMMA OnwardsIs ==
  ASSUME NEW t, NEW k, NEW top, NEW rank, LaidOut(t, k, top, rank), NEW n \in Node
  PROVE  \A m \in Node :
           Onwards(t, m, n) = IF m = n THEN NULL
                              ELSE IF t.next[m] # NULL THEN t.next[m]
                              ELSE IF t.parent[m] # NULL THEN Onwards(t, t.parent[m], n) ELSE NULL
<1> DEFINE V == Node \cup {NULL}
           Body(f) == [m \in Node |-> IF m = n THEN NULL
                                      ELSE IF t.next[m] # NULL THEN t.next[m]
                                      ELSE IF t.parent[m] # NULL THEN f[t.parent[m]] ELSE NULL]
           on == CHOOSE f : f = Body(f)
           B == [f \in [Node -> V] |-> Body(f)]
<1>1. top \in Nat /\ rank \in [Node -> 0..top]
  BY DEF LaidOut
<1>2. PICK Dep : /\ WellFounded(Node, Dep)
                 /\ \A x, m \in Node : <<x, m>> \in Dep <=> rank[x] < rank[m]
  BY <1>1, DepthWellFounded
<1>3. \A m \in Node : /\ t.parent[m] # NULL => t.parent[m] \in Node /\ rank[t.parent[m]] < rank[m]
                      /\ t.next[m] # NULL => t.next[m] \in Node
  BY LaidOutPointers
<1>4. B \in [[Node -> V] -> [Node -> V]]
  BY <1>3
<1>5. ASSUME NEW f \in [Node -> V], NEW g \in [Node -> V], NEW m \in Node,
             \A x \in Node : <<x, m>> \in Dep => f[x] = g[x]
      PROVE  B[f][m] = B[g][m]
  BY <1>2, <1>3, <1>5
<1>6. \E f \in [Node -> V] : B[f] = f
  <2>1. NULL \in V
    OBVIOUS
  <2>2. Depends(Node, V, B, Dep)
    <3> HIDE DEF B, V
    <3> QED BY <1>4, <1>5 DEF Depends
  <2> HIDE DEF B, V
  <2> QED BY <1>2, <2>1, <2>2, Recursion
<1>7. \E f : f = Body(f)
  BY <1>6
<1>8. on = Body(on)
  <2> HIDE DEF Body
  <2> QED BY <1>7
<1>9. \A m \in Node : Onwards(t, m, n) = on[m]
  BY DEF Onwards
<1> HIDE DEF on
<1> QED BY <1>3, <1>8, <1>9

(* The last node below n.                                                   *)
LEMMA LastBelowIs ==
  ASSUME NEW t, NEW k, NEW top, NEW rank, LaidOut(t, k, top, rank)
  PROVE  \A m \in Node :
           LastBelow(t, m) = IF t.last_child[m] = NULL THEN m ELSE LastBelow(t, t.last_child[m])
<1> DEFINE Body(f) == [m \in Node |-> IF t.last_child[m] = NULL THEN m ELSE f[t.last_child[m]]]
           down == CHOOSE f : f = Body(f)
           B == [f \in [Node -> Node] |-> Body(f)]
<1>1. top \in Nat /\ rank \in [Node -> 0..top]
  BY DEF LaidOut
<1>2. PICK Dep : /\ WellFounded(Node, Dep)
                 /\ \A x, m \in Node : <<x, m>> \in Dep <=> rank[m] < rank[x]
  BY <1>1, DepthWellFounded
<1>3. \A m \in Node : t.last_child[m] # NULL =>
                        t.last_child[m] \in Node /\ rank[m] < rank[t.last_child[m]]
  BY LaidOutPointers
<1>4. B \in [[Node -> Node] -> [Node -> Node]]
  BY <1>3
<1>5. ASSUME NEW f \in [Node -> Node], NEW g \in [Node -> Node], NEW m \in Node,
             \A x \in Node : <<x, m>> \in Dep => f[x] = g[x]
      PROVE  B[f][m] = B[g][m]
  BY <1>2, <1>3, <1>5
<1>6. ASSUME NEW n \in Node PROVE \E f \in [Node -> Node] : B[f] = f
  <2> HIDE DEF B
  <2>1. Depends(Node, Node, B, Dep)
    BY <1>4, <1>5 DEF Depends
  <2> QED BY <1>2, <2>1, Recursion
<1>7. ASSUME NEW n \in Node PROVE \E f : f = Body(f)
  BY <1>6
<1>8. ASSUME NEW n \in Node PROVE down = Body(down)
  <2> HIDE DEF Body
  <2> QED BY <1>7
<1>9. \A m \in Node : LastBelow(t, m) = down[m]
  BY DEF LastBelow
<1> HIDE DEF down
<1> QED BY <1>3, <1>8, <1>9

(* The order of the document.                                               *)
LEMMA DocumentOrderIs ==
  ASSUME NEW top, NEW rank, LaidOut(links, Kids, top, rank), NEW n \in Node
  PROVE  /\ DocumentOrder(n) \in Seq(Node)
         /\ [i \in DOMAIN Kids[n] |-> DocumentOrder(Kids[n][i])] \in Seq(Seq(Node))
         /\ DocumentOrder(n) =
              <<n>> \o FlattenSeq([i \in DOMAIN Kids[n] |-> DocumentOrder(Kids[n][i])])
<1> DEFINE V == Seq(Node)
           parts(f, m) == [i \in DOMAIN Kids[m] |-> f[Kids[m][i]]]
           Body(f) == [m \in Node |-> <<m>> \o FlattenSeq(parts(f, m))]
           order == CHOOSE f : f = Body(f)
           B == [f \in [Node -> V] |-> Body(f)]
<1>1. /\ top \in Nat /\ rank \in [Node -> 0..top] /\ Kids \in [Node -> Seq(Node)]
      /\ \A p \in Node : \A i \in 1..Len(Kids[p]) : rank[p] < rank[Kids[p][i]]
  BY DEF LaidOut
<1>2. PICK Dep : /\ WellFounded(Node, Dep)
                 /\ \A x, m \in Node : <<x, m>> \in Dep <=> rank[m] < rank[x]
  BY <1>1, DepthWellFounded
<1>3. \A m \in Node : /\ Len(Kids[m]) \in Nat /\ DOMAIN Kids[m] = 1..Len(Kids[m])
                      /\ \A i \in 1..Len(Kids[m]) : Kids[m][i] \in Node
  BY <1>1
<1>4. ASSUME NEW f \in [Node -> V], NEW m \in Node PROVE parts(f, m) \in Seq(V)
  <2> HIDE DEF V
  <2>1. parts(f, m) = [i \in 1..Len(Kids[m]) |-> f[Kids[m][i]]] /\ Len(Kids[m]) \in Nat
    BY <1>3
  <2>2. \A i \in 1..Len(Kids[m]) : f[Kids[m][i]] \in V
    BY <1>3
  <2> QED BY <2>1, <2>2
<1>5. ASSUME NEW f \in [Node -> V], NEW m \in Node PROVE <<m>> \o FlattenSeq(parts(f, m)) \in V
  <2>1. FlattenSeq(parts(f, m)) \in V
    <3> HIDE DEF parts
    <3> QED BY <1>4, FlattenInSeq
  <2>2. <<m>> \in Seq(Node)
    OBVIOUS
  <2> HIDE DEF parts
  <2> QED BY <2>1, <2>2, ConcatProperties
<1>6. B \in [[Node -> V] -> [Node -> V]]
  <2> HIDE DEF V, parts
  <2> QED BY <1>5
<1>7. ASSUME NEW f \in [Node -> V], NEW g \in [Node -> V], NEW m \in Node,
             \A x \in Node : <<x, m>> \in Dep => f[x] = g[x]
      PROVE  B[f][m] = B[g][m]
  <2> HIDE DEF V
  <2>1. \A i \in DOMAIN Kids[m] : f[Kids[m][i]] = g[Kids[m][i]]
    BY <1>1, <1>2, <1>3, <1>7
  <2>2. parts(f, m) = parts(g, m)
    BY <2>1
  <2> HIDE DEF parts
  <2> QED BY <2>2
<1>8. \E f \in [Node -> V] : B[f] = f
  <2>1. <<>> \in V
    OBVIOUS
  <2>2. Depends(Node, V, B, Dep)
    <3> HIDE DEF B, V
    <3> QED BY <1>6, <1>7 DEF Depends
  <2> HIDE DEF B, V
  <2> QED BY <1>2, <2>1, <2>2, Recursion
<1>9. \E f : f \in [Node -> V] /\ f = Body(f)
  <2> HIDE DEF V, parts
  <2> QED BY <1>8
<1>10. order = Body(order)
  <2> HIDE DEF Body
  <2> QED BY <1>9
<1>11. PICK s : s = order
  OBVIOUS
<1>12. \A m \in Node : DocumentOrder(m) = s[m]
  <2>1. ASSUME NEW m \in Node PROVE DocumentOrder(m) = order[m]
    BY DEF DocumentOrder
  <2> HIDE DEF order
  <2> QED BY <1>11, <2>1
<1>13. s = Body(s)
  <2> HIDE DEF Body, order
  <2> QED BY <1>10, <1>11
<1> HIDE DEF order
<1>14. \A m \in Node : s[m] = <<m>> \o FlattenSeq(parts(s, m))
  <2> HIDE DEF parts
  <2> QED BY <1>13
<1> DEFINE C == {m \in Node : s[m] \in V}
<1>15. ASSUME NEW m \in Node, \A i \in 1..Len(Kids[m]) : s[Kids[m][i]] \in V
       PROVE  parts(s, m) \in Seq(V)
  <2> HIDE DEF V
  <2> QED BY <1>3, <1>15
<1>16. ASSUME NEW m \in Node, \A x \in Node : <<x, m>> \in Dep => x \in C PROVE m \in C
  <2>1. \A i \in 1..Len(Kids[m]) : s[Kids[m][i]] \in V
    BY <1>1, <1>2, <1>3, <1>16
  <2>2. PICK ss : ss = parts(s, m)
    OBVIOUS
  <2>3. ss \in Seq(V)
    BY <1>15, <2>1, <2>2
  <2>4. FlattenSeq(ss) \in Seq(Node) /\ <<m>> \in Seq(Node)
    BY <2>3, FlattenInSeq
  <2>5. <<m>> \o FlattenSeq(ss) \in Seq(Node)
    BY <2>4, ConcatProperties
  <2> HIDE DEF parts
  <2> QED BY <1>14, <2>2, <2>5
<1>17. C = Node
  <2>1. C \in SUBSET Node
    OBVIOUS
  <2> HIDE DEF C
  <2> QED BY <1>2, <1>16, <2>1 DEF WellFounded
<1>18. \A m \in Node : s[m] \in V
  BY <1>17
<1>19. parts(s, n) = [i \in DOMAIN Kids[n] |-> DocumentOrder(Kids[n][i])]
  BY <1>3, <1>12
<1>20. parts(s, n) \in Seq(V)
  <2> HIDE DEF V, parts
  <2> QED BY <1>3, <1>15, <1>18
<1> HIDE DEF parts
<1> QED BY <1>12, <1>14, <1>18, <1>19, <1>20

(* The walks below n pass m and what is below it in the order of the        *)
(* document, and go on from the last of it as from m itself.                *)
Passed(n, m, s) ==
  /\ s \in Seq(Node) /\ Len(s) # 0
  /\ s[1] = m /\ s[Len(s)] = LastBelow(links, m)
  /\ WalkNext(links, s[Len(s)], n) = Onwards(links, m, n)
  /\ \A i \in 1..(Len(s) - 1) :
       /\ WalkNext(links, s[i], n) = s[i + 1]
       /\ WalkPrev(links, s[i + 1], n) = IF m = n /\ i = 1 THEN NULL ELSE s[i]

(* A walk, where next leads from the first to the second and previous back. *)
Steps(n) == {p \in Node \X Node : WalkNext(links, p[1], n) = p[2] /\ WalkPrev(links, p[2], n) = p[1]}

(* A walk below n passes a node that has no children.                       *)
LEMMA PassedLeaf ==
  ASSUME NEW top, NEW rank, LaidOut(links, Kids, top, rank), NEW n \in Node, NEW m \in Node,
         Len(Kids[m]) = 0
  PROVE  Passed(n, m, <<m>>)
<1>1. links.child[m] = NULL /\ links.last_child[m] = NULL
  BY DEF LaidOut, HeadOf, LastOf
<1>2. LastBelow(links, m) = m
  BY <1>1, LastBelowIs
<1>3. WalkNext(links, m, n) = Onwards(links, m, n)
  BY <1>1 DEF WalkNext
<1>4. PICK s : s = <<m>>
  OBVIOUS
<1>5. s \in Seq(Node) /\ Len(s) = 1 /\ s[1] = m
  BY <1>4
<1>6. Passed(n, m, s)
  BY <1>2, <1>3, <1>5 DEF Passed
<1> QED BY <1>4, <1>6

(* A walk below n passes a node all of whose children it passes.            *)
LEMMA PassedInner ==
  ASSUME NEW top, NEW rank, LaidOut(links, Kids, top, rank), NEW n \in Node, NEW m \in Node,
         rank[n] <= rank[m], Len(Kids[m]) # 0,
         NEW ss \in Seq(Seq(Node)), Len(ss) = Len(Kids[m]),
         \A q \in 1..Len(Kids[m]) : Passed(n, Kids[m][q], ss[q])
  PROVE  Passed(n, m, <<m>> \o FlattenSeq(ss))
<1>1. PICK L : L = Kids[m]
  OBVIOUS
<1>2. /\ L \in Seq(Node) /\ Len(L) \in Nat \ {0}
      /\ links.child[m] = L[1] /\ links.last_child[m] = L[Len(L)]
      /\ \A q \in 1..Len(L) :
           /\ L[q] \in Node /\ links.parent[L[q]] = m /\ rank[m] < rank[L[q]]
           /\ links.next[L[q]] = IF q = Len(L) THEN NULL ELSE L[q + 1]
           /\ links.prev[L[q]] = IF q = 1 THEN NULL ELSE L[q - 1]
      /\ rank[m] \in Nat /\ rank[n] \in Nat
      /\ \A x \in Node : rank[x] \in Nat
  <2>1. /\ L \in Seq(Node) /\ links.child[m] = HeadOf(L) /\ links.last_child[m] = LastOf(L)
        /\ \A q \in 1..Len(L) :
             /\ L[q] \in Node /\ links.parent[L[q]] = m /\ rank[m] < rank[L[q]]
             /\ links.next[L[q]] = IF q = Len(L) THEN NULL ELSE L[q + 1]
             /\ links.prev[L[q]] = IF q = 1 THEN NULL ELSE L[q - 1]
        /\ \A x \in Node : rank[x] \in Nat
    <3>1. LaidList(links, rank, m, L)
      BY <1>1, ListLaidOut
    <3> QED BY <3>1 DEF LaidList
  <2>2. Len(L) \in Nat \ {0}
    BY <1>1, <2>1
  <2>3. links.child[m] = L[1] /\ links.last_child[m] = L[Len(L)]
    BY <2>1, <2>2 DEF HeadOf, LastOf
  <2> QED BY <2>1, <2>2, <2>3
<1>3. \A q \in 1..Len(L) : L[q] # n
  BY <1>2
<1>4. 1 \in 1..Len(L) /\ Len(L) \in 1..Len(L)
  BY <1>2
<1>5. \A q \in 1..Len(L) : Passed(n, L[q], ss[q])
  BY <1>1
<1>6. \A q \in 1..Len(ss) : Len(ss[q]) # 0
  BY <1>1, <1>5 DEF Passed
<1>7. ASSUME NEW q \in 1..Len(ss), NEW i \in 1..(Len(ss[q]) - 1)
      PROVE  <<ss[q][i], ss[q][i + 1]>> \in Steps(n)
  <2>1. q \in 1..Len(L)
    BY <1>1
  <2>2. PICK s : s = ss[q]
    OBVIOUS
  <2>3. Passed(n, L[q], s) /\ L[q] # n
    BY <1>3, <1>5, <2>1, <2>2
  <2>4. s \in Seq(Node) /\ WalkNext(links, s[i], n) = s[i + 1] /\ WalkPrev(links, s[i + 1], n) = s[i]
    BY <2>2, <2>3 DEF Passed
  <2>5. s[i] \in Node /\ s[i + 1] \in Node
    BY <2>2, <2>4
  <2> QED BY <2>2, <2>4, <2>5 DEF Steps
<1>8. ASSUME NEW q \in 1..(Len(ss) - 1)
      PROVE  <<ss[q][Len(ss[q])], ss[q + 1][1]>> \in Steps(n)
  <2>1. q \in 1..Len(L) /\ q + 1 \in 1..Len(L) /\ q # Len(L) /\ q + 1 # 1 /\ (q + 1) - 1 = q
    BY <1>1, <1>2
  <2>2. PICK a \in Seq(Node), b \in Seq(Node) : a = ss[q] /\ b = ss[q + 1]
    BY <1>1, <2>1
  <2>3. PICK x, y : x = a[Len(a)] /\ y = b[1]
    OBVIOUS
  <2>4. /\ Len(a) \in 1..Len(a) /\ 1 \in 1..Len(b)
        /\ x = LastBelow(links, L[q]) /\ y = L[q + 1]
        /\ WalkNext(links, x, n) = Onwards(links, L[q], n)
    <3>1. Passed(n, L[q], a) /\ Passed(n, L[q + 1], b)
      BY <1>5, <2>1, <2>2
    <3> QED BY <2>2, <2>3, <3>1 DEF Passed
  <2>5. x \in Node /\ y \in Node
    <3>1. a[Len(a)] \in Node /\ b[1] \in Node
      BY <2>4
    <3> QED BY <2>3, <3>1
  <2>6. Onwards(links, L[q], n) = L[q + 1]
    <3>1. L[q] \in Node /\ L[q] # n /\ links.next[L[q]] = L[q + 1] /\ L[q + 1] # NULL
      BY <1>2, <1>3, <2>1, NullAssumption
    <3> QED BY <3>1, OnwardsIs
  <2>7. WalkPrev(links, L[q + 1], n) = LastBelow(links, L[q])
    <3>1. L[q + 1] # n /\ links.prev[L[q + 1]] = L[q] /\ L[q] # NULL
      BY <1>2, <1>3, <2>1, NullAssumption
    <3> QED BY <3>1 DEF WalkPrev
  <2> QED BY <2>2, <2>3, <2>4, <2>5, <2>6, <2>7 DEF Steps
<1>9. PICK f : f = FlattenSeq(ss)
  OBVIOUS
<1>10. /\ f \in Seq(Node) /\ Len(f) # 0
       /\ f[1] = ss[1][1] /\ f[Len(f)] = ss[Len(ss)][Len(ss[Len(ss)])]
       /\ \A i \in 1..(Len(f) - 1) : <<f[i], f[i + 1]>> \in Steps(n)
  <2>1. Len(ss) # 0
    BY <1>1
  <2> QED BY <1>6, <1>7, <1>8, <1>9, <2>1, FlattenSteps
<1>11. f[1] = L[1] /\ f[Len(f)] = LastBelow(links, L[Len(L)])
       /\ WalkNext(links, f[Len(f)], n) = Onwards(links, L[Len(L)], n)
  <2>1. Passed(n, L[1], ss[1]) /\ Passed(n, L[Len(L)], ss[Len(L)]) /\ Len(ss) = Len(L)
    BY <1>1, <1>4, <1>5
  <2>2. f[1] = ss[1][1] /\ f[Len(f)] = ss[Len(L)][Len(ss[Len(L)])]
    BY <1>10, <2>1
  <2>3. /\ ss[1][1] = L[1] /\ ss[Len(L)][Len(ss[Len(L)])] = LastBelow(links, L[Len(L)])
        /\ WalkNext(links, ss[Len(L)][Len(ss[Len(L)])], n) = Onwards(links, L[Len(L)], n)
    BY <2>1 DEF Passed
  <2> QED BY <2>2, <2>3
<1>12. PICK s : s = <<m>> \o f
  OBVIOUS
<1>13. /\ s \in Seq(Node) /\ Len(s) = 1 + Len(f) /\ s[1] = m
       /\ \A i \in 1..Len(f) : s[1 + i] = f[i]
  <2>1. PICK a : a = <<m>>
    OBVIOUS
  <2>2. a \in Seq(Node) /\ Len(a) = 1 /\ a[1] = m /\ 1 \in 1..1
    BY <2>1
  <2>3. s = a \o f
    BY <1>12, <2>1
  <2>4. /\ s \in Seq(Node) /\ Len(s) = Len(a) + Len(f)
        /\ \A i \in 1..Len(a) : s[i] = a[i]
        /\ \A i \in 1..Len(f) : s[Len(a) + i] = f[i]
    <3>1. a \in Seq(Node) /\ f \in Seq(Node)
      BY <1>10, <2>2
    <3>2. /\ a \o f \in Seq(Node) /\ Len(a \o f) = Len(a) + Len(f)
          /\ \A i \in 1..Len(a) : (a \o f)[i] = a[i]
          /\ \A i \in 1..Len(f) : (a \o f)[Len(a) + i] = f[i]
      BY <3>1, ConcatParts
    <3> QED BY <2>3, <3>2, Zenon
  <2>5. s[1] = a[1]
    BY <2>2, <2>4
  <2>6. \A i \in 1..Len(f) : s[1 + i] = f[i]
    BY <2>2, <2>4
  <2>7. Len(s) = 1 + Len(f) /\ s[1] = m
    BY <2>2, <2>4, <2>5
  <2> QED BY <2>4, <2>6, <2>7, Zenon
<1>14. Len(f) \in Nat \ {0}
  BY <1>10
<1>15. s[Len(s)] = f[Len(f)]
  <2>1. Len(f) \in 1..Len(f)
    BY <1>14
  <2>2. s[1 + Len(f)] = f[Len(f)]
    BY <1>13, <2>1
  <2> QED BY <1>13, <2>2
<1>16. LastBelow(links, m) = LastBelow(links, L[Len(L)])
  <2>1. links.last_child[m] = L[Len(L)] /\ L[Len(L)] # NULL
    BY <1>2, <1>4, NullAssumption
  <2> QED BY <2>1, LastBelowIs
<1>17. Onwards(links, L[Len(L)], n) = Onwards(links, m, n)
  <2>1. PICK x \in Node : x = L[Len(L)]
    BY <1>2, <1>4
  <2>2. x # n /\ links.next[x] = NULL /\ links.parent[x] = m /\ m # NULL
    BY <1>2, <1>3, <1>4, <2>1, NullAssumption
  <2> QED BY <2>1, <2>2, OnwardsIs
<1>18. ASSUME NEW i \in 1..(Len(s) - 1)
       PROVE  /\ WalkNext(links, s[i], n) = s[i + 1]
              /\ WalkPrev(links, s[i + 1], n) = IF m = n /\ i = 1 THEN NULL ELSE s[i]
  <2>1. CASE i = 1
    <3>1. s[i + 1] = L[1] /\ s[i] = m
      BY <1>11, <1>13, <1>14, <2>1
    <3>2. WalkNext(links, m, n) = L[1]
      BY <1>2, <1>4, NullAssumption DEF WalkNext
    <3>3. WalkPrev(links, L[1], n) = IF m = n THEN NULL ELSE m
      BY <1>2, <1>3, <1>4 DEF WalkPrev
    <3> QED BY <2>1, <3>1, <3>2, <3>3
  <2>2. CASE i # 1
    <3>1. PICK j : j = i - 1
      OBVIOUS
    <3>2. j \in 1..(Len(f) - 1) /\ j \in 1..Len(f) /\ j + 1 \in 1..Len(f) /\ 1 + j = i /\ 1 + (j + 1) = i + 1
      BY <1>13, <1>14, <2>2, <3>1
    <3>3. s[i] = f[j] /\ s[i + 1] = f[j + 1]
      BY <1>13, <3>2
    <3>4. <<f[j], f[j + 1]>> \in Steps(n)
      BY <1>10, <3>2
    <3> QED BY <2>2, <3>3, <3>4 DEF Steps
  <2> QED BY <2>1, <2>2
<1>19. Passed(n, m, s)
  BY <1>11, <1>13, <1>14, <1>15, <1>16, <1>17, <1>18 DEF Passed
<1> QED BY <1>9, <1>12, <1>19

(* A walk below n passes every node, by induction from the deepest up.      *)
LEMMA PassedAll ==
  ASSUME NEW top, NEW rank, LaidOut(links, Kids, top, rank), NEW n \in Node
  PROVE  \A m \in Node : rank[n] <= rank[m] => Passed(n, m, DocumentOrder(m))
<1>1. /\ top \in Nat /\ rank \in [Node -> 0..top] /\ Kids \in [Node -> Seq(Node)]
      /\ \A p \in Node : \A i \in 1..Len(Kids[p]) : rank[p] < rank[Kids[p][i]]
  BY DEF LaidOut
<1>2. PICK Dep : /\ WellFounded(Node, Dep)
                 /\ \A x, m \in Node : <<x, m>> \in Dep <=> rank[m] < rank[x]
  BY <1>1, DepthWellFounded
<1> DEFINE C == {m \in Node : rank[n] <= rank[m] => Passed(n, m, DocumentOrder(m))}
<1>3. ASSUME NEW m \in Node, \A x \in Node : <<x, m>> \in Dep => x \in C PROVE m \in C
  <2> SUFFICES ASSUME rank[n] <= rank[m] PROVE Passed(n, m, DocumentOrder(m))
    OBVIOUS
  <2>1. PICK ss : ss = [i \in DOMAIN Kids[m] |-> DocumentOrder(Kids[m][i])]
    OBVIOUS
  <2>2. ss \in Seq(Seq(Node)) /\ DocumentOrder(m) = <<m>> \o FlattenSeq(ss)
    BY <2>1, DocumentOrderIs
  <2>3. /\ Len(Kids[m]) \in Nat /\ DOMAIN Kids[m] = 1..Len(Kids[m])
        /\ \A i \in 1..Len(Kids[m]) : Kids[m][i] \in Node
    BY <1>1
  <2>4. \A i \in 1..Len(Kids[m]) : ss[i] = DocumentOrder(Kids[m][i])
    BY <2>1, <2>3
  <2>5. Len(ss) = Len(Kids[m])
    BY <2>1, <2>2, <2>3
  <2>6. \A x \in Node : rank[x] \in Nat
    BY <1>1
  <2>7. \A i \in 1..Len(Kids[m]) : rank[m] < rank[Kids[m][i]]
    BY <1>1
  <2>8. \A i \in 1..Len(Kids[m]) : Kids[m][i] \in C /\ rank[n] <= rank[Kids[m][i]]
    <3> SUFFICES ASSUME NEW i \in 1..Len(Kids[m])
                 PROVE  Kids[m][i] \in C /\ rank[n] <= rank[Kids[m][i]]
      OBVIOUS
    <3>1. PICK x \in Node : x = Kids[m][i]
      BY <2>3
    <3>2. rank[m] < rank[x] /\ rank[x] \in Nat /\ rank[m] \in Nat /\ rank[n] \in Nat
      BY <2>6, <2>7, <3>1
    <3>3. x \in C
      <4> HIDE DEF C
      <4> QED BY <1>2, <1>3, <3>2
    <3> HIDE DEF C
    <3> QED BY <3>1, <3>2, <3>3
  <2>9. \A i \in 1..Len(Kids[m]) : Passed(n, Kids[m][i], ss[i])
    BY <2>4, <2>8
  <2>10. CASE Len(Kids[m]) = 0
    <3>1. ss = <<>>
      <4>1. Len(ss) = 0
        BY <2>5, <2>10
      <4>2. ss # <<>> => Len(ss) \in Nat \ {0}
        BY <2>2, EmptySeq, Zenon
      <4> QED BY <4>1, <4>2
    <3>2. DocumentOrder(m) = <<m>>
      <4>1. FlattenSeq(ss) = <<>>
        BY <3>1, FlattenEmpty
      <4>2. <<m>> \in Seq(Node)
        OBVIOUS
      <4>3. <<m>> \o <<>> = <<m>>
        BY <4>2, ConcatEmptySeq
      <4> QED BY <2>2, <4>1, <4>3
    <3>3. Passed(n, m, <<m>>)
      BY <2>10, PassedLeaf
    <3> QED BY <3>2, <3>3
  <2>11. CASE Len(Kids[m]) # 0
    <3>1. Passed(n, m, <<m>> \o FlattenSeq(ss))
      BY <2>2, <2>5, <2>9, <2>11, PassedInner
    <3> QED BY <2>2, <3>1
  <2> QED BY <2>10, <2>11
<1>4. C = Node
  <2>1. C \in SUBSET Node
    OBVIOUS
  <2> HIDE DEF C
  <2> QED BY <1>2, <1>3, <2>1 DEF WellFounded
<1> QED BY <1>4

(* Both walks below n follow the order of the document.                     *)
LEMMA WalksInOrder ==
  ASSUME ForestInv
  PROVE  WalkIsDocumentOrder
<1> SUFFICES ASSUME Idle, NEW n \in live, NEW i \in DOMAIN DocumentOrder(n)
             PROVE  LET order == DocumentOrder(n)
                    IN  /\ WalkNext(links, order[i], n) = IF i = Len(order) THEN NULL ELSE order[i + 1]
                        /\ WalkPrev(links, order[i], n) = IF i <= 2 THEN NULL ELSE order[i - 1]
  BY DEF WalkIsDocumentOrder
<1>1. PICK top, rank : LaidOut(links, Kids, top, rank)
  BY IdleLaidOut
<1>2. n \in Node
  BY IdleLaidOut
<1>3. rank[n] <= rank[n]
  <2>1. rank[n] \in Nat
    BY <1>1, <1>2 DEF LaidOut
  <2> QED BY <2>1
<1>4. PICK s : s = DocumentOrder(n)
  OBVIOUS
<1>5. Passed(n, n, s)
  BY <1>1, <1>2, <1>3, <1>4, PassedAll
<1>6. /\ s \in Seq(Node) /\ Len(s) \in Nat \ {0} /\ i \in 1..Len(s) /\ s[1] = n
      /\ WalkNext(links, s[Len(s)], n) = Onwards(links, n, n)
      /\ \A j \in 1..(Len(s) - 1) :
           /\ WalkNext(links, s[j], n) = s[j + 1]
           /\ WalkPrev(links, s[j + 1], n) = IF j = 1 THEN NULL ELSE s[j]
  BY <1>4, <1>5 DEF Passed
<1>7. WalkNext(links, s[i], n) = IF i = Len(s) THEN NULL ELSE s[i + 1]
  <2>1. Onwards(links, n, n) = NULL
    BY <1>1, <1>2, OnwardsIs
  <2>2. i # Len(s) => i \in 1..(Len(s) - 1)
    BY <1>6
  <2> QED BY <1>6, <2>1, <2>2
<1>8. WalkPrev(links, s[i], n) = IF i <= 2 THEN NULL ELSE s[i - 1]
  <2>1. CASE i = 1
    BY <1>6, <2>1 DEF WalkPrev
  <2>2. CASE i # 1
    <3>1. i - 1 \in 1..(Len(s) - 1) /\ (i - 1) + 1 = i /\ (i - 1 = 1 <=> i <= 2)
      BY <1>6, <2>2
    <3> QED BY <1>6, <3>1
  <2> QED BY <2>1, <2>2
<1> QED BY <1>4, <1>7, <1>8

Places == Node \X BOOLEAN

(* Where the loop of mxml_write_node goes from there.                       *)
Onto(t, at) ==
  IF at[2] THEN IF t.child[at[1]] = NULL THEN <<at[1], FALSE>> ELSE <<t.child[at[1]], TRUE>>
  ELSE IF t.next[at[1]] # NULL THEN <<t.next[at[1]], TRUE>> ELSE <<t.parent[at[1]], FALSE>>

(* A set of places that has all from which it goes on within the set.       *)
Backwards(t, C) ==
  C \in SUBSET Places /\ \A at \in Places : (Onto(t, at) \in Places => Onto(t, at) \in C) => at \in C

(* Where the loop goes on to is a place, unless it has ended.               *)
LEMMA OntoIs ==
  ASSUME NEW t, NEW k, NEW top, NEW rank, LaidOut(t, k, top, rank),
         NEW C, Backwards(t, C), NEW m \in Node
  PROVE  /\ t.child[m] = NULL /\ <<m, FALSE>> \in C => <<m, TRUE>> \in C
         /\ t.child[m] # NULL /\ <<t.child[m], TRUE>> \in C => <<m, TRUE>> \in C
         /\ t.next[m] # NULL /\ <<t.next[m], TRUE>> \in C => <<m, FALSE>> \in C
         /\ t.next[m] = NULL /\ t.parent[m] # NULL /\ <<t.parent[m], FALSE>> \in C => <<m, FALSE>> \in C
         /\ t.next[m] = NULL /\ t.parent[m] = NULL => <<m, FALSE>> \in C
<1>1. <<m, TRUE>> \in Places /\ <<m, FALSE>> \in Places
  BY DEF Places
<1>2. /\ t.child[m] = NULL => Onto(t, <<m, TRUE>>) = <<m, FALSE>>
      /\ t.child[m] # NULL => Onto(t, <<m, TRUE>>) = <<t.child[m], TRUE>>
      /\ t.next[m] # NULL => Onto(t, <<m, FALSE>>) = <<t.next[m], TRUE>>
      /\ t.next[m] = NULL => Onto(t, <<m, FALSE>>) = <<t.parent[m], FALSE>>
  BY DEF Onto
<1>3. <<NULL, FALSE>> \notin Places
  BY NullAssumption DEF Places
<1>4. \A at \in Places : Onto(t, at) \in C => at \in C
  BY DEF Backwards
<1>5. t.next[m] = NULL /\ t.parent[m] = NULL => <<m, FALSE>> \in C
  <2> SUFFICES ASSUME t.next[m] = NULL, t.parent[m] = NULL PROVE <<m, FALSE>> \in C
    OBVIOUS
  <2>1. Onto(t, <<m, FALSE>>) \notin Places
    BY <1>2, <1>3
  <2>2. \A at \in Places : (Onto(t, at) \in Places => Onto(t, at) \in C) => at \in C
    BY DEF Backwards
  <2> QED BY <1>1, <2>1, <2>2
<1> QED BY <1>1, <1>2, <1>4, <1>5

(* Down the list of p, once the loop gets past p.                           *)
LEMMA BackAlongList ==
  ASSUME NEW t, NEW k, NEW top, NEW rank, LaidOut(t, k, top, rank),
         NEW C, Backwards(t, C), NEW p \in Node, <<p, FALSE>> \in C,
         \A q \in 1..Len(k[p]) : <<k[p][q], FALSE>> \in C => <<k[p][q], TRUE>> \in C
  PROVE  \A q \in 1..Len(k[p]) : <<k[p][q], FALSE>> \in C
<1>1. PICK L : L = k[p]
  OBVIOUS
<1>2. /\ L \in Seq(Node) /\ p # NULL
      /\ \A q \in 1..Len(L) : /\ L[q] \in Node /\ t.parent[L[q]] = p
                              /\ t.next[L[q]] = IF q = Len(L) THEN NULL ELSE L[q + 1]
  <2>1. /\ L \in Seq(Node)
        /\ \A q \in 1..Len(L) : /\ L[q] \in Node /\ t.parent[L[q]] = p
                                /\ t.next[L[q]] = IF q = Len(L) THEN NULL ELSE L[q + 1]
    <3>1. LaidList(t, rank, p, L)
      BY <1>1, ListLaidOut
    <3> QED BY <3>1 DEF LaidList
  <2> QED BY <2>1, NullAssumption
<1>3. Len(L) \in Nat
  BY <1>2
<1> DEFINE R(j) == \A q \in 1..Len(L) : Len(L) - q = j => <<L[q], FALSE>> \in C
           T == {j \in Nat : R(j)}
<1>4. 0 \in T
  <2> SUFFICES ASSUME NEW q \in 1..Len(L), Len(L) - q = 0 PROVE <<L[q], FALSE>> \in C
    OBVIOUS
  <2>1. PICK x \in Node : x = L[q]
    BY <1>2
  <2>2. q = Len(L)
    BY <1>3
  <2>3. t.next[x] = NULL /\ t.parent[x] = p
    BY <1>2, <2>1, <2>2
  <2>4. <<x, FALSE>> \in C
    BY <1>2, <2>3, OntoIs
  <2> QED BY <2>1, <2>4
<1>5. ASSUME NEW j \in Nat, j \in T PROVE j + 1 \in T
  <2> SUFFICES R(j + 1)
    <3> HIDE DEF R
    <3> QED OBVIOUS
  <2> SUFFICES ASSUME NEW q \in 1..Len(L), Len(L) - q = j + 1 PROVE <<L[q], FALSE>> \in C
    OBVIOUS
  <2>1. PICK x \in Node : x = L[q]
    BY <1>2
  <2>2. q # Len(L) /\ q + 1 \in 1..Len(L) /\ Len(L) - (q + 1) = j
    BY <1>3
  <2>3. PICK y \in Node : y = L[q + 1]
    BY <1>2, <2>2
  <2>4. t.next[x] = y /\ y # NULL
    BY <1>2, <2>1, <2>2, <2>3, NullAssumption
  <2>5. <<y, FALSE>> \in C
    BY <1>5, <2>2, <2>3
  <2>6. <<y, TRUE>> \in C
    BY <1>1, <2>2, <2>3, <2>5
  <2>7. <<x, FALSE>> \in C
    BY <2>4, <2>6, OntoIs
  <2> QED BY <2>1, <2>7
<1>6. Nat \subseteq T
  <2> HIDE DEF T
  <2> QED BY <1>4, <1>5, Induction
<1>7. ASSUME NEW q \in 1..Len(L) PROVE <<L[q], FALSE>> \in C
  <2>1. Len(L) - q \in Nat
    BY <1>3
  <2> QED BY <1>6, <2>1
<1> QED BY <1>1, <1>7

(* The loop of mxml_write_node ends, wherever it is.                        *)
LEMMA BackToAll ==
  ASSUME NEW t, NEW k, NEW top, NEW rank, LaidOut(t, k, top, rank), NEW C, Backwards(t, C)
  PROVE  C = Places
<1>1. /\ top \in Nat /\ rank \in [Node -> 0..top] /\ k \in [Node -> Seq(Node)]
      /\ \A p \in Node : \A i \in 1..Len(k[p]) : rank[p] < rank[k[p][i]]
      /\ \A p \in Node : t.child[p] = HeadOf(k[p])
  BY DEF LaidOut
<1>2. \A m \in Node : t.parent[m] = NULL => t.next[m] = NULL
  BY DEF LaidOut
<1>3. \A m, p \in Node : t.parent[m] = p => \E i \in 1..Len(k[p]) : k[p][i] = m
  BY DEF LaidOut
<1>4. \A p \in Node : /\ Len(k[p]) \in Nat
                      /\ \A i \in 1..Len(k[p]) : k[p][i] \in Node
  <2> SUFFICES ASSUME NEW p \in Node
               PROVE  Len(k[p]) \in Nat /\ \A i \in 1..Len(k[p]) : k[p][i] \in Node
    OBVIOUS
  <2>1. PICK L : L = k[p]
    OBVIOUS
  <2>2. L \in Seq(Node)
    BY <1>1, <2>1
  <2>3. Len(L) \in Nat /\ \A i \in 1..Len(L) : L[i] \in Node
    BY <2>2
  <2> QED BY <2>1, <2>3
<1> DEFINE P == {m \in Node : <<m, FALSE>> \in C => <<m, TRUE>> \in C}
           Q == {m \in Node : <<m, FALSE>> \in C}
<1>5. P = Node
  <2>1. PICK Dep : /\ WellFounded(Node, Dep)
                   /\ \A x, m \in Node : <<x, m>> \in Dep <=> rank[m] < rank[x]
    BY <1>1, DepthWellFounded
  <2>2. ASSUME NEW m \in Node, \A x \in Node : <<x, m>> \in Dep => x \in P PROVE m \in P
    <3> SUFFICES ASSUME <<m, FALSE>> \in C PROVE <<m, TRUE>> \in C
      OBVIOUS
    <3>1. CASE t.child[m] = NULL
      BY <3>1, OntoIs
    <3>2. CASE t.child[m] # NULL
      <4>1. Len(k[m]) # 0 /\ t.child[m] = k[m][1] /\ 1 \in 1..Len(k[m])
        BY <1>1, <1>4, <3>2 DEF HeadOf
      <4>2. \A q \in 1..Len(k[m]) : k[m][q] \in P
        <5> HIDE DEF P
        <5> QED BY <1>1, <1>4, <2>1, <2>2
      <4>3. \A q \in 1..Len(k[m]) : <<k[m][q], FALSE>> \in C => <<k[m][q], TRUE>> \in C
        BY <4>2
      <4>4. <<k[m][1], FALSE>> \in C
        <5> HIDE DEF P, Q
        <5> QED BY <4>1, <4>3, BackAlongList
      <4>5. <<t.child[m], TRUE>> \in C
        BY <4>1, <4>3, <4>4
      <4> QED BY <3>2, <4>5, OntoIs
    <3> QED BY <3>1, <3>2
  <2>3. P \in SUBSET Node
    OBVIOUS
  <2> HIDE DEF P
  <2> QED BY <2>1, <2>2, <2>3 DEF WellFounded
<1>6. \A m \in Node : <<m, FALSE>> \in C => <<m, TRUE>> \in C
  BY <1>5
<1>7. Q = Node
  <2>1. PICK Dep : /\ WellFounded(Node, Dep)
                   /\ \A x, m \in Node : <<x, m>> \in Dep <=> rank[x] < rank[m]
    BY <1>1, DepthWellFounded
  <2>2. ASSUME NEW m \in Node, \A x \in Node : <<x, m>> \in Dep => x \in Q PROVE m \in Q
    <3>1. CASE t.parent[m] = NULL
      <4>1. t.next[m] = NULL
        BY <1>2, <3>1
      <4>2. <<m, FALSE>> \in C
        <5> HIDE DEF P, Q
        <5> QED BY <3>1, <4>1, OntoIs
      <4> QED BY <4>2
    <3>2. CASE t.parent[m] # NULL
      <4>1. PICK p : p = t.parent[m]
        OBVIOUS
      <4>2. p \in Node /\ rank[p] < rank[m]
        BY <3>2, <4>1, LaidOutPointers
      <4>3. <<p, FALSE>> \in C
        BY <2>1, <2>2, <4>2
      <4>4. \A q \in 1..Len(k[p]) : <<k[p][q], FALSE>> \in C => <<k[p][q], TRUE>> \in C
        BY <1>4, <1>6, <4>2
      <4>5. \A q \in 1..Len(k[p]) : <<k[p][q], FALSE>> \in C
        <5> HIDE DEF P, Q
        <5> QED BY <4>2, <4>3, <4>4, BackAlongList
      <4>6. \E i \in 1..Len(k[p]) : k[p][i] = m
        <5> HIDE DEF P, Q
        <5> QED BY <1>3, <4>1, <4>2
      <4> QED BY <4>5, <4>6
    <3> QED BY <3>1, <3>2
  <2>3. Q \in SUBSET Node
    OBVIOUS
  <2> HIDE DEF Q
  <2> QED BY <2>1, <2>2, <2>3 DEF WellFounded
<1>8. \A m \in Node : <<m, FALSE>> \in C
  BY <1>7
<1>9. Places \subseteq C
  <2> SUFFICES ASSUME NEW at \in Places PROVE at \in C
    OBVIOUS
  <2>1. PICK m \in Node, b \in BOOLEAN : at = <<m, b>>
    BY DEF Places
  <2>2. b = TRUE \/ b = FALSE
    OBVIOUS
  <2> QED BY <1>6, <1>8, <2>1, <2>2
<1>10. C \subseteq Places
  BY DEF Backwards
<1> QED BY <1>9, <1>10

(* Each place depends on the one it goes on to.                             *)
LEMMA WritingEnds ==
  ASSUME NEW t, NEW k, NEW top, NEW rank, LaidOut(t, k, top, rank)
  PROVE  \E Dep : /\ WellFounded(Places, Dep)
                  /\ \A x, y \in Places : <<x, y>> \in Dep <=> x = Onto(t, y)
<1> DEFINE Dep == {p \in Places \X Places : p[1] = Onto(t, p[2])}
<1>1. \A x, y \in Places : <<x, y>> \in Dep <=> x = Onto(t, y)
  OBVIOUS
<1> HIDE DEF Dep
<1>2. ASSUME NEW C \in SUBSET Places,
             \A y \in Places : (\A x \in Places : <<x, y>> \in Dep => x \in C) => y \in C
      PROVE  C = Places
  <2>1. ASSUME NEW at \in Places, Onto(t, at) \in Places => Onto(t, at) \in C
        PROVE  at \in C
    <3>1. \A x \in Places : <<x, at>> \in Dep => x \in C
      BY <1>1, <2>1
    <3> QED BY <1>2, <3>1
  <2>2. Backwards(t, C)
    BY <2>1 DEF Backwards
  <2> QED BY <2>2, BackToAll
<1>3. WellFounded(Places, Dep)
  BY <1>2 DEF WellFounded
<1> QED BY <1>1, <1>3

TagSeqs == Seq({"empty", "open", "close"} \X Node)

Tag(kind, m) == <<<<kind, m>>>>

(* A tag by itself is a run of tags.                                        *)
LEMMA TagIs ==
  ASSUME NEW m \in Node, NEW kind \in {"empty", "open", "close"}
  PROVE  Tag(kind, m) \in TagSeqs
<1>1. <<kind, m>> \in {"empty", "open", "close"} \X Node
  OBVIOUS
<1> QED BY <1>1 DEF Tag, TagSeqs

(* No tag is a run of tags, and so are two runs one after the other.        *)
LEMMA TagsJoined ==
  /\ <<>> \in TagSeqs
  /\ \A a, b \in TagSeqs : a \o b \in TagSeqs
<1> DEFINE S == {"empty", "open", "close"} \X Node
<1>1. TagSeqs = Seq(S)
  BY DEF TagSeqs
<1> HIDE DEF S
<1>2. <<>> \in Seq(S)
  BY EmptySeq
<1>3. \A a, b \in Seq(S) : a \o b \in Seq(S)
  BY ConcatProperties
<1> QED BY <1>1, <1>2, <1>3

\* One sequence after another.
Joined(a, b) == a \o b

\* Sequences are joined in any grouping.
LEMMA Grouping ==
  ASSUME NEW S, NEW a \in Seq(S), NEW b \in Seq(S), NEW c \in Seq(S)
  PROVE  Joined(Joined(a, b), c) = Joined(a, Joined(b, c))
<1>1. PICK ab \in Seq(S) : ab = a \o b
  BY ConcatParts
<1>2. PICK bc \in Seq(S) : bc = b \o c
  BY ConcatParts
<1>3. PICK left \in Seq(S) : left = ab \o c
  BY ConcatParts
<1>4. PICK right \in Seq(S) : right = a \o bc
  BY ConcatParts
<1>5. /\ Len(a) \in Nat /\ Len(b) \in Nat /\ Len(c) \in Nat
      /\ Len(ab) = Len(a) + Len(b) /\ Len(bc) = Len(b) + Len(c)
      /\ \A i \in 1..Len(a) : ab[i] = a[i]
      /\ \A i \in 1..Len(b) : ab[Len(a) + i] = b[i] /\ bc[i] = b[i]
      /\ \A i \in 1..Len(c) : bc[Len(b) + i] = c[i]
  <2>1. \A i \in 1..Len(a) : ab[i] = a[i]
    BY <1>1, ConcatParts
  <2>2. \A i \in 1..Len(b) : ab[Len(a) + i] = b[i]
    BY <1>1, ConcatParts
  <2>3. \A i \in 1..Len(b) : bc[i] = b[i]
    BY <1>2, ConcatParts
  <2>4. \A i \in 1..Len(c) : bc[Len(b) + i] = c[i]
    BY <1>2, ConcatParts
  <2> QED BY <1>1, <1>2, <2>1, <2>2, <2>3, <2>4, ConcatParts
<1>6. /\ Len(left) = Len(ab) + Len(c)
      /\ \A i \in 1..Len(ab) : left[i] = ab[i]
      /\ \A i \in 1..Len(c) : left[Len(ab) + i] = c[i]
  <2>1. Len(left) = Len(ab) + Len(c)
    BY <1>3, ConcatParts
  <2>2. \A i \in 1..Len(ab) : left[i] = ab[i]
    BY <1>3, ConcatParts
  <2>3. \A i \in 1..Len(c) : left[Len(ab) + i] = c[i]
    BY <1>3, ConcatParts
  <2> QED BY <2>1, <2>2, <2>3
<1>7. /\ Len(right) = Len(a) + Len(bc)
      /\ \A i \in 1..Len(a) : right[i] = a[i]
      /\ \A i \in 1..Len(bc) : right[Len(a) + i] = bc[i]
  <2>1. Len(right) = Len(a) + Len(bc)
    BY <1>4, ConcatParts
  <2>2. \A i \in 1..Len(a) : right[i] = a[i]
    BY <1>4, ConcatParts
  <2>3. \A i \in 1..Len(bc) : right[Len(a) + i] = bc[i]
    BY <1>4, ConcatParts
  <2> QED BY <2>1, <2>2, <2>3
<1>8. Len(left) = Len(right)
  BY <1>5, <1>6, <1>7
<1>9. ASSUME NEW i \in 1..Len(left)
      PROVE  left[i] = right[i]
  <2>1. CASE i <= Len(a)
    BY <1>5, <1>6, <1>7, <2>1
  <2>2. CASE i > Len(a) /\ i <= Len(a) + Len(b)
    <3> DEFINE j == i - Len(a)
    <3>1. j \in 1..Len(b) /\ i = Len(a) + j
      BY <1>5, <2>2
    <3> HIDE DEF j
    <3>2. left[i] = b[j]
      BY <1>5, <1>6, <3>1
    <3>3. j \in 1..Len(bc)
      BY <1>5, <3>1
    <3> QED BY <1>5, <1>7, <3>1, <3>2, <3>3
  <2>3. CASE i > Len(a) + Len(b)
    <3> DEFINE j == i - Len(ab)
    <3>1. j \in 1..Len(c) /\ i = Len(ab) + j
      BY <1>5, <1>6, <2>3
    <3> HIDE DEF j
    <3>2. left[i] = c[j]
      BY <1>6, <3>1
    <3>3. Len(b) + j \in 1..Len(bc) /\ i = Len(a) + (Len(b) + j)
      BY <1>5, <3>1
    <3> QED BY <1>5, <1>7, <3>1, <3>2, <3>3
  <2> QED BY <1>5, <2>1, <2>2, <2>3
<1>10. left = right
  BY <1>8, <1>9, SeqEqual
<1> QED BY <1>1, <1>2, <1>3, <1>4, <1>10 DEF Joined

(* Runs of tags are joined in any grouping.                                 *)
LEMMA TagsAssociate == \A a, b, c \in TagSeqs : (a \o b) \o c = a \o (b \o c)
<1> DEFINE S == {"empty", "open", "close"} \X Node
<1>1. TagSeqs = Seq(S)
  BY DEF TagSeqs
<1> HIDE DEF S
<1>2. \A a, b, c \in Seq(S) : (a \o b) \o c = a \o (b \o c)
  BY Grouping DEF Joined
<1> QED BY <1>1, <1>2

\* Four runs of tags joined to the right are the same joined to the left.
LEMMA TagsRegrouped ==
  \A a, f, c, x \in TagSeqs :
    Joined(a, Joined(f, Joined(c, x))) = Joined(Joined(Joined(a, f), c), x)
<1>1. \A a, b \in TagSeqs : Joined(a, b) \in TagSeqs
  BY TagsJoined DEF Joined
<1>2. \A a, b, c \in TagSeqs : Joined(Joined(a, b), c) = Joined(a, Joined(b, c))
  BY TagsAssociate DEF Joined
<1> QED BY <1>1, <1>2

\* Five runs joined from the left are the first followed by the others joined.
LEMMA RunsRegrouped ==
  ASSUME NEW S, NEW a \in Seq(S), NEW b \in Seq(S), NEW c \in Seq(S),
         NEW d \in Seq(S), NEW e \in Seq(S)
  PROVE  Joined(Joined(Joined(Joined(a, b), c), d), e)
         = Joined(a, Joined(Joined(Joined(b, c), d), e))
<1>1. \A x, y \in Seq(S) : Joined(x, y) \in Seq(S)
  BY ConcatProperties DEF Joined
<1>2. \A x, y, z \in Seq(S) : Joined(Joined(x, y), z) = Joined(x, Joined(y, z))
  BY Grouping
<1>3. Joined(Joined(a, b), c) = Joined(a, Joined(b, c))
  BY <1>2
<1>4. Joined(Joined(a, Joined(b, c)), d) = Joined(a, Joined(Joined(b, c), d))
  BY <1>1, <1>2
<1>5. Joined(Joined(a, Joined(Joined(b, c), d)), e)
      = Joined(a, Joined(Joined(Joined(b, c), d), e))
  BY <1>1, <1>2
<1> QED BY <1>3, <1>4, <1>5

(* Nothing is added by no tag.                                              *)
LEMMA TagsEnd == \A a \in TagSeqs : a \o <<>> = a
<1> DEFINE S == {"empty", "open", "close"} \X Node
<1>1. TagSeqs = Seq(S)
  BY DEF TagSeqs
<1> HIDE DEF S
<1>2. \A a \in Seq(S) : a \o <<>> = a
  BY ConcatEmptySeq
<1> QED BY <1>1, <1>2

(* What is written from each place on, when n is saved.                     *)
Tagging(t, n, w) ==
  /\ w \in [Places -> TagSeqs]
  /\ \A m \in Node :
       /\ t.child[m] = NULL =>
            w[<<m, TRUE>>] = Tag("empty", m) \o (IF m = n THEN <<>> ELSE w[<<m, FALSE>>])
       /\ t.child[m] # NULL => w[<<m, TRUE>>] = Tag("open", m) \o w[<<t.child[m], TRUE>>]
       /\ t.next[m] # NULL => w[<<m, FALSE>>] = w[<<t.next[m], TRUE>>]
       /\ t.next[m] = NULL /\ m # n /\ t.parent[m] # NULL =>
            w[<<m, FALSE>>] =
              Tag("close", t.parent[m]) \o (IF t.parent[m] = n THEN <<>> ELSE w[<<t.parent[m], FALSE>>])

(* There is a function that Written takes the value of.                     *)
LEMMA WrittenIs ==
  ASSUME NEW t, NEW k, NEW top, NEW rank, LaidOut(t, k, top, rank), NEW n \in Node
  PROVE  \E w : Tagging(t, n, w) /\ Written(t, n) = w[<<n, TRUE>>]
<1> DEFINE Value(f, at) ==
             LET m == at[1]
                 p == t.parent[m] IN
             IF at[2]
               THEN IF t.child[m] = NULL
                      THEN <<<<"empty", m>>>> \o (IF m = n THEN <<>> ELSE f[<<m, FALSE>>])
                      ELSE <<<<"open", m>>>> \o f[<<t.child[m], TRUE>>]
             ELSE IF t.next[m] # NULL THEN f[<<t.next[m], TRUE>>]
             ELSE IF m = n \/ p = NULL THEN <<>>
             ELSE <<<<"close", p>>>> \o (IF p = n THEN <<>> ELSE f[<<p, FALSE>>])
           Body(f) == [at \in Node \X BOOLEAN |-> Value(f, at)]
           w == CHOOSE f : f = Body(f)
           B == [f \in [Places -> TagSeqs] |-> Body(f)]
<1>1. Written(t, n) = w[<<n, TRUE>>]
  BY DEF Written
<1> HIDE DEF w
<1>2. PICK Dep : /\ WellFounded(Places, Dep)
                 /\ \A x, y \in Places : <<x, y>> \in Dep <=> x = Onto(t, y)
  BY WritingEnds
<1>3. \A m \in Node : /\ t.parent[m] # NULL => t.parent[m] \in Node
                      /\ t.child[m] # NULL => t.child[m] \in Node
                      /\ t.next[m] # NULL => t.next[m] \in Node
  BY LaidOutPointers
<1>4. ASSUME NEW f, NEW m \in Node
      PROVE  /\ t.child[m] = NULL =>
                  Value(f, <<m, TRUE>>) = Tag("empty", m) \o (IF m = n THEN <<>> ELSE f[<<m, FALSE>>])
             /\ t.child[m] # NULL => Value(f, <<m, TRUE>>) = Tag("open", m) \o f[<<t.child[m], TRUE>>]
             /\ t.next[m] # NULL => Value(f, <<m, FALSE>>) = f[<<t.next[m], TRUE>>]
             /\ t.next[m] = NULL /\ (m = n \/ t.parent[m] = NULL) => Value(f, <<m, FALSE>>) = <<>>
             /\ t.next[m] = NULL /\ m # n /\ t.parent[m] # NULL =>
                  Value(f, <<m, FALSE>>) =
                    Tag("close", t.parent[m]) \o (IF t.parent[m] = n THEN <<>> ELSE f[<<t.parent[m], FALSE>>])
  <2>1. t.child[m] = NULL =>
          Value(f, <<m, TRUE>>) = Tag("empty", m) \o (IF m = n THEN <<>> ELSE f[<<m, FALSE>>])
    BY DEF Tag
  <2>2. t.child[m] # NULL => Value(f, <<m, TRUE>>) = Tag("open", m) \o f[<<t.child[m], TRUE>>]
    BY DEF Tag
  <2>3. t.next[m] # NULL => Value(f, <<m, FALSE>>) = f[<<t.next[m], TRUE>>]
    OBVIOUS
  <2>4. t.next[m] = NULL /\ (m = n \/ t.parent[m] = NULL) => Value(f, <<m, FALSE>>) = <<>>
    OBVIOUS
  <2>5. t.next[m] = NULL /\ m # n /\ t.parent[m] # NULL =>
          Value(f, <<m, FALSE>>) =
            Tag("close", t.parent[m]) \o (IF t.parent[m] = n THEN <<>> ELSE f[<<t.parent[m], FALSE>>])
    BY DEF Tag
  <2> HIDE DEF Value
  <2> QED BY <2>1, <2>2, <2>3, <2>4, <2>5, Zenon
<1> HIDE DEF Value
<1>5. ASSUME NEW y \in Places PROVE \E m \in Node : y = <<m, TRUE>> \/ y = <<m, FALSE>>
  <2>1. PICK m \in Node, b \in BOOLEAN : y = <<m, b>>
    BY DEF Places
  <2>2. b = TRUE \/ b = FALSE
    OBVIOUS
  <2> QED BY <2>1, <2>2
<1>6. \A m \in Node : <<m, TRUE>> \in Places /\ <<m, FALSE>> \in Places
  BY DEF Places
<1>7. \A m \in Node :
        /\ t.child[m] = NULL => Onto(t, <<m, TRUE>>) = <<m, FALSE>>
        /\ t.child[m] # NULL => Onto(t, <<m, TRUE>>) = <<t.child[m], TRUE>>
        /\ t.next[m] # NULL => Onto(t, <<m, FALSE>>) = <<t.next[m], TRUE>>
        /\ t.next[m] = NULL => Onto(t, <<m, FALSE>>) = <<t.parent[m], FALSE>>
  BY DEF Onto
<1>8. ASSUME NEW f, NEW y \in Places, Onto(t, y) \in Places => f[Onto(t, y)] \in TagSeqs
      PROVE  Value(f, y) \in TagSeqs
  <2>1. PICK m \in Node : y = <<m, TRUE>> \/ y = <<m, FALSE>>
    BY <1>5
  <2>2. CASE y = <<m, TRUE>>
    <3>1. CASE t.child[m] = NULL
      <4>1. f[<<m, FALSE>>] \in TagSeqs
        BY <1>6, <1>7, <1>8, <2>2, <3>1
      <4>2. Value(f, y) = Tag("empty", m) \o (IF m = n THEN <<>> ELSE f[<<m, FALSE>>])
        BY <1>4, <2>2, <3>1
      <4> QED BY <4>1, <4>2, TagIs, TagsJoined
    <3>2. CASE t.child[m] # NULL
      <4>1. f[<<t.child[m], TRUE>>] \in TagSeqs
        BY <1>3, <1>6, <1>7, <1>8, <2>2, <3>2
      <4>2. Value(f, y) = Tag("open", m) \o f[<<t.child[m], TRUE>>]
        BY <1>4, <2>2, <3>2
      <4> QED BY <4>1, <4>2, TagIs, TagsJoined
    <3> QED BY <3>1, <3>2
  <2>3. CASE y = <<m, FALSE>>
    <3>1. CASE t.next[m] # NULL
      <4>1. f[<<t.next[m], TRUE>>] \in TagSeqs
        BY <1>3, <1>6, <1>7, <1>8, <2>3, <3>1
      <4> QED BY <1>4, <2>3, <3>1, <4>1
    <3>2. CASE t.next[m] = NULL /\ (m = n \/ t.parent[m] = NULL)
      BY <1>4, <2>3, <3>2, TagsJoined
    <3>3. CASE t.next[m] = NULL /\ m # n /\ t.parent[m] # NULL
      <4>1. f[<<t.parent[m], FALSE>>] \in TagSeqs /\ t.parent[m] \in Node
        BY <1>3, <1>6, <1>7, <1>8, <2>3, <3>3
      <4>2. Value(f, y) =
              Tag("close", t.parent[m]) \o (IF t.parent[m] = n THEN <<>> ELSE f[<<t.parent[m], FALSE>>])
        BY <1>4, <2>3, <3>3
      <4> QED BY <4>1, <4>2, TagIs, TagsJoined
    <3> QED BY <3>1, <3>2, <3>3
  <2> QED BY <2>1, <2>2, <2>3
<1>9. ASSUME NEW f, NEW g, NEW y \in Places, Onto(t, y) \in Places => f[Onto(t, y)] = g[Onto(t, y)]
      PROVE  Value(f, y) = Value(g, y)
  <2>1. PICK m \in Node : y = <<m, TRUE>> \/ y = <<m, FALSE>>
    BY <1>5
  <2>2. CASE y = <<m, TRUE>>
    <3>1. CASE t.child[m] = NULL
      <4>1. f[<<m, FALSE>>] = g[<<m, FALSE>>]
        BY <1>6, <1>7, <1>9, <2>2, <3>1
      <4>2. \A h : Value(h, y) = Tag("empty", m) \o (IF m = n THEN <<>> ELSE h[<<m, FALSE>>])
        BY <1>4, <2>2, <3>1
      <4> QED BY <4>1, <4>2
    <3>2. CASE t.child[m] # NULL
      <4>1. f[<<t.child[m], TRUE>>] = g[<<t.child[m], TRUE>>]
        BY <1>3, <1>6, <1>7, <1>9, <2>2, <3>2
      <4>2. \A h : Value(h, y) = Tag("open", m) \o h[<<t.child[m], TRUE>>]
        BY <1>4, <2>2, <3>2
      <4> QED BY <4>1, <4>2
    <3> QED BY <3>1, <3>2
  <2>3. CASE y = <<m, FALSE>>
    <3>1. CASE t.next[m] # NULL
      <4>1. f[<<t.next[m], TRUE>>] = g[<<t.next[m], TRUE>>]
        BY <1>3, <1>6, <1>7, <1>9, <2>3, <3>1
      <4>2. \A h : Value(h, y) = h[<<t.next[m], TRUE>>]
        BY <1>4, <2>3, <3>1
      <4> QED BY <4>1, <4>2
    <3>2. CASE t.next[m] = NULL /\ (m = n \/ t.parent[m] = NULL)
      BY <1>4, <2>3, <3>2
    <3>3. CASE t.next[m] = NULL /\ m # n /\ t.parent[m] # NULL
      <4>1. f[<<t.parent[m], FALSE>>] = g[<<t.parent[m], FALSE>>]
        BY <1>3, <1>6, <1>7, <1>9, <2>3, <3>3
      <4>2. \A h : Value(h, y) =
              Tag("close", t.parent[m]) \o (IF t.parent[m] = n THEN <<>> ELSE h[<<t.parent[m], FALSE>>])
        BY <1>4, <2>3, <3>3
      <4> QED BY <4>1, <4>2
    <3> QED BY <3>1, <3>2, <3>3
  <2> QED BY <2>1, <2>2, <2>3
<1>10. Depends(Places, TagSeqs, B, Dep)
  <2>1. ASSUME NEW f \in [Places -> TagSeqs], NEW y \in Places PROVE Value(f, y) \in TagSeqs
    BY <1>8
  <2>2. \A f \in [Places -> TagSeqs] : \A y \in Places : B[f][y] = Value(f, y)
    BY DEF Places
  <2>3. B \in [[Places -> TagSeqs] -> [Places -> TagSeqs]]
    BY <2>1 DEF Places
  <2>4. ASSUME NEW f \in [Places -> TagSeqs], NEW g \in [Places -> TagSeqs], NEW y \in Places,
               \A x \in Places : <<x, y>> \in Dep => f[x] = g[x]
        PROVE  B[f][y] = B[g][y]
    <3>1. Onto(t, y) \in Places => f[Onto(t, y)] = g[Onto(t, y)]
      BY <1>2, <2>4
    <3>2. Value(f, y) = Value(g, y)
      BY <1>9, <3>1
    <3> HIDE DEF B
    <3> QED BY <2>2, <3>2
  <2> HIDE DEF B
  <2> QED BY <2>3, <2>4 DEF Depends
<1>11. \E f \in [Places -> TagSeqs] : B[f] = f
  <2>1. <<>> \in TagSeqs
    BY TagsJoined
  <2> HIDE DEF B
  <2> QED BY <1>2, <1>10, <2>1, Recursion
<1>12. \E f : f = Body(f)
  <2>1. PICK f \in [Places -> TagSeqs] : B[f] = f
    BY <1>11
  <2>2. B[f] = Body(f)
    <3> HIDE DEF Body
    <3> QED OBVIOUS
  <2> HIDE DEF Body, B
  <2> QED BY <2>1, <2>2
<1>13. w = Body(w)
  <2> HIDE DEF Body
  <2> QED BY <1>12 DEF w
<1>14. \A y \in Places : w[y] = Value(w, y)
  BY <1>13 DEF Places
<1> DEFINE C == {y \in Places : w[y] \in TagSeqs}
<1>15. C = Places
  <2>1. ASSUME NEW y \in Places, \A x \in Places : <<x, y>> \in Dep => x \in C PROVE y \in C
    <3>1. Onto(t, y) \in Places => w[Onto(t, y)] \in TagSeqs
      BY <1>2, <2>1
    <3>2. Value(w, y) \in TagSeqs
      BY <1>8, <3>1
    <3> QED BY <1>14, <3>2
  <2>2. C \in SUBSET Places
    OBVIOUS
  <2> HIDE DEF C
  <2> QED BY <1>2, <2>1, <2>2 DEF WellFounded
<1>16. w \in [Places -> TagSeqs]
  <2>1. \A y \in Places : w[y] \in TagSeqs
    BY <1>15
  <2>2. w = [y \in Places |-> w[y]]
    BY <1>13 DEF Places
  <2> HIDE DEF Body
  <2> QED BY <2>1, <2>2
<1>17. Tagging(t, n, w)
  <2> HIDE DEF Body, C
  <2>1. ASSUME NEW m \in Node
        PROVE  /\ t.child[m] = NULL =>
                    w[<<m, TRUE>>] = Tag("empty", m) \o (IF m = n THEN <<>> ELSE w[<<m, FALSE>>])
               /\ t.child[m] # NULL => w[<<m, TRUE>>] = Tag("open", m) \o w[<<t.child[m], TRUE>>]
               /\ t.next[m] # NULL => w[<<m, FALSE>>] = w[<<t.next[m], TRUE>>]
               /\ t.next[m] = NULL /\ m # n /\ t.parent[m] # NULL =>
                    w[<<m, FALSE>>] =
                      Tag("close", t.parent[m]) \o (IF t.parent[m] = n THEN <<>> ELSE w[<<t.parent[m], FALSE>>])
    <3>1. w[<<m, TRUE>>] = Value(w, <<m, TRUE>>) /\ w[<<m, FALSE>>] = Value(w, <<m, FALSE>>)
      BY <1>6, <1>14
    <3> QED BY <1>4, <3>1, Zenon
  <2> QED BY <1>16, <2>1, Zenon DEF Tagging
<1> HIDE DEF Body
<1> QED BY <1>1, <1>17

(* The tags of a node, as they should be.                                   *)
LEMMA NestedIs ==
  ASSUME NEW top, NEW rank, LaidOut(links, Kids, top, rank), NEW n \in Node
  PROVE  /\ Nested(n) \in TagSeqs
         /\ Len(Kids[n]) = 0 => Nested(n) = Tag("empty", n)
         /\ Len(Kids[n]) # 0 =>
              \E ss \in Seq(TagSeqs) :
                /\ Len(ss) = Len(Kids[n]) /\ \A q \in 1..Len(Kids[n]) : ss[q] = Nested(Kids[n][q])
                /\ Nested(n) = (Tag("open", n) \o FlattenSeq(ss)) \o Tag("close", n)
<1> DEFINE parts(f, m) == [i \in DOMAIN Kids[m] |-> f[Kids[m][i]]]
           Value(f, m) == IF Kids[m] = <<>> THEN <<<<"empty", m>>>>
                          ELSE <<<<"open", m>>>> \o FlattenSeq(parts(f, m)) \o <<<<"close", m>>>>
           Body(f) == [m \in Node |-> Value(f, m)]
           w == CHOOSE f : f = Body(f)
           B == [f \in [Node -> TagSeqs] |-> Body(f)]
<1>1. ASSUME NEW m \in Node PROVE Nested(m) = w[m]
  BY DEF Nested
<1> HIDE DEF w
<1>2. /\ top \in Nat /\ rank \in [Node -> 0..top] /\ Kids \in [Node -> Seq(Node)]
      /\ \A p \in Node : \A i \in 1..Len(Kids[p]) : rank[p] < rank[Kids[p][i]]
  BY DEF LaidOut
<1>3. PICK Dep : /\ WellFounded(Node, Dep)
                 /\ \A x, m \in Node : <<x, m>> \in Dep <=> rank[m] < rank[x]
  BY <1>2, DepthWellFounded
<1>4. \A m \in Node : /\ Len(Kids[m]) \in Nat /\ DOMAIN Kids[m] = 1..Len(Kids[m])
                      /\ \A i \in 1..Len(Kids[m]) : Kids[m][i] \in Node
  BY <1>2
<1>5. ASSUME NEW m \in Node PROVE Kids[m] = <<>> <=> Len(Kids[m]) = 0
  <2>1. Kids[m] \in Seq(Node)
    BY <1>2
  <2>2. Kids[m] # <<>> => Len(Kids[m]) \in Nat \ {0}
    BY <2>1, EmptySeq, Zenon
  <2> QED BY <2>2
<1>6. ASSUME NEW f, NEW m \in Node, \A i \in 1..Len(Kids[m]) : f[Kids[m][i]] \in TagSeqs
      PROVE  parts(f, m) \in Seq(TagSeqs) /\ Len(parts(f, m)) = Len(Kids[m])
             /\ \A i \in 1..Len(Kids[m]) : parts(f, m)[i] = f[Kids[m][i]]
  BY <1>4, <1>6
<1>7. ASSUME NEW f, NEW m \in Node
      PROVE  /\ Len(Kids[m]) = 0 => Value(f, m) = Tag("empty", m)
             /\ Len(Kids[m]) # 0 =>
                  Value(f, m) = (Tag("open", m) \o FlattenSeq(parts(f, m))) \o Tag("close", m)
  <2> HIDE DEF parts
  <2> QED BY <1>5 DEF Tag
<1> HIDE DEF Value
<1>8. ASSUME NEW f, NEW m \in Node, \A i \in 1..Len(Kids[m]) : f[Kids[m][i]] \in TagSeqs
      PROVE  Value(f, m) \in TagSeqs
  <2>1. CASE Len(Kids[m]) = 0
    BY <1>7, <2>1, TagIs
  <2>2. CASE Len(Kids[m]) # 0
    <3>1. PICK ss : ss = parts(f, m)
      OBVIOUS
    <3>2. ss \in Seq(TagSeqs)
      BY <1>6, <1>8, <3>1
    <3>3. FlattenSeq(ss) \in TagSeqs
      BY <3>2, FlattenInSeq DEF TagSeqs
    <3>4. Value(f, m) = (Tag("open", m) \o FlattenSeq(ss)) \o Tag("close", m)
      BY <1>7, <2>2, <3>1
    <3>5. Tag("open", m) \in TagSeqs /\ Tag("close", m) \in TagSeqs
      BY TagIs
    <3>6. Tag("open", m) \o FlattenSeq(ss) \in TagSeqs
      BY <3>3, <3>5, TagsJoined
    <3> QED BY <3>4, <3>5, <3>6, TagsJoined
  <2> QED BY <2>1, <2>2
<1>9. ASSUME NEW f, NEW g, NEW m \in Node, \A i \in 1..Len(Kids[m]) : f[Kids[m][i]] = g[Kids[m][i]]
      PROVE  Value(f, m) = Value(g, m)
  <2>1. parts(f, m) = parts(g, m)
    BY <1>4, <1>9
  <2> HIDE DEF parts
  <2> QED BY <2>1 DEF Value
<1> HIDE DEF parts
<1>10. Depends(Node, TagSeqs, B, Dep)
  <2>1. ASSUME NEW f \in [Node -> TagSeqs], NEW m \in Node PROVE Value(f, m) \in TagSeqs
    BY <1>4, <1>8
  <2>2. B \in [[Node -> TagSeqs] -> [Node -> TagSeqs]]
    BY <2>1
  <2>3. ASSUME NEW f \in [Node -> TagSeqs], NEW g \in [Node -> TagSeqs], NEW m \in Node,
               \A x \in Node : <<x, m>> \in Dep => f[x] = g[x]
        PROVE  B[f][m] = B[g][m]
    <3>1. \A i \in 1..Len(Kids[m]) : f[Kids[m][i]] = g[Kids[m][i]]
      BY <1>2, <1>3, <1>4, <2>3
    <3>2. Value(f, m) = Value(g, m)
      BY <1>9, <3>1
    <3> QED BY <3>2
  <2> HIDE DEF B
  <2> QED BY <2>2, <2>3 DEF Depends
<1>11. \E f \in [Node -> TagSeqs] : B[f] = f
  <2>1. <<>> \in TagSeqs
    BY TagsJoined
  <2> HIDE DEF B
  <2> QED BY <1>3, <1>10, <2>1, Recursion
<1>12. \E f : f = Body(f)
  <2>1. PICK f \in [Node -> TagSeqs] : B[f] = f
    BY <1>11
  <2>2. B[f] = Body(f)
    <3> HIDE DEF Body
    <3> QED OBVIOUS
  <2> HIDE DEF Body, B
  <2> QED BY <2>1, <2>2
<1>13. w = Body(w)
  <2> HIDE DEF Body
  <2> QED BY <1>12 DEF w
<1>14. \A m \in Node : w[m] = Value(w, m)
  BY <1>13
<1> DEFINE C == {m \in Node : w[m] \in TagSeqs}
<1>15. C = Node
  <2>1. ASSUME NEW m \in Node, \A x \in Node : <<x, m>> \in Dep => x \in C PROVE m \in C
    <3>1. \A i \in 1..Len(Kids[m]) : w[Kids[m][i]] \in TagSeqs
      BY <1>2, <1>3, <1>4, <2>1
    <3>2. Value(w, m) \in TagSeqs
      BY <1>8, <3>1
    <3> QED BY <1>14, <3>2
  <2>2. C \in SUBSET Node
    OBVIOUS
  <2> HIDE DEF C
  <2> QED BY <1>3, <2>1, <2>2 DEF WellFounded
<1>16. \A m \in Node : w[m] \in TagSeqs
  BY <1>15
<1> HIDE DEF C, Body, B
<1>17. ASSUME Len(Kids[n]) # 0
       PROVE  \E ss \in Seq(TagSeqs) :
                /\ Len(ss) = Len(Kids[n]) /\ \A q \in 1..Len(Kids[n]) : ss[q] = Nested(Kids[n][q])
                /\ Nested(n) = (Tag("open", n) \o FlattenSeq(ss)) \o Tag("close", n)
  <2>1. PICK ss : ss = parts(w, n)
    OBVIOUS
  <2>2. \A i \in 1..Len(Kids[n]) : w[Kids[n][i]] \in TagSeqs
    BY <1>4, <1>16
  <2>3. /\ ss \in Seq(TagSeqs) /\ Len(ss) = Len(Kids[n])
        /\ \A i \in 1..Len(Kids[n]) : ss[i] = w[Kids[n][i]]
    BY <1>6, <2>1, <2>2
  <2>4. \A i \in 1..Len(Kids[n]) : ss[i] = Nested(Kids[n][i])
    BY <1>1, <1>4, <2>3
  <2>5. Nested(n) = (Tag("open", n) \o FlattenSeq(ss)) \o Tag("close", n)
    BY <1>1, <1>7, <1>14, <1>17, <2>1
  <2> QED BY <2>3, <2>4, <2>5
<1>18. Len(Kids[n]) = 0 => Nested(n) = Tag("empty", n)
  BY <1>1, <1>7, <1>14
<1> QED BY <1>1, <1>16, <1>17, <1>18

(* What is written from m on is m with all below it, and then, unless it is *)
(* what is saved, what is written from behind m on.                         *)
Enclosed(n, m, w) ==
  w[<<m, TRUE>>] = Nested(m) \o IF m = n THEN <<>> ELSE w[<<m, FALSE>>]

(* The loop along a list of children, all of which it encloses.             *)
LEMMA AlongList ==
  ASSUME NEW ss \in Seq(TagSeqs), Len(ss) # 0, NEW u, NEW v,
         \A q \in 1..Len(ss) : u[q] \in TagSeqs /\ v[q] \in TagSeqs /\ u[q] = ss[q] \o v[q],
         \A q \in 1..(Len(ss) - 1) : v[q] = u[q + 1]
  PROVE  u[1] = FlattenSeq(ss) \o v[Len(ss)]
<1> DEFINE S == {"empty", "open", "close"} \X Node
<1>1. TagSeqs = Seq(S)
  BY DEF TagSeqs
<1> HIDE DEF S
<1>2. PICK f : Flattening(ss, f) /\ FlattenSeq(ss) = f[Len(ss)]
  BY <1>1, FlattenIs
<1>3. /\ Len(ss) \in Nat /\ Len(ss) \in 1..Len(ss) /\ 1 \in 1..Len(ss)
      /\ \A q \in 1..Len(ss) : ss[q] \in TagSeqs
  OBVIOUS
<1>4. \A q \in 1..Len(ss) : f[q] \in TagSeqs
  BY <1>1, <1>2, FlatteningInSeq
<1>5. /\ f[1] = ss[1]
      /\ \A i \in 1..Len(ss) : i # 1 => f[i] = f[i - 1] \o ss[i]
  BY <1>2, <1>3, FlatteningIs
<1> DEFINE R(j) == j + 1 \in 1..Len(ss) => u[1] = f[j + 1] \o v[j + 1]
           T == {j \in Nat : R(j)}
<1>6. 0 \in T
  <2>1. u[1] = f[1] \o v[1]
    BY <1>3, <1>5
  <2>2. R(0)
    BY <2>1
  <2> HIDE DEF R
  <2> QED BY <2>2
<1>7. ASSUME NEW j \in Nat, j \in T PROVE j + 1 \in T
  <2> SUFFICES R(j + 1)
    <3> HIDE DEF R
    <3> QED OBVIOUS
  <2> SUFFICES ASSUME (j + 1) + 1 \in 1..Len(ss) PROVE u[1] = f[(j + 1) + 1] \o v[(j + 1) + 1]
    OBVIOUS
  <2>1. PICK q : q = j + 1
    OBVIOUS
  <2>2. q \in 1..Len(ss) /\ q + 1 \in 1..Len(ss) /\ q \in 1..(Len(ss) - 1) /\ q + 1 # 1 /\ (q + 1) - 1 = q
    BY <1>3, <2>1
  <2>3. u[1] = f[q] \o v[q]
    BY <1>7, <2>1, <2>2
  <2>4. v[q] = ss[q + 1] \o v[q + 1]
    BY <2>2
  <2>5. f[q + 1] = f[q] \o ss[q + 1]
    BY <1>5, <2>2
  <2>6. f[q] \in TagSeqs /\ ss[q + 1] \in TagSeqs /\ v[q + 1] \in TagSeqs
    BY <1>3, <1>4, <2>2
  <2>7. (f[q] \o ss[q + 1]) \o v[q + 1] = f[q] \o (ss[q + 1] \o v[q + 1])
    BY ONLY <2>6, TagsAssociate
  <2>8. u[1] = f[q + 1] \o v[q + 1]
    BY <2>3, <2>4, <2>5, <2>7
  <2> QED BY <2>1, <2>8
<1>8. Nat \subseteq T
  <2> HIDE DEF T
  <2> QED BY <1>6, <1>7, Induction
<1>9. PICK z : z = Len(ss)
  OBVIOUS
<1>10. z - 1 \in Nat /\ (z - 1) + 1 = z /\ z \in 1..Len(ss)
  BY <1>3, <1>9
<1>11. R(z - 1)
  <2> HIDE DEF R
  <2> QED BY <1>8, <1>10
<1>12. u[1] = f[z] \o v[z]
  BY <1>10, <1>11
<1> QED BY <1>2, <1>9, <1>12

(* The loop encloses a node all of whose children it encloses.              *)
LEMMA EnclosedInner ==
  ASSUME NEW top, NEW rank, LaidOut(links, Kids, top, rank), NEW n \in Node, NEW m \in Node,
         rank[n] <= rank[m], Len(Kids[m]) # 0,
         NEW w, Tagging(links, n, w),
         \A q \in 1..Len(Kids[m]) : Enclosed(n, Kids[m][q], w)
  PROVE  Enclosed(n, m, w)
<1>1. PICK L : L = Kids[m]
  OBVIOUS
<1>2. LaidList(links, rank, m, L)
  BY <1>1, ListLaidOut
<1>3. /\ L \in Seq(Node) /\ Len(L) \in Nat \ {0} /\ links.child[m] = L[1]
      /\ \A x \in Node : rank[x] \in Nat
  <2>1. L \in Seq(Node) /\ links.child[m] = HeadOf(L) /\ \A x \in Node : rank[x] \in Nat
    BY <1>2 DEF LaidList
  <2>2. Len(L) \in Nat \ {0}
    BY <1>1, <2>1
  <2> QED BY <2>1, <2>2 DEF HeadOf
<1>4. \A q \in 1..Len(L) :
        /\ L[q] \in Node /\ links.parent[L[q]] = m /\ rank[m] < rank[L[q]]
        /\ links.next[L[q]] = IF q = Len(L) THEN NULL ELSE L[q + 1]
  BY <1>2 DEF LaidList
<1>5. \A q \in 1..Len(L) : L[q] # n
  BY <1>3, <1>4
<1>6. 1 \in 1..Len(L) /\ Len(L) \in 1..Len(L)
  BY <1>3
<1>7. PICK ss \in Seq(TagSeqs) :
        /\ Len(ss) = Len(L) /\ \A q \in 1..Len(L) : ss[q] = Nested(L[q])
        /\ Nested(m) = (Tag("open", m) \o FlattenSeq(ss)) \o Tag("close", m)
  BY <1>1, NestedIs
<1>8. PICK u : u = [q \in 1..Len(L) |-> w[<<L[q], TRUE>>]]
  OBVIOUS
<1>9. PICK v : v = [q \in 1..Len(L) |-> w[<<L[q], FALSE>>]]
  OBVIOUS
<1>10. \A x \in Node : w[<<x, TRUE>>] \in TagSeqs /\ w[<<x, FALSE>>] \in TagSeqs
  <2>1. w \in [Places -> TagSeqs]
    BY DEF Tagging
  <2>2. \A x \in Node : <<x, TRUE>> \in Places /\ <<x, FALSE>> \in Places
    BY DEF Places
  <2> QED BY <2>1, <2>2
<1>11. \A q \in 1..Len(L) : u[q] = w[<<L[q], TRUE>>] /\ v[q] = w[<<L[q], FALSE>>]
  BY <1>8, <1>9
<1>12. ASSUME NEW q \in 1..Len(ss)
       PROVE  u[q] \in TagSeqs /\ v[q] \in TagSeqs /\ u[q] = ss[q] \o v[q]
  <2>1. PICK x \in Node : x = L[q] /\ x # n /\ q \in 1..Len(L)
    BY <1>4, <1>5, <1>7
  <2>2. w[<<x, TRUE>>] = Nested(x) \o w[<<x, FALSE>>]
    BY <1>1, <2>1 DEF Enclosed
  <2>3. u[q] = w[<<x, TRUE>>] /\ v[q] = w[<<x, FALSE>>] /\ ss[q] = Nested(x)
    BY <1>7, <1>11, <2>1
  <2> QED BY <1>10, <2>2, <2>3
<1>13. ASSUME NEW q \in 1..(Len(ss) - 1) PROVE v[q] = u[q + 1]
  <2>1. q \in 1..Len(L) /\ q + 1 \in 1..Len(L) /\ q # Len(L)
    BY <1>3, <1>7
  <2>2. PICK x \in Node, y \in Node : x = L[q] /\ y = L[q + 1]
    BY <1>4, <2>1
  <2>3. links.next[x] = y /\ y # NULL
    BY <1>4, <2>1, <2>2, NullAssumption
  <2>4. w[<<x, FALSE>>] = w[<<y, TRUE>>]
    BY <2>3 DEF Tagging
  <2> QED BY <1>11, <2>1, <2>2, <2>4
<1>14. u[1] = FlattenSeq(ss) \o v[Len(ss)]
  <2>1. Len(ss) # 0
    BY <1>3, <1>7
  <2> QED BY <1>12, <1>13, <2>1, AlongList
<1>15. PICK X : X = IF m = n THEN <<>> ELSE w[<<m, FALSE>>]
  OBVIOUS
<1>16. v[Len(ss)] = Tag("close", m) \o X
  <2>1. PICK x \in Node : x = L[Len(L)]
    BY <1>4, <1>6
  <2>2. links.next[x] = NULL /\ x # n /\ links.parent[x] = m /\ m # NULL
    BY <1>4, <1>5, <1>6, <2>1, NullAssumption
  <2>3. w[<<x, FALSE>>] = Tag("close", links.parent[x]) \o
          (IF links.parent[x] = n THEN <<>> ELSE w[<<links.parent[x], FALSE>>])
    BY <2>2 DEF Tagging
  <2>4. v[Len(ss)] = w[<<x, FALSE>>]
    BY <1>6, <1>7, <1>11, <2>1
  <2> QED BY <1>15, <2>2, <2>3, <2>4
<1>17. w[<<m, TRUE>>] = Tag("open", m) \o u[1]
  <2>1. links.child[m] = L[1] /\ L[1] # NULL
    BY <1>3, <1>4, <1>6, NullAssumption
  <2>2. w[<<m, TRUE>>] = Tag("open", m) \o w[<<links.child[m], TRUE>>]
    BY <2>1 DEF Tagging
  <2> QED BY <1>6, <1>11, <2>1, <2>2
<1>18. PICK F, a, c : F = FlattenSeq(ss) /\ a = Tag("open", m) /\ c = Tag("close", m)
  OBVIOUS
<1>19. F \in TagSeqs /\ a \in TagSeqs /\ c \in TagSeqs /\ X \in TagSeqs
  <2>1. F \in TagSeqs
    BY <1>18, FlattenInSeq DEF TagSeqs
  <2>2. a \in TagSeqs /\ c \in TagSeqs
    BY <1>18, TagIs
  <2>3. X \in TagSeqs
    BY <1>10, <1>15, TagsJoined
  <2> QED BY <2>1, <2>2, <2>3
<1>20. w[<<m, TRUE>>] = a \o (F \o (c \o X))
  BY <1>14, <1>16, <1>17, <1>18
<1>21. a \o (F \o (c \o X)) = ((a \o F) \o c) \o X
  <2>1. Joined(a, Joined(F, Joined(c, X))) = Joined(Joined(Joined(a, F), c), X)
    BY <1>19, TagsRegrouped
  <2> QED BY <2>1 DEF Joined
<1>22. Nested(m) = (a \o F) \o c
  BY <1>7, <1>18
<1> QED BY <1>15, <1>20, <1>21, <1>22 DEF Enclosed

(* The loop encloses every node, by induction from the deepest up.          *)
LEMMA EnclosedAll ==
  ASSUME NEW top, NEW rank, LaidOut(links, Kids, top, rank), NEW n \in Node,
         NEW w, Tagging(links, n, w)
  PROVE  \A m \in Node : rank[n] <= rank[m] => Enclosed(n, m, w)
<1>1. /\ top \in Nat /\ rank \in [Node -> 0..top] /\ Kids \in [Node -> Seq(Node)]
      /\ \A p \in Node : \A i \in 1..Len(Kids[p]) : rank[p] < rank[Kids[p][i]]
      /\ \A p \in Node : links.child[p] = HeadOf(Kids[p])
  BY DEF LaidOut
<1>2. PICK Dep : /\ WellFounded(Node, Dep)
                 /\ \A x, m \in Node : <<x, m>> \in Dep <=> rank[m] < rank[x]
  BY <1>1, DepthWellFounded
<1> DEFINE C == {m \in Node : rank[n] <= rank[m] => Enclosed(n, m, w)}
<1>3. ASSUME NEW m \in Node, \A x \in Node : <<x, m>> \in Dep => x \in C PROVE m \in C
  <2> SUFFICES ASSUME rank[n] <= rank[m] PROVE Enclosed(n, m, w)
    OBVIOUS
  <2>1. CASE Len(Kids[m]) = 0
    <3>1. links.child[m] = NULL
      BY <1>1, <2>1 DEF HeadOf
    <3>2. w[<<m, TRUE>>] = Tag("empty", m) \o (IF m = n THEN <<>> ELSE w[<<m, FALSE>>])
      BY <3>1 DEF Tagging
    <3>3. Nested(m) = Tag("empty", m)
      BY <2>1, NestedIs
    <3> QED BY <3>2, <3>3 DEF Enclosed
  <2>2. CASE Len(Kids[m]) # 0
    <3>1. ASSUME NEW i \in 1..Len(Kids[m]) PROVE Enclosed(n, Kids[m][i], w)
      <4>1. PICK x \in Node : x = Kids[m][i]
        BY <1>1
      <4>2. rank[m] < rank[x]
        BY <1>1, <4>1
      <4>3. rank[x] \in Nat /\ rank[m] \in Nat /\ rank[n] \in Nat
        BY <1>1
      <4>4. x \in C
        <5> HIDE DEF C
        <5> QED BY <1>2, <1>3, <4>2
      <4>5. rank[n] <= rank[x]
        BY <4>2, <4>3
      <4> QED BY <4>1, <4>4, <4>5
    <3> HIDE DEF C
    <3> QED BY <2>2, <3>1, EnclosedInner
  <2> QED BY <2>1, <2>2
<1>4. C = Node
  <2>1. C \in SUBSET Node
    OBVIOUS
  <2> HIDE DEF C
  <2> QED BY <1>2, <1>3, <2>1 DEF WellFounded
<1> QED BY <1>4

(* What is written for n is its tags, nested.                               *)
LEMMA WritesNested ==
  ASSUME ForestInv
  PROVE  WrittenIsNested
<1> SUFFICES ASSUME Idle, NEW n \in live PROVE Written(links, n) = Nested(n)
  BY DEF WrittenIsNested
<1>1. PICK top, rank : LaidOut(links, Kids, top, rank)
  BY IdleLaidOut
<1>2. n \in Node
  BY IdleLaidOut
<1>3. PICK w : Tagging(links, n, w) /\ Written(links, n) = w[<<n, TRUE>>]
  BY <1>1, <1>2, WrittenIs
<1>4. rank[n] <= rank[n]
  <2>1. rank[n] \in Nat
    BY <1>1, <1>2 DEF LaidOut
  <2> QED BY <2>1
<1>5. Enclosed(n, n, w)
  BY <1>1, <1>2, <1>3, <1>4, EnclosedAll
<1>6. Written(links, n) = Nested(n) \o <<>>
  BY <1>3, <1>5 DEF Enclosed
<1>7. Nested(n) \in TagSeqs
  BY <1>1, <1>2, NestedIs
<1> QED BY <1>6, <1>7, TagsEnd

(* A document is walked over, in either direction, and written as it was    *)
(* built, whatever mxmlAdd, mxmlRemove and mxmlDelete were called for       *)
(* before, of any set of nodes.                                             *)
THEOREM DocumentsKept == Spec => []WalkedAndWritten
<1>1. Init => ForestInv
  BY ForestInit
<1>2. ForestInv /\ [Next]_vars => ForestInv'
  BY ForestStep
<1>3. ForestInv => WalkedAndWritten
  BY WalksInOrder, WritesNested DEF WalkedAndWritten
<1> QED BY <1>1, <1>2, <1>3, PTL DEF Spec

-----------------------------------------------------------------------------
(* What pieces of text are, and may be called.                              *)
Kinds == {"chars", "space", "comment", "cdata", "instruction", "declaration", "open", "empty", "close"}
Forms == {"whole", "in_name", "behind_name", "in_rest", "bad"}

Labels == {tree.name : tree \in Trees} \cup {"none", "comment", "?xml", "!DOCTYPE", "![CDATA[", "other"}

Specials == {"?xml", "!DOCTYPE", "![CDATA["}

Pieces == {p \in [kind : Kinds, name : Labels, form : Forms] : p.kind = "close" => p.name \notin Specials}

(* A whole piece, and its members.                                          *)
LEMMA PieceIs ==
  ASSUME NEW kind \in Kinds, NEW label \in Labels, kind = "close" => label \notin Specials,
         NEW p, p = Piece(kind, label)
  PROVE  /\ p \in Pieces
         /\ p.kind = kind /\ p.name = label /\ p.form = "whole"
BY DEF Piece, Pieces, Forms

(* A tree depends on its children; there is an end to that.                 *)
LEMMA TreesWellFounded ==
  \E Dep : /\ WellFounded(Trees, Dep)
           /\ \A x, m \in Trees : <<x, m>> \in Dep <=> \E i \in DOMAIN m.children : m.children[i] = x
<1> DEFINE Dep == {p \in Trees \X Trees : \E i \in DOMAIN p[2].children : p[2].children[i] = p[1]}
<1>1. \A x, m \in Trees : <<x, m>> \in Dep <=> \E i \in DOMAIN m.children : m.children[i] = x
  OBVIOUS
<1> HIDE DEF Dep
<1>2. ASSUME NEW C \in SUBSET Trees,
             \A m \in Trees : (\A x \in Trees : <<x, m>> \in Dep => x \in C) => m \in C
      PROVE  C = Trees
  <2> SUFFICES ASSUME Trees \ C # {} PROVE FALSE
    OBVIOUS
  <2>1. PICK m \in Trees \ C : \A i \in DOMAIN m.children : m.children[i] \notin Trees \ C
    BY TreesAssumption
  <2>2. \A x \in Trees : <<x, m>> \in Dep => x \in C
    BY <1>1, <2>1
  <2> QED BY <1>2, <2>1, <2>2
<1> QED BY <1>1, <1>2 DEF WellFounded

(* What the recursive function of Tags computes.                            *)
TagsOf(tree, gap) ==
  CASE tree.name = "#text" -> <<Piece("chars", "none")>>
    [] tree.name = "comment" -> <<Comment>> \o gap
    [] tree.name \notin {"#text", "comment"} /\ tree.children = <<>> ->
         <<Piece("empty", tree.name)>> \o gap
    [] OTHER ->
         <<Piece("open", tree.name)>>
           \o (IF tree.children[1].name = "#text" THEN <<>> ELSE gap)
           \o FlattenSeq([i \in DOMAIN tree.children |-> Tags(tree.children[i], gap)])
           \o <<Piece("close", tree.name)>> \o gap

(* The tags of a tree are pieces, and made of those of its children.        *)
LEMMA TagsIs ==
  ASSUME NEW gap \in Seq(Pieces), NEW tree \in Trees
  PROVE  /\ Tags(tree, gap) \in Seq(Pieces)
         /\ Tags(tree, gap) = TagsOf(tree, gap)
<1> DEFINE V == Seq(Pieces)
           parts(f, m) == [i \in DOMAIN m.children |-> f[m.children[i]]]
           Of(f, m) ==
             CASE m.name = "#text" -> <<Piece("chars", "none")>>
               [] m.name = "comment" -> <<Comment>> \o gap
               [] m.name \notin {"#text", "comment"} /\ m.children = <<>> ->
                    <<Piece("empty", m.name)>> \o gap
               [] OTHER ->
                    <<Piece("open", m.name)>>
                      \o (IF m.children[1].name = "#text" THEN <<>> ELSE gap)
                      \o FlattenSeq(parts(f, m))
                      \o <<Piece("close", m.name)>> \o gap
           Body(f) == [m \in Trees |-> Of(f, m)]
           tags == CHOOSE f : f = Body(f)
           B == [f \in [Trees -> V] |-> Body(f)]
<1>1. \A m \in Trees : /\ m.name \notin {"?xml", "!DOCTYPE", "![CDATA["} /\ m.children \in Seq(Trees)
                       /\ Len(m.children) \in Nat /\ DOMAIN m.children = 1..Len(m.children)
                       /\ \A i \in DOMAIN m.children : m.children[i] \in Trees
  BY TreesAssumption DEF Declaration, DocumentType, Data, Piece
<1>2. PICK Dep : /\ WellFounded(Trees, Dep)
                 /\ \A x, m \in Trees : <<x, m>> \in Dep <=> \E i \in DOMAIN m.children : m.children[i] = x
  BY TreesWellFounded
<1>3. \A a, b \in V : a \o b \in V
  BY ConcatProperties
<1>4. ASSUME NEW f, NEW m \in Trees, \A i \in DOMAIN m.children : f[m.children[i]] \in V
      PROVE  Of(f, m) \in V
  <2>1. parts(f, m) \in Seq(V)
    <3> HIDE DEF V
    <3> QED BY <1>1, <1>4
  <2>2. FlattenSeq(parts(f, m)) \in V
    <3> HIDE DEF parts
    <3> QED BY <2>1, FlattenInSeq
  <2>3. /\ \A kind \in Kinds, label \in Labels :
             (kind = "close" => label \notin Specials) => <<Piece(kind, label)>> \in V
        /\ <<>> \in V /\ gap \in V
    BY PieceIs
  <2>4. /\ <<Piece("chars", "none")>> \in V /\ <<Comment>> \in V
        /\ <<Piece("empty", m.name)>> \in V /\ <<Piece("open", m.name)>> \in V
        /\ <<Piece("close", m.name)>> \in V
    <3>1. "chars" \in Kinds /\ "comment" \in Kinds /\ "empty" \in Kinds /\ "open" \in Kinds /\ "close" \in Kinds
      BY DEF Kinds
    <3>2. "none" \in Labels /\ "comment" \in Labels /\ m.name \in Labels
      BY DEF Labels
    <3>3. m.name \notin Specials
      BY <1>1 DEF Specials
    <3> HIDE DEF V
    <3> QED BY <2>3, <3>1, <3>2, <3>3 DEF Comment
  <2> HIDE DEF V, parts
  <2>6. (IF m.children[1].name = "#text" THEN <<>> ELSE gap) \in V
    BY <2>3
  <2>7. <<Piece("empty", m.name)>> \o gap \in V /\ <<Comment>> \o gap \in V
    BY <1>3, <2>3, <2>4
  <2>8. <<Piece("open", m.name)>> \o (IF m.children[1].name = "#text" THEN <<>> ELSE gap)
          \o FlattenSeq(parts(f, m)) \o <<Piece("close", m.name)>> \o gap \in V
    BY <1>3, <2>2, <2>3, <2>4, <2>6
  <2> QED BY <2>4, <2>7, <2>8
<1>5. B \in [[Trees -> V] -> [Trees -> V]]
  <2>1. ASSUME NEW f \in [Trees -> V], NEW m \in Trees PROVE Of(f, m) \in V
    <3>1. \A i \in DOMAIN m.children : f[m.children[i]] \in V
      <4> HIDE DEF V
      <4> QED BY <1>1
    <3> HIDE DEF Of, V
    <3> QED BY <1>4, <3>1
  <2> HIDE DEF V, Of
  <2> QED BY <2>1
<1>6. ASSUME NEW f \in [Trees -> V], NEW g \in [Trees -> V], NEW m \in Trees,
             \A x \in Trees : <<x, m>> \in Dep => f[x] = g[x]
      PROVE  B[f][m] = B[g][m]
  <2> HIDE DEF V
  <2>1. \A i \in DOMAIN m.children : f[m.children[i]] = g[m.children[i]]
    BY <1>1, <1>2, <1>6
  <2>2. parts(f, m) = parts(g, m)
    BY <2>1
  <2>3. Of(f, m) = Of(g, m)
    <3> HIDE DEF parts
    <3> QED BY <2>2
  <2> HIDE DEF Of
  <2> QED BY <2>3
<1>7. \E f \in [Trees -> V] : B[f] = f
  <2>1. <<>> \in V
    OBVIOUS
  <2>2. Depends(Trees, V, B, Dep)
    <3> HIDE DEF B, V
    <3> QED BY <1>5, <1>6 DEF Depends
  <2> HIDE DEF B, V
  <2> QED BY <1>2, <2>1, <2>2, Recursion
<1>8. \E f : f = Body(f)
  <2> HIDE DEF V, Of
  <2> QED BY <1>7
<1>9. tags = Body(tags)
  <2> HIDE DEF Body
  <2> QED BY <1>8
<1>10. PICK s : s = tags
  OBVIOUS
<1>11. \A m \in Trees : Tags(m, gap) = s[m]
  <2>1. ASSUME NEW m \in Trees PROVE Tags(m, gap) = tags[m]
    BY DEF Tags
  <2> HIDE DEF tags
  <2> QED BY <1>10, <2>1
<1>12. s = Body(s)
  <2> HIDE DEF Body, tags
  <2> QED BY <1>9, <1>10
<1> HIDE DEF tags
<1>13. \A m \in Trees : s[m] = Of(s, m)
  <2> HIDE DEF Of
  <2> QED BY <1>12
<1> DEFINE C == {m \in Trees : s[m] \in V}
<1>14. ASSUME NEW m \in Trees, \A x \in Trees : <<x, m>> \in Dep => x \in C PROVE m \in C
  <2>1. \A i \in DOMAIN m.children : s[m.children[i]] \in V
    BY <1>1, <1>2, <1>14
  <2> HIDE DEF Of, V
  <2> QED BY <1>4, <1>13, <2>1
<1>15. C = Trees
  <2>1. C \in SUBSET Trees
    OBVIOUS
  <2> HIDE DEF C
  <2> QED BY <1>2, <1>14, <2>1 DEF WellFounded
<1>16. s[tree] \in V
  BY <1>15
<1>17. parts(s, tree) = [i \in DOMAIN tree.children |-> Tags(tree.children[i], gap)]
  BY <1>1, <1>11
<1>18. Of(s, tree) = TagsOf(tree, gap)
  <2> HIDE DEF parts
  <2> QED BY <1>17 DEF TagsOf
<1> HIDE DEF Of
<1> QED BY <1>11, <1>13, <1>16, <1>18

(* What the proofs need to know of a text, harmed or not.                   *)
TextIs(t) ==
  /\ t \in Seq(Pieces)
  /\ Declared /\ Len(t) > 0 => t[1].kind \in {"instruction", "declaration"} /\ t[1].name \in Specials
  /\ \A i \in 1..Len(t) :
       t[i].kind \in {"open", "empty"} /\ (\A j \in 1..(i - 1) : t[j].kind \in {"chars", "space"}) =>
         t[i].name = "FDSNStationXML"

(* What may stand beside the root.                                          *)
LEMMA BesideIs ==
  \A p \in Beside : /\ p \in Pieces /\ p.kind \in {"space", "comment", "cdata", "instruction", "declaration"}
                    /\ p.kind \in {"instruction", "declaration"} => p.name \in Specials
                    /\ p.form = "whole"
<1>1. /\ "none" \in Labels /\ "comment" \in Labels /\ "?xml" \in Labels
      /\ "!DOCTYPE" \in Labels /\ "![CDATA[" \in Labels
  BY DEF Labels
<1>2. /\ Space \in Pieces /\ Comment \in Pieces /\ Declaration \in Pieces
      /\ DocumentType \in Pieces /\ Data \in Pieces
  BY <1>1, PieceIs DEF Kinds, Space, Comment, Declaration, DocumentType, Data
<1> QED BY <1>2 DEF Beside, Space, Comment, Declaration, DocumentType, Data, Piece, Specials

(* A document as it is written: a declaration can only come first, and no  *)
(* tag before that of the root.                                             *)
LEMMA WholeTextIs ==
  ASSUME source \in Documents
  PROVE  TextIs(Text(source))
<1>1. /\ source.before \in Seq(Beside) /\ source.after \in Seq(Beside)
      /\ Root(source) \in Trees /\ Root(source).name = "FDSNStationXML"
  BY DocumentsAssumption DEF Root, Element
<1>2. PICK before, after \in Seq(Pieces) : before = source.before /\ after = source.after
  BY <1>1, BesideIs
<1>3. PICK gap : gap = IF source.spaced THEN <<Space>> ELSE <<>>
  OBVIOUS
<1>4. gap \in Seq(Pieces)
  <2>1. Space \in Pieces
    BY BesideIs DEF Beside
  <2> QED BY <1>3, <2>1
<1>5. PICK tags : tags = Tags(Root(source), gap)
  OBVIOUS
<1>6. tags \in Seq(Pieces)
  BY <1>1, <1>4, <1>5, TagsIs
<1>7. Len(tags) > 0 /\ tags[1].kind \in {"open", "empty"} /\ tags[1].name = "FDSNStationXML"
  <2>1. tags = TagsOf(Root(source), gap)
    BY <1>1, <1>4, <1>5, TagsIs
  <2>2. ASSUME NEW p, NEW rest, p \in Pieces, rest \in Seq(Pieces), tags = <<p>> \o rest
        PROVE  Len(tags) > 0 /\ tags[1] = p
    <3>1. <<p>> \in Seq(Pieces) /\ Len(<<p>>) = 1 /\ <<p>>[1] = p
      BY <2>2
    <3> QED BY <2>2, <3>1, ConcatParts
  <2>3. CASE Root(source).children = <<>>
    <3>1. tags = <<Piece("empty", "FDSNStationXML")>> \o gap
      BY <1>1, <2>1, <2>3 DEF TagsOf
    <3>2. Piece("empty", "FDSNStationXML") \in Pieces
      BY <1>1 DEF Piece, Pieces, Kinds, Labels, Forms
    <3> QED BY <1>4, <2>2, <3>1, <3>2 DEF Piece
  <2>4. CASE Root(source).children # <<>>
    <3> DEFINE one == IF Root(source).children[1].name = "#text" THEN <<>> ELSE gap
               two == FlattenSeq([i \in DOMAIN Root(source).children |-> Tags(Root(source).children[i], gap)])
               end == <<Piece("close", "FDSNStationXML")>>
    <3>1. tags = <<Piece("open", "FDSNStationXML")>> \o one \o two \o end \o gap
      BY <1>1, <2>1, <2>4 DEF TagsOf
    <3>2. Piece("open", "FDSNStationXML") \in Pieces /\ Piece("close", "FDSNStationXML") \in Pieces
      BY <1>1 DEF Piece, Pieces, Kinds, Labels, Forms, Specials
    <3>3. one \in Seq(Pieces) /\ end \in Seq(Pieces)
      BY <1>4, <3>2
    <3>4. two \in Seq(Pieces)
      <4>1. Root(source).children \in Seq(Trees)
        BY <1>1, TreesAssumption
      <4>2. [i \in DOMAIN Root(source).children |-> Tags(Root(source).children[i], gap)] \in Seq(Seq(Pieces))
        <5>1. \A i \in DOMAIN Root(source).children : Root(source).children[i] \in Trees
          BY <4>1
        <5>2. \A i \in DOMAIN Root(source).children : Tags(Root(source).children[i], gap) \in Seq(Pieces)
          BY <1>4, <5>1, TagsIs
        <5>3. DOMAIN Root(source).children = 1..Len(Root(source).children) /\ Len(Root(source).children) \in Nat
          BY <4>1
        <5> QED BY <5>2, <5>3
      <4> QED BY <4>2, FlattenInSeq
    <3> HIDE DEF one, two, end
    <3>5. one \o two \o end \o gap \in Seq(Pieces)
      BY <1>4, <3>3, <3>4
    <3>6. tags = <<Piece("open", "FDSNStationXML")>> \o (one \o two \o end \o gap)
      <4> DEFINE opening == <<Piece("open", "FDSNStationXML")>>
      <4>1. opening \in Seq(Pieces)
        <5>1. \A p \in Pieces : <<p>> \in Seq(Pieces)
          OBVIOUS
        <5> QED BY <3>2, <5>1
      <4> HIDE DEF opening
      <4>2. Joined(Joined(Joined(Joined(opening, one), two), end), gap)
            = Joined(opening, Joined(Joined(Joined(one, two), end), gap))
        BY <1>4, <3>3, <3>4, <4>1, RunsRegrouped
      <4>3. tags = ((opening \o one) \o two) \o end \o gap
        BY <3>1 DEF opening
      <4> QED BY <4>2, <4>3 DEF opening, Joined
    <3> QED BY <2>2, <3>2, <3>5, <3>6 DEF Piece
  <2> QED BY <2>3, <2>4
<1>8. PICK t : t = Text(source)
  OBVIOUS
<1>9. t = (before \o tags) \o after
  BY <1>2, <1>3, <1>5, <1>8 DEF Text
<1>10. PICK n \in Nat : n = Len(before)
  BY <1>2
<1>11. /\ t \in Seq(Pieces) /\ Len(t) > n
       /\ \A i \in 1..n : t[i] = before[i]
       /\ t[n + 1] = tags[1]
  <2>1. PICK u : u = before \o tags
    OBVIOUS
  <2>2. /\ u \in Seq(Pieces) /\ Len(u) = n + Len(tags)
        /\ \A i \in 1..n : u[i] = before[i]
        /\ u[n + 1] = tags[1]
    <3>1. 1 \in 1..Len(tags) /\ Len(tags) \in Nat
      BY <1>6, <1>7
    <3> QED BY <1>6, <1>10, <2>1, <3>1, ConcatParts
  <2>3. /\ t \in Seq(Pieces) /\ Len(t) = Len(u) + Len(after) /\ Len(after) \in Nat /\ Len(u) \in Nat
        /\ \A i \in 1..Len(u) : t[i] = u[i]
    <3>1. t = u \o after /\ u \in Seq(Pieces)
      BY <1>9, <2>1, <2>2
    <3> QED BY <3>1, ConcatParts
  <2>4. Len(tags) \in Nat
    BY <1>6
  <2> QED BY <1>7, <1>10, <2>2, <2>3, <2>4
<1>12. Declared => t[1].kind \in {"instruction", "declaration"} /\ t[1].name \in Specials
  <2> SUFFICES ASSUME Declared PROVE t[1].kind \in {"instruction", "declaration"} /\ t[1].name \in Specials
    OBVIOUS
  <2>1. n > 0 /\ before[1].kind \in {"instruction", "declaration"}
    BY <1>1, <1>2, <1>10 DEF Declared
  <2>2. before[1] \in Beside /\ t[1] = before[1]
    BY <1>1, <1>2, <1>10, <1>11, <2>1
  <2> QED BY <2>1, <2>2, BesideIs
<1>13. ASSUME NEW i \in 1..Len(t), t[i].kind \in {"open", "empty"},
              \A j \in 1..(i - 1) : t[j].kind \in {"chars", "space"}
       PROVE  t[i].name = "FDSNStationXML"
  <2>1. ~(i <= n)
    <3> SUFFICES ASSUME i <= n PROVE FALSE
      OBVIOUS
    <3>1. t[i] = before[i] /\ before[i] \in Beside
      BY <1>1, <1>2, <1>10, <1>11
    <3> QED BY <1>13, <3>1, BesideIs
  <2>2. ~(i > n + 1)
    <3> SUFFICES ASSUME i > n + 1 PROVE FALSE
      OBVIOUS
    <3>1. n + 1 \in 1..(i - 1)
      OBVIOUS
    <3>2. t[n + 1].kind \in {"chars", "space"}
      BY <1>13, <3>1
    <3> QED BY <1>7, <1>11, <3>2
  <2>3. i = n + 1
    BY <2>1, <2>2
  <2> QED BY <1>7, <1>11, <2>3
<1>14. TextIs(t)
  BY <1>11, <1>12, <1>13 DEF TextIs
<1> QED BY <1>8, <1>14

(* No harm changes that.                                                    *)
LEMMA HarmedTextIs ==
  ASSUME NEW t, TextIs(t), NEW h \in Harms, CanHarm(t, h)
  PROVE  TextIs(Harmed(t, h))
<1>1. h.at \in Nat /\ h.form \in {"whole", "in_name", "behind_name", "in_rest", "bad", "other"}
  BY HarmsAssumption
<1>2. t \in Seq(Pieces) /\ Len(t) \in Nat
  BY DEF TextIs
<1>3. PICK g : g = Harmed(t, h)
  OBVIOUS
<1>4. CASE h.at = 0
  <2>1. g = t
    BY <1>3, <1>4 DEF Harmed
  <2> QED BY <1>3, <2>1
<1>5. CASE h.at # 0
  <2>1. h.at \in 1..Len(t) /\ (h.form = "other" => t[h.at].kind = "close")
    BY <1>1, <1>2, <1>5 DEF CanHarm, NoHarm
  <2>2. PICK n \in Nat : /\ n <= Len(t) /\ Len(g) = n /\ g \in Seq(Pieces)
                        /\ \A i \in 1..n : /\ g[i].kind = t[i].kind
                                           /\ t[i].kind # "close" => g[i].name = t[i].name
    <3>1. PICK q \in Pieces : q = t[h.at]
      BY <1>2, <2>1
    <3>2. CASE h.form = "other"
      <4>1. PICK p : p = [q EXCEPT !.name = "other"]
        OBVIOUS
      <4>2. p \in Pieces /\ p.kind = q.kind
        BY <4>1 DEF Pieces, Labels, Specials
      <4>3. g = [t EXCEPT ![h.at] = p]
        BY <1>3, <1>5, <3>1, <3>2, <4>1 DEF Harmed
      <4>4. g \in Seq(Pieces) /\ Len(g) = Len(t) /\ \A i \in 1..Len(t) : g[i] = IF i = h.at THEN p ELSE t[i]
        BY <1>2, <2>1, <4>2, <4>3
      <4> QED BY <1>2, <2>1, <3>1, <3>2, <4>2, <4>4
    <3>3. CASE h.form = "bad"
      <4>1. PICK p : p = [q EXCEPT !.form = "bad"]
        OBVIOUS
      <4>2. p \in Pieces /\ p.kind = q.kind /\ p.name = q.name
        BY <4>1 DEF Pieces, Forms
      <4>3. g = [t EXCEPT ![h.at] = p]
        BY <1>3, <1>5, <3>1, <3>3, <4>1 DEF Harmed
      <4>4. g \in Seq(Pieces) /\ Len(g) = Len(t) /\ \A i \in 1..Len(t) : g[i] = IF i = h.at THEN p ELSE t[i]
        BY <1>2, <2>1, <4>2, <4>3
      <4> QED BY <1>2, <2>1, <3>1, <3>3, <4>2, <4>4
    <3>4. CASE h.form \notin {"other", "bad"}
      <4>1. PICK p : p = [q EXCEPT !.form = h.form]
        OBVIOUS
      <4>2. p \in Pieces /\ p.kind = q.kind /\ p.name = q.name
        BY <1>1, <3>4, <4>1 DEF Pieces, Forms
      <4>3. PICK u : u = SubSeq(t, 1, h.at)
        OBVIOUS
      <4>4. u \in Seq(Pieces) /\ Len(u) = h.at /\ \A i \in 1..h.at : u[i] = t[i]
        BY <1>2, <2>1, <4>3
      <4>5. g = [u EXCEPT ![h.at] = p]
        <5>1. u[h.at] = q
          BY <2>1, <3>1, <4>4
        <5>2. g = [u EXCEPT ![h.at].form = h.form]
          BY <1>3, <1>5, <3>4, <4>3 DEF Harmed
        <5> QED BY <4>1, <5>1, <5>2
      <4>6. g \in Seq(Pieces) /\ Len(g) = h.at /\ \A i \in 1..h.at : g[i] = IF i = h.at THEN p ELSE u[i]
        BY <2>1, <4>2, <4>4, <4>5
      <4> QED BY <1>1, <2>1, <3>1, <4>2, <4>4, <4>6
    <3> QED BY <3>2, <3>3, <3>4
  <2>3. Declared /\ n > 0 => g[1].kind \in {"instruction", "declaration"} /\ g[1].name \in Specials
    BY <1>2, <2>2 DEF TextIs
  <2>4. ASSUME NEW i \in 1..n, g[i].kind \in {"open", "empty"},
               \A j \in 1..(i - 1) : g[j].kind \in {"chars", "space"}
        PROVE  g[i].name = "FDSNStationXML"
    <3>1. /\ t[i].kind \in {"open", "empty"} /\ \A j \in 1..(i - 1) : t[j].kind \in {"chars", "space"}
          /\ i \in 1..Len(t) /\ g[i].name = t[i].name
      BY <1>2, <2>2, <2>4
    <3> QED BY <3>1 DEF TextIs
  <2> QED BY <1>3, <2>2, <2>3, <2>4 DEF TextIs
<1> QED BY <1>4, <1>5

-----------------------------------------------------------------------------
(* All trees there are hang from h, but for one node that is on its own.    *)
Rooted(t, alive, h, S) ==
  /\ S \subseteq alive /\ h \notin S /\ \A x, y \in S : x = y
  /\ \A n \in S : t.parent[n] = NULL
  /\ \A n \in alive : t.parent[n] = NULL => n = h \/ n \in S
  /\ \A n \in alive : t.parent[n] \notin S

(* The node whose tree is read, then converted, then deleted.               *)
Held ==
  IF pc \in {"reading", "failing"} THEN first ELSE IF pc = "loaded" THEN doc ELSE doomed

(* Which node may be on its own, and when.                                  *)
Strays(S) ==
  S # {} =>
    /\ ~Declared
    /\ pc \in {"reading", "failing", "refused"}
    /\ \A s \in S : name[s] \in {"FDSNStationXML", "#space", "#text"}
    /\ pc = "reading" => /\ parent = NULL /\ first # NULL /\ buffer = "empty"
                         /\ pos <= Len(text) /\ Here.kind \notin {"chars", "space"}

(* While the text is read.                                                  *)
ReadInv ==
  /\ first = NULL => /\ live = {} /\ parent = NULL /\ type = "ignore"
                     /\ \A i \in 1..(pos - 1) : text[i].kind \in {"chars", "space"}
  /\ pos = 1 => first = NULL
  /\ Declared /\ pos > 1 => first # NULL /\ parent # NULL /\ name[first] \in Specials
  /\ buffer \in {"empty", "#space", "#text"}

(* The inductive invariant of loading.                                      *)
LoadInv ==
  /\ ForestInv
  /\ TextIs(text)
  /\ pos \in 1..(Len(text) + 1)
  /\ name = [n \in Node |-> name[n]]
  /\ pc \in {"reading", "failing", "loaded", "converted", "refused"}
  /\ pc \in {"reading", "failing", "loaded"} => Idle
  /\ pc \in {"reading", "failing"} =>
       /\ parent \in live \cup {NULL} /\ first \in live \cup {NULL}
       /\ first # NULL => links.parent[first] = NULL
  /\ pc = "reading" => ReadInv
  /\ pc = "loaded" => doc \in live /\ links.parent[doc] = NULL
  /\ \E S \in SUBSET Node : Rooted(links, live, Held, S) /\ Strays(S)

(* When nothing is held any more, only what is on its own is there.         *)
LEMMA OnlyStrays ==
  ASSUME NEW t \in Tree, NEW alive, alive \subseteq Node, Arranged(t, alive),
         NEW S, Rooted(t, alive, NULL, S)
  PROVE  alive = S
<1> SUFFICES ASSUME alive \ S # {} PROVE FALSE
  BY DEF Rooted
<1>1. PICK top \in Nat : \E rank \in [Node -> 0..top] :
        \A x \in Node : t.parent[x] # NULL => rank[t.parent[x]] < rank[x]
  BY DEF Arranged, Ranked
<1>2. PICK rank \in [Node -> 0..top] :
        \A x \in Node : t.parent[x] # NULL => rank[t.parent[x]] < rank[x]
  BY <1>1
<1>3. \A x \in Node : rank[x] \in Nat
  <2>1. \A x \in Node : rank[x] \in 0..top
    OBVIOUS
  <2>2. \A k \in 0..top : k \in Nat
    OBVIOUS
  <2> QED BY <2>1, <2>2
<1> DEFINE R == {rank[x] : x \in alive \ S}
<1>4. R \subseteq Nat /\ R # {}
  BY <1>3
<1>5. PICK k \in R : \A m \in R : k <= m
  <2> HIDE DEF R
  <2> QED BY <1>4, LeastNumber
<1>6. PICK n \in alive \ S : rank[n] = k
  BY <1>5
<1>7. \A x \in alive \ S : rank[n] <= rank[x]
  BY <1>5, <1>6
<1>8. n # NULL /\ n \in Node
  BY NullAssumption
<1>9. t.parent[n] # NULL
  BY <1>6, <1>8 DEF Rooted
<1>10. t.parent[n] \in alive \ S
  BY <1>6, <1>9 DEF Rooted, Arranged
<1>11. rank[t.parent[n]] < rank[n]
  BY <1>2, <1>8, <1>9
<1>12. rank[t.parent[n]] \in Nat /\ rank[n] \in Nat
  BY <1>3, <1>8, <1>10
<1> QED BY <1>7, <1>10, <1>11, <1>12

(* A node that is allocated while a text is read.                           *)
LEMMA NewNodeIs ==
  ASSUME LoadInv, pc = "reading", NEW label, NewNode(label)
  PROVE  \E n \in Node :
           /\ n = Fresh /\ n \notin live /\ live' = live \cup {n} /\ doomed' = NULL
           /\ ForestInv'
           /\ \A m \in Node : links'.parent[m] = IF m = n THEN parent ELSE links.parent[m]
           /\ name' = [m \in Node |-> IF m = n THEN label ELSE name[m]]
           /\ links.parent[n] = NULL /\ \A m \in live : links.parent[m] # n
<1>1. /\ Idle /\ doomed = NULL /\ ForestInv /\ parent \in live \cup {NULL}
      /\ name = [m \in Node |-> name[m]]
  BY DEF LoadInv, Idle
<1>2. PICK n \in Node : /\ n = Fresh /\ New(n, parent) /\ n \notin live /\ live' = live \cup {n}
                        /\ doomed' = doomed /\ name' = [name EXCEPT ![n] = label]
                        /\ links' = IF parent = NULL THEN links ELSE Added(links, parent, "after", NULL, n)
  BY DEF NewNode, New
<1>3. ForestInv'
  <2>1. [Next]_vars
    BY <1>1, <1>2 DEF Next
  <2> QED BY <1>1, <2>1, ForestStep
<1>4. /\ links \in Tree /\ live \subseteq Node /\ Whole(links, live) /\ Arranged(links, live)
  BY <1>1 DEF ForestInv, TreeInv, Typed
<1>5. links.parent[n] = NULL /\ \A m \in live : links.parent[m] # n
  BY <1>2, <1>4, NullAssumption DEF Arranged
<1>6. \A m \in Node : links'.parent[m] = IF m = n THEN parent ELSE links.parent[m]
  <2>1. CASE parent = NULL
    BY <1>2, <1>5, <2>1
  <2>2. CASE parent # NULL
    <3>1. parent \in live /\ Removed(links, n) = links
      BY <1>1, <1>5, <2>2 DEF Removed
    <3>2. PICK a, b : Between(links, links', parent, a, b, n)
      BY <1>2, <1>4, <2>2, <3>1, AddedBetween
    <3> QED BY <3>2 DEF Between
  <2> QED BY <2>1, <2>2
<1>7. name' = [m \in Node |-> IF m = n THEN label ELSE name[m]]
  BY <1>1, <1>2
<1> QED BY <1>1, <1>2, <1>3, <1>5, <1>6, <1>7

(* It hangs from what is held, or is what is held from then on.             *)
LEMMA NewNodeRooted ==
  ASSUME LoadInv, pc = "reading", NEW n \in Node, n \notin live, live' = live \cup {n},
         \A m \in Node : links'.parent[m] = IF m = n THEN parent ELSE links.parent[m],
         links.parent[n] = NULL, \A m \in live : links.parent[m] # n,
         NEW h, NEW S, Rooted(links, live, first, S)
  PROVE  /\ parent = NULL /\ S = {} /\ h = first => Rooted(links', live', h, {n})
         /\ ~SecondRoot /\ h = (IF first = NULL THEN n ELSE first) /\ parent \notin S /\ n \notin S =>
              Rooted(links', live', h, S)
<1>1. live \subseteq Node /\ parent \in live \cup {NULL} /\ first \in live \cup {NULL} /\ NULL \notin Node
  BY NullAssumption DEF LoadInv, ForestInv, TreeInv, Typed
<1>2. first = NULL => live = {} /\ parent = NULL
  BY DEF LoadInv, ReadInv
<1>3. ASSUME parent = NULL, S = {}, h = first PROVE Rooted(links', live', h, {n})
  BY <1>1, <1>3 DEF Rooted
<1>4. ASSUME ~SecondRoot, h = (IF first = NULL THEN n ELSE first), parent \notin S, n \notin S
      PROVE  Rooted(links', live', h, S)
  BY <1>1, <1>2, <1>4 DEF Rooted, SecondRoot
<1> QED BY <1>3, <1>4

(* What is known while a text is read.                                      *)
LEMMA ReadingFacts ==
  ASSUME LoadInv, pc = "reading"
  PROVE  /\ ForestInv /\ TextIs(text) /\ ReadInv /\ Idle /\ doomed = NULL
         /\ links \in Tree /\ live \subseteq Node /\ Arranged(links, live)
         /\ text \in Seq(Pieces) /\ Len(text) \in Nat /\ pos \in Nat /\ pos >= 1 /\ pos <= Len(text) + 1
         /\ name = [n \in Node |-> name[n]]
         /\ parent \in live \cup {NULL} /\ first \in live \cup {NULL}
         /\ first # NULL => links.parent[first] = NULL
         /\ NULL \notin Node
         /\ \E S \in SUBSET Node : Rooted(links, live, first, S) /\ Strays(S)
<1>1. text \in Seq(Pieces) /\ Len(text) \in Nat
  BY DEF LoadInv, TextIs
<1> QED
  BY <1>1, NullAssumption DEF LoadInv, ForestInv, TreeInv, Typed, Idle, Held

(* At a piece, nothing is on its own unless the piece is refused.           *)
LEMMA NothingAstray ==
  ASSUME LoadInv, pc = "reading", NEW S, Strays(S),
         pos > Len(text) \/ Here.kind \in {"chars", "space"} \/ buffer # "empty" \/ ~SecondRoot
  PROVE  S = {}
BY ReadingFacts DEF Strays, SecondRoot

(* Whatever leaves the tree alone leaves it as it is.                       *)
LEMMA TreeLeft ==
  ASSUME LoadInv, UNCHANGED vars
  PROVE  ForestInv' /\ live' = live /\ links' = links /\ doomed' = doomed
<1>1. [Next]_vars
  OBVIOUS
<1> QED BY <1>1, ForestStep DEF LoadInv, vars

(* ... when characters collect, ...                                         *)
LEMMA CharactersKeeps ==
  ASSUME LoadInv, Characters
  PROVE  LoadInv'
<1>1. /\ pc = "reading" /\ pos <= Len(text) /\ Here.kind \in {"chars", "space"}
      /\ pos' = pos + 1 /\ UNCHANGED <<input, name, parent, first, type, doc, read, pc>>
      /\ buffer' \in {"#text", "#space", buffer} /\ UNCHANGED vars
  BY DEF Characters, Reading
<1>2. /\ ForestInv /\ TextIs(text) /\ ReadInv /\ Idle /\ doomed = NULL
      /\ text \in Seq(Pieces) /\ Len(text) \in Nat /\ pos \in Nat /\ pos >= 1
  BY <1>1, ReadingFacts
<1>3. /\ ForestInv' /\ live' = live /\ links' = links /\ doomed' = doomed
      /\ source' = source /\ text' = text
  BY <1>1, TreeLeft DEF input
<1>4. TextIs(text)' /\ Declared' = Declared
  BY <1>2, <1>3 DEF TextIs, Declared
<1>5. ReadInv'
  <2>1. ASSUME first = NULL, NEW i \in 1..pos PROVE text[i].kind \in {"chars", "space"}
    <3>1. i = pos \/ i \in 1..(pos - 1)
      BY <1>2
    <3> QED BY <1>1, <1>2, <2>1, <3>1 DEF ReadInv, Here
  <2>2. ASSUME Declared PROVE first # NULL /\ parent # NULL /\ name[first] \in Specials
    <3>1. pos # 1
      <4> SUFFICES ASSUME pos = 1 PROVE FALSE
        OBVIOUS
      <4>1. text[1].kind \in {"instruction", "declaration"}
        BY <1>1, <1>2, <2>2 DEF TextIs
      <4> QED BY <1>1, <4>1 DEF Here
    <3> QED BY <1>2, <2>2, <3>1 DEF ReadInv
  <2>3. 1..(pos' - 1) = 1..pos /\ pos' # 1
    BY <1>1, <1>2
  <2> QED BY <1>1, <1>2, <1>3, <1>4, <2>1, <2>2, <2>3 DEF ReadInv
<1>6. \E S \in SUBSET Node : (Rooted(links, live, Held, S) /\ Strays(S))'
  <2>1. PICK S \in SUBSET Node : Rooted(links, live, first, S) /\ Strays(S)
    BY <1>1, ReadingFacts
  <2>2. S = {}
    BY <1>1, <2>1, NothingAstray
  <2>3. Rooted(links', live', Held', S) /\ Strays(S)'
    BY <1>1, <1>3, <2>1, <2>2 DEF Held, Strays
  <2> QED BY <2>3
<1>7. pos' \in 1..(Len(text') + 1)
  BY <1>1, <1>2, <1>3
<1> QED
  BY <1>1, <1>2, <1>3, <1>4, <1>5, <1>6, <1>7 DEF LoadInv, Idle

(* An end tag: with a declaration first, the way up does not lead beyond it.*)
LEMMA CloseKeeps ==
  ASSUME LoadInv, Close
  PROVE  LoadInv'
<1>1. /\ pc = "reading" /\ pos <= Len(text) /\ Here.kind = "close" /\ buffer = "empty"
      /\ parent # NULL /\ name[parent] = Here.name /\ parent' = links.parent[parent]
      /\ pos' = pos + 1 /\ UNCHANGED <<input, name, first, type, buffer, doc, read, pc>>
      /\ UNCHANGED vars
  BY DEF Close, AtTag, Reading
<1>2. /\ ForestInv /\ TextIs(text) /\ ReadInv /\ Idle /\ doomed = NULL
      /\ links \in Tree /\ live \subseteq Node /\ Arranged(links, live)
      /\ text \in Seq(Pieces) /\ Len(text) \in Nat /\ pos \in Nat /\ pos >= 1
      /\ parent \in live /\ first \in live \cup {NULL}
  BY <1>1, ReadingFacts
<1>3. /\ ForestInv' /\ live' = live /\ links' = links /\ doomed' = doomed
      /\ source' = source /\ text' = text
  BY <1>1, TreeLeft DEF input
<1>4. TextIs(text)' /\ Declared' = Declared
  BY <1>2, <1>3 DEF TextIs, Declared
<1>5. PICK S \in SUBSET Node : Rooted(links, live, first, S) /\ Strays(S)
  BY <1>1, ReadingFacts
<1>6. S = {} /\ first # NULL
  <2>1. first # NULL
    BY <1>1, <1>2 DEF ReadInv
  <2> QED BY <1>1, <1>5, <2>1, NothingAstray DEF SecondRoot
<1>7. parent' \in live \cup {NULL}
  BY <1>1, <1>2 DEF Arranged
<1>8. ASSUME Declared PROVE parent' # NULL /\ name[first] \in Specials
  <2>1. pos # 1
    BY <1>2, <1>6 DEF ReadInv
  <2>2. name[first] \in Specials
    BY <1>2, <1>8, <2>1 DEF ReadInv
  <2>3. text[pos] \in Pieces
    BY <1>1, <1>2
  <2>4. Here.name \notin Specials
    BY <1>1, <2>3 DEF Here, Pieces
  <2>5. parent # first
    BY <1>1, <2>2, <2>4
  <2> QED BY <1>1, <1>2, <1>5, <1>6, <2>2, <2>5 DEF Rooted
<1>9. ReadInv'
  <2>1. pos' # 1
    BY <1>1, <1>2
  <2> QED BY <1>1, <1>2, <1>3, <1>4, <1>6, <1>8, <2>1 DEF ReadInv
<1>10. Rooted(links', live', Held', S) /\ Strays(S)'
  BY <1>1, <1>3, <1>5, <1>6 DEF Held, Strays
<1>11. pos' \in 1..(Len(text') + 1)
  BY <1>1, <1>2, <1>3
<1>12. \E Q \in SUBSET Node : (Rooted(links, live, Held, Q) /\ Strays(Q))'
  BY <1>10
<1>13. name' = [n \in Node |-> name'[n]] /\ (first' # NULL => links'.parent[first'] = NULL)
       /\ pc' = "reading" /\ Idle' /\ parent' \in live' \cup {NULL} /\ first' \in live' \cup {NULL}
  BY <1>1, <1>2, <1>3, <1>7, ReadingFacts DEF Idle
<1> QED
  BY <1>3, <1>4, <1>9, <1>11, <1>12, <1>13 DEF LoadInv

(* The invariant holds before the first piece, ...                          *)
LEMMA LoadInvInit == LoadInit => LoadInv
<1> SUFFICES ASSUME LoadInit PROVE LoadInv
  OBVIOUS
<1>1. /\ Init /\ source \in Documents /\ harm \in Harms /\ CanHarm(Text(source), harm)
      /\ text = Harmed(Text(source), harm) /\ pos = 1 /\ name = [n \in Node |-> "none"]
      /\ parent = NULL /\ first = NULL /\ type = "ignore" /\ buffer = "empty" /\ pc = "reading"
  BY DEF LoadInit
<1>2. ForestInv /\ live = {} /\ Idle
  BY <1>1, ForestInit DEF Init, Idle
<1>3. PICK t : t = Text(source)
  OBVIOUS
<1>4. TextIs(t) /\ CanHarm(t, harm) /\ text = Harmed(t, harm)
  BY <1>1, <1>3, WholeTextIs
<1>5. TextIs(text)
  BY <1>1, <1>4, HarmedTextIs
<1>6. Len(text) \in Nat
  BY <1>5 DEF TextIs
<1>7. ReadInv
  BY <1>1, <1>2 DEF ReadInv
<1>8. Rooted(links, live, Held, {}) /\ Strays({})
  BY <1>2 DEF Rooted, Strays
<1>9. name = [n \in Node |-> name[n]]
  BY <1>1
<1> QED
  BY <1>1, <1>2, <1>5, <1>6, <1>7, <1>8, <1>9 DEF LoadInv

(* The invariant holds again, when reading goes on.                         *)
LEMMA ReadingGoesOn ==
  ASSUME LoadInv, pc = "reading", pc' = "reading", source' = source, text' = text,
         ForestInv', Idle', pos' \in 1..(Len(text) + 1), pos' # 1,
         name' = [n \in Node |-> name'[n]],
         parent' \in live' \cup {NULL}, first' \in live', links'.parent[first'] = NULL,
         Declared => parent' # NULL /\ name'[first'] \in Specials,
         buffer' \in {"empty", "#space", "#text"},
         NEW S \in SUBSET Node, Rooted(links', live', first', S), Strays(S)'
  PROVE  LoadInv'
<1>1. TextIs(text)' /\ Declared' = Declared
  BY ReadingFacts DEF TextIs, Declared
<1>2. first' # NULL
  BY NullAssumption DEF ForestInv, TreeInv, Typed
<1>3. ReadInv'
  BY <1>1, <1>2 DEF ReadInv
<1>4. Held' = first'
  BY DEF Held
<1>5. \E Q \in SUBSET Node : (Rooted(links, live, Held, Q) /\ Strays(Q))'
  BY <1>4
<1> QED
  BY <1>1, <1>3, <1>5 DEF LoadInv

(* A node for a tag: the open one, if any, is its parent.                   *)
LEMMA NewElementKeeps ==
  ASSUME LoadInv, pc = "reading", pc' = "reading", pos <= Len(text), ~SecondRoot,
         source' = source, text' = text, buffer' = buffer, pos' = pos + 1,
         NEW label, NewNode(label), first' = IF first = NULL THEN Fresh ELSE first,
         parent' \in {parent, Fresh},
         Here.kind \in {"instruction", "declaration"} =>
           label = Here.name /\ (parent = NULL => parent' = Fresh)
  PROVE  LoadInv'
<1>1. /\ ReadInv /\ TextIs(text) /\ Len(text) \in Nat /\ pos \in Nat /\ pos >= 1 /\ live \subseteq Node
      /\ parent \in live \cup {NULL} /\ first \in live \cup {NULL} /\ NULL \notin Node
      /\ first # NULL => links.parent[first] = NULL
  BY ReadingFacts
<1>2. PICK n \in Node :
        /\ n = Fresh /\ n \notin live /\ live' = live \cup {n} /\ doomed' = NULL
        /\ ForestInv'
        /\ \A m \in Node : links'.parent[m] = IF m = n THEN parent ELSE links.parent[m]
        /\ name' = [m \in Node |-> IF m = n THEN label ELSE name[m]]
        /\ links.parent[n] = NULL /\ \A m \in live : links.parent[m] # n
  BY NewNodeIs
<1>3. PICK S \in SUBSET Node : Rooted(links, live, first, S) /\ Strays(S)
  BY ReadingFacts
<1>4. S = {}
  BY <1>3, NothingAstray
<1>5. first' = (IF first = NULL THEN n ELSE first) /\ parent' \in {parent, n}
  BY <1>2
<1>6. Rooted(links', live', first', S)
  BY <1>2, <1>3, <1>4, <1>5, NewNodeRooted
<1>7. Strays(S)'
  BY <1>4 DEF Strays
<1>8. first' \in live' /\ parent' \in live' \cup {NULL}
  BY <1>1, <1>2, <1>5
<1>9. links'.parent[first'] = NULL
  BY <1>1, <1>2, <1>5 DEF ReadInv
<1>10. ASSUME Declared PROVE parent' # NULL /\ name'[first'] \in Specials
  <2>1. CASE first = NULL
    <3>1. pos = 1 /\ parent = NULL
      BY <1>1, <1>10, <2>1 DEF ReadInv
    <3>2. Here.kind \in {"instruction", "declaration"} /\ Here.name \in Specials
      BY <1>1, <1>10, <3>1 DEF TextIs, Here
    <3> QED BY <1>1, <1>2, <1>5, <2>1, <3>1, <3>2
  <2>2. CASE first # NULL
    <3>1. parent # NULL /\ name[first] \in Specials
      BY <1>1, <1>10, <2>2 DEF ReadInv
    <3>2. first \in Node /\ first # n /\ first' = first
      BY <1>1, <1>2, <1>5, <2>2
    <3> QED BY <1>1, <1>2, <1>5, <3>1, <3>2
  <2> QED BY <2>1, <2>2
<1>11. /\ pos' \in 1..(Len(text) + 1) /\ pos' # 1 /\ Idle' /\ buffer' \in {"empty", "#space", "#text"}
       /\ name' = [m \in Node |-> name'[m]]
  BY <1>1, <1>2 DEF ReadInv, Idle
<1> QED
  BY <1>2, <1>6, <1>7, <1>8, <1>9, <1>10, <1>11, ReadingGoesOn

(* Comments, declarations and elements, complete or cut off.                *)
LEMMA ElementsKeep ==
  ASSUME LoadInv, Aside \/ Prolog \/ Open \/ OpenCut
  PROVE  LoadInv'
<1>1. /\ pc = "reading" /\ pos <= Len(text) /\ ~SecondRoot /\ pc' = "reading"
      /\ source' = source /\ text' = text /\ buffer' = buffer /\ pos' = pos + 1
      /\ first' = (IF first = NULL THEN Fresh ELSE first)
  BY DEF Aside, Prolog, Open, OpenCut, AtTag, Reading, NewElement, input
<1>2. \/ NewNode(Here.name) /\ parent' \in {parent, Fresh}
         /\ (Here.kind \in {"instruction", "declaration"} => (parent = NULL => parent' = Fresh))
      \/ /\ \E label : NewNode(label)
         /\ parent' = parent /\ Here.kind \notin {"instruction", "declaration"}
  BY DEF Aside, Prolog, Open, OpenCut, AtTag, Reading, NewElement
<1> QED
  BY <1>1, <1>2, NewElementKeeps

(* Characters that a tag ends are a value, or nothing.                      *)
LEMMA FlushKeeps ==
  ASSUME LoadInv, Flush
  PROVE  LoadInv'
<1>1. /\ pc = "reading" /\ pos <= Len(text) /\ Here.kind \notin {"chars", "space"} /\ buffer # "empty"
      /\ buffer' = "empty" /\ UNCHANGED <<input, pos, parent, type, pc>>
      /\ source' = source /\ text' = text /\ pos' = pos /\ parent' = parent /\ type' = type
      /\ pc' = "reading"
  BY DEF Flush, Reading, input
<1>2. /\ ReadInv /\ TextIs(text) /\ Len(text) \in Nat /\ pos \in Nat /\ pos >= 1 /\ live \subseteq Node
      /\ parent \in live \cup {NULL} /\ first \in live \cup {NULL} /\ NULL \notin Node
      /\ first # NULL => links.parent[first] = NULL
      /\ name = [n \in Node |-> name[n]] /\ Idle
  BY <1>1, ReadingFacts
<1>3. PICK S \in SUBSET Node : Rooted(links, live, first, S) /\ Strays(S)
  BY <1>1, ReadingFacts
<1>4. S = {}
  BY <1>1, <1>3, NothingAstray
<1>5. TextIs(text)' /\ Declared' = Declared
  BY <1>1, <1>2 DEF TextIs, Declared
<1>6. CASE type = "ignore"
  <2>1. UNCHANGED vars /\ name' = name /\ first' = first
    BY <1>6 DEF Flush
  <2>2. ForestInv' /\ live' = live /\ links' = links /\ doomed' = doomed
    BY <2>1, TreeLeft
  <2>3. ReadInv'
    BY <1>1, <1>2, <1>5, <2>1, <2>2 DEF ReadInv
  <2>4. Rooted(links', live', Held', S) /\ Strays(S)'
    BY <1>1, <1>3, <1>4, <2>1, <2>2 DEF Held, Strays
  <2>5. \E Q \in SUBSET Node : (Rooted(links, live, Held, Q) /\ Strays(Q))'
    BY <2>4
  <2>6. pos' \in 1..(Len(text') + 1) /\ Idle'
    BY <1>1, <1>2, <2>2 DEF Idle
  <2> QED
    BY <1>1, <1>2, <1>5, <2>1, <2>2, <2>3, <2>5, <2>6 DEF LoadInv
<1>7. CASE type # "ignore"
  <2>1. NewNode(buffer) /\ first' = IF first = NULL THEN Fresh ELSE first
    BY <1>7 DEF Flush
  <2>2. first # NULL /\ pos # 1 /\ first' = first
    BY <1>2, <1>7, <2>1 DEF ReadInv
  <2>3. PICK n \in Node :
          /\ n = Fresh /\ n \notin live /\ live' = live \cup {n} /\ doomed' = NULL
          /\ ForestInv'
          /\ \A m \in Node : links'.parent[m] = IF m = n THEN parent ELSE links.parent[m]
          /\ name' = [m \in Node |-> IF m = n THEN buffer ELSE name[m]]
          /\ links.parent[n] = NULL /\ \A m \in live : links.parent[m] # n
    BY <1>1, <2>1, NewNodeIs
  <2>4. /\ Declared => parent' # NULL /\ name'[first'] \in Specials
        /\ first' \in live' /\ links'.parent[first'] = NULL /\ parent' \in live' \cup {NULL}
        /\ pos' \in 1..(Len(text) + 1) /\ pos' # 1 /\ Idle'
        /\ name' = [m \in Node |-> name'[m]]
    BY <1>1, <1>2, <2>2, <2>3 DEF ReadInv, Idle
  <2>5. CASE parent = NULL
    <3>1. Rooted(links', live', first', {n})
      BY <1>1, <1>3, <1>4, <2>2, <2>3, <2>5, NewNodeRooted
    <3>2. ~Declared /\ ~Declared'
      BY <1>1, <1>5, <2>4, <2>5
    <3>3. Here' = Here
      BY <1>1 DEF Here
    <3>4. name'[n] \in {"#text", "#space"}
      BY <1>1, <1>2, <2>3 DEF ReadInv
    <3>5. Strays({n})'
      BY <1>1, <1>2, <2>2, <2>5, <3>2, <3>3, <3>4 DEF Strays
    <3> QED
      BY <1>1, <2>3, <2>4, <3>1, <3>5, ReadingGoesOn
  <2>6. CASE parent # NULL
    <3>1. Rooted(links', live', first', S)
      BY <1>1, <1>3, <1>4, <2>2, <2>3, <2>6, NewNodeRooted DEF SecondRoot
    <3>2. Strays(S)'
      BY <1>4 DEF Strays
    <3> QED
      BY <1>1, <2>3, <2>4, <3>1, <3>2, ReadingGoesOn
  <2> QED BY <2>5, <2>6
<1> QED BY <1>6, <1>7

(* The first element there is has the name of the root.                     *)
LEMMA FirstIsRoot ==
  ASSUME LoadInv, pc = "reading", pos <= Len(text), first = NULL, Here.kind \in {"open", "empty"}
  PROVE  Here.name = "FDSNStationXML" /\ ~Declared
<1>1. /\ ReadInv /\ TextIs(text) /\ Len(text) \in Nat /\ pos \in Nat /\ pos >= 1
  BY ReadingFacts
<1>2. Here.name = "FDSNStationXML"
  <2>1. pos \in 1..Len(text) /\ text[pos].kind \in {"open", "empty"}
        /\ \A j \in 1..(pos - 1) : text[j].kind \in {"chars", "space"}
    BY <1>1 DEF ReadInv, Here
  <2> QED BY <1>1, <2>1 DEF TextIs, Here
<1>3. ASSUME Declared PROVE FALSE
  <2>1. pos = 1
    BY <1>1, <1>3 DEF ReadInv
  <2>2. text[1].kind \in {"instruction", "declaration"}
    BY <1>1, <1>3, <2>1 DEF TextIs
  <2> QED BY <2>1, <2>2 DEF Here
<1> QED BY <1>2, <1>3

(* A tag that cannot be read leaves its element behind, if it is the first. *)
LEMMA OpenBadKeeps ==
  ASSUME LoadInv, OpenBad
  PROVE  LoadInv'
<1>1. /\ pc = "reading" /\ pos <= Len(text) /\ ~SecondRoot /\ pc' = "failing"
      /\ Here.kind \in {"open", "empty"} /\ NewNode(Here.name)
      /\ source' = source /\ text' = text /\ pos' = pos + 1 /\ parent' = parent /\ first' = first
  BY DEF OpenBad, AtTag, Reading, input
<1>2. /\ ReadInv /\ TextIs(text) /\ Len(text) \in Nat /\ pos \in Nat /\ pos >= 1 /\ live \subseteq Node
      /\ parent \in live \cup {NULL} /\ first \in live \cup {NULL} /\ NULL \notin Node
      /\ first # NULL => links.parent[first] = NULL
  BY <1>1, ReadingFacts
<1>3. PICK n \in Node :
        /\ n = Fresh /\ n \notin live /\ live' = live \cup {n} /\ doomed' = NULL
        /\ ForestInv'
        /\ \A m \in Node : links'.parent[m] = IF m = n THEN parent ELSE links.parent[m]
        /\ name' = [m \in Node |-> IF m = n THEN Here.name ELSE name[m]]
        /\ links.parent[n] = NULL /\ \A m \in live : links.parent[m] # n
  BY <1>1, NewNodeIs
<1>4. PICK S \in SUBSET Node : Rooted(links, live, first, S) /\ Strays(S)
  BY <1>1, ReadingFacts
<1>5. S = {}
  BY <1>1, <1>4, NothingAstray
<1>6. TextIs(text)' /\ Declared' = Declared /\ Held' = first
  BY <1>1, <1>2 DEF TextIs, Declared, Held
<1>7. \E Q \in SUBSET Node : (Rooted(links, live, Held, Q) /\ Strays(Q))'
  <2>1. CASE first = NULL
    <3>1. parent = NULL
      BY <1>2, <2>1 DEF ReadInv
    <3>2. Rooted(links', live', first, {n})
      BY <1>1, <1>3, <1>4, <1>5, <3>1, NewNodeRooted
    <3>3. Here.name = "FDSNStationXML" /\ ~Declared'
      BY <1>1, <1>6, <2>1, FirstIsRoot
    <3>4. Strays({n})'
      BY <1>1, <1>3, <3>3 DEF Strays
    <3> QED BY <1>6, <3>2, <3>4
  <2>2. CASE first # NULL
    <3>1. Rooted(links', live', first, S)
      BY <1>1, <1>3, <1>4, <1>5, <2>2, NewNodeRooted
    <3>2. Strays(S)'
      BY <1>5 DEF Strays
    <3> QED BY <1>6, <3>1, <3>2
  <2> QED BY <2>1, <2>2
<1>8. /\ pos' \in 1..(Len(text') + 1) /\ Idle' /\ name' = [m \in Node |-> name'[m]]
      /\ parent' \in live' \cup {NULL} /\ first' \in live' \cup {NULL}
      /\ first' # NULL => links'.parent[first'] = NULL
  BY <1>1, <1>2, <1>3 DEF Idle
<1> QED
  BY <1>1, <1>3, <1>6, <1>7, <1>8 DEF LoadInv

(* An element that was deleted at once is as if it had never been.          *)
LEMMA EmptyCutKeeps ==
  ASSUME LoadInv, EmptyCut
  PROVE  LoadInv'
<1>1. /\ pc = "reading" /\ pos <= Len(text) /\ ~SecondRoot /\ pc' = "failing"
      /\ source' = source /\ text' = text /\ pos' = pos + 1 /\ parent' = parent /\ first' = first
      /\ name' = name /\ UNCHANGED vars
  BY DEF EmptyCut, AtTag, Reading, input
<1>2. /\ TextIs(text) /\ Len(text) \in Nat /\ pos \in Nat /\ pos >= 1 /\ live \subseteq Node
      /\ parent \in live \cup {NULL} /\ first \in live \cup {NULL} /\ Idle
      /\ first # NULL => links.parent[first] = NULL
      /\ name = [n \in Node |-> name[n]]
  BY <1>1, ReadingFacts
<1>3. ForestInv' /\ live' = live /\ links' = links /\ doomed' = doomed
  BY <1>1, TreeLeft
<1>4. PICK S \in SUBSET Node : Rooted(links, live, first, S) /\ Strays(S)
  BY <1>1, ReadingFacts
<1>5. S = {}
  BY <1>1, <1>4, NothingAstray
<1>6. TextIs(text)' /\ Held' = first
  BY <1>1, <1>2 DEF TextIs, Declared, Held
<1>7. \E Q \in SUBSET Node : (Rooted(links, live, Held, Q) /\ Strays(Q))'
  <2>1. Strays(S)'
    BY <1>5 DEF Strays
  <2> QED BY <1>3, <1>4, <1>6, <2>1
<1>8. pos' \in 1..(Len(text') + 1) /\ Idle'
  BY <1>1, <1>2, <1>3 DEF Idle
<1> QED
  BY <1>1, <1>2, <1>3, <1>6, <1>7, <1>8 DEF LoadInv

(* A node without parent whose deletion begins is still held.               *)
LEMMA DeleteHeld ==
  ASSUME LoadInv, NEW n \in live, links.parent[n] = NULL, Delete(n), pc \in {"reading", "failing", "loaded"},
         pc' \in {"refused", "converted"}, source' = source, text' = text, pos' = pos, name' = name,
         NEW S \in SUBSET Node, Rooted(links, live, n, S), Strays(S)', TextIs(text)
  PROVE  LoadInv'
<1>1. /\ ForestInv /\ links \in Tree /\ live \subseteq Node /\ name = [m \in Node |-> name[m]]
      /\ pos \in 1..(Len(text) + 1)
  BY DEF LoadInv, ForestInv, TreeInv, Typed
<1>2. links' = links /\ live' = live /\ doomed' = n
  BY DEF Delete, Removed
<1>3. ForestInv'
  <2>1. [Next]_vars
    BY DEF Next
  <2> QED BY <1>1, <2>1, ForestStep
<1>4. Held' = n
  BY <1>2 DEF Held
<1>5. \E Q \in SUBSET Node : (Rooted(links, live, Held, Q) /\ Strays(Q))'
  BY <1>2, <1>4
<1>6. TextIs(text)'
  BY DEF TextIs, Declared
<1> QED
  BY <1>1, <1>3, <1>5, <1>6 DEF LoadInv

(* The label error: what was read hangs from the first node.                *)
LEMMA ErrorKeeps ==
  ASSUME LoadInv, pc \in {"reading", "failing"}, Error
  PROVE  LoadInv'
<1>1. /\ pc' = "refused" /\ source' = source /\ text' = text /\ pos' = pos /\ name' = name
      /\ IF first = NULL THEN UNCHANGED vars ELSE Delete(first)
  BY DEF Error, input
<1>2. PICK S \in SUBSET Node : Rooted(links, live, first, S) /\ Strays(S)
  BY DEF LoadInv, Held
<1>3. Strays(S)'
  BY <1>1, <1>2 DEF Strays, Declared
<1>4. /\ TextIs(text) /\ Idle /\ first \in live \cup {NULL}
      /\ first # NULL => links.parent[first] = NULL
      /\ name = [m \in Node |-> name[m]] /\ pos \in 1..(Len(text) + 1)
  BY DEF LoadInv
<1>5. CASE first = NULL
  <2>1. ForestInv' /\ live' = live /\ links' = links /\ doomed' = doomed
    BY <1>1, <1>5, TreeLeft
  <2>2. Held' = first
    BY <1>1, <1>4, <1>5, <2>1 DEF Held, Idle
  <2>3. \E Q \in SUBSET Node : (Rooted(links, live, Held, Q) /\ Strays(Q))'
    BY <1>2, <1>3, <2>1, <2>2
  <2>4. TextIs(text)'
    BY <1>1, <1>4 DEF TextIs, Declared
  <2> QED
    BY <1>1, <1>4, <2>1, <2>3, <2>4 DEF LoadInv
<1>6. CASE first # NULL
  BY <1>1, <1>2, <1>3, <1>4, <1>6, DeleteHeld
<1> QED BY <1>5, <1>6

(* Whatever is refused ends at that label.                                  *)
LEMMA RefuseKeeps ==
  ASSUME LoadInv, Refuse
  PROVE  LoadInv'
<1>1. pc \in {"reading", "failing"} /\ Error
  BY DEF Refuse, Reading, AtTag
<1> QED BY <1>1, ErrorKeeps

(* The way up ends at a node without parent.                                *)
LEMMA OutermostIs ==
  ASSUME NEW t \in Tree, Ranked(t), NEW n \in Node
  PROVE  \E r \in UpFrom(t, n) : t.parent[r] = NULL
<1>1. PICK U : U = Up(t, n)
  OBVIOUS
<1>2. U = UpFrom(t, n) /\ n \in U /\ U \in SUBSET Node /\ Upwards(t, U)
  BY <1>1, UpFromIs, UpIs
<1>3. PICK top \in Nat : \E rank \in [Node -> 0..top] :
        \A x \in Node : t.parent[x] # NULL => rank[t.parent[x]] < rank[x]
  BY DEF Ranked
<1>4. PICK rank \in [Node -> 0..top] :
        \A x \in Node : t.parent[x] # NULL => rank[t.parent[x]] < rank[x]
  BY <1>3
<1>5. \A x \in Node : rank[x] \in Nat
  <2>1. \A x \in Node : rank[x] \in 0..top
    OBVIOUS
  <2>2. \A k \in 0..top : k \in Nat
    OBVIOUS
  <2> QED BY <2>1, <2>2
<1> DEFINE R == {rank[x] : x \in U}
<1>6. R \subseteq Nat /\ R # {}
  BY <1>2, <1>5
<1>7. PICK k \in R : \A m \in R : k <= m
  <2> HIDE DEF R
  <2> QED BY <1>6, LeastNumber
<1>8. PICK r \in U : rank[r] = k
  BY <1>7
<1>9. \A x \in U : rank[r] <= rank[x]
  BY <1>7, <1>8
<1>10. t.parent[r] = NULL
  <2> SUFFICES ASSUME t.parent[r] # NULL PROVE FALSE
    OBVIOUS
  <2>1. t.parent[r] \in U
    BY <1>2 DEF Upwards
  <2>2. rank[t.parent[r]] < rank[r] /\ rank[t.parent[r]] \in Nat /\ rank[r] \in Nat
    BY <1>2, <1>4, <1>5, <2>1
  <2> QED BY <1>9, <2>1, <2>2
<1> QED BY <1>2, <1>10

(* At the end of the text: what is returned is the first node, or none is.  *)
LEMMA TextEndsKeeps ==
  ASSUME LoadInv, TextEnds
  PROVE  LoadInv'
<1>1. pc = "reading" /\ pos > Len(text)
  BY DEF TextEnds
<1>2. /\ ForestInv /\ TextIs(text) /\ Idle /\ doomed = NULL
      /\ links \in Tree /\ live \subseteq Node /\ Arranged(links, live)
      /\ parent \in live \cup {NULL} /\ first \in live \cup {NULL} /\ NULL \notin Node
      /\ first # NULL => links.parent[first] = NULL
      /\ name = [n \in Node |-> name[n]] /\ pos \in 1..(Len(text) + 1)
  BY <1>1, ReadingFacts DEF LoadInv
<1>3. PICK S \in SUBSET Node : Rooted(links, live, first, S) /\ Strays(S)
  BY <1>1, ReadingFacts
<1>4. S = {}
  BY <1>1, <1>3, NothingAstray
<1>5. CASE parent # NULL /\ parent # Outermost
  BY <1>1, <1>5, ErrorKeeps DEF TextEnds
<1>6. CASE ~(parent # NULL /\ parent # Outermost)
  <2>1. /\ doc' = (IF parent = NULL THEN first ELSE parent)
        /\ pc' = (IF doc' = NULL THEN "refused" ELSE "loaded")
        /\ source' = source /\ text' = text /\ pos' = pos /\ name' = name /\ UNCHANGED vars
    BY <1>6 DEF TextEnds, input
  <2>2. ForestInv' /\ live' = live /\ links' = links /\ doomed' = doomed
    BY <2>1, TreeLeft
  <2>3. doc' = first
    <3>1. CASE parent = NULL
      BY <2>1, <3>1
    <3>2. CASE parent # NULL
      <4>1. \E r \in UpFrom(links, parent) : links.parent[r] = NULL
        BY <1>2, <3>2, OutermostIs DEF Arranged
      <4>2. links.parent[parent] = NULL
        BY <1>6, <3>2, <4>1 DEF Outermost
      <4> QED BY <1>2, <1>3, <1>4, <2>1, <3>2, <4>2 DEF Rooted
    <3> QED BY <3>1, <3>2
  <2>4. Held' = first /\ Strays(S)'
    BY <1>2, <1>4, <2>1, <2>2, <2>3 DEF Held, Strays
  <2>5. \E Q \in SUBSET Node : (Rooted(links, live, Held, Q) /\ Strays(Q))'
    BY <1>3, <2>2, <2>4
  <2>6. TextIs(text)' /\ Idle' /\ pc' \in {"refused", "loaded"}
        /\ (pc' = "loaded" => doc' \in live' /\ links'.parent[doc'] = NULL)
    BY <1>2, <2>1, <2>2, <2>3 DEF TextIs, Declared, Idle
  <2> QED
    BY <1>2, <2>1, <2>2, <2>5, <2>6 DEF LoadInv
<1> QED BY <1>5, <1>6

(* The converter deletes what it was given.                                 *)
LEMMA ConvertKeeps ==
  ASSUME LoadInv, Convert
  PROVE  LoadInv'
<1>1. /\ pc = "loaded" /\ pc' \in {"refused", "converted"} /\ Delete(doc)
      /\ source' = source /\ text' = text /\ pos' = pos /\ name' = name
  BY DEF Convert, input
<1>2. doc \in live /\ links.parent[doc] = NULL /\ TextIs(text)
  BY <1>1 DEF LoadInv
<1>3. PICK S \in SUBSET Node : Rooted(links, live, doc, S) /\ Strays(S)
  BY <1>1 DEF LoadInv, Held
<1>4. S = {}
  BY <1>1, <1>3 DEF Strays
<1>5. Strays(S)'
  BY <1>4 DEF Strays
<1> QED BY <1>1, <1>2, <1>3, <1>5, DeleteHeld

(* The loop of mxmlDelete: it frees what is held, and nothing else.         *)
LEMMA FreeingKeeps ==
  ASSUME LoadInv, Freeing
  PROVE  LoadInv'
<1>1. /\ ~Idle /\ doomed # NULL /\ DeleteLoop
      /\ source' = source /\ text' = text /\ pos' = pos /\ name' = name /\ pc' = pc
  BY DEF Freeing, load_vars, DeleteLoop, Descend, FreeCurrent, FreeDoomed, Idle
<1>2. /\ pc \in {"converted", "refused"} /\ ForestInv /\ TextIs(text) /\ pos \in 1..(Len(text) + 1)
      /\ name = [n \in Node |-> name[n]]
  BY <1>1 DEF LoadInv
<1>3. /\ Typed /\ live \subseteq Node /\ links \in Tree /\ NULL \notin Node
      /\ \E C \in SUBSET Node : Spine(C) /\ LastIsBare /\ PartlyLinked(C)
  BY <1>1, <1>2, NullAssumption DEF ForestInv, TreeInv, Typed, Deleting
<1>4. PICK S \in SUBSET Node : Rooted(links, live, doomed, S) /\ Strays(S)
  BY <1>2 DEF LoadInv, Held
<1>5. ForestInv'
  <2>1. [Next]_vars
    BY <1>1 DEF Next
  <2> QED BY <1>2, <2>1, ForestStep
<1>6. Strays(S)'
  BY <1>1, <1>2, <1>4 DEF Strays, Declared
<1>7. TextIs(text)'
  BY <1>1, <1>2 DEF TextIs, Declared
<1>8. Held' = doomed'
  BY <1>1, <1>2 DEF Held
<1>9. Rooted(links', live', doomed', S)
  <2>1. CASE Descend
    <3>1. live' = live /\ doomed' = doomed /\ links'.parent = links.parent
      BY <1>3, <2>1 DEF Descend, Tree
    <3> QED BY <1>4, <3>1 DEF Rooted
  <2>2. CASE FreeCurrent
    <3>1. current # NULL /\ live' = live \ {current} /\ doomed' = doomed /\ links' = Freed(links, current)
      BY <2>2 DEF FreeCurrent, Free
    <3>2. current \in live /\ links.parent[current] # NULL
      BY <1>3, <3>1, CurrentFacts
    <3>3. \A m \in Node : links'.parent[m] = IF m = current THEN NULL ELSE links.parent[m]
      BY <3>1 DEF Freed, Set
    <3>4. current \notin S
      BY <1>4, <3>2 DEF Rooted
    <3> QED BY <1>3, <1>4, <3>1, <3>3, <3>4 DEF Rooted
  <2>3. CASE FreeDoomed
    <3>1. live' = live \ {doomed} /\ doomed' = NULL /\ links' = Freed(links, doomed)
      BY <2>3 DEF FreeDoomed, Free
    <3>2. \A m \in Node : links'.parent[m] = IF m = doomed THEN NULL ELSE links.parent[m]
      BY <3>1 DEF Freed, Set
    <3> QED BY <1>3, <1>4, <3>1, <3>2 DEF Rooted
  <2> QED BY <1>1, <2>1, <2>2, <2>3 DEF DeleteLoop
<1>10. \E Q \in SUBSET Node : (Rooted(links, live, Held, Q) /\ Strays(Q))'
  BY <1>6, <1>8, <1>9
<1> QED
  BY <1>1, <1>2, <1>5, <1>7, <1>10 DEF LoadInv

(* Every step keeps the invariant.                                          *)
LEMMA LoadInvStep ==
  ASSUME LoadInv, [LoadNext]_all_vars
  PROVE  LoadInv'
<1>1. CASE UNCHANGED all_vars
  <2>1. /\ UNCHANGED vars /\ source' = source /\ text' = text /\ pos' = pos /\ name' = name
        /\ parent' = parent /\ first' = first /\ type' = type /\ buffer' = buffer /\ doc' = doc /\ pc' = pc
    BY <1>1 DEF all_vars, load_vars
  <2>2. ForestInv' /\ live' = live /\ links' = links /\ doomed' = doomed
    BY <2>1, TreeLeft
  <2>3. PICK S \in SUBSET Node : Rooted(links, live, Held, S) /\ Strays(S)
    BY DEF LoadInv
  <2>4. Held' = Held /\ Strays(S)' /\ Rooted(links', live', Held', S)
    BY <2>1, <2>2, <2>3 DEF Held, Strays, Declared, Here
  <2>5. \E Q \in SUBSET Node : (Rooted(links, live, Held, Q) /\ Strays(Q))'
    BY <2>4
  <2>6. /\ TextIs(text)' /\ (pc' = "reading" => ReadInv')
        /\ (pc' \in {"reading", "failing", "loaded"} => Idle')
    BY <2>1, <2>2 DEF LoadInv, TextIs, Declared, ReadInv, Idle
  <2> QED
    BY <2>1, <2>2, <2>5, <2>6 DEF LoadInv
<1>2. CASE LoadNext
  <2>1. CASE Characters
    BY <2>1, CharactersKeeps
  <2>2. CASE Flush
    BY <2>2, FlushKeeps
  <2>3. CASE Aside \/ Prolog \/ Open \/ OpenCut
    BY <2>3, ElementsKeep
  <2>4. CASE OpenBad
    BY <2>4, OpenBadKeeps
  <2>5. CASE EmptyCut
    BY <2>5, EmptyCutKeeps
  <2>6. CASE Close
    BY <2>6, CloseKeeps
  <2>7. CASE Refuse
    BY <2>7, RefuseKeeps
  <2>8. CASE TextEnds
    BY <2>8, TextEndsKeeps
  <2>9. CASE Convert
    BY <2>9, ConvertKeeps
  <2>10. CASE Freeing
    BY <2>10, FreeingKeeps
  <2> QED
    BY <1>2, <2>1, <2>2, <2>3, <2>4, <2>5, <2>6, <2>7, <2>8, <2>9, <2>10 DEF LoadNext
<1> QED BY <1>1, <1>2

(* However loading and conversion end, whatever the document and wherever   *)
(* it is cut or unreadable, every node that mxml_load_data allocated is     *)
(* freed, and none while the loop is still at it, but for one at most,      *)
(* which is either the root or text behind it: for trees of any depth and   *)
(* any number of nodes.                                                     *)
THEOREM DocumentIsFreed == LoadSpec => []DocumentFreed
<1>1. LoadInv => DocumentFreed
  <2> SUFFICES ASSUME LoadInv PROVE DocumentFreed
    OBVIOUS
  <2>1. TreeInv /\ Typed /\ live \subseteq Node /\ links \in Tree /\ Arranged(links, live)
    BY DEF LoadInv, ForestInv, TreeInv, Typed
  <2>2. CurrentIsLive
    BY <2>1, NullAssumption DEF TreeInv, CurrentIsLive, Idle, Deleting, Spine
  <2>3. ASSUME Finished, live # {}
        PROVE  /\ ~Declared /\ pc = "refused" /\ Cardinality(live) = 1
               /\ \A n \in live : name[n] \in {"FDSNStationXML", "#space", "#text"}
    <3>1. pc \in {"converted", "refused"} /\ Held = NULL
      BY <2>3 DEF Finished, Idle, Held
    <3>2. PICK S \in SUBSET Node : Rooted(links, live, NULL, S) /\ Strays(S)
      BY <3>1 DEF LoadInv
    <3>3. live = S
      BY <2>1, <3>2, OnlyStrays
    <3>4. /\ ~Declared /\ pc = "refused"
          /\ \A n \in live : name[n] \in {"FDSNStationXML", "#space", "#text"}
      BY <2>3, <3>1, <3>2, <3>3 DEF Strays
    <3>5. PICK n \in live : live = {n}
      BY <2>3, <3>2, <3>3 DEF Rooted
    <3>6. Cardinality(live) = 1
      BY <3>5, FS_Singleton
    <3> QED BY <3>4, <3>6
  <2> QED BY <2>2, <2>3 DEF DocumentFreed
<1> QED
  BY <1>1, LoadInvInit, LoadInvStep, PTL DEF LoadSpec

(* Every step of loading is a step of the tree, or leaves it alone.         *)
LEMMA LoadStepIsTreeStep ==
  ASSUME LoadInv, [LoadNext]_all_vars
  PROVE  [Next]_vars
<1>1. ASSUME NEW label, NewNode(label), pc = "reading" PROVE [Next]_vars
  <2>1. parent \in live \cup {NULL}
    BY <1>1, ReadingFacts
  <2> QED BY <1>1, <2>1 DEF NewNode, Next
<1>2. ASSUME Error, pc \in {"reading", "failing"} PROVE [Next]_vars
  <2>1. first \in live \cup {NULL}
    BY <1>2 DEF LoadInv
  <2> QED BY <1>2, <2>1 DEF Error, Next
<1>3. CASE Aside \/ Prolog \/ Open
  BY <1>1, <1>3 DEF Aside, Prolog, Open, NewElement, AtTag, Reading
<1>4. CASE OpenCut \/ OpenBad
  BY <1>1, <1>4 DEF OpenCut, OpenBad, AtTag, Reading
<1>5. CASE Flush
  BY <1>1, <1>5 DEF Flush, Reading
<1>6. CASE Characters \/ EmptyCut \/ Close \/ UNCHANGED all_vars
  BY <1>6 DEF Characters, EmptyCut, Close, all_vars
<1>7. CASE Refuse
  BY <1>2, <1>7 DEF Refuse, Reading, AtTag
<1>8. CASE TextEnds
  BY <1>2, <1>8 DEF TextEnds
<1>9. CASE Convert
  <2>1. doc \in live
    BY <1>9 DEF Convert, LoadInv
  <2> QED BY <1>9, <2>1 DEF Convert, Next
<1>10. CASE Freeing
  BY <1>10 DEF Freeing, Next
<1> QED
  BY <1>3, <1>4, <1>5, <1>6, <1>7, <1>8, <1>9, <1>10 DEF LoadNext

(* Loading a document is a use of the tree like any other: it never hangs a *)
(* node from what is freed, deletes nothing twice, and so implements the    *)
(* abstract forest.                                                         *)
THEOREM LoadImplementsForest == LoadSpec => ImplementsForest
<1>1. LoadInit => LoadInv /\ Abstract!Init
  BY LoadInvInit, ForestInit DEF LoadInit
<1>2. LoadInv /\ [LoadNext]_all_vars => LoadInv' /\ [Abstract!Next]_(Abstract!vars)
  BY LoadInvStep, LoadStepIsTreeStep, ForestStep DEF LoadInv
<1> QED
  BY <1>1, <1>2, PTL DEF LoadSpec, ImplementsForest, Abstract!Spec
=============================================================================
