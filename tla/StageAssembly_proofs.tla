------------------------ MODULE StageAssembly_proofs ------------------------
(***************************************************************************)
(* Proofs about StageAssembly, for every set of texts and stage numbers:   *)
(* the list of stages spells the text, and unit strings have one owner.    *)
(*                                                                         *)
(* The list is a sequence of stages and, for each, of its blockettes.  A   *)
(* blockette, or the chain of a reference, is joined to it at the end:     *)
(* behind the last stage, or with its first blockettes in the last stage.  *)
(***************************************************************************)
EXTENDS StageAssembly, SequenceLemmas

(* Following pointers along a sequence that ends with null gives it.       *)
LEMMA PathIs ==
  ASSUME NEW S, NEW null, null \notin S, NEW next, NEW max \in Nat,
         NEW P \in Seq(S), Len(P) # 0, Len(P) <= max + 1,
         \A i \in 1..Len(P) : next[P[i]] = IF i = Len(P) THEN null ELSE P[i + 1]
  PROVE  Path(P[1], null, next, max) = P
<1> DEFINE step(s) == IF next[Last(s)] = null THEN s ELSE Append(s, next[Last(s)])
           Walk(f) == f = [n \in 0..max |-> IF n = 0 THEN <<P[1]>> ELSE step(f[n - 1])]
           e(n) == IF n < Len(P) THEN n + 1 ELSE Len(P)
           g == [n \in 0..max |-> SubSeq(P, 1, e(n))]
<1>1. \A n \in Nat : e(n) \in 1..Len(P)
  OBVIOUS
<1>2. \A n \in 1..Len(P) :
        /\ SubSeq(P, 1, n) \in Seq(S) /\ Len(SubSeq(P, 1, n)) = n
        /\ Last(SubSeq(P, 1, n)) = P[n]
        /\ \A i \in 1..n : SubSeq(P, 1, n)[i] = P[i]
  BY DEF Last
<1>3. \A n \in 1..Len(P) :
        step(SubSeq(P, 1, n)) = IF n = Len(P) THEN P ELSE SubSeq(P, 1, n + 1)
  <2>1. SUFFICES ASSUME NEW n \in 1..Len(P)
                 PROVE  step(SubSeq(P, 1, n)) = IF n = Len(P) THEN P ELSE SubSeq(P, 1, n + 1)
    OBVIOUS
  <2>2. Last(SubSeq(P, 1, n)) = P[n]
    BY <1>2
  <2>3. CASE n = Len(P)
    <3>1. SubSeq(P, 1, n) = P
      BY <2>3
    <3> QED BY <2>2, <2>3, <3>1
  <2>4. CASE n # Len(P)
    <3>1. n + 1 \in 1..Len(P) /\ next[P[n]] = P[n + 1] /\ P[n + 1] # null
      BY <2>4
    <3>2. Append(SubSeq(P, 1, n), P[n + 1]) = SubSeq(P, 1, n + 1)
      BY <3>1
    <3> QED BY <2>2, <2>4, <3>1, <3>2
  <2> QED BY <2>3, <2>4
<1>4. SubSeq(P, 1, Len(P)) = P
  OBVIOUS
<1>5. \A n \in 0..max : g[n] = IF n = 0 THEN <<P[1]>> ELSE step(g[n - 1])
  <2>1. g[0] = <<P[1]>>
    <3>1. g[0] = SubSeq(P, 1, 1)
      OBVIOUS
    <3>2. SubSeq(P, 1, 1) \in Seq(S) /\ Len(SubSeq(P, 1, 1)) = 1 /\ SubSeq(P, 1, 1)[1] = P[1]
      BY <1>2
    <3>3. \A q \in Seq(S) : Len(q) = 1 /\ q[1] = P[1] => q = <<P[1]>>
      OBVIOUS
    <3> HIDE DEF g
    <3> QED BY <3>1, <3>2, <3>3
  <2>2. ASSUME NEW n \in 1..max PROVE g[n] = step(g[n - 1])
    <3>1. g[n] = SubSeq(P, 1, e(n)) /\ g[n - 1] = SubSeq(P, 1, e(n - 1)) /\ n - 1 \in Nat
      OBVIOUS
    <3>2. e(n - 1) \in 1..Len(P) /\ e(n) = IF e(n - 1) = Len(P) THEN Len(P) ELSE e(n - 1) + 1
      BY <3>1
    <3> HIDE DEF e, g, step
    <3> QED BY <1>3, <1>4, <3>1, <3>2
  <2>3. SUFFICES ASSUME NEW n \in 0..max
                 PROVE  g[n] = IF n = 0 THEN <<P[1]>> ELSE step(g[n - 1])
    OBVIOUS
  <2> HIDE DEF g, step
  <2>4. CASE n = 0
    BY <2>1, <2>4
  <2>5. CASE n # 0
    <3>1. n \in 1..max
      BY <2>5
    <3> QED BY <2>2, <2>5, <3>1
  <2> QED BY <2>4, <2>5
<1>6. Walk(g)
  <2> DEFINE h == [n \in 0..max |-> IF n = 0 THEN <<P[1]>> ELSE step(g[n - 1])]
  <2>1. g = [n \in 0..max |-> g[n]] /\ h = [n \in 0..max |-> h[n]]
    OBVIOUS
  <2>2. \A n \in 0..max : g[n] = h[n]
    <3> HIDE DEF g, step
    <3> QED BY <1>5
  <2>3. g = h
    <3> HIDE DEF g, h
    <3> QED BY <2>1, <2>2
  <2> HIDE DEF g, step
  <2> QED BY <2>3
<1>7. PICK f : Walk(f) /\ Path(P[1], null, next, max) = f[max]
  <2> HIDE DEF g
  <2>1. \E f : Walk(f)
    BY <1>6
  <2> QED BY <2>1 DEF Path
<1>8. \A n \in 0..max : f[n] = IF n = 0 THEN <<P[1]>> ELSE step(f[n - 1])
  <2> HIDE DEF step
  <2> QED BY <1>7
<1>9. f[max] = g[max]
  <2> DEFINE T == {n \in Nat : n \in 0..max => f[n] = g[n]}
  <2>1. 0 \in T
    <3> HIDE DEF g, step
    <3> QED BY <1>5, <1>8
  <2>2. ASSUME NEW n \in Nat, n \in T PROVE n + 1 \in T
    <3>1. SUFFICES ASSUME n + 1 \in 0..max PROVE f[n + 1] = g[n + 1]
      OBVIOUS
    <3>2. n \in 0..max /\ n + 1 # 0 /\ (n + 1) - 1 = n
      BY <3>1
    <3>3. f[n] = g[n]
      BY <2>2, <3>2
    <3> HIDE DEF g, step, T
    <3> QED BY <1>5, <1>8, <3>1, <3>2, <3>3
  <2>3. Nat \subseteq T
    <3> HIDE DEF T
    <3> QED BY <2>1, <2>2, Induction
  <2>4. max \in T
    <3> HIDE DEF T
    <3> QED BY <2>3
  <2> HIDE DEF g, step
  <2> QED BY <2>4
<1>10. g[max] = P
  <2>1. e(max) = Len(P) /\ max \in 0..max
    OBVIOUS
  <2>2. g[max] = SubSeq(P, 1, e(max))
    BY <2>1
  <2> HIDE DEF g, e
  <2> QED BY <1>4, <2>1, <2>2
<1> QED BY <1>7, <1>9, <1>10

(* The runs of a text, one blockette at a time.                            *)
LEMMA GroupsNext ==
  ASSUME NEW t, NEW n \in Nat
  PROVE  /\ Groups(t, 0) = <<>>
         /\ Groups(t, n + 1) = AddToGroups(t, Groups(t, n), n + 1)
<1> DEFINE step(x, i) == AddToGroups(t, x, i)
           Upto(u, f) == f = [i \in 0..u |-> IF i = 0 THEN <<>> ELSE step(f[i - 1], i)]
           T == {u \in Nat : \E f : Upto(u, f)}
<1> HIDE DEF step
<1>1. 0 \in T
  <2>1. Upto(0, [i \in 0..0 |-> <<>>])
    OBVIOUS
  <2> QED BY <2>1
<1>2. ASSUME NEW u \in Nat, u \in T PROVE u + 1 \in T
  <2>1. PICK f : Upto(u, f)
    BY <1>2
  <2> DEFINE h == [i \in 0..(u + 1) |-> IF i = u + 1 THEN step(f[u], u + 1) ELSE f[i]]
  <2>2. \A i \in 0..(u + 1) : h[i] = IF i = 0 THEN <<>> ELSE step(h[i - 1], i)
    <3>1. SUFFICES ASSUME NEW i \in 0..(u + 1)
                   PROVE  h[i] = IF i = 0 THEN <<>> ELSE step(h[i - 1], i)
      OBVIOUS
    <3>2. CASE i = u + 1
      <4>1. u \in 0..(u + 1) /\ u # u + 1 /\ i - 1 = u /\ i # 0
        BY <3>2
      <4>2. h[u] = f[u]
        BY <4>1
      <4> QED BY <3>2, <4>1, <4>2
    <3>3. CASE i # u + 1
      <4>1. i \in 0..u /\ h[i] = f[i]
        BY <3>3
      <4>2. f[i] = IF i = 0 THEN <<>> ELSE step(f[i - 1], i)
        BY <2>1, <4>1
      <4>3. i # 0 => i - 1 \in 0..(u + 1) /\ i - 1 # u + 1 /\ h[i - 1] = f[i - 1]
        BY <4>1
      <4> QED BY <4>1, <4>2, <4>3
    <3> QED BY <3>2, <3>3
  <2>3. Upto(u + 1, h)
    <3> DEFINE d == [i \in 0..(u + 1) |-> IF i = 0 THEN <<>> ELSE step(h[i - 1], i)]
    <3>1. \A i \in 0..(u + 1) : h[i] = d[i]
      BY <2>2
    <3>2. h = [i \in 0..(u + 1) |-> h[i]] /\ d = [i \in 0..(u + 1) |-> d[i]]
      OBVIOUS
    <3>3. h = d
      <4> HIDE DEF h, d
      <4> QED BY <3>1, <3>2
    <3> QED BY <3>3
  <2>4. \E f2 : Upto(u + 1, f2)
    <3> HIDE DEF h, Upto
    <3> QED BY <2>3
  <2> HIDE DEF Upto
  <2> QED BY <2>4
<1>3. \A u \in Nat : \E f : Upto(u, f)
  <2>1. Nat \subseteq T
    <3> HIDE DEF T
    <3> QED BY <1>1, <1>2, Induction
  <2> HIDE DEF Upto
  <2> QED BY <2>1
<1>4. \A u \in Nat : \E f : Upto(u, f) /\ Groups(t, u) = f[u]
  <2>1. SUFFICES ASSUME NEW u \in Nat PROVE \E f : Upto(u, f) /\ Groups(t, u) = f[u]
    OBVIOUS
  <2>2. \E f : Upto(u, f)
    BY <1>3
  <2> QED BY <2>2 DEF Groups, step
<1>5. PICK f : Upto(n, f) /\ Groups(t, n) = f[n]
  <2> HIDE DEF Upto
  <2> QED BY <1>4
<1>6. PICK g : Upto(n + 1, g) /\ Groups(t, n + 1) = g[n + 1]
  <2>1. n + 1 \in Nat
    OBVIOUS
  <2> HIDE DEF Upto
  <2> QED BY <1>4, <2>1
<1>7. \A i \in 0..n : f[i] = IF i = 0 THEN <<>> ELSE step(f[i - 1], i)
  BY <1>5
<1>8. \A i \in 0..(n + 1) : g[i] = IF i = 0 THEN <<>> ELSE step(g[i - 1], i)
  BY <1>6
<1>9. f[n] = g[n]
  <2> DEFINE U == {i \in Nat : i \in 0..n => f[i] = g[i]}
  <2>1. 0 \in U
    BY <1>7, <1>8
  <2>2. ASSUME NEW i \in Nat, i \in U PROVE i + 1 \in U
    <3>1. SUFFICES ASSUME i + 1 \in 0..n PROVE f[i + 1] = g[i + 1]
      OBVIOUS
    <3>2. i \in 0..n /\ i + 1 \in 0..(n + 1) /\ i + 1 # 0 /\ (i + 1) - 1 = i
      BY <3>1
    <3>3. f[i] = g[i]
      BY <2>2, <3>2
    <3> HIDE DEF U
    <3> QED BY <1>7, <1>8, <3>1, <3>2, <3>3
  <2>3. Nat \subseteq U
    <3> HIDE DEF U
    <3> QED BY <2>1, <2>2, Induction
  <2> QED BY <2>3
<1>10. g[n + 1] = step(g[n], n + 1)
  <2>1. n + 1 \in 0..(n + 1) /\ n + 1 # 0 /\ (n + 1) - 1 = n
    OBVIOUS
  <2> QED BY <1>8, <2>1
<1>11. Groups(t, 0) = <<>>
  <2>1. PICK f0 : Upto(0, f0) /\ Groups(t, 0) = f0[0]
    BY <1>4
  <2>2. f0[0] = <<>>
    BY <2>1
  <2> QED BY <2>1, <2>2
<1> QED BY <1>5, <1>6, <1>9, <1>10, <1>11 DEF step

-----------------------------------------------------------------------------
(* Joining to a list: the first element of what is joined is left out when *)
(* it is hung in the last element there is.                                *)
Joined(L, N, e) ==
  [i \in 1..(Len(L) + Len(N) - e) |-> IF i <= Len(L) THEN L[i] ELSE N[i - Len(L) + e]]

(* The same for the blockettes, where the last element takes them up.      *)
JoinedBlkts(B, C, e) ==
  [i \in 1..(Len(B) + Len(C) - e) |->
         IF i > Len(B) THEN C[i - Len(B) + e]
         ELSE IF e = 1 /\ i = Len(B) THEN B[i] \o C[1]
         ELSE B[i]]

(* A function on 1..n to S is a sequence.                                  *)
LEMMA SequenceIs ==
  ASSUME NEW S, NEW n \in Nat, NEW f, f = [i \in 1..n |-> f[i]], \A i \in 1..n : f[i] \in S
  PROVE  f \in Seq(S) /\ Len(f) = n
OBVIOUS

(* What Joined gives, element by element.                                  *)
LEMMA JoinedIs ==
  ASSUME NEW S, NEW L \in Seq(S), NEW N \in Seq(S), Len(N) # 0,
         NEW e \in Nat, e <= 1
  PROVE  /\ Joined(L, N, e) \in Seq(S)
         /\ Len(Joined(L, N, e)) = Len(L) + Len(N) - e
         /\ \A i \in 1..Len(L) : Joined(L, N, e)[i] = L[i]
         /\ \A j \in 1..Len(N) : j > e => Joined(L, N, e)[Len(L) + j - e] = N[j]
<1> DEFINE n == Len(L) + Len(N) - e
           J == [i \in 1..n |-> IF i <= Len(L) THEN L[i] ELSE N[i - Len(L) + e]]
<1>1. n \in Nat /\ Len(L) \in Nat /\ Len(N) \in Nat /\ e \in {0, 1} /\ n >= Len(L)
  OBVIOUS
<1>2. Joined(L, N, e) = J
  BY DEF Joined
<1>3. \A i \in 1..n : J[i] \in S
  <2>1. SUFFICES ASSUME NEW i \in 1..n PROVE J[i] \in S
    OBVIOUS
  <2>2. CASE i <= Len(L)
    BY <1>1, <2>2
  <2>3. CASE i > Len(L)
    <3>1. i - Len(L) + e \in 1..Len(N) /\ J[i] = N[i - Len(L) + e]
      BY <1>1, <2>3
    <3> QED BY <3>1
  <2> QED BY <1>1, <2>2, <2>3
<1>4. J \in Seq(S) /\ Len(J) = n
  BY <1>1, <1>3
<1>5. \A i \in 1..Len(L) : J[i] = L[i]
  BY <1>1
<1>6. \A j \in 1..Len(N) : j > e => J[Len(L) + j - e] = N[j]
  <2>1. SUFFICES ASSUME NEW j \in 1..Len(N), j > e PROVE J[Len(L) + j - e] = N[j]
    OBVIOUS
  <2>2. /\ Len(L) + j - e \in 1..n /\ ~ (Len(L) + j - e <= Len(L))
        /\ (Len(L) + j - e) - Len(L) + e = j
    BY <1>1, <2>1
  <2> QED BY <2>2
<1> HIDE DEF J
<1> QED BY <1>2, <1>4, <1>5, <1>6

(* J is B, and C behind it.                                                *)
BlktsJoinedAre(J, B, C, e) ==
  /\ \A i \in 1..Len(B) : J[i] = IF e = 1 /\ i = Len(B) THEN B[i] \o C[1] ELSE B[i]
  /\ \A j \in 1..Len(C) : j > e => J[Len(B) + j - e] = C[j]

(* What JoinedBlkts gives, element by element.                             *)
LEMMA JoinedBlktsIs ==
  ASSUME NEW S, NEW B \in Seq(Seq(S)), NEW C \in Seq(Seq(S)), Len(C) # 0,
         NEW e \in Nat, e <= 1,
         e = 1 => Len(B) # 0
  PROVE  /\ JoinedBlkts(B, C, e) \in Seq(Seq(S))
         /\ Len(JoinedBlkts(B, C, e)) = Len(B) + Len(C) - e
         /\ BlktsJoinedAre(JoinedBlkts(B, C, e), B, C, e)
<1> DEFINE n == Len(B) + Len(C) - e
           J == [i \in 1..n |-> IF i > Len(B) THEN C[i - Len(B) + e]
                                ELSE IF e = 1 /\ i = Len(B) THEN B[i] \o C[1]
                                ELSE B[i]]
<1>1. n \in Nat /\ Len(B) \in Nat /\ Len(C) \in Nat /\ e \in {0, 1} /\ n >= Len(B)
  OBVIOUS
<1>2. JoinedBlkts(B, C, e) = J
  BY DEF JoinedBlkts
<1>3. \A i \in 1..n : J[i] \in Seq(S)
  <2>1. SUFFICES ASSUME NEW i \in 1..n PROVE J[i] \in Seq(S)
    OBVIOUS
  <2>2. CASE i <= Len(B)
    <3>1. B[i] \in Seq(S) /\ C[1] \in Seq(S)
      BY <1>1, <2>2
    <3>2. B[i] \o C[1] \in Seq(S)
      BY <3>1
    <3>3. J[i] = IF e = 1 /\ i = Len(B) THEN B[i] \o C[1] ELSE B[i]
      BY <1>1, <2>2
    <3> QED BY <3>1, <3>2, <3>3
  <2>3. CASE i > Len(B)
    <3>1. i - Len(B) + e \in 1..Len(C) /\ J[i] = C[i - Len(B) + e]
      BY <1>1, <2>3
    <3> QED BY <3>1
  <2> QED BY <1>1, <2>2, <2>3
<1>4. J \in Seq(Seq(S)) /\ Len(J) = n
  <2> DEFINE SS == Seq(S)
  <2>1. \A i \in 1..n : J[i] \in SS
    BY <1>3
  <2>2. J = [i \in 1..n |-> J[i]]
    OBVIOUS
  <2> HIDE DEF J, SS, n
  <2>3. J \in Seq(SS) /\ Len(J) = n
    BY <1>1, <2>1, <2>2, SequenceIs
  <2> QED BY <2>3 DEF SS
<1>5. \A i \in 1..Len(B) : J[i] = IF e = 1 /\ i = Len(B) THEN B[i] \o C[1] ELSE B[i]
  <2>1. SUFFICES ASSUME NEW i \in 1..Len(B)
                 PROVE  J[i] = IF e = 1 /\ i = Len(B) THEN B[i] \o C[1] ELSE B[i]
    OBVIOUS
  <2>2. i \in 1..n /\ ~ (i > Len(B))
    BY <1>1
  <2> QED BY <2>2
<1>6. \A j \in 1..Len(C) : j > e => J[Len(B) + j - e] = C[j]
  <2>1. SUFFICES ASSUME NEW j \in 1..Len(C), j > e PROVE J[Len(B) + j - e] = C[j]
    OBVIOUS
  <2>2. /\ Len(B) + j - e \in 1..n /\ Len(B) + j - e > Len(B)
        /\ (Len(B) + j - e) - Len(B) + e = j
    BY <1>1, <2>1
  <2> QED BY <2>2
<1> HIDE DEF J
<1> QED BY <1>2, <1>4, <1>5, <1>6 DEF BlktsJoinedAre

(* Lists of elements of S.                                                 *)
Lists(B, S) == B \in Seq(Seq(S))

(* What is known of lists, place by place.                                 *)
LEMMA ListsAre ==
  ASSUME NEW B, NEW S, Lists(B, S)
  PROVE  /\ Len(B) \in Nat
         /\ \A i \in 1..Len(B) :
              /\ B[i] \in Seq(S) /\ Len(B[i]) \in Nat
              /\ \A m \in 1..Len(B[i]) : B[i][m] \in S
BY DEF Lists

(* The same, place by place.                                               *)
PlacesJoinedAre(J, B, C, e) ==
  /\ Len(J) = Len(B) + Len(C) - e
  /\ \A i \in 1..Len(B) : ~ (e = 1 /\ i = Len(B)) => J[i] = B[i]
  /\ \A j \in 1..Len(C) : j > e => J[Len(B) + j - e] = C[j]
  /\ e = 1 =>
       LET n == Len(B)
       IN  /\ Len(J[n]) = Len(B[n]) + Len(C[1])
           /\ \A m \in 1..Len(B[n]) : J[n][m] = B[n][m]
           /\ \A p \in 1..Len(C[1]) : J[n][Len(B[n]) + p] = C[1][p]

(* What is known of lists that are joined.                                 *)
LEMMA JoinedListsAre ==
  ASSUME NEW B, NEW C, NEW S, Lists(B, S), Lists(C, S), Len(C) # 0,
         NEW e \in Nat, e <= 1, e = 1 => Len(B) # 0, NEW J, J = JoinedBlkts(B, C, e)
  PROVE  Lists(J, S) /\ PlacesJoinedAre(J, B, C, e)
<1>1. PICK A \in Seq(Seq(S)) : A = B
  BY DEF Lists
<1>2. PICK D \in Seq(Seq(S)) : D = C
  BY DEF Lists
<1>3. Len(D) # 0 /\ (e = 1 => Len(A) # 0)
  BY <1>1, <1>2
<1>4. /\ JoinedBlkts(A, D, e) \in Seq(Seq(S))
      /\ Len(JoinedBlkts(A, D, e)) = Len(A) + Len(D) - e
      /\ BlktsJoinedAre(JoinedBlkts(A, D, e), A, D, e)
  BY <1>3, JoinedBlktsIs
<1>5. \A i \in 1..Len(A) :
        JoinedBlkts(A, D, e)[i] = IF e = 1 /\ i = Len(A) THEN A[i] \o D[1] ELSE A[i]
  BY <1>4 DEF BlktsJoinedAre
<1>6. \A j \in 1..Len(D) : j > e => JoinedBlkts(A, D, e)[Len(A) + j - e] = D[j]
  BY <1>4 DEF BlktsJoinedAre
<1>7. ASSUME e = 1
      PROVE  LET n == Len(B)
             IN  /\ Len(J[n]) = Len(B[n]) + Len(C[1])
                 /\ \A m \in 1..Len(B[n]) : J[n][m] = B[n][m]
                 /\ \A p \in 1..Len(C[1]) : J[n][Len(B[n]) + p] = C[1][p]
  <2>1. Len(A) \in 1..Len(A) /\ 1 \in 1..Len(D)
    BY <1>3, <1>7
  <2>2. J[Len(A)] = A[Len(A)] \o D[1]
    BY <1>1, <1>2, <1>5, <1>7, <2>1
  <2>3. A[Len(A)] \in Seq(S) /\ D[1] \in Seq(S)
    BY <2>1
  <2> DEFINE a == B[Len(B)]
             b == C[1]
  <2>4. a \in Seq(S) /\ b \in Seq(S) /\ J[Len(B)] = a \o b
    BY <1>1, <1>2, <2>2, <2>3
  <2> HIDE DEF a, b
  <2>5. /\ Len(a \o b) = Len(a) + Len(b)
        /\ \A i \in 1..Len(a) : (a \o b)[i] = a[i]
        /\ \A i \in 1..Len(b) : (a \o b)[Len(a) + i] = b[i]
    BY <2>4, ConcatParts
  <2>6. /\ Len(J[Len(B)]) = Len(a) + Len(b)
        /\ \A i \in 1..Len(a) : J[Len(B)][i] = a[i]
        /\ \A i \in 1..Len(b) : J[Len(B)][Len(a) + i] = b[i]
    BY <2>4, <2>5
  <2> QED BY <2>6 DEF a, b
<1>8. \A i \in 1..Len(A) : ~ (e = 1 /\ i = Len(A)) => JoinedBlkts(A, D, e)[i] = A[i]
  BY <1>5
<1>9. J = JoinedBlkts(A, D, e)
  BY <1>1, <1>2
<1>10. Lists(J, S) /\ Len(J) = Len(B) + Len(C) - e
  BY <1>1, <1>2, <1>4, <1>9 DEF Lists
<1>11. \A i \in 1..Len(B) : ~ (e = 1 /\ i = Len(B)) => J[i] = B[i]
  BY <1>1, <1>8, <1>9
<1>12. \A j \in 1..Len(C) : j > e => J[Len(B) + j - e] = C[j]
  BY <1>1, <1>2, <1>6, <1>9
<1> QED BY <1>7, <1>10, <1>11, <1>12 DEF PlacesJoinedAre

(* The elements of what is joined are those of the two lists.              *)
LEMMA JoinedPlaces ==
  ASSUME NEW n \in Nat, NEW m \in Nat, NEW e \in Nat, e <= 1, m >= e,
         NEW i \in 1..(n + m - e)
  PROVE  \/ i \in 1..n
         \/ \E j \in 1..m : j > e /\ i = n + j - e
<1>1. CASE i > n
  <2>1. i - n + e \in 1..m /\ i - n + e > e /\ i = n + (i - n + e) - e
    BY <1>1
  <2> QED BY <2>1
<1> QED BY <1>1

-----------------------------------------------------------------------------
(* L lists stages of the heap st, each of them the next of the one before. *)
ListOf(L, st) ==
  /\ \A i \in 1..Len(L) : L[i] \in 1..Len(st)
  /\ \A i, j \in 1..Len(L) : L[i] = L[j] => i = j
  /\ \A i \in 1..Len(L) : st[L[i]].next = IF i = Len(L) THEN NullStage ELSE L[i + 1]

(* B are lists of blockettes, one for each stage, each linked through nxt. *)
(* No blockette is in two places, and none is at position k or later.      *)
BlktsOf(B, nxt, q) ==
  /\ \A i \in 1..Len(B) : Len(B[i]) # 0
  /\ \A i \in 1..Len(B) : \A m \in 1..Len(B[i]) :
       /\ B[i][m][1] < q
       /\ nxt[B[i][m]] = IF m = Len(B[i]) THEN NullBlkt ELSE B[i][m + 1]
  /\ \A i, j \in 1..Len(B) : \A m \in 1..Len(B[i]), n \in 1..Len(B[j]) :
       B[i][m] = B[j][n] => i = j /\ m = n

(* No two stages of the list have the same unit strings, and none has those *)
(* of a blockette at position q or later.                                   *)
ApartOf(L, st, q) ==
  \A i \in 1..Len(L) : st[L[i]].units # NullBlkt =>
    /\ st[L[i]].units[1] < q
    /\ \A j \in 1..Len(L) : st[L[j]].units = st[L[i]].units => j = i

(* The heap tt has the list L of st, and N behind its last stage.          *)
Carried(L, st, N, tt, e) ==
  /\ e = 1 => Len(L) # 0
  /\ \A i \in 1..Len(L) : tt[L[i]].next =
       IF i # Len(L) THEN st[L[i]].next
       ELSE IF e = 0 THEN N[1]
       ELSE IF Len(N) = 1 THEN NullStage ELSE N[2]
  /\ \A i \in 1..Len(L), j \in 1..Len(N) : j > e => L[i] # N[j]

(* The links mxt have the blockettes B of nxt, and C behind the last.      *)
Relinked(B, nxt, C, mxt, e, q) ==
  /\ e = 1 => Len(B) # 0
  /\ \A i \in 1..Len(B) : \A m \in 1..Len(B[i]) : mxt[B[i][m]] =
       IF e = 1 /\ i = Len(B) /\ m = Len(B[i]) THEN C[1][1] ELSE nxt[B[i][m]]
  /\ \A j \in 1..Len(C) : \A m \in 1..Len(C[j]) : C[j][m][1] >= q

(* Joined lists of stages are a list of stages.                            *)
LEMMA ListsJoin ==
  ASSUME NEW st, NEW tt, Len(st) \in Nat, Len(tt) \in Nat, Len(st) <= Len(tt),
         NEW L \in Seq(Nat), ListOf(L, st), NEW N \in Seq(Nat), ListOf(N, tt), Len(N) # 0,
         NEW e \in Nat, e <= 1, Carried(L, st, N, tt, e)
  PROVE  Joined(L, N, e) \in Seq(Nat) /\ ListOf(Joined(L, N, e), tt)
<1> DEFINE J == Joined(L, N, e)
           n == Len(L)
           m == Len(N)
<1>1. n \in Nat /\ m \in Nat /\ m >= 1 /\ e \in {0, 1}
  OBVIOUS
<1>2. /\ J \in Seq(Nat) /\ Len(J) = n + m - e
      /\ \A i \in 1..n : J[i] = L[i]
      /\ \A j \in 1..m : j > e => J[n + j - e] = N[j]
  <2>1. J \in Seq(Nat)
    BY JoinedIs
  <2>2. Len(J) = n + m - e
    BY JoinedIs
  <2>3. \A i \in 1..n : J[i] = L[i]
    BY JoinedIs
  <2>4. \A j \in 1..m : j > e => J[n + j - e] = N[j]
    BY JoinedIs
  <2> QED BY <2>1, <2>2, <2>3, <2>4
<1>3. ASSUME NEW i \in 1..Len(J)
      PROVE  i \in 1..n \/ \E j \in 1..m : j > e /\ i = n + j - e
  <2>1. /\ n \in Nat /\ m \in Nat /\ m >= e /\ i \in 1..(n + m - e)
    BY <1>1, <1>2
  <2> HIDE DEF J, n, m
  <2> QED BY <2>1, JoinedPlaces
<1> HIDE DEF J, n, m
<1>4. \A i \in 1..Len(J) : J[i] \in 1..Len(tt)
  <2>1. SUFFICES ASSUME NEW i \in 1..Len(J) PROVE J[i] \in 1..Len(tt)
    OBVIOUS
  <2>2. CASE i \in 1..n
    <3>1. L[i] \in 1..Len(st)
      BY <2>2 DEF ListOf, n
    <3> QED BY <1>2, <2>2, <3>1
  <2>3. ASSUME NEW j \in 1..m, j > e, i = n + j - e PROVE J[i] \in 1..Len(tt)
    <3>1. N[j] \in 1..Len(tt)
      BY <2>3 DEF ListOf, m
    <3> QED BY <1>2, <2>3, <3>1
  <2> QED BY <1>3, <2>2, <2>3
<1>5. \A i, j \in 1..Len(J) : J[i] = J[j] => i = j
  <2>1. SUFFICES ASSUME NEW i \in 1..Len(J), NEW j \in 1..Len(J), J[i] = J[j] PROVE i = j
    OBVIOUS
  <2>2. CASE i \in 1..n /\ j \in 1..n
    BY <1>2, <2>1, <2>2 DEF ListOf, n
  <2>3. ASSUME NEW a \in 1..m, a > e, i = n + a - e, j \in 1..n PROVE FALSE
    <3>1. J[i] = N[a] /\ J[j] = L[j]
      BY <1>2, <2>3
    <3> QED BY <2>1, <2>3, <3>1 DEF n, m, Carried
  <2>4. ASSUME NEW b \in 1..m, b > e, j = n + b - e, i \in 1..n PROVE FALSE
    <3>1. J[j] = N[b] /\ J[i] = L[i]
      BY <1>2, <2>4
    <3> QED BY <2>1, <2>4, <3>1 DEF n, m, Carried
  <2>5. ASSUME NEW a \in 1..m, a > e, i = n + a - e, NEW b \in 1..m, b > e, j = n + b - e
        PROVE  i = j
    <3>1. J[i] = N[a] /\ J[j] = N[b]
      BY <1>2, <2>5
    <3>2. a = b
      BY <2>1, <2>5, <3>1 DEF ListOf, m
    <3> QED BY <2>5, <3>2
  <2> QED BY <1>3, <2>2, <2>3, <2>4, <2>5
<1>6. \A i \in 1..Len(J) : tt[J[i]].next = IF i = Len(J) THEN NullStage ELSE J[i + 1]
  <2>1. SUFFICES ASSUME NEW i \in 1..Len(J)
                 PROVE  tt[J[i]].next = IF i = Len(J) THEN NullStage ELSE J[i + 1]
    OBVIOUS
  <2>2. CASE i \in 1..n /\ i # n
    <3>1. i + 1 \in 1..n /\ J[i] = L[i] /\ J[i + 1] = L[i + 1] /\ i # Len(J)
      BY <1>1, <1>2, <2>2
    <3>2. tt[L[i]].next = st[L[i]].next /\ st[L[i]].next = L[i + 1]
      BY <2>2 DEF ListOf, Carried, n
    <3> QED BY <3>1, <3>2
  <2>3. CASE i \in 1..n /\ i = n
    <3>1. J[i] = L[i]
      BY <1>2, <2>3
    <3>2. CASE e = 1 /\ m = 1
      <4>1. i = Len(J)
        BY <1>1, <1>2, <2>3, <3>2
      <4> QED BY <2>3, <3>1, <3>2, <4>1 DEF n, m, Carried
    <3>3. CASE e = 1 /\ m # 1
      <4>1. i # Len(J) /\ 2 \in 1..m /\ 2 > e /\ n + 2 - e = i + 1
        BY <1>1, <1>2, <2>3, <3>3
      <4>2. J[i + 1] = N[2]
        BY <1>2, <4>1
      <4> QED BY <2>3, <3>1, <3>3, <4>1, <4>2 DEF n, m, Carried
    <3>4. CASE e = 0
      <4>1. i # Len(J) /\ 1 \in 1..m /\ 1 > e /\ n + 1 - e = i + 1
        BY <1>1, <1>2, <2>3, <3>4
      <4>2. J[i + 1] = N[1]
        BY <1>2, <4>1
      <4> QED BY <2>3, <3>1, <3>4, <4>1, <4>2 DEF n, m, Carried
    <3> QED BY <3>2, <3>3, <3>4
  <2>4. ASSUME NEW a \in 1..m, a > e, i = n + a - e
        PROVE  tt[J[i]].next = IF i = Len(J) THEN NullStage ELSE J[i + 1]
    <3>1. J[i] = N[a] /\ (i = Len(J) <=> a = m)
      BY <1>1, <1>2, <2>4
    <3>2. tt[N[a]].next = IF a = m THEN NullStage ELSE N[a + 1]
      BY <2>4 DEF ListOf, m
    <3>3. a # m => J[i + 1] = N[a + 1]
      <4>1. SUFFICES ASSUME a # m PROVE J[i + 1] = N[a + 1]
        OBVIOUS
      <4>2. a + 1 \in 1..m /\ a + 1 > e /\ n + (a + 1) - e = i + 1
        BY <1>1, <2>4, <4>1
      <4>3. J[n + (a + 1) - e] = N[a + 1]
        BY <1>2, <4>2
      <4> QED BY <4>2, <4>3
    <3> QED BY <3>1, <3>2, <3>3
  <2> QED BY <1>3, <2>2, <2>3, <2>4
<1> QED BY <1>2, <1>4, <1>5, <1>6 DEF ListOf, J

(* The last blockette of lists of blockettes.                              *)
LastBlkt(B) == B[Len(B)][Len(B[Len(B)])]

(* The links mxt have the blockettes C, up to position r, behind those of  *)
(* B in nxt, up to position q.                                             *)
Extended(S, B, nxt, q, C, mxt, r, e) ==
  /\ q \in Nat /\ r \in Nat /\ q <= r
  /\ \A b \in S : b[1] \in Nat
  /\ Lists(B, S) /\ BlktsOf(B, nxt, q)
  /\ Lists(C, S) /\ BlktsOf(C, mxt, r) /\ Len(C) # 0
  /\ e \in Nat /\ e <= 1 /\ Relinked(B, nxt, C, mxt, e, q)

(* Joined lists of blockettes are lists of blockettes.                     *)
LEMMA BlktsJoin ==
  ASSUME NEW S, NEW B, NEW nxt, NEW q, NEW C, NEW mxt, NEW r, NEW e,
         Extended(S, B, nxt, q, C, mxt, r, e),
         NEW J, J = JoinedBlkts(B, C, e)
  PROVE  /\ Lists(J, S) /\ BlktsOf(J, mxt, r)
         /\ LastBlkt(J) = LastBlkt(C)
<1> /\ q \in Nat /\ r \in Nat /\ q <= r
    /\ \A b \in S : b[1] \in Nat
    /\ Lists(B, S) /\ BlktsOf(B, nxt, q)
    /\ Lists(C, S) /\ BlktsOf(C, mxt, r) /\ Len(C) # 0
    /\ e \in Nat /\ e <= 1 /\ Relinked(B, nxt, C, mxt, e, q)
  BY DEF Extended
<1> DEFINE n == Len(B)
           c == Len(C)
<1>1. n \in Nat /\ c \in Nat /\ c >= 1 /\ (e = 1 => n >= 1)
  BY ListsAre DEF Relinked
<1>20. e = 1 => Len(B) # 0
  BY DEF Relinked
<1>2. Lists(J, S) /\ PlacesJoinedAre(J, B, C, e)
  BY <1>20, JoinedListsAre
<1>62. \A i \in 1..n : ~ (e = 1 /\ i = n) => J[i] = B[i]
  BY <1>2 DEF PlacesJoinedAre
<1>63. \A j \in 1..c : j > e => J[n + j - e] = C[j]
  BY <1>2 DEF PlacesJoinedAre
<1>64. Len(J) = n + c - e
  BY <1>2 DEF PlacesJoinedAre
<1>5. ASSUME e = 1
      PROVE  /\ Len(J[n]) = Len(B[n]) + Len(C[1])
             /\ \A m \in 1..Len(B[n]) : J[n][m] = B[n][m]
             /\ \A p \in 1..Len(C[1]) : J[n][Len(B[n]) + p] = C[1][p]
  BY <1>2, <1>5 DEF PlacesJoinedAre
<1> HIDE DEF n, c
<1>3. ASSUME NEW i \in 1..Len(J)
      PROVE  i \in 1..n \/ \E j \in 1..c : j > e /\ i = n + j - e
  <2>1. c >= e /\ i \in 1..(n + c - e)
    BY <1>1, <1>64
  <2> QED BY <1>1, <2>1, JoinedPlaces
<1>4. /\ \A i \in 1..n : Len(B[i]) \in Nat /\ Len(B[i]) >= 1
      /\ \A j \in 1..c : Len(C[j]) \in Nat /\ Len(C[j]) >= 1
  BY ListsAre DEF BlktsOf, n, c
<1>50. PICK h \in Nat, g \in Nat : e = 1 =>
         /\ n \in 1..n /\ 1 \in 1..c /\ h = Len(B[n]) /\ g = Len(C[1]) /\ h >= 1 /\ g >= 1
         /\ Len(J[n]) = h + g
         /\ \A m \in 1..h : J[n][m] = B[n][m]
         /\ \A p \in 1..g : J[n][h + p] = C[1][p]
  <2>1. CASE e = 1
    <3>1. n \in 1..n /\ 1 \in 1..c
      BY <1>1, <2>1
    <3>2. /\ Len(B[n]) \in Nat /\ Len(C[1]) \in Nat
          /\ Len(B[n]) >= 1 /\ Len(C[1]) >= 1
      BY <1>4, <3>1
    <3> QED BY <1>5, <2>1, <3>1, <3>2
  <2>2. CASE e # 1
    <3>1. 0 \in Nat
      OBVIOUS
    <3> QED BY <2>2, <3>1
  <2> QED BY <2>1, <2>2
<1> DEFINE old(i, m) ==
             /\ i \in 1..n /\ m \in 1..Len(B[i]) /\ J[i][m] = B[i][m]
             /\ ~ (e = 1 /\ i = n) => J[i] = B[i]
           new(i, m, j, p) ==
             /\ j \in 1..c /\ p \in 1..Len(C[j]) /\ J[i][m] = C[j][p]
             /\ j > e => i = n + j - e /\ m = p /\ J[i] = C[j]
             /\ j <= e => e = 1 /\ i = n /\ j = 1 /\ m = h + p
<1>6. ASSUME NEW i \in 1..Len(J), NEW m \in 1..Len(J[i])
      PROVE  old(i, m) \/ \E j, p \in Nat : new(i, m, j, p)
  <2>1. CASE i \in 1..n /\ ~ (e = 1 /\ i = n)
    <3>1. J[i] = B[i]
      BY <1>62, <2>1
    <3> QED BY <1>6, <2>1, <3>1
  <2>2. CASE e = 1 /\ i = n
    <3>0. m \in 1..(h + g)
      BY <1>50, <1>6, <2>2
    <3>1. CASE m <= h
      <4>1. m \in 1..h
        BY <3>0, <3>1
      <4> QED BY <1>50, <2>2, <4>1
    <3>2. CASE m > h
      <4>1. PICK p \in 1..g : m = h + p
        <5>1. m - h \in 1..g /\ m = h + (m - h)
          BY <3>0, <3>2
        <5> QED BY <5>1
      <4>2. new(i, m, 1, p)
        BY <1>50, <2>2, <4>1
      <4>3. 1 \in Nat /\ p \in Nat
        OBVIOUS
      <4> HIDE DEF old, new
      <4> QED BY <4>2, <4>3
    <3> QED BY <3>0, <3>1, <3>2
  <2>3. ASSUME NEW j \in 1..c, j > e, i = n + j - e
        PROVE  \E a, p \in Nat : new(i, m, a, p)
    <3>1. J[i] = C[j]
      BY <1>63, <2>3
    <3>2. m \in 1..Len(C[j]) /\ Len(C[j]) \in Nat
      BY <1>4, <1>6, <3>1
    <3>3. new(i, m, j, m)
      BY <2>3, <3>1, <3>2
    <3>4. j \in Nat /\ m \in Nat
      BY <1>1, <3>2
    <3> HIDE DEF old, new
    <3> QED BY <3>3, <3>4
  <2> HIDE DEF old, new
  <2> QED BY <1>3, <1>6, <2>1, <2>2, <2>3
<1>7. \A i \in 1..Len(J) : Len(J[i]) # 0
  <2>1. SUFFICES ASSUME NEW i \in 1..Len(J) PROVE Len(J[i]) # 0
    OBVIOUS
  <2>2. CASE i \in 1..n /\ ~ (e = 1 /\ i = n)
    BY <1>62, <1>63, <1>64, <1>4, <2>2
  <2>3. CASE e = 1 /\ i = n
    BY <1>50, <2>3
  <2>4. ASSUME NEW j \in 1..c, j > e, i = n + j - e PROVE Len(J[i]) # 0
    BY <1>62, <1>63, <1>64, <1>4, <2>4
  <2> QED BY <1>3, <2>2, <2>3, <2>4
<1>8. \A i \in 1..n : \A m \in 1..Len(B[i]) :
        B[i][m] \in S /\ B[i][m][1] < q /\ B[i][m][1] \in Nat
  BY ListsAre DEF BlktsOf, n
<1>9. \A j \in 1..c : \A p \in 1..Len(C[j]) :
        C[j][p] \in S /\ C[j][p][1] < r /\ C[j][p][1] >= q /\ C[j][p][1] \in Nat
  BY ListsAre DEF BlktsOf, Relinked, c
<1>10. \A i \in 1..Len(J) : \A m \in 1..Len(J[i]) :
         /\ J[i][m][1] < r
         /\ mxt[J[i][m]] = IF m = Len(J[i]) THEN NullBlkt ELSE J[i][m + 1]
  <2>1. SUFFICES ASSUME NEW i \in 1..Len(J), NEW m \in 1..Len(J[i])
                 PROVE  /\ J[i][m][1] < r
                        /\ mxt[J[i][m]] = IF m = Len(J[i]) THEN NullBlkt ELSE J[i][m + 1]
    OBVIOUS
  <2>2. CASE old(i, m)
    <3>1. J[i][m][1] < r
      BY <1>8, <2>2
    <3>2. CASE e = 1 /\ i = n
      <4>1. m \in 1..h /\ Len(J[i]) = h + g /\ h = Len(B[i]) /\ g >= 1
        BY <1>50, <2>2, <3>2
      <4>2. CASE m = h
        <5>1. m # Len(J[i]) /\ 1 \in 1..g
          BY <4>1, <4>2
        <5>2. J[i][m + 1] = C[1][1]
          BY <1>50, <3>2, <4>2, <5>1
        <5>3. mxt[B[i][m]] = C[1][1]
          BY <2>2, <3>2, <4>1, <4>2 DEF n, Relinked
        <5> QED BY <2>2, <3>1, <5>1, <5>2, <5>3
      <4>3. CASE m # h
        <5>1. m + 1 \in 1..h /\ m # Len(J[i])
          BY <4>1, <4>3
        <5>2. J[i][m + 1] = B[i][m + 1]
          BY <1>50, <3>2, <5>1
        <5>3. mxt[B[i][m]] = nxt[B[i][m]]
          BY <2>2, <4>1, <4>3 DEF n, Relinked
        <5>4. nxt[B[i][m]] = B[i][m + 1]
          BY <2>2, <4>1, <4>3 DEF n, BlktsOf
        <5> QED BY <2>2, <3>1, <5>1, <5>2, <5>3, <5>4
      <4> QED BY <4>2, <4>3
    <3>3. CASE ~ (e = 1 /\ i = n)
      <4>1. J[i] = B[i]
        BY <2>2, <3>3
      <4>2. mxt[B[i][m]] = nxt[B[i][m]]
        BY <2>2, <3>3 DEF n, Relinked
      <4>3. nxt[B[i][m]] = IF m = Len(B[i]) THEN NullBlkt ELSE B[i][m + 1]
        BY <2>2 DEF n, BlktsOf
      <4> QED BY <3>1, <4>1, <4>2, <4>3
    <3> QED BY <3>2, <3>3
  <2>3. ASSUME NEW j \in Nat, NEW p \in Nat, new(i, m, j, p)
        PROVE  /\ J[i][m][1] < r
               /\ mxt[J[i][m]] = IF m = Len(J[i]) THEN NullBlkt ELSE J[i][m + 1]
    <3>1. J[i][m][1] < r
      BY <1>9, <2>3
    <3>2. mxt[C[j][p]] = IF p = Len(C[j]) THEN NullBlkt ELSE C[j][p + 1]
      BY <2>3 DEF c, BlktsOf
    <3>3. CASE j > e
      <4>1. J[i] = C[j] /\ m = p
        BY <2>3, <3>3
      <4> QED BY <2>3, <3>1, <3>2, <4>1
    <3>4. CASE j <= e
      <4>1. e = 1 /\ i = n /\ j = 1 /\ m = h + p
        BY <2>3, <3>4
      <4>2. Len(J[i]) = h + g /\ p \in 1..g /\ g = Len(C[j])
        BY <1>50, <2>3, <4>1
      <4>3. p = g => m = Len(J[i])
        BY <4>1, <4>2
      <4>4. p # g => m # Len(J[i]) /\ p + 1 \in 1..g /\ m + 1 = h + (p + 1)
        BY <4>1, <4>2
      <4>5. p # g => J[i][m + 1] = C[j][p + 1]
        BY <1>50, <4>1, <4>4
      <4> QED BY <2>3, <3>1, <3>2, <4>2, <4>3, <4>4, <4>5
    <3> QED BY <2>3, <3>3, <3>4
  <2> HIDE DEF old, new
  <2> QED BY <1>6, <2>2, <2>3
<1>11. \A i, j \in 1..Len(J) : \A m \in 1..Len(J[i]), p \in 1..Len(J[j]) :
         J[i][m] = J[j][p] => i = j /\ m = p
  <2>1. SUFFICES ASSUME NEW i \in 1..Len(J), NEW j \in 1..Len(J),
                        NEW m \in 1..Len(J[i]), NEW p \in 1..Len(J[j]), J[i][m] = J[j][p]
                 PROVE  i = j /\ m = p
    OBVIOUS
  <2>2. CASE old(i, m) /\ old(j, p)
    <3>1. B[i][m] = B[j][p]
      BY <2>1, <2>2
    <3>2. /\ i \in 1..Len(B) /\ j \in 1..Len(B)
          /\ m \in 1..Len(B[i]) /\ p \in 1..Len(B[j])
      BY <2>2 DEF n
    <3> QED BY <3>1, <3>2 DEF BlktsOf
  <2>3. ASSUME old(i, m), NEW a \in Nat, NEW b \in Nat, new(j, p, a, b) PROVE FALSE
    <3>1. J[i][m][1] < q /\ J[j][p][1] >= q /\ J[i][m][1] \in Nat
      BY <1>8, <1>9, <2>3
    <3> QED BY <2>1, <3>1
  <2>4. ASSUME old(j, p), NEW a \in Nat, NEW b \in Nat, new(i, m, a, b) PROVE FALSE
    <3>1. J[j][p][1] < q /\ J[i][m][1] >= q /\ J[j][p][1] \in Nat
      BY <1>8, <1>9, <2>4
    <3> QED BY <2>1, <3>1
  <2>5. ASSUME NEW a \in Nat, NEW b \in Nat, new(i, m, a, b),
               NEW a2 \in Nat, NEW b2 \in Nat, new(j, p, a2, b2)
        PROVE  i = j /\ m = p
    <3>1. C[a][b] = C[a2][b2]
      BY <2>1, <2>5
    <3>2. /\ a \in 1..Len(C) /\ a2 \in 1..Len(C)
          /\ b \in 1..Len(C[a]) /\ b2 \in 1..Len(C[a2])
      BY <2>5 DEF c
    <3>3. a = a2 /\ b = b2
      <4>1. \A i1, j1 \in 1..Len(C) : \A m1 \in 1..Len(C[i1]), n1 \in 1..Len(C[j1]) :
              C[i1][m1] = C[j1][n1] => i1 = j1 /\ m1 = n1
        BY DEF BlktsOf
      <4>2. \A n1 \in 1..Len(C[a2]) : C[a][b] = C[a2][n1] => a = a2 /\ b = n1
        BY <3>2, <4>1
      <4> QED BY <3>1, <3>2, <4>2
    <3>4. CASE a > e
      BY <2>5, <3>3, <3>4
    <3>5. CASE a <= e
      BY <2>5, <3>3, <3>5
    <3> QED BY <2>5, <3>4, <3>5
  <2> HIDE DEF old, new
  <2> QED BY <1>6, <2>2, <2>3, <2>4, <2>5
<1>12. J[Len(J)][Len(J[Len(J)])] = C[c][Len(C[c])]
  <2>1. CASE c > e
    <3>1. c \in 1..c /\ n + c - e = Len(J)
      BY <1>1, <1>64
    <3>2. J[Len(J)] = C[c]
      BY <1>63, <2>1, <3>1
    <3> QED BY <3>2
  <2>2. CASE ~ (c > e)
    <3>1. c = 1 /\ e = 1 /\ Len(J) = n
      BY <1>1, <1>64, <2>2
    <3>2. g \in 1..g /\ Len(J[n]) = h + g /\ g = Len(C[1])
      BY <1>50, <3>1
    <3> QED BY <1>50, <3>1, <3>2
  <2> QED BY <2>1, <2>2
<1>13. BlktsOf(J, mxt, r)
  BY <1>7, <1>10, <1>11 DEF BlktsOf
<1> QED BY <1>2, <1>12, <1>13 DEF c, LastBlkt

(* The stages of a text's blockettes are numbers, and none of them is null. *)
LEMMA BlktsAre ==
  ASSUME NEW t
  PROVE  /\ \A b \in Blkts(t) : b[1] \in DOMAIN t /\ b = <<b[1], b[2], b[3]>>
         /\ \A p \in DOMAIN t : <<p, 0, 0>> \in Blkts(t)
         /\ \A p \in DOMAIN t : t[p].kind = "ref" =>
              \A s \in DOMAIN t[p].stages : \A r \in 0..Len(t[p].stages[s].resps) :
                <<p, s, r>> \in Blkts(t)
BY DEF Blkts

(* What becomes of the unit strings when stages are joined.                *)
UnitsCarried(L, st, N, tt, e, q, r) ==
  /\ \A i \in 1..Len(L) : e = 0 \/ i # Len(L) \/ Len(N) # 1 =>
       tt[L[i]].units = st[L[i]].units
  /\ e = 1 =>
       LET u == tt[L[Len(L)]].units
       IN  u = st[L[Len(L)]].units \/ u = NullBlkt \/ (u[1] >= q /\ u[1] < r)
  /\ \A j \in 1..Len(N) : j > e /\ tt[N[j]].units # NullBlkt =>
       /\ tt[N[j]].units[1] >= q /\ tt[N[j]].units[1] < r
       /\ \A a \in 1..Len(N) : a > e /\ tt[N[a]].units = tt[N[j]].units => a = j

(* Stages of a joined list own their strings alone.                        *)
LEMMA ApartJoin ==
  ASSUME NEW st, NEW tt, NEW q \in Nat, NEW r \in Nat, q <= r,
         NEW L \in Seq(Nat), NEW N \in Seq(Nat), Len(N) # 0,
         NEW e \in Nat, e <= 1, e = 1 => Len(L) # 0, ApartOf(L, st, q),
         UnitsCarried(L, st, N, tt, e, q, r),
         \A i \in 1..Len(L) : st[L[i]].units # NullBlkt => st[L[i]].units[1] \in Nat,
         \A i \in 1..Len(L) : tt[L[i]].units # NullBlkt => tt[L[i]].units[1] \in Nat,
         \A j \in 1..Len(N) : tt[N[j]].units # NullBlkt => tt[N[j]].units[1] \in Nat
  PROVE  ApartOf(Joined(L, N, e), tt, r)
<1> DEFINE J == Joined(L, N, e)
           n == Len(L)
           m == Len(N)
           old(i) == i \in 1..n /\ J[i] = L[i] /\ tt[J[i]].units = st[L[i]].units
           new(i, j) == /\ j \in 1..m /\ j > e /\ J[i] = N[j] /\ i = n + j - e
                        /\ tt[J[i]].units # NullBlkt =>
                             tt[J[i]].units[1] >= q /\ tt[J[i]].units[1] < r
           changed(i) == /\ i = n /\ e = 1 /\ m = 1 /\ i \in 1..n /\ J[i] = L[i]
                         /\ tt[J[i]].units # NullBlkt =>
                              tt[J[i]].units[1] >= q /\ tt[J[i]].units[1] < r
<1>1. n \in Nat /\ m \in Nat /\ m >= 1 /\ (e = 1 => n \in 1..n)
  OBVIOUS
<1>2. Len(J) = n + m - e
  BY JoinedIs
<1>3. \A i \in 1..n : J[i] = L[i]
  BY JoinedIs
<1>4. \A j \in 1..m : j > e => J[n + j - e] = N[j]
  BY JoinedIs
<1> HIDE DEF J
<1>5. ASSUME NEW i \in 1..Len(J)
      PROVE  old(i) \/ changed(i) \/ \E j \in Nat : new(i, j)
  <2>1. i \in 1..n \/ \E j \in 1..m : j > e /\ i = n + j - e
    <3>1. m >= e /\ i \in 1..(n + m - e)
      BY <1>1, <1>2
    <3> HIDE DEF n, m
    <3> QED BY <1>1, <3>1, JoinedPlaces
  <2>2. CASE i \in 1..n
    <3>1. J[i] = L[i]
      BY <1>3, <2>2
    <3>2. CASE e = 0 \/ i # n \/ m # 1
      BY <2>2, <3>1, <3>2 DEF UnitsCarried
    <3>3. CASE e = 1 /\ i = n /\ m = 1
      <4>1. \/ tt[L[i]].units = st[L[i]].units
            \/ tt[L[i]].units = NullBlkt
            \/ tt[L[i]].units[1] >= q /\ tt[L[i]].units[1] < r
        BY <3>3 DEF UnitsCarried
      <4> QED BY <2>2, <3>1, <3>3, <4>1
    <3> QED BY <3>2, <3>3
  <2>3. ASSUME NEW j \in 1..m, j > e, i = n + j - e PROVE \E a \in Nat : new(i, a)
    <3>1. J[i] = N[j]
      BY <1>4, <2>3
    <3>2. tt[N[j]].units # NullBlkt => tt[N[j]].units[1] >= q /\ tt[N[j]].units[1] < r
      BY <2>3 DEF UnitsCarried
    <3>3. new(i, j) /\ j \in Nat
      BY <2>3, <3>1, <3>2
    <3> QED BY <3>3
  <2> HIDE DEF old, new, changed, n, m
  <2> QED BY <2>1, <2>2, <2>3
<1>6. \A i \in 1..n : st[L[i]].units # NullBlkt =>
        /\ st[L[i]].units[1] < q /\ st[L[i]].units[1] \in Nat
        /\ \A j \in 1..n : st[L[j]].units = st[L[i]].units => j = i
  BY DEF ApartOf
<1> SUFFICES ASSUME NEW i \in 1..Len(J), tt[J[i]].units # NullBlkt
             PROVE  /\ tt[J[i]].units[1] < r
                    /\ \A j \in 1..Len(J) : tt[J[j]].units = tt[J[i]].units => j = i
  BY DEF ApartOf, J
<1>7. tt[J[i]].units[1] < r
  <2>1. CASE old(i)
    <3>1. PICK u : u = st[L[i]].units
      OBVIOUS
    <3>2. tt[J[i]].units = u /\ u # NullBlkt /\ i \in 1..n
      BY <2>1, <3>1
    <3>3. u[1] < q /\ u[1] \in Nat
      BY <1>6, <3>1, <3>2
    <3>4. u[1] < r
      BY <3>3
    <3> QED BY <3>2, <3>4
  <2>2. CASE changed(i)
    BY <2>2
  <2>3. ASSUME NEW j \in Nat, new(i, j) PROVE tt[J[i]].units[1] < r
    BY <2>3
  <2> HIDE DEF old, new, changed
  <2> QED BY <1>5, <2>1, <2>2, <2>3
<1>8. ASSUME NEW j \in 1..Len(J), tt[J[j]].units = tt[J[i]].units PROVE j = i
  <2> DEFINE u == tt[J[i]].units
             fresh(a) == changed(a) \/ \E b \in Nat : new(a, b)
  <2>1. \A a \in 1..Len(J) : old(a) \/ fresh(a)
    <3> HIDE DEF old, new, changed
    <3> QED BY <1>5
  <2>2. ASSUME NEW a \in 1..Len(J), tt[J[a]].units = u, old(a)
        PROVE  u[1] < q /\ u[1] \in Nat
    BY <1>6, <2>2
  <2>3. ASSUME NEW a \in 1..Len(J), tt[J[a]].units = u, fresh(a) PROVE u[1] >= q
    BY <2>3
  <2>4. CASE old(i) /\ old(j)
    BY <1>6, <1>8, <2>4
  <2>5. CASE old(i) /\ fresh(j)
    <3>1. u[1] < q /\ u[1] \in Nat
      BY <2>2, <2>5
    <3>2. u[1] >= q
      <4> HIDE DEF old, fresh
      <4> QED BY <1>8, <2>3, <2>5
    <3> QED BY <3>1, <3>2, SMTT(30)
  <2>6. CASE fresh(i) /\ old(j)
    <3>1. u[1] < q /\ u[1] \in Nat
      <4> HIDE DEF old, fresh
      <4> QED BY <1>8, <2>2, <2>6
    <3>2. u[1] >= q
      BY <2>3, <2>6
    <3> QED BY <3>1, <3>2, SMTT(30)
  <2>7. CASE changed(i) /\ changed(j)
    BY <2>7
  <2>8. ASSUME NEW a \in Nat, new(i, a), NEW b \in Nat, new(j, b) PROVE j = i
    <3>1. a \in 1..m /\ b \in 1..m /\ a > e /\ b > e /\ tt[N[b]].units = tt[N[a]].units
      BY <1>8, <2>8
    <3>2. tt[N[a]].units # NullBlkt
      BY <2>8
    <3>3. a = b
      BY <3>1, <3>2 DEF UnitsCarried
    <3> QED BY <2>8, <3>3
  <2>9. ASSUME NEW a \in Nat, NEW b \in Nat, changed(a), NEW c \in Nat, new(b, c) PROVE FALSE
    BY <2>9
  <2>10. i \in Nat /\ j \in Nat
    BY <1>1, <1>2
  <2> HIDE DEF old, new, changed
  <2> QED BY <2>1, <2>4, <2>5, <2>6, <2>7, <2>8, <2>9, <2>10
<1> QED BY <1>7, <1>8

-----------------------------------------------------------------------------
(* J is L, and N behind it.                                                *)
ElementsJoined(J, L, N, e) ==
  /\ Len(J) = Len(L) + Len(N) - e
  /\ \A i \in 1..Len(L) : J[i] = L[i]
  /\ \A j \in 1..Len(N) : j > e => J[Len(L) + j - e] = N[j]

(* That is so of a joined list.                                            *)
LEMMA JoinedElements ==
  ASSUME NEW L \in Seq(Nat), NEW N \in Seq(Nat), Len(N) # 0,
         NEW e \in Nat, e <= 1
  PROVE  Joined(L, N, e) \in Seq(Nat) /\ ElementsJoined(Joined(L, N, e), L, N, e)
<1> DEFINE J == Joined(L, N, e)
           n == Len(L)
           m == Len(N)
<1>1. J \in Seq(Nat)
  BY JoinedIs
<1>2. Len(J) = n + m - e
  BY JoinedIs
<1>3. \A i \in 1..n : J[i] = L[i]
  BY JoinedIs
<1>4. \A j \in 1..m : j > e => J[n + j - e] = N[j]
  BY JoinedIs
<1> QED BY <1>1, <1>2, <1>3, <1>4 DEF ElementsJoined

(* A stage of a joined list and its blockettes: one of the list, the last  *)
(* of the list, which has taken up blockettes, or one that was joined.     *)
PairsJoined(J, K, L, B, N, C, e) ==
  /\ Len(J) = Len(L) + Len(N) - e
  /\ Len(K) = Len(J)
  /\ \A i \in 1..Len(J) :
       \/ /\ i \in 1..Len(L) /\ ~ (e = 1 /\ i = Len(L))
          /\ J[i] = L[i] /\ K[i] = B[i]
       \/ /\ e = 1 /\ i = Len(L) /\ i \in 1..Len(L)
          /\ J[i] = L[i] /\ K[i] = B[i] \o C[1]
       \/ \E j \in 1..Len(N) :
            j > e /\ i = Len(L) + j - e /\ J[i] = N[j] /\ K[i] = C[j]

(* That is all there is to a joined list.                                  *)
LEMMA JoinedPairs ==
  ASSUME NEW S, NEW L \in Seq(Nat), NEW N \in Seq(Nat), NEW B, NEW C,
         Lists(B, S), Lists(C, S), Len(B) = Len(L), Len(C) = Len(N), Len(N) # 0,
         NEW e \in Nat, e <= 1, e = 1 => Len(L) # 0,
         NEW J, J = Joined(L, N, e), NEW K, K = JoinedBlkts(B, C, e)
  PROVE  /\ J \in Seq(Nat) /\ Lists(K, S)
         /\ PairsJoined(J, K, L, B, N, C, e)
<1>0. J \in Seq(Nat) /\ ElementsJoined(J, L, N, e)
  BY JoinedElements
<1>1. J \in Seq(Nat)
  BY <1>0
<1>2. Len(J) = Len(L) + Len(N) - e
  BY <1>0 DEF ElementsJoined
<1>3. \A i \in 1..Len(L) : J[i] = L[i]
  BY <1>0 DEF ElementsJoined
<1>4. \A j \in 1..Len(N) : j > e => J[Len(L) + j - e] = N[j]
  BY <1>0 DEF ElementsJoined
<1>5. PICK A \in Seq(Seq(S)) : A = B
  BY DEF Lists
<1>6. PICK D \in Seq(Seq(S)) : D = C
  BY DEF Lists
<1>7. /\ K \in Seq(Seq(S)) /\ Len(K) = Len(A) + Len(D) - e
      /\ BlktsJoinedAre(K, A, D, e)
  <2>1. Len(D) # 0 /\ (e = 1 => Len(A) # 0)
    BY <1>5, <1>6
  <2>2. K = JoinedBlkts(A, D, e)
    BY <1>5, <1>6
  <2>3. /\ JoinedBlkts(A, D, e) \in Seq(Seq(S))
        /\ Len(JoinedBlkts(A, D, e)) = Len(A) + Len(D) - e
        /\ BlktsJoinedAre(JoinedBlkts(A, D, e), A, D, e)
    BY <2>1, JoinedBlktsIs
  <2> QED BY <2>2, <2>3
<1>8. Lists(K, S) /\ Len(K) = Len(J)
  BY <1>2, <1>5, <1>6, <1>7 DEF Lists
<1>9. \A i \in 1..Len(L) : K[i] = IF e = 1 /\ i = Len(L) THEN B[i] \o C[1] ELSE B[i]
  BY <1>5, <1>6, <1>7 DEF BlktsJoinedAre
<1>10. \A j \in 1..Len(N) : j > e => K[Len(L) + j - e] = C[j]
  BY <1>5, <1>6, <1>7 DEF BlktsJoinedAre
<1>11. ASSUME NEW i \in 1..Len(J)
       PROVE  \/ i \in 1..Len(L)
              \/ \E j \in 1..Len(N) : j > e /\ i = Len(L) + j - e
  <2> DEFINE n == Len(L)
             m == Len(N)
  <2>1. n \in Nat /\ m \in Nat /\ m >= e /\ i \in 1..(n + m - e)
    BY <1>2
  <2> HIDE DEF n, m
  <2>2. i \in 1..n \/ \E j \in 1..m : j > e /\ i = n + j - e
    BY <2>1, JoinedPlaces
  <2> QED BY <2>2 DEF n, m
<1>12. ASSUME NEW i \in 1..Len(J)
       PROVE  \/ /\ i \in 1..Len(L) /\ ~ (e = 1 /\ i = Len(L))
                 /\ J[i] = L[i] /\ K[i] = B[i]
              \/ /\ e = 1 /\ i = Len(L) /\ i \in 1..Len(L)
                 /\ J[i] = L[i] /\ K[i] = B[i] \o C[1]
              \/ \E j \in 1..Len(N) :
                   j > e /\ i = Len(L) + j - e /\ J[i] = N[j] /\ K[i] = C[j]
  <2>1. CASE i \in 1..Len(L)
    BY <1>3, <1>9, <2>1
  <2>2. CASE \E j \in 1..Len(N) : j > e /\ i = Len(L) + j - e
    BY <1>4, <1>10, <2>2
  <2> QED BY <1>11, <2>1, <2>2
<1> QED BY <1>1, <1>2, <1>8, <1>12 DEF PairsJoined

(* The first blockette of each stage of L is the first of its list.        *)
Heads(L, B, st) == \A i \in 1..Len(L) : st[L[i]].first = B[i][1]

(* Each stage of L whose blockettes are all from outside a [60], or all    *)
(* from one of its stages, has the units of a filter of its own.           *)
Own(t, blkts) == {b \in Range(blkts) : IsFilter(t, b)}

UnitsOwn(t, blkts, units) ==
  Unmixed(Range(blkts)) =>
    units \in IF Own(t, blkts) = {} THEN {NullBlkt} ELSE Own(t, blkts)

OwnUnits(t, L, B, st) == \A i \in 1..Len(L) : UnitsOwn(t, B[i], st[L[i]].units)

(* The runs of blockettes the stages of L hold.                            *)
RunsOf(L, B, st) == [i \in 1..Len(L) |-> [seq |-> st[L[i]].seq, blkts |-> B[i]]]

(* The stages of a joined list begin with the first of their blockettes.   *)
LEMMA HeadsJoin ==
  ASSUME NEW S, NEW L \in Seq(Nat), NEW N \in Seq(Nat), NEW B, NEW C,
         Lists(B, S), Lists(C, S), Len(B) = Len(L), Len(C) = Len(N), Len(N) # 0,
         NEW e \in Nat, e <= 1, e = 1 => Len(L) # 0,
         NEW J, J = Joined(L, N, e), NEW K, K = JoinedBlkts(B, C, e),
         NEW st, NEW tt, Heads(L, B, st),
         \A i \in 1..Len(L) : Len(B[i]) # 0,
         \A i \in 1..Len(L) : tt[L[i]].first = st[L[i]].first,
         \A j \in 1..Len(N) : j > e => tt[N[j]].first = C[j][1]
  PROVE  Heads(J, K, tt)
<1>0. PairsJoined(J, K, L, B, N, C, e)
  BY JoinedPairs
<1>1. \A i \in 1..Len(J) :
        \/ /\ i \in 1..Len(L) /\ ~ (e = 1 /\ i = Len(L))
           /\ J[i] = L[i] /\ K[i] = B[i]
        \/ /\ e = 1 /\ i = Len(L) /\ i \in 1..Len(L)
           /\ J[i] = L[i] /\ K[i] = B[i] \o C[1]
        \/ \E j \in 1..Len(N) :
             j > e /\ i = Len(L) + j - e /\ J[i] = N[j] /\ K[i] = C[j]
  BY <1>0 DEF PairsJoined
<1> SUFFICES ASSUME NEW i \in 1..Len(J) PROVE tt[J[i]].first = K[i][1]
  BY DEF Heads
<1>2. \A a \in 1..Len(L) : st[L[a]].first = B[a][1]
  BY DEF Heads
<1>3. CASE i \in 1..Len(L) /\ J[i] = L[i] /\ K[i] = B[i]
  BY <1>2, <1>3
<1>4. CASE e = 1 /\ i = Len(L) /\ i \in 1..Len(L) /\ J[i] = L[i] /\ K[i] = B[i] \o C[1]
  <2>1. B[i] \in Seq(S) /\ Len(B[i]) \in Nat
    BY <1>4, ListsAre
  <2>2. C[1] \in Seq(S)
    <3>1. 1 \in 1..Len(C)
      OBVIOUS
    <3> QED BY <3>1, ListsAre
  <2>3. 1 \in 1..Len(B[i])
    BY <1>4, <2>1
  <2>4. (B[i] \o C[1])[1] = B[i][1]
    <3> DEFINE a == B[i]
               b == C[1]
    <3>1. a \in Seq(S) /\ b \in Seq(S) /\ 1 \in 1..Len(a)
      BY <2>1, <2>2, <2>3
    <3> HIDE DEF a, b
    <3>2. \A x \in 1..Len(a) : (a \o b)[x] = a[x]
      BY <3>1, ConcatParts
    <3>3. (a \o b)[1] = a[1]
      BY <3>1, <3>2
    <3> QED BY <3>3 DEF a, b
  <2> QED BY <1>2, <1>4, <2>4
<1>5. ASSUME NEW j \in 1..Len(N), j > e, J[i] = N[j], K[i] = C[j]
      PROVE  tt[J[i]].first = K[i][1]
  BY <1>5
<1> QED BY <1>1, <1>3, <1>4, <1>5

(* So have the stages N that are hung behind it, and the last of the list. *)
OwnBrought(L, B, N, C, e, t, st, tt) ==
  /\ \A i \in 1..Len(L) : e = 0 \/ i # Len(L) => tt[L[i]].units = st[L[i]].units
  /\ e = 1 => UnitsOwn(t, B[Len(L)] \o C[1], tt[L[Len(L)]].units)
  /\ \A j \in 1..Len(N) : j > e => UnitsOwn(t, C[j], tt[N[j]].units)

(* The stages of a joined list have units of their own.                    *)
LEMMA OwnJoin ==
  ASSUME NEW S, NEW L \in Seq(Nat), NEW N \in Seq(Nat), NEW B, NEW C,
         Lists(B, S), Lists(C, S), Len(B) = Len(L), Len(C) = Len(N), Len(N) # 0,
         NEW e \in Nat, e <= 1, e = 1 => Len(L) # 0,
         NEW J, J = Joined(L, N, e), NEW K, K = JoinedBlkts(B, C, e),
         NEW t, NEW st, NEW tt, OwnUnits(t, L, B, st),
         OwnBrought(L, B, N, C, e, t, st, tt)
  PROVE  OwnUnits(t, J, K, tt)
<1>6. \A i \in 1..Len(L) : e = 0 \/ i # Len(L) => tt[L[i]].units = st[L[i]].units
  BY DEF OwnBrought
<1>7. e = 1 => UnitsOwn(t, B[Len(L)] \o C[1], tt[L[Len(L)]].units)
  BY DEF OwnBrought
<1>8. \A j \in 1..Len(N) : j > e => UnitsOwn(t, C[j], tt[N[j]].units)
  BY DEF OwnBrought
<1>0. PairsJoined(J, K, L, B, N, C, e)
  BY JoinedPairs
<1>1. \A i \in 1..Len(J) :
        \/ /\ i \in 1..Len(L) /\ ~ (e = 1 /\ i = Len(L))
           /\ J[i] = L[i] /\ K[i] = B[i]
        \/ /\ e = 1 /\ i = Len(L) /\ i \in 1..Len(L)
           /\ J[i] = L[i] /\ K[i] = B[i] \o C[1]
        \/ \E j \in 1..Len(N) :
             j > e /\ i = Len(L) + j - e /\ J[i] = N[j] /\ K[i] = C[j]
  BY <1>0 DEF PairsJoined
<1> SUFFICES ASSUME NEW i \in 1..Len(J) PROVE UnitsOwn(t, K[i], tt[J[i]].units)
  BY DEF OwnUnits
<1>2. \A a \in 1..Len(L) : UnitsOwn(t, B[a], st[L[a]].units)
  BY DEF OwnUnits
<1>3. CASE i \in 1..Len(L) /\ ~ (e = 1 /\ i = Len(L)) /\ J[i] = L[i] /\ K[i] = B[i]
  <2>1. e = 0 \/ i # Len(L)
    BY <1>3
  <2> QED BY <1>2, <1>3, <1>6, <2>1
<1>4. CASE e = 1 /\ i = Len(L) /\ i \in 1..Len(L) /\ J[i] = L[i] /\ K[i] = B[i] \o C[1]
  BY <1>4, <1>7
<1>5. ASSUME NEW j \in 1..Len(N), j > e, J[i] = N[j], K[i] = C[j]
      PROVE  UnitsOwn(t, K[i], tt[J[i]].units)
  BY <1>5, <1>8
<1> QED BY <1>1, <1>3, <1>4, <1>5

(* The stages of L keep their numbers.                                     *)
SeqsKept(L, st, tt) ==
  \A i \in 1..Len(L) : st[L[i]].seq \in SeqNos /\ tt[L[i]].seq = st[L[i]].seq

(* G are the runs that N and C bring, with blockettes of S; the first goes *)
(* on with the last of L if it has its number.                             *)
RunsBrought(G, L, N, C, st, tt, e, S) ==
  /\ G \in Seq([seq : SeqNos, blkts : Seq(S)])
  /\ e = 1 <=> Len(L) # 0 /\ st[L[Len(L)]].seq = G[1].seq
  /\ Len(G) = Len(N)
  /\ \A j \in 1..Len(N) : G[j].blkts = C[j] /\ (j > e => G[j].seq = tt[N[j]].seq)

(* Lists of stages and of blockettes that can be joined.                   *)
Joinable(L, N, B, C, e, S) ==
  /\ L \in Seq(Nat) /\ N \in Seq(Nat) /\ Lists(B, S) /\ Lists(C, S)
  /\ Len(B) = Len(L) /\ Len(C) = Len(N) /\ Len(N) # 0
  /\ e \in Nat /\ e <= 1 /\ (e = 1 => Len(L) # 0)

(* J and K hold the runs of L and B, extended by the first of G, and the   *)
(* rest of G.                                                              *)
RunsJoined(J, K, L, B, G, st, tt) ==
  RunsOf(J, K, tt) = Extend(RunsOf(L, B, st), G[1]) \o Tail(G)

(* The runs of a joined list are those of the list and those joined, the   *)
(* first of which extends the last of the list if it has its number.       *)
LEMMA RunsJoin ==
  ASSUME NEW S, NEW L, NEW N, NEW B, NEW C, NEW e, Joinable(L, N, B, C, e, S),
         NEW st, NEW tt, SeqsKept(L, st, tt),
         NEW G, RunsBrought(G, L, N, C, st, tt, e, S)
  PROVE  RunsJoined(Joined(L, N, e), JoinedBlkts(B, C, e), L, B, G, st, tt)
<1> /\ L \in Seq(Nat) /\ N \in Seq(Nat) /\ Lists(B, S) /\ Lists(C, S)
    /\ Len(B) = Len(L) /\ Len(C) = Len(N) /\ Len(N) # 0
    /\ e \in Nat /\ e <= 1 /\ (e = 1 => Len(L) # 0)
  BY DEF Joinable
<1>16. PICK J : J = Joined(L, N, e)
  OBVIOUS
<1>17. PICK K : K = JoinedBlkts(B, C, e)
  OBVIOUS
<1> DEFINE W == SeqNos
           R == [seq : W, blkts : Seq(S)]
           X == RunsOf(L, B, st)
           n == Len(L)
           m == Len(N)
           Y == Extend(X, G[1])
<1>1. n \in Nat /\ m \in Nat /\ m >= 1 /\ Len(G) = m /\ 1 \in 1..m
  <2>1. n \in Nat /\ m \in Nat /\ m # 0
    OBVIOUS
  <2>2. Len(G) = m
    BY DEF RunsBrought
  <2> HIDE DEF n, m
  <2> QED BY <2>1, <2>2
<1>13. G \in Seq(R)
  BY DEF RunsBrought
<1>14. e = 1 <=> n # 0 /\ st[L[n]].seq = G[1].seq
  BY DEF RunsBrought
<1>15. \A i \in 1..n : st[L[i]].seq \in W /\ tt[L[i]].seq = st[L[i]].seq
  BY DEF SeqsKept
<1>2. X \in Seq(R) /\ Len(X) = n /\ \A i \in 1..n : X[i] = [seq |-> st[L[i]].seq, blkts |-> B[i]]
  <2>1. \A i \in 1..n : [seq |-> st[L[i]].seq, blkts |-> B[i]] \in R
    BY <1>15, ListsAre
  <2>2. X = [i \in 1..n |-> [seq |-> st[L[i]].seq, blkts |-> B[i]]]
    BY DEF RunsOf
  <2> HIDE DEF X, R
  <2>3. \A i \in 1..n : X[i] = [seq |-> st[L[i]].seq, blkts |-> B[i]]
    BY <2>2
  <2>4. X \in Seq(R) /\ Len(X) = n
    BY <1>1, <2>1, <2>2
  <2> QED BY <2>3, <2>4
<1>3. \A j \in 1..m : G[j] \in R /\ G[j].blkts = C[j] /\ (j > e => G[j].seq = tt[N[j]].seq)
  <2>1. \A j \in 1..m : G[j].blkts = C[j] /\ (j > e => G[j].seq = tt[N[j]].seq)
    BY DEF RunsBrought
  <2> HIDE DEF R
  <2>2. \A j \in 1..m : G[j] \in R
    <3> QED BY <1>1, <1>13
  <2> QED BY <2>1, <2>2
<1>4. \A j \in 1..m : G[j] = [seq |-> G[j].seq, blkts |-> C[j]]
  BY <1>3
<1>5. /\ Y \in Seq(R) /\ Len(Y) = n + 1 - e
      /\ \A i \in 1..n : e = 0 \/ i # n => Y[i] = X[i]
      /\ e = 0 => Y[n + 1] = G[1]
      /\ e = 1 => Y[n] = [seq |-> G[1].seq, blkts |-> B[n] \o C[1]]
  <2>1. CASE e = 0
    <3>1. ~ (X # <<>> /\ Last(X).seq = G[1].seq)
      <4>1. SUFFICES ASSUME X # <<>>, Last(X).seq = G[1].seq PROVE FALSE
        OBVIOUS
      <4>2. n # 0
        BY <1>1, <1>2, <4>1
      <4>3. Last(X) = X[n] /\ n \in 1..n
        BY <1>1, <1>2, <4>2 DEF Last
      <4>4. Last(X).seq = st[L[n]].seq
        <5>1. X[n] = [seq |-> st[L[n]].seq, blkts |-> B[n]]
          BY <1>2, <4>3
        <5> HIDE DEF X, n
        <5> QED BY <4>3, <5>1
      <4> QED BY <1>14, <2>1, <4>1, <4>2, <4>4
    <3>2. Y = Append(X, G[1])
      BY <3>1 DEF Extend
    <3>3. G[1] \in R
      BY <1>1, <1>3
    <3> HIDE DEF R, X, Y
    <3>4. /\ Append(X, G[1]) \in Seq(R) /\ Len(Append(X, G[1])) = n + 1
          /\ \A i \in 1..n : Append(X, G[1])[i] = X[i]
          /\ Append(X, G[1])[n + 1] = G[1]
      BY <1>1, <1>2, <3>3
    <3> QED BY <2>1, <3>2, <3>4
  <2>2. CASE e = 1
    <3>1. n \in 1..n
      BY <1>1, <2>2
    <3>2. Last(X) = X[n] /\ Last(X).seq = st[L[n]].seq /\ Last(X).blkts = B[n]
      <4>1. X[n] = [seq |-> st[L[n]].seq, blkts |-> B[n]]
        BY <1>2, <3>1
      <4>2. Last(X) = X[n]
        BY <1>2 DEF Last
      <4> HIDE DEF X, n
      <4> QED BY <4>1, <4>2
    <3>3. X # <<>> /\ Last(X).seq = G[1].seq
      BY <1>2, <1>14, <2>2, <3>1, <3>2
    <3> DEFINE g == [seq |-> G[1].seq, blkts |-> B[n] \o C[1]]
    <3>4. Y = Front(X) \o <<g>>
      BY <1>1, <1>3, <3>2, <3>3 DEF Extend
    <3>5. g \in R
      <4>1. B[n] \in Seq(S)
        BY <3>1, ListsAre
      <4>2. C[1] \in Seq(S)
        BY <1>1, ListsAre
      <4>3. G[1].seq \in W
        BY <1>1, <1>3
      <4>4. B[n] \o C[1] \in Seq(S)
        BY <4>1, <4>2
      <4> QED BY <4>3, <4>4
    <3> HIDE DEF R, X, Y, g
    <3>6. /\ Front(X) \in Seq(R) /\ Len(Front(X)) = n - 1
          /\ \A i \in 1..(n - 1) : Front(X)[i] = X[i]
      BY <1>1, <1>2, <3>1 DEF Front
    <3>7. /\ Front(X) \o <<g>> \in Seq(R) /\ Len(Front(X) \o <<g>>) = n
          /\ \A i \in 1..(n - 1) : (Front(X) \o <<g>>)[i] = X[i]
          /\ (Front(X) \o <<g>>)[n] = g
      <4>1. PICK F \in Seq(R) : F = Front(X)
        BY <3>6
      <4>2. Len(F) = n - 1 /\ n - 1 \in Nat /\ \A i \in 1..(n - 1) : F[i] = X[i]
        BY <1>1, <3>1, <3>6, <4>1
      <4>3. <<g>> \in Seq(R) /\ Len(<<g>>) = 1 /\ <<g>>[1] = g /\ 1 \in 1..1
        BY <3>5
      <4>4. /\ F \o <<g>> \in Seq(R) /\ Len(F \o <<g>>) = Len(F) + Len(<<g>>)
            /\ \A i \in 1..Len(F) : (F \o <<g>>)[i] = F[i]
            /\ \A i \in 1..Len(<<g>>) : (F \o <<g>>)[Len(F) + i] = <<g>>[i]
        BY <4>3, ConcatParts
      <4>5. (F \o <<g>>)[(n - 1) + 1] = g
        BY <4>2, <4>3, <4>4
      <4>6. (n - 1) + 1 = n
        BY <1>1
      <4> QED BY <4>1, <4>2, <4>3, <4>4, <4>5, <4>6
    <3>8. \A i \in 1..n : i # n => i \in 1..(n - 1)
      BY <1>1
    <3>9. Y \in Seq(R) /\ Len(Y) = n /\ Y[n] = g /\ \A i \in 1..(n - 1) : Y[i] = X[i]
      BY <3>4, <3>7
    <3>10. Len(Y) = n + 1 - e
      BY <1>1, <2>2, <3>9
    <3> QED BY <2>2, <3>8, <3>9, <3>10 DEF g
  <2> QED BY <2>1, <2>2
<1>6. /\ Tail(G) \in Seq(R) /\ Len(Tail(G)) = m - 1
      /\ \A p \in 1..(m - 1) : Tail(G)[p] = G[p + 1]
  <2> HIDE DEF R
  <2> QED BY <1>1, <1>13
<1>0. PairsJoined(J, K, L, B, N, C, e)
  BY <1>16, <1>17, JoinedPairs
<1>7. /\ Len(J) = n + m - e
      /\ \A i \in 1..Len(J) :
           \/ i \in 1..n /\ ~ (e = 1 /\ i = n) /\ J[i] = L[i] /\ K[i] = B[i]
           \/ e = 1 /\ i = n /\ i \in 1..n /\ J[i] = L[i] /\ K[i] = B[i] \o C[1]
           \/ \E j \in 1..m : j > e /\ i = n + j - e /\ J[i] = N[j] /\ K[i] = C[j]
  BY <1>0 DEF PairsJoined
<1> DEFINE Z == Y \o Tail(G)
           Q == RunsOf(J, K, tt)
<1>8. Q = [i \in 1..Len(J) |-> [seq |-> tt[J[i]].seq, blkts |-> K[i]]]
  BY DEF RunsOf
<1>9. /\ Z \in Seq(R) /\ Len(Z) = n + m - e
      /\ \A i \in 1..(n + 1 - e) : Z[i] = Y[i]
      /\ \A p \in 1..(m - 1) : Z[n + 1 - e + p] = Tail(G)[p]
  <2> DEFINE T == Tail(G)
             y == n + 1 - e
  <2>1. Y \in Seq(R) /\ T \in Seq(R)
    BY <1>5, <1>6
  <2>2. y \in Nat /\ Len(Y) = y /\ Len(T) = m - 1
    BY <1>1, <1>5, <1>6
  <2> HIDE DEF R, Y, T, y
  <2>3. /\ Y \o T \in Seq(R) /\ Len(Y \o T) = Len(Y) + Len(T)
        /\ \A i \in 1..Len(Y) : (Y \o T)[i] = Y[i]
        /\ \A i \in 1..Len(T) : (Y \o T)[Len(Y) + i] = T[i]
    BY <2>1, ConcatParts
  <2>4. Len(Y \o T) = n + m - e
    BY <1>1, <2>2, <2>3 DEF y
  <2> QED BY <2>2, <2>3, <2>4 DEF y, T
<1> HIDE DEF X, Y
<1>10. ASSUME NEW i \in 1..Len(J)
       PROVE  Z[i] = [seq |-> tt[J[i]].seq, blkts |-> K[i]]
  <2> HIDE DEF n, m, Z
  <2>1. CASE i \in 1..n /\ ~ (e = 1 /\ i = n) /\ J[i] = L[i] /\ K[i] = B[i]
    <3>1. e = 0 \/ i # n
      BY <2>1
    <3>2. i \in 1..(n + 1 - e)
      BY <1>1, <2>1
    <3>3. Z[i] = X[i]
      BY <1>5, <1>9, <2>1, <3>1, <3>2
    <3>4. tt[L[i]].seq = st[L[i]].seq
      BY <1>15, <2>1
    <3> QED BY <1>2, <2>1, <3>3, <3>4
  <2>2. CASE e = 1 /\ i = n /\ i \in 1..n /\ J[i] = L[i] /\ K[i] = B[i] \o C[1]
    <3>1. i \in 1..(n + 1 - e)
      BY <1>1, <2>2
    <3>2. Z[i] = [seq |-> G[1].seq, blkts |-> B[n] \o C[1]]
      BY <1>5, <1>9, <2>2, <3>1
    <3>3. tt[L[i]].seq = G[1].seq
      BY <1>14, <1>15, <2>2
    <3> QED BY <2>2, <3>2, <3>3
  <2>3. ASSUME NEW j \in 1..m, j > e, i = n + j - e, J[i] = N[j], K[i] = C[j]
        PROVE  Z[i] = [seq |-> tt[J[i]].seq, blkts |-> K[i]]
    <3>1. Z[i] = G[j]
      <4>1. CASE j = 1
        <5>1. e = 0 /\ i = n + 1 /\ i \in 1..(n + 1 - e)
          BY <1>1, <2>3, <4>1
        <5>2. Z[i] = Y[n + 1] /\ Y[n + 1] = G[1]
          BY <1>5, <1>9, <5>1
        <5> QED BY <4>1, <5>2
      <4>2. CASE j # 1
        <5>1. PICK p \in 1..(m - 1) : p = j - 1
          BY <1>1, <4>2
        <5>2. i = n + 1 - e + p /\ p + 1 = j
          <6>1. j \in Nat
            BY <1>1
          <6>2. p + 1 = j
            BY <5>1, <6>1
          <6>3. i = n + j - e
            BY <2>3
          <6> QED BY <1>1, <5>1, <6>1, <6>2, <6>3
        <5>3. Z[n + 1 - e + p] = Tail(G)[p] /\ Tail(G)[p] = G[p + 1]
          BY <1>6, <1>9
        <5> QED BY <5>2, <5>3
      <4> QED BY <4>1, <4>2
    <3>2. G[j] = [seq |-> tt[N[j]].seq, blkts |-> C[j]]
      BY <1>3, <1>4, <2>3
    <3> QED BY <2>3, <3>1, <3>2
  <2> QED BY <1>7, <2>1, <2>2, <2>3
<1>11. Z = [i \in 1..Len(J) |-> Z[i]]
  <2> HIDE DEF Z, R
  <2>1. Len(J) = Len(Z)
    BY <1>7, <1>9
  <2>2. Z = [i \in 1..Len(Z) |-> Z[i]]
    BY <1>9
  <2> QED BY <2>1, <2>2
<1>12. Z = Q
  <2> HIDE DEF Z, Q
  <2>1. \A i \in 1..Len(J) : Z[i] = [seq |-> tt[J[i]].seq, blkts |-> K[i]]
    BY <1>10
  <2>2. [i \in 1..Len(J) |-> Z[i]] = [i \in 1..Len(J) |-> [seq |-> tt[J[i]].seq, blkts |-> K[i]]]
    BY <2>1
  <2> QED BY <1>8, <1>11, <2>2
<1> QED BY <1>12, <1>16, <1>17 DEF Y, X, RunsJoined

-----------------------------------------------------------------------------
(* A heap of stages for the text t.                                        *)
Stages(t, n) ==
  [seq : SeqNos, first : Blkts(t) \cup {NullBlkt}, units : Blkts(t) \cup {NullBlkt},
   next : 0..n]

HeapOf(t, st) == st \in Seq(Stages(t, Len(st)))

(* What is known of its stages.                                            *)
LEMMA HeapIs ==
  ASSUME NEW t, DOMAIN t \subseteq Nat, NEW st, HeapOf(t, st)
  PROVE  /\ Len(st) \in Nat /\ DOMAIN st = 1..Len(st)
         /\ \A s \in 1..Len(st) :
              /\ st[s] \in Stages(t, Len(st))
              /\ st[s].seq \in SeqNos /\ st[s].next \in 0..Len(st)
              /\ st[s].first \in Blkts(t) \cup {NullBlkt}
              /\ st[s].units \in Blkts(t) \cup {NullBlkt}
              /\ st[s].units # NullBlkt => st[s].units[1] \in Nat
<1>1. Len(st) \in Nat /\ DOMAIN st = 1..Len(st)
  BY DEF HeapOf
<1>2. \A s \in 1..Len(st) : st[s] \in Stages(t, Len(st))
  BY DEF HeapOf
<1>3. ASSUME NEW s \in 1..Len(st)
      PROVE  /\ st[s].seq \in SeqNos /\ st[s].next \in 0..Len(st)
             /\ st[s].first \in Blkts(t) \cup {NullBlkt}
             /\ st[s].units \in Blkts(t) \cup {NullBlkt}
  BY <1>2 DEF Stages
<1>4. ASSUME NEW b \in Blkts(t) PROVE b[1] \in Nat
  BY BlktsAre
<1> QED BY <1>1, <1>2, <1>3, <1>4

(* The list L of stages and their lists of blockettes B, in the heap st    *)
(* and the links nxt, hold blockettes of t before position q.              *)
Linked(L, B, t, q, st, nxt) ==
  /\ L \in Seq(Nat) /\ Lists(B, Blkts(t)) /\ Len(B) = Len(L)
  /\ ListOf(L, st)
  /\ BlktsOf(B, nxt, q)
  /\ ApartOf(L, st, q)
  /\ Heads(L, B, st)

(* The stages N with blockettes C, from positions q to r, are hung behind  *)
(* the list, in the heap tt and the links mxt.                             *)
Behind(L, B, N, C, e, t, q, r, st, tt, nxt, mxt) ==
  /\ N \in Seq(Nat) /\ Len(N) # 0 /\ Lists(C, Blkts(t)) /\ Len(C) = Len(N)
  /\ HeapOf(t, tt) /\ Len(st) <= Len(tt)
  /\ ListOf(N, tt)
  /\ Carried(L, st, N, tt, e)
  /\ BlktsOf(C, mxt, r)
  /\ Relinked(B, nxt, C, mxt, e, q)
  /\ UnitsCarried(L, st, N, tt, e, q, r)
  /\ \A i \in 1..Len(L) : tt[L[i]].first = st[L[i]].first /\ tt[L[i]].seq = st[L[i]].seq
  /\ \A j \in 1..Len(N) : j > e => tt[N[j]].first = C[j][1]

(* What the ends of joined lists are.                                      *)
Ends(J, K, L, B, N, C, e) ==
  /\ J[1] = IF Len(L) # 0 THEN L[1] ELSE N[1]
  /\ IF Len(N) = e
       THEN J[Len(J)] = L[Len(L)] /\ K[Len(K)] = B[Len(L)] \o C[1]
       ELSE J[Len(J)] = N[Len(N)] /\ K[Len(K)] = C[Len(N)]

(* That is where they are.                                                 *)
LEMMA EndsAre ==
  ASSUME NEW S, NEW L \in Seq(Nat), NEW N \in Seq(Nat), NEW B, NEW C,
         Lists(B, S), Lists(C, S), Len(B) = Len(L), Len(C) = Len(N), Len(N) # 0,
         NEW e \in Nat, e <= 1, e = 1 => Len(L) # 0,
         NEW J, J = Joined(L, N, e), NEW K, K = JoinedBlkts(B, C, e)
  PROVE  Ends(J, K, L, B, N, C, e)
<1> DEFINE n == Len(L)
           m == Len(N)
<1>0. PairsJoined(J, K, L, B, N, C, e)
  BY JoinedPairs
<1>1. n \in Nat /\ m \in Nat /\ m >= 1
  OBVIOUS
<1>2. Len(J) = n + m - e /\ Len(K) = Len(J)
  BY <1>0 DEF PairsJoined
<1>3. \A i \in 1..Len(J) :
        \/ i \in 1..n /\ ~ (e = 1 /\ i = n) /\ J[i] = L[i] /\ K[i] = B[i]
        \/ e = 1 /\ i = n /\ i \in 1..n /\ J[i] = L[i] /\ K[i] = B[i] \o C[1]
        \/ \E j \in 1..m : j > e /\ i = n + j - e /\ J[i] = N[j] /\ K[i] = C[j]
  BY <1>0 DEF PairsJoined
<1>4. Len(J) \in 1..Len(J) /\ 1 \in 1..Len(J)
  BY <1>1, <1>2
<1>5. J[1] = IF n # 0 THEN L[1] ELSE N[1]
  <2> HIDE DEF n, m
  <2>1. CASE n # 0
    <3>1. ~ \E j \in 1..m : j > e /\ 1 = n + j - e
      BY <1>1, <2>1
    <3>2. J[1] = L[1]
      BY <1>3, <1>4, <3>1
    <3> QED BY <2>1, <3>2
  <2>2. CASE n = 0
    <3>1. ~ (1 \in 1..n)
      BY <2>2
    <3>2. PICK j \in 1..m : j > e /\ 1 = n + j - e /\ J[1] = N[j]
      BY <1>3, <1>4, <3>1
    <3>3. e = 0
      BY <2>2 DEF n
    <3>4. j = 1
      BY <2>2, <3>2, <3>3
    <3> QED BY <2>2, <3>2, <3>4
  <2> QED BY <2>1, <2>2
<1>6. m = e => J[Len(J)] = L[n] /\ K[Len(K)] = B[n] \o C[1]
  <2> HIDE DEF n, m
  <2>1. SUFFICES ASSUME m = e PROVE J[Len(J)] = L[n] /\ K[Len(K)] = B[n] \o C[1]
    OBVIOUS
  <2>2. e = 1 /\ m = 1 /\ Len(J) = n /\ Len(K) = n
    BY <1>1, <1>2, <2>1
  <2>3. ~ \E j \in 1..m : j > e
    BY <2>2
  <2>4. n \in 1..Len(J)
    BY <1>4, <2>2
  <2> QED BY <1>3, <2>2, <2>3, <2>4
<1>7. m # e => J[Len(J)] = N[m] /\ K[Len(K)] = C[m]
  <2> HIDE DEF n, m
  <2>1. SUFFICES ASSUME m # e PROVE J[Len(J)] = N[m] /\ K[Len(K)] = C[m]
    OBVIOUS
  <2>2. m > e /\ Len(J) > n
    BY <1>1, <1>2, <2>1
  <2>3. ~ (Len(J) \in 1..n)
    BY <1>1, <2>2
  <2>4. PICK j \in 1..m : /\ j > e /\ Len(J) = n + j - e
                          /\ J[Len(J)] = N[j] /\ K[Len(J)] = C[j]
    BY <1>3, <1>4, <2>3
  <2>5. j = m
    BY <1>1, <1>2, <2>4
  <2> QED BY <1>2, <2>4, <2>5
<1> QED BY <1>5, <1>6, <1>7 DEF Ends

(* What is hung behind a list makes a longer list.                         *)
LEMMA LinkedJoin ==
  ASSUME NEW t, DOMAIN t \subseteq Nat, NEW st, HeapOf(t, st), NEW tt,
         NEW nxt, NEW mxt, NEW q \in Nat, NEW r \in Nat, q <= r,
         NEW L, NEW B, Linked(L, B, t, q, st, nxt), NEW N, NEW C,
         NEW e \in Nat, e <= 1, Behind(L, B, N, C, e, t, q, r, st, tt, nxt, mxt)
  PROVE  /\ Linked(Joined(L, N, e), JoinedBlkts(B, C, e), t, r, tt, mxt)
         /\ Len(Joined(L, N, e)) = Len(L) + Len(N) - e
         /\ LET K == JoinedBlkts(B, C, e)
            IN  /\ LastBlkt(K) = LastBlkt(C)
                /\ Ends(Joined(L, N, e), K, L, B, N, C, e)
<1> DEFINE S == Blkts(t)
<1>1. /\ L \in Seq(Nat) /\ N \in Seq(Nat) /\ Len(N) # 0
      /\ Lists(B, S) /\ Lists(C, S) /\ Len(B) = Len(L) /\ Len(C) = Len(N)
      /\ (e = 1 => Len(L) # 0)
  BY DEF Linked, Behind, Carried
<1>2. PICK J : J = Joined(L, N, e)
  OBVIOUS
<1>3. PICK K : K = JoinedBlkts(B, C, e)
  OBVIOUS
<1>4. Len(st) \in Nat /\ Len(tt) \in Nat /\ Len(st) <= Len(tt)
  <2>1. HeapOf(t, tt) /\ Len(st) <= Len(tt)
    BY DEF Behind
  <2> QED BY <2>1, HeapIs
<1>5. J \in Seq(Nat) /\ ListOf(J, tt)
  <2>1. ListOf(L, st) /\ ListOf(N, tt) /\ Carried(L, st, N, tt, e)
    BY DEF Linked, Behind
  <2>2. Joined(L, N, e) \in Seq(Nat) /\ ListOf(Joined(L, N, e), tt)
    BY <1>1, <1>4, <2>1, ListsJoin
  <2> QED BY <1>2, <2>2
<1>6. PairsJoined(J, K, L, B, N, C, e)
  <2> HIDE DEF S
  <2> QED BY <1>1, <1>2, <1>3, JoinedPairs
<1>7. Len(J) = Len(L) + Len(N) - e /\ Len(K) = Len(J)
  BY <1>6 DEF PairsJoined
<1>8. /\ Lists(K, S) /\ BlktsOf(K, mxt, r)
      /\ LastBlkt(K) = LastBlkt(C)
  <2>1. /\ BlktsOf(B, nxt, q) /\ BlktsOf(C, mxt, r)
        /\ Relinked(B, nxt, C, mxt, e, q)
    BY DEF Linked, Behind
  <2>2. \A b \in S : b[1] \in Nat
    BY BlktsAre
  <2>3. Extended(S, B, nxt, q, C, mxt, r, e)
    BY <1>1, <2>1, <2>2 DEF Extended
  <2> HIDE DEF S
  <2> QED BY <1>3, <2>3, BlktsJoin
<1>9. ApartOf(J, tt, r)
  <2>1. ApartOf(L, st, q) /\ UnitsCarried(L, st, N, tt, e, q, r)
    BY DEF Linked, Behind
  <2>2. HeapOf(t, tt)
    BY DEF Behind
  <2>3. \A s \in 1..Len(st) : st[s].units # NullBlkt => st[s].units[1] \in Nat
    BY HeapIs
  <2>4. \A s \in 1..Len(tt) : tt[s].units # NullBlkt => tt[s].units[1] \in Nat
    BY <2>2, HeapIs
  <2>5. \A i \in 1..Len(L) : L[i] \in 1..Len(st)
    BY DEF Linked, ListOf
  <2>6. \A i \in 1..Len(L) : L[i] \in 1..Len(tt)
    BY <1>4, <2>5
  <2>7. \A j \in 1..Len(N) : N[j] \in 1..Len(tt)
    BY DEF Behind, ListOf
  <2>8. ApartOf(Joined(L, N, e), tt, r)
    <3>1. \A i \in 1..Len(L) : st[L[i]].units # NullBlkt => st[L[i]].units[1] \in Nat
      BY <2>3, <2>5
    <3>2. \A i \in 1..Len(L) : tt[L[i]].units # NullBlkt => tt[L[i]].units[1] \in Nat
      BY <2>4, <2>6
    <3>3. \A j \in 1..Len(N) : tt[N[j]].units # NullBlkt => tt[N[j]].units[1] \in Nat
      BY <2>4, <2>7
    <3> QED BY <1>1, <2>1, <3>1, <3>2, <3>3, ApartJoin
  <2> QED BY <1>2, <2>8
<1>10. Heads(J, K, tt)
  <2>1. /\ Heads(L, B, st)
        /\ \A i \in 1..Len(L) : Len(B[i]) # 0
        /\ \A i \in 1..Len(L) : tt[L[i]].first = st[L[i]].first
        /\ \A j \in 1..Len(N) : j > e => tt[N[j]].first = C[j][1]
    BY DEF Linked, Behind, BlktsOf
  <2> HIDE DEF S
  <2> QED BY <1>1, <1>2, <1>3, <2>1, HeadsJoin
<1>11. Ends(J, K, L, B, N, C, e)
  <2> HIDE DEF S
  <2> QED BY <1>1, <1>2, <1>3, EndsAre
<1>12. Linked(J, K, t, r, tt, mxt)
  BY <1>5, <1>7, <1>8, <1>9, <1>10 DEF Linked
<1> QED BY <1>2, <1>3, <1>7, <1>8, <1>11, <1>12

(* The list spells the text up to position q, and its stages have units of *)
(* their own.                                                              *)
Spells(L, B, t, q, st) == RunsOf(L, B, st) = Groups(t, q - 1) /\ OwnUnits(t, L, B, st)

(* What is hung behind it spells what it brings.                           *)
Spelt(L, B, N, C, G, e, t, q, r, st, tt) ==
  /\ RunsBrought(G, L, N, C, st, tt, e, Blkts(t))
  /\ Groups(t, r - 1) = Extend(Groups(t, q - 1), G[1]) \o Tail(G)
  /\ OwnBrought(L, B, N, C, e, t, st, tt)

(* The longer list spells the text up to position r.                       *)
LEMMA SpellsJoin ==
  ASSUME NEW t, DOMAIN t \subseteq Nat, NEW st, HeapOf(t, st), NEW tt,
         NEW nxt, NEW mxt, NEW q \in Nat, NEW r \in Nat, q <= r,
         NEW L, NEW B, Linked(L, B, t, q, st, nxt), Spells(L, B, t, q, st),
         NEW N, NEW C, NEW G,
         NEW e \in Nat, e <= 1, Behind(L, B, N, C, e, t, q, r, st, tt, nxt, mxt),
         Spelt(L, B, N, C, G, e, t, q, r, st, tt)
  PROVE  Spells(Joined(L, N, e), JoinedBlkts(B, C, e), t, r, tt)
<1> DEFINE S == Blkts(t)
<1>1. /\ L \in Seq(Nat) /\ N \in Seq(Nat) /\ Len(N) # 0
      /\ Lists(B, S) /\ Lists(C, S) /\ Len(B) = Len(L) /\ Len(C) = Len(N)
      /\ (e = 1 => Len(L) # 0)
  BY DEF Linked, Behind, Carried
<1>2. PICK J : J = Joined(L, N, e)
  OBVIOUS
<1>3. PICK K : K = JoinedBlkts(B, C, e)
  OBVIOUS
<1>4. RunsOf(J, K, tt) = Extend(RunsOf(L, B, st), G[1]) \o Tail(G)
  <2>1. RunsBrought(G, L, N, C, st, tt, e, S)
    BY DEF Spelt
  <2>2. \A i \in 1..Len(L) : L[i] \in 1..Len(st)
    BY DEF Linked, ListOf
  <2>3. \A s \in 1..Len(st) : st[s].seq \in SeqNos
    BY HeapIs
  <2>4. \A i \in 1..Len(L) : tt[L[i]].seq = st[L[i]].seq
    BY DEF Behind
  <2>5. SeqsKept(L, st, tt)
    BY <2>2, <2>3, <2>4 DEF SeqsKept
  <2>7. Joinable(L, N, B, C, e, S)
    BY <1>1 DEF Joinable
  <2> HIDE DEF S
  <2>6. RunsJoined(Joined(L, N, e), JoinedBlkts(B, C, e), L, B, G, st, tt)
    BY <2>1, <2>5, <2>7, RunsJoin
  <2> QED BY <1>2, <1>3, <2>6 DEF RunsJoined
<1>5. RunsOf(J, K, tt) = Groups(t, r - 1)
  BY <1>4 DEF Spells, Spelt
<1>6. OwnUnits(t, J, K, tt)
  <2>1. OwnBrought(L, B, N, C, e, t, st, tt)
    BY DEF Spelt
  <2>2. OwnUnits(t, L, B, st)
    BY DEF Spells
  <2> HIDE DEF S
  <2>3. OwnUnits(t, Joined(L, N, e), JoinedBlkts(B, C, e), tt)
    BY <1>1, <2>1, <2>2, OwnJoin
  <2> QED BY <1>2, <1>3, <2>3
<1> QED BY <1>2, <1>3, <1>5, <1>6 DEF Spells

-----------------------------------------------------------------------------
(* The list as it is before the blockette at position q of t is read: this *)
(* is the last stage, or the empty one the channel begins with, and last   *)
(* the last blockette.                                                     *)
Ready(t, q, st, nxt, L, B, this, last) ==
  /\ t \in Seq(Blockette) /\ q \in 1..Len(t)
  /\ HeapOf(t, st)
  /\ nxt \in [Blkts(t) -> Blkts(t) \cup {NullBlkt}]
  /\ \A b \in Blkts(t) : b[1] >= q => nxt[b] = NullBlkt
  /\ Linked(L, B, t, q, st, nxt)
  /\ IF Len(L) = 0
       THEN st = <<NewStage(0, NullBlkt, NullBlkt)>> /\ this = 1
       ELSE this = L[Len(L)] /\ last = LastBlkt(B)

(* What that says of the last stage and of the last blockette.             *)
LEMMA ReadyEnds ==
  ASSUME NEW t, NEW q, NEW st, NEW nxt, NEW L, NEW B, NEW this, NEW last,
         Ready(t, q, st, nxt, L, B, this, last)
  PROVE  /\ Len(st) \in Nat /\ Len(L) \in Nat /\ this \in 1..Len(st)
         /\ DOMAIN t \subseteq Nat /\ q \in DOMAIN t /\ q \in Nat
         /\ Len(B) = Len(L)
         /\ Len(L) # 0 =>
              /\ Len(L) \in 1..Len(L)
              /\ this = L[Len(L)] /\ st[this].next = NullStage
              /\ Len(B[Len(L)]) \in 1..Len(B[Len(L)])
              /\ last = B[Len(L)][Len(B[Len(L)])]
              /\ last \in Blkts(t) /\ last[1] < q
         /\ Len(L) = 0 => st = <<NewStage(0, NullBlkt, NullBlkt)>> /\ this = 1
<1>1. /\ t \in Seq(Blockette) /\ q \in 1..Len(t) /\ HeapOf(t, st)
      /\ Linked(L, B, t, q, st, nxt)
      /\ Len(L) # 0 => this = L[Len(L)] /\ last = LastBlkt(B)
      /\ Len(L) = 0 => st = <<NewStage(0, NullBlkt, NullBlkt)>> /\ this = 1
  BY DEF Ready
<1>2. DOMAIN t \subseteq Nat /\ q \in DOMAIN t /\ q \in Nat
  BY <1>1
<1>3. Len(st) \in Nat
  BY <1>1, <1>2, HeapIs
<1>4. /\ L \in Seq(Nat) /\ Lists(B, Blkts(t)) /\ Len(B) = Len(L)
      /\ ListOf(L, st) /\ BlktsOf(B, nxt, q)
  BY <1>1 DEF Linked
<1>5. Len(L) \in Nat
  BY <1>4
<1>6. ASSUME Len(L) # 0
      PROVE  /\ Len(L) \in 1..Len(L)
             /\ this \in 1..Len(st) /\ st[this].next = NullStage
             /\ Len(B[Len(L)]) \in 1..Len(B[Len(L)])
             /\ last = B[Len(L)][Len(B[Len(L)])]
             /\ last \in Blkts(t) /\ last[1] < q
  <2>1. Len(L) \in 1..Len(L)
    BY <1>5, <1>6
  <2>2. this \in 1..Len(st) /\ st[this].next = NullStage
    BY <1>1, <1>4, <1>6, <2>1 DEF ListOf
  <2>3. Len(B[Len(L)]) \in Nat /\ Len(B[Len(L)]) # 0
    BY <1>4, <2>1, ListsAre DEF BlktsOf
  <2>4. Len(B[Len(L)]) \in 1..Len(B[Len(L)])
    BY <2>3
  <2>5. last = B[Len(L)][Len(B[Len(L)])]
    BY <1>1, <1>4, <1>6 DEF LastBlkt
  <2>6. last \in Blkts(t)
    BY <1>4, <2>1, <2>4, <2>5, ListsAre
  <2>7. last[1] < q
    BY <1>4, <2>1, <2>4, <2>5 DEF BlktsOf
  <2> QED BY <2>1, <2>2, <2>4, <2>5, <2>6, <2>7
<1>7. Len(L) = 0 => this \in 1..Len(st)
  BY <1>1
<1> QED BY <1>1, <1>2, <1>3, <1>4, <1>5, <1>6, <1>7

(* A stage x is added to a heap, and stage s given a next one; s is given  *)
(* units.                                                                  *)
Prolonged(st, s, next, x) == Append([st EXCEPT ![s].next = next], x)
Supplied(st, s, units) == [st EXCEPT ![s].units = units]

(* In a heap, with a stage and a next one fit for it.                      *)
Prolongs(t, st, s, next, x) ==
  /\ HeapOf(t, st) /\ s \in 1..Len(st)
  /\ next \in 0..(Len(st) + 1) /\ x \in Stages(t, Len(st) + 1)

HasProlonged(t, st, s, next, x, tt) ==
  /\ HeapOf(t, tt) /\ Len(tt) = Len(st) + 1 /\ tt[Len(st) + 1] = x
  /\ \A a \in 1..Len(st) : a # s => tt[a] = st[a]
  /\ tt[s] = [st[s] EXCEPT !.next = next]

(* What is then in the heap.                                               *)
LEMMA HeapAppend ==
  ASSUME NEW t, NEW st, NEW this, NEW next, NEW x, Prolongs(t, st, this, next, x)
  PROVE  HasProlonged(t, st, this, next, x, Prolonged(st, this, next, x))
<1> /\ HeapOf(t, st) /\ this \in 1..Len(st)
    /\ next \in 0..(Len(st) + 1) /\ x \in Stages(t, Len(st) + 1)
  BY DEF Prolongs
<1> DEFINE u == [st EXCEPT ![this].next = next]
           S == Stages(t, Len(st) + 1)
<1>1. st \in Seq(Stages(t, Len(st))) /\ Len(st) \in Nat
  BY DEF HeapOf
<1>2. \A s \in 1..Len(st) : st[s] \in S
  <2>1. \A x1 \in Stages(t, Len(st)) : x1 \in S
    <3>1. 0..Len(st) \subseteq 0..(Len(st) + 1)
      BY <1>1
    <3> QED BY <3>1 DEF Stages
  <2> HIDE DEF S
  <2> QED BY <1>1, <2>1
<1>3. [st[this] EXCEPT !.next = next] \in S
  <2>1. st[this] \in S
    BY <1>2
  <2>2. \A x1 \in S : [x1 EXCEPT !.next = next] \in S
    BY DEF Stages
  <2> HIDE DEF S
  <2> QED BY <2>1, <2>2
<1>4. /\ u \in Seq(S) /\ Len(u) = Len(st)
      /\ \A s \in 1..Len(st) : s # this => u[s] = st[s]
      /\ u[this] = [st[this] EXCEPT !.next = next]
  <2> HIDE DEF S
  <2> QED BY <1>1, <1>2, <1>3
<1>5. /\ Append(u, x) \in Seq(S) /\ Len(Append(u, x)) = Len(st) + 1
      /\ Append(u, x)[Len(st) + 1] = x
      /\ \A s \in 1..Len(st) : Append(u, x)[s] = u[s]
  <2> HIDE DEF S, u
  <2> QED BY <1>1, <1>4 DEF S
<1> HIDE DEF u, S
<1>6. PICK tt : tt = Prolonged(st, this, next, x)
  OBVIOUS
<1>7. tt = Append(u, x)
  BY <1>6 DEF u, Prolonged
<1>8. HasProlonged(t, st, this, next, x, tt)
  BY <1>4, <1>5, <1>7 DEF HeapOf, S, HasProlonged
<1> QED BY <1>6, <1>8

(* The heap once blockette b of stage number seq is hung in it, behind a   *)
(* list of n stages that ends with this: LinkBlockette.  The units are     *)
(* taken if w is 1.                                                        *)
HungIn(st, n, e, this, b, seq, w, units) ==
  LET new == n # 0 /\ e = 0
      target == IF new THEN Len(st) + 1 ELSE this
      linked == IF new
                  THEN Append([st EXCEPT ![this].next = target], NewStage(seq, b, NullBlkt))
                ELSE IF e = 1 THEN st
                ELSE [st EXCEPT ![this].first = b, ![this].seq = seq]
  IN  IF w = 1 THEN [linked EXCEPT ![target].units = units] ELSE linked

(* What is hung there: b itself, or its units, may be those of a filter.   *)
Hangs(t, b, seq, units, w, e, n) ==
  /\ b \in Blkts(t) /\ seq \in SeqNos /\ units \in {NullBlkt, b}
  /\ w \in Nat /\ e \in Nat /\ e <= 1 /\ (e = 1 => n # 0)

(* That heap, stage by stage.                                              *)
HungStages(t, st, tt, n, e, this, target, b, seq, w, units) ==
  /\ HeapOf(t, tt) /\ Len(st) <= Len(tt) /\ target \in 1..Len(tt)
  /\ \A s \in 1..Len(st) : s # this => tt[s] = st[s]
  /\ n # 0 => tt[this].first = st[this].first /\ tt[this].seq = st[this].seq
  /\ e = 1 => /\ target = this /\ tt[this].next = st[this].next
              /\ tt[this].units = IF w = 1 THEN units ELSE st[this].units
  /\ n # 0 /\ e = 0 => /\ target = Len(st) + 1 /\ tt[this].next = target
                       /\ tt[this].units = st[this].units
  /\ e = 0 => /\ tt[target].seq = seq /\ tt[target].first = b
              /\ tt[target].units = IF w = 1 THEN units ELSE NullBlkt
              /\ tt[target].next = NullStage

(* Units are given to a stage of a heap.                                   *)
LEMMA HeapUnits ==
  ASSUME NEW t, NEW st, HeapOf(t, st), NEW this \in 1..Len(st),
         NEW units \in Blkts(t) \cup {NullBlkt},
         NEW tt, tt = Supplied(st, this, units)
  PROVE  /\ HeapOf(t, tt) /\ Len(tt) = Len(st)
         /\ \A s \in 1..Len(st) : s # this => tt[s] = st[s]
         /\ tt[this] = [st[this] EXCEPT !.units = units]
<1> DEFINE S == Stages(t, Len(st))
<1>1. st \in Seq(S) /\ Len(st) \in Nat
  BY DEF HeapOf
<1>2. [st[this] EXCEPT !.units = units] \in S
  <2>1. st[this] \in S
    BY <1>1
  <2>2. \A x \in S : [x EXCEPT !.units = units] \in S
    BY DEF Stages
  <2> HIDE DEF S
  <2> QED BY <2>1, <2>2
<1>3. /\ tt \in Seq(S) /\ Len(tt) = Len(st)
      /\ \A s \in 1..Len(st) : s # this => tt[s] = st[s]
      /\ tt[this] = [st[this] EXCEPT !.units = units]
  <2> HIDE DEF S
  <2> QED BY <1>1, <1>2 DEF Supplied
<1> QED BY <1>3 DEF HeapOf

(* The heap is as said.                                                    *)
LEMMA HungStagesAre ==
  ASSUME NEW t, NEW st, HeapOf(t, st), NEW n, NEW e, NEW this \in 1..Len(st),
         NEW b, NEW seq, NEW w, NEW units, Hangs(t, b, seq, units, w, e, n),
         n = 0 => st = <<NewStage(0, NullBlkt, NullBlkt)>> /\ this = 1,
         NEW target, target = IF n # 0 /\ e = 0 THEN Len(st) + 1 ELSE this
  PROVE  HungStages(t, st, HungIn(st, n, e, this, b, seq, w, units),
                    n, e, this, target, b, seq, w, units)
<1> DEFINE new == Prolonged(st, this, target, NewStage(seq, b, NullBlkt))
           linked == IF n # 0 /\ e = 0 THEN new
                     ELSE IF e = 1 THEN st
                     ELSE [st EXCEPT ![this].first = b, ![this].seq = seq]
           gets(u, v) == IF w = 1 THEN units ELSE v
<1>1. PICK tt : tt = HungIn(st, n, e, this, b, seq, w, units)
  OBVIOUS
<1>2. tt = IF w = 1 THEN Supplied(linked, target, units) ELSE linked
  BY <1>1 DEF HungIn, Prolonged, Supplied
<1>3. /\ b \in Blkts(t) /\ seq \in SeqNos /\ units \in {NullBlkt, b}
      /\ e \in Nat /\ e <= 1 /\ (e = 1 => n # 0) /\ Len(st) \in Nat
  BY DEF Hangs, HeapOf
<1>4. /\ HeapOf(t, linked) /\ Len(st) <= Len(linked) /\ target \in 1..Len(linked)
      /\ \A s \in 1..Len(st) : s # this => linked[s] = st[s]
      /\ n # 0 => linked[this].first = st[this].first /\ linked[this].seq = st[this].seq
      /\ e = 1 => target = this /\ linked[this] = st[this]
      /\ n # 0 /\ e = 0 => /\ target = Len(st) + 1 /\ linked[this].next = target
                           /\ linked[this].units = st[this].units
      /\ e = 0 => linked[target] = NewStage(seq, b, NullBlkt)
  <2>1. CASE n # 0 /\ e = 0
    <3>1. target = Len(st) + 1 /\ target \in 0..(Len(st) + 1) /\ linked = new
      BY <1>3, <2>1
    <3>2. NewStage(seq, b, NullBlkt) \in Stages(t, Len(st) + 1)
      BY <1>3 DEF NewStage, Stages, NullStage
    <3>6. Prolongs(t, st, this, target, NewStage(seq, b, NullBlkt))
      BY <3>1, <3>2 DEF Prolongs
    <3> HIDE DEF linked
    <3>3. /\ HeapOf(t, linked) /\ Len(linked) = Len(st) + 1
          /\ linked[Len(st) + 1] = NewStage(seq, b, NullBlkt)
          /\ \A s \in 1..Len(st) : s # this => linked[s] = st[s]
          /\ linked[this] = [st[this] EXCEPT !.next = target]
      <4>1. HasProlonged(t, st, this, target, NewStage(seq, b, NullBlkt), linked)
        BY <3>1, <3>6, HeapAppend
      <4> QED BY <4>1 DEF HasProlonged
    <3>4. st[this] \in Stages(t, Len(st))
      BY DEF HeapOf
    <3>5. /\ linked[this].first = st[this].first /\ linked[this].seq = st[this].seq
          /\ linked[this].units = st[this].units /\ linked[this].next = target
      BY <3>3, <3>4 DEF Stages
    <3> QED BY <1>3, <2>1, <3>1, <3>3, <3>5
  <2>2. CASE e = 1
    <3>1. linked = st /\ target = this
      BY <2>2
    <3> HIDE DEF linked
    <3> QED BY <1>3, <2>2, <3>1
  <2>3. CASE n = 0
    <3>1. e = 0 /\ this = 1 /\ target = 1 /\ st = <<NewStage(0, NullBlkt, NullBlkt)>>
      BY <1>3, <2>3
    <3>2. linked = <<NewStage(seq, b, NullBlkt)>>
      <4>1. PICK x : x = NewStage(0, NullBlkt, NullBlkt)
        OBVIOUS
      <4>2. PICK y : y = [x EXCEPT !.first = b]
        OBVIOUS
      <4>3. y = NewStage(0, b, NullBlkt)
        BY <4>1, <4>2 DEF NewStage
      <4>4. [y EXCEPT !.seq = seq] = NewStage(seq, b, NullBlkt)
        BY <4>3 DEF NewStage
      <4>5. \A u : [<<u>> EXCEPT ![1].first = b, ![1].seq = seq]
                   = <<[[u EXCEPT !.first = b] EXCEPT !.seq = seq]>>
        OBVIOUS
      <4>6. linked = [<<x>> EXCEPT ![1].first = b, ![1].seq = seq]
        BY <2>3, <3>1, <4>1
      <4> HIDE DEF linked
      <4> QED BY <4>2, <4>4, <4>5, <4>6
    <3>3. NewStage(seq, b, NullBlkt) \in Stages(t, 1)
      BY <1>3 DEF NewStage, Stages, NullStage
    <3> HIDE DEF linked
    <3>4. linked \in Seq(Stages(t, 1)) /\ Len(linked) = 1 /\ Len(st) = 1
      BY <3>1, <3>2, <3>3
    <3>5. linked[1] = NewStage(seq, b, NullBlkt)
      BY <3>2
    <3> QED BY <2>3, <3>1, <3>4, <3>5 DEF HeapOf
  <2> QED BY <1>3, <2>1, <2>2, <2>3
<1> HIDE DEF linked, new
<1>5. CASE w # 1
  <2>1. tt = linked
    BY <1>2, <1>5
  <2>2. HungStages(t, st, tt, n, e, this, target, b, seq, w, units)
    BY <1>3, <1>4, <1>5, <2>1 DEF HungStages, NewStage
  <2> QED BY <1>1, <2>2
<1>6. CASE w = 1
  <2>1. tt = Supplied(linked, target, units)
    BY <1>2, <1>6
  <2>2. /\ HeapOf(t, tt) /\ Len(tt) = Len(linked)
        /\ \A s \in 1..Len(linked) : s # target => tt[s] = linked[s]
        /\ tt[target] = [linked[target] EXCEPT !.units = units]
    BY <1>3, <1>4, <2>1, HeapUnits
  <2>3. linked[target] \in Stages(t, Len(linked))
    BY <1>4 DEF HeapOf
  <2>4. /\ tt[target].seq = linked[target].seq /\ tt[target].first = linked[target].first
        /\ tt[target].next = linked[target].next /\ tt[target].units = units
    BY <2>2, <2>3 DEF Stages
  <2>5. HungStages(t, st, tt, n, e, this, target, b, seq, w, units)
    <3>1. HeapOf(t, tt) /\ Len(st) <= Len(tt) /\ target \in 1..Len(tt)
      BY <1>4, <2>2
    <3>2. \A s \in 1..Len(st) : s \in 1..Len(linked)
      BY <1>3, <1>4
    <3>3. \A s \in 1..Len(st) : s # this => s # target
      BY <1>3
    <3>4. \A s \in 1..Len(st) : s # this => tt[s] = st[s]
      BY <1>4, <2>2, <3>2, <3>3
    <3>5. CASE e = 1
      BY <1>3, <1>4, <1>6, <2>4, <3>1, <3>4, <3>5 DEF HungStages
    <3>6. CASE e = 0
      <4>1. /\ tt[target].seq = seq /\ tt[target].first = b /\ tt[target].next = NullStage
        BY <1>4, <2>4, <3>6 DEF NewStage
      <4>2. CASE n # 0
        <5>1. target # this /\ this \in 1..Len(linked)
          BY <1>3, <3>2, <3>6, <4>2
        <5>2. tt[this] = linked[this]
          BY <2>2, <5>1
        <5> QED BY <1>4, <1>6, <2>4, <3>1, <3>4, <3>6, <4>1, <4>2, <5>2 DEF HungStages
      <4>3. CASE n = 0
        BY <1>6, <2>4, <3>1, <3>4, <3>6, <4>1, <4>3 DEF HungStages
      <4> QED BY <4>2, <4>3
    <3> QED BY <1>3, <3>5, <3>6
  <2> QED BY <1>1, <2>5
<1> QED BY <1>5, <1>6

-----------------------------------------------------------------------------
(* A blockette is linked behind the last one if it shares its stage.       *)
LinkedTo(nxt, last, b, e) == IF e = 1 THEN [nxt EXCEPT ![last] = b] ELSE nxt

(* The links kept are those of nxt up to position q.                       *)
LinksTo(t, q, nxt, kept, b, e, n) ==
  /\ b \in Blkts(t) /\ e \in Nat /\ e <= 1 /\ (e = 1 => n # 0)
  /\ kept \in [Blkts(t) -> Blkts(t) \cup {NullBlkt}]
  /\ \A x \in Blkts(t) : x[1] < q => kept[x] = nxt[x]

(* The links mxt are those kept, but for the last of the list.             *)
LinkedOn(t, q, B, nxt, kept, mxt, b, e) ==
  /\ mxt \in [Blkts(t) -> Blkts(t) \cup {NullBlkt}]
  /\ \A x \in Blkts(t) : x[1] >= q => mxt[x] = kept[x]
  /\ \A i \in 1..Len(B) : \A m \in 1..Len(B[i]) : mxt[B[i][m]] =
       IF e = 1 /\ i = Len(B) /\ m = Len(B[i]) THEN b ELSE nxt[B[i][m]]

(* That is what linking to the last blockette does.                        *)
LEMMA LinkedToIs ==
  ASSUME NEW t, NEW q, NEW st, NEW nxt, NEW L, NEW B, NEW this, NEW last,
         Ready(t, q, st, nxt, L, B, this, last),
         NEW kept, NEW b, NEW e, LinksTo(t, q, nxt, kept, b, e, Len(L))
  PROVE  LinkedOn(t, q, B, nxt, kept, LinkedTo(kept, last, b, e), b, e)
<1> /\ b \in Blkts(t) /\ e \in Nat /\ e <= 1 /\ (e = 1 => Len(L) # 0)
    /\ kept \in [Blkts(t) -> Blkts(t) \cup {NullBlkt}]
    /\ \A x \in Blkts(t) : x[1] < q => kept[x] = nxt[x]
  BY DEF LinksTo
<1>9. PICK mxt : mxt = LinkedTo(kept, last, b, e)
  OBVIOUS
<1>1. Len(B) = Len(L) /\ DOMAIN t \subseteq Nat /\ q \in Nat
  BY ReadyEnds
<1>2. Len(L) # 0 =>
        /\ Len(L) \in 1..Len(L)
        /\ Len(B[Len(L)]) \in 1..Len(B[Len(L)])
        /\ last = B[Len(L)][Len(B[Len(L)])]
        /\ last \in Blkts(t) /\ last[1] < q
  BY ReadyEnds
<1>3. Linked(L, B, t, q, st, nxt)
  BY DEF Ready
<1>4. \A i \in 1..Len(B) : \A m \in 1..Len(B[i]) : B[i][m] \in Blkts(t) /\ B[i][m][1] < q
  BY <1>3, ListsAre DEF Linked, BlktsOf
<1>5. \A x \in Blkts(t) : mxt[x] = IF e = 1 /\ x = last THEN b ELSE kept[x]
  BY <1>2, <1>9 DEF LinkedTo
<1>6. mxt \in [Blkts(t) -> Blkts(t) \cup {NullBlkt}]
  BY <1>2, <1>9 DEF LinkedTo
<1>7. ASSUME NEW x \in Blkts(t), x[1] >= q PROVE mxt[x] = kept[x]
  <2>1. x[1] \in Nat
    BY <1>1, BlktsAre
  <2>2. ~ (e = 1 /\ x = last)
    BY <1>1, <1>2, <1>7, <2>1
  <2> QED BY <1>5, <2>2
<1>8. ASSUME NEW i \in 1..Len(B), NEW m \in 1..Len(B[i])
      PROVE  mxt[B[i][m]] =
               IF e = 1 /\ i = Len(B) /\ m = Len(B[i]) THEN b ELSE nxt[B[i][m]]
  <2>1. B[i][m] \in Blkts(t) /\ kept[B[i][m]] = nxt[B[i][m]]
    BY <1>4
  <2>2. CASE e = 1 /\ i = Len(B) /\ m = Len(B[i])
    <3>1. B[i][m] = last
      BY <1>1, <1>2, <2>2
    <3> QED BY <1>5, <2>1, <2>2, <3>1
  <2>3. CASE ~ (e = 1 /\ i = Len(B) /\ m = Len(B[i]))
    <3>1. ~ (e = 1 /\ B[i][m] = last)
      <4>1. SUFFICES ASSUME e = 1, B[i][m] = last PROVE FALSE
        OBVIOUS
      <4>2. \A i1, j1 \in 1..Len(B) : \A m1 \in 1..Len(B[i1]), n1 \in 1..Len(B[j1]) :
              B[i1][m1] = B[j1][n1] => i1 = j1 /\ m1 = n1
        BY <1>3 DEF Linked, BlktsOf
      <4>3. i = Len(B) /\ m = Len(B[Len(B)])
        BY <1>1, <1>2, <4>1, <4>2, SMTT(30)
      <4> QED BY <2>3, <4>1, <4>3
    <3> QED BY <1>5, <2>1, <2>3, <3>1
  <2> QED BY <2>2, <2>3
<1> QED BY <1>6, <1>7, <1>8, <1>9 DEF LinkedOn

(* A blockette that is hung in its stage, or in a new one, is hung behind  *)
(* the list.                                                               *)
LEMMA BlktBehind ==
  ASSUME NEW t, NEW q, NEW st, NEW nxt, NEW L, NEW B, NEW this, NEW last,
         Ready(t, q, st, nxt, L, B, this, last),
         NEW seq, NEW units, NEW w, NEW e,
         Hangs(t, <<q, 0, 0>>, seq, units, w, e, Len(L)),
         NEW tt, NEW target,
         HungStages(t, st, tt, Len(L), e, this, target, <<q, 0, 0>>, seq, w, units),
         NEW mxt, mxt = LinkedTo(nxt, last, <<q, 0, 0>>, e),
         NEW r \in Nat, q < r
  PROVE  Behind(L, B, <<target>>, <<<<<<q, 0, 0>>>>>>, e, t, q, r, st, tt, nxt, mxt)
<1>1. PICK b : b = <<q, 0, 0>>
  OBVIOUS
<1>2. PICK N : N = <<target>>
  OBVIOUS
<1>3. PICK C : C = <<<<b>>>>
  OBVIOUS
<1>4. /\ b \in Blkts(t) /\ seq \in SeqNos /\ units \in {NullBlkt, b}
      /\ e \in Nat /\ e <= 1 /\ (e = 1 => Len(L) # 0)
  BY <1>1 DEF Hangs
<1>5. /\ Len(st) \in Nat /\ Len(L) \in Nat /\ this \in 1..Len(st)
      /\ DOMAIN t \subseteq Nat /\ q \in DOMAIN t /\ q \in Nat
      /\ Len(B) = Len(L)
      /\ Len(L) # 0 => Len(L) \in 1..Len(L) /\ this = L[Len(L)] /\ st[this].next = NullStage
  BY ReadyEnds
<1>6. /\ HeapOf(t, tt) /\ Len(st) <= Len(tt) /\ target \in 1..Len(tt)
      /\ \A s \in 1..Len(st) : s # this => tt[s] = st[s]
  BY DEF HungStages
<1>7. Len(L) # 0 => tt[this].first = st[this].first /\ tt[this].seq = st[this].seq
  BY DEF HungStages
<1>8. e = 1 => /\ target = this /\ tt[this].next = st[this].next
               /\ tt[this].units = IF w = 1 THEN units ELSE st[this].units
  BY DEF HungStages
<1>9. Len(L) # 0 /\ e = 0 => /\ target = Len(st) + 1 /\ tt[this].next = target
                             /\ tt[this].units = st[this].units
  BY DEF HungStages
<1>10. e = 0 => /\ tt[target].seq = seq /\ tt[target].first = b
                /\ tt[target].units = IF w = 1 THEN units ELSE NullBlkt
                /\ tt[target].next = NullStage
  BY <1>1 DEF HungStages
<1>11. /\ N \in Seq(Nat) /\ Len(N) = 1 /\ N[1] = target
       /\ Lists(C, Blkts(t)) /\ Len(C) = 1 /\ Len(C[1]) = 1 /\ C[1][1] = b
  <2>1. target \in Nat
    BY <1>6
  <2>2. N \in Seq(Nat) /\ Len(N) = 1 /\ N[1] = target
    BY <1>2, <2>1
  <2>3. <<b>> \in Seq(Blkts(t))
    BY <1>4
  <2>4. \A S : \A x \in S : <<x>> \in Seq(S) /\ Len(<<x>>) = 1 /\ <<x>>[1] = x
    OBVIOUS
  <2> DEFINE T == Seq(Blkts(t))
  <2>5. <<b>> \in T
    BY <2>3
  <2> HIDE DEF T
  <2>6. C \in Seq(T) /\ Len(C) = 1 /\ C[1] = <<b>>
    BY <1>3, <2>4, <2>5
  <2>7. Lists(C, Blkts(t))
    BY <2>6 DEF Lists, T
  <2>8. Len(<<b>>) = 1 /\ <<b>>[1] = b
    OBVIOUS
  <2> QED BY <2>2, <2>6, <2>7, <2>8
<1>12. b[1] = q
  BY <1>1
<1>13. Linked(L, B, t, q, st, nxt)
  BY DEF Ready
<1>14. /\ \A i \in 1..Len(L) : L[i] \in 1..Len(st)
       /\ \A i \in 1..Len(L) : i # Len(L) => L[i] # this
  <2>1. /\ \A i \in 1..Len(L) : L[i] \in 1..Len(st)
        /\ \A i, j \in 1..Len(L) : L[i] = L[j] => i = j
    BY <1>13 DEF Linked, ListOf
  <2> QED BY <1>5, <2>1
<1>15. \A i \in 1..Len(L) : i # Len(L) => tt[L[i]] = st[L[i]]
  BY <1>6, <1>14
<1>16. ListOf(N, tt)
  <2>1. tt[target].next = NullStage
    BY <1>4, <1>5, <1>8, <1>10
  <2>2. \A i \in 1..Len(N) : i = 1 /\ i = Len(N) /\ N[i] = target
    BY <1>11
  <2> QED BY <1>6, <2>1, <2>2 DEF ListOf
<1>17. Carried(L, st, N, tt, e)
  <2>1. ASSUME NEW i \in 1..Len(L)
        PROVE  tt[L[i]].next =
                 IF i # Len(L) THEN st[L[i]].next
                 ELSE IF e = 0 THEN N[1]
                 ELSE IF Len(N) = 1 THEN NullStage ELSE N[2]
    <3>1. CASE i # Len(L)
      BY <1>15, <3>1
    <3>2. CASE i = Len(L)
      BY <1>4, <1>5, <1>8, <1>9, <1>11, <3>2
    <3> QED BY <3>1, <3>2
  <2>2. ASSUME NEW i \in 1..Len(L), NEW j \in 1..Len(N), j > e PROVE L[i] # N[j]
    <3>1. j = 1 /\ e = 0 /\ Len(L) # 0
      BY <1>4, <1>5, <1>11, <2>2
    <3>2. N[j] = Len(st) + 1
      BY <1>9, <1>11, <3>1
    <3>3. L[i] \in 1..Len(st)
      BY <1>14
    <3> QED BY <1>5, <3>2, <3>3
  <2> QED BY <1>4, <2>1, <2>2 DEF Carried
<1>18. /\ \A x \in Blkts(t) : x[1] >= q => mxt[x] = nxt[x]
       /\ \A i \in 1..Len(B) : \A m \in 1..Len(B[i]) : mxt[B[i][m]] =
            IF e = 1 /\ i = Len(B) /\ m = Len(B[i]) THEN b ELSE nxt[B[i][m]]
  <2>1. nxt \in [Blkts(t) -> Blkts(t) \cup {NullBlkt}]
    BY DEF Ready
  <2>2. mxt = LinkedTo(nxt, last, b, e)
    BY <1>1
  <2>3. LinksTo(t, q, nxt, nxt, b, e, Len(L))
    BY <1>4, <2>1 DEF LinksTo
  <2>4. LinkedOn(t, q, B, nxt, nxt, mxt, b, e)
    BY <2>2, <2>3, LinkedToIs
  <2> QED BY <2>4 DEF LinkedOn
<1>19. BlktsOf(C, mxt, r)
  <2>1. mxt[b] = NullBlkt
    <3>1. nxt[b] = NullBlkt
      BY <1>4, <1>5, <1>12 DEF Ready
    <3> QED BY <1>4, <1>5, <1>12, <1>18, <3>1
  <2>2. \A i \in 1..Len(C) : i = 1 /\ Len(C[i]) = 1
    BY <1>11
  <2>3. \A i \in 1..Len(C) : \A m \in 1..Len(C[i]) : m = 1 /\ C[i][m] = b
    BY <1>11, <2>2
  <2>4. ASSUME NEW i \in 1..Len(C), NEW m \in 1..Len(C[i])
        PROVE  /\ C[i][m][1] < r
               /\ mxt[C[i][m]] = IF m = Len(C[i]) THEN NullBlkt ELSE C[i][m + 1]
    <3>1. C[i][m] = b /\ m = Len(C[i])
      BY <2>2, <2>3
    <3>2. b[1] < r
      BY <1>12
    <3> QED BY <2>1, <3>1, <3>2
  <2>5. \A i \in 1..Len(C) : Len(C[i]) # 0
    BY <2>2
  <2>6. \A i, j \in 1..Len(C) : \A m \in 1..Len(C[i]), n \in 1..Len(C[j]) :
          C[i][m] = C[j][n] => i = j /\ m = n
    <3>1. SUFFICES ASSUME NEW i \in 1..Len(C), NEW j \in 1..Len(C),
                          NEW m \in 1..Len(C[i]), NEW n \in 1..Len(C[j])
                   PROVE  i = j /\ m = n
      OBVIOUS
    <3>2. i = 1 /\ j = 1
      BY <2>2
    <3>3. m = 1 /\ n = 1
      BY <2>3
    <3> QED BY <3>2, <3>3
  <2> QED BY <2>4, <2>5, <2>6 DEF BlktsOf
<1>20. Relinked(B, nxt, C, mxt, e, q)
  <2>1. \A j \in 1..Len(C) : \A m \in 1..Len(C[j]) : C[j][m][1] >= q
    <3>1. \A j \in 1..Len(C) : \A m \in 1..Len(C[j]) : C[j][m] = b
      BY <1>11
    <3> QED BY <1>5, <1>12, <3>1, SMTT(30)
  <2> QED BY <1>4, <1>5, <1>11, <1>18, <2>1 DEF Relinked
<1>21. UnitsCarried(L, st, N, tt, e, q, r)
  <2>1. \A i \in 1..Len(L) : e = 0 \/ i # Len(L) \/ Len(N) # 1 =>
          tt[L[i]].units = st[L[i]].units
    <3>1. SUFFICES ASSUME NEW i \in 1..Len(L), e = 0 \/ i # Len(L)
                   PROVE  tt[L[i]].units = st[L[i]].units
      BY <1>11
    <3>2. CASE i # Len(L)
      BY <1>15, <3>2
    <3>3. CASE i = Len(L) /\ e = 0
      BY <1>5, <1>9, <3>3
    <3> QED BY <3>1, <3>2, <3>3
  <2>2. units # NullBlkt => units[1] >= q /\ units[1] < r
    BY <1>4, <1>5, <1>12
  <2>3. e = 1 => LET u == tt[L[Len(L)]].units
                 IN  u = st[L[Len(L)]].units \/ u = NullBlkt \/ (u[1] >= q /\ u[1] < r)
    BY <1>4, <1>5, <1>8, <2>2
  <2>4. ASSUME NEW j \in 1..Len(N), j > e, tt[N[j]].units # NullBlkt
        PROVE  /\ tt[N[j]].units[1] >= q /\ tt[N[j]].units[1] < r
               /\ \A a \in 1..Len(N) : a > e /\ tt[N[a]].units = tt[N[j]].units => a = j
    <3>1. j = 1 /\ e = 0 /\ N[j] = target
      BY <1>4, <1>11, <2>4
    <3>2. tt[N[j]].units = units
      BY <1>10, <2>4, <3>1
    <3> QED BY <1>11, <2>2, <2>4, <3>1, <3>2
  <2> QED BY <2>1, <2>3, <2>4 DEF UnitsCarried
<1>22. \A i \in 1..Len(L) : tt[L[i]].first = st[L[i]].first /\ tt[L[i]].seq = st[L[i]].seq
  BY <1>5, <1>7, <1>15
<1>23. \A j \in 1..Len(N) : j > e => tt[N[j]].first = C[j][1]
  BY <1>4, <1>10, <1>11
<1>24. Behind(L, B, N, C, e, t, q, r, st, tt, nxt, mxt)
  BY <1>6, <1>11, <1>16, <1>17, <1>19, <1>20, <1>21, <1>22, <1>23 DEF Behind
<1> QED BY <1>1, <1>2, <1>3, <1>24

-----------------------------------------------------------------------------
(* While the blockettes of the last stage are all from outside a [60],     *)
(* no_units (here 1 for TRUE) tells whether they have a filter.            *)
LastTold(t, blkts, nou) ==
  (\A b \in Range(blkts) : b[2] = 0) => (nou = 1 <=> Own(t, blkts) = {})

(* The blockette is read as it stands in the text, and its units are taken *)
(* as LinkBlockette says.                                                  *)
Takes(t, q, L, st, seq, w, units, e, nou, told) ==
  /\ t[q].kind \in Response /\ seq = t[q].seq
  /\ t[q].kind = "filter" => units = <<q, 0, 0>>
  /\ e = 1 <=> Len(L) # 0 /\ st[L[Len(L)]].seq = seq
  /\ w = 1 <=> (nou = 1 \/ e = 0) /\ t[q].kind = "filter"
  /\ told = 1 <=> (nou = 1 \/ e = 0) /\ t[q].kind # "filter"

(* A blockette is one of the text, or one nested in a [60] of it.          *)
LEMMA BlktNumbers ==
  ASSUME NEW t, DOMAIN t \subseteq Nat, NEW b \in Blkts(t)
  PROVE  \E p \in DOMAIN t :
           \/ b = <<p, 0, 0>>
           \/ /\ t[p].kind = "ref"
              /\ \E s \in DOMAIN t[p].stages : \E r \in 0..Len(t[p].stages[s].resps) :
                   b = <<p, s, r>>
<1>1. CASE b \in {<<p, 0, 0>> : p \in DOMAIN t}
  BY <1>1
<1>2. CASE b \in UNION {UNION {{<<p, s, r>> : r \in 0..Len(t[p].stages[s].resps)} :
                                s \in DOMAIN t[p].stages} :
                         p \in {q \in DOMAIN t : t[q].kind = "ref"}}
  <2>1. PICK p \in {q \in DOMAIN t : t[q].kind = "ref"} :
          b \in UNION {{<<p, s, r>> : r \in 0..Len(t[p].stages[s].resps)} :
                        s \in DOMAIN t[p].stages}
    BY <1>2
  <2>2. PICK s \in DOMAIN t[p].stages :
          b \in {<<p, s, r>> : r \in 0..Len(t[p].stages[s].resps)}
    BY <2>1
  <2> QED BY <2>1, <2>2
<1> QED BY <1>1, <1>2 DEF Blkts

(* A blockette outside a [60] shares its home with those outside only.     *)
LEMMA HomeOutside ==
  ASSUME NEW b, b[2] = 0, NEW c, Home(c) = Home(b), c[2] \in Nat
  PROVE  c[2] = 0
<1>1. Home(b) = <<0, 0>>
  BY DEF Home
<1>2. CASE c[2] > 0
  <2>1. Home(c) = <<c[1], c[2]>>
    BY <1>2 DEF Home
  <2> QED BY <1>1, <1>2, <2>1
<1> QED BY <1>2

(* A sequence of one element.                                              *)
LEMMA SingleIs ==
  ASSUME NEW S, NEW x \in S
  PROVE  <<x>> \in Seq(S) /\ Len(<<x>>) = 1 /\ <<x>>[1] = x
OBVIOUS

(* What a sequence has, place by place.                                    *)
LEMMA RangeIs ==
  ASSUME NEW S, NEW a \in Seq(S)
  PROVE  Range(a) = {a[i] : i \in 1..Len(a)}
<1>1. DOMAIN a = 1..Len(a)
  OBVIOUS
<1> QED BY <1>1 DEF Range

(* What two sequences have between them.                                   *)
LEMMA RangeConcat ==
  ASSUME NEW S, NEW a \in Seq(S), NEW b \in Seq(S)
  PROVE  Range(a \o b) = Range(a) \cup Range(b)
<1>1. PICK c : c = a \o b
  OBVIOUS
<1>2. /\ c \in Seq(S) /\ Len(c) = Len(a) + Len(b) /\ Len(a) \in Nat /\ Len(b) \in Nat
      /\ \A i \in 1..Len(a) : i \in 1..Len(c) /\ c[i] = a[i]
      /\ \A i \in 1..Len(b) : Len(a) + i \in 1..Len(c) /\ c[Len(a) + i] = b[i]
      /\ \A i \in 1..Len(c) :
           \/ i <= Len(a) /\ i \in 1..Len(a) /\ c[i] = a[i]
           \/ \E j \in 1..Len(b) : c[i] = b[j]
  <2>1. ASSUME NEW i \in 1..Len(c)
        PROVE  \/ i <= Len(a) /\ i \in 1..Len(a) /\ c[i] = a[i]
               \/ \E j \in 1..Len(b) : c[i] = b[j]
    <3>1. CASE i <= Len(a)
      BY <1>1, <3>1
    <3>2. CASE i > Len(a)
      <4>1. i - Len(a) \in 1..Len(b) /\ c[i] = b[i - Len(a)]
        BY <1>1, <3>2
      <4> QED BY <4>1
    <3> QED BY <3>1, <3>2
  <2>2. /\ c \in Seq(S) /\ Len(c) = Len(a) + Len(b) /\ Len(a) \in Nat /\ Len(b) \in Nat
        /\ \A i \in 1..Len(a) : i \in 1..Len(c) /\ c[i] = a[i]
        /\ \A i \in 1..Len(b) : Len(a) + i \in 1..Len(c) /\ c[Len(a) + i] = b[i]
    BY <1>1, ConcatParts
  <2> QED BY <2>1, <2>2
<1>3. /\ Range(a) = {a[i] : i \in 1..Len(a)}
      /\ Range(b) = {b[i] : i \in 1..Len(b)}
      /\ Range(c) = {c[i] : i \in 1..Len(c)}
  <2>1. c \in Seq(S)
    BY <1>2
  <2> QED BY <2>1, RangeIs
<1>4. ASSUME NEW x \in Range(c) PROVE x \in Range(a) \cup Range(b)
  BY <1>2, <1>3, SMTT(30)
<1>5. ASSUME NEW x \in Range(a) PROVE x \in Range(c)
  BY <1>2, <1>3
<1>6. ASSUME NEW x \in Range(b) PROVE x \in Range(c)
  <2>1. PICK i \in 1..Len(b) : x = b[i]
    BY <1>3
  <2> QED BY <1>2, <1>3, <2>1
<1> QED BY <1>1, <1>4, <1>5, <1>6

(* A blockette from outside a [60] added to those of a stage.              *)
LEMMA OwnAppend ==
  ASSUME NEW t, NEW S, NEW a \in Seq(S), NEW b \in S, b[2] = 0,
         \A c \in Range(a) : c[2] \in Nat,
         NEW old, UnitsOwn(t, a, old), NEW units, NEW nou, LastTold(t, a, nou),
         IsFilter(t, b) =>
           IF nou = 1 THEN units = b ELSE units = old,
         ~ IsFilter(t, b) => units = old,
         NEW told, told = 1 <=> nou = 1 /\ ~ IsFilter(t, b)
  PROVE  UnitsOwn(t, a \o <<b>>, units) /\ LastTold(t, a \o <<b>>, told)
<1>1. Range(<<b>>) = {b}
  BY DEF Range
<1>2. Range(a \o <<b>>) = Range(a) \cup {b}
  <2>1. PICK u \in Seq(S) : u = <<b>>
    BY SingleIs
  <2>2. Range(a \o u) = Range(a) \cup Range(u)
    BY RangeConcat
  <2> QED BY <1>1, <2>1, <2>2
<1>3. Own(t, a \o <<b>>) = Own(t, a) \cup {c \in {b} : IsFilter(t, c)}
  BY <1>2 DEF Own
<1>4. UnitsOwn(t, a \o <<b>>, units)
  <2>1. SUFFICES ASSUME Unmixed(Range(a) \cup {b})
                 PROVE  units \in IF Own(t, a \o <<b>>) = {} THEN {NullBlkt}
                                  ELSE Own(t, a \o <<b>>)
    BY <1>2 DEF UnitsOwn
  <2>2. \A c \in Range(a) : Home(c) = Home(b)
    BY <2>1 DEF Unmixed
  <2>3. \A c \in Range(a) : c[2] = 0
    BY <2>2, HomeOutside
  <2>4. nou = 1 <=> Own(t, a) = {}
    BY <2>3 DEF LastTold
  <2>5. old \in IF Own(t, a) = {} THEN {NullBlkt} ELSE Own(t, a)
    <3>1. Unmixed(Range(a))
      BY <2>1 DEF Unmixed
    <3> QED BY <3>1 DEF UnitsOwn
  <2>6. CASE IsFilter(t, b)
    <3>1. Own(t, a \o <<b>>) = Own(t, a) \cup {b}
      BY <1>3, <2>6
    <3> QED BY <2>4, <2>5, <2>6, <3>1
  <2>7. CASE ~ IsFilter(t, b)
    <3>1. Own(t, a \o <<b>>) = Own(t, a)
      BY <1>3, <2>7
    <3> QED BY <2>5, <2>7, <3>1
  <2> QED BY <2>6, <2>7
<1>5. LastTold(t, a \o <<b>>, told)
  <2>1. SUFFICES ASSUME \A c \in Range(a) : c[2] = 0
                 PROVE  told = 1 <=> Own(t, a \o <<b>>) = {}
    BY <1>2 DEF LastTold
  <2>2. nou = 1 <=> Own(t, a) = {}
    BY <2>1 DEF LastTold
  <2>3. CASE IsFilter(t, b)
    BY <1>3, <2>2, <2>3
  <2>4. CASE ~ IsFilter(t, b)
    <3>1. Own(t, a \o <<b>>) = Own(t, a)
      BY <1>3, <2>4
    <3> QED BY <2>2, <2>4, <3>1
  <2> QED BY <2>3, <2>4
<1> QED BY <1>4, <1>5

(* A blockette alone in its stage.                                         *)
LEMMA OwnAlone ==
  ASSUME NEW t, NEW b, NEW units, IsFilter(t, b) => units = b,
         ~ IsFilter(t, b) => units = NullBlkt, NEW told, told = 1 <=> ~ IsFilter(t, b)
  PROVE  UnitsOwn(t, <<b>>, units) /\ LastTold(t, <<b>>, told)
<1>1. Range(<<b>>) = {b}
  BY DEF Range
<1>2. Own(t, <<b>>) = {c \in {b} : IsFilter(t, c)}
  BY <1>1 DEF Own
<1> QED BY <1>1, <1>2 DEF UnitsOwn, LastTold

(* Extending runs gives runs.                                              *)
LEMMA ExtendIs ==
  ASSUME NEW S, NEW W, NEW X \in Seq([seq : W, blkts : Seq(S)]),
         NEW g \in [seq : W, blkts : Seq(S)]
  PROVE  Extend(X, g) \in Seq([seq : W, blkts : Seq(S)])
<1> DEFINE R == [seq : W, blkts : Seq(S)]
<1>3. X \in Seq(R)
  OBVIOUS
<1>1. CASE X # <<>> /\ Last(X).seq = g.seq
  <2>1. Len(X) \in 1..Len(X) /\ Last(X) = X[Len(X)]
    BY <1>1 DEF Last
  <2>2. Last(X) \in R
    <3> HIDE DEF R
    <3> QED BY <1>3, <2>1
  <2>3. Last(X).blkts \o g.blkts \in Seq(S)
    BY <2>2
  <2>4. [seq |-> g.seq, blkts |-> Last(X).blkts \o g.blkts] \in R
    BY <2>3
  <2>5. Front(X) \in Seq(R)
    <3> HIDE DEF R
    <3> QED BY <1>3, <2>1 DEF Front
  <2>6. PICK y \in R : y = [seq |-> g.seq, blkts |-> Last(X).blkts \o g.blkts]
    BY <2>4
  <2>7. Extend(X, g) = Front(X) \o <<y>>
    BY <1>1, <2>6 DEF Extend
  <2> HIDE DEF R
  <2>8. Front(X) \o <<y>> \in Seq(R)
    BY <2>5
  <2> QED BY <2>7, <2>8 DEF R
<1>2. CASE ~ (X # <<>> /\ Last(X).seq = g.seq)
  <2>1. Extend(X, g) = Append(X, g)
    BY <1>2 DEF Extend
  <2> HIDE DEF R
  <2> QED BY <2>1 DEF R
<1> QED BY <1>1, <1>2

(* The runs of a list are runs.                                            *)
LEMMA RunsAre ==
  ASSUME NEW t, DOMAIN t \subseteq Nat, NEW st, HeapOf(t, st), NEW q, NEW nxt,
         NEW L, NEW B, Linked(L, B, t, q, st, nxt)
  PROVE  RunsOf(L, B, st) \in Seq([seq : SeqNos, blkts : Seq(Blkts(t))])
<1> DEFINE R == [seq : SeqNos, blkts : Seq(Blkts(t))]
<1>1. /\ L \in Seq(Nat) /\ Lists(B, Blkts(t)) /\ Len(B) = Len(L)
      /\ \A i \in 1..Len(L) : L[i] \in 1..Len(st)
  BY DEF Linked, ListOf
<1>2. \A s \in 1..Len(st) : st[s].seq \in SeqNos
  BY HeapIs
<1>3. \A i \in 1..Len(L) : B[i] \in Seq(Blkts(t))
  BY <1>1, ListsAre
<1>4. \A i \in 1..Len(L) : [seq |-> st[L[i]].seq, blkts |-> B[i]] \in R
  BY <1>1, <1>2, <1>3
<1>5. PICK X : X = RunsOf(L, B, st)
  OBVIOUS
<1>6. X = [i \in 1..Len(L) |-> [seq |-> st[L[i]].seq, blkts |-> B[i]]]
  BY <1>5 DEF RunsOf
<1> HIDE DEF R
<1>7. X \in Seq(R)
  <2>1. X = [i \in 1..Len(L) |-> X[i]] /\ \A i \in 1..Len(L) : X[i] \in R
    BY <1>4, <1>6
  <2>2. Len(L) \in Nat
    BY <1>1
  <2> QED BY <2>1, <2>2, SequenceIs
<1> QED BY <1>5, <1>7 DEF R

(* A blockette that is hung as it stands in the text spells the text on.   *)
LEMMA BlktSpelt ==
  ASSUME NEW t, NEW q, NEW st, NEW nxt, NEW L, NEW B, NEW this, NEW last,
         Ready(t, q, st, nxt, L, B, this, last), Spells(L, B, t, q, st),
         NEW seq, NEW units, NEW w, NEW e,
         Hangs(t, <<q, 0, 0>>, seq, units, w, e, Len(L)),
         NEW tt, NEW target,
         HungStages(t, st, tt, Len(L), e, this, target, <<q, 0, 0>>, seq, w, units),
         NEW nou, NEW told, Takes(t, q, L, st, seq, w, units, e, nou, told),
         Len(L) # 0 => LastTold(t, B[Len(L)], nou)
  PROVE  /\ \E G : Spelt(L, B, <<target>>, <<<<<<q, 0, 0>>>>>>, G, e, t, q, q + 1, st, tt)
         /\ e = 1 => LastTold(t, B[Len(L)] \o <<<<q, 0, 0>>>>, told)
         /\ e = 0 => LastTold(t, <<<<q, 0, 0>>>>, told)
<1>1. PICK b : b = <<q, 0, 0>>
  OBVIOUS
<1>2. PICK N : N = <<target>>
  OBVIOUS
<1>3. PICK C : C = <<<<b>>>>
  OBVIOUS
<1>4. /\ b \in Blkts(t) /\ seq \in SeqNos /\ units \in {NullBlkt, b}
      /\ e \in Nat /\ e <= 1 /\ (e = 1 => Len(L) # 0)
  BY <1>1 DEF Hangs
<1>5. /\ Len(st) \in Nat /\ Len(L) \in Nat /\ this \in 1..Len(st)
      /\ DOMAIN t \subseteq Nat /\ q \in DOMAIN t /\ q \in Nat /\ Len(B) = Len(L)
      /\ Len(L) # 0 => Len(L) \in 1..Len(L) /\ this = L[Len(L)]
  BY ReadyEnds
<1>6. \A s \in 1..Len(st) : s # this => tt[s] = st[s]
  BY DEF HungStages
<1>7. e = 1 => tt[this].units = IF w = 1 THEN units ELSE st[this].units
  BY DEF HungStages
<1>8. Len(L) # 0 /\ e = 0 => tt[this].units = st[this].units
  BY DEF HungStages
<1>9. e = 0 => /\ tt[target].seq = seq
               /\ tt[target].units = IF w = 1 THEN units ELSE NullBlkt
  BY DEF HungStages
<1>10. Linked(L, B, t, q, st, nxt) /\ HeapOf(t, st) /\ q \in 1..Len(t)
  BY DEF Ready
<1>11. /\ t[q].kind \in Response /\ seq = t[q].seq
       /\ t[q].kind = "filter" => units = b
       /\ e = 1 <=> Len(L) # 0 /\ st[L[Len(L)]].seq = seq
       /\ w = 1 <=> (nou = 1 \/ e = 0) /\ t[q].kind = "filter"
       /\ told = 1 <=> (nou = 1 \/ e = 0) /\ t[q].kind # "filter"
  BY <1>1 DEF Takes
<1>12. IsFilter(t, b) <=> t[q].kind = "filter"
  <2>1. b[1] = q /\ b[2] = 0 /\ b[3] = 0
    BY <1>1
  <2> QED BY <2>1 DEF IsFilter
<1>13. Len(N) = 1 /\ N[1] = target /\ Len(C) = 1 /\ C[1] = <<b>>
  BY <1>2, <1>3
<1>14. /\ Lists(B, Blkts(t))
       /\ \A i \in 1..Len(L) : L[i] \in 1..Len(st)
       /\ \A i \in 1..Len(L) : i # Len(L) => L[i] # this
  <2>1. /\ Lists(B, Blkts(t))
        /\ \A i \in 1..Len(L) : L[i] \in 1..Len(st)
        /\ \A i, j \in 1..Len(L) : L[i] = L[j] => i = j
    BY <1>10 DEF Linked, ListOf
  <2> QED BY <1>5, <2>1
<1> DEFINE R == [seq : SeqNos, blkts : Seq(Blkts(t))]
<1>15. PICK g : g = [seq |-> seq, blkts |-> <<b>>]
  OBVIOUS
<1>16. g \in R /\ g.seq = seq /\ g.blkts = <<b>>
  <2>1. <<b>> \in Seq(Blkts(t))
    BY <1>4, SingleIs
  <2> QED BY <1>4, <1>15, <2>1
<1>17. PICK G : G = <<g>>
  OBVIOUS
<1>18. G \in Seq(R) /\ Len(G) = 1 /\ G[1] = g /\ Tail(G) = <<>>
  <2>1. Tail(G) = <<>>
    BY <1>17
  <2> HIDE DEF R
  <2>2. G \in Seq(R) /\ Len(G) = 1 /\ G[1] = g
    BY <1>16, <1>17, SingleIs
  <2> QED BY <2>1, <2>2
<1>19. RunsBrought(G, L, N, C, st, tt, e, Blkts(t))
  <2>1. G \in Seq([seq : SeqNos, blkts : Seq(Blkts(t))])
    BY <1>18
  <2>2. e = 1 <=> Len(L) # 0 /\ st[L[Len(L)]].seq = G[1].seq
    BY <1>11, <1>16, <1>18
  <2>3. ASSUME NEW j \in 1..Len(N)
        PROVE  G[j].blkts = C[j] /\ (j > e => G[j].seq = tt[N[j]].seq)
    <3>1. j = 1
      BY <1>13
    <3>2. j > e => e = 0
      BY <1>4, <3>1
    <3> QED BY <1>9, <1>13, <1>16, <1>18, <3>1, <3>2
  <2>4. Len(G) = Len(N)
    BY <1>13, <1>18
  <2> QED BY <2>1, <2>2, <2>3, <2>4 DEF RunsBrought
<1>20. Groups(t, (q + 1) - 1) = Extend(Groups(t, q - 1), G[1]) \o Tail(G)
  <2>1. q - 1 \in Nat /\ (q - 1) + 1 = q /\ (q + 1) - 1 = q
    BY <1>5, <1>10
  <2>2. Groups(t, (q - 1) + 1) = AddToGroups(t, Groups(t, q - 1), (q - 1) + 1)
    BY <2>1, GroupsNext
  <2>3. Groups(t, q) = AddToGroups(t, Groups(t, q - 1), q)
    BY <2>1, <2>2
  <2>4. AddToGroups(t, Groups(t, q - 1), q) = Extend(Groups(t, q - 1), g)
    <3>1. t[q].kind # "other" /\ t[q].kind # "ref"
      BY <1>11 DEF Response
    <3>2. g = [seq |-> t[q].seq, blkts |-> <<<<q, 0, 0>>>>]
      BY <1>1, <1>11, <1>15
    <3> QED BY <3>1, <3>2 DEF AddToGroups
  <2>5. Groups(t, q - 1) \in Seq(R)
    <3>1. RunsOf(L, B, st) \in Seq(R)
      BY <1>5, <1>10, RunsAre
    <3> QED BY <3>1 DEF Spells
  <2>6. PICK x : x = Extend(Groups(t, q - 1), g)
    OBVIOUS
  <2>7. x \in Seq(R)
    BY <1>16, <2>5, <2>6, ExtendIs
  <2> HIDE DEF R
  <2>8. x \o <<>> = x
    BY <2>7
  <2> QED BY <1>18, <2>1, <2>3, <2>4, <2>6, <2>8
<1>21. ASSUME e = 1
       PROVE  /\ UnitsOwn(t, B[Len(L)] \o <<b>>, tt[L[Len(L)]].units)
              /\ LastTold(t, B[Len(L)] \o <<b>>, told)
  <2>1. Len(L) \in 1..Len(L) /\ this = L[Len(L)]
    BY <1>4, <1>5, <1>21
  <2>2. B[Len(L)] \in Seq(Blkts(t))
    BY <1>5, <1>14, <2>1, ListsAre
  <2>3. \A c \in Range(B[Len(L)]) : c[2] \in Nat
    <3>1. ASSUME NEW c \in Range(B[Len(L)]) PROVE c[2] \in Nat
      <4>1. c \in Blkts(t)
        BY <2>2, RangeIs
      <4>2. PICK p \in DOMAIN t :
              \/ c = <<p, 0, 0>>
              \/ /\ t[p].kind = "ref"
                 /\ \E s \in DOMAIN t[p].stages :
                      \E r \in 0..Len(t[p].stages[s].resps) : c = <<p, s, r>>
        BY <1>5, <4>1, BlktNumbers
      <4>3. CASE c = <<p, 0, 0>>
        BY <4>3
      <4>4. ASSUME t[p].kind = "ref", NEW s \in DOMAIN t[p].stages, NEW r, c = <<p, s, r>>
            PROVE  c[2] \in Nat
        <5>1. t[p] \in Blockette
          BY <4>2 DEF Ready
        <5>2. t[p].stages \in Seq(RefStage)
          BY <4>4, <5>1 DEF Blockette, Response
        <5> QED BY <4>4, <5>2
      <4> QED BY <4>2, <4>3, <4>4
    <3> QED BY <3>1
  <2>4. UnitsOwn(t, B[Len(L)], st[this].units)
    BY <2>1 DEF Spells, OwnUnits
  <2>5. LastTold(t, B[Len(L)], nou)
    BY <1>4, <1>21
  <2>6. b[2] = 0
    BY <1>1
  <2>7. IsFilter(t, b) => IF nou = 1 THEN tt[this].units = b
                          ELSE tt[this].units = st[this].units
    BY <1>7, <1>11, <1>12, <1>21
  <2>8. ~ IsFilter(t, b) => tt[this].units = st[this].units
    BY <1>7, <1>11, <1>12, <1>21
  <2>9. told = 1 <=> nou = 1 /\ ~ IsFilter(t, b)
    BY <1>11, <1>12, <1>21
  <2>10. PICK a : a = B[Len(L)]
    OBVIOUS
  <2>11. UnitsOwn(t, a \o <<b>>, tt[this].units) /\ LastTold(t, a \o <<b>>, told)
    BY <1>4, <2>2, <2>3, <2>4, <2>5, <2>6, <2>7, <2>8, <2>9, <2>10, OwnAppend, SMTT(30)
  <2> QED BY <2>1, <2>10, <2>11
<1>22. ASSUME e = 0
       PROVE  UnitsOwn(t, <<b>>, tt[target].units) /\ LastTold(t, <<b>>, told)
  <2>1. IsFilter(t, b) => tt[target].units = b
    BY <1>9, <1>11, <1>12, <1>22
  <2>2. ~ IsFilter(t, b) => tt[target].units = NullBlkt
    BY <1>9, <1>11, <1>12, <1>22
  <2>3. told = 1 <=> ~ IsFilter(t, b)
    BY <1>11, <1>12, <1>22
  <2> QED BY <2>1, <2>2, <2>3, OwnAlone
<1>23. OwnBrought(L, B, N, C, e, t, st, tt)
  <2>1. ASSUME NEW i \in 1..Len(L), e = 0 \/ i # Len(L) PROVE tt[L[i]].units = st[L[i]].units
    <3>1. CASE i # Len(L)
      BY <1>6, <1>14, <3>1
    <3>2. CASE i = Len(L)
      BY <1>5, <1>8, <2>1, <3>2
    <3> QED BY <3>1, <3>2
  <2>2. e = 1 => UnitsOwn(t, B[Len(L)] \o C[1], tt[L[Len(L)]].units)
    BY <1>13, <1>21
  <2>3. ASSUME NEW j \in 1..Len(N), j > e PROVE UnitsOwn(t, C[j], tt[N[j]].units)
    <3>1. j = 1 /\ e = 0
      BY <1>4, <1>13, <2>3
    <3> QED BY <1>13, <1>22, <3>1
  <2> QED BY <2>1, <2>2, <2>3 DEF OwnBrought
<1>24. Spelt(L, B, N, C, G, e, t, q, q + 1, st, tt)
  BY <1>19, <1>20, <1>23 DEF Spelt
<1>25. \E H : Spelt(L, B, N, C, H, e, t, q, q + 1, st, tt)
  BY <1>24
<1> QED BY <1>1, <1>2, <1>3, <1>21, <1>22, <1>25

-----------------------------------------------------------------------------
(* The last filter of a stage of a [60] is one of its filters, if any.     *)
LEMMA LastFilterIs ==
  ASSUME NEW resps \in Seq(Response)
  PROVE  /\ LastFilter(resps) \in 0..Len(resps)
         /\ LastFilter(resps) = 0 <=> \A r \in 1..Len(resps) : resps[r] # "filter"
         /\ LastFilter(resps) # 0 => resps[LastFilter(resps)] = "filter"
<1> DEFINE F == {r \in 1..Len(resps) : resps[r] = "filter"}
<1>0. Len(resps) \in Nat /\ DOMAIN resps = 1..Len(resps)
  OBVIOUS
<1>1. LastFilter(resps) = IF F = {} THEN 0 ELSE CHOOSE r \in F : \A q \in F : q <= r
  BY <1>0 DEF LastFilter
<1>2. CASE F = {}
  BY <1>0, <1>1, <1>2
<1>3. CASE F # {}
  <2> DEFINE T == {Len(resps) - r : r \in F}
  <2>1. T \subseteq Nat /\ T # {}
    BY <1>0, <1>3
  <2>2. PICK x \in T : \A y \in T : x <= y
    <3> HIDE DEF T
    <3> QED BY <2>1, LeastNumber
  <2>3. PICK r \in F : x = Len(resps) - r
    BY <2>2
  <2>4. \A q \in F : q <= r
    <3>1. SUFFICES ASSUME NEW q \in F PROVE q <= r
      OBVIOUS
    <3>2. Len(resps) - r <= Len(resps) - q
      BY <2>2, <2>3
    <3> QED BY <1>0, <3>2
  <2>5. \E a \in F : \A q \in F : q <= a
    BY <2>4
  <2>6. LastFilter(resps) \in F
    <3> HIDE DEF F
    <3> QED BY <1>1, <1>3, <2>5
  <2>7. 0 \notin F
    BY <1>0
  <2> QED BY <1>0, <2>6, <2>7
<1> QED BY <1>2, <1>3

(* The stages ch, as far as the [60] at position q of t has been read.     *)
ChainOf(t, q, ch) ==
  /\ t \in Seq(Blockette) /\ q \in 1..Len(t) /\ t[q].kind = "ref"
  /\ ch \in Seq(RefStage) /\ Len(ch) # 0 /\ Len(ch) <= Len(t[q].stages)
  /\ \A s \in 1..Len(ch) : ch[s] = t[q].stages[s]

(* What is known of them.                                                  *)
LEMMA ChainIs ==
  ASSUME NEW t, NEW q, NEW ch, ChainOf(t, q, ch)
  PROVE  /\ Len(ch) \in Nat /\ DOMAIN ch = 1..Len(ch) /\ 1 \in 1..Len(ch)
         /\ q \in Nat /\ q # 0 /\ DOMAIN t \subseteq Nat
         /\ \A s \in 1..Len(ch) :
              /\ ch[s].seq \in SeqNos /\ ch[s].resps \in Seq(Response)
              /\ Len(ch[s].resps) \in Nat
              /\ \A r \in 0..Len(ch[s].resps) : <<q, s, r>> \in Blkts(t)
<1>1. /\ t \in Seq(Blockette) /\ q \in 1..Len(t) /\ t[q].kind = "ref"
      /\ ch \in Seq(RefStage) /\ Len(ch) # 0 /\ Len(ch) <= Len(t[q].stages)
      /\ \A s \in 1..Len(ch) : ch[s] = t[q].stages[s]
  BY DEF ChainOf
<1>2. Len(ch) \in Nat /\ DOMAIN ch = 1..Len(ch) /\ 1 \in 1..Len(ch)
  BY <1>1
<1>3. q \in Nat /\ q # 0 /\ DOMAIN t \subseteq Nat /\ q \in DOMAIN t
  BY <1>1
<1>4. t[q].stages \in Seq(RefStage)
  <2>1. t[q] \in Blockette
    BY <1>1
  <2> QED BY <1>1, <2>1 DEF Blockette, Response
<1>5. ASSUME NEW s \in 1..Len(ch)
      PROVE  /\ ch[s].seq \in SeqNos /\ ch[s].resps \in Seq(Response)
             /\ Len(ch[s].resps) \in Nat
             /\ \A r \in 0..Len(ch[s].resps) : <<q, s, r>> \in Blkts(t)
  <2>1. ch[s] \in RefStage
    BY <1>1, <1>2
  <2>2. ch[s].seq \in SeqNos /\ ch[s].resps \in Seq(Response)
    BY <2>1 DEF RefStage
  <2>3. s \in DOMAIN t[q].stages
    BY <1>1, <1>2, <1>4
  <2>4. ASSUME NEW r \in 0..Len(ch[s].resps) PROVE <<q, s, r>> \in Blkts(t)
    <3>1. r \in 0..Len(t[q].stages[s].resps)
      BY <1>1
    <3> QED BY <1>1, <1>3, <2>3, <3>1, BlktsAre
  <2> QED BY <2>2, <2>4
<1> QED BY <1>2, <1>3, <1>5

(* The heap once the chain is in it, behind a list of n stages that ends   *)
(* with this: LinkChain.                                                   *)
ChainIn(st, n, e, this, q, ch) ==
  LET chained == st \o Chain(q, ch, Len(st))
  IN  IF n # 0 /\ e = 0 THEN [chained EXCEPT ![this].next = Len(st) + 1]
      ELSE IF e = 1 /\ Len(ch) > 1 THEN [chained EXCEPT ![this].next = Len(st) + 2]
      ELSE chained

(* That heap, stage by stage.                                              *)
ChainStages(t, st, tt, n, e, this, q, ch) ==
  /\ HeapOf(t, tt) /\ Len(tt) = Len(st) + Len(ch)
  /\ \A s \in 1..Len(st) : s # this => tt[s] = st[s]
  /\ /\ tt[this].first = st[this].first /\ tt[this].seq = st[this].seq
     /\ tt[this].units = st[this].units
  /\ n # 0 /\ e = 0 => tt[this].next = Len(st) + 1
  /\ e = 1 => tt[this].next = IF Len(ch) > 1 THEN Len(st) + 2 ELSE st[this].next
  /\ \A j \in 1..Len(ch) :
       LET f == LastFilter(ch[j].resps)
       IN  /\ tt[Len(st) + j].seq = ch[j].seq
           /\ tt[Len(st) + j].first = <<q, j, 0>>
           /\ tt[Len(st) + j].units = IF f = 0 THEN NullBlkt ELSE <<q, j, f>>
           /\ tt[Len(st) + j].next = IF j = Len(ch) THEN NullStage ELSE Len(st) + j + 1

(* A stage of a heap is given a next one.                                  *)
Directed(st, s, next) == [st EXCEPT ![s].next = next]

HasDirected(t, st, s, next, tt) ==
  /\ HeapOf(t, tt) /\ Len(tt) = Len(st)
  /\ \A a \in 1..Len(st) : a # s => tt[a] = st[a]
  /\ tt[s].first = st[s].first /\ tt[s].seq = st[s].seq
  /\ tt[s].units = st[s].units /\ tt[s].next = next

(* What is then in the heap.                                               *)
LEMMA HeapDirected ==
  ASSUME NEW t, NEW st, HeapOf(t, st), NEW s \in 1..Len(st), NEW next \in 0..Len(st)
  PROVE  HasDirected(t, st, s, next, Directed(st, s, next))
<1> DEFINE S == Stages(t, Len(st))
<1>1. st \in Seq(S) /\ Len(st) \in Nat
  BY DEF HeapOf
<1>2. PICK x : x = [st[s] EXCEPT !.next = next]
  OBVIOUS
<1>3. /\ x \in S /\ x.first = st[s].first /\ x.seq = st[s].seq
      /\ x.units = st[s].units /\ x.next = next
  <2>1. st[s] \in S
    BY <1>1
  <2> QED BY <1>2, <2>1 DEF Stages
<1>4. PICK tt : tt = Directed(st, s, next)
  OBVIOUS
<1> HIDE DEF S
<1>5. /\ tt \in Seq(S) /\ Len(tt) = Len(st) /\ tt[s] = x
      /\ \A a \in 1..Len(st) : a # s => tt[a] = st[a]
  BY <1>1, <1>2, <1>3, <1>4 DEF Directed
<1>6. HeapOf(t, tt)
  BY <1>5 DEF HeapOf, S
<1> QED BY <1>3, <1>4, <1>5, <1>6 DEF HasDirected

(* The heap is as said.                                                    *)
LEMMA ChainStagesAre ==
  ASSUME NEW t, NEW st, HeapOf(t, st), NEW q, NEW ch, ChainOf(t, q, ch),
         NEW n \in Nat, NEW e \in Nat, NEW this \in 1..Len(st)
  PROVE  ChainStages(t, st, ChainIn(st, n, e, this, q, ch), n, e, this, q, ch)
<1> DEFINE base == Len(st)
           m == Len(ch)
           S == Stages(t, base + m)
<1>1. /\ m \in Nat /\ m # 0 /\ DOMAIN ch = 1..m /\ DOMAIN t \subseteq Nat
      /\ \A s \in 1..m :
           /\ ch[s].seq \in SeqNos /\ ch[s].resps \in Seq(Response)
           /\ \A r \in 0..Len(ch[s].resps) : <<q, s, r>> \in Blkts(t)
  <2>1. m # 0
    BY DEF ChainOf
  <2> QED BY <2>1, ChainIs
<1>2. st \in Seq(Stages(t, base)) /\ base \in Nat
  BY DEF HeapOf
<1>3. PICK ext : ext = Chain(q, ch, base)
  OBVIOUS
<1> DEFINE f(j) == LastFilter(ch[j].resps)
<1>4. ext = [j \in 1..m |->
               [seq |-> ch[j].seq, first |-> <<q, j, 0>>,
                units |-> IF f(j) = 0 THEN NullBlkt ELSE <<q, j, f(j)>>,
                next |-> IF j = m THEN NullStage ELSE base + j + 1]]
  BY <1>1, <1>3 DEF Chain
<1>5. ASSUME NEW j \in 1..m
      PROVE  /\ ext[j] \in S /\ ext[j].seq = ch[j].seq /\ ext[j].first = <<q, j, 0>>
             /\ ext[j].units = IF f(j) = 0 THEN NullBlkt ELSE <<q, j, f(j)>>
             /\ ext[j].next = IF j = m THEN NullStage ELSE base + j + 1
  <2>1. PICK fj : fj = f(j)
    OBVIOUS
  <2>2. fj \in 0..Len(ch[j].resps)
    BY <1>1, <2>1, LastFilterIs
  <2>3. /\ <<q, j, 0>> \in Blkts(t) /\ <<q, j, fj>> \in Blkts(t)
        /\ ch[j].seq \in SeqNos
    <3>1. 0 \in 0..Len(ch[j].resps)
      BY <1>1
    <3> QED BY <1>1, <2>2, <3>1
  <2>4. (IF j = m THEN NullStage ELSE base + j + 1) \in 0..(base + m)
    <3>1. m \in Nat /\ base \in Nat
      BY <1>1, <1>2
    <3> HIDE DEF m, base
    <3>2. j = m \/ j + 1 <= m
      BY <3>1
    <3> QED BY <3>1, <3>2 DEF NullStage
  <2> HIDE DEF f, m, base
  <2>5. ext[j] = [seq |-> ch[j].seq, first |-> <<q, j, 0>>,
                  units |-> IF fj = 0 THEN NullBlkt ELSE <<q, j, fj>>,
                  next |-> IF j = m THEN NullStage ELSE base + j + 1]
    BY <1>4, <2>1
  <2> QED BY <2>1, <2>3, <2>4, <2>5 DEF Stages
<1>6. ext \in Seq(S) /\ Len(ext) = m
  <2> HIDE DEF S, f, m
  <2>1. ext = [j \in 1..m |-> ext[j]]
    BY <1>4
  <2> QED BY <1>1, <1>5, <2>1, SequenceIs
<1>7. st \in Seq(S)
  <2>1. \A x \in Stages(t, base) : x \in S
    <3>1. 0..base \subseteq 0..(base + m)
      BY <1>1, <1>2
    <3> QED BY <3>1 DEF Stages
  <2> HIDE DEF S
  <2> QED BY <1>2, <2>1
<1>8. PICK chained : chained = st \o ext
  OBVIOUS
<1>9. /\ chained \in Seq(S) /\ Len(chained) = base + m
      /\ \A s \in 1..base : s \in 1..Len(chained) /\ chained[s] = st[s]
      /\ \A j \in 1..m : base + j \in 1..Len(chained) /\ chained[base + j] = ext[j]
  <2>1. PICK a : a = st
    OBVIOUS
  <2>2. a \in Seq(S) /\ ext \in Seq(S) /\ base = Len(a) /\ m = Len(ext) /\ chained = a \o ext
    BY <1>6, <1>7, <1>8, <2>1
  <2> HIDE DEF S, base, m
  <2>3. /\ a \o ext \in Seq(S) /\ Len(a \o ext) = Len(a) + Len(ext)
        /\ \A i \in 1..Len(a) : i \in 1..Len(a \o ext) /\ (a \o ext)[i] = a[i]
        /\ \A i \in 1..Len(ext) :
             Len(a) + i \in 1..Len(a \o ext) /\ (a \o ext)[Len(a) + i] = ext[i]
    BY <2>2, ConcatParts
  <2> QED BY <2>1, <2>2, <2>3
<1>10. HeapOf(t, chained)
  BY <1>9 DEF HeapOf
<1>11. PICK tt : tt = ChainIn(st, n, e, this, q, ch)
  OBVIOUS
<1>12. tt = IF n # 0 /\ e = 0 THEN Directed(chained, this, base + 1)
            ELSE IF e = 1 /\ m > 1 THEN Directed(chained, this, base + 2)
            ELSE chained
  BY <1>3, <1>8, <1>11 DEF ChainIn, Directed
<1> DEFINE next == IF n # 0 /\ e = 0 THEN base + 1
                   ELSE IF e = 1 /\ m > 1 THEN base + 2
                   ELSE chained[this].next
<1>13. HasDirected(t, chained, this, next, tt)
  <2>1. this \in 1..Len(chained)
    BY <1>9
  <2>2. CASE n # 0 /\ e = 0
    <3>1. base + 1 \in 0..Len(chained)
      BY <1>1, <1>2, <1>9
    <3>2. tt = Directed(chained, this, base + 1) /\ next = base + 1
      BY <1>12, <2>2
    <3> HIDE DEF next, base
    <3> QED BY <1>10, <2>1, <3>1, <3>2, HeapDirected
  <2>3. CASE ~ (n # 0 /\ e = 0) /\ e = 1 /\ m > 1
    <3>1. base + 2 \in 0..Len(chained)
      BY <1>1, <1>2, <1>9, <2>3
    <3>2. tt = Directed(chained, this, base + 2) /\ next = base + 2
      BY <1>12, <2>3
    <3> HIDE DEF next, base
    <3> QED BY <1>10, <2>1, <3>1, <3>2, HeapDirected
  <2>4. CASE ~ (n # 0 /\ e = 0) /\ ~ (e = 1 /\ m > 1)
    <3>1. tt = chained /\ next = chained[this].next
      BY <1>12, <2>4
    <3> HIDE DEF next
    <3> QED BY <1>10, <3>1 DEF HasDirected
  <2> QED BY <2>2, <2>3, <2>4
<1>14. /\ HeapOf(t, tt) /\ Len(tt) = Len(chained)
       /\ \A a \in 1..Len(chained) : a # this => tt[a] = chained[a]
       /\ tt[this].first = chained[this].first /\ tt[this].seq = chained[this].seq
       /\ tt[this].units = chained[this].units /\ tt[this].next = next
  <2> HIDE DEF next
  <2> QED BY <1>13 DEF HasDirected
<1>15. \A s \in 1..base : s # this => tt[s] = st[s]
  BY <1>9, <1>14
<1>16. \A j \in 1..m : tt[base + j] = ext[j]
  <2>1. SUFFICES ASSUME NEW j \in 1..m PROVE tt[base + j] = ext[j]
    OBVIOUS
  <2>2. base + j # this
    BY <1>1, <1>2
  <2> HIDE DEF next
  <2> QED BY <1>9, <1>14, <2>2
<1>17. \A j \in 1..m :
         /\ tt[base + j].seq = ch[j].seq
         /\ tt[base + j].first = <<q, j, 0>>
         /\ tt[base + j].units = IF f(j) = 0 THEN NullBlkt ELSE <<q, j, f(j)>>
         /\ tt[base + j].next = IF j = m THEN NullStage ELSE base + j + 1
  <2> HIDE DEF f, m, base
  <2> QED BY <1>5, <1>16
<1>18. chained[this] = st[this]
  BY <1>9
<1>19. e = 1 => tt[this].next = IF m > 1 THEN base + 2 ELSE st[this].next
  BY <1>14, <1>18
<1>20. n # 0 /\ e = 0 => tt[this].next = base + 1
  BY <1>14
<1>21. ChainStages(t, st, tt, n, e, this, q, ch)
  BY <1>9, <1>14, <1>15, <1>17, <1>18, <1>19, <1>20 DEF ChainStages
<1> QED BY <1>11, <1>21


-----------------------------------------------------------------------------
(* The stages of the chain: its first is the last of the list if e is 1.   *)
ChainList(base, m, this, e) ==
  [j \in 1..m |-> IF e = 1 /\ j = 1 THEN this ELSE base + j]

(* Their blockettes.                                                       *)
ChainBlkts(q, ch) ==
  [s \in 1..Len(ch) |-> [r \in 1..(Len(ch[s].resps) + 1) |-> <<q, s, r - 1>>]]

(* The links once the responses of the chain are linked: ChainLinks.       *)
ChainLinked(q, ch, nxt) ==
  [b \in DOMAIN nxt |->
     IF b[1] = q /\ b[2] \in DOMAIN ch /\ b[3] < Len(ch[b[2]].resps)
       THEN <<q, b[2], b[3] + 1>>
       ELSE nxt[b]]

(* A chain is read, and the list is ready for it.                          *)
Brings(t, q, ch, st, nxt, L, B, this, last, e) ==
  /\ Ready(t, q, st, nxt, L, B, this, last)
  /\ ChainOf(t, q, ch)
  /\ e \in Nat /\ e <= 1 /\ (e = 1 => Len(L) # 0)

(* The places of these lists.                                              *)
LEMMA ChainBlktsAre ==
  ASSUME NEW t, NEW q, NEW ch, ChainOf(t, q, ch), NEW C, C = ChainBlkts(q, ch)
  PROVE  /\ Lists(C, Blkts(t)) /\ Len(C) = Len(ch)
         /\ \A j \in 1..Len(ch) :
              /\ Len(C[j]) = Len(ch[j].resps) + 1 /\ Len(ch[j].resps) \in Nat
              /\ \A i \in 1..(Len(ch[j].resps) + 1) :
                   C[j][i] = <<q, j, i - 1>> /\ C[j][i] \in Blkts(t)
<1> DEFINE T == Seq(Blkts(t))
<1>1. /\ Len(ch) \in Nat
      /\ \A s \in 1..Len(ch) :
           /\ Len(ch[s].resps) \in Nat
           /\ \A r \in 0..Len(ch[s].resps) : <<q, s, r>> \in Blkts(t)
  BY ChainIs
<1>2. \A s \in 1..Len(ch) :
        C[s] = [r \in 1..(Len(ch[s].resps) + 1) |-> <<q, s, r - 1>>]
  BY DEF ChainBlkts
<1>3. ASSUME NEW s \in 1..Len(ch)
      PROVE  /\ C[s] \in T /\ Len(C[s]) = Len(ch[s].resps) + 1
             /\ \A i \in 1..(Len(ch[s].resps) + 1) :
                  C[s][i] = <<q, s, i - 1>> /\ C[s][i] \in Blkts(t)
  <2>1. PICK x : x = Len(ch[s].resps) + 1
    OBVIOUS
  <2>2. x \in Nat /\ Len(ch[s].resps) = x - 1
    BY <1>1, <2>1
  <2>3. \A i \in 1..x : <<q, s, i - 1>> \in Blkts(t)
    <3>1. SUFFICES ASSUME NEW i \in 1..x PROVE <<q, s, i - 1>> \in Blkts(t)
      OBVIOUS
    <3>2. i - 1 \in 0..Len(ch[s].resps)
      BY <2>2
    <3> QED BY <1>1, <3>2
  <2>4. PICK c : c = [r \in 1..x |-> <<q, s, r - 1>>]
    OBVIOUS
  <2>5. C[s] = c
    BY <1>2, <2>1, <2>4
  <2>6. c = [i \in 1..x |-> c[i]] /\ \A i \in 1..x : c[i] = <<q, s, i - 1>>
    BY <2>4
  <2>7. \A i \in 1..x : c[i] \in Blkts(t)
    BY <2>3, <2>6
  <2>8. c \in Seq(Blkts(t)) /\ Len(c) = x
    BY <2>2, <2>6, <2>7, SequenceIs
  <2> QED BY <2>1, <2>5, <2>6, <2>7, <2>8
<1>4. C = [s \in 1..Len(ch) |-> C[s]]
  BY DEF ChainBlkts
<1>5. C \in Seq(T) /\ Len(C) = Len(ch)
  <2> HIDE DEF T
  <2> QED BY <1>1, <1>3, <1>4, SequenceIs
<1> QED BY <1>1, <1>3, <1>5 DEF Lists

(* What the links of the chain are.                                        *)
KeptIs(t, q, nxt, kept, C) ==
  /\ kept \in [Blkts(t) -> Blkts(t) \cup {NullBlkt}]
  /\ \A x \in Blkts(t) : x[1] # q => kept[x] = nxt[x]
  /\ \A j \in 1..Len(C) : \A i \in 1..Len(C[j]) :
       kept[C[j][i]] = IF i = Len(C[j]) THEN NullBlkt ELSE C[j][i + 1]

(* They lead through the chain, and are as they were elsewhere.            *)
LEMMA ChainKept ==
  ASSUME NEW t, NEW q, NEW ch, ChainOf(t, q, ch), NEW nxt,
         nxt \in [Blkts(t) -> Blkts(t) \cup {NullBlkt}],
         \A b \in Blkts(t) : b[1] >= q => nxt[b] = NullBlkt
  PROVE  KeptIs(t, q, nxt, ChainLinked(q, ch, nxt), ChainBlkts(q, ch))
<1>1. PICK C : C = ChainBlkts(q, ch)
  OBVIOUS
<1>2. PICK kept : kept = ChainLinked(q, ch, nxt)
  OBVIOUS
<1>3. /\ Len(ch) \in Nat /\ DOMAIN ch = 1..Len(ch)
      /\ q \in Nat /\ q # 0 /\ DOMAIN t \subseteq Nat
  BY ChainIs
<1>4. /\ Len(C) = Len(ch)
      /\ \A j \in 1..Len(ch) :
           /\ Len(C[j]) = Len(ch[j].resps) + 1 /\ Len(ch[j].resps) \in Nat
           /\ \A i \in 1..(Len(ch[j].resps) + 1) :
                C[j][i] = <<q, j, i - 1>> /\ C[j][i] \in Blkts(t)
  BY <1>1, ChainBlktsAre
<1>5. \A b \in Blkts(t) :
        kept[b] = IF b[1] = q /\ b[2] \in DOMAIN ch /\ b[3] < Len(ch[b[2]].resps)
                    THEN <<q, b[2], b[3] + 1>>
                    ELSE nxt[b]
  BY <1>2 DEF ChainLinked
<1>6. ASSUME NEW j \in 1..Len(ch), NEW i \in 1..Len(C[j])
      PROVE  kept[C[j][i]] = IF i = Len(C[j]) THEN NullBlkt ELSE C[j][i + 1]
  <2>1. PICK x : x = Len(ch[j].resps)
    OBVIOUS
  <2>2. x \in Nat /\ Len(C[j]) = x + 1 /\ i \in 1..(x + 1)
    BY <1>4, <2>1
  <2>3. PICK b : b = C[j][i]
    OBVIOUS
  <2>4. b = <<q, j, i - 1>> /\ b \in Blkts(t)
    BY <1>4, <2>1, <2>2, <2>3
  <2>5. b[1] = q /\ b[2] = j /\ b[3] = i - 1
    BY <2>4
  <2>6. CASE i = x + 1
    <3>1. ~ (b[3] < x)
      BY <2>2, <2>5, <2>6
    <3>2. kept[b] = nxt[b]
      BY <1>5, <2>1, <2>4, <2>5, <3>1
    <3>3. nxt[b] = NullBlkt
      BY <1>3, <2>4, <2>5
    <3> QED BY <2>2, <2>3, <2>6, <3>2, <3>3
  <2>7. CASE i # x + 1
    <3>1. b[3] < x /\ i + 1 \in 1..(x + 1) /\ (i + 1) - 1 = b[3] + 1
      BY <2>2, <2>5, <2>7
    <3>2. kept[b] = <<q, j, b[3] + 1>>
      BY <1>3, <1>5, <2>1, <2>4, <2>5, <3>1
    <3>3. C[j][i + 1] = <<q, j, (i + 1) - 1>>
      BY <1>4, <2>1, <3>1
    <3>4. C[j][i + 1] = <<q, j, b[3] + 1>>
      BY <3>1, <3>3
    <3> QED BY <2>2, <2>3, <2>7, <3>2, <3>4
  <2> QED BY <2>6, <2>7
<1>7. ASSUME NEW b \in Blkts(t) PROVE kept[b] \in Blkts(t) \cup {NullBlkt}
  <2>1. CASE b[1] = q /\ b[2] \in DOMAIN ch /\ b[3] < Len(ch[b[2]].resps)
    <3>1. b[2] \in 1..Len(ch) /\ kept[b] = <<q, b[2], b[3] + 1>>
      BY <1>3, <1>5, <2>1
    <3>2. \A r \in 0..Len(ch[b[2]].resps) : <<q, b[2], r>> \in Blkts(t)
      BY <3>1, ChainIs
    <3>3. b[3] \in Nat
      <4>1. PICK p \in DOMAIN t :
              \/ b = <<p, 0, 0>>
              \/ /\ t[p].kind = "ref"
                 /\ \E s \in DOMAIN t[p].stages :
                      \E r \in 0..Len(t[p].stages[s].resps) : b = <<p, s, r>>
        BY <1>3, BlktNumbers
      <4> QED BY <4>1
    <3>4. b[3] + 1 \in 0..Len(ch[b[2]].resps)
      <4>1. Len(ch[b[2]].resps) \in Nat
        BY <1>4, <3>1
      <4> QED BY <2>1, <3>3, <4>1
    <3> QED BY <3>1, <3>2, <3>4
  <2>2. CASE ~ (b[1] = q /\ b[2] \in DOMAIN ch /\ b[3] < Len(ch[b[2]].resps))
    BY <1>5, <2>2
  <2> QED BY <2>1, <2>2
<1>8. kept \in [Blkts(t) -> Blkts(t) \cup {NullBlkt}]
  <2>1. DOMAIN nxt = Blkts(t)
    OBVIOUS
  <2>2. kept = [b \in Blkts(t) |-> kept[b]]
    BY <1>2, <2>1 DEF ChainLinked
  <2> QED BY <1>7, <2>2
<1>9. KeptIs(t, q, nxt, kept, C)
  BY <1>4, <1>5, <1>6, <1>8 DEF KeptIs
<1> QED BY <1>1, <1>2, <1>9

(* The chain is hung behind the list.                                      *)
LEMMA ChainBehind ==
  ASSUME NEW t, NEW q, NEW ch, NEW st, NEW nxt, NEW L, NEW B, NEW this, NEW last, NEW e,
         Brings(t, q, ch, st, nxt, L, B, this, last, e),
         NEW tt, ChainStages(t, st, tt, Len(L), e, this, q, ch),
         NEW mxt, mxt = LinkedTo(ChainLinked(q, ch, nxt), last, <<q, 1, 0>>, e),
         NEW r \in Nat, q < r
  PROVE  Behind(L, B, ChainList(Len(st), Len(ch), this, e), ChainBlkts(q, ch), e,
                t, q, r, st, tt, nxt, mxt)
<1> /\ Ready(t, q, st, nxt, L, B, this, last) /\ ChainOf(t, q, ch)
    /\ e \in Nat /\ e <= 1 /\ (e = 1 => Len(L) # 0)
  BY DEF Brings
<1>1. PICK N : N = ChainList(Len(st), Len(ch), this, e)
  OBVIOUS
<1>2. PICK C : C = ChainBlkts(q, ch)
  OBVIOUS
<1>3. PICK kept : kept = ChainLinked(q, ch, nxt)
  OBVIOUS
<1>4. PICK base : base = Len(st)
  OBVIOUS
<1>5. PICK m : m = Len(ch)
  OBVIOUS
<1>6. /\ base \in Nat /\ Len(L) \in Nat /\ this \in 1..base
      /\ DOMAIN t \subseteq Nat /\ q \in DOMAIN t /\ q \in Nat
      /\ Len(B) = Len(L)
      /\ Len(L) # 0 => Len(L) \in 1..Len(L) /\ this = L[Len(L)] /\ st[this].next = NullStage
  BY <1>4, ReadyEnds
<1>7. m \in Nat /\ m # 0 /\ 1 \in 1..m
  BY <1>5, ChainIs DEF ChainOf
<1>8. /\ N \in Seq(Nat) /\ Len(N) = m
      /\ \A j \in 1..m : N[j] = IF e = 1 /\ j = 1 THEN this ELSE base + j
  <2>1. N = [j \in 1..m |-> N[j]]
    BY <1>1, <1>5 DEF ChainList
  <2>2. \A j \in 1..m : N[j] = IF e = 1 /\ j = 1 THEN this ELSE base + j
    BY <1>1, <1>4, <1>5 DEF ChainList
  <2>3. \A j \in 1..m : N[j] \in Nat
    BY <1>6, <2>2
  <2> QED BY <1>7, <2>1, <2>2, <2>3, SequenceIs
<1>9. /\ Lists(C, Blkts(t)) /\ Len(C) = m
      /\ \A j \in 1..m :
           /\ Len(C[j]) \in Nat /\ Len(C[j]) >= 1
           /\ \A i \in 1..Len(C[j]) : C[j][i] = <<q, j, i - 1>> /\ C[j][i] \in Blkts(t)
  <2>1. /\ Lists(C, Blkts(t)) /\ Len(C) = Len(ch)
        /\ \A j \in 1..Len(ch) :
             /\ Len(C[j]) = Len(ch[j].resps) + 1 /\ Len(ch[j].resps) \in Nat
             /\ \A i \in 1..(Len(ch[j].resps) + 1) :
                  C[j][i] = <<q, j, i - 1>> /\ C[j][i] \in Blkts(t)
    BY <1>2, ChainBlktsAre, SMTT(30)
  <2>2. ASSUME NEW j \in 1..m
        PROVE  /\ Len(C[j]) \in Nat /\ Len(C[j]) >= 1
               /\ \A i \in 1..Len(C[j]) : C[j][i] = <<q, j, i - 1>> /\ C[j][i] \in Blkts(t)
    <3>1. PICK x : x = Len(ch[j].resps)
      OBVIOUS
    <3>2. x \in Nat /\ Len(C[j]) = x + 1
      BY <1>5, <2>1, <3>1
    <3>3. \A i \in 1..(x + 1) : C[j][i] = <<q, j, i - 1>> /\ C[j][i] \in Blkts(t)
      BY <1>5, <2>1, <3>1
    <3> QED BY <3>2, <3>3
  <2> QED BY <1>5, <2>1, <2>2
<1>10. KeptIs(t, q, nxt, kept, C)
  <2>1. /\ nxt \in [Blkts(t) -> Blkts(t) \cup {NullBlkt}]
        /\ \A b \in Blkts(t) : b[1] >= q => nxt[b] = NullBlkt
    BY DEF Ready
  <2> QED BY <1>2, <1>3, <2>1, ChainKept
<1>11. C[1][1] = <<q, 1, 0>> /\ C[1][1] \in Blkts(t)
  <2>1. 1 \in 1..Len(C[1])
    BY <1>7, <1>9
  <2>2. C[1][1] = <<q, 1, 1 - 1>> /\ C[1][1] \in Blkts(t)
    BY <1>7, <1>9, <2>1
  <2> QED BY <2>2
<1>12. LinkedOn(t, q, B, nxt, kept, mxt, <<q, 1, 0>>, e)
  <2>1. LinksTo(t, q, nxt, kept, <<q, 1, 0>>, e, Len(L))
    <3>1. \A x \in Blkts(t) : x[1] \in Nat
      BY <1>6, BlktsAre
    <3>2. \A x \in Blkts(t) : x[1] < q => kept[x] = nxt[x]
      BY <1>6, <1>10, <3>1 DEF KeptIs
    <3>3. kept \in [Blkts(t) -> Blkts(t) \cup {NullBlkt}]
      BY <1>10 DEF KeptIs
    <3> QED BY <1>11, <3>2, <3>3 DEF LinksTo
  <2>2. mxt = LinkedTo(kept, last, <<q, 1, 0>>, e)
    BY <1>3
  <2>3. LinkedOn(t, q, B, nxt, kept, LinkedTo(kept, last, <<q, 1, 0>>, e), <<q, 1, 0>>, e)
    BY <2>1, LinkedToIs
  <2> QED BY <2>2, <2>3
<1>13. /\ HeapOf(t, tt) /\ Len(tt) = base + m
       /\ \A s \in 1..base : s # this => tt[s] = st[s]
       /\ tt[this].first = st[this].first /\ tt[this].seq = st[this].seq
       /\ tt[this].units = st[this].units
  BY <1>4, <1>5 DEF ChainStages
<1>14. /\ Len(L) # 0 /\ e = 0 => tt[this].next = base + 1
       /\ e = 1 => tt[this].next = IF m > 1 THEN base + 2 ELSE st[this].next
  BY <1>4, <1>5 DEF ChainStages
<1>15. ASSUME NEW j \in 1..m
       PROVE  /\ tt[base + j].first = <<q, j, 0>>
              /\ \/ tt[base + j].units = NullBlkt
                 \/ \E f : tt[base + j].units = <<q, j, f>>
              /\ tt[base + j].next = IF j = m THEN NullStage ELSE base + j + 1
  <2>1. /\ tt[base + j].first = <<q, j, 0>>
        /\ tt[base + j].next = IF j = m THEN NullStage ELSE base + j + 1
    BY <1>4, <1>5 DEF ChainStages
  <2>2. tt[base + j].units = IF LastFilter(ch[j].resps) = 0 THEN NullBlkt
                             ELSE <<q, j, LastFilter(ch[j].resps)>>
    BY <1>4, <1>5 DEF ChainStages
  <2> QED BY <2>1, <2>2
<1>16. /\ \A i \in 1..Len(L) : L[i] \in 1..base
       /\ \A i \in 1..Len(L) : i # Len(L) => L[i] # this
  <2>1. /\ \A i \in 1..Len(L) : L[i] \in 1..Len(st)
        /\ \A i, j \in 1..Len(L) : L[i] = L[j] => i = j
    BY DEF Ready, Linked, ListOf
  <2> QED BY <1>4, <1>6, <2>1
<1>17. \A i \in 1..Len(L) : i # Len(L) => tt[L[i]] = st[L[i]]
  BY <1>13, <1>16
<1>18. \A j \in 1..m : j > e => N[j] = base + j
  BY <1>8
<1>19. ListOf(N, tt)
  <2>1. \A i \in 1..m : N[i] \in 1..Len(tt)
    <3>1. SUFFICES ASSUME NEW i \in 1..m PROVE N[i] \in 1..(base + m)
      BY <1>13
    <3>2. N[i] = this \/ N[i] = base + i
      BY <1>8
    <3> QED BY <1>6, <1>7, <3>2
  <2>2. \A i, j \in 1..m : N[i] = N[j] => i = j
    BY <1>6, <1>8, SMTT(30)
  <2>3. ASSUME NEW i \in 1..m
        PROVE  tt[N[i]].next = IF i = m THEN NullStage ELSE N[i + 1]
    <3>1. i # m => N[i + 1] = base + i + 1
      <4>1. SUFFICES ASSUME i # m PROVE N[i + 1] = base + i + 1
        OBVIOUS
      <4>2. i + 1 \in 1..m /\ i + 1 # 1 /\ base + (i + 1) = base + i + 1
        BY <1>6, <1>7, <4>1
      <4> QED BY <1>8, <4>2
    <3>2. CASE e = 1 /\ i = 1
      <4>1. N[i] = this /\ st[this].next = NullStage
        BY <1>6, <1>8, <3>2
      <4>2. CASE m > 1
        <5>1. tt[this].next = base + 2 /\ i # m /\ base + i + 1 = base + 2
          BY <1>6, <1>7, <1>14, <3>2, <4>2
        <5> QED BY <3>1, <4>1, <5>1
      <4>3. CASE ~ (m > 1)
        <5>1. i = m
          BY <1>7, <3>2, <4>3
        <5> QED BY <1>14, <3>2, <4>1, <4>3, <5>1
      <4> QED BY <4>2, <4>3
    <3>3. CASE ~ (e = 1 /\ i = 1)
      <4>1. N[i] = base + i
        BY <1>8, <3>3
      <4> QED BY <1>15, <3>1, <4>1
    <3> QED BY <3>2, <3>3
  <2> QED BY <1>8, <2>1, <2>2, <2>3 DEF ListOf
<1>20. Carried(L, st, N, tt, e)
  <2>1. ASSUME NEW i \in 1..Len(L)
        PROVE  tt[L[i]].next =
                 IF i # Len(L) THEN st[L[i]].next
                 ELSE IF e = 0 THEN N[1]
                 ELSE IF Len(N) = 1 THEN NullStage ELSE N[2]
    <3>1. CASE i # Len(L)
      BY <1>17, <3>1
    <3>2. CASE i = Len(L) /\ e = 0
      <4>1. N[1] = base + 1
        BY <1>7, <1>8, <3>2
      <4> QED BY <1>6, <1>14, <3>2, <4>1
    <3>3. CASE i = Len(L) /\ e = 1
      <4>1. L[i] = this /\ st[this].next = NullStage
        BY <1>6, <3>3
      <4>2. CASE m > 1
        <5>1. 2 \in 1..m
          BY <1>7, <4>2
        <5>2. N[2] = base + 2
          BY <1>8, <5>1
        <5> QED BY <1>8, <1>14, <3>3, <4>1, <4>2, <5>2
      <4>3. CASE m = 1
        BY <1>8, <1>14, <3>3, <4>1, <4>3
      <4> QED BY <1>7, <4>2, <4>3
    <3> QED BY <3>1, <3>2, <3>3
  <2>2. ASSUME NEW i \in 1..Len(L), NEW j \in 1..m, j > e PROVE L[i] # N[j]
    <3>1. N[j] = base + j /\ L[i] \in 1..base
      BY <1>16, <1>18, <2>2
    <3> QED BY <1>6, <3>1
  <2> QED BY <1>8, <2>1, <2>2 DEF Carried
<1>21. BlktsOf(C, mxt, r)
  <2>1. \A i \in 1..Len(C) : Len(C[i]) # 0
    BY <1>9
  <2>2. ASSUME NEW i \in 1..Len(C), NEW x \in 1..Len(C[i])
        PROVE  /\ C[i][x][1] < r
               /\ mxt[C[i][x]] = IF x = Len(C[i]) THEN NullBlkt ELSE C[i][x + 1]
    <3>1. C[i][x] = <<q, i, x - 1>> /\ C[i][x] \in Blkts(t)
      BY <1>9
    <3>2. C[i][x][1] = q
      BY <3>1
    <3>3. mxt[C[i][x]] = kept[C[i][x]]
      <4>1. C[i][x][1] >= q
        BY <1>6, <3>2
      <4>2. \A y \in Blkts(t) : y[1] >= q => mxt[y] = kept[y]
        BY <1>12 DEF LinkedOn
      <4> QED BY <3>1, <4>1, <4>2
    <3> QED BY <1>10, <3>2, <3>3 DEF KeptIs
  <2>3. ASSUME NEW i \in 1..Len(C), NEW j \in 1..Len(C),
               NEW x \in 1..Len(C[i]), NEW y \in 1..Len(C[j]), C[i][x] = C[j][y]
        PROVE  i = j /\ x = y
    <3>1. C[i][x] = <<q, i, x - 1>> /\ C[j][y] = <<q, j, y - 1>>
      BY <1>9
    <3>2. i = j /\ x - 1 = y - 1
      <4>1. <<q, i, x - 1>> = <<q, j, y - 1>>
        BY <2>3, <3>1
      <4> HIDE <3>1
      <4> QED BY <4>1
    <3>3. x \in Nat /\ y \in Nat
      BY <1>9
    <3> QED BY <3>2, <3>3
  <2> QED BY <2>1, <2>2, <2>3 DEF BlktsOf
<1>22. Relinked(B, nxt, C, mxt, e, q)
  <2>1. \A j \in 1..Len(C) : \A x \in 1..Len(C[j]) : C[j][x][1] >= q
    <3>1. \A j \in 1..Len(C) : \A x \in 1..Len(C[j]) : C[j][x] = <<q, j, x - 1>>
      BY <1>9
    <3>2. \A j \in 1..Len(C) : \A x \in 1..Len(C[j]) : C[j][x][1] = q
      BY <3>1
    <3> QED BY <1>6, <3>2
  <2>2. \A i \in 1..Len(B) : \A x \in 1..Len(B[i]) : mxt[B[i][x]] =
          IF e = 1 /\ i = Len(B) /\ x = Len(B[i]) THEN C[1][1] ELSE nxt[B[i][x]]
    BY <1>11, <1>12 DEF LinkedOn
  <2> QED BY <1>6, <2>1, <2>2 DEF Relinked
<1>23. \A i \in 1..Len(L) :
         /\ tt[L[i]].units = st[L[i]].units
         /\ tt[L[i]].first = st[L[i]].first /\ tt[L[i]].seq = st[L[i]].seq
  <2>1. SUFFICES ASSUME NEW i \in 1..Len(L)
                 PROVE  /\ tt[L[i]].units = st[L[i]].units
                        /\ tt[L[i]].first = st[L[i]].first /\ tt[L[i]].seq = st[L[i]].seq
    OBVIOUS
  <2>2. CASE i # Len(L)
    BY <1>17, <2>2
  <2>3. CASE i = Len(L)
    <3>1. L[i] = this
      BY <1>6, <2>3
    <3> QED BY <1>13, <3>1
  <2> QED BY <2>2, <2>3
<1>24. UnitsCarried(L, st, N, tt, e, q, r)
  <2>1. e = 1 => LET u == tt[L[Len(L)]].units
                 IN  u = st[L[Len(L)]].units \/ u = NullBlkt \/ (u[1] >= q /\ u[1] < r)
    BY <1>6, <1>23
  <2>2. ASSUME NEW j \in 1..m, j > e, tt[N[j]].units # NullBlkt
        PROVE  /\ tt[N[j]].units[1] >= q /\ tt[N[j]].units[1] < r
               /\ \A a \in 1..m : a > e /\ tt[N[a]].units = tt[N[j]].units => a = j
    <3>1. N[j] = base + j
      BY <1>18, <2>2
    <3>2. PICK f : tt[N[j]].units = <<q, j, f>>
      BY <1>15, <2>2, <3>1
    <3>3. tt[N[j]].units[1] = q
      BY <3>2
    <3>4. ASSUME NEW a \in 1..m, a > e, tt[N[a]].units = tt[N[j]].units PROVE a = j
      <4>1. N[a] = base + a
        BY <1>18, <3>4
      <4>2. PICK g : tt[N[a]].units = <<q, a, g>>
        BY <1>15, <2>2, <3>4, <4>1
      <4> QED BY <3>2, <3>4, <4>2
    <3> QED BY <1>6, <3>3, <3>4
  <2>3. \A i \in 1..Len(L) : e = 0 \/ i # Len(L) \/ Len(N) # 1 =>
          tt[L[i]].units = st[L[i]].units
    BY <1>23
  <2> QED BY <1>8, <2>1, <2>2, <2>3 DEF UnitsCarried
<1>25. \A j \in 1..Len(N) : j > e => tt[N[j]].first = C[j][1]
  <2>1. SUFFICES ASSUME NEW j \in 1..m, j > e PROVE tt[N[j]].first = C[j][1]
    BY <1>8
  <2>2. tt[N[j]].first = <<q, j, 0>>
    BY <1>15, <1>18, <2>1
  <2>3. 1 \in 1..Len(C[j])
    BY <1>9
  <2>4. C[j][1] = <<q, j, 1 - 1>>
    BY <1>9, <2>3
  <2> QED BY <2>2, <2>4
<1>26. Len(st) <= Len(tt)
  BY <1>4, <1>6, <1>7, <1>13
<1>27. \A i \in 1..Len(L) : tt[L[i]].first = st[L[i]].first /\ tt[L[i]].seq = st[L[i]].seq
  BY <1>23
<1>28. N \in Seq(Nat) /\ Len(N) # 0 /\ Lists(C, Blkts(t)) /\ Len(C) = Len(N) /\ HeapOf(t, tt)
  BY <1>7, <1>8, <1>9, <1>13
<1>29. Behind(L, B, N, C, e, t, q, r, st, tt, nxt, mxt)
  BY <1>19, <1>20, <1>21, <1>22, <1>24, <1>25, <1>26, <1>27, <1>28 DEF Behind
<1> QED BY <1>1, <1>2, <1>29

(* The units of a stage of a chain are those of a filter of its own.       *)
LEMMA ChainOwn ==
  ASSUME NEW t, NEW q, NEW ch, ChainOf(t, q, ch), NEW C, C = ChainBlkts(q, ch),
         NEW j \in 1..Len(ch), NEW f, f = LastFilter(ch[j].resps),
         NEW units, units = IF f = 0 THEN NullBlkt ELSE <<q, j, f>>
  PROVE  UnitsOwn(t, C[j], units)
<1>1. PICK resps : resps = ch[j].resps
  OBVIOUS
<1>2. PICK c : c = C[j]
  OBVIOUS
<1>3. resps \in Seq(Response) /\ Len(resps) \in Nat /\ Len(ch) \in Nat /\ j \in Nat /\ j # 0
  <2>1. Len(ch) \in Nat
    BY ChainIs
  <2> QED BY <1>1, <2>1, ChainIs
<1>4. resps = t[q].stages[j].resps
  BY <1>1 DEF ChainOf
<1>5. /\ c \in Seq(Blkts(t)) /\ Len(c) = Len(resps) + 1
      /\ \A i \in 1..(Len(resps) + 1) : c[i] = <<q, j, i - 1>>
  <2>1. /\ Lists(C, Blkts(t)) /\ Len(C) = Len(ch)
        /\ \A a \in 1..Len(ch) :
             /\ Len(C[a]) = Len(ch[a].resps) + 1
             /\ \A i \in 1..(Len(ch[a].resps) + 1) : C[a][i] = <<q, a, i - 1>>
    BY ChainBlktsAre, SMTT(30)
  <2>2. C[j] \in Seq(Blkts(t))
    BY <2>1, ListsAre
  <2> QED BY <1>1, <1>2, <2>1, <2>2
<1>6. \A b : b \in Range(c) <=> \E i \in 1..(Len(resps) + 1) : b = <<q, j, i - 1>>
  <2>1. Range(c) = {c[i] : i \in 1..Len(c)}
    BY <1>5, RangeIs
  <2>2. Range(c) = {c[i] : i \in 1..(Len(resps) + 1)}
    BY <1>5, <2>1
  <2> QED BY <1>5, <2>2
<1>7. ASSUME NEW i \in 1..(Len(resps) + 1)
      PROVE  IsFilter(t, <<q, j, i - 1>>) <=> i # 1 /\ resps[i - 1] = "filter"
  <2>1. PICK b : b = <<q, j, i - 1>>
    OBVIOUS
  <2>2. b[1] = q /\ b[2] = j /\ b[3] = i - 1
    BY <2>1
  <2>3. b[3] = 0 <=> i = 1
    BY <1>3, <2>2
  <2>4. IsFilter(t, b) <=> IF b[3] = 0 THEN b[2] = 0 /\ t[b[1]].kind = "filter"
                           ELSE t[b[1]].stages[b[2]].resps[b[3]] = "filter"
    BY DEF IsFilter
  <2>5. IsFilter(t, b) <=> IF i = 1 THEN FALSE ELSE resps[i - 1] = "filter"
    BY <1>3, <1>4, <2>2, <2>3, <2>4
  <2> QED BY <2>1, <2>5
<1>8. /\ f \in 0..Len(resps)
      /\ f = 0 <=> \A r \in 1..Len(resps) : resps[r] # "filter"
      /\ f # 0 => resps[f] = "filter"
  BY <1>1, <1>3, LastFilterIs
<1>9. CASE f = 0
  <2>1. ASSUME NEW b \in Range(c), IsFilter(t, b) PROVE FALSE
    <3>1. PICK i \in 1..(Len(resps) + 1) : b = <<q, j, i - 1>>
      BY <1>6
    <3>2. i # 1 /\ resps[i - 1] = "filter"
      BY <1>7, <2>1, <3>1
    <3>3. i - 1 \in 1..Len(resps)
      BY <1>3, <3>2
    <3> QED BY <1>8, <1>9, <3>2, <3>3
  <2>2. Own(t, c) = {}
    BY <2>1 DEF Own
  <2> QED BY <1>2, <1>9, <2>2 DEF UnitsOwn
<1>10. CASE f # 0
  <2>1. f + 1 \in 1..(Len(resps) + 1) /\ (f + 1) - 1 = f /\ f + 1 # 1
    BY <1>3, <1>8, <1>10
  <2>2. <<q, j, f>> \in Range(c)
    BY <1>6, <2>1
  <2>3. IsFilter(t, <<q, j, (f + 1) - 1>>)
    BY <1>7, <1>8, <1>10, <2>1
  <2>4. IsFilter(t, <<q, j, f>>)
    BY <2>1, <2>3
  <2>5. <<q, j, f>> \in Own(t, c)
    BY <2>2, <2>4 DEF Own
  <2> QED BY <1>2, <1>10, <2>5 DEF UnitsOwn
<1> QED BY <1>9, <1>10

(* Nothing is said of a stage with blockettes of a [60].                   *)
LEMMA ToldNothing ==
  ASSUME NEW t, NEW blkts, NEW b \in Range(blkts), b[2] # 0
  PROVE  \A nou : LastTold(t, blkts, nou)
BY DEF LastTold

(* All stages of the [60] are read, and its first is the last of the list  *)
(* if that has its number.                                                 *)
ChainWhole(t, q, ch, L, st, e) ==
  /\ ch = t[q].stages
  /\ e = 1 <=> Len(L) # 0 /\ st[L[Len(L)]].seq = ch[1].seq

(* The chain spells the text on.                                           *)
LEMMA ChainSpelt ==
  ASSUME NEW t, NEW q, NEW ch, NEW st, NEW nxt, NEW L, NEW B, NEW this, NEW last, NEW e,
         Brings(t, q, ch, st, nxt, L, B, this, last, e), Spells(L, B, t, q, st),
         ChainWhole(t, q, ch, L, st, e),
         NEW tt, ChainStages(t, st, tt, Len(L), e, this, q, ch)
  PROVE  /\ \E G : Spelt(L, B, ChainList(Len(st), Len(ch), this, e), ChainBlkts(q, ch), G,
                         e, t, q, q + 1, st, tt)
         /\ e = 1 => \A nou : LastTold(t, B[Len(L)] \o ChainBlkts(q, ch)[1], nou)
         /\ \A nou : LastTold(t, ChainBlkts(q, ch)[Len(ch)], nou)
<1> /\ Ready(t, q, st, nxt, L, B, this, last) /\ ChainOf(t, q, ch)
    /\ e \in Nat /\ e <= 1 /\ (e = 1 => Len(L) # 0)
  BY DEF Brings
<1>1. PICK N : N = ChainList(Len(st), Len(ch), this, e)
  OBVIOUS
<1>2. PICK C : C = ChainBlkts(q, ch)
  OBVIOUS
<1>4. PICK base : base = Len(st)
  OBVIOUS
<1>5. PICK m : m = Len(ch)
  OBVIOUS
<1>6. /\ base \in Nat /\ Len(L) \in Nat /\ this \in 1..base
      /\ DOMAIN t \subseteq Nat /\ q \in DOMAIN t /\ q \in Nat
      /\ Len(B) = Len(L)
      /\ Len(L) # 0 => Len(L) \in 1..Len(L) /\ this = L[Len(L)]
  BY <1>4, ReadyEnds
<1>7. m \in Nat /\ m # 0 /\ 1 \in 1..m /\ q # 0 /\ DOMAIN ch = 1..m
  BY <1>5, ChainIs DEF ChainOf
<1>8. /\ Len(N) = m
      /\ \A j \in 1..m : j > e => N[j] = base + j
  <2>1. N = [j \in 1..m |-> N[j]]
    BY <1>1, <1>5 DEF ChainList
  <2>2. \A j \in 1..m : N[j] = IF e = 1 /\ j = 1 THEN this ELSE base + j
    BY <1>1, <1>4, <1>5 DEF ChainList
  <2>3. \A j \in 1..m : N[j] \in Nat
    BY <1>6, <2>2
  <2>4. Len(N) = m
    BY <1>7, <2>1, <2>3, SequenceIs
  <2> QED BY <2>2, <2>4
<1>9. /\ Lists(C, Blkts(t)) /\ Len(C) = m
      /\ \A j \in 1..m : 1 \in 1..Len(C[j]) /\ C[j][1] = <<q, j, 0>>
      /\ \A j \in 1..m : C[j] \in Seq(Blkts(t))
  <2>1. /\ Lists(C, Blkts(t)) /\ Len(C) = Len(ch)
        /\ \A j \in 1..Len(ch) :
             /\ Len(C[j]) = Len(ch[j].resps) + 1 /\ Len(ch[j].resps) \in Nat
             /\ \A i \in 1..(Len(ch[j].resps) + 1) : C[j][i] = <<q, j, i - 1>>
    BY <1>2, ChainBlktsAre
  <2>2. ASSUME NEW j \in 1..m PROVE 1 \in 1..Len(C[j]) /\ C[j][1] = <<q, j, 0>>
    <3>1. 1 \in 1..(Len(ch[j].resps) + 1) /\ Len(C[j]) = Len(ch[j].resps) + 1
      BY <1>5, <2>1
    <3>2. C[j][1] = <<q, j, 1 - 1>>
      BY <1>5, <2>1, <3>1
    <3> QED BY <3>1, <3>2
  <2>3. \A j \in 1..m : C[j] \in Seq(Blkts(t))
    BY <1>5, <2>1, ListsAre
  <2> QED BY <1>5, <2>1, <2>2, <2>3
<1>10. \A j \in 1..m : C[j][1] \in Range(C[j]) /\ C[j][1][2] # 0
  <2>1. SUFFICES ASSUME NEW j \in 1..m PROVE C[j][1] \in Range(C[j]) /\ C[j][1][2] # 0
    OBVIOUS
  <2>2. Range(C[j]) = {C[j][i] : i \in 1..Len(C[j])}
    BY <1>9, RangeIs
  <2>3. C[j][1][2] = j
    BY <1>9
  <2> QED BY <1>7, <1>9, <2>2, <2>3
<1>11. /\ \A s \in 1..base : s # this => tt[s] = st[s]
       /\ tt[this].units = st[this].units
  BY <1>4 DEF ChainStages
<1>12. ASSUME NEW j \in 1..m
       PROVE  /\ tt[base + j].seq = ch[j].seq
              /\ tt[base + j].units = IF LastFilter(ch[j].resps) = 0 THEN NullBlkt
                                      ELSE <<q, j, LastFilter(ch[j].resps)>>
  BY <1>4, <1>5 DEF ChainStages
<1>13. /\ \A i \in 1..Len(L) : L[i] \in 1..base
       /\ \A i \in 1..Len(L) : i # Len(L) => L[i] # this
  <2>1. /\ \A i \in 1..Len(L) : L[i] \in 1..Len(st)
        /\ \A i, j \in 1..Len(L) : L[i] = L[j] => i = j
    BY DEF Ready, Linked, ListOf
  <2> QED BY <1>4, <1>6, <2>1
<1>14. \A i \in 1..Len(L) : tt[L[i]].units = st[L[i]].units
  <2>1. SUFFICES ASSUME NEW i \in 1..Len(L) PROVE tt[L[i]].units = st[L[i]].units
    OBVIOUS
  <2>2. CASE i # Len(L)
    BY <1>11, <1>13, <2>2
  <2>3. CASE i = Len(L)
    BY <1>6, <1>11, <2>3
  <2> QED BY <2>2, <2>3
<1> DEFINE R == [seq : SeqNos, blkts : Seq(Blkts(t))]
<1>15. PICK G : G = RefGroups(t, q)
  OBVIOUS
<1>16. /\ G = [s \in 1..m |-> G[s]]
       /\ \A s \in 1..m : G[s].seq = ch[s].seq /\ G[s].blkts = C[s] /\ G[s] \in R
  <2>1. ch = t[q].stages
    BY DEF ChainWhole
  <2>2. G = [s \in 1..m |->
               [seq |-> ch[s].seq,
                blkts |-> [r \in 1..(Len(ch[s].resps) + 1) |-> <<q, s, r - 1>>]]]
    BY <1>7, <1>15, <2>1 DEF RefGroups
  <2>3. \A s \in 1..m : C[s] = [r \in 1..(Len(ch[s].resps) + 1) |-> <<q, s, r - 1>>]
    BY <1>2, <1>5 DEF ChainBlkts
  <2>4. \A s \in 1..m : G[s] = [seq |-> ch[s].seq, blkts |-> C[s]]
    BY <2>2, <2>3
  <2>5. \A s \in 1..m : ch[s].seq \in SeqNos
    BY <1>5, ChainIs
  <2> QED BY <1>9, <2>2, <2>4, <2>5
<1>17. G \in Seq(R) /\ Len(G) = m
  <2> HIDE DEF R
  <2> QED BY <1>7, <1>16, SequenceIs
<1>18. RunsBrought(G, L, N, C, st, tt, e, Blkts(t))
  <2>1. G \in Seq([seq : SeqNos, blkts : Seq(Blkts(t))])
    BY <1>17
  <2>2. e = 1 <=> Len(L) # 0 /\ st[L[Len(L)]].seq = G[1].seq
    BY <1>7, <1>16 DEF ChainWhole
  <2>3. \A j \in 1..Len(N) : G[j].blkts = C[j] /\ (j > e => G[j].seq = tt[N[j]].seq)
    BY <1>8, <1>12, <1>16
  <2> QED BY <1>8, <1>17, <2>1, <2>2, <2>3 DEF RunsBrought
<1>19. Groups(t, (q + 1) - 1) = Extend(Groups(t, q - 1), G[1]) \o Tail(G)
  <2>1. q - 1 \in Nat /\ (q - 1) + 1 = q /\ (q + 1) - 1 = q
    BY <1>6, <1>7
  <2>2. Groups(t, (q - 1) + 1) = AddToGroups(t, Groups(t, q - 1), (q - 1) + 1)
    BY <2>1, GroupsNext
  <2>3. Groups(t, q) = AddToGroups(t, Groups(t, q - 1), q)
    BY <2>1, <2>2
  <2>4. t[q].kind = "ref"
    BY DEF ChainOf
  <2>5. AddToGroups(t, Groups(t, q - 1), q)
          = Extend(Groups(t, q - 1), G[1]) \o Tail(G)
    BY <1>15, <2>4 DEF AddToGroups
  <2> QED BY <2>1, <2>3, <2>5
<1>20. ASSUME e = 1
       PROVE  /\ UnitsOwn(t, B[Len(L)] \o C[1], tt[L[Len(L)]].units)
              /\ \A nou : LastTold(t, B[Len(L)] \o C[1], nou)
  <2>1. Len(L) \in 1..Len(L) /\ Len(L) \in 1..Len(B)
    BY <1>6, <1>20
  <2>2. PICK a : a = B[Len(L)]
    OBVIOUS
  <2>3. PICK d : d = C[1]
    OBVIOUS
  <2>4. /\ Lists(B, Blkts(t)) /\ Len(B[Len(L)]) # 0
        /\ \A x \in 1..Len(B[Len(L)]) : B[Len(L)][x][1] < q
    BY <2>1 DEF Ready, Linked, BlktsOf
  <2>5. a \in Seq(Blkts(t)) /\ Len(a) \in Nat
    BY <2>1, <2>2, <2>4, ListsAre
  <2>6. 1 \in 1..Len(a) /\ a[1][1] < q
    BY <2>2, <2>4, <2>5
  <2>7. d \in Seq(Blkts(t)) /\ d[1] \in Range(d) /\ d[1] = <<q, 1, 0>>
    BY <1>7, <1>9, <1>10, <2>3
  <2>8. Range(a \o d) = Range(a) \cup Range(d)
    BY <2>5, <2>7, RangeConcat
  <2>9. Range(a) = {a[i] : i \in 1..Len(a)}
    BY <2>5, RangeIs
  <2>10. a[1] \in Range(a \o d) /\ d[1] \in Range(a \o d)
    BY <2>6, <2>7, <2>8, <2>9
  <2>11. Home(d[1]) = <<q, 1>>
    <3>1. d[1][1] = q /\ d[1][2] = 1
      BY <2>7
    <3> QED BY <3>1 DEF Home
  <2>12. Home(a[1]) # <<q, 1>>
    <3>1. CASE a[1][2] > 0
      <4>1. Home(a[1]) = <<a[1][1], a[1][2]>>
        BY <3>1 DEF Home
      <4>2. a[1][1] # q
        BY <1>6, <2>6
      <4>3. <<a[1][1], a[1][2]>> # <<q, 1>>
        BY <4>2
      <4> QED BY <4>1, <4>3
    <3>2. CASE ~ (a[1][2] > 0)
      <4>1. Home(a[1]) = <<0, 0>>
        BY <3>2 DEF Home
      <4> QED BY <1>7, <4>1
    <3> QED BY <3>1, <3>2
  <2>13. ~ Unmixed(Range(a \o d))
    BY <2>10, <2>11, <2>12 DEF Unmixed
  <2>14. UnitsOwn(t, a \o d, tt[L[Len(L)]].units)
    BY <2>13 DEF UnitsOwn
  <2>15. d[1][2] # 0
    BY <2>7
  <2>16. \A nou : LastTold(t, a \o d, nou)
    BY <2>10, <2>15, ToldNothing
  <2> QED BY <2>2, <2>3, <2>14, <2>16
<1>21. \A nou : LastTold(t, C[m], nou)
  <2>1. m \in 1..m
    BY <1>7
  <2> QED BY <1>10, <2>1, ToldNothing
<1>22. OwnBrought(L, B, N, C, e, t, st, tt)
  <2>1. ASSUME NEW j \in 1..Len(N), j > e PROVE UnitsOwn(t, C[j], tt[N[j]].units)
    <3>1. j \in 1..Len(ch) /\ j \in 1..m /\ N[j] = base + j
      BY <1>5, <1>8, <2>1
    <3>2. PICK f : f = LastFilter(ch[j].resps)
      OBVIOUS
    <3>3. tt[N[j]].units = IF f = 0 THEN NullBlkt ELSE <<q, j, f>>
      BY <1>12, <3>1, <3>2
    <3> QED BY <1>2, <3>1, <3>2, <3>3, ChainOwn
  <2> QED BY <1>14, <1>20, <2>1 DEF OwnBrought
<1>23. Spelt(L, B, N, C, G, e, t, q, q + 1, st, tt)
  BY <1>18, <1>19, <1>22 DEF Spelt
<1>24. \E H : Spelt(L, B, N, C, H, e, t, q, q + 1, st, tt)
  BY <1>23
<1> QED BY <1>1, <1>2, <1>5, <1>20, <1>21, <1>24

-----------------------------------------------------------------------------
(* The list L, B as it is before position q of t is read: its first stage, *)
(* its last, with the number lseq, its last blockette and its length are   *)
(* kept beside it.  As long as nothing was cut off (whole is 1) it spells  *)
(* the text.                                                               *)
Assembled(L, B, t, q, st, nxt, first, this, last, n, nou, lseq, whole) ==
  /\ HeapOf(t, st)
  /\ nxt \in [Blkts(t) -> Blkts(t) \cup {NullBlkt}]
  /\ \A b \in Blkts(t) : b[1] >= q => nxt[b] = NullBlkt
  /\ Linked(L, B, t, q, st, nxt)
  /\ Len(L) = 0 =>
       st = <<NewStage(0, NullBlkt, NullBlkt)>> /\ first = 1 /\ this = 1 /\ n = 1
  /\ Len(L) # 0 =>
       /\ n = Len(L) /\ n <= Len(st)
       /\ first = L[1] /\ this = L[Len(L)] /\ last = LastBlkt(B)
       /\ lseq = st[this].seq
  /\ whole = 1 =>
       Spells(L, B, t, q, st) /\ (Len(L) # 0 => LastTold(t, B[Len(L)], nou))

(* It is ready for the next blockette.                                     *)
LEMMA AssembledReady ==
  ASSUME NEW L, NEW B, NEW t, NEW q, NEW st, NEW nxt, NEW first, NEW this, NEW last,
         NEW n, NEW nou, NEW lseq, NEW whole,
         Assembled(L, B, t, q, st, nxt, first, this, last, n, nou, lseq, whole),
         t \in Seq(Blockette), q \in 1..Len(t)
  PROVE  Ready(t, q, st, nxt, L, B, this, last)
BY DEF Assembled, Ready

(* What is hung behind it, and what becomes of what is kept beside it.     *)
Hung(L, B, N, C, e, t, q, r, st, tt, nxt, mxt, told, whole) ==
  /\ e \in Nat /\ e <= 1 /\ q \in Nat /\ r \in Nat /\ q <= r /\ DOMAIN t \subseteq Nat
  /\ Behind(L, B, N, C, e, t, q, r, st, tt, nxt, mxt)
  /\ mxt \in [Blkts(t) -> Blkts(t) \cup {NullBlkt}]
  /\ \A b \in Blkts(t) : b[1] >= r => mxt[b] = NullBlkt
  /\ IF Len(L) = 0 THEN Len(N) <= Len(tt) ELSE Len(st) + Len(N) - e <= Len(tt)
  /\ whole = 1 =>
       /\ \E G : Spelt(L, B, N, C, G, e, t, q, r, st, tt)
       /\ Len(N) = e => LastTold(t, B[Len(L)] \o C[1], told)
       /\ Len(N) # e => LastTold(t, C[Len(N)], told)

KeptBeside(L, N, C, e, tt, first, this, n, first2, this2, last2, n2, lseq2) ==
  /\ first2 = IF Len(L) # 0 THEN first ELSE N[1]
  /\ this2 = IF Len(N) = e THEN this ELSE N[Len(N)]
  /\ last2 = LastBlkt(C)
  /\ n2 = IF Len(L) = 0 THEN Len(N) ELSE n + Len(N) - e
  /\ lseq2 = tt[this2].seq

(* The list goes on.                                                       *)
LEMMA AssembledJoin ==
  ASSUME NEW L, NEW B, NEW t, NEW q, NEW st, NEW nxt, NEW first, NEW this, NEW last,
         NEW n, NEW nou, NEW lseq, NEW whole,
         Assembled(L, B, t, q, st, nxt, first, this, last, n, nou, lseq, whole),
         NEW N, NEW C, NEW e, NEW r, NEW tt, NEW mxt, NEW told, NEW whole2,
         whole2 = 1 => whole = 1,
         Hung(L, B, N, C, e, t, q, r, st, tt, nxt, mxt, told, whole2),
         NEW first2, NEW this2, NEW last2, NEW n2, NEW lseq2,
         KeptBeside(L, N, C, e, tt, first, this, n, first2, this2, last2, n2, lseq2)
  PROVE  \E J, K : /\ Len(J) # 0
                   /\ Assembled(J, K, t, r, tt, mxt, first2, this2, last2, n2,
                                told, lseq2, whole2)
<1>1. /\ e \in Nat /\ e <= 1 /\ q \in Nat /\ r \in Nat /\ q <= r /\ DOMAIN t \subseteq Nat
      /\ Behind(L, B, N, C, e, t, q, r, st, tt, nxt, mxt)
      /\ mxt \in [Blkts(t) -> Blkts(t) \cup {NullBlkt}]
      /\ \A b \in Blkts(t) : b[1] >= r => mxt[b] = NullBlkt
      /\ Len(L) = 0 => Len(N) <= Len(tt)
      /\ Len(L) # 0 => Len(st) + Len(N) - e <= Len(tt)
  BY DEF Hung
<1>2. HeapOf(t, st) /\ Linked(L, B, t, q, st, nxt)
  BY DEF Assembled
<1>3. /\ L \in Seq(Nat) /\ N \in Seq(Nat) /\ Len(N) # 0
      /\ Len(B) = Len(L) /\ Len(C) = Len(N) /\ HeapOf(t, tt) /\ (e = 1 => Len(L) # 0)
  BY <1>1, <1>2 DEF Linked, Behind, Carried
<1>4. PICK J : J = Joined(L, N, e)
  OBVIOUS
<1>5. PICK K : K = JoinedBlkts(B, C, e)
  OBVIOUS
<1>6. /\ Linked(J, K, t, r, tt, mxt) /\ Len(J) = Len(L) + Len(N) - e
      /\ LastBlkt(K) = LastBlkt(C) /\ Ends(J, K, L, B, N, C, e)
  <2>1. /\ Linked(Joined(L, N, e), JoinedBlkts(B, C, e), t, r, tt, mxt)
        /\ Len(Joined(L, N, e)) = Len(L) + Len(N) - e
        /\ LET M == JoinedBlkts(B, C, e)
           IN  /\ LastBlkt(M) = LastBlkt(C)
               /\ Ends(Joined(L, N, e), M, L, B, N, C, e)
    BY <1>1, <1>2, LinkedJoin
  <2> QED BY <1>4, <1>5, <2>1
<1>7. /\ Len(L) \in Nat /\ Len(N) \in Nat /\ Len(N) >= 1 /\ Len(J) # 0
      /\ Len(K) = Len(J) /\ Len(st) \in Nat /\ Len(tt) \in Nat
  <2>1. Len(L) \in Nat /\ Len(N) \in Nat /\ Len(N) >= 1
    BY <1>3
  <2>2. Len(J) # 0
    BY <1>1, <1>3, <1>6, <2>1
  <2>3. Len(K) = Len(J)
    BY <1>6 DEF Linked
  <2>4. Len(st) \in Nat /\ Len(tt) \in Nat
    BY <1>2, <1>3 DEF HeapOf
  <2> QED BY <2>1, <2>2, <2>3, <2>4
<1>8. /\ J[1] = IF Len(L) # 0 THEN L[1] ELSE N[1]
      /\ Len(N) = e => J[Len(J)] = L[Len(L)] /\ K[Len(K)] = B[Len(L)] \o C[1]
      /\ Len(N) # e => J[Len(J)] = N[Len(N)] /\ K[Len(K)] = C[Len(N)]
  BY <1>6 DEF Ends
<1>9. Len(L) # 0 => /\ n = Len(L) /\ n <= Len(st)
                    /\ first = L[1] /\ this = L[Len(L)]
  BY DEF Assembled
<1>10. first2 = J[1] /\ this2 = J[Len(J)] /\ last2 = LastBlkt(K) /\ lseq2 = tt[this2].seq
  <2>1. Len(N) = e => Len(L) # 0
    BY <1>1, <1>3, <1>7
  <2> QED BY <1>6, <1>8, <1>9, <2>1 DEF KeptBeside
<1>11. n2 = Len(J) /\ n2 <= Len(tt)
  <2>1. n2 = IF Len(L) = 0 THEN Len(N) ELSE n + Len(N) - e
    BY DEF KeptBeside
  <2>2. CASE Len(L) = 0
    <3>1. e = 0
      BY <1>1, <1>3, <2>2
    <3> QED BY <1>1, <1>6, <1>7, <2>1, <2>2, <3>1
  <2>3. CASE Len(L) # 0
    BY <1>1, <1>6, <1>7, <1>9, <2>1, <2>3, SMTT(30)
  <2> QED BY <2>2, <2>3
<1>12. ASSUME whole2 = 1
       PROVE  Spells(J, K, t, r, tt) /\ LastTold(t, K[Len(J)], told)
  <2>1. PICK G : Spelt(L, B, N, C, G, e, t, q, r, st, tt)
    BY <1>12 DEF Hung
  <2>2. Spells(L, B, t, q, st)
    BY <1>12 DEF Assembled
  <2>3. Spells(Joined(L, N, e), JoinedBlkts(B, C, e), t, r, tt)
    BY <1>1, <1>2, <2>1, <2>2, SpellsJoin
  <2>4. LastTold(t, K[Len(J)], told)
    BY <1>7, <1>8, <1>12 DEF Hung
  <2> QED BY <1>4, <1>5, <2>3, <2>4
<1>13. Assembled(J, K, t, r, tt, mxt, first2, this2, last2, n2, told, lseq2, whole2)
  BY <1>1, <1>3, <1>6, <1>7, <1>10, <1>11, <1>12 DEF Assembled
<1> QED BY <1>7, <1>13

(* A blockette is read: what LinkBlockette does with it.                   *)
Reads(L, t, q, r, st, lseq, seq, units, w, e, nou, told, whole, whole2) ==
  /\ t \in Seq(Blockette) /\ q \in 1..Len(t) /\ r \in Nat /\ q < r
  /\ Hangs(t, <<q, 0, 0>>, seq, units, w, e, Len(L))
  /\ e = 1 <=> Len(L) # 0 /\ lseq = seq
  /\ whole2 = 1 => /\ whole = 1 /\ r = q + 1
                   /\ t[q].kind \in Response /\ seq = t[q].seq
                   /\ t[q].kind = "filter" => units = <<q, 0, 0>>
                   /\ w = 1 <=> (nou = 1 \/ e = 0) /\ t[q].kind = "filter"
                   /\ told = 1 <=> (nou = 1 \/ e = 0) /\ t[q].kind # "filter"

(* The list goes on with the blockette.                                    *)
LEMMA AssembledBlkt ==
  ASSUME NEW L, NEW B, NEW t, NEW q, NEW st, NEW nxt, NEW first, NEW this, NEW last,
         NEW n, NEW nou, NEW lseq, NEW whole,
         Assembled(L, B, t, q, st, nxt, first, this, last, n, nou, lseq, whole),
         NEW r, NEW seq, NEW units, NEW w, NEW e, NEW told, NEW whole2,
         Reads(L, t, q, r, st, lseq, seq, units, w, e, nou, told, whole, whole2),
         NEW target, target = IF Len(L) # 0 /\ e = 0 THEN Len(st) + 1 ELSE this,
         NEW n2, n2 = IF Len(L) # 0 /\ e = 0 THEN n + 1 ELSE n
  PROVE  \E J, K :
           /\ Len(J) # 0
           /\ Assembled(J, K, t, r, HungIn(st, Len(L), e, this, <<q, 0, 0>>, seq, w, units),
                        LinkedTo(nxt, last, <<q, 0, 0>>, e), first, target, <<q, 0, 0>>, n2,
                        told, seq, whole2)
<1>1. PICK b : b = <<q, 0, 0>>
  OBVIOUS
<1>2. PICK tt : tt = HungIn(st, Len(L), e, this, b, seq, w, units)
  OBVIOUS
<1>3. PICK mxt : mxt = LinkedTo(nxt, last, b, e)
  OBVIOUS
<1>4. PICK N : N = <<target>>
  OBVIOUS
<1>5. PICK C : C = <<<<b>>>>
  OBVIOUS
<1>6. /\ t \in Seq(Blockette) /\ q \in 1..Len(t) /\ r \in Nat /\ q < r
      /\ Hangs(t, b, seq, units, w, e, Len(L))
      /\ e = 1 <=> Len(L) # 0 /\ lseq = seq
  BY <1>1 DEF Reads
<1>7. Ready(t, q, st, nxt, L, B, this, last)
  BY <1>6, AssembledReady
<1>8. /\ Len(st) \in Nat /\ Len(L) \in Nat /\ this \in 1..Len(st)
      /\ DOMAIN t \subseteq Nat /\ q \in Nat /\ Len(B) = Len(L) /\ HeapOf(t, st)
      /\ Len(L) = 0 => st = <<NewStage(0, NullBlkt, NullBlkt)>> /\ this = 1
  <2>1. HeapOf(t, st)
    BY DEF Assembled
  <2> HIDE <1>1
  <2> QED BY <1>7, <2>1, ReadyEnds
<1>9. b \in Blkts(t) /\ e \in Nat /\ e <= 1 /\ (e = 1 => Len(L) # 0)
  BY <1>6 DEF Hangs
<1>10. HungStages(t, st, tt, Len(L), e, this, target, b, seq, w, units)
  BY <1>2, <1>6, <1>8, HungStagesAre
<1>11. Behind(L, B, N, C, e, t, q, r, st, tt, nxt, mxt)
  <2>1. Behind(L, B, <<target>>, <<<<<<q, 0, 0>>>>>>, e, t, q, r, st, tt, nxt, mxt)
    BY <1>1, <1>3, <1>6, <1>7, <1>10, BlktBehind
  <2> QED BY <1>1, <1>4, <1>5, <2>1
<1>12. Len(N) = 1 /\ N[1] = target /\ Len(C) = 1 /\ C[1] = <<b>> /\ LastBlkt(C) = b
  BY <1>4, <1>5 DEF LastBlkt
<1>13. /\ mxt \in [Blkts(t) -> Blkts(t) \cup {NullBlkt}]
       /\ \A x \in Blkts(t) : x[1] >= r => mxt[x] = NullBlkt
  <2>1. /\ nxt \in [Blkts(t) -> Blkts(t) \cup {NullBlkt}]
        /\ \A x \in Blkts(t) : x[1] >= q => nxt[x] = NullBlkt
    BY DEF Assembled
  <2>2. LinksTo(t, q, nxt, nxt, b, e, Len(L))
    BY <1>9, <2>1 DEF LinksTo
  <2>3. LinkedOn(t, q, B, nxt, nxt, mxt, b, e)
    BY <1>3, <1>7, <2>2, LinkedToIs
  <2>4. \A x \in Blkts(t) : x[1] \in Nat
    BY <1>8, BlktsAre
  <2>5. \A x \in Blkts(t) : x[1] >= r => x[1] >= q
    BY <1>6, <1>8, <2>4
  <2> QED BY <2>1, <2>3, <2>5 DEF LinkedOn
<1>14. target \in 1..Len(tt) /\ Len(st) <= Len(tt) /\ Len(tt) \in Nat
  <2>1. HeapOf(t, tt) /\ target \in 1..Len(tt) /\ Len(st) <= Len(tt)
    BY <1>10 DEF HungStages
  <2> QED BY <2>1 DEF HeapOf
<1>15. IF Len(L) = 0 THEN Len(N) <= Len(tt) ELSE Len(st) + Len(N) - e <= Len(tt)
  <2>1. Len(L) = 0 => Len(N) <= Len(tt)
    BY <1>12, <1>14
  <2>2. Len(L) # 0 => Len(st) + Len(N) - e <= Len(tt)
    BY <1>8, <1>9, <1>12, <1>14
  <2> QED BY <2>1, <2>2
<1>16. ASSUME whole2 = 1
       PROVE  /\ \E G : Spelt(L, B, N, C, G, e, t, q, r, st, tt)
              /\ Len(N) = e => LastTold(t, B[Len(L)] \o C[1], told)
              /\ Len(N) # e => LastTold(t, C[Len(N)], told)
  <2>1. /\ whole = 1 /\ r = q + 1
        /\ t[q].kind \in Response /\ seq = t[q].seq
        /\ t[q].kind = "filter" => units = <<q, 0, 0>>
        /\ w = 1 <=> (nou = 1 \/ e = 0) /\ t[q].kind = "filter"
        /\ told = 1 <=> (nou = 1 \/ e = 0) /\ t[q].kind # "filter"
    BY <1>16 DEF Reads
  <2>2. /\ Spells(L, B, t, q, st)
        /\ Len(L) # 0 => LastTold(t, B[Len(L)], nou)
        /\ Len(L) # 0 => this = L[Len(L)] /\ lseq = st[this].seq
    BY <2>1 DEF Assembled
  <2>3. Takes(t, q, L, st, seq, w, units, e, nou, told)
    BY <1>6, <2>1, <2>2 DEF Takes
  <2>4. /\ \E G : Spelt(L, B, <<target>>, <<<<<<q, 0, 0>>>>>>, G, e, t, q, q + 1, st, tt)
        /\ e = 1 => LastTold(t, B[Len(L)] \o <<<<q, 0, 0>>>>, told)
        /\ e = 0 => LastTold(t, <<<<q, 0, 0>>>>, told)
    <3>1. /\ Hangs(t, <<q, 0, 0>>, seq, units, w, e, Len(L))
          /\ HungStages(t, st, tt, Len(L), e, this, target, <<q, 0, 0>>, seq, w, units)
      BY <1>1, <1>6, <1>10
    <3> HIDE <1>12, <1>11, <1>13
    <3> QED BY <1>7, <2>2, <2>3, <3>1, BlktSpelt
  <2>5. \E G : Spelt(L, B, N, C, G, e, t, q, r, st, tt)
    BY <1>1, <1>4, <1>5, <2>1, <2>4
  <2>6. Len(N) = e => LastTold(t, B[Len(L)] \o C[1], told)
    BY <1>1, <1>12, <2>4
  <2>7. Len(N) # e => LastTold(t, C[Len(N)], told)
    <3>1. SUFFICES ASSUME Len(N) # e PROVE LastTold(t, C[1], told)
      BY <1>12
    <3>2. e = 0
      BY <1>9, <1>12, <3>1
    <3> QED BY <1>1, <1>12, <2>4, <3>2
  <2> QED BY <2>5, <2>6, <2>7
<1>17. Hung(L, B, N, C, e, t, q, r, st, tt, nxt, mxt, told, whole2)
  BY <1>6, <1>8, <1>9, <1>11, <1>13, <1>15, <1>16 DEF Hung
<1>18. KeptBeside(L, N, C, e, tt, first, this, n, first, target, b, n2, seq)
  <2>1. Len(L) = 0 => first = 1 /\ n = 1
    BY DEF Assembled
  <2>2. first = IF Len(L) # 0 THEN first ELSE N[1]
    BY <1>8, <1>12, <2>1
  <2>3. target = IF Len(N) = e THEN this ELSE N[Len(N)]
    BY <1>12
  <2>4. n2 = IF Len(L) = 0 THEN Len(N) ELSE n + Len(N) - e
    <3>1. CASE Len(L) = 0
      BY <1>12, <2>1, <3>1
    <3>2. CASE Len(L) # 0
      <4>1. n = Len(L)
        BY <3>2 DEF Assembled
      <4>2. e = 0 \/ e = 1
        BY <1>9
      <4> QED BY <1>8, <1>12, <3>2, <4>1, <4>2
    <3> QED BY <3>1, <3>2
  <2>5. tt[target].seq = seq
    <3>1. CASE e = 0
      BY <1>10, <3>1 DEF HungStages
    <3>2. CASE e = 1
      <4>1. target = this /\ lseq = st[this].seq
        BY <1>9, <3>2 DEF Assembled
      <4>2. tt[this].seq = st[this].seq
        BY <1>9, <1>10, <3>2 DEF HungStages
      <4> QED BY <1>6, <3>2, <4>1, <4>2
    <3> QED BY <1>9, <3>1, <3>2
  <2> QED BY <1>12, <2>2, <2>3, <2>4, <2>5 DEF KeptBeside
<1>19. whole2 = 1 => whole = 1
  BY DEF Reads
<1>20. \E J, K : /\ Len(J) # 0
                 /\ Assembled(J, K, t, r, tt, mxt, first, target, b, n2, told, seq, whole2)
  BY <1>17, <1>18, <1>19, AssembledJoin
<1> QED BY <1>1, <1>2, <1>3, <1>20

(* The chain of a [60] is read: what LinkChain does with it.               *)
ReadsChain(L, t, q, ch, r, st, lseq, e, whole, whole2) ==
  /\ ChainOf(t, q, ch) /\ r \in Nat /\ q < r
  /\ e \in Nat /\ e <= 1
  /\ e = 1 <=> Len(L) # 0 /\ lseq = ch[1].seq
  /\ whole2 = 1 => whole = 1 /\ r = q + 1 /\ ch = t[q].stages

ChainBeside(L, st, q, ch, e, first, this, n, first2, this2, last2, n2, lseq2) ==
  /\ first2 = IF Len(L) # 0 THEN first ELSE Len(st) + 1
  /\ this2 = IF e = 1 /\ Len(ch) = 1 THEN this ELSE Len(st) + Len(ch)
  /\ last2 = <<q, Len(ch), Len(ch[Len(ch)].resps)>>
  /\ n2 = n + (Len(ch) - 1) + (IF Len(L) # 0 /\ e = 0 THEN 1 ELSE 0)
  /\ lseq2 = IF e = 1 /\ Len(ch) = 1 THEN st[this].seq ELSE ch[Len(ch)].seq

(* The list goes on with the chain.                                        *)
LEMMA AssembledChain ==
  ASSUME NEW L, NEW B, NEW t, NEW q, NEW st, NEW nxt, NEW first, NEW this, NEW last,
         NEW n, NEW nou, NEW lseq, NEW whole,
         Assembled(L, B, t, q, st, nxt, first, this, last, n, nou, lseq, whole),
         NEW ch, NEW r, NEW e, NEW whole2,
         ReadsChain(L, t, q, ch, r, st, lseq, e, whole, whole2),
         NEW first2, NEW this2, NEW last2, NEW n2, NEW lseq2,
         ChainBeside(L, st, q, ch, e, first, this, n, first2, this2, last2, n2, lseq2)
  PROVE  \E J, K :
           /\ Len(J) # 0
           /\ Assembled(J, K, t, r, ChainIn(st, Len(L), e, this, q, ch),
                        LinkedTo(ChainLinked(q, ch, nxt), last, <<q, 1, 0>>, e),
                        first2, this2, last2, n2, nou, lseq2, whole2)
<1>1. PICK tt : tt = ChainIn(st, Len(L), e, this, q, ch)
  OBVIOUS
<1>2. PICK mxt : mxt = LinkedTo(ChainLinked(q, ch, nxt), last, <<q, 1, 0>>, e)
  OBVIOUS
<1>3. PICK N : N = ChainList(Len(st), Len(ch), this, e)
  OBVIOUS
<1>4. PICK C : C = ChainBlkts(q, ch)
  OBVIOUS
<1>5. PICK m : m = Len(ch)
  OBVIOUS
<1>6. /\ ChainOf(t, q, ch) /\ r \in Nat /\ q < r /\ e \in Nat /\ e <= 1
      /\ e = 1 <=> Len(L) # 0 /\ lseq = ch[1].seq
  BY DEF ReadsChain
<1>7. Ready(t, q, st, nxt, L, B, this, last)
  <2>1. t \in Seq(Blockette) /\ q \in 1..Len(t)
    BY <1>6 DEF ChainOf
  <2> QED BY <2>1, AssembledReady
<1>8. /\ Len(st) \in Nat /\ Len(L) \in Nat /\ this \in 1..Len(st)
      /\ DOMAIN t \subseteq Nat /\ q \in Nat /\ Len(B) = Len(L)
  BY <1>7, ReadyEnds
<1>9. HeapOf(t, st)
  BY DEF Assembled
<1>10. Brings(t, q, ch, st, nxt, L, B, this, last, e)
  BY <1>6, <1>7 DEF Brings
<1>11. ChainStages(t, st, tt, Len(L), e, this, q, ch)
  BY <1>1, <1>6, <1>8, <1>9, ChainStagesAre
<1>12. Behind(L, B, N, C, e, t, q, r, st, tt, nxt, mxt)
  <2>1. Behind(L, B, ChainList(Len(st), Len(ch), this, e), ChainBlkts(q, ch), e,
               t, q, r, st, tt, nxt, mxt)
    BY <1>2, <1>6, <1>10, <1>11, ChainBehind
  <2> QED BY <1>3, <1>4, <2>1
<1>13. m \in Nat /\ m >= 1 /\ 1 \in 1..m /\ m \in 1..m
  BY <1>5, <1>6, ChainIs
<1>14. Len(N) = m /\ \A j \in 1..m : N[j] = IF e = 1 /\ j = 1 THEN this ELSE Len(st) + j
  <2>1. N = [j \in 1..m |-> N[j]]
    BY <1>3, <1>5 DEF ChainList
  <2>2. \A j \in 1..m : N[j] = IF e = 1 /\ j = 1 THEN this ELSE Len(st) + j
    BY <1>3, <1>5 DEF ChainList
  <2>3. \A j \in 1..m : N[j] \in Nat
    BY <1>8, <2>2
  <2>4. Len(N) = m
    BY <1>13, <2>1, <2>3, SequenceIs
  <2> QED BY <2>2, <2>4
<1>15. Len(C) = m /\ LastBlkt(C) = <<q, m, Len(ch[m].resps)>>
  <2>1. /\ Len(C) = Len(ch)
        /\ \A j \in 1..Len(ch) :
             /\ Len(C[j]) = Len(ch[j].resps) + 1 /\ Len(ch[j].resps) \in Nat
             /\ \A i \in 1..(Len(ch[j].resps) + 1) : C[j][i] = <<q, j, i - 1>>
    BY <1>4, <1>6, ChainBlktsAre, SMTT(30)
  <2>2. PICK x : x = Len(ch[m].resps)
    OBVIOUS
  <2>3. x \in Nat /\ Len(C[m]) = x + 1
    BY <1>5, <1>13, <2>1, <2>2
  <2>4. x + 1 \in 1..(x + 1) /\ (x + 1) - 1 = x
    BY <2>3
  <2>5. C[m][x + 1] = <<q, m, (x + 1) - 1>>
    BY <1>5, <1>13, <2>1, <2>2, <2>4
  <2>6. LastBlkt(C) = C[m][x + 1]
    BY <1>5, <2>1, <2>3 DEF LastBlkt
  <2> QED BY <1>5, <2>1, <2>2, <2>4, <2>5, <2>6
<1>16. /\ mxt \in [Blkts(t) -> Blkts(t) \cup {NullBlkt}]
       /\ \A x \in Blkts(t) : x[1] >= r => mxt[x] = NullBlkt
  <2>1. /\ nxt \in [Blkts(t) -> Blkts(t) \cup {NullBlkt}]
        /\ \A x \in Blkts(t) : x[1] >= q => nxt[x] = NullBlkt
    BY DEF Assembled
  <2>2. PICK kept : kept = ChainLinked(q, ch, nxt)
    OBVIOUS
  <2>3. KeptIs(t, q, nxt, kept, C)
    BY <1>4, <1>6, <2>1, <2>2, ChainKept
  <2>4. \A x \in Blkts(t) : x[1] \in Nat
    BY <1>8, BlktsAre
  <2>5. <<q, 1, 0>> \in Blkts(t)
    <3>1. 0 \in 0..Len(ch[1].resps)
      BY <1>5, <1>6, <1>13, ChainIs
    <3> QED BY <1>5, <1>6, <1>13, <3>1, ChainIs
  <2>6. LinksTo(t, q, nxt, kept, <<q, 1, 0>>, e, Len(L))
    <3>1. \A x \in Blkts(t) : x[1] < q => kept[x] = nxt[x]
      BY <1>8, <2>3, <2>4 DEF KeptIs
    <3>2. kept \in [Blkts(t) -> Blkts(t) \cup {NullBlkt}]
      BY <2>3 DEF KeptIs
    <3> QED BY <1>6, <2>5, <3>1, <3>2 DEF LinksTo
  <2>7. LinkedOn(t, q, B, nxt, kept, LinkedTo(kept, last, <<q, 1, 0>>, e), <<q, 1, 0>>, e)
    BY <1>7, <2>6, LinkedToIs
  <2>8. LinkedOn(t, q, B, nxt, kept, mxt, <<q, 1, 0>>, e)
    BY <1>2, <2>2, <2>7
  <2>9. ASSUME NEW x \in Blkts(t), x[1] >= r PROVE mxt[x] = NullBlkt
    <3>1. x[1] >= q /\ x[1] # q
      BY <1>6, <1>8, <2>4, <2>9
    <3>2. mxt[x] = kept[x]
      BY <2>8, <3>1 DEF LinkedOn
    <3>3. kept[x] = nxt[x]
      BY <2>3, <3>1 DEF KeptIs
    <3> QED BY <2>1, <3>1, <3>2, <3>3
  <2> QED BY <2>8, <2>9 DEF LinkedOn
<1>17. /\ Len(tt) = Len(st) + m
       /\ tt[this].seq = st[this].seq
       /\ \A j \in 1..m : tt[Len(st) + j].seq = ch[j].seq
  BY <1>5, <1>11 DEF ChainStages
<1>18. IF Len(L) = 0 THEN Len(N) <= Len(tt) ELSE Len(st) + Len(N) - e <= Len(tt)
  BY <1>6, <1>8, <1>13, <1>14, <1>17
<1>19. ASSUME whole2 = 1
       PROVE  /\ \E G : Spelt(L, B, N, C, G, e, t, q, r, st, tt)
              /\ Len(N) = e => LastTold(t, B[Len(L)] \o C[1], nou)
              /\ Len(N) # e => LastTold(t, C[Len(N)], nou)
  <2>1. whole = 1 /\ r = q + 1 /\ ch = t[q].stages
    BY <1>19 DEF ReadsChain
  <2>2. /\ Spells(L, B, t, q, st)
        /\ Len(L) # 0 => this = L[Len(L)] /\ lseq = st[this].seq
    BY <2>1 DEF Assembled
  <2>3. ChainWhole(t, q, ch, L, st, e)
    BY <1>6, <2>1, <2>2 DEF ChainWhole
  <2>4. /\ \E G : Spelt(L, B, ChainList(Len(st), Len(ch), this, e), ChainBlkts(q, ch), G,
                        e, t, q, q + 1, st, tt)
        /\ e = 1 => \A x : LastTold(t, B[Len(L)] \o ChainBlkts(q, ch)[1], x)
        /\ \A x : LastTold(t, ChainBlkts(q, ch)[Len(ch)], x)
    BY <1>10, <1>11, <2>2, <2>3, ChainSpelt
  <2>5. \E G : Spelt(L, B, N, C, G, e, t, q, r, st, tt)
    BY <1>3, <1>4, <2>1, <2>4
  <2>6. Len(N) = e => LastTold(t, B[Len(L)] \o C[1], nou)
    <3>1. SUFFICES ASSUME Len(N) = e PROVE LastTold(t, B[Len(L)] \o C[1], nou)
      OBVIOUS
    <3>2. e = 1
      BY <1>6, <1>13, <1>14, <3>1
    <3> QED BY <1>4, <2>4, <3>2
  <2>7. LastTold(t, C[Len(N)], nou)
    BY <1>4, <1>5, <1>14, <2>4
  <2> QED BY <2>5, <2>6, <2>7
<1>20. Hung(L, B, N, C, e, t, q, r, st, tt, nxt, mxt, nou, whole2)
  <2>1. q <= r
    BY <1>6, <1>8
  <2> QED BY <1>6, <1>8, <1>12, <1>16, <1>18, <1>19, <2>1 DEF Hung
<1>21. KeptBeside(L, N, C, e, tt, first, this, n, first2, this2, last2, n2, lseq2)
  <2>1. first2 = IF Len(L) # 0 THEN first ELSE N[1]
    <3>1. Len(L) = 0 => N[1] = Len(st) + 1
      BY <1>6, <1>13, <1>14
    <3> QED BY <3>1 DEF ChainBeside
  <2>2. this2 = IF e = 1 /\ m = 1 THEN this ELSE Len(st) + m
    BY <1>5 DEF ChainBeside
  <2>3. this2 = IF Len(N) = e THEN this ELSE N[Len(N)]
    <3>1. CASE m = e
      BY <1>6, <1>13, <1>14, <2>2, <3>1
    <3>2. CASE m # e
      <4>1. ~ (e = 1 /\ m = 1)
        BY <3>2
      <4>2. N[m] = Len(st) + m
        BY <1>13, <1>14, <4>1
      <4> QED BY <1>14, <2>2, <3>2, <4>1, <4>2
    <3> QED BY <3>1, <3>2
  <2>4. n2 = IF Len(L) = 0 THEN Len(N) ELSE n + Len(N) - e
    <3>1. n2 = n + (m - 1) + (IF Len(L) # 0 /\ e = 0 THEN 1 ELSE 0)
      BY <1>5 DEF ChainBeside
    <3>2. CASE Len(L) = 0
      <4>1. n = 1
        BY <3>2 DEF Assembled
      <4> QED BY <1>13, <1>14, <3>1, <3>2, <4>1
    <3>3. CASE Len(L) # 0
      <4>1. n \in Nat
        BY <1>8, <3>3 DEF Assembled
      <4>2. e = 0 \/ e = 1
        BY <1>6
      <4> QED BY <1>13, <1>14, <3>1, <3>3, <4>1, <4>2
    <3> QED BY <3>2, <3>3
  <2>5. lseq2 = tt[this2].seq
    <3>1. lseq2 = IF e = 1 /\ m = 1 THEN st[this].seq ELSE ch[m].seq
      BY <1>5 DEF ChainBeside
    <3> QED BY <1>13, <1>17, <2>2, <3>1
  <2>6. last2 = LastBlkt(C)
    BY <1>5, <1>15 DEF ChainBeside
  <2> QED BY <2>1, <2>3, <2>4, <2>5, <2>6 DEF KeptBeside
<1>22. whole2 = 1 => whole = 1
  BY DEF ReadsChain
<1>23. \E J, K : /\ Len(J) # 0
                 /\ Assembled(J, K, t, r, tt, mxt, first2, this2, last2, n2,
                              nou, lseq2, whole2)
  BY <1>20, <1>21, <1>22, AssembledJoin
<1> QED BY <1>1, <1>2, <1>23

(* A line nobody reads leaves the list as it is.                           *)
LEMMA AssembledSkip ==
  ASSUME NEW L, NEW B, NEW t, NEW q, NEW st, NEW nxt, NEW first, NEW this, NEW last,
         NEW n, NEW nou, NEW lseq, NEW whole,
         Assembled(L, B, t, q, st, nxt, first, this, last, n, nou, lseq, whole),
         t \in Seq(Blockette), q \in 1..Len(t), t[q].kind = "other"
  PROVE  Assembled(L, B, t, q + 1, st, nxt, first, this, last, n, nou, lseq, whole)
<1>1. q \in Nat /\ q - 1 \in Nat /\ (q - 1) + 1 = q /\ (q + 1) - 1 = q /\ DOMAIN t \subseteq Nat
  OBVIOUS
<1>2. Groups(t, (q + 1) - 1) = Groups(t, q - 1)
  <2>1. Groups(t, (q - 1) + 1) = AddToGroups(t, Groups(t, q - 1), (q - 1) + 1)
    BY <1>1, GroupsNext
  <2>2. Groups(t, q) = AddToGroups(t, Groups(t, q - 1), q)
    BY <1>1, <2>1
  <2>3. AddToGroups(t, Groups(t, q - 1), q) = Groups(t, q - 1)
    BY DEF AddToGroups
  <2> QED BY <1>1, <2>2, <2>3
<1>3. whole = 1 =>
        Spells(L, B, t, q + 1, st) /\ (Len(L) # 0 => LastTold(t, B[Len(L)], nou))
  BY <1>2 DEF Assembled, Spells
<1>4. \A b \in Blkts(t) : b[1] \in Nat
  BY <1>1, BlktsAre
<1>5. HeapOf(t, st) /\ Linked(L, B, t, q, st, nxt)
  BY DEF Assembled
<1>6. Linked(L, B, t, q + 1, st, nxt)
  <2>1. /\ L \in Seq(Nat) /\ Lists(B, Blkts(t)) /\ Len(B) = Len(L)
        /\ ListOf(L, st) /\ Heads(L, B, st)
    BY <1>5 DEF Linked
  <2>2. BlktsOf(B, nxt, q + 1)
    <3>1. BlktsOf(B, nxt, q)
      BY <1>5 DEF Linked
    <3>2. \A i \in 1..Len(B) : \A m \in 1..Len(B[i]) : B[i][m][1] < q + 1
      <4>1. SUFFICES ASSUME NEW i \in 1..Len(B), NEW m \in 1..Len(B[i])
                     PROVE  B[i][m][1] < q + 1
        OBVIOUS
      <4>2. B[i][m] \in Blkts(t)
        BY <2>1, ListsAre
      <4>3. B[i][m][1] < q
        BY <3>1 DEF BlktsOf
      <4> QED BY <1>1, <1>4, <4>2, <4>3
    <3> QED BY <3>1, <3>2 DEF BlktsOf
  <2>3. ApartOf(L, st, q + 1)
    <3>1. ApartOf(L, st, q)
      BY <1>5 DEF Linked
    <3>2. ASSUME NEW i \in 1..Len(L), st[L[i]].units # NullBlkt
          PROVE  st[L[i]].units[1] < q + 1
      <4>1. L[i] \in 1..Len(st)
        BY <2>1 DEF ListOf
      <4>2. st[L[i]].units[1] \in Nat
        BY <1>1, <1>5, <3>2, <4>1, HeapIs
      <4>3. st[L[i]].units[1] < q
        BY <3>1, <3>2 DEF ApartOf
      <4> QED BY <1>1, <4>2, <4>3
    <3> QED BY <3>1, <3>2 DEF ApartOf
  <2> QED BY <2>1, <2>2, <2>3 DEF Linked
<1>7. \A b \in Blkts(t) : b[1] >= q + 1 => nxt[b] = NullBlkt
  <2>1. \A b \in Blkts(t) : b[1] >= q + 1 => b[1] >= q
    BY <1>1, <1>4
  <2> QED BY <2>1 DEF Assembled
<1> QED BY <1>3, <1>6, <1>7 DEF Assembled

-----------------------------------------------------------------------------
(* The image of a finite set is finite.                                    *)
LEMMA ImageFinite ==
  ASSUME NEW S, IsFiniteSet(S), NEW f
  PROVE  IsFiniteSet({f[x] : x \in S})
<1> DEFINE T == {f[x] : x \in S}
           g == [x \in S |-> f[x]]
<1>1. g \in Surjection(S, T)
  BY DEF Surjection
<1> HIDE DEF T, g
<1>2. IsFiniteSet(T)
  BY <1>1, FS_Surjection
<1> QED BY <1>2 DEF T

(* A text has finitely many blockettes.                                    *)
LEMMA BlktsFinite ==
  ASSUME NEW t \in Seq(Blockette)
  PROVE  IsFiniteSet(Blkts(t))
<1>1. IsFiniteSet(DOMAIN t)
  <2>1. DOMAIN t = 1..Len(t) /\ Len(t) \in Nat
    OBVIOUS
  <2> QED BY <2>1, FS_Interval
<1>2. IsFiniteSet({<<p, 0, 0>> : p \in DOMAIN t})
  <2> DEFINE f == [p \in DOMAIN t |-> <<p, 0, 0>>]
  <2>1. {<<p, 0, 0>> : p \in DOMAIN t} = {f[p] : p \in DOMAIN t}
    OBVIOUS
  <2> HIDE DEF f
  <2> QED BY <1>1, <2>1, ImageFinite
<1> DEFINE Refs == {p \in DOMAIN t : t[p].kind = "ref"}
           At(p, s) == {<<p, s, r>> : r \in 0..Len(t[p].stages[s].resps)}
           In(p) == UNION {At(p, s) : s \in DOMAIN t[p].stages}
<1>3. ASSUME NEW p \in Refs PROVE IsFiniteSet(In(p))
  <2>1. t[p].stages \in Seq(RefStage)
    <3>1. t[p] \in Blockette /\ t[p].kind = "ref"
      OBVIOUS
    <3> QED BY <3>1 DEF Blockette, Response
  <2>2. IsFiniteSet(DOMAIN t[p].stages)
    <3>1. DOMAIN t[p].stages = 1..Len(t[p].stages) /\ Len(t[p].stages) \in Nat
      BY <2>1
    <3> QED BY <3>1, FS_Interval
  <2>3. ASSUME NEW s \in DOMAIN t[p].stages PROVE IsFiniteSet(At(p, s))
    <3>1. t[p].stages[s] \in RefStage
      BY <2>1
    <3>2. Len(t[p].stages[s].resps) \in Nat
      BY <3>1 DEF RefStage
    <3>3. IsFiniteSet(0..Len(t[p].stages[s].resps))
      <4>1. PICK n : n = Len(t[p].stages[s].resps)
        OBVIOUS
      <4>2. 0 \in Int /\ n \in Int
        BY <3>2, <4>1
      <4>3. IsFiniteSet(0..n)
        BY <4>2, FS_Interval
      <4> QED BY <4>1, <4>3
    <3> DEFINE g == [r \in 0..Len(t[p].stages[s].resps) |-> <<p, s, r>>]
    <3>4. At(p, s) = {g[r] : r \in 0..Len(t[p].stages[s].resps)}
      OBVIOUS
    <3> HIDE DEF g, At
    <3> QED BY <3>3, <3>4, ImageFinite
  <2> DEFINE f == [s \in DOMAIN t[p].stages |-> At(p, s)]
             W == {f[s] : s \in DOMAIN t[p].stages}
  <2>4. \A s \in DOMAIN t[p].stages : f[s] = At(p, s)
    OBVIOUS
  <2>5. IsFiniteSet(W)
    <3> HIDE DEF f, At
    <3> QED BY <2>2, ImageFinite
  <2>6. \A T \in W : IsFiniteSet(T)
    <3> HIDE DEF f, At
    <3> QED BY <2>3, <2>4
  <2>7. In(p) = UNION W
    <3>1. {At(p, s) : s \in DOMAIN t[p].stages} = W
      BY <2>4, ZenonT(60)
    <3> QED BY <3>1
  <2> HIDE DEF W, In
  <2> QED BY <2>5, <2>6, <2>7, FS_UNION
<1>4. IsFiniteSet(UNION {In(p) : p \in Refs})
  <2> DEFINE f == [p \in Refs |-> In(p)]
             W == {f[p] : p \in Refs}
  <2>1. \A p \in Refs : f[p] = In(p)
    OBVIOUS
  <2>2. IsFiniteSet(Refs)
    <3>1. Refs \in SUBSET DOMAIN t
      OBVIOUS
    <3> HIDE DEF Refs
    <3> QED BY <1>1, <3>1, FS_Subset
  <2>3. IsFiniteSet(W)
    <3> HIDE DEF f, In, Refs
    <3> QED BY <2>2, ImageFinite
  <2>4. \A T \in W : IsFiniteSet(T)
    <3> HIDE DEF f, In, Refs
    <3> QED BY <1>3, <2>1
  <2>5. {In(p) : p \in Refs} = W
    <3> HIDE DEF In, Refs
    <3> QED BY <2>1
  <2> HIDE DEF W, In, Refs
  <2> QED BY <2>3, <2>4, <2>5, FS_UNION
<1>5. Blkts(t) = {<<p, 0, 0>> : p \in DOMAIN t} \cup UNION {In(p) : p \in Refs}
  BY DEF Blkts
<1> HIDE DEF In, Refs
<1> QED BY <1>2, <1>4, <1>5, FS_Union, ZenonT(60)

(* A sequence without repetitions is no longer than its set is large.      *)
LEMMA LengthBound ==
  ASSUME NEW S, IsFiniteSet(S), NEW a \in Seq(S),
         \A i, j \in 1..Len(a) : a[i] = a[j] => i = j
  PROVE  Len(a) <= Cardinality(S) /\ Cardinality(S) \in Nat
<1>1. Len(a) \in Nat /\ a \in [1..Len(a) -> S]
  OBVIOUS
<1>2. a \in Injection(1..Len(a), S)
  BY <1>1 DEF Injection, IsInjective
<1>3. Cardinality(1..Len(a)) <= Cardinality(S)
  <2>1. PICK D, f : D = 1..Len(a) /\ f = a
    OBVIOUS
  <2>2. f \in Injection(D, S)
    BY <1>2, <2>1
  <2>3. Cardinality(D) <= Cardinality(S)
    BY ONLY <2>2, IsFiniteSet(S), FS_Injection
  <2> QED BY <2>1, <2>3
<1>4. Cardinality(1..Len(a)) = Len(a)
  BY <1>1, FS_Interval
<1>5. Cardinality(S) \in Nat
  BY FS_CardinalityType
<1> QED BY <1>3, <1>4, <1>5

(* Following the pointers from the first stage of the list gives the list. *)
LEMMA ListWalked ==
  ASSUME NEW t, NEW st, HeapOf(t, st), NEW q, NEW nxt, NEW L, NEW B,
         Linked(L, B, t, q, st, nxt), Len(L) # 0, Len(L) <= Len(st)
  PROVE  Path(L[1], NullStage, [s \in DOMAIN st |-> st[s].next], Len(st)) = L
<1>1. /\ L \in Seq(Nat) /\ \A i \in 1..Len(L) : L[i] \in 1..Len(st)
      /\ \A i \in 1..Len(L) : st[L[i]].next = IF i = Len(L) THEN NullStage ELSE L[i + 1]
  BY DEF Linked, ListOf
<1>2. Len(st) \in Nat /\ DOMAIN st = 1..Len(st)
  BY DEF HeapOf
<1>3. PICK next : next = [s \in DOMAIN st |-> st[s].next]
  OBVIOUS
<1>4. PICK S : S = 1..Len(st)
  OBVIOUS
<1>5. L \in Seq(S) /\ NullStage \notin S
  BY <1>1, <1>2, <1>4 DEF NullStage
<1>6. \A i \in 1..Len(L) : next[L[i]] = IF i = Len(L) THEN NullStage ELSE L[i + 1]
  BY <1>1, <1>2, <1>3
<1>7. Len(L) <= Len(st) + 1
  BY <1>1, <1>2
<1>8. Path(L[1], NullStage, next, Len(st)) = L
  BY <1>2, <1>5, <1>6, <1>7, PathIs
<1> QED BY <1>3, <1>8

(* Following them from the first blockette of a stage gives those of the   *)
(* stage.                                                                  *)
LEMMA BlktsWalked ==
  ASSUME NEW t \in Seq(Blockette), NEW st, NEW q, NEW nxt, NEW L, NEW B,
         nxt \in [Blkts(t) -> Blkts(t) \cup {NullBlkt}],
         Linked(L, B, t, q, st, nxt), NEW i \in 1..Len(L)
  PROVE  /\ st[L[i]].first = B[i][1] /\ B[i][1] # NullBlkt
         /\ Path(B[i][1], NullBlkt, nxt, Cardinality(DOMAIN nxt)) = B[i]
<1>1. Lists(B, Blkts(t)) /\ Len(B) = Len(L) /\ Heads(L, B, st) /\ BlktsOf(B, nxt, q)
  BY DEF Linked
<1>2. PICK a : a = B[i]
  OBVIOUS
<1>3. i \in 1..Len(B) /\ a \in Seq(Blkts(t)) /\ Len(a) \in Nat /\ Len(a) # 0
  BY <1>1, <1>2, ListsAre DEF BlktsOf
<1>4. \A m \in 1..Len(a) : nxt[a[m]] = IF m = Len(a) THEN NullBlkt ELSE a[m + 1]
  BY <1>1, <1>2, <1>3 DEF BlktsOf
<1>5. \A m, n \in 1..Len(a) : a[m] = a[n] => m = n
  BY <1>1, <1>2, <1>3 DEF BlktsOf
<1>6. NullBlkt \notin Blkts(t)
  <2>1. \A b \in Blkts(t) : b[1] \in DOMAIN t
    BY BlktsAre
  <2>2. 0 \notin DOMAIN t /\ NullBlkt[1] = 0
    BY DEF NullBlkt
  <2> QED BY <2>1, <2>2
<1>7. Len(a) <= Cardinality(Blkts(t)) /\ Cardinality(Blkts(t)) \in Nat
  BY <1>3, <1>5, BlktsFinite, LengthBound
<1>8. Len(a) <= Cardinality(Blkts(t)) + 1
  BY <1>3, <1>7
<1>9. Path(a[1], NullBlkt, nxt, Cardinality(Blkts(t))) = a
  BY <1>3, <1>4, <1>6, <1>7, <1>8, PathIs
<1>10. a[1] \in Blkts(t)
  BY <1>3
<1>11. st[L[i]].first = a[1]
  BY <1>1, <1>2 DEF Heads
<1>12. DOMAIN nxt = Blkts(t)
  OBVIOUS
<1> QED BY <1>2, <1>6, <1>9, <1>10, <1>11, <1>12

-----------------------------------------------------------------------------
Flag(p) == IF p THEN 1 ELSE 0

(* Unit strings are freed at the end only, and once, unless tmp_stage still *)
(* points to them.                                                          *)
Freed ==
  /\ pc = "read_line" => \A b \in Blkts(text) : unit_frees[b] = 0
  /\ tmp_units = NullBlkt =>
       /\ pc \in {"channel", "failed"} => \A b \in Blkts(text) : unit_frees[b] = 0
       /\ \A b \in Blkts(text) : unit_frees[b] <= 1

(* What the variables beside the list may be.                              *)
Beside ==
  /\ text \in Texts /\ ending \in {"B050", "EOF"}
  /\ k \in 1..(Len(text) + 1) /\ pc \in {"read_line", "channel", "failed", "freed"}
  /\ last_stage \in 0..Len(stage) /\ last_blkt \in Blkts(text) \cup {NullBlkt}
  /\ tmp_seq \in SeqNos /\ tmp_units \in Blkts(text) \cup {NullBlkt}
  /\ read_blkt \in BOOLEAN /\ no_units \in BOOLEAN /\ cut \in BOOLEAN
  /\ last_seq_no \in SeqNos
  /\ unit_frees \in [Blkts(text) -> Nat]
  /\ read_blkt => last_stage = this_stage

ListHolds(L, B) ==
  /\ read_blkt <=> Len(L) # 0
  /\ Assembled(L, B, text, k, stage, next_blkt, first_stage, this_stage, last_blkt, nstages,
               Flag(no_units), last_seq_no, Flag(~cut))

ListThere == \E L, B : ListHolds(L, B)

(* The inductive invariant: there are lists that the pointers follow.      *)
Inv == Beside /\ Freed /\ ListThere

(* The text is a sequence of blockettes.                                   *)
LEMMA TextIs ==
  ASSUME text \in Texts
  PROVE  text \in Seq(Blockette) /\ Len(text) \in Nat /\ DOMAIN text = 1..Len(text)
         /\ DOMAIN text \subseteq Nat
<1>1. text \in Seq(Blockette)
  BY TextAssumption
<1> QED BY <1>1

(* None of its blockettes is null.                                         *)
LEMMA NullIsNone ==
  ASSUME NEW t \in Seq(Blockette)
  PROVE  NullBlkt \notin Blkts(t)
<1>1. \A b \in Blkts(t) : b[1] \in DOMAIN t
  BY BlktsAre
<1>2. 0 \notin DOMAIN t /\ NullBlkt[1] = 0
  BY DEF NullBlkt
<1> QED BY <1>1, <1>2

(* What is kept beside the list is in the heap.                            *)
LEMMA AssembledIs ==
  ASSUME NEW L, NEW B, NEW t, DOMAIN t \subseteq Nat, NEW q, NEW st, NEW nxt, NEW first,
         NEW this, NEW last, NEW n, NEW nou, NEW lseq, NEW whole,
         Assembled(L, B, t, q, st, nxt, first, this, last, n, nou, lseq, whole)
  PROVE  /\ st \in Seq(Stages(t, Len(st))) /\ Len(st) \in Nat /\ DOMAIN st = 1..Len(st)
         /\ nxt \in [Blkts(t) -> Blkts(t) \cup {NullBlkt}]
         /\ first \in 1..Len(st) /\ this \in 1..Len(st) /\ n \in Nat
         /\ st[this].seq \in SeqNos
<1>1. HeapOf(t, st) /\ Linked(L, B, t, q, st, nxt)
  BY DEF Assembled
<1>2. st \in Seq(Stages(t, Len(st))) /\ Len(st) \in Nat /\ DOMAIN st = 1..Len(st)
  BY <1>1 DEF HeapOf
<1>3. first \in 1..Len(st) /\ this \in 1..Len(st) /\ n \in Nat
  <2>1. CASE Len(L) = 0
    <3>1. st = <<NewStage(0, NullBlkt, NullBlkt)>> /\ first = 1 /\ this = 1 /\ n = 1
      BY <2>1 DEF Assembled
    <3>2. Len(st) = 1
      BY <3>1
    <3> QED BY <3>1, <3>2
  <2>2. CASE Len(L) # 0
    <3>1. n = Len(L) /\ first = L[1] /\ this = L[Len(L)]
      BY <2>2 DEF Assembled
    <3>2. Len(L) \in Nat /\ \A i \in 1..Len(L) : L[i] \in 1..Len(st)
      BY <1>1 DEF Linked, ListOf
    <3>3. 1 \in 1..Len(L) /\ Len(L) \in 1..Len(L)
      BY <2>2, <3>2
    <3> QED BY <3>1, <3>2, <3>3
  <2> QED BY <2>1, <2>2
<1>4. st[this].seq \in SeqNos
  BY <1>1, <1>3, HeapIs
<1> QED BY <1>2, <1>3, <1>4 DEF Assembled

(* The invariant gives the types.                                          *)
LEMMA InvTypes == Inv => TypeOK
<1> SUFFICES ASSUME Inv PROVE TypeOK
  OBVIOUS
<1>1. PICK L, B : ListHolds(L, B)
  BY DEF Inv, ListThere
<1>2. Beside
  BY DEF Inv
<1>3. DOMAIN text \subseteq Nat
  BY <1>2, TextIs DEF Beside
<1>4. /\ stage \in Seq(Stages(text, Len(stage))) /\ DOMAIN stage = 1..Len(stage)
      /\ next_blkt \in [Blkts(text) -> Blkts(text) \cup {NullBlkt}]
      /\ first_stage \in 1..Len(stage) /\ this_stage \in 1..Len(stage) /\ nstages \in Nat
  BY <1>1, <1>3, AssembledIs DEF ListHolds
<1> QED BY <1>2, <1>4 DEF TypeOK, Beside, Stages

(* It holds to begin with: there is no list yet.                           *)
LEMMA InvInit == Init => Inv
<1> SUFFICES ASSUME Init PROVE Inv
  OBVIOUS
<1> USE DEF Init
<1>1. text \in Seq(Blockette) /\ Len(text) \in Nat /\ DOMAIN text \subseteq Nat
  BY TextIs
<1>2. 0 \in SeqNos
  BY TextAssumption
<1>3. Beside
  <2>1. k \in 1..(Len(text) + 1)
    BY <1>1
  <2>2. Len(stage) = 1 /\ last_stage \in 0..Len(stage)
    BY DEF NullStage
  <2>3. unit_frees \in [Blkts(text) -> Nat]
    OBVIOUS
  <2> QED BY <1>2, <2>1, <2>2, <2>3 DEF Beside
<1>4. Freed
  BY DEF Freed
<1>5. ListHolds(<<>>, <<>>)
  <2>1. HeapOf(text, stage)
    <3>1. Len(stage) = 1
      OBVIOUS
    <3>2. NewStage(0, NullBlkt, NullBlkt) \in Stages(text, 1)
      BY <1>2 DEF NewStage, Stages, NullStage
    <3>3. stage \in Seq(Stages(text, 1))
      BY <3>2, SingleIs
    <3> QED BY <3>1, <3>3 DEF HeapOf
  <2>2. Linked(<<>>, <<>>, text, k, stage, next_blkt)
    BY DEF Linked, Lists, ListOf, BlktsOf, ApartOf, Heads
  <2>3. Spells(<<>>, <<>>, text, k, stage)
    <3>1. Groups(text, 0) = <<>>
      BY GroupsNext
    <3>2. RunsOf(<<>>, <<>>, stage) = <<>>
      BY DEF RunsOf
    <3>3. OwnUnits(text, <<>>, <<>>, stage)
      BY DEF OwnUnits
    <3> QED BY <3>1, <3>2, <3>3 DEF Spells
  <2> QED BY <2>1, <2>2, <2>3 DEF ListHolds, Assembled
<1> QED BY <1>3, <1>4, <1>5 DEF Inv, ListThere

(* A blockette is linked: what the code around LinkBlockette sees to.      *)
Links(seq, isFilter, units) ==
  /\ k <= Len(text) /\ seq \in SeqNos /\ isFilter \in BOOLEAN
  /\ units \in {NullBlkt, <<k, 0, 0>>}
  /\ k' \in Nat /\ k < k' /\ text' = text
  /\ ~cut' => /\ ~cut /\ k' = k + 1 /\ text[k].kind \in Response /\ seq = text[k].seq
              /\ isFilter <=> text[k].kind = "filter"
              /\ isFilter => units = <<k, 0, 0>>

(* What the step leaves of the list, and of the variables kept with it.    *)
Relisted ==
  /\ ListThere'
  /\ (/\ last_stage \in 0..Len(stage) /\ last_blkt \in Blkts(text) \cup {NullBlkt}
      /\ read_blkt \in BOOLEAN /\ no_units \in BOOLEAN /\ last_seq_no \in SeqNos
      /\ read_blkt => last_stage = this_stage)'

(* The list goes on with the blockette.                                    *)
LEMMA LinkStep ==
  ASSUME Inv, NEW seq, NEW isFilter, NEW units, Links(seq, isFilter, units),
         LinkBlockette(<<k, 0, 0>>, seq, isFilter, units)
  PROVE  Relisted
<1>1. PICK L, B : ListHolds(L, B)
  BY DEF Inv, ListThere
<1>2. Beside
  BY DEF Inv
<1>3. /\ text \in Seq(Blockette) /\ Len(text) \in Nat /\ DOMAIN text = 1..Len(text)
      /\ DOMAIN text \subseteq Nat
  BY <1>2, TextIs DEF Beside
<1>4. /\ k <= Len(text) /\ seq \in SeqNos /\ isFilter \in BOOLEAN
      /\ units \in {NullBlkt, <<k, 0, 0>>}
      /\ k' \in Nat /\ k < k' /\ text' = text
  BY DEF Links
<1>5. k \in 1..Len(text)
  BY <1>2, <1>3, <1>4 DEF Beside
<1>6. read_blkt \in BOOLEAN /\ no_units \in BOOLEAN /\ cut \in BOOLEAN
      /\ (read_blkt => last_stage = this_stage)
  BY <1>2 DEF Beside
<1>7. read_blkt <=> Len(L) # 0
  BY <1>1 DEF ListHolds
<1>8. PICK b : b = <<k, 0, 0>>
  OBVIOUS
<1>9. PICK e : e = Flag(read_blkt /\ last_seq_no = seq)
  OBVIOUS
<1>10. e \in Nat /\ e <= 1 /\ (e = 1 <=> Len(L) # 0 /\ last_seq_no = seq)
  BY <1>7, <1>9 DEF Flag
<1>11. PICK w : w = Flag((no_units \/ e = 0) /\ isFilter)
  OBVIOUS
<1>12. w \in Nat /\ (w = 1 <=> (no_units \/ e = 0) /\ isFilter)
  BY <1>11 DEF Flag
<1>13. PICK nou : nou = Flag(no_units)
  OBVIOUS
<1>14. nou = 1 <=> no_units
  BY <1>13 DEF Flag
<1>15. PICK told : told = Flag((no_units \/ e = 0) /\ ~ isFilter)
  OBVIOUS
<1>16. told = 1 <=> (no_units \/ e = 0) /\ ~ isFilter
  BY <1>15 DEF Flag
<1>17. PICK whole : whole = Flag(~cut)
  OBVIOUS
<1>18. PICK whole2 : whole2 = Flag(~cut')
  OBVIOUS
<1>19. (whole = 1 <=> ~cut) /\ (whole2 = 1 <=> ~cut')
  BY <1>17, <1>18 DEF Flag
<1>20. b \in Blkts(text)
  BY <1>3, <1>5, <1>8, BlktsAre
<1>21. Reads(L, text, k, k', stage, last_seq_no, seq, units, w, e, nou, told, whole, whole2)
  <2>1. Hangs(text, <<k, 0, 0>>, seq, units, w, e, Len(L))
    BY <1>4, <1>8, <1>10, <1>12, <1>20 DEF Hangs
  <2>2. ASSUME whole2 = 1
        PROVE  /\ whole = 1 /\ k' = k + 1
               /\ text[k].kind \in Response /\ seq = text[k].seq
               /\ text[k].kind = "filter" => units = <<k, 0, 0>>
               /\ w = 1 <=> (nou = 1 \/ e = 0) /\ text[k].kind = "filter"
               /\ told = 1 <=> (nou = 1 \/ e = 0) /\ text[k].kind # "filter"
    <3>1. /\ ~cut /\ k' = k + 1 /\ text[k].kind \in Response /\ seq = text[k].seq
          /\ isFilter <=> text[k].kind = "filter"
          /\ isFilter => units = <<k, 0, 0>>
      BY <1>19, <2>2 DEF Links
    <3> QED BY <1>12, <1>14, <1>16, <1>19, <3>1
  <2> QED BY <1>3, <1>4, <1>5, <1>10, <2>1, <2>2 DEF Reads
<1>22. PICK target : target = IF Len(L) # 0 /\ e = 0 THEN Len(stage) + 1 ELSE this_stage
  OBVIOUS
<1>23. PICK n2 : n2 = IF Len(L) # 0 /\ e = 0 THEN nstages + 1 ELSE nstages
  OBVIOUS
<1>24. PICK tt : tt = HungIn(stage, Len(L), e, this_stage, b, seq, w, units)
  OBVIOUS
<1>25. PICK mxt : mxt = LinkedTo(next_blkt, last_blkt, b, e)
  OBVIOUS
<1>26. PICK J, K : /\ Len(J) # 0
                   /\ Assembled(J, K, text, k', tt, mxt, first_stage, target, b, n2,
                                told, seq, whole2)
  <2>1. Assembled(L, B, text, k, stage, next_blkt, first_stage, this_stage, last_blkt,
                  nstages, nou, last_seq_no, whole)
    BY <1>1, <1>13, <1>17 DEF ListHolds
  <2>2. \E J, K :
          /\ Len(J) # 0
          /\ Assembled(J, K, text, k',
                       HungIn(stage, Len(L), e, this_stage, <<k, 0, 0>>, seq, w, units),
                       LinkedTo(next_blkt, last_blkt, <<k, 0, 0>>, e), first_stage, target,
                       <<k, 0, 0>>, n2, told, seq, whole2)
    BY <1>21, <1>22, <1>23, <2>1, AssembledBlkt
  <2> QED BY <1>8, <1>24, <1>25, <2>2
<1> DEFINE newStage == read_blkt /\ last_seq_no # seq
           sameStage == read_blkt /\ last_seq_no = seq
<1>27. (newStage <=> Len(L) # 0 /\ e = 0) /\ (sameStage <=> e = 1)
  BY <1>7, <1>10
<1>28. /\ this_stage' = target /\ nstages' = n2 /\ next_blkt' = mxt
       /\ last_blkt' = b /\ last_seq_no' = seq /\ first_stage' = first_stage
       /\ last_stage' = (IF sameStage THEN last_stage ELSE target) /\ read_blkt' = TRUE
  BY <1>8, <1>22, <1>23, <1>25, <1>27 DEF LinkBlockette, LinkedTo
<1>29. stage' = tt
  <2> DEFINE linked == IF newStage
                         THEN Append([stage EXCEPT ![this_stage].next = target],
                                     NewStage(seq, b, NullBlkt))
                       ELSE IF sameStage THEN stage
                       ELSE [stage EXCEPT ![this_stage].first = b, ![this_stage].seq = seq]
             open == Unitless(sameStage) /\ isFilter
  <2>1. target = IF newStage THEN Len(stage) + 1 ELSE this_stage
    BY <1>22, <1>27
  <2>2. stage' = IF open THEN [linked EXCEPT ![target].units = units] ELSE linked
    BY <1>8, <2>1 DEF LinkBlockette
  <2>3. open <=> w = 1
    BY <1>6, <1>10, <1>12, <1>27 DEF Unitless
  <2>4. linked = IF Len(L) # 0 /\ e = 0
                   THEN Append([stage EXCEPT ![this_stage].next = target],
                               NewStage(seq, b, NullBlkt))
                 ELSE IF e = 1 THEN stage
                 ELSE [stage EXCEPT ![this_stage].first = b, ![this_stage].seq = seq]
    BY <1>27
  <2> HIDE DEF linked, open
  <2>5. tt = IF w = 1 THEN [linked EXCEPT ![target].units = units] ELSE linked
    BY <1>22, <1>24, <2>4 DEF HungIn
  <2> QED BY <2>2, <2>3, <2>5
<1>30. no_units' \in BOOLEAN /\ Flag(no_units') = told
  <2>1. no_units' = (Unitless(sameStage) /\ ~isFilter)
    BY DEF LinkBlockette
  <2>2. Unitless(sameStage) <=> no_units \/ e = 0
    BY <1>10, <1>27 DEF Unitless
  <2> QED BY <1>15, <2>1, <2>2 DEF Flag
<1>31. ListHolds(J, K)'
  BY <1>4, <1>18, <1>26, <1>28, <1>29, <1>30 DEF ListHolds
<1>32. target \in 1..Len(tt) /\ Len(tt) \in Nat
  BY <1>3, <1>26, AssembledIs
<1>33. last_stage' = target
  <2>1. sameStage => last_stage = target
    BY <1>6, <1>10, <1>22, <1>27
  <2> QED BY <1>28, <2>1
<1>34. target \in 0..Len(tt)
  BY <1>32
<1> QED BY <1>4, <1>20, <1>28, <1>29, <1>30, <1>31, <1>33, <1>34 DEF Relisted, ListThere

(* The chain of a [60] is linked: what the code around LinkChain sees to.  *)
LinksChain(ch) ==
  /\ ChainOf(text, k, ch) /\ k' \in Nat /\ k < k' /\ text' = text
  /\ ~cut' => ~cut /\ k' = k + 1 /\ ch = text[k].stages

(* The list goes on with the chain.                                        *)
LEMMA ChainStep ==
  ASSUME Inv, NEW ch, LinksChain(ch), LinkChain(k, ch)
  PROVE  Relisted
<1>1. PICK L, B : ListHolds(L, B)
  BY DEF Inv, ListThere
<1>2. Beside
  BY DEF Inv
<1>3. /\ text \in Seq(Blockette) /\ Len(text) \in Nat /\ DOMAIN text \subseteq Nat
  BY <1>2, TextIs DEF Beside
<1>4. ChainOf(text, k, ch) /\ k' \in Nat /\ k < k' /\ text' = text
  BY DEF LinksChain
<1>5. read_blkt \in BOOLEAN /\ no_units \in BOOLEAN /\ last_seq_no \in SeqNos
      /\ (read_blkt => last_stage = this_stage)
  BY <1>2 DEF Beside
<1>6. read_blkt <=> Len(L) # 0
  BY <1>1 DEF ListHolds
<1>7. PICK m : m = Len(ch)
  OBVIOUS
<1>8. PICK base : base = Len(stage)
  OBVIOUS
<1>9. PICK e : e = Flag(read_blkt /\ last_seq_no = ch[1].seq)
  OBVIOUS
<1>10. e \in Nat /\ e <= 1 /\ (e = 1 <=> Len(L) # 0 /\ last_seq_no = ch[1].seq)
  BY <1>6, <1>9 DEF Flag
<1>11. PICK nou : nou = Flag(no_units)
  OBVIOUS
<1>12. PICK whole : whole = Flag(~cut)
  OBVIOUS
<1>13. PICK whole2 : whole2 = Flag(~cut')
  OBVIOUS
<1>14. (whole = 1 <=> ~cut) /\ (whole2 = 1 <=> ~cut')
  BY <1>12, <1>13 DEF Flag
<1>15. ReadsChain(L, text, k, ch, k', stage, last_seq_no, e, whole, whole2)
  <2>1. whole2 = 1 => whole = 1 /\ k' = k + 1 /\ ch = text[k].stages
    BY <1>14 DEF LinksChain
  <2> QED BY <1>4, <1>10, <2>1 DEF ReadsChain
<1>16. /\ m \in Nat /\ m # 0 /\ DOMAIN ch = 1..m /\ m \in 1..m
       /\ ch[m].seq \in SeqNos /\ Len(ch[m].resps) \in Nat
       /\ <<k, m, Len(ch[m].resps)>> \in Blkts(text)
  <2>1. /\ m \in Nat /\ DOMAIN ch = 1..m /\ 1 \in 1..m
        /\ \A s \in 1..m :
             /\ ch[s].seq \in SeqNos /\ Len(ch[s].resps) \in Nat
             /\ \A r \in 0..Len(ch[s].resps) : <<k, s, r>> \in Blkts(text)
    BY <1>4, <1>7, ChainIs
  <2>2. m # 0 /\ m \in 1..m
    BY <2>1
  <2>3. Len(ch[m].resps) \in 0..Len(ch[m].resps)
    BY <2>1, <2>2
  <2> QED BY <2>1, <2>2, <2>3
<1> DEFINE sameStage == read_blkt /\ last_seq_no = ch[1].seq
           newStage == read_blkt /\ ~sameStage
<1>17. (sameStage <=> e = 1) /\ (newStage <=> Len(L) # 0 /\ e = 0)
  BY <1>6, <1>10
<1>18. PICK tt : tt = ChainIn(stage, Len(L), e, this_stage, k, ch)
  OBVIOUS
<1>19. PICK mxt : mxt = LinkedTo(ChainLinked(k, ch, next_blkt), last_blkt, <<k, 1, 0>>, e)
  OBVIOUS
<1>20. stage' = tt
  <2>1. stage' = IF newStage
                   THEN [(stage \o Chain(k, ch, base)) EXCEPT ![last_stage].next = base + 1]
                 ELSE IF sameStage /\ m > 1
                   THEN [(stage \o Chain(k, ch, base)) EXCEPT ![this_stage].next = base + 2]
                 ELSE stage \o Chain(k, ch, base)
    BY <1>7, <1>8 DEF LinkChain
  <2>2. PICK chained : chained = stage \o Chain(k, ch, base)
    OBVIOUS
  <2>3. tt = IF Len(L) # 0 /\ e = 0 THEN [chained EXCEPT ![this_stage].next = base + 1]
             ELSE IF e = 1 /\ m > 1 THEN [chained EXCEPT ![this_stage].next = base + 2]
             ELSE chained
    BY <1>7, <1>8, <1>18, <2>2 DEF ChainIn
  <2>4. stage' = IF newStage THEN [chained EXCEPT ![last_stage].next = base + 1]
                 ELSE IF sameStage /\ m > 1
                   THEN [chained EXCEPT ![this_stage].next = base + 2]
                 ELSE chained
    BY <2>1, <2>2
  <2>5. CASE newStage
    <3>1. last_stage = this_stage
      BY <1>5, <2>5
    <3> QED BY <1>17, <2>3, <2>4, <2>5, <3>1
  <2>6. CASE ~newStage
    BY <1>17, <2>3, <2>4, <2>6
  <2> QED BY <2>5, <2>6
<1>21. next_blkt' = mxt
  <2>1. ChainLinks(k, ch) = ChainLinked(k, ch, next_blkt)
    BY DEF ChainLinks, ChainLinked
  <2>2. PICK links : links = ChainLinks(k, ch)
    OBVIOUS
  <2>3. next_blkt' = IF sameStage THEN [links EXCEPT ![last_blkt] = <<k, 1, 0>>] ELSE links
    BY <2>2 DEF LinkChain
  <2>4. mxt = IF e = 1 THEN [links EXCEPT ![last_blkt] = <<k, 1, 0>>] ELSE links
    BY <1>19, <2>1, <2>2 DEF LinkedTo
  <2> QED BY <1>17, <2>3, <2>4
<1>22. /\ first_stage' = IF read_blkt THEN first_stage ELSE base + 1
       /\ this_stage' = IF sameStage /\ m = 1 THEN this_stage ELSE base + m
       /\ last_stage' = this_stage'
       /\ nstages' = nstages + ChainAdds(m, newStage)
       /\ last_blkt' = <<k, m, Len(ch[m].resps)>>
       /\ last_seq_no' = IF sameStage /\ m = 1 THEN stage[this_stage].seq ELSE ch[m].seq
       /\ read_blkt' = TRUE
       /\ no_units' = no_units
  BY <1>7, <1>8 DEF LinkChain
<1>23. /\ stage \in Seq(Stages(text, base)) /\ base \in Nat /\ nstages \in Nat
       /\ stage[this_stage].seq \in SeqNos
  BY <1>1, <1>3, <1>8, AssembledIs DEF ListHolds
<1>24. nstages' = nstages + (m - 1) + (IF Len(L) # 0 /\ e = 0 THEN 1 ELSE 0)
  <2>1. ChainAdds(m, newStage) = (m - 1) + (IF newStage THEN 1 ELSE 0)
    BY DEF ChainAdds
  <2>2. CASE newStage
    <3>1. nstages' = nstages + ((m - 1) + 1)
      BY <1>22, <2>1, <2>2
    <3>2. Len(L) # 0 /\ e = 0
      BY <1>17, <2>2
    <3> HIDE DEF newStage, sameStage
    <3> QED BY <1>16, <1>23, <3>1, <3>2
  <2>3. CASE ~newStage
    <3>1. nstages' = nstages + ((m - 1) + 0)
      BY <1>22, <2>1, <2>3
    <3>2. ~ (Len(L) # 0 /\ e = 0)
      BY <1>17, <2>3
    <3> HIDE DEF newStage, sameStage
    <3> QED BY <1>16, <1>23, <3>1, <3>2
  <2> QED BY <2>2, <2>3
<1>25. ChainBeside(L, stage, k, ch, e, first_stage, this_stage, nstages,
                   first_stage', this_stage', last_blkt', nstages', last_seq_no')
  <2>1. first_stage' = IF Len(L) # 0 THEN first_stage ELSE base + 1
    BY <1>6, <1>22
  <2>2. this_stage' = IF e = 1 /\ m = 1 THEN this_stage ELSE base + m
    BY <1>17, <1>22
  <2>3. last_seq_no' = IF e = 1 /\ m = 1 THEN stage[this_stage].seq ELSE ch[m].seq
    BY <1>17, <1>22
  <2>4. last_blkt' = <<k, m, Len(ch[m].resps)>>
    BY <1>22
  <2> HIDE DEF newStage, sameStage
  <2> QED BY <1>7, <1>8, <1>24, <2>1, <2>2, <2>3, <2>4 DEF ChainBeside
<1>26. PICK J, K : /\ Len(J) # 0
                   /\ Assembled(J, K, text, k', tt, mxt, first_stage', this_stage',
                                last_blkt', nstages', nou, last_seq_no', whole2)
  <2>1. Assembled(L, B, text, k, stage, next_blkt, first_stage, this_stage, last_blkt,
                  nstages, nou, last_seq_no, whole)
    BY <1>1, <1>11, <1>12 DEF ListHolds
  <2>2. \E J, K :
          /\ Len(J) # 0
          /\ Assembled(J, K, text, k', ChainIn(stage, Len(L), e, this_stage, k, ch),
                       LinkedTo(ChainLinked(k, ch, next_blkt), last_blkt, <<k, 1, 0>>, e),
                       first_stage', this_stage', last_blkt', nstages', nou,
                       last_seq_no', whole2)
    BY <1>15, <1>25, <2>1, AssembledChain
  <2> QED BY <1>18, <1>19, <2>2
<1>27. ListHolds(J, K)'
  BY <1>4, <1>11, <1>13, <1>20, <1>21, <1>22, <1>26 DEF ListHolds
<1>28. this_stage' \in 1..Len(tt) /\ Len(tt) \in Nat
  BY <1>3, <1>26, AssembledIs
<1>29. this_stage' \in 0..Len(tt)
  BY <1>28
<1>30. last_seq_no' \in SeqNos
  BY <1>16, <1>22, <1>23
<1> HIDE DEF newStage, sameStage
<1> QED BY <1>4, <1>5, <1>16, <1>20, <1>22, <1>27, <1>29, <1>30 DEF Relisted, ListThere

-----------------------------------------------------------------------------
(* The list the pointers give is the one there is, or the empty stage the  *)
(* channel began with.                                                     *)
LEMMA StageListIs ==
  ASSUME Beside, NEW L, NEW B, ListHolds(L, B)
  PROVE  /\ StageList = IF Len(L) = 0 THEN <<1>> ELSE L
         /\ Len(L) = 0 => stage = <<NewStage(0, NullBlkt, NullBlkt)>> /\ nstages = 1
         /\ Len(L) # 0 => nstages = Len(L)
         /\ Linked(L, B, text, k, stage, next_blkt) /\ HeapOf(text, stage)
         /\ next_blkt \in [Blkts(text) -> Blkts(text) \cup {NullBlkt}]
<1>1. Assembled(L, B, text, k, stage, next_blkt, first_stage, this_stage, last_blkt, nstages,
                Flag(no_units), last_seq_no, Flag(~cut))
  BY DEF ListHolds
<1>2. Linked(L, B, text, k, stage, next_blkt) /\ HeapOf(text, stage)
      /\ next_blkt \in [Blkts(text) -> Blkts(text) \cup {NullBlkt}]
  BY <1>1 DEF Assembled
<1>3. ASSUME Len(L) # 0 PROVE StageList = L /\ nstages = Len(L)
  <2>1. nstages = Len(L) /\ nstages <= Len(stage) /\ first_stage = L[1]
    BY <1>1, <1>3 DEF Assembled
  <2>2. Len(L) <= Len(stage)
    BY <2>1
  <2>3. Path(L[1], NullStage, [s \in DOMAIN stage |-> stage[s].next], Len(stage)) = L
    BY <1>2, <1>3, <2>2, ListWalked
  <2> QED BY <2>1, <2>3 DEF StageList
<1>4. ASSUME Len(L) = 0
      PROVE  /\ StageList = <<1>>
             /\ stage = <<NewStage(0, NullBlkt, NullBlkt)>> /\ nstages = 1
  <2>1. stage = <<NewStage(0, NullBlkt, NullBlkt)>> /\ first_stage = 1 /\ nstages = 1
    BY <1>1, <1>4 DEF Assembled
  <2>2. Len(stage) = 1 /\ DOMAIN stage = 1..1 /\ stage[1].next = NullStage
    BY <2>1 DEF NewStage
  <2>3. PICK P : P = <<1>>
    OBVIOUS
  <2>4. PICK S : S = {1}
    OBVIOUS
  <2>5. PICK next : next = [s \in DOMAIN stage |-> stage[s].next]
    OBVIOUS
  <2>6. P \in Seq(S) /\ Len(P) = 1 /\ P[1] = 1
    <3>1. 1 \in S
      BY <2>4
    <3> QED BY <2>3, <3>1, SingleIs
  <2>7. \A i \in 1..Len(P) : next[P[i]] = IF i = Len(P) THEN NullStage ELSE P[i + 1]
    BY <2>2, <2>5, <2>6
  <2>8. NullStage \notin S
    BY <2>4 DEF NullStage
  <2>9. 1 \in Nat /\ Len(P) # 0 /\ Len(P) <= 1 + 1
    BY <2>6
  <2>10. Path(P[1], NullStage, next, 1) = P
    BY <2>6, <2>7, <2>8, <2>9, PathIs, ZenonT(60)
  <2> QED BY <2>1, <2>2, <2>3, <2>5, <2>6, <2>10 DEF StageList
<1> QED BY <1>2, <1>3, <1>4

(* At most one stage of the list has the unit strings of a blockette.      *)
LEMMA OwnedOnce ==
  ASSUME Inv, NEW b \in Blkts(text)
  PROVE  Cardinality({s \in Range(StageList) : stage[s].units = b}) \in {0, 1}
<1>1. PICK L, B : ListHolds(L, B)
  BY DEF Inv, ListThere
<1>2. Beside
  BY DEF Inv
<1>3. /\ StageList = IF Len(L) = 0 THEN <<1>> ELSE L
      /\ Len(L) = 0 => stage = <<NewStage(0, NullBlkt, NullBlkt)>>
      /\ Linked(L, B, text, k, stage, next_blkt)
  BY <1>1, <1>2, StageListIs
<1>4. b # NullBlkt
  <2>1. text \in Seq(Blockette)
    BY <1>2, TextIs DEF Beside
  <2> QED BY <2>1, NullIsNone
<1> DEFINE W == {s \in Range(StageList) : stage[s].units = b}
<1>5. CASE Len(L) = 0
  <2>1. Range(StageList) = {1}
    BY <1>3, <1>5 DEF Range
  <2>2. stage[1].units = NullBlkt
    BY <1>3, <1>5 DEF NewStage
  <2>3. W = {}
    BY <1>4, <2>1, <2>2
  <2> QED BY <2>3, FS_EmptySet
<1>6. CASE Len(L) # 0
  <2>1. L \in Seq(Nat) /\ ApartOf(L, stage, k)
    BY <1>3 DEF Linked
  <2>2. Range(StageList) = {L[i] : i \in 1..Len(L)}
    BY <1>3, <1>6, <2>1, RangeIs
  <2>3. \A s, r \in W : s = r
    <3>1. SUFFICES ASSUME NEW s \in W, NEW r \in W PROVE s = r
      OBVIOUS
    <3>2. PICK i \in 1..Len(L) : s = L[i]
      BY <2>2
    <3>3. PICK j \in 1..Len(L) : r = L[j]
      BY <2>2
    <3>4. stage[L[i]].units = b /\ stage[L[j]].units = b
      BY <3>2, <3>3
    <3>5. i = j
      BY <1>4, <2>1, <3>4 DEF ApartOf
    <3> QED BY <3>2, <3>3, <3>5
  <2> HIDE DEF W
  <2>4. W = {} \/ \E s : W = {s}
    BY <2>3
  <2>5. Cardinality(W) \in {0, 1}
    BY <2>4, FS_EmptySet, FS_Singleton
  <2> QED BY <2>5 DEF W
<1> QED BY <1>5, <1>6

(* The list stays if nothing of it changes, nor what is read of the text.  *)
LEMMA ListStays ==
  ASSUME ListThere, UNCHANGED <<text, k, list, cut>>
  PROVE  ListThere'
<1>1. PICK L, B : ListHolds(L, B)
  BY DEF ListThere
<1>2. ListHolds(L, B)'
  BY <1>1 DEF ListHolds, list
<1> QED BY <1>2 DEF ListThere

(* It stays when a line is skipped.                                        *)
LEMMA SkipStep ==
  ASSUME Inv, SkipOther
  PROVE  ListThere'
<1>1. PICK L, B : ListHolds(L, B)
  BY DEF Inv, ListThere
<1>2. /\ text \in Seq(Blockette) /\ k \in 1..Len(text) /\ text[k].kind = "other"
  <2>1. text \in Seq(Blockette) /\ Len(text) \in Nat
    BY TextIs DEF Inv, Beside
  <2>2. k \in 1..(Len(text) + 1) /\ k <= Len(text) /\ text[k].kind = "other"
    BY DEF Inv, Beside, SkipOther, AtBlockette
  <2> QED BY <2>1, <2>2
<1>3. Assembled(L, B, text, k + 1, stage, next_blkt, first_stage, this_stage, last_blkt,
                nstages, Flag(no_units), last_seq_no, Flag(~cut))
  BY <1>1, <1>2, AssembledSkip DEF ListHolds
<1>4. k' = k + 1 /\ UNCHANGED <<text, list, cut>>
  BY DEF SkipOther
<1>5. ListHolds(L, B)'
  BY <1>1, <1>3, <1>4 DEF ListHolds, list
<1> QED BY <1>5 DEF ListThere

(* The invariant after a step that links.                                  *)
LEMMA InvLinked ==
  ASSUME Inv, Relisted, pc = "read_line", UNCHANGED <<text, pc, unit_frees>>,
         ending' \in {"B050", "EOF"}, k' \in 1..(Len(text) + 1), cut' \in BOOLEAN,
         tmp_seq' \in SeqNos, tmp_units' \in Blkts(text) \cup {NullBlkt}
  PROVE  Inv'
<1>1. Freed'
  BY DEF Inv, Freed
<1>2. Beside'
  BY DEF Inv, Beside, Relisted
<1> QED BY <1>1, <1>2 DEF Inv, Relisted

(* What is at the position that is read.                                   *)
LEMMA AtIs ==
  ASSUME Inv, k <= Len(text)
  PROVE  /\ text \in Seq(Blockette) /\ k \in 1..Len(text) /\ k \in Nat
         /\ k + 1 \in 1..(Len(text) + 1)
         /\ Len(text) + 1 \in 1..(Len(text) + 1) /\ k < Len(text) + 1 /\ Len(text) + 1 \in Nat
         /\ <<k, 0, 0>> \in Blkts(text)
         /\ text[k].kind \in Response => text[k].seq \in SeqNos
         /\ text[k].kind = "ref" => text[k].stages \in Seq(RefStage) \ {<<>>}
<1>1. text \in Seq(Blockette) /\ Len(text) \in Nat /\ DOMAIN text = 1..Len(text)
  BY TextIs DEF Inv, Beside
<1>2. k \in 1..(Len(text) + 1)
  BY DEF Inv, Beside
<1>3. k \in 1..Len(text)
  BY <1>1, <1>2
<1>4. text[k] \in Blockette
  BY <1>1, <1>3
<1>5. /\ text[k].kind \in Response => text[k].seq \in SeqNos
      /\ text[k].kind = "ref" => text[k].stages \in Seq(RefStage) \ {<<>>}
  BY <1>4 DEF Blockette, Response
<1>6. <<k, 0, 0>> \in Blkts(text)
  BY <1>1, <1>3, BlktsAre
<1>7. /\ k \in Nat /\ k + 1 \in 1..(Len(text) + 1)
      /\ Len(text) + 1 \in 1..(Len(text) + 1) /\ k < Len(text) + 1 /\ Len(text) + 1 \in Nat
  BY <1>1, <1>3
<1> QED BY <1>1, <1>3, <1>5, <1>6, <1>7

(* A blockette that was read is linked.                                    *)
LEMMA ReadLinked ==
  ASSUME Inv, NEW seq, NEW isFilter, NEW units,
         AtBlockette(Response), Links(seq, isFilter, units),
         LinkBlockette(<<k, 0, 0>>, seq, isFilter, units), UNCHANGED <<pc, unit_frees>>,
         ending' \in {"B050", "EOF"}, k' \in 1..(Len(text) + 1), cut' \in BOOLEAN,
         tmp_seq' \in SeqNos, tmp_units' \in {NullBlkt, <<k, 0, 0>>}
  PROVE  Inv'
<1>1. pc = "read_line" /\ k <= Len(text)
  BY DEF AtBlockette
<1>2. Relisted
  BY LinkStep
<1>3. text' = text
  BY DEF Links
<1>4. <<k, 0, 0>> \in Blkts(text)
  BY <1>1, AtIs
<1>5. tmp_units' \in Blkts(text) \cup {NullBlkt}
  BY <1>4
<1> QED BY <1>1, <1>2, <1>3, <1>5, InvLinked

(* So is a chain.                                                          *)
LEMMA RefLinked ==
  ASSUME Inv, NEW ch, AtBlockette({"ref"}), LinksChain(ch), LinkChain(k, ch),
         UNCHANGED <<pc, unit_frees, tmp_seq>>,
         ending' \in {"B050", "EOF"}, k' \in 1..(Len(text) + 1), cut' \in BOOLEAN,
         tmp_units' = NullBlkt
  PROVE  Inv'
<1>1. pc = "read_line"
  BY DEF AtBlockette
<1>2. Relisted
  BY ChainStep
<1>3. text' = text
  BY DEF LinksChain
<1>4. tmp_seq' \in SeqNos
  BY DEF Inv, Beside
<1> QED BY <1>1, <1>2, <1>3, <1>4, InvLinked

(* Freeing what tmp_stage points to.                                       *)
LEMMA ScratchFreed ==
  ASSUME Inv, pc = "read_line", FreeScratch, UNCHANGED <<text, tmp_units>>
  PROVE  /\ (unit_frees \in [Blkts(text) -> Nat])'
         /\ (tmp_units = NullBlkt => \A b \in Blkts(text) : unit_frees[b] = 0)'
<1>1. unit_frees \in [Blkts(text) -> Nat] /\ text \in Seq(Blockette)
  BY TextIs DEF Inv, Beside
<1>2. NullBlkt \notin Blkts(text)
  BY <1>1, NullIsNone
<1>3. \A b \in Blkts(text) : unit_frees[b] = 0
  BY DEF Inv, Freed
<1>4. unit_frees' = [b \in Blkts(text) |->
                       IF b = tmp_units THEN unit_frees[b] + 1 ELSE unit_frees[b]]
  BY <1>1 DEF FreeScratch
<1>5. unit_frees' \in [Blkts(text) -> Nat]
  BY <1>1, <1>4
<1>6. tmp_units = NullBlkt => \A b \in Blkts(text) : unit_frees'[b] = 0
  BY <1>2, <1>3, <1>4
<1> QED BY <1>5, <1>6

(* Every step keeps the invariant.                                         *)
LEMMA InvNext == Inv /\ [Next]_vars => Inv'
<1> SUFFICES ASSUME Inv, [Next]_vars PROVE Inv'
  OBVIOUS
<1>1. ListThere /\ Beside /\ Freed
  BY DEF Inv
<1>2. text \in Seq(Blockette) /\ Len(text) \in Nat
  BY <1>1, TextIs DEF Beside
<1>3. CASE SkipOther
  <2>1. ListThere'
    BY <1>3, SkipStep
  <2>2. k + 1 \in 1..(Len(text) + 1)
    BY <1>1, <1>2, <1>3 DEF Beside, SkipOther, AtBlockette
  <2>3. Beside'
    BY <1>1, <1>3, <2>2 DEF Beside, SkipOther, list
  <2>4. Freed'
    BY <1>1, <1>3 DEF Freed, SkipOther, AtBlockette
  <2> QED BY <2>1, <2>3, <2>4 DEF Inv
<1>4. CASE ReadFilter
  <2>1. AtBlockette({"filter"}) /\ pc = "read_line" /\ k <= Len(text)
        /\ text[k].kind = "filter" /\ AtBlockette(Response)
    BY <1>4 DEF ReadFilter, AtBlockette, Response
  <2>2. /\ k \in Nat /\ k + 1 \in 1..(Len(text) + 1) /\ text[k].seq \in SeqNos
    BY <2>1, AtIs DEF Response
  <2>3. Links(text[k].seq, TRUE, <<k, 0, 0>>)
    BY <1>2, <1>4, <2>1, <2>2 DEF Links, ReadFilter, Response
  <2>4. LinkBlockette(<<k, 0, 0>>, text[k].seq, TRUE, <<k, 0, 0>>)
    BY <1>4 DEF ReadFilter
  <2>5. /\ ending' = ending /\ k' = k + 1 /\ cut' = cut /\ tmp_seq' = text[k].seq
        /\ tmp_units' = <<k, 0, 0>> /\ UNCHANGED <<pc, unit_frees>>
    BY <1>4 DEF ReadFilter
  <2>6. ending' \in {"B050", "EOF"} /\ cut' \in BOOLEAN
    BY <1>1, <2>5 DEF Beside
  <2> QED BY <2>1, <2>2, <2>3, <2>4, <2>5, <2>6, ReadLinked
<1>5. CASE ReadPlain
  <2>1. AtBlockette({"plain"}) /\ pc = "read_line" /\ k <= Len(text)
        /\ text[k].kind = "plain" /\ AtBlockette(Response)
    BY <1>5 DEF ReadPlain, AtBlockette, Response
  <2>2. /\ k \in Nat /\ k + 1 \in 1..(Len(text) + 1) /\ text[k].seq \in SeqNos
    BY <2>1, AtIs DEF Response
  <2>3. Links(text[k].seq, FALSE, NullBlkt)
    BY <1>2, <1>5, <2>1, <2>2 DEF Links, ReadPlain, Response
  <2>4. LinkBlockette(<<k, 0, 0>>, text[k].seq, FALSE, NullBlkt)
    BY <1>5 DEF ReadPlain
  <2>5. /\ ending' = ending /\ k' = k + 1 /\ cut' = cut /\ tmp_seq' = tmp_seq
        /\ tmp_units' = NullBlkt /\ UNCHANGED <<pc, unit_frees>>
    BY <1>5 DEF ReadPlain
  <2>6. ending' \in {"B050", "EOF"} /\ cut' \in BOOLEAN /\ tmp_seq' \in SeqNos
    BY <1>1, <2>5 DEF Beside
  <2> QED BY <2>1, <2>2, <2>3, <2>4, <2>5, <2>6, ReadLinked
<1>6. CASE ReadRef
  <2>1. AtBlockette({"ref"}) /\ k <= Len(text) /\ text[k].kind = "ref"
    BY <1>6 DEF ReadRef, AtBlockette
  <2>2. /\ k \in 1..Len(text) /\ k \in Nat /\ k + 1 \in 1..(Len(text) + 1)
        /\ text[k].stages \in Seq(RefStage) \ {<<>>}
    BY <2>1, AtIs
  <2>3. PICK ch : ch = text[k].stages
    OBVIOUS
  <2>4. LinkChain(k, ch)
    BY <1>6, <2>3 DEF ReadRef
  <2>5. /\ ending' = ending /\ k' = k + 1 /\ cut' = cut /\ tmp_units' = NullBlkt
        /\ text' = text /\ UNCHANGED <<pc, unit_frees, tmp_seq>>
    BY <1>6 DEF ReadRef
  <2>6. ChainOf(text, k, ch)
    BY <1>2, <2>1, <2>2, <2>3 DEF ChainOf
  <2>7. LinksChain(ch)
    BY <2>2, <2>3, <2>5, <2>6 DEF LinksChain
  <2>8. ending' \in {"B050", "EOF"} /\ cut' \in BOOLEAN
    BY <1>1, <2>5 DEF Beside
  <2> QED BY <2>1, <2>2, <2>4, <2>5, <2>7, <2>8, RefLinked
<1>7. CASE \E got \in {"type", "seq", "units"} : CutAt(got)
  <2>1. PICK got \in {"type", "seq", "units"} : CutAt(got)
    BY <1>7
  <2> DEFINE isFilter == text[k].kind = "filter"
             seq == IF isFilter /\ got = "type" THEN tmp_seq ELSE text[k].seq
             units == IF isFilter /\ got = "units" THEN <<k, 0, 0>> ELSE NullBlkt
  <2>2. AtBlockette(Response) /\ k <= Len(text) /\ text[k].kind \in Response
    BY <2>1 DEF CutAt, AtBlockette
  <2>3. /\ k \in Nat /\ k < Len(text) + 1 /\ Len(text) + 1 \in Nat
        /\ Len(text) + 1 \in 1..(Len(text) + 1) /\ text[k].seq \in SeqNos
    BY <2>2, AtIs
  <2>4. /\ tmp_seq' = (IF isFilter THEN seq ELSE tmp_seq) /\ tmp_units' = units
        /\ LinkBlockette(<<k, 0, 0>>, seq, isFilter, units)
        /\ k' = Len(text) + 1 /\ ending' = "EOF" /\ cut' = TRUE
        /\ text' = text /\ UNCHANGED <<pc, unit_frees>>
    BY <2>1 DEF CutAt
  <2>5. isFilter \in BOOLEAN /\ units \in {NullBlkt, <<k, 0, 0>>}
    OBVIOUS
  <2>6. tmp_seq \in SeqNos
    BY <1>1 DEF Beside
  <2>7. seq \in SeqNos
    BY <2>3, <2>6
  <2> HIDE DEF isFilter, seq, units
  <2>8. Links(seq, isFilter, units)
    BY <2>2, <2>3, <2>4, <2>5, <2>7 DEF Links
  <2>9. tmp_seq' \in SeqNos
    BY <2>4, <2>6, <2>7
  <2>10. ending' \in {"B050", "EOF"} /\ cut' \in BOOLEAN /\ k' \in 1..(Len(text) + 1)
         /\ tmp_units' \in {NullBlkt, <<k, 0, 0>>}
    BY <2>3, <2>4, <2>5
  <2> QED BY <2>2, <2>4, <2>8, <2>9, <2>10, ReadLinked
<1>8. CASE AtBlockette({"ref"}) /\ \E m \in DOMAIN text[k].stages : CutRef(m)
  <2>1. k <= Len(text) /\ text[k].kind = "ref"
        /\ \E m \in DOMAIN text[k].stages : CutRef(m)
    BY <1>8 DEF AtBlockette
  <2>2. /\ k \in 1..Len(text) /\ k \in Nat /\ k < Len(text) + 1 /\ Len(text) + 1 \in Nat
        /\ Len(text) + 1 \in 1..(Len(text) + 1)
        /\ text[k].stages \in Seq(RefStage) \ {<<>>}
    BY <2>1, AtIs
  <2>3. PICK stages : stages = text[k].stages
    OBVIOUS
  <2>4. PICK m \in DOMAIN stages : CutRef(m)
    BY <2>1, <2>3
  <2>5. stages \in Seq(RefStage) /\ m \in 1..Len(stages)
    BY <2>2, <2>3, <2>4
  <2>6. PICK ch : ch = SubSeq(stages, 1, m)
    OBVIOUS
  <2>7. ch \in Seq(RefStage) /\ Len(ch) = m /\ \A i \in 1..m : ch[i] = stages[i]
    BY <2>5, <2>6
  <2>8. ChainOf(text, k, ch)
    BY <1>2, <2>1, <2>2, <2>3, <2>5, <2>7 DEF ChainOf
  <2>9. /\ LinkChain(k, ch) /\ k' = Len(text) + 1 /\ ending' = "EOF" /\ cut' = TRUE
        /\ tmp_units' = NullBlkt /\ text' = text /\ UNCHANGED <<pc, unit_frees, tmp_seq>>
        /\ AtBlockette({"ref"})
    BY <2>3, <2>4, <2>6 DEF CutRef
  <2>10. LinksChain(ch)
    BY <2>2, <2>8, <2>9 DEF LinksChain
  <2>11. ending' \in {"B050", "EOF"} /\ cut' \in BOOLEAN /\ k' \in 1..(Len(text) + 1)
    BY <2>2, <2>9
  <2> QED BY <2>9, <2>10, <2>11, RefLinked
<1>9. CASE ReadBad
  <2>1. ListThere'
    BY <1>1, <1>9, ListStays DEF ReadBad
  <2>2. /\ text \in Seq(Blockette) /\ k \in 1..(Len(text) + 1) /\ k <= Len(text)
        /\ tmp_units' \in {NullBlkt, <<k, 0, 0>>} /\ text' = text
    BY <1>9, TextIs DEF ReadBad, AtBlockette, Inv, Beside
  <2>3. k \in 1..Len(text)
    BY <2>2
  <2>4. <<k, 0, 0>> \in Blkts(text)
    BY <2>2, <2>3, BlktsAre
  <2>5. (tmp_units \in Blkts(text) \cup {NullBlkt})'
    BY <2>2, <2>4
  <2>6. Beside'
    BY <1>1, <1>9, <2>5 DEF Beside, ReadBad, list
  <2>7. Freed'
    BY <1>1, <1>9 DEF Freed, ReadBad, AtBlockette
  <2> QED BY <2>1, <2>6, <2>7 DEF Inv
<1>10. CASE BadLine \/ LeaveLoop
  <2>1. /\ pc = "read_line" /\ FreeScratch /\ pc' \in {"channel", "failed"}
        /\ UNCHANGED <<text, ending, k, list, tmp_seq, tmp_units, cut>>
    BY <1>10 DEF BadLine, LeaveLoop
  <2>2. /\ (unit_frees \in [Blkts(text) -> Nat])'
        /\ (tmp_units = NullBlkt => \A b \in Blkts(text) : unit_frees[b] = 0)'
    BY <2>1, ScratchFreed
  <2>3. ListThere'
    BY <1>1, <2>1, ListStays
  <2>4. Beside'
    BY <1>1, <2>1, <2>2 DEF Beside, list
  <2>5. Freed'
    BY <2>1, <2>2 DEF Freed
  <2> QED BY <2>3, <2>4, <2>5 DEF Inv
<1>11. CASE FreeChannel
  <2> DEFINE own(b) == Cardinality({s \in Range(StageList) : stage[s].units = b})
  <2>1. /\ pc \in {"channel", "failed"} /\ pc' = "freed"
        /\ unit_frees' = [b \in DOMAIN unit_frees |-> unit_frees[b] + own(b)]
        /\ UNCHANGED <<text, ending, k, list, tmp_seq, tmp_units, cut>>
    BY <1>11 DEF FreeChannel
  <2>2. \A b \in Blkts(text) : own(b) \in {0, 1}
    BY OwnedOnce
  <2> HIDE DEF own
  <2>3. unit_frees \in [Blkts(text) -> Nat]
    BY <1>1 DEF Beside
  <2>4. \A b \in Blkts(text) : unit_frees'[b] = unit_frees[b] + own(b)
    BY <2>1, <2>3
  <2>5. unit_frees' \in [Blkts(text) -> Nat]
    BY <2>1, <2>2, <2>3
  <2>6. tmp_units = NullBlkt => \A b \in Blkts(text) : unit_frees[b] = 0
    BY <1>1, <2>1 DEF Freed
  <2>7. tmp_units = NullBlkt => \A b \in Blkts(text) : unit_frees'[b] <= 1
    BY <2>2, <2>4, <2>6
  <2>8. ListThere'
    BY <1>1, <2>1, ListStays
  <2>9. Beside'
    BY <1>1, <2>1, <2>5 DEF Beside, list
  <2>10. Freed'
    BY <2>1, <2>7 DEF Freed
  <2> QED BY <2>8, <2>9, <2>10 DEF Inv
<1>12. CASE UNCHANGED vars
  <2>1. ListThere'
    BY <1>1, <1>12, ListStays DEF vars, list
  <2>2. Beside'
    BY <1>1, <1>12 DEF Beside, vars
  <2>3. Freed'
    BY <1>1, <1>12 DEF Freed, vars
  <2> QED BY <2>1, <2>2, <2>3 DEF Inv
<1> QED BY <1>3, <1>4, <1>5, <1>6, <1>7, <1>8, <1>9, <1>10, <1>11, <1>12 DEF Next

(* There is a list that the pointers follow, and unit strings are freed at *)
(* the end only: the inductive invariant of read_channel_data.             *)
THEOREM AssemblyInvariance == Spec => []Inv
<1>1. Init => Inv
  BY InvInit
<1>2. Inv /\ [Next]_vars => Inv'
  BY InvNext
<1> QED BY <1>1, <1>2, PTL DEF Spec

(* Type correctness: every pointer stays inside the heap, whatever mix of  *)
(* blockettes is read and wherever the text ends.                          *)
THEOREM AssemblyTypes == Spec => []TypeOK
BY AssemblyInvariance, InvTypes, PTL

-----------------------------------------------------------------------------
(* The blockettes of the i-th stage of the list, as the pointers give them. *)
LEMMA StageBlkts ==
  ASSUME Beside, NEW L, NEW B, ListHolds(L, B), Len(L) # 0, NEW i \in 1..Len(L)
  PROVE  BlktsFrom(stage[L[i]].first) = B[i]
<1>1. text \in Seq(Blockette)
  BY TextIs DEF Beside
<1>2. Linked(L, B, text, k, stage, next_blkt)
      /\ next_blkt \in [Blkts(text) -> Blkts(text) \cup {NullBlkt}]
  BY StageListIs
<1>3. /\ stage[L[i]].first = B[i][1] /\ B[i][1] # NullBlkt
      /\ Path(B[i][1], NullBlkt, next_blkt, Cardinality(DOMAIN next_blkt)) = B[i]
  BY <1>1, <1>2, BlktsWalked
<1> QED BY <1>3 DEF BlktsFrom

(* The list spells the text, and its length is counted.                    *)
LEMMA InvListKept == Inv => ListKept
<1> SUFFICES ASSUME Inv PROVE ListKept
  OBVIOUS
<1>1. PICK L, B : ListHolds(L, B)
  BY DEF Inv, ListThere
<1>2. Beside
  BY DEF Inv
<1>3. /\ StageList = IF Len(L) = 0 THEN <<1>> ELSE L
      /\ Len(L) = 0 => nstages = 1
      /\ Len(L) # 0 => nstages = Len(L)
      /\ Linked(L, B, text, k, stage, next_blkt)
  BY <1>1, <1>2, StageListIs
<1>4. CountIsLength
  <2>1. CASE Len(L) = 0
    <3>1. StageList = <<1>> /\ nstages = 1
      BY <1>3, <2>1
    <3>2. Len(StageList) = 1
      BY <3>1
    <3> QED BY <3>1, <3>2 DEF CountIsLength
  <2>2. CASE Len(L) # 0
    BY <1>3, <2>2 DEF CountIsLength
  <2> QED BY <2>1, <2>2
<1>5. ListIsFaithful
  <2>1. SUFFICES ASSUME read_blkt, ~cut
                 PROVE  [s \in DOMAIN StageList |->
                           [seq |-> stage[StageList[s]].seq,
                            blkts |-> BlktsFrom(stage[StageList[s]].first)]]
                          = Groups(text, k - 1)
    BY DEF ListIsFaithful
  <2>2. Len(L) # 0 /\ StageList = L /\ DOMAIN L = 1..Len(L)
    <3>1. Len(L) # 0
      BY <1>1, <2>1 DEF ListHolds
    <3>2. L \in Seq(Nat)
      BY <1>3 DEF Linked
    <3> QED BY <1>3, <3>1, <3>2
  <2>3. RunsOf(L, B, stage) = Groups(text, k - 1)
    <3>1. Flag(~cut) = 1
      BY <2>1 DEF Flag
    <3>2. Spells(L, B, text, k, stage)
      BY <1>1, <3>1 DEF ListHolds, Assembled
    <3> QED BY <3>2 DEF Spells
  <2>4. \A s \in 1..Len(L) : BlktsFrom(stage[L[s]].first) = B[s]
    BY <1>1, <1>2, <2>2, StageBlkts
  <2>5. [s \in DOMAIN L |->
           [seq |-> stage[L[s]].seq, blkts |-> BlktsFrom(stage[L[s]].first)]]
          = RunsOf(L, B, stage)
    BY <2>2, <2>4 DEF RunsOf
  <2> QED BY <2>2, <2>3, <2>5
<1> QED BY <1>4, <1>5 DEF ListKept

(* A stage with filters has the unit strings of one of them.               *)
LEMMA InvUnitsFrom == Inv => UnitsFromOwnFilter
<1> SUFFICES ASSUME Inv PROVE UnitsFromOwnFilter
  OBVIOUS
<1>1. PICK L, B : ListHolds(L, B)
  BY DEF Inv, ListThere
<1>2. Beside
  BY DEF Inv
<1>3. /\ StageList = IF Len(L) = 0 THEN <<1>> ELSE L
      /\ Len(L) = 0 => stage = <<NewStage(0, NullBlkt, NullBlkt)>>
      /\ Linked(L, B, text, k, stage, next_blkt)
  BY <1>1, <1>2, StageListIs
<1>4. SUFFICES ASSUME ~cut, NEW s \in Range(StageList)
               PROVE  UnitsOwn(text, BlktsFrom(stage[s].first), stage[s].units)
  BY DEF UnitsFromOwnFilter, UnitsOwn, Own
<1>5. CASE Len(L) = 0
  <2>1. s = 1
    BY <1>3, <1>5 DEF Range
  <2>2. stage[s].first = NullBlkt /\ stage[s].units = NullBlkt
    BY <1>3, <1>5, <2>1 DEF NewStage
  <2>3. BlktsFrom(stage[s].first) = <<>>
    BY <2>2 DEF BlktsFrom
  <2>4. Own(text, <<>>) = {}
    BY DEF Own, Range
  <2> QED BY <2>2, <2>3, <2>4 DEF UnitsOwn
<1>6. CASE Len(L) # 0
  <2>1. L \in Seq(Nat)
    BY <1>3 DEF Linked
  <2>2. PICK i \in 1..Len(L) : s = L[i]
    BY <1>3, <1>6, <2>1, RangeIs
  <2>3. BlktsFrom(stage[L[i]].first) = B[i]
    BY <1>1, <1>2, <1>6, StageBlkts
  <2>4. OwnUnits(text, L, B, stage)
    <3>1. Flag(~cut) = 1
      BY <1>4 DEF Flag
    <3>2. Spells(L, B, text, k, stage)
      BY <1>1, <3>1 DEF ListHolds, Assembled
    <3> QED BY <3>2 DEF Spells
  <2> QED BY <2>2, <2>3, <2>4 DEF OwnUnits
<1> QED BY <1>5, <1>6

(* Unit strings are freed once, and not while the channel is in use.       *)
LEMMA InvUnitsOnce == Inv => UnitsOwnedOnceUnlessFilterLast
<1> SUFFICES ASSUME Inv, tmp_units = NullBlkt PROVE UnitsOwnedOnce
  BY DEF UnitsOwnedOnceUnlessFilterLast
<1>1. PICK L, B : ListHolds(L, B)
  BY DEF Inv, ListThere
<1>2. Beside /\ Freed
  BY DEF Inv
<1>3. /\ StageList = IF Len(L) = 0 THEN <<1>> ELSE L
      /\ Len(L) = 0 => stage = <<NewStage(0, NullBlkt, NullBlkt)>>
      /\ Linked(L, B, text, k, stage, next_blkt) /\ HeapOf(text, stage)
  BY <1>1, <1>2, StageListIs
<1>4. \A b \in DOMAIN unit_frees : unit_frees[b] <= 1
  BY <1>2 DEF Freed, Beside
<1>5. ASSUME pc = "channel", NEW s \in Range(StageList), stage[s].units # NullBlkt
      PROVE  unit_frees[stage[s].units] = 0
  <2>1. Len(L) # 0
    <3>1. SUFFICES ASSUME Len(L) = 0 PROVE FALSE
      OBVIOUS
    <3>2. s = 1
      BY <1>3, <1>5, <3>1 DEF Range
    <3> QED BY <1>3, <1>5, <3>1, <3>2 DEF NewStage
  <2>2. L \in Seq(Nat) /\ \A i \in 1..Len(L) : L[i] \in 1..Len(stage)
    BY <1>3 DEF Linked, ListOf
  <2>3. PICK i \in 1..Len(L) : s = L[i]
    BY <1>3, <1>5, <2>1, <2>2, RangeIs
  <2>4. stage[s] \in Stages(text, Len(stage))
    BY <1>3, <2>2, <2>3 DEF HeapOf
  <2>5. stage[s].units \in Blkts(text)
    BY <1>5, <2>4 DEF Stages
  <2> QED BY <1>2, <1>5, <2>5 DEF Freed
<1> QED BY <1>4, <1>5 DEF UnitsOwnedOnce

(* ListKept, in every state of every behaviour: whatever mix of blockettes *)
(* a channel has, the pointers read_channel_data leaves spell the stages   *)
(* of the text, and nstages counts them.                                   *)
THEOREM ListKeptHolds == Spec => []ListKept
BY AssemblyInvariance, InvListKept, PTL

(* UnitsOwned likewise: a stage with a filter has the unit strings of one  *)
(* of its own, and none is freed twice or too early, unless the last line  *)
(* read was a filter's.                                                    *)
THEOREM UnitsOwnedHolds == Spec => []UnitsOwned
<1>1. Inv => UnitsOwned
  BY InvUnitsFrom, InvUnitsOnce DEF UnitsOwned
<1> QED BY <1>1, AssemblyInvariance, PTL
=============================================================================
