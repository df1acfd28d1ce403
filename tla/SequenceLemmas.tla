---------------------------- MODULE SequenceLemmas ----------------------------
(***************************************************************************)
(* What the proofs need to know of sequences: induction over numbers, what *)
(* FlattenSeq does with a sequence of sequences, and sequences of those    *)
(* elements whose numbers are in a set, in the order of the numbers.       *)
(***************************************************************************)
EXTENDS Integers, SequencesExt, SequenceTheorems, FiniteSetTheorems, TLAPS

(* A set of natural numbers that is not empty has a least element.         *)
LEMMA LeastNumber ==
  ASSUME NEW T, T \subseteq Nat, T # {}
  PROVE  \E x \in T : \A y \in T : x <= y
<1> DEFINE Up == {I \in SUBSET Nat : \E n \in T : I = 0..n}
<1>1. Up # {}
  <2>1. PICK n \in T : TRUE
    OBVIOUS
  <2>2. 0..n \in Up
    BY <2>1
  <2> QED BY <2>2
<1>2. Up \subseteq FiniteSubsetsOf(Nat)
  BY FS_Interval DEF FiniteSubsetsOf
<1>3. IsWellFoundedOn(StrictSubsetOrdering(Nat), FiniteSubsetsOf(Nat))
  BY FS_StrictSubsetOrderingWellFounded
<1>4. PICK I \in Up : \A J \in Up : ~ (<<J, I>> \in StrictSubsetOrdering(Nat))
  <2> HIDE DEF Up
  <2> QED BY <1>1, <1>2, <1>3, WFMin
<1>5. PICK n \in T : I = 0..n
  OBVIOUS
<1>6. SUFFICES ASSUME NEW y \in T, y < n PROVE FALSE
  OBVIOUS
<1>7. 0..y \in Up /\ 0..y \subseteq 0..n /\ n \in 0..n /\ n \notin 0..y
  BY <1>6
<1>8. <<0..y, I>> \in StrictSubsetOrdering(Nat)
  BY <1>5, <1>7 DEF StrictSubsetOrdering
<1> QED BY <1>4, <1>7, <1>8

(* Induction, with the set of the numbers that have the property in place  *)
(* of the property.                                                        *)
LEMMA Induction ==
  ASSUME NEW T, 0 \in T, \A n \in Nat : n \in T => n + 1 \in T
  PROVE  Nat \subseteq T
<1> SUFFICES ASSUME Nat \ T # {} PROVE FALSE
  OBVIOUS
<1>1. PICK n \in Nat \ T : \A m \in Nat \ T : n <= m
  BY LeastNumber
<1>2. n - 1 \in Nat /\ n - 1 \in T
  BY <1>1
<1> QED BY <1>1, <1>2


(* The function FlattenSeq is defined with.                                  *)
Flattening(ss, f) ==
  f = [i \in 1..Len(ss) |-> IF i = 1 THEN ss[i] ELSE f[i - 1] \o ss[i]]

(* The function FlattenSeq picks, entry by entry: what is flattened so     *)
(* far.                                                                    *)
LEMMA FlatteningIs ==
  ASSUME NEW ss, NEW f, Flattening(ss, f)
  PROVE  /\ 1 \in 1..Len(ss) => f[1] = ss[1]
         /\ \A i \in 1..Len(ss) : i # 1 => f[i] = f[i - 1] \o ss[i]
BY DEF Flattening

(* What is flattened so far is a sequence of the same elements.            *)
LEMMA FlatteningInSeq ==
  ASSUME NEW S, NEW ss \in Seq(Seq(S)), NEW f, Flattening(ss, f)
  PROVE  \A i \in 1..Len(ss) : f[i] \in Seq(S)
<1>1. 1 \in 1..Len(ss) => f[1] = ss[1]
  BY FlatteningIs
<1>2. \A i \in 1..Len(ss) : i # 1 => f[i] = f[i - 1] \o ss[i]
  BY FlatteningIs
<1>3. \A i \in 1..Len(ss) : f[i] \in Seq(S)
  <2> DEFINE T == {n \in Nat : n \in 1..Len(ss) => f[n] \in Seq(S)}
  <2>1. 0 \in T
    OBVIOUS
  <2>2. ASSUME NEW n \in Nat, n \in T PROVE n + 1 \in T
    <3>1. SUFFICES ASSUME n + 1 \in 1..Len(ss) PROVE f[n + 1] \in Seq(S)
      OBVIOUS
    <3>2. CASE n = 0
      BY <1>1, <3>1, <3>2
    <3>3. CASE n # 0
      <4>1. n + 1 # 1 /\ n \in 1..Len(ss) /\ (n + 1) - 1 = n
        BY <3>1, <3>3
      <4>2. f[n + 1] = f[n] \o ss[n + 1]
        BY <3>1, <4>1, <1>2
      <4>3. f[n] \in Seq(S) /\ ss[n + 1] \in Seq(S)
        BY <2>2, <3>1, <4>1
      <4> QED BY <4>2, <4>3
    <3> QED BY <3>2, <3>3
  <2>3. Nat \subseteq T
    <3> HIDE DEF T
    <3> QED BY <2>1, <2>2, Induction
  <2> QED BY <2>3
<1> QED BY <1>3

(* It exists ...                                                             *)
LEMMA FlatteningExists ==
  ASSUME NEW S, NEW ss \in Seq(Seq(S))
  PROVE  \E f : Flattening(ss, f)
<1> DEFINE Upto(n, f) == f = [i \in 1..n |-> IF i = 1 THEN ss[i] ELSE f[i - 1] \o ss[i]]
           T == {n \in Nat : \E f : Upto(n, f)}
<1>1. 0 \in T
  <2>1. Upto(0, <<>>)
    OBVIOUS
  <2> QED BY <2>1
<1>2. ASSUME NEW n \in Nat, n \in T PROVE n + 1 \in T
  <2>1. PICK f : Upto(n, f)
    BY <1>2
  <2> DEFINE e == IF n = 0 THEN ss[1] ELSE f[n] \o ss[n + 1]
             g == [i \in 1..(n + 1) |-> IF i = n + 1 THEN e ELSE f[i]]
  <2>2. \A i \in 1..(n + 1) : g[i] = IF i = 1 THEN ss[i] ELSE g[i - 1] \o ss[i]
    <3>1. SUFFICES ASSUME NEW i \in 1..(n + 1)
                   PROVE  g[i] = IF i = 1 THEN ss[i] ELSE g[i - 1] \o ss[i]
      OBVIOUS
    <3>2. CASE i = n + 1
      <4>1. n # 0 => n \in 1..(n + 1) /\ g[n] = f[n] /\ i - 1 = n
        BY <3>2
      <4> QED BY <3>2, <4>1
    <3>3. CASE i # n + 1
      <4>1. i \in 1..n /\ g[i] = f[i]
        BY <3>3
      <4>2. f[i] = IF i = 1 THEN ss[i] ELSE f[i - 1] \o ss[i]
        BY <2>1, <4>1
      <4>3. i # 1 => i - 1 \in 1..(n + 1) /\ i - 1 # n + 1 /\ g[i - 1] = f[i - 1]
        BY <4>1
      <4> QED BY <4>1, <4>2, <4>3
    <3> QED BY <3>2, <3>3
  <2>3. Upto(n + 1, g)
    <3> DEFINE h == [i \in 1..(n + 1) |-> IF i = 1 THEN ss[i] ELSE g[i - 1] \o ss[i]]
    <3>1. \A i \in 1..(n + 1) : g[i] = h[i]
      BY <2>2
    <3>2. g = [i \in 1..(n + 1) |-> g[i]] /\ h = [i \in 1..(n + 1) |-> h[i]]
      OBVIOUS
    <3>3. g = h
      <4> HIDE DEF g, h
      <4> QED BY <3>1, <3>2
    <3> QED BY <3>3
  <2>4. \E h : Upto(n + 1, h)
    <3> HIDE DEF g, Upto
    <3> QED BY <2>3
  <2>5. n + 1 \in Nat
    OBVIOUS
  <2> HIDE DEF Upto
  <2> QED BY <2>4, <2>5
<1>3. Nat \subseteq T
  <2> HIDE DEF T
  <2> QED BY <1>1, <1>2, Induction
<1>4. Len(ss) \in Nat
  OBVIOUS
<1> QED BY <1>3, <1>4 DEF Flattening

(* ... and is determined, as far as two sequences agree.                     *)
LEMMA FlatteningUnique ==
  ASSUME NEW ss, NEW tt, Len(ss) \in Nat, Len(tt) \in Nat, Len(ss) <= Len(tt),
         \A i \in 1..Len(ss) : ss[i] = tt[i],
         NEW f, Flattening(ss, f), NEW g, Flattening(tt, g)
  PROVE  \A i \in 1..Len(ss) : f[i] = g[i]
<1> DEFINE T == {n \in Nat : n \in 1..Len(ss) => f[n] = g[n]}
<1>0. 1..Len(ss) \subseteq 1..Len(tt)
  OBVIOUS
<1>1. 0 \in T
  OBVIOUS
<1>2. ASSUME NEW n \in Nat, n \in T PROVE n + 1 \in T
  <2>1. SUFFICES ASSUME n + 1 \in 1..Len(ss) PROVE f[n + 1] = g[n + 1]
    OBVIOUS
  <2>2. n + 1 \in 1..Len(tt)
    BY <1>0, <2>1
  <2>3. /\ n + 1 = 1 => f[n + 1] = ss[n + 1]
        /\ n + 1 # 1 => f[n + 1] = f[(n + 1) - 1] \o ss[n + 1]
    BY <2>1, FlatteningIs
  <2>4. /\ n + 1 = 1 => g[n + 1] = tt[n + 1]
        /\ n + 1 # 1 => g[n + 1] = g[(n + 1) - 1] \o tt[n + 1]
    BY <2>2, FlatteningIs
  <2>5. (n + 1) - 1 = n /\ (n + 1 # 1 => n \in 1..Len(ss))
    BY <2>1
  <2>6. n + 1 # 1 => f[n] = g[n]
    BY <1>2, <2>5
  <2>7. ss[n + 1] = tt[n + 1]
    BY <2>1
  <2> QED BY <2>3, <2>4, <2>5, <2>6, <2>7
<1>3. Nat \subseteq T
  <2> HIDE DEF T
  <2> QED BY <1>1, <1>2, Induction
<1> QED BY <1>3

(* FlattenSeq is the last entry of such a function.                        *)
LEMMA FlattenIs ==
  ASSUME NEW S, NEW ss \in Seq(Seq(S)), Len(ss) # 0
  PROVE  \E f : Flattening(ss, f) /\ FlattenSeq(ss) = f[Len(ss)]
<1>1. PICK g : Flattening(ss, g)
  BY FlatteningExists
<1> QED BY <1>1 DEF FlattenSeq, Flattening

(* Flattening sequences over S gives a sequence over S.                    *)
LEMMA FlattenInSeq ==
  ASSUME NEW S, NEW ss \in Seq(Seq(S))
  PROVE  FlattenSeq(ss) \in Seq(S)
<1>1. CASE Len(ss) = 0
  <2>1. ss = <<>>
    BY <1>1
  <2> QED BY <2>1 DEF FlattenSeq
<1>2. CASE Len(ss) # 0
  <2>1. PICK f : Flattening(ss, f) /\ FlattenSeq(ss) = f[Len(ss)]
    BY <1>2, FlattenIs
  <2>2. \A i \in 1..Len(ss) : f[i] \in Seq(S)
    BY <2>1, FlatteningInSeq
  <2>3. Len(ss) \in 1..Len(ss)
    BY <1>2
  <2> QED BY <2>1, <2>2, <2>3
<1> QED BY <1>1, <1>2

(* Nothing is flattened to nothing.                                        *)
LEMMA FlattenEmpty == FlattenSeq(<<>>) = <<>>
BY DEF FlattenSeq

(* One sequence more is flattened by appending it to what the others       *)
(* give.                                                                   *)
LEMMA FlattenAppend ==
  ASSUME NEW S, NEW ss \in Seq(Seq(S)), NEW s \in Seq(S)
  PROVE  FlattenSeq(Append(ss, s)) = FlattenSeq(ss) \o s
<1> DEFINE tt == Append(ss, s)
           n == Len(ss)
<1>1. /\ tt \in Seq(Seq(S)) /\ Len(tt) = n + 1 /\ tt[n + 1] = s /\ n \in Nat
      /\ \A i \in 1..n : tt[i] = ss[i]
  OBVIOUS
<1> HIDE DEF tt
<1>2. PICK g : Flattening(tt, g) /\ FlattenSeq(tt) = g[n + 1]
  <2>1. Len(tt) # 0
    BY <1>1
  <2> QED BY <1>1, <2>1, FlattenIs
<1>3. /\ n + 1 = 1 => g[n + 1] = tt[n + 1]
      /\ n + 1 # 1 => g[n + 1] = g[(n + 1) - 1] \o tt[n + 1]
  <2>1. n + 1 \in 1..Len(tt)
    BY <1>1
  <2> QED BY <1>2, <2>1, FlatteningIs
<1>4. CASE n = 0
  <2>1. ss = <<>>
    BY <1>4
  <2>2. FlattenSeq(ss) = <<>>
    BY <2>1, FlattenEmpty
  <2>3. g[n + 1] = s
    BY <1>1, <1>3, <1>4
  <2> QED BY <1>2, <2>2, <2>3 DEF tt
<1>5. CASE n # 0
  <2>1. PICK f : Flattening(ss, f) /\ FlattenSeq(ss) = f[n]
    BY <1>5, FlattenIs
  <2>2. \A i \in 1..n : f[i] = g[i]
    <3>1. /\ Len(ss) \in Nat /\ Len(tt) \in Nat /\ Len(ss) <= Len(tt)
          /\ \A i \in 1..Len(ss) : ss[i] = tt[i]
      BY <1>1
    <3>2. Flattening(ss, f) /\ Flattening(tt, g)
      BY <1>2, <2>1
    <3>3. \A i \in 1..Len(ss) : f[i] = g[i]
      BY <3>1, <3>2, FlatteningUnique
    <3> QED BY <3>3
  <2>3. n \in 1..n /\ n + 1 # 1 /\ (n + 1) - 1 = n
    BY <1>1, <1>5
  <2> QED BY <1>1, <1>2, <1>3, <2>1, <2>2, <2>3 DEF tt
<1> QED BY <1>4, <1>5

(* Where the elements of a concatenation come from.                          *)
LEMMA ConcatParts ==
  ASSUME NEW S, NEW a \in Seq(S), NEW b \in Seq(S)
  PROVE  /\ a \o b \in Seq(S)
         /\ Len(a \o b) = Len(a) + Len(b) /\ Len(a) \in Nat /\ Len(b) \in Nat
         /\ \A i \in 1..Len(a) : i \in 1..Len(a \o b) /\ (a \o b)[i] = a[i]
         /\ \A i \in 1..Len(b) :
              Len(a) + i \in 1..Len(a \o b) /\ (a \o b)[Len(a) + i] = b[i]
         /\ \A i \in 1..Len(a \o b) :
              \/ i <= Len(a) /\ i \in 1..Len(a) /\ (a \o b)[i] = a[i]
              \/ i > Len(a) /\ i - Len(a) \in 1..Len(b) /\ (a \o b)[i] = b[i - Len(a)]
<1>1. /\ a \o b \in Seq(S) /\ Len(a) \in Nat /\ Len(b) \in Nat
      /\ Len(a \o b) = Len(a) + Len(b)
      /\ \A i \in 1..(Len(a) + Len(b)) :
           (a \o b)[i] = IF i <= Len(a) THEN a[i] ELSE b[i - Len(a)]
  BY ConcatProperties
<1>2. \A i \in 1..Len(a) : i \in 1..Len(a \o b) /\ (a \o b)[i] = a[i]
  BY <1>1
<1>3. ASSUME NEW i \in 1..Len(b)
      PROVE  Len(a) + i \in 1..Len(a \o b) /\ (a \o b)[Len(a) + i] = b[i]
  <2>1. Len(a) + i \in 1..(Len(a) + Len(b)) /\ ~ (Len(a) + i <= Len(a)) /\ (Len(a) + i) - Len(a) = i
    BY <1>1
  <2> QED BY <1>1, <2>1
<1>4. ASSUME NEW i \in 1..Len(a \o b)
      PROVE  \/ i <= Len(a) /\ i \in 1..Len(a) /\ (a \o b)[i] = a[i]
             \/ i > Len(a) /\ i - Len(a) \in 1..Len(b) /\ (a \o b)[i] = b[i - Len(a)]
  <2>1. i \in 1..(Len(a) + Len(b)) /\ (i > Len(a) => i - Len(a) \in 1..Len(b))
          /\ (i <= Len(a) => i \in 1..Len(a)) /\ (i <= Len(a) \/ i > Len(a))
    BY <1>1
  <2>2. (a \o b)[i] = IF i <= Len(a) THEN a[i] ELSE b[i - Len(a)]
    BY <1>1, <2>1
  <2>3. i > Len(a) => ~ (i <= Len(a))
    BY <1>1
  <2> QED BY <2>1, <2>2, <2>3
<1> QED BY <1>1, <1>2, <1>3, <1>4

(* The members of a flattened sequence are those of its parts.               *)
LEMMA FlattenMembers ==
  ASSUME NEW S, NEW ss \in Seq(Seq(S)), NEW e
  PROVE  Contains(FlattenSeq(ss), e) <=> \E q \in 1..Len(ss) : Contains(ss[q], e)
<1>1. CASE Len(ss) = 0
  <2>1. ss = <<>>
    BY <1>1
  <2> QED BY <2>1, FlattenEmpty DEF Contains
<1>2. CASE Len(ss) # 0
  <2>1. PICK f : Flattening(ss, f) /\ FlattenSeq(ss) = f[Len(ss)]
    BY <1>2, FlattenIs
  <2> DEFINE In(t) == \E i \in 1..Len(t) : t[i] = e
             T == {n \in Nat : n \in 1..Len(ss) =>
                                 (In(f[n]) <=> \E q \in 1..n : In(ss[q]))}
  <2>2. 0 \in T
    OBVIOUS
  <2>3. ASSUME NEW n \in Nat, n \in T PROVE n + 1 \in T
    <3>1. SUFFICES ASSUME n + 1 \in 1..Len(ss)
                   PROVE  In(f[n + 1]) <=> \E q \in 1..(n + 1) : In(ss[q])
      OBVIOUS
    <3>2. /\ n + 1 = 1 => f[n + 1] = ss[n + 1]
          /\ n + 1 # 1 => f[n + 1] = f[(n + 1) - 1] \o ss[n + 1]
      BY <2>1, <3>1, FlatteningIs
    <3>3. CASE n = 0
      BY <3>2, <3>3
    <3>4. CASE n # 0
      <4>0. n \in 1..Len(ss) /\ (n + 1) - 1 = n /\ n + 1 # 1
        BY <3>1, <3>4
      <4>1. n \in 1..Len(ss) /\ f[n + 1] = f[n] \o ss[n + 1]
        BY <3>2, <4>0
      <4>2. f[n] \in Seq(S) /\ ss[n + 1] \in Seq(S)
        BY <2>1, <3>1, <4>1, FlatteningInSeq
      <4>3. In(f[n] \o ss[n + 1]) <=> In(f[n]) \/ In(ss[n + 1])
        <5> DEFINE a == f[n]  b == ss[n + 1]
        <5>1. a \in Seq(S) /\ b \in Seq(S)
          BY <4>2
        <5> HIDE DEF a, b
        <5>2. In(b) => In(a \o b)
          <6>1. ASSUME NEW i \in 1..Len(b), b[i] = e PROVE In(a \o b)
            <7>1. Len(a) + i \in 1..Len(a \o b) /\ (a \o b)[Len(a) + i] = b[i]
              BY <5>1, ConcatParts
            <7> QED BY <6>1, <7>1
          <6> QED BY <6>1
        <5>3. In(a) => In(a \o b)
          BY <5>1, ConcatParts
        <5>4. In(a \o b) => In(a) \/ In(b)
          BY <5>1, ConcatParts
        <5> QED BY <5>2, <5>3, <5>4 DEF a, b
      <4>4. In(f[n]) <=> \E q \in 1..n : In(ss[q])
        BY <2>3, <4>1
      <4>5. 1..(n + 1) = (1..n) \cup {n + 1}
        OBVIOUS
      <4> HIDE DEF In
      <4> QED BY <4>1, <4>3, <4>4, <4>5
    <3> QED BY <3>3, <3>4
  <2>4. Nat \subseteq T
    <3> HIDE DEF T
    <3> QED BY <2>2, <2>3, Induction
  <2>5. Len(ss) \in Nat /\ Len(ss) \in 1..Len(ss)
    BY <1>2
  <2>6. Len(ss) \in T
    <3> HIDE DEF T
    <3> QED BY <2>4, <2>5
  <2>7. In(f[Len(ss)]) <=> \E q \in 1..Len(ss) : In(ss[q])
    BY <2>5, <2>6
  <2> QED BY <2>1, <2>7 DEF Contains
<1> QED BY <1>1, <1>2

(* The same of an index.                                                   *)
LEMMA FlattenMember ==
  ASSUME NEW S, NEW ss \in Seq(Seq(S)), NEW i \in 1..Len(FlattenSeq(ss))
  PROVE  \E q \in 1..Len(ss) : \E k \in 1..Len(ss[q]) : ss[q][k] = FlattenSeq(ss)[i]
<1> DEFINE e == FlattenSeq(ss)[i]
<1>1. Contains(FlattenSeq(ss), e)
  BY DEF Contains
<1>2. \E q \in 1..Len(ss) : Contains(ss[q], e)
  <2> HIDE DEF e
  <2> QED BY <1>1, FlattenMembers
<1> QED BY <1>2 DEF Contains

(* They stand in the order R if they do in every part and across the parts.  *)
LEMMA FlattenOrdered ==
  ASSUME NEW S, NEW ss \in Seq(Seq(S)), NEW R,
         \A q \in 1..Len(ss) : \A i, j \in 1..Len(ss[q]) :
           i < j => <<ss[q][i], ss[q][j]>> \in R,
         \A p, q \in 1..Len(ss) : p < q =>
           \A i \in 1..Len(ss[p]), j \in 1..Len(ss[q]) : <<ss[p][i], ss[q][j]>> \in R
  PROVE  \A i, j \in 1..Len(FlattenSeq(ss)) :
           i < j => <<FlattenSeq(ss)[i], FlattenSeq(ss)[j]>> \in R
<1> DEFINE Ordered(t) == \A i, j \in 1..Len(t) : i < j => <<t[i], t[j]>> \in R
           Upto(n) == SubSeq(ss, 1, n)
           T == {n \in Nat : n \in 0..Len(ss) => Ordered(FlattenSeq(Upto(n)))}
<1>1. 0 \in T
  <2>1. Upto(0) = <<>>
    OBVIOUS
  <2>2. Ordered(<<>>)
    OBVIOUS
  <2>3. Ordered(FlattenSeq(Upto(0)))
    <3> HIDE DEF Ordered, Upto
    <3> QED BY <2>1, <2>2, FlattenEmpty
  <2> QED BY <2>3
<1>2. ASSUME NEW n \in Nat, n \in T PROVE n + 1 \in T
  <2>1. SUFFICES ASSUME n + 1 \in 0..Len(ss) PROVE Ordered(FlattenSeq(Upto(n + 1)))
    OBVIOUS
  <2> DEFINE a == FlattenSeq(Upto(n))  b == ss[n + 1]
  <2>2. Upto(n) \in Seq(Seq(S)) /\ b \in Seq(S) /\ n + 1 \in 1..Len(ss)
    BY <2>1
  <2>3. Upto(n + 1) = Append(Upto(n), b)
    BY <2>1
  <2>4. FlattenSeq(Upto(n + 1)) = a \o b
    BY <2>2, <2>3, FlattenAppend
  <2>5. a \in Seq(S)
    BY <2>2, FlattenInSeq
  <2>6. Ordered(a)
    BY <1>2, <2>1
  <2>7. Ordered(b)
    BY <2>2
  <2>8. ASSUME NEW i \in 1..Len(a), NEW j \in 1..Len(b) PROVE <<a[i], b[j]>> \in R
    <3>1. PICK q \in 1..Len(Upto(n)) : \E k \in 1..Len(Upto(n)[q]) : Upto(n)[q][k] = a[i]
      BY <2>2, FlattenMember
    <3>2. q \in 1..Len(ss) /\ q < n + 1 /\ Upto(n)[q] = ss[q]
      BY <2>1, <2>2, <3>1
    <3> HIDE DEF a, Upto
    <3> QED BY <2>2, <3>1, <3>2
  <2>9. Ordered(a \o b)
    <3>1. SUFFICES ASSUME NEW i \in 1..Len(a \o b), NEW j \in 1..Len(a \o b), i < j
                   PROVE  <<(a \o b)[i], (a \o b)[j]>> \in R
      OBVIOUS
    <3> HIDE DEF a, b
    <3>2. /\ \/ i <= Len(a) /\ i \in 1..Len(a) /\ (a \o b)[i] = a[i]
             \/ i > Len(a) /\ i - Len(a) \in 1..Len(b) /\ (a \o b)[i] = b[i - Len(a)]
          /\ \/ j <= Len(a) /\ j \in 1..Len(a) /\ (a \o b)[j] = a[j]
             \/ j > Len(a) /\ j - Len(a) \in 1..Len(b) /\ (a \o b)[j] = b[j - Len(a)]
          /\ Len(a) \in Nat
      BY <2>2, <2>5, ConcatParts
    <3>3. CASE j <= Len(a)
      <4>1. i <= Len(a) /\ ~ (i > Len(a)) /\ ~ (j > Len(a))
        BY <3>1, <3>2, <3>3
      <4> QED BY <2>6, <3>1, <3>2, <4>1
    <3>4. CASE i > Len(a)
      <4>1. /\ ~ (i <= Len(a)) /\ ~ (j <= Len(a)) /\ i - Len(a) < j - Len(a)
        BY <3>1, <3>2, <3>4
      <4> QED BY <2>7, <3>2, <4>1
    <3>5. CASE i <= Len(a) /\ j > Len(a)
      <4>1. ~ (i > Len(a)) /\ ~ (j <= Len(a))
        BY <3>2, <3>5
      <4> QED BY <2>8, <3>2, <4>1
    <3> QED BY <3>2, <3>3, <3>4, <3>5
  <2> HIDE DEF Ordered, Upto
  <2> QED BY <2>4, <2>9
<1>3. Nat \subseteq T
  <2> HIDE DEF T
  <2> QED BY <1>1, <1>2, Induction
<1>4. Len(ss) \in T /\ Upto(Len(ss)) = ss
  BY <1>3
<1>5. Ordered(FlattenSeq(Upto(Len(ss))))
  <2> HIDE DEF Ordered, Upto
  <2> QED BY <1>4
<1> QED BY <1>4, <1>5

(* A list of those e[1], ..., e[n] whose number is in W.                     *)
Picked(n, e, W) == FlattenSeq([c \in 1..n |-> IF c \in W THEN <<e[c]>> ELSE <<>>])

(* Picking gives a sequence of what can be picked ...                      *)
LEMMA PickedInSeq ==
  ASSUME NEW S, NEW n \in Nat, NEW e, \A c \in 1..n : e[c] \in S, NEW W
  PROVE  Picked(n, e, W) \in Seq(S)
<1> DEFINE ss == [c \in 1..n |-> IF c \in W THEN <<e[c]>> ELSE <<>>]
<1>1. ss \in Seq(Seq(S))
  OBVIOUS
<1> HIDE DEF ss
<1>2. FlattenSeq(ss) \in Seq(S)
  BY <1>1, FlattenInSeq
<1> QED BY <1>2 DEF Picked, ss

(* ... that has the element of each number picked and no other ...         *)
LEMMA PickedHas ==
  ASSUME NEW n \in Nat, NEW e, NEW W, NEW x
  PROVE  Contains(Picked(n, e, W), x) <=> \E c \in 1..n : c \in W /\ e[c] = x
<1> DEFINE ss == [c \in 1..n |-> IF c \in W THEN <<e[c]>> ELSE <<>>]
           S == {e[c] : c \in 1..n}
<1>1. \A c \in 1..n : ss[c] = IF c \in W THEN <<e[c]>> ELSE <<>>
  OBVIOUS
<1>2. ss \in Seq(Seq(S)) /\ Len(ss) = n
  <2>1. \A c \in 1..n : e[c] \in S
    OBVIOUS
  <2> HIDE DEF S
  <2>2. \A c \in 1..n : (IF c \in W THEN <<e[c]>> ELSE <<>>) \in Seq(S)
    BY <2>1
  <2> QED BY <2>2
<1> HIDE DEF ss, S
<1>3. Contains(FlattenSeq(ss), x) <=> \E c \in 1..n : Contains(ss[c], x)
  BY <1>2, FlattenMembers
<1>4. Picked(n, e, W) = FlattenSeq(ss)
  BY DEF Picked, ss
<1>5. \A c \in 1..n : Contains(ss[c], x) <=> c \in W /\ e[c] = x
  <2>1. SUFFICES ASSUME NEW c \in 1..n PROVE Contains(ss[c], x) <=> c \in W /\ e[c] = x
    OBVIOUS
  <2>2. Contains(<<e[c]>>, x) <=> e[c] = x
    BY DEF Contains
  <2>3. ~ Contains(<<>>, x)
    BY DEF Contains
  <2> QED BY <1>1, <2>2, <2>3
<1> QED BY <1>3, <1>4, <1>5

(* ... in the order of the numbers.                                        *)
LEMMA PickedOrdered ==
  ASSUME NEW S, NEW n \in Nat, NEW e \in [1..n -> S], NEW W, NEW R,
         \A c, d \in 1..n : c < d /\ c \in W /\ d \in W => <<e[c], e[d]>> \in R
  PROVE  \A i, j \in 1..Len(Picked(n, e, W)) :
           i < j => <<Picked(n, e, W)[i], Picked(n, e, W)[j]>> \in R
<1> DEFINE ss == [c \in 1..n |-> IF c \in W THEN <<e[c]>> ELSE <<>>]
<1>1. ss \in Seq(Seq(S)) /\ Len(ss) = n
  OBVIOUS
<1>2. \A c \in 1..n : \A i \in 1..Len(ss[c]) : i = 1 /\ c \in W /\ ss[c][i] = e[c]
  <2>1. SUFFICES ASSUME NEW c \in 1..n, NEW i \in 1..Len(ss[c])
                 PROVE  i = 1 /\ c \in W /\ ss[c][i] = e[c]
    OBVIOUS
  <2>2. CASE c \in W
    <3>1. ss[c] = <<e[c]>>
      BY <2>2
    <3> HIDE DEF ss
    <3> QED BY <2>2, <3>1
  <2>3. CASE c \notin W
    <3>1. ss[c] = <<>>
      BY <2>3
    <3> HIDE DEF ss
    <3> QED BY <2>1, <3>1
  <2> QED BY <2>2, <2>3
<1> HIDE DEF ss
<1>3. \A q \in 1..Len(ss) : \A i, j \in 1..Len(ss[q]) : i < j => <<ss[q][i], ss[q][j]>> \in R
  BY <1>1, <1>2
<1>4. \A p, q \in 1..Len(ss) : p < q =>
        \A i \in 1..Len(ss[p]), j \in 1..Len(ss[q]) : <<ss[p][i], ss[q][j]>> \in R
  BY <1>1, <1>2
<1>5. \A i, j \in 1..Len(FlattenSeq(ss)) :
        i < j => <<FlattenSeq(ss)[i], FlattenSeq(ss)[j]>> \in R
  BY <1>1, <1>3, <1>4, FlattenOrdered
<1> QED BY <1>5 DEF Picked, ss

(* None of them, and one more.                                              *)
LEMMA PickedNone ==
  ASSUME NEW e, NEW W
  PROVE  Picked(0, e, W) = <<>>
<1>1. [c \in 1..0 |-> IF c \in W THEN <<e[c]>> ELSE <<>>] = <<>>
  OBVIOUS
<1> QED BY <1>1, FlattenEmpty DEF Picked

(* With one number more, its element comes last, or none does.             *)
LEMMA PickedNext ==
  ASSUME NEW n \in Nat, NEW e, NEW W
  PROVE  Picked(n + 1, e, W) =
           Picked(n, e, W) \o (IF n + 1 \in W THEN <<e[n + 1]>> ELSE <<>>)
<1> DEFINE S == {e[c] : c \in 1..(n + 1)}
           part(c) == IF c \in W THEN <<e[c]>> ELSE <<>>
           ss == [c \in 1..n |-> part(c)]
           tt == [c \in 1..(n + 1) |-> part(c)]
<1>0. \A c \in 1..(n + 1) : e[c] \in S
  OBVIOUS
<1> HIDE DEF S
<1>1. \A c \in 1..n : part(c) \in Seq(S)
  BY <1>0
<1>2. ss \in Seq(Seq(S)) /\ Len(ss) = n
  <2> HIDE DEF part
  <2> QED BY <1>1
<1>3. FlattenSeq(tt) = FlattenSeq(ss) \o part(n + 1)
  <2>1. part(n + 1) \in Seq(S)
    BY <1>0
  <2> DEFINE uu == Append(ss, part(n + 1))
  <2>2. tt \in Seq(Seq(S)) /\ Len(tt) = n + 1 /\ \A c \in 1..(n + 1) : tt[c] = part(c)
    <3> HIDE DEF part
    <3>1. \A c \in 1..(n + 1) : part(c) \in Seq(S)
      BY <1>1, <2>1
    <3> QED BY <3>1
  <2>3. uu \in Seq(Seq(S)) /\ Len(uu) = n + 1 /\ \A c \in 1..(n + 1) : uu[c] = part(c)
    <3> HIDE DEF part
    <3>1. \A c \in 1..n : ss[c] = part(c)
      OBVIOUS
    <3> HIDE DEF ss
    <3> QED BY <1>2, <2>1, <3>1
  <2> HIDE DEF tt, uu, part
  <2>4. tt = uu
    BY <2>2, <2>3, SeqEqual
  <2>5. FlattenSeq(Append(ss, part(n + 1))) = FlattenSeq(ss) \o part(n + 1)
    <3> HIDE DEF ss
    <3> QED BY <1>2, <2>1, FlattenAppend
  <2> QED BY <2>4, <2>5 DEF uu
<1> QED BY <1>3 DEF Picked

-----------------------------------------------------------------------------
(* r is s without its element i, ...                                        *)
OneLess(S, r, s, i) ==
  /\ r \in Seq(S) /\ Len(r) = Len(s) - 1
  /\ \A j \in 1..(Len(s) - 1) : r[j] = IF j < i THEN s[j] ELSE s[j + 1]

(* ... or with e as a new element i.                                        *)
OneMore(S, r, s, i, e) ==
  /\ r \in Seq(S) /\ Len(r) = Len(s) + 1
  /\ \A j \in 1..(Len(s) + 1) : r[j] = IF j < i THEN s[j] ELSE IF j = i THEN e ELSE s[j - 1]

(* A sequence without one of its elements.                                  *)
LEMMA RemoveAtIs ==
  ASSUME NEW S, NEW s \in Seq(S), NEW i \in 1..Len(s)
  PROVE  OneLess(S, RemoveAt(s, i), s, i)
<1> DEFINE a == SubSeq(s, 1, i - 1)
           b == SubSeq(s, i + 1, Len(s))
<1>1. Len(s) \in Nat /\ \A j \in 1..Len(s) : s[j] \in S
  OBVIOUS
<1>2. /\ a \in Seq(S) /\ Len(a) = i - 1
      /\ \A j \in 1..(i - 1) : a[j] = s[j]
  OBVIOUS
<1>3. /\ b \in Seq(S) /\ Len(b) = Len(s) - i
      /\ \A j \in 1..(Len(s) - i) : b[j] = s[i + j]
  OBVIOUS
<1>4. RemoveAt(s, i) = a \o b
  BY DEF RemoveAt
<1> HIDE DEF a, b
<1>5. /\ a \o b \in Seq(S) /\ Len(a \o b) = Len(s) - 1
      /\ \A j \in 1..(Len(s) - 1) : (a \o b)[j] = IF j <= Len(a) THEN a[j] ELSE b[j - Len(a)]
  <2>1. a \in Seq(S) /\ b \in Seq(S)
    BY <1>2, <1>3
  <2>2. /\ a \o b \in Seq(S) /\ Len(a \o b) = Len(a) + Len(b)
        /\ \A j \in 1..(Len(a) + Len(b)) : (a \o b)[j] = IF j <= Len(a) THEN a[j] ELSE b[j - Len(a)]
    BY <2>1, ConcatProperties
  <2>3. Len(a) + Len(b) = Len(s) - 1
    BY <1>1, <1>2, <1>3
  <2> QED BY <2>2, <2>3
<1>6. ASSUME NEW j \in 1..(Len(s) - 1)
      PROVE  (a \o b)[j] = IF j < i THEN s[j] ELSE s[j + 1]
  <2>1. CASE j < i
    BY <1>1, <1>2, <1>5, <2>1
  <2>2. CASE ~ (j < i)
    <3>1. j - Len(a) \in 1..(Len(s) - i) /\ i + (j - Len(a)) = j + 1 /\ ~ (j <= Len(a))
      BY <1>1, <1>2, <2>2
    <3>2. b[j - Len(a)] = s[j + 1]
      BY <1>3, <3>1
    <3> QED BY <1>5, <2>2, <3>1, <3>2
  <2> QED BY <2>1, <2>2
<1> QED BY <1>4, <1>5, <1>6 DEF OneLess

(* A sequence with one element more.                                        *)
LEMMA InsertAtIs ==
  ASSUME NEW S, NEW s \in Seq(S), NEW i \in 1..(Len(s) + 1), NEW e \in S
  PROVE  OneMore(S, InsertAt(s, i, e), s, i, e)
<1> DEFINE a == SubSeq(s, 1, i - 1)
           c == SubSeq(s, i, Len(s))
           b == <<e>> \o c
<1>1. Len(s) \in Nat /\ \A j \in 1..Len(s) : s[j] \in S
  OBVIOUS
<1>2. /\ a \in Seq(S) /\ Len(a) = i - 1
      /\ \A j \in 1..(i - 1) : a[j] = s[j]
  BY <1>1, SubSeqProperties
<1>3. /\ c \in Seq(S) /\ Len(c) = Len(s) - i + 1
      /\ \A j \in 1..(Len(s) - i + 1) : c[j] = s[i + j - 1]
  BY <1>1, SubSeqProperties
<1>4. InsertAt(s, i, e) = a \o b
  <2>1. InsertAt(s, i, e) = (a \o <<e>>) \o c
    BY DEF InsertAt
  <2>2. <<e>> \in Seq(S)
    OBVIOUS
  <2> HIDE DEF a, c
  <2> QED BY <1>2, <1>3, <2>1, <2>2, ConcatAssociative
<1>5. /\ b \in Seq(S) /\ Len(b) = Len(s) - i + 2 /\ b[1] = e
      /\ \A j \in 2..(Len(s) - i + 2) : b[j] = s[i + j - 2]
  <2>1. <<e>> \in Seq(S) /\ Len(<<e>>) = 1 /\ <<e>>[1] = e
    OBVIOUS
  <2> HIDE DEF c
  <2>2. /\ b \in Seq(S) /\ Len(b) = 1 + Len(c)
        /\ \A j \in 1..Len(b) : b[j] = IF j <= 1 THEN <<e>>[j] ELSE c[j - 1]
    BY <1>3, <2>1, ConcatProperties
  <2> HIDE DEF b
  <2>3. Len(b) = Len(s) - i + 2 /\ b[1] = e
    BY <1>1, <1>3, <2>1, <2>2
  <2>4. ASSUME NEW j \in 2..(Len(s) - i + 2) PROVE b[j] = s[i + j - 2]
    <3>1. j - 1 \in 1..(Len(s) - i + 1) /\ i + (j - 1) - 1 = i + j - 2 /\ ~ (j <= 1) /\ j \in 1..Len(b)
      BY <1>1, <2>3
    <3>2. c[j - 1] = s[i + (j - 1) - 1]
      BY <1>3, <3>1
    <3> QED BY <2>2, <3>1, <3>2
  <2> QED BY <2>2, <2>3, <2>4
<1> HIDE DEF a, b
<1>6. /\ a \o b \in Seq(S) /\ Len(a \o b) = Len(s) + 1
      /\ \A j \in 1..(Len(s) + 1) : (a \o b)[j] = IF j <= Len(a) THEN a[j] ELSE b[j - Len(a)]
  <2>1. a \in Seq(S) /\ b \in Seq(S)
    BY <1>2, <1>5
  <2>2. /\ a \o b \in Seq(S) /\ Len(a \o b) = Len(a) + Len(b)
        /\ \A j \in 1..(Len(a) + Len(b)) : (a \o b)[j] = IF j <= Len(a) THEN a[j] ELSE b[j - Len(a)]
    BY <2>1, ConcatProperties
  <2>3. Len(a) + Len(b) = Len(s) + 1
    BY <1>1, <1>2, <1>5
  <2> QED BY <2>2, <2>3
<1>7. ASSUME NEW j \in 1..(Len(s) + 1)
      PROVE  (a \o b)[j] = IF j < i THEN s[j] ELSE IF j = i THEN e ELSE s[j - 1]
  <2>1. CASE j < i
    BY <1>1, <1>2, <1>6, <2>1
  <2>2. CASE j = i
    BY <1>1, <1>2, <1>5, <1>6, <2>2
  <2>3. CASE j > i
    <3>1. j - Len(a) \in 2..(Len(s) - i + 2) /\ i + (j - Len(a)) - 2 = j - 1 /\ ~ (j <= Len(a)) /\ ~ (j < i) /\ j # i
      BY <1>1, <1>2, <2>3
    <3>2. b[j - Len(a)] = s[j - 1]
      BY <1>5, <3>1
    <3> QED BY <1>6, <3>1, <3>2
  <2>4. j < i \/ j = i \/ j > i
    BY <1>1
  <2>5. j > i => ~ (j < i) /\ j # i
    BY <1>1
  <2>6. j = i => ~ (j < i)
    BY <1>1
  <2> QED BY <2>1, <2>2, <2>3, <2>4, <2>5, <2>6
<1> QED BY <1>4, <1>6, <1>7 DEF OneMore

(* What comes in at the end is appended.                                    *)
LEMMA InsertAtEnd ==
  ASSUME NEW S, NEW s \in Seq(S), NEW e \in S
  PROVE  InsertAt(s, Len(s) + 1, e) = Append(s, e)
<1>1. Len(s) \in Nat
  OBVIOUS
<1>2. PICK i \in 1..(Len(s) + 1) : i = Len(s) + 1
  BY <1>1
<1>3. PICK a : a = InsertAt(s, i, e)
  OBVIOUS
<1>4. OneMore(S, a, s, i, e)
  BY <1>3, InsertAtIs
<1>5. PICK b : b = Append(s, e)
  OBVIOUS
<1>6. /\ b \in Seq(S) /\ Len(b) = Len(s) + 1
      /\ \A j \in 1..(Len(s) + 1) : b[j] = IF j < Len(s) + 1 THEN s[j] ELSE e
  BY <1>1, <1>5
<1>7. a \in Seq(S) /\ Len(a) = Len(b) /\ \A j \in 1..Len(a) : a[j] = b[j]
  BY <1>1, <1>2, <1>4, <1>6 DEF OneMore
<1>8. a = b
  BY <1>6, <1>7, SeqEqual
<1> QED BY <1>2, <1>3, <1>5, <1>8

(* An element that occurs once is removed from where it is, and one that    *)
(* does not occur from nowhere.                                             *)
LEMMA RemoveFirstIs ==
  ASSUME NEW S, NEW s \in Seq(S), NEW e
  PROVE  /\ \A i \in 1..Len(s) :
              s[i] = e /\ (\A j \in 1..Len(s) : s[j] = e => j = i) => RemoveFirst(s, e) = RemoveAt(s, i)
         /\ (\A i \in 1..Len(s) : s[i] # e) => RemoveFirst(s, e) = s
<1>1. ASSUME NEW i \in 1..Len(s), s[i] = e, \A j \in 1..Len(s) : s[j] = e => j = i
      PROVE  RemoveFirst(s, e) = RemoveAt(s, i)
  <2> DEFINE I == {j \in 1..Len(s) : s[j] = e}
  <2>1. I = {i}
    BY <1>1
  <2>2. i \in Int
    OBVIOUS
  <2>3. \A A, x : A = {x} /\ x \in Int => Min(A) = x
    BY DEF Min
  <2>4. Min(I) = i
    <3> HIDE DEF I
    <3> QED BY <2>1, <2>2, <2>3
  <2>5. SelectInSeq(s, LAMBDA v : v = e) = i
    BY <2>1, <2>4 DEF SelectInSeq
  <2> QED BY <1>1, <2>5 DEF RemoveFirst
<1>2. ASSUME \A i \in 1..Len(s) : s[i] # e PROVE RemoveFirst(s, e) = s
  BY <1>2 DEF RemoveFirst
<1> QED BY <1>1, <1>2

(* Whatever passes from what m depends on to m itself holds on all of D.    *)
WellFounded(D, Dep) ==
  \A C \in SUBSET D :
    (\A m \in D : (\A x \in D : <<x, m>> \in Dep => x \in C) => m \in C) => C = D

(* Depending on what a rank puts earlier, only, is well founded.            *)
LEMMA RankedWellFounded ==
  ASSUME NEW D, NEW rank \in [D -> Nat], NEW Dep,
         \A x, m \in D : <<x, m>> \in Dep => rank[x] < rank[m]
  PROVE  WellFounded(D, Dep)
<1> SUFFICES ASSUME NEW C \in SUBSET D,
                    \A m \in D : (\A x \in D : <<x, m>> \in Dep => x \in C) => m \in C
             PROVE  C = D
  BY DEF WellFounded
<1>1. \A m \in D : rank[m] \in Nat
  OBVIOUS
<1> DEFINE T == {k \in Nat : \A m \in D : rank[m] < k => m \in C}
<1>2. 0 \in T
  BY <1>1
<1>3. ASSUME NEW k \in Nat, k \in T PROVE k + 1 \in T
  <2> SUFFICES ASSUME NEW m \in D, rank[m] < k + 1 PROVE m \in C
    OBVIOUS
  <2>1. \A x \in D : rank[x] < rank[m] => rank[x] < k
    BY <1>1
  <2>2. \A x \in D : rank[x] < rank[m] => x \in C
    BY <1>3, <2>1
  <2> QED BY <2>2
<1>4. Nat \subseteq T
  <2> HIDE DEF T
  <2> QED BY <1>2, <1>3, Induction
<1>5. \A m \in D : rank[m] + 1 \in T /\ rank[m] < rank[m] + 1
  <2> HIDE DEF T
  <2> QED BY <1>1, <1>4
<1>6. \A m \in D : m \in C
  BY <1>5
<1> QED BY <1>6

(* B gives all values from all values, each from those it depends on.       *)
Depends(D, V, B, Dep) ==
  /\ B \in [[D -> V] -> [D -> V]]
  /\ \A f, g \in [D -> V] : \A m \in D :
       (\A x \in D : <<x, m>> \in Dep => f[x] = g[x]) => B[f][m] = B[g][m]

(* A function defined by such a recursion exists.                           *)
LEMMA Recursion ==
  ASSUME NEW D, NEW V, NEW v \in V, NEW B, NEW Dep,
         WellFounded(D, Dep), Depends(D, V, B, Dep)
  PROVE  \E f \in [D -> V] : B[f] = f
<1> DEFINE F == [D -> V]
           Part(X, f) == /\ X \in SUBSET D /\ f \in F
                         /\ \A m \in X : \A x \in D : <<x, m>> \in Dep => x \in X
                         /\ \A m \in X : B[f][m] = f[m]
<1>1. \A f \in F : B[f] \in F
  BY DEF Depends
<1>2. \A C \in SUBSET D :
        (\A m \in D : (\A x \in D : <<x, m>> \in Dep => x \in C) => m \in C) => C = D
  BY DEF WellFounded
<1>3. \A f, g \in F : \A m \in D :
        (\A x \in D : <<x, m>> \in Dep => f[x] = g[x]) => B[f][m] = B[g][m]
  BY DEF Depends
<1>4. ASSUME NEW X, NEW f, Part(X, f), NEW Y, NEW g, Part(Y, g), NEW n \in X \cap Y
      PROVE  f[n] = g[n]
  <2> DEFINE C == {m \in D : m \in X /\ m \in Y => f[m] = g[m]}
  <2>1. ASSUME NEW m \in D, \A x \in D : <<x, m>> \in Dep => x \in C PROVE m \in C
    <3> SUFFICES ASSUME m \in X, m \in Y PROVE f[m] = g[m]
      OBVIOUS
    <3>1. \A x \in D : <<x, m>> \in Dep => f[x] = g[x]
      BY <1>4, <2>1
    <3>2. f \in F /\ g \in F /\ B[f][m] = f[m] /\ B[g][m] = g[m]
      BY <1>4
    <3>3. B[f][m] = B[g][m]
      <4> HIDE DEF F, Part, C
      <4> QED BY ONLY <1>3, <3>1, <3>2, m \in D
    <3> QED BY <3>2, <3>3
  <2>2. C \in SUBSET D
    OBVIOUS
  <2>3. C = D
    <3> HIDE DEF C
    <3> QED BY <1>2, <2>1, <2>2
  <2> QED BY <1>4, <2>3
<1> DEFINE W == {m \in D : \E X, f : Part(X, f) /\ m \in X}
           setOf(m) == CHOOSE X : \E f : Part(X, f) /\ m \in X
           at(m) == CHOOSE f : Part(setOf(m), f) /\ m \in setOf(m)
           h == [m \in D |-> IF m \in W THEN at(m)[m] ELSE v]
<1>5. \A m \in W : Part(setOf(m), at(m)) /\ m \in setOf(m)
  <2> HIDE DEF Part
  <2>1. \A m \in W : \E f : Part(setOf(m), f) /\ m \in setOf(m)
    OBVIOUS
  <2> HIDE DEF setOf, W
  <2> QED BY <2>1
<1>6. \A m \in W : at(m) \in F /\ at(m)[m] \in V
  <2> HIDE DEF W, at, setOf
  <2> QED BY <1>5
<1>7. \A m \in W : \A x \in D : <<x, m>> \in Dep => x \in W
  <2> SUFFICES ASSUME NEW m \in W, NEW x \in D, <<x, m>> \in Dep PROVE x \in W
    OBVIOUS
  <2>1. PICK X, f : Part(X, f) /\ m \in X
    OBVIOUS
  <2>2. x \in X
    BY <2>1
  <2> HIDE DEF Part
  <2> QED BY <2>1, <2>2
<1>8. W \in SUBSET D
  OBVIOUS
<1>9. h \in F
  <2> HIDE DEF W, at
  <2> QED BY <1>6
<1>10. \A m \in W : h[m] = at(m)[m]
  <2> HIDE DEF at
  <2> QED BY <1>8
<1> HIDE DEF W, at, setOf, h
<1>11. ASSUME NEW m \in W PROVE B[h][m] = h[m]
  <2>1. \A x \in D : <<x, m>> \in Dep => x \in W /\ x \in setOf(m)
    BY <1>5, <1>7
  <2>2. \A x \in D : <<x, m>> \in Dep => h[x] = at(m)[x]
    <3> SUFFICES ASSUME NEW x \in D, <<x, m>> \in Dep PROVE at(x)[x] = at(m)[x]
      BY <1>10, <2>1
    <3>1. Part(setOf(m), at(m)) /\ Part(setOf(x), at(x)) /\ x \in setOf(x) \cap setOf(m)
      BY <1>5, <2>1
    <3> HIDE DEF Part
    <3> QED BY <1>4, <3>1
  <2>3. B[h][m] = B[at(m)][m]
    <3> HIDE DEF F, Part
    <3>1. at(m) \in F /\ m \in D
      BY <1>6, <1>8
    <3> QED BY ONLY <1>3, <1>9, <2>2, <3>1
  <2>4. B[at(m)][m] = at(m)[m]
    BY <1>5
  <2> QED BY <1>10, <2>3, <2>4
<1>12. ASSUME NEW m \in D, \A x \in D : <<x, m>> \in Dep => x \in W PROVE m \in W
  <2> DEFINE X == W \cup {m}
             f == [x \in D |-> IF x \in W THEN h[x] ELSE B[h][x]]
  <2>1. f \in F /\ X \in SUBSET D
    BY <1>1, <1>8, <1>9
  <2>2. \A x \in X : \A y \in D : <<y, x>> \in Dep => y \in W
    BY <1>7, <1>12
  <2>3. \A x \in D : x \in W => f[x] = h[x]
    OBVIOUS
  <2>4. f[m] = B[h][m]
    BY <1>11
  <2> HIDE DEF f
  <2>5. ASSUME NEW x \in X PROVE B[f][x] = B[h][x]
    <3>1. \A y \in D : <<y, x>> \in Dep => f[y] = h[y]
      BY <2>2, <2>3
    <3>2. x \in D
      BY <2>1
    <3> HIDE DEF F
    <3> QED BY ONLY <1>3, <1>9, <2>1, <3>1, <3>2
  <2>6. \A x \in X : B[f][x] = f[x]
    <3> SUFFICES ASSUME NEW x \in X PROVE B[f][x] = f[x]
      OBVIOUS
    <3>1. CASE x \in W
      BY <1>8, <1>11, <2>3, <2>5, <3>1
    <3>2. CASE x = m
      BY <2>4, <2>5, <3>2
    <3> QED BY <3>1, <3>2
  <2>7. Part(X, f)
    BY <2>1, <2>2, <2>6
  <2>8. m \in X
    OBVIOUS
  <2> HIDE DEF Part, X
  <2> QED BY <2>7, <2>8 DEF W
<1>13. W = D
  BY <1>2, <1>8, <1>12
<1>14. B[h] = h
  <2>1. B[h] \in F
    BY <1>1, <1>9
  <2>2. B[h] = [m \in D |-> B[h][m]] /\ h = [m \in D |-> h[m]]
    BY <1>9, <2>1
  <2> QED BY <1>11, <1>13, <2>2
<1> QED BY <1>9, <1>14

(* In a flattened sequence, each element is followed as in its part, or is  *)
(* the last of its part and followed by the first of the next.              *)
LEMMA FlattenSteps ==
  ASSUME NEW S, NEW ss \in Seq(Seq(S)), Len(ss) # 0, NEW R,
         \A q \in 1..Len(ss) : Len(ss[q]) # 0,
         \A q \in 1..Len(ss) : \A i \in 1..(Len(ss[q]) - 1) : <<ss[q][i], ss[q][i + 1]>> \in R,
         \A q \in 1..(Len(ss) - 1) : <<ss[q][Len(ss[q])], ss[q + 1][1]>> \in R
  PROVE  /\ FlattenSeq(ss) \in Seq(S) /\ Len(FlattenSeq(ss)) # 0
         /\ FlattenSeq(ss)[1] = ss[1][1]
         /\ FlattenSeq(ss)[Len(FlattenSeq(ss))] = ss[Len(ss)][Len(ss[Len(ss)])]
         /\ \A i \in 1..(Len(FlattenSeq(ss)) - 1) :
              <<FlattenSeq(ss)[i], FlattenSeq(ss)[i + 1]>> \in R
<1>1. PICK f : Flattening(ss, f) /\ FlattenSeq(ss) = f[Len(ss)]
  BY FlattenIs
<1>2. /\ Len(ss) \in Nat /\ Len(ss) \in 1..Len(ss)
      /\ \A q \in 1..Len(ss) : ss[q] \in Seq(S) /\ f[q] \in Seq(S)
  BY <1>1, FlatteningInSeq
<1>3. 1 \in 1..Len(ss)
  BY <1>2
<1>4. /\ f[1] = ss[1]
      /\ \A i \in 1..Len(ss) : i # 1 => f[i] = f[i - 1] \o ss[i]
  BY <1>1, <1>2, <1>3, FlatteningIs
<1> DEFINE Fine(q) == /\ Len(f[q]) # 0 /\ f[q][1] = ss[1][1]
                      /\ f[q][Len(f[q])] = ss[q][Len(ss[q])]
                      /\ \A i \in 1..(Len(f[q]) - 1) : <<f[q][i], f[q][i + 1]>> \in R
           T == {k \in Nat : k + 1 \in 1..Len(ss) => Fine(k + 1)}
<1>5. Fine(1)
  <2>1. 1 \in 1..Len(ss)
    BY <1>2
  <2> QED BY <1>4, <2>1
<1>6. 0 \in T
  BY <1>5
<1>7. ASSUME NEW k \in Nat, k \in T PROVE k + 1 \in T
  <2> SUFFICES ASSUME (k + 1) + 1 \in 1..Len(ss) PROVE Fine((k + 1) + 1)
    OBVIOUS
  <2>1. PICK q : q = k + 1
    OBVIOUS
  <2>2. q \in 1..Len(ss) /\ q + 1 \in 1..Len(ss) /\ q \in 1..(Len(ss) - 1) /\ q + 1 # 1 /\ (q + 1) - 1 = q
    BY <1>2, <2>1
  <2>3. Fine(q)
    BY <1>7, <2>1, <2>2
  <2>4. PICK a \in Seq(S) : a = f[q]
    BY <1>2, <2>2
  <2>5. PICK b \in Seq(S) : b = ss[q + 1]
    BY <1>2, <2>2
  <2>6. f[q + 1] = a \o b
    BY <1>4, <2>2, <2>4, <2>5
  <2>7. PICK c : c = a \o b
    OBVIOUS
  <2>8. /\ Len(a) \in Nat \ {0} /\ Len(b) \in Nat \ {0}
        /\ a[1] = ss[1][1] /\ <<a[Len(a)], b[1]>> \in R
        /\ \A i \in 1..(Len(a) - 1) : <<a[i], a[i + 1]>> \in R
        /\ \A i \in 1..(Len(b) - 1) : <<b[i], b[i + 1]>> \in R
    <3>1. Len(a) \in Nat \ {0} /\ Len(b) \in Nat \ {0}
      <4>1. Len(a) # 0 /\ Len(b) # 0
        BY <2>2, <2>3, <2>4, <2>5
      <4> QED BY <4>1
    <3>2. a[1] = ss[1][1] /\ <<a[Len(a)], b[1]>> \in R
      BY <2>2, <2>3, <2>4, <2>5
    <3>3. \A i \in 1..(Len(a) - 1) : <<a[i], a[i + 1]>> \in R
      BY <2>3, <2>4
    <3>4. \A i \in 1..(Len(b) - 1) : <<b[i], b[i + 1]>> \in R
      <4> HIDE DEF Fine, T
      <4> QED BY <2>2, <2>5
    <3> QED BY <3>1, <3>2, <3>3, <3>4
  <2>9. /\ c \in Seq(S) /\ Len(c) = Len(a) + Len(b)
        /\ \A i \in 1..Len(a) : c[i] = a[i]
        /\ \A i \in 1..Len(b) : c[Len(a) + i] = b[i]
    BY <2>7, ConcatParts
  <2>10. c[1] = ss[1][1] /\ Len(c) # 0 /\ c[Len(c)] = b[Len(b)]
    BY <2>8, <2>9
  <2>11. ASSUME NEW i \in 1..(Len(c) - 1) PROVE <<c[i], c[i + 1]>> \in R
    <3>1. CASE i < Len(a)
      <4>1. i \in 1..(Len(a) - 1) /\ i \in 1..Len(a) /\ i + 1 \in 1..Len(a)
        BY <2>8, <2>9, <3>1
      <4> QED BY <2>8, <2>9, <4>1
    <3>2. CASE i = Len(a)
      <4>1. i \in 1..Len(a) /\ 1 \in 1..Len(b)
        BY <2>8, <2>9, <3>2
      <4>2. c[i] = a[Len(a)] /\ c[i + 1] = b[1]
        <5>1. c[i] = a[i] /\ c[Len(a) + 1] = b[1]
          BY <2>9, <4>1
        <5> QED BY <3>2, <5>1
      <4> QED BY <2>8, <4>2
    <3>3. CASE i > Len(a)
      <4>1. PICK j : j = i - Len(a)
        OBVIOUS
      <4>2. j \in 1..(Len(b) - 1) /\ j \in 1..Len(b) /\ j + 1 \in 1..Len(b)
            /\ Len(a) + j = i /\ Len(a) + (j + 1) = i + 1
        <5>1. /\ Len(a) \in Nat /\ Len(b) \in Nat /\ i \in Nat
              /\ 1 <= i /\ i <= Len(a) + Len(b) - 1
          BY <2>8, <2>9
        <5> QED BY <3>3, <4>1, <5>1
      <4>3. c[i] = b[j] /\ c[i + 1] = b[j + 1]
        <5>1. c[Len(a) + j] = b[j] /\ c[Len(a) + (j + 1)] = b[j + 1]
          BY <2>9, <4>2
        <5> QED BY <4>2, <5>1
      <4> QED BY <2>8, <4>2, <4>3
    <3> QED BY <2>8, <2>9, <3>1, <3>2, <3>3
  <2>12. Fine(q + 1)
    BY <2>5, <2>6, <2>7, <2>10, <2>11
  <2> QED BY <2>1, <2>12
<1>8. Nat \subseteq T
  <2> HIDE DEF T
  <2> QED BY <1>6, <1>7, Induction
<1>9. Fine(Len(ss))
  <2>1. Len(ss) - 1 \in T
    <3>1. Len(ss) - 1 \in Nat
      BY <1>2
    <3> HIDE DEF T
    <3> QED BY <3>1, <1>8
  <2>2. (Len(ss) - 1) + 1 = Len(ss)
    BY <1>2
  <2> HIDE DEF Fine
  <2> QED BY <1>2, <2>1, <2>2
<1> QED BY <1>1, <1>2, <1>9

(* f has the values of n steps, each taken by G from the one before.        *)
Stepped(n, V, v, G, f) ==
  f \in [0..n -> V] /\ f[0] = v /\ \A k \in 1..n : f[k] = G[<<k, f[k - 1]>>]

(* n steps, each from the value of the one before, can be taken.            *)
LEMMA StepsExist ==
  ASSUME NEW n \in Nat, NEW V, NEW v \in V, NEW G \in [(1..n) \X V -> V]
  PROVE  \E f : Stepped(n, V, v, G, f)
<1> DEFINE D == 0..n
           Step(f, k) == IF k = 0 THEN v ELSE G[<<k, f[k - 1]>>]
           B == [f \in [D -> V] |-> [k \in D |-> Step(f, k)]]
           Dep == {p \in D \X D : p[2] = p[1] + 1}
           rank == [k \in D |-> k]
<1>1. \A x, m \in D : <<x, m>> \in Dep <=> m = x + 1
  OBVIOUS
<1>2. WellFounded(D, Dep)
  <2>1. rank \in [D -> Nat]
    OBVIOUS
  <2>2. \A x, m \in D : <<x, m>> \in Dep => rank[x] < rank[m]
    BY <1>1
  <2> HIDE DEF Dep, rank, D
  <2> QED BY <2>1, <2>2, RankedWellFounded
<1>3. \A f \in [D -> V] : \A k \in D : Step(f, k) \in V
  <2> SUFFICES ASSUME NEW f \in [D -> V], NEW k \in D PROVE Step(f, k) \in V
    OBVIOUS
  <2>1. CASE k = 0
    BY <2>1
  <2>2. CASE k # 0
    <3>1. k \in 1..n /\ k - 1 \in D
      BY <2>2
    <3>2. <<k, f[k - 1]>> \in (1..n) \X V
      BY <3>1
    <3>3. Step(f, k) = G[<<k, f[k - 1]>>]
      BY <2>2
    <3> HIDE DEF Step
    <3> QED BY <3>2, <3>3
  <2> QED BY <2>1, <2>2
<1>4. Depends(D, V, B, Dep)
  <2>1. B \in [[D -> V] -> [D -> V]]
    <3> HIDE DEF Step, D
    <3> QED BY <1>3
  <2>2. ASSUME NEW f \in [D -> V], NEW g \in [D -> V], NEW m \in D,
               \A x \in D : <<x, m>> \in Dep => f[x] = g[x]
        PROVE  Step(f, m) = Step(g, m)
    <3>1. CASE m = 0
      BY <3>1
    <3>2. CASE m # 0
      <4>1. m - 1 \in D /\ m = (m - 1) + 1
        BY <3>2
      <4>2. f[m - 1] = g[m - 1]
        <5> HIDE DEF Dep, D
        <5> QED BY <1>1, <2>2, <4>1
      <4> QED BY <3>2, <4>2
    <3> QED BY <3>1, <3>2
  <2> HIDE DEF Step, D, Dep
  <2>3. \A f, g \in [D -> V] : \A m \in D :
          (\A x \in D : <<x, m>> \in Dep => f[x] = g[x]) => B[f][m] = B[g][m]
    BY <2>2
  <2> HIDE DEF B
  <2> QED BY <2>1, <2>3 DEF Depends
<1>5. PICK f \in [D -> V] : B[f] = f
  <2> HIDE DEF D, B, Dep
  <2> QED BY <1>2, <1>4, Recursion
<1>6. f = [k \in D |-> Step(f, k)]
  <2> HIDE DEF D, Step
  <2> QED BY <1>5
<1>7. 0 \in D /\ \A k \in 1..n : k \in D /\ k # 0
  OBVIOUS
<1>8. f[0] = v /\ \A k \in 1..n : f[k] = G[<<k, f[k - 1]>>]
  <2> HIDE DEF D
  <2> QED BY <1>6, <1>7
<1> QED
  <2>1. f \in [0..n -> V]
    OBVIOUS
  <2> QED BY <1>8, <2>1 DEF Stepped

(* A set of numbers up to n that is not empty has a greatest element.       *)
LEMMA GreatestNumber ==
  ASSUME NEW n \in Nat, NEW T, T \subseteq 1..n, T # {}
  PROVE  \E x \in T : \A y \in T : y <= x
<1> DEFINE U == {n - x : x \in T}
<1>1. U \subseteq Nat /\ U # {}
  <2>1. \A x \in T : n - x \in Nat
    OBVIOUS
  <2>2. PICK x \in T : TRUE
    OBVIOUS
  <2>3. n - x \in U
    OBVIOUS
  <2> QED BY <2>1, <2>3
<1>2. PICK u \in U : \A v \in U : u <= v
  <2> HIDE DEF U
  <2> QED BY <1>1, LeastNumber
<1>3. PICK x \in T : u = n - x
  OBVIOUS
<1>4. ASSUME NEW y \in T PROVE y <= x
  <2>1. n - y \in U
    OBVIOUS
  <2>2. n - x <= n - y
    <3> HIDE DEF U
    <3> QED BY <1>2, <1>3, <2>1
  <2>3. x \in Int /\ y \in Int
    OBVIOUS
  <2> HIDE DEF U
  <2> QED BY <2>2, <2>3
<1> QED BY <1>4

(* The shortest sequences over S.                                           *)
LEMMA OneLong ==
  ASSUME NEW S
  PROVE  <<>> \in Seq(S) /\ \A w \in S : <<w>> \in Seq(S)
OBVIOUS

(* A sequence that is one longer, and the same before.                      *)
LEMMA AppendIs ==
  ASSUME NEW S, NEW p \in Seq(S), NEW e \in S, NEW q \in Seq(S), Len(q) = Len(p) + 1,
         q[Len(p) + 1] = e, \A k \in 1..Len(p) : q[k] = p[k]
  PROVE  q = Append(p, e)
OBVIOUS
================================================================================
