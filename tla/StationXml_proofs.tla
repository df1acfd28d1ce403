------------------------- MODULE StationXml_proofs -------------------------
(***************************************************************************)
(* What is proved of reading: of RespReader, that for any text, whatever   *)
(* happened to its lines, none is read twice or out of turn and every step *)
(* leads on; of StationXml, that every file is closed once.                *)
(*                                                                         *)
(* Nothing is assumed of the texts but that they are lines: where the      *)
(* fields of a blockette stand, or whether they are there, does not matter.*)
(***************************************************************************)
EXTENDS StationXml, SequenceLemmas

(* The first position of those from a to b that are in a set, or 0.         *)
LEMMA FirstOf ==
  ASSUME NEW a \in Nat, NEW b \in Nat, a > 0, NEW I, I \subseteq a..b
  PROVE  LET p == IF I # {} THEN Min(I) ELSE 0
         IN  \/ p = 0 /\ I = {}
             \/ p \in I
<1>1. CASE I = {}
  BY <1>1
<1>2. CASE I # {}
  <2>1. I \subseteq Nat
    BY SMT
  <2>2. PICK m \in I : \A x \in I : m <= x
    BY <1>2, <2>1, LeastNumber
  <2>3. Min(I) \in I
    BY <2>1, <2>2 DEF Min
  <2> QED BY <1>2, <2>3
<1> QED BY <1>1, <1>2

(* find_line and drop_comments_and_blank_lines look on, never back.         *)
LEMMA NextLineIs ==
  ASSUME NEW t \in Seq(Line), NEW at \in 1..(Len(t) + 1)
  PROVE  \/ NextLine(t, at) = 0
         \/ NextLine(t, at) \in at..Len(t) /\ t[NextLine(t, at)].blkt # Comment
<1> DEFINE I == {i \in at..Len(t) : t[i].blkt # Comment}
<1>1. NextLine(t, at) = IF I # {} THEN Min(I) ELSE 0
  BY DEF NextLine, SelectInSubSeq
<1>2. at \in Nat /\ at > 0 /\ Len(t) \in Nat /\ I \subseteq at..Len(t)
  OBVIOUS
<1>3. ASSUME NEW p \in I PROVE p \in at..Len(t) /\ t[p].blkt # Comment
  OBVIOUS
<1> HIDE DEF I
<1>4. \/ NextLine(t, at) = 0
      \/ NextLine(t, at) \in I
  BY <1>1, <1>2, FirstOf
<1> QED BY <1>3, <1>4

LEMMA FindLineIs ==
  ASSUME NEW t \in Seq(Line), NEW at \in 1..(Len(t) + 1), NEW b, NEW f
  PROVE  \/ FindLine(t, at, b, f) = 0
         \/ LET p == FindLine(t, at, b, f)
            IN  p \in at..Len(t) /\ (t[p].blkt = BadPrefix \/ (t[p].blkt = b /\ t[p].fld = f))
<1> DEFINE I == {i \in at..Len(t) : t[i].blkt = BadPrefix \/ (t[i].blkt = b /\ t[i].fld = f)}
<1>1. FindLine(t, at, b, f) = IF I # {} THEN Min(I) ELSE 0
  BY DEF FindLine, SelectInSubSeq
<1>2. at \in Nat /\ at > 0 /\ Len(t) \in Nat /\ I \subseteq at..Len(t)
  OBVIOUS
<1>3. ASSUME NEW p \in I
      PROVE  p \in at..Len(t) /\ (t[p].blkt = BadPrefix \/ (t[p].blkt = b /\ t[p].fld = f))
  OBVIOUS
<1> HIDE DEF I
<1>4. \/ FindLine(t, at, b, f) = 0
      \/ FindLine(t, at, b, f) \in I
  BY <1>1, <1>2, FirstOf
<1> QED BY <1>3, <1>4

-----------------------------------------------------------------------------
(* What a reader asks for is a sequence of fields.                          *)
ItemType == [blkt : {0} \cup 41..62, fld : 0..23, role : Role, group : Nat]

Items == Seq(ItemType)

LEMMA ItemIs ==
  ASSUME NEW b \in {0} \cup 41..62, NEW f \in 0..23, NEW role \in Role, NEW g \in Nat
  PROVE  /\ Item(b, f, role, g) \in ItemType
         /\ Item(b, f, role, g).blkt = b /\ Item(b, f, role, g).role = role
BY DEF Item, ItemType

(* Fields that only a header or a [60] has.                                 *)
Odd == {"response", "location", "nstages", "responses"}

(* Sequences of fields of a blockette, none of them odd.                    *)
Of(B) == {item \in ItemType : item.blkt \in B /\ item.role \notin Odd}

Asks(items, B) == items \in Seq(Of(B))

LEMMA AskedJoined ==
  ASSUME NEW B, NEW s, NEW t, Asks(s, B), Asks(t, B)
  PROVE  Asks(s \o t, B)
<1> DEFINE S == Of(B)
<1>1. s \in Seq(S) /\ t \in Seq(S)
  BY DEF Asks
<1> HIDE DEF S
<1>2. s \o t \in Seq(S)
  BY <1>1, ConcatParts
<1> QED BY <1>2 DEF Asks, S

LEMMA ItemOf ==
  ASSUME NEW B, NEW b \in B, b \in 41..62, NEW f \in 0..23, NEW role \in Role \ Odd,
         NEW g \in Nat
  PROVE  Item(b, f, role, g) \in Of(B)
<1>1. b \in {0} \cup 41..62 /\ role \in Role
  OBVIOUS
<1>2. /\ Item(b, f, role, g) \in ItemType
      /\ Item(b, f, role, g).blkt = b /\ Item(b, f, role, g).role = role
  BY <1>1 DEF Item, ItemType
<1>3. PICK item : item = Item(b, f, role, g)
  OBVIOUS
<1>4. item \in ItemType /\ item.blkt \in B /\ item.role \notin Odd
  BY <1>2, <1>3
<1> QED BY <1>3, <1>4 DEF Of

(* The same of sequences that are not empty.                                *)
Wants(items, B) == Asks(items, B) /\ Len(items) > 0

LEMMA WantedJoined ==
  ASSUME NEW B, NEW s, NEW t, Asks(s, B), Asks(t, B), Wants(s, B) \/ Wants(t, B)
  PROVE  Wants(s \o t, B)
<1> DEFINE S == Of(B)
<1>1. s \in Seq(S) /\ t \in Seq(S) /\ (Len(s) > 0 \/ Len(t) > 0)
  BY DEF Asks, Wants
<1> HIDE DEF S
<1>2. /\ Len(s) \in Nat /\ Len(t) \in Nat /\ Len(s \o t) = Len(s) + Len(t)
      /\ s \o t \in Seq(S)
  BY <1>1, ConcatParts
<1> QED BY <1>1, <1>2 DEF Asks, Wants, S

LEMMA AskedOne ==
  ASSUME NEW B, NEW b \in B, b \in 41..62, NEW f \in 0..23, NEW role \in Role \ Odd,
         NEW g \in Nat
  PROVE  Asks(<<Item(b, f, role, g)>>, B)
<1> DEFINE S == Of(B)
<1>1. Item(b, f, role, g) \in S
  BY ItemOf
<1> HIDE DEF S
<1>2. \A x \in S : <<x>> \in Seq(S)
  OBVIOUS
<1> QED BY <1>1, <1>2 DEF Asks, S

LEMMA AskedNone ==
  ASSUME NEW B
  PROVE  Asks(<<>>, B)
<1> DEFINE S == Of(B)
<1> HIDE DEF S
<1>1. <<>> \in Seq(S)
  OBVIOUS
<1> QED BY <1>1 DEF Asks, S

LEMMA AskedRun ==
  ASSUME NEW B, NEW b \in B, b \in 41..62, NEW roles \in Seq(Role \ Odd),
         NEW f \in Nat, f + Len(roles) <= 24
  PROVE  Asks(Run(b, f, roles), B) /\ Len(Run(b, f, roles)) = Len(roles)
<1>1. DOMAIN roles = 1..Len(roles) /\ Len(roles) \in Nat
  OBVIOUS
<1>2. ASSUME NEW i \in 1..Len(roles)
      PROVE  Item(b, f + i - 1, roles[i], 0) \in Of(B)
  <2>1. f + i - 1 \in 0..23 /\ roles[i] \in Role \ Odd
    BY <1>1
  <2> QED BY <2>1, ItemOf
<1> DEFINE S == Of(B)
<1>3. \A i \in 1..Len(roles) : Item(b, f + i - 1, roles[i], 0) \in S
  BY <1>2
<1> HIDE DEF S
<1>4. /\ [i \in 1..Len(roles) |-> Item(b, f + i - 1, roles[i], 0)] \in Seq(S)
      /\ Len([i \in 1..Len(roles) |-> Item(b, f + i - 1, roles[i], 0)]) = Len(roles)
  BY <1>1, <1>3
<1> QED BY <1>1, <1>4 DEF Asks, Run, S

LEMMA AskedFew ==
  ASSUME NEW B
  PROVE  /\ \A v, w \in Of(B) : Asks(<<v, w>>, B)
         /\ \A v, w, x \in Of(B) : Asks(<<v, w, x>>, B)
         /\ \A v, w, x, y \in Of(B) : Asks(<<v, w, x, y>>, B)
<1> DEFINE S == Of(B)
<1> HIDE DEF S
<1>1. \A v, w \in S : <<v, w>> \in Seq(S)
  OBVIOUS
<1>2. \A v, w, x, y \in S : <<v, w, x, y>> \in Seq(S)
  OBVIOUS
<1>3. \A v, w, x \in S : <<v, w, x>> \in Seq(S)
  OBVIOUS
<1> QED BY <1>1, <1>2, <1>3 DEF Asks, S

(* Each reader asks for fields of blockette b; where the first is does not  *)
(* matter.                                                                  *)
LEMMA ContentAsks ==
  ASSUME NEW B, NEW b \in B, b \in 41..62, NEW f \in 3..6
  PROVE  /\ Wants(PoleZero(b, f), B)
         /\ Wants(IirCoeff(b, f), B)
         /\ Wants(Coeff(b, f), B)
         /\ Wants(ResponseList(b, f), B)
         /\ Wants(Generic(b, f), B)
         /\ Wants(Decimation(b, f), B)
         /\ Wants(Gain(b, f), B)
         /\ Wants(Fir(b, f), B)
         /\ Wants(Polynomial(b, f), B)
         /\ \A five \in BOOLEAN : Asks(SeqFirst(five, b), B) /\ Wants(LetterFirst(five, b), B)
<1> DEFINE R == Role \ Odd
<1>1. f + 1 \in 4..7 /\ f + 2 \in 5..8 /\ f + 3 \in 6..9 /\ f + 4 \in 7..10 /\ f + 5 \in 8..11
      /\ f + 6 \in 9..12 /\ f + 9 \in 12..15 /\ f + 10 \in 13..16
  OBVIOUS
<1>2. ASSUME NEW g \in 3..20, NEW role \in R, NEW n \in 0..2
      PROVE  Item(b, g, role, n) \in Of(B)
  BY ItemOf
<1>3. \A item \in Of(B) : Asks(<<item>>, B)
  <2> DEFINE S == Of(B)
  <2> HIDE DEF S
  <2>1. \A item \in S : <<item>> \in Seq(S)
    OBVIOUS
  <2> QED BY <2>1 DEF S, Asks
<1> DEFINE Short == {roles \in Seq(R) : Len(roles) \in 1..7}
<1>4. /\ <<"line", "line">> \in Short
      /\ <<"number", "number">> \in Short
      /\ <<"letter", "seq">> \in Short
      /\ <<"number", "number", "number", "number", "number">> \in Short
      /\ <<"word", "word", "number", "number", "number", "number", "number">> \in Short
  BY DEF Role, Odd
<1>5. ASSUME NEW roles \in Short, NEW g \in 3..9
      PROVE  Wants(Run(b, g, roles), B)
  <2>2. roles \in Seq(Role \ Odd) /\ Len(roles) \in 1..7
    BY <1>5
  <2>1. g \in Nat /\ g + Len(roles) <= 24 /\ Len(roles) > 0
    <3>1. PICK n \in 1..7 : n = Len(roles)
      BY <2>2
    <3>2. g \in Nat /\ g + n <= 24 /\ n > 0
      OBVIOUS
    <3> QED BY <3>1, <3>2
  <2>3. Asks(Run(b, g, roles), B)
    BY <2>1, <2>2, AskedRun
  <2>4. Len(Run(b, g, roles)) = Len(roles)
    BY <2>1, <2>2, AskedRun
  <2> QED BY <2>1, <2>3, <2>4 DEF Wants
<1>15. {"letter", "count", "some_count", "no_count", "each", "each_line", "each_list", "columns", "seq"} \subseteq R
  BY DEF Role, Odd
<1> HIDE DEF R, Short
<1>17. /\ \A v, w : Wants(v, B) /\ Asks(w, B) => Wants(v \o w, B)
       /\ \A v, w : Wants(v, B) /\ Wants(w, B) => Wants(v \o w, B)
       /\ \A v, w : Asks(v, B) /\ Wants(w, B) => Wants(v \o w, B)
       /\ \A v, w : Asks(v, B) /\ Asks(w, B) => Asks(v \o w, B)
  BY WantedJoined, AskedJoined DEF Wants
<1>6. /\ Wants(Units(b, f), B) /\ Wants(Units(b, f + 1), B)
      /\ Wants(Run(b, f + 2, <<"number", "number">>), B)
      /\ Wants(Run(b, f, <<"number", "number">>), B)
      /\ Wants(Decimation(b, f), B)
      /\ Wants(Run(b, f + 2, <<"word", "word", "number", "number", "number", "number", "number">>), B)
  <2>1. \A g \in 3..9 : Wants(Run(b, g, <<"line", "line">>), B)
    BY <1>4, <1>5
  <2>2. \A g \in 3..9 : Wants(Run(b, g, <<"number", "number">>), B)
    BY <1>4, <1>5
  <2>3. \A g \in 3..9 : Wants(Run(b, g, <<"number", "number", "number", "number", "number">>), B)
    BY <1>4, <1>5
  <2>4. \A g \in 3..9 :
          Wants(Run(b, g, <<"word", "word", "number", "number", "number", "number", "number">>), B)
    BY <1>4, <1>5
  <2>5. f \in 3..9 /\ f + 1 \in 3..9 /\ f + 2 \in 3..9
    OBVIOUS
  <2> QED BY <2>1, <2>2, <2>3, <2>4, <2>5 DEF Units, Decimation
<1>7. Wants(PoleZero(b, f), B)
  <2>9. /\ Item(b, f + 4, "count", 1) \in Of(B)
        /\ Item(b, f + 9, "count", 2) \in Of(B)
        /\ Item(b, f + 5, "each", 1) \in Of(B)
        /\ Item(b, f + 10, "each", 2) \in Of(B)
    BY <1>1, <1>2, <1>15
  <2>1. Asks(<<Item(b, f + 4, "count", 1), Item(b, f + 9, "count", 2),
               Item(b, f + 5, "each", 1), Item(b, f + 10, "each", 2)>>, B)
    BY <2>9, AskedFew
  <2> QED BY <1>6, <1>17, <2>1 DEF PoleZero
<1>8. Wants(IirCoeff(b, f), B)
  <2>9. /\ Item(b, f + 2, "count", 1) \in Of(B)
        /\ Item(b, f + 5, "some_count", 2) \in Of(B)
        /\ Item(b, f + 3, "each", 1) \in Of(B)
        /\ Item(b, f + 6, "each", 2) \in Of(B)
    BY <1>1, <1>2, <1>15
  <2>1. Asks(<<Item(b, f + 2, "count", 1), Item(b, f + 5, "some_count", 2),
               Item(b, f + 3, "each", 1), Item(b, f + 6, "each", 2)>>, B)
    BY <2>9, AskedFew
  <2> QED BY <1>6, <1>17, <2>1 DEF IirCoeff
<1>9. Wants(Coeff(b, f), B)
  <2>9. /\ Item(b, f + 2, "count", 1) \in Of(B)
        /\ Item(b, f + 5, "no_count", 2) \in Of(B)
        /\ Item(b, f + 3, "each", 1) \in Of(B)
    BY <1>1, <1>2, <1>15
  <2>2. Asks(<<Item(b, f + 2, "count", 1), Item(b, f + 5, "no_count", 2), Item(b, f + 3, "each", 1)>>, B)
    BY <2>9, AskedFew
  <2> QED BY <1>6, <1>17, <2>2 DEF Coeff
<1>10. Wants(ResponseList(b, f), B)
  <2>9. /\ Item(b, f + 2, "count", 1) \in Of(B)
        /\ Item(b, f + 3, "each_list", 1) \in Of(B)
        /\ Item(b, f + 3, "columns", 0) \in Of(B)
    BY <1>1, <1>2, <1>15
  <2>1. /\ Asks(<<Item(b, f + 2, "count", 1)>>, B)
        /\ Asks(<<Item(b, f + 3, "each_list", 1)>>, B)
        /\ Asks(IF b = 55 THEN <<Item(b, f + 3, "columns", 0)>> ELSE <<>>, B)
    BY <1>3, <2>9, AskedNone
  <2> QED BY <1>6, <1>17, <2>1 DEF ResponseList
<1>11. Wants(Generic(b, f), B)
  <2>9. /\ Item(b, f + 2, "count", 1) \in Of(B)
        /\ Item(b, f + 3, "each", 1) \in Of(B)
    BY <1>1, <1>2, <1>15
  <2>1. Asks(<<Item(b, f + 2, "count", 1), Item(b, f + 3, "each", 1)>>, B)
    BY <2>9, AskedFew
  <2> QED BY <1>6, <1>17, <2>1 DEF Generic
<1>12. Wants(Gain(b, f), B)
  <2>9. /\ Item(b, f + 2, "count", 1) \in Of(B)
        /\ Item(b, f + 3, "each_line", 1) \in Of(B)
    BY <1>1, <1>2, <1>15
  <2>1. Asks(<<Item(b, f + 2, "count", 1), Item(b, f + 3, "each_line", 1)>>, B)
    BY <2>9, AskedFew
  <2> QED BY <1>6, <1>17, <2>1 DEF Gain
<1>13. Wants(Fir(b, f), B)
  <2>9. /\ Item(b, f, "letter", 0) \in Of(B)
        /\ Item(b, f + 3, "count", 1) \in Of(B)
        /\ Item(b, f + 4, "each", 1) \in Of(B)
    BY <1>1, <1>2, <1>15
  <2>1. /\ Asks(<<Item(b, f, "letter", 0)>>, B)
        /\ Asks(<<Item(b, f + 3, "count", 1), Item(b, f + 4, "each", 1)>>, B)
    BY <1>3, <2>9, AskedFew
  <2> QED BY <1>6, <1>17, <2>1 DEF Fir
<1>14. Wants(Polynomial(b, f), B)
  <2>9. /\ Item(b, f + 9, "count", 1) \in Of(B)
        /\ Item(b, f + 10, "each", 1) \in Of(B)
    BY <1>1, <1>2, <1>15
  <2>1. Asks(<<Item(b, f + 9, "count", 1), Item(b, f + 10, "each", 1)>>, B)
    BY <2>9, AskedFew
  <2> QED BY <1>6, <1>17, <2>1 DEF Polynomial
<1>16. ASSUME NEW five \in BOOLEAN
       PROVE  Asks(SeqFirst(five, b), B) /\ Wants(LetterFirst(five, b), B)
  <2>1. Asks(SeqFirst(five, b), B)
    BY <1>2, <1>3, <1>15, AskedNone DEF SeqFirst
  <2>2. Wants(LetterFirst(five, b), B)
    <3>1. Asks(<<Item(b, 5, "letter", 0)>>, B) /\ Len(<<Item(b, 5, "letter", 0)>>) = 1
      BY <1>2, <1>3, <1>15
    <3>2. Wants(Run(b, 3, <<"letter", "seq">>), B)
      BY <1>4, <1>5
    <3> QED BY <3>1, <3>2 DEF LetterFirst, Wants
  <2> QED BY <2>1, <2>2
<1> QED BY <1>6, <1>7, <1>8, <1>9, <1>10, <1>11, <1>12, <1>13, <1>14, <1>16

(* The number of the lines a reader of blockette k asks for.                *)
LinesOf(k, five) == IF ~five THEN k ELSE IF k = 61 THEN 41 ELSE IF k = 62 THEN 42 ELSE k - 10

LEMMA ReaderAsks ==
  ASSUME NEW k \in Known \ {60}, NEW five \in BOOLEAN, NEW iir \in BOOLEAN,
         NEW B, LinesOf(k, five) \in B
  PROVE  Wants(Reader(k, five, iir), B)
<1> DEFINE b == LinesOf(k, five)
           f == IF five THEN 6 ELSE 5
           s == IF five THEN 5 ELSE 4
<1>1. b \in 41..62
  BY DEF LinesOf, Known
<1>2. Reader(k, five, iir) =
        CASE k = 53 -> LetterFirst(five, b) \o PoleZero(b, f)
          [] k = 54 -> LetterFirst(five, b) \o (IF iir THEN IirCoeff(b, f) ELSE Coeff(b, f))
          [] k = 55 -> SeqFirst(five, b) \o ResponseList(b, s)
          [] k = 56 -> SeqFirst(five, b) \o Generic(b, s)
          [] k = 57 -> SeqFirst(five, b) \o Decimation(b, s)
          [] k = 58 -> SeqFirst(five, b) \o Gain(b, s)
          [] k = 60 -> Reference
          [] k = 61 -> SeqFirst(five, b) \o Fir(b, 5)
          [] k = 62 -> LetterFirst(five, b) \o Polynomial(b, f)
  BY DEF Reader, LinesOf
<1>3. f \in 3..6 /\ s \in 3..6 /\ 5 \in 3..6
  OBVIOUS
<1> HIDE DEF b, f, s
<1>4. b \in B
  BY DEF b
<1>5. /\ Wants(PoleZero(b, f), B) /\ Wants(IirCoeff(b, f), B) /\ Wants(Coeff(b, f), B)
      /\ Wants(Polynomial(b, f), B) /\ Wants(ResponseList(b, s), B) /\ Wants(Generic(b, s), B)
      /\ Wants(Decimation(b, s), B) /\ Wants(Gain(b, s), B) /\ Wants(Fir(b, 5), B)
      /\ Asks(SeqFirst(five, b), B) /\ Wants(LetterFirst(five, b), B)
  BY <1>1, <1>3, <1>4, ContentAsks
<1>6. k \in {53, 54, 55, 56, 57, 58, 61, 62}
  BY DEF Known
<1>7. \A v, w : Asks(v, B) /\ Wants(w, B) => Wants(v \o w, B)
  BY WantedJoined DEF Wants
<1>8. Asks(LetterFirst(five, b), B)
  BY <1>5 DEF Wants
<1> QED BY <1>2, <1>5, <1>6, <1>7, <1>8

-----------------------------------------------------------------------------
(* What the reader of blockette k, or of a header, may still ask for.       *)
Wanted(k) ==
  {item \in ItemType : /\ item.role \in {"response", "nstages", "responses"} => k = 60
                       /\ item.role = "location" => k = 50
                       /\ item.role # "response" => item.blkt \in Bears(k)}

LEMMA AskedIsWanted ==
  ASSUME NEW k, NEW s, Asks(s, Bears(k))
  PROVE  s \in Seq(Wanted(k))
<1> DEFINE S == Of(Bears(k))
           W == Wanted(k)
<1>1. S \subseteq W
  BY DEF Of, Wanted, Odd
<1>2. s \in Seq(S)
  BY DEF Asks
<1> HIDE DEF S, W
<1>3. s \in Seq(W)
  BY <1>1, <1>2
<1> QED BY <1>3 DEF W

(* Asking again for what a count said keeps to what is wanted.              *)
LEMMA AskRowsWanted ==
  ASSUME NEW k, NEW items \in Seq(Wanted(k)), NEW g \in Nat, NEW n \in Nat
  PROVE  AskRows(items, g, n) \in Seq(Wanted(k))
<1> DEFINE W == Wanted(k)
           role(x) == CASE x.role = "each" -> "row"
                        [] x.role = "each_line" -> "line"
                        [] x.role = "each_list" -> "list_row"
                        [] OTHER -> x.role
           rows(x) == IF x.group # g THEN <<x>>
                      ELSE IF role(x) = x.role THEN <<x>>
                      ELSE [j \in 1..n |-> [x EXCEPT !.role = role(x)]]
<1>1. AskRows(items, g, n) = FlattenSeq([i \in DOMAIN items |-> rows(items[i])])
  BY DEF AskRows
<1>2. ASSUME NEW x \in W PROVE rows(x) \in Seq(W)
  <2>1. <<x>> \in Seq(W)
    <3> HIDE DEF W
    <3> QED OBVIOUS
  <2>2. ASSUME x.role \in {"each", "each_line", "each_list"}
        PROVE  [x EXCEPT !.role = role(x)] \in W
    BY <2>2 DEF Wanted, ItemType, Role
  <2>3. ASSUME NEW y \in W PROVE [j \in 1..n |-> y] \in Seq(W)
    <3> HIDE DEF W
    <3> QED OBVIOUS
  <2>4. x.role \notin {"each", "each_line", "each_list"} => role(x) = x.role
    OBVIOUS
  <2> HIDE DEF W, role
  <2>5. CASE x.role \in {"each", "each_line", "each_list"}
    <3>1. [j \in 1..n |-> [x EXCEPT !.role = role(x)]] \in Seq(W)
      BY <2>2, <2>3, <2>5
    <3> QED BY <2>1, <3>1
  <2>6. CASE x.role \notin {"each", "each_line", "each_list"}
    BY <2>1, <2>4, <2>6
  <2> QED BY <2>5, <2>6
<1> HIDE DEF W, rows
<1>3. items \in Seq(W)
  BY DEF W
<1>4. /\ DOMAIN items = 1..Len(items) /\ Len(items) \in Nat
      /\ \A i \in 1..Len(items) : items[i] \in W
  BY <1>3
<1>5. [i \in 1..Len(items) |-> rows(items[i])] \in Seq(Seq(W))
  <2>1. \A i \in 1..Len(items) : rows(items[i]) \in Seq(W)
    BY <1>2, <1>4
  <2> DEFINE T == Seq(W)
  <2> HIDE DEF T
  <2>2. [i \in 1..Len(items) |-> rows(items[i])] \in Seq(T)
    BY <1>4, <2>1 DEF T
  <2> QED BY <2>2 DEF T
<1>6. FlattenSeq([i \in 1..Len(items) |-> rows(items[i])]) \in Seq(W)
  BY <1>5, FlattenInSeq
<1> QED BY <1>1, <1>4, <1>6 DEF W

(* The stages of a [60].                                                    *)
LEMMA RefStagesWanted ==
  ASSUME NEW n \in Nat
  PROVE  RefStages(n) \in Seq(Wanted(60))
<1> DEFINE W == Wanted(60)
           one(i) == Run(60, 4, <<"ref_seq", "responses">>)
                       \o (IF i < n THEN <<Item(60, 3, "again", n)>> ELSE <<>>)
<1>1. Item(60, 4, "ref_seq", 0) \in W /\ Item(60, 5, "responses", 0) \in W /\ Item(60, 3, "again", n) \in W
  BY DEF Wanted, Item, ItemType, Role, Bears
<1>2. Run(60, 4, <<"ref_seq", "responses">>) = <<Item(60, 4, "ref_seq", 0), Item(60, 5, "responses", 0)>>
  BY DEF Run
<1>3. /\ \A v, w \in W : <<v, w>> \in Seq(W)
      /\ \A v \in W : <<v>> \in Seq(W)
      /\ <<>> \in Seq(W)
  <2> HIDE DEF W
  <2> QED OBVIOUS
<1>4. ASSUME NEW i \in 1..n PROVE one(i) \in Seq(W)
  <2>1. Run(60, 4, <<"ref_seq", "responses">>) \in Seq(W)
    BY <1>1, <1>2, <1>3
  <2>2. (IF i < n THEN <<Item(60, 3, "again", n)>> ELSE <<>>) \in Seq(W)
    BY <1>1, <1>3
  <2> HIDE DEF W
  <2> QED BY <2>1, <2>2, ConcatParts
<1>5. RefStages(n) = FlattenSeq([i \in 1..n |-> one(i)])
  BY DEF RefStages
<1> HIDE DEF W, one
<1>6. [i \in 1..n |-> one(i)] \in Seq(Seq(W))
  <2> DEFINE T == Seq(W)
  <2> HIDE DEF T
  <2>1. [i \in 1..n |-> one(i)] \in Seq(T)
    BY <1>4 DEF T
  <2> QED BY <2>1 DEF T
<1> QED BY <1>5, <1>6, FlattenInSeq DEF W

LEMMA RestWanted ==
  ASSUME NEW k, NEW items \in Seq(Wanted(k)), items # <<>>, NEW l \in Line
  PROVE  Rest(items, l) \in Seq(Wanted(k))
<1> DEFINE W == Wanted(k)
<1>1. items[1] \in W /\ Tail(items) \in Seq(W)
  <2> HIDE DEF W
  <2> QED BY DEF W
<1>2. items[1].group \in Nat /\ l.val \in Nat
  BY <1>1 DEF Wanted, ItemType, Line
<1>3. CASE items[1].role \in {"count", "some_count"}
  <2>1. Rest(items, l) = AskRows(Tail(items), items[1].group, l.val)
    BY <1>3 DEF Rest
  <2> QED BY <1>1, <1>2, <2>1, AskRowsWanted
<1>4. CASE items[1].role = "nstages"
  <2>1. Rest(items, l) = RefStages(l.val)
    BY <1>4 DEF Rest
  <2>2. k = 60
    BY <1>1, <1>4 DEF Wanted
  <2> QED BY <1>2, <2>1, <2>2, RefStagesWanted
<1>5. CASE items[1].role = "responses"
  <2>1. Rest(items, l) = [i \in 1..l.val |-> Item(0, 0, "response", 0)] \o Tail(items)
    BY <1>5 DEF Rest
  <2>2. k = 60
    BY <1>1, <1>5 DEF Wanted
  <2>3. Item(0, 0, "response", 0) \in W
    BY <2>2 DEF Wanted, Item, ItemType, Role
  <2> HIDE DEF W
  <2>4. [i \in 1..l.val |-> Item(0, 0, "response", 0)] \in Seq(W)
    BY <1>2, <2>3
  <2> QED BY <1>1, <2>1, <2>4, ConcatParts DEF W
<1>6. CASE items[1].role \notin {"count", "some_count", "nstages", "responses"}
  BY <1>1, <1>6 DEF Rest
<1> QED BY <1>3, <1>4, <1>5, <1>6

(* What is asked for when a blockette begins, and what in a [60] when a     *)
(* response does.                                                           *)
LEMMA BlocketteAsks ==
  ASSUME NEW k \in Known, NEW five \in BOOLEAN, NEW iir \in BOOLEAN, k = 60 => ~five
  PROVE  Reader(k, five, iir) \in Seq(Wanted(k)) /\ Reader(k, five, iir) # <<>>
<1>1. CASE k = 60
  <2>1. Reader(60, five, iir) = <<Item(60, 3, "nstages", 0)>>
    BY DEF Reader, Reference
  <2>2. Item(60, 3, "nstages", 0) \in Wanted(60)
    BY DEF Wanted, Item, ItemType, Role, Bears
  <2> DEFINE W == Wanted(60)
  <2> HIDE DEF W
  <2>3. \A x \in W : <<x>> \in Seq(W)
    OBVIOUS
  <2>4. <<Item(60, 3, "nstages", 0)>> # <<>>
    OBVIOUS
  <2> QED BY <1>1, <2>1, <2>2, <2>3, <2>4 DEF W
<1>2. CASE k # 60
  <2>1. LinesOf(k, five) \in Bears(k)
    BY <1>2 DEF LinesOf, Bears, Known
  <2>2. Wants(Reader(k, five, iir), Bears(k))
    BY <1>2, <2>1, ReaderAsks
  <2>3. Reader(k, five, iir) \in Seq(Wanted(k)) /\ Len(Reader(k, five, iir)) > 0
    BY <2>2, AskedIsWanted DEF Wants
  <2> QED BY <2>3
<1> QED BY <1>1, <1>2

LEMMA ResponseAsks ==
  ASSUME NEW b \in {41} \cup 43..48, NEW five \in BOOLEAN
  PROVE  /\ Reader(BaseOf(b), five, FALSE) \in Seq(Wanted(60))
         /\ Reader(BaseOf(b), five, FALSE) # <<>>
<1>1. BaseOf(b) \in Known \ {60}
  BY DEF BaseOf, Known
<1>2. LinesOf(BaseOf(b), five) \in Bears(60)
  BY DEF BaseOf, LinesOf, Bears
<1>3. Wants(Reader(BaseOf(b), five, FALSE), Bears(60))
  BY <1>1, <1>2, ReaderAsks
<1>4. PICK items : items = Reader(BaseOf(b), five, FALSE)
  OBVIOUS
<1>5. items \in Seq(Wanted(60)) /\ Len(items) > 0
  BY <1>3, <1>4, AskedIsWanted DEF Wants
<1>6. items # <<>>
  <2>1. Len(<<>>) = 0
    OBVIOUS
  <2> QED BY <1>5, <2>1
<1> QED BY <1>4, <1>5, <1>6, Zenon

LEMMA HeaderAsks == Header \in Seq(Wanted(50)) /\ Tail(Header) \in Seq(Wanted(50))
<1> DEFINE W == Wanted(50)
<1>1. /\ Item(50, 3, "word", 0) \in W /\ Item(50, 16, "word", 0) \in W
      /\ Item(52, 3, "location", 0) \in W /\ Item(52, 22, "line", 0) \in W /\ Item(52, 23, "line", 0) \in W
  BY DEF Wanted, Item, ItemType, Role, Bears
<1> HIDE DEF W
<1>2. \A u, v, w, x, y \in W : <<u, v, w, x, y>> \in Seq(W)
  OBVIOUS
<1>3. Header \in Seq(W) /\ Header # <<>>
  BY <1>1, <1>2 DEF Header
<1> QED BY <1>3, HeadTailProperties DEF W

(* Numbers read are numbers, and none is forgotten.                         *)
LEMMA NumberedIs ==
  ASSUME NEW seqs \in Seq(Nat), NEW role, NEW l \in Line
  PROVE  Numbered(seqs, role, l) \in Seq(Nat) /\ Len(Numbered(seqs, role, l)) >= Len(seqs)
<1>1. l.val \in Nat
  BY DEF Line
<1>2. [seqs EXCEPT ![Len(seqs)] = l.val] \in Seq(Nat) /\ Len([seqs EXCEPT ![Len(seqs)] = l.val]) = Len(seqs)
  <2>1. PICK n \in Nat : n = Len(seqs) /\ DOMAIN seqs = 1..n
    OBVIOUS
  <2>2. [seqs EXCEPT ![n] = l.val] = [i \in 1..n |-> IF i = n THEN l.val ELSE seqs[i]]
    BY <2>1
  <2>3. \A i \in 1..n : (IF i = n THEN l.val ELSE seqs[i]) \in Nat
    BY <1>1, <2>1
  <2>4. /\ [i \in 1..n |-> IF i = n THEN l.val ELSE seqs[i]] \in Seq(Nat)
        /\ Len([i \in 1..n |-> IF i = n THEN l.val ELSE seqs[i]]) = n
    BY <2>3
  <2> QED BY <2>1, <2>2, <2>4
<1>3. Append(seqs, l.val) \in Seq(Nat) /\ Len(Append(seqs, l.val)) = Len(seqs) + 1
  BY <1>1
<1> QED BY <1>2, <1>3 DEF Numbered

-----------------------------------------------------------------------------
(* A blockette with its lines from D.                                       *)
Blk(D) == [blkt : {0, 50} \cup Known, seqs : Seq(Nat), lines : Seq(D), complete : BOOLEAN]

InTypes ==
  /\ TypeOK
  /\ cur \in Blk(DOMAIN text)
  /\ blkts \in Seq(Blk(DOMAIN text))
  /\ channels \in Seq(Seq(Blk(DOMAIN text)))

(* A reader asks for what is wanted of its blockette, and where it stands   *)
(* shows which blockettes of the channel there are.                         *)
Shaped ==
  /\ pc = "header" => cur.blkt = 50
  /\ pc = "reading" => cur.blkt \in Known /\ (cur.blkt # 60 => Len(cur.seqs) > 0)
  /\ pc \in {"header", "reading"} => todo \in Seq(Wanted(cur.blkt))
  /\ pc \in {"channels", "header"} => blkts = <<>>
  /\ pc \in {"data", "reading"} => blkts # <<>>

LEMMA WantedIsItem ==
  ASSUME NEW k, NEW s \in Seq(Wanted(k))
  PROVE  s \in Seq([blkt : {0} \cup 41..62, fld : 0..23, role : Role, group : Nat])
<1> DEFINE W == Wanted(k)
           I == [blkt : {0} \cup 41..62, fld : 0..23, role : Role, group : Nat]
<1>1. W \subseteq I
  BY DEF Wanted, ItemType
<1> HIDE DEF W, I
<1>2. s \in Seq(W)
  BY DEF W
<1>3. s \in Seq(I)
  BY <1>1, <1>2
<1> QED BY <1>3 DEF I

(* What is left when a step leaves the text alone.                          *)
LEMMA StillTyped ==
  ASSUME InTypes, UNCHANGED input,
         pos' \in 1..(Len(text) + 1),
         pc' \in {"channels", "header", "data", "reading", "done", "failed"},
         first_line' \in 0..Len(text),
         first_field' \in 0..23 \cup {Unset},
         todo' = <<>> \/ todo' = todo \/ \E k : todo' \in Seq(Wanted(k)),
         cur' \in Blk(DOMAIN text),
         format' \in Int, tmp_seq' \in Nat,
         blkts' \in Seq(Blk(DOMAIN text)),
         channels' \in Seq(Seq(Blk(DOMAIN text)))
  PROVE  InTypes'
<1>1. text' = text /\ source' = source /\ harm' = harm
  BY DEF input
<1>2. cur'.seqs \in Seq(Nat) /\ cur'.lines \in Seq(DOMAIN text)
  BY DEF Blk
<1>3. todo' \in Seq([blkt : {0} \cup 41..62, fld : 0..23, role : Role, group : Nat])
  <2>1. CASE todo' = <<>>
    <3> DEFINE I == [blkt : {0} \cup 41..62, fld : 0..23, role : Role, group : Nat]
    <3> HIDE DEF I
    <3>1. <<>> \in Seq(I)
      OBVIOUS
    <3> QED BY <2>1, <3>1 DEF I
  <2>2. CASE todo' = todo
    BY <2>2 DEF InTypes, TypeOK
  <2>3. CASE \E k : todo' \in Seq(Wanted(k))
    BY <2>3, WantedIsItem
  <2> QED BY <2>1, <2>2, <2>3
<1>4. TypeOK'
  BY <1>1, <1>2, <1>3 DEF InTypes, TypeOK
<1> QED BY <1>1, <1>4 DEF InTypes

(* A line that is read is added to what is read.                            *)
LEMMA LineAdded ==
  ASSUME InTypes, NEW p \in DOMAIN text, NEW role
  PROVE  LET new == [cur EXCEPT !.seqs = Numbered(@, role, text[p]), !.lines = Append(@, p)]
         IN  /\ new \in Blk(DOMAIN text)
             /\ new.blkt = cur.blkt /\ new.lines = Append(cur.lines, p)
             /\ Len(cur.seqs) > 0 => Len(new.seqs) > 0
<1>1. text[p] \in Line
  BY DEF InTypes, TypeOK
<1>2. cur.seqs \in Seq(Nat) /\ cur.lines \in Seq(DOMAIN text)
  BY DEF InTypes, TypeOK
<1> DEFINE seqs == Numbered(cur.seqs, role, text[p])
           lines == Append(cur.lines, p)
<1>3. seqs \in Seq(Nat) /\ Len(seqs) >= Len(cur.seqs)
  BY <1>1, <1>2, NumberedIs
<1>4. lines \in Seq(DOMAIN text)
  <2> DEFINE D == DOMAIN text
  <2> HIDE DEF D
  <2>1. cur.lines \in Seq(D) /\ p \in D
    BY <1>2 DEF D
  <2>2. lines \in Seq(D)
    BY <2>1
  <2> QED BY <2>2 DEF D
<1>5. Len(cur.seqs) > 0 => Len(seqs) > 0
  <2>1. Len(cur.seqs) \in Nat /\ Len(seqs) \in Nat
    BY <1>2, <1>3
  <2> QED BY <1>3, <2>1
<1> HIDE DEF seqs, lines
<1>6. [cur EXCEPT !.seqs = seqs, !.lines = lines] \in Blk(DOMAIN text)
  BY <1>3, <1>4 DEF InTypes, Blk
<1>7. /\ [cur EXCEPT !.seqs = seqs, !.lines = lines].seqs = seqs
      /\ [cur EXCEPT !.seqs = seqs, !.lines = lines].lines = lines
      /\ [cur EXCEPT !.seqs = seqs, !.lines = lines].blkt = cur.blkt
  BY DEF InTypes, Blk
<1> QED BY <1>5, <1>6, <1>7 DEF seqs, lines

(* What every step starts from.                                             *)
LEMMA AllTyped ==
  ASSUME InTypes
  PROVE  /\ text \in Seq(Line) /\ DOMAIN text = 1..Len(text) /\ Len(text) \in Nat
         /\ pos \in 1..(Len(text) + 1) /\ pos \in Nat
         /\ first_line \in 0..Len(text) /\ first_field \in 0..23 \cup {Unset}
         /\ format \in Int /\ tmp_seq \in Nat
         /\ cur \in Blk(DOMAIN text) /\ blkts \in Seq(Blk(DOMAIN text))
         /\ channels \in Seq(Seq(Blk(DOMAIN text)))
         /\ pc \in {"channels", "header", "data", "reading", "done", "failed"}
<1>1. text \in Seq(Line)
  BY DEF InTypes, TypeOK
<1> QED BY <1>1 DEF InTypes, TypeOK

LEMMA BeginChannelTyped ==
  ASSUME InTypes, Shaped, BeginChannel
  PROVE  InTypes' /\ Shaped'
<1>1. cur' \in Blk(DOMAIN text) /\ cur'.blkt = 50
  <2> DEFINE lines == IF first_line = 0 THEN <<>> ELSE <<first_line>>
             D == DOMAIN text
  <2>1. first_line # 0 => first_line \in D
    BY AllTyped
  <2>2. lines \in Seq(D)
    <3> HIDE DEF D
    <3> QED BY <2>1
  <2>3. cur' = [blkt |-> 50, seqs |-> <<>>, lines |-> lines, complete |-> TRUE]
    BY DEF BeginChannel
  <2>4. <<>> \in Seq(Nat)
    OBVIOUS
  <2> HIDE DEF lines, D
  <2>5. [blkt |-> 50, seqs |-> <<>>, lines |-> lines, complete |-> TRUE] \in Blk(D)
    BY <2>2, <2>4 DEF Blk
  <2> QED BY <2>3, <2>5 DEF D
<1>2. todo' \in Seq(Wanted(50))
  BY HeaderAsks DEF BeginChannel
<1>3. blkts' = <<>> /\ pc' = "header"
  BY DEF BeginChannel, Shaped
<1>4. InTypes'
  BY <1>1, <1>2, AllTyped, StillTyped DEF BeginChannel
<1> QED BY <1>1, <1>2, <1>3, <1>4 DEF Shaped

LEMMA FailTyped ==
  ASSUME InTypes, Fail
  PROVE  InTypes' /\ Shaped'
<1>1. InTypes'
  BY AllTyped, StillTyped DEF Fail
<1> QED BY <1>1 DEF Fail, Shaped

LEMMA AllReadTyped ==
  ASSUME InTypes, AllRead
  PROVE  InTypes' /\ Shaped'
<1>1. InTypes'
  BY AllTyped, StillTyped DEF AllRead
<1> QED BY <1>1 DEF AllRead, Shaped

(* Where find_line and drop_comments_and_blank_lines end.                   *)
LEMMA Found ==
  ASSUME InTypes
  PROVE  /\ Sought # 0 =>
              /\ Sought \in pos..Len(text) /\ Sought \in DOMAIN text
              /\ text[Sought].blkt = BadPrefix
                  \/ (text[Sought].blkt = todo[1].blkt /\ text[Sought].fld = todo[1].fld)
         /\ NextLine(text, pos) # 0 =>
              /\ NextLine(text, pos) \in pos..Len(text) /\ NextLine(text, pos) \in DOMAIN text
<1>1. \A p \in pos..Len(text) : p \in DOMAIN text
  BY AllTyped
<1>2. Sought # 0 => /\ Sought \in pos..Len(text)
                    /\ text[Sought].blkt = BadPrefix
                        \/ (text[Sought].blkt = todo[1].blkt /\ text[Sought].fld = todo[1].fld)
  BY AllTyped, FindLineIs DEF Sought
<1>3. NextLine(text, pos) # 0 => NextLine(text, pos) \in pos..Len(text)
  BY AllTyped, NextLineIs
<1> QED BY <1>1, <1>2, <1>3

LEMMA ReadFieldTyped ==
  ASSUME InTypes, Shaped, ReadField
  PROVE  InTypes' /\ Shaped'
<1> DEFINE p == Sought
<1>1. p \in DOMAIN text /\ text[p] \in Line /\ p \in 1..Len(text)
  BY Found, AllTyped DEF ReadField
<1>2. /\ pos' = p + 1 /\ todo' = Rest(todo, text[p]) /\ pc' = pc /\ blkts' = blkts
      /\ cur' = [cur EXCEPT !.seqs = Numbered(@, todo[1].role, text[p]), !.lines = Append(@, p)]
      /\ pc \in {"header", "reading"} /\ todo # <<>>
      /\ UNCHANGED <<input, first_line, first_field, format, tmp_seq, channels>>
  BY DEF ReadField, Looking
<1> HIDE DEF p
<1>3. /\ cur' \in Blk(DOMAIN text) /\ cur'.blkt = cur.blkt
      /\ Len(cur.seqs) > 0 => Len(cur'.seqs) > 0
  BY <1>1, <1>2, LineAdded
<1>4. todo' \in Seq(Wanted(cur.blkt))
  BY <1>1, <1>2, RestWanted DEF Shaped
<1>5. pos' \in 1..(Len(text) + 1)
  BY <1>1, <1>2, AllTyped
<1>6. InTypes'
  BY <1>2, <1>3, <1>4, <1>5, AllTyped, StillTyped
<1> QED BY <1>2, <1>3, <1>4, <1>6 DEF Shaped

LEMMA ColumnsTyped ==
  ASSUME InTypes, Shaped, Columns
  PROVE  InTypes' /\ Shaped'
<1>1. /\ todo' = Tail(todo) /\ todo # <<>> /\ pc \in {"header", "reading"}
      /\ format' = text[Sought].val - 5 /\ Sought # 0
      /\ UNCHANGED <<input, pos, pc, first_line, first_field, cur, tmp_seq, blkts, channels>>
  BY DEF Columns, Looking
<1>2. todo' \in Seq(Wanted(cur.blkt))
  <2> DEFINE W == Wanted(cur.blkt)
  <2>1. todo \in Seq(W)
    BY <1>1 DEF Shaped
  <2> HIDE DEF W
  <2>2. Tail(todo) \in Seq(W)
    BY <1>1, <2>1
  <2> QED BY <1>1, <2>2 DEF W
<1>3. text[Sought].val \in Nat
  <2>1. text[Sought] \in Line
    BY <1>1, Found, AllTyped
  <2> QED BY <2>1 DEF Line
<1>4. InTypes'
  BY <1>1, <1>2, <1>3, AllTyped, StillTyped
<1> QED BY <1>1, <1>2, <1>4 DEF Shaped

(* A reader that comes to the end of the text leaves off.                   *)
LEMMA LeftOff ==
  ASSUME InTypes, Shaped, pc = "reading", todo' = <<>>, cur' = [cur EXCEPT !.complete = FALSE],
         pos' \in 1..(Len(text) + 1),
         UNCHANGED <<input, pc, first_line, first_field, format, tmp_seq, blkts, channels>>
  PROVE  InTypes' /\ Shaped'
<1>1. cur' \in Blk(DOMAIN text) /\ cur'.blkt = cur.blkt /\ cur'.seqs = cur.seqs
  BY AllTyped DEF Blk
<1>2. InTypes'
  BY <1>1, AllTyped, StillTyped
<1>3. todo' \in Seq(Wanted(cur.blkt))
  <2> DEFINE W == Wanted(cur.blkt)
  <2> HIDE DEF W
  <2>1. <<>> \in Seq(W)
    OBVIOUS
  <2> QED BY <2>1 DEF W
<1> QED BY <1>1, <1>2, <1>3 DEF Shaped

LEMMA NoFieldTyped ==
  ASSUME InTypes, Shaped, NoField
  PROVE  InTypes' /\ Shaped'
<1>1. CASE pc = "header"
  BY <1>1, FailTyped DEF NoField
<1>2. CASE pc # "header"
  <2>1. /\ pc = "reading" /\ todo' = <<>> /\ cur' = [cur EXCEPT !.complete = FALSE]
        /\ pos' \in {pos, Len(text) + 1}
        /\ UNCHANGED <<input, pc, first_line, first_field, format, tmp_seq, blkts, channels>>
    BY <1>2 DEF NoField, Looking
  <2>2. pos' \in 1..(Len(text) + 1)
    BY <2>1, AllTyped
  <2> QED BY <2>1, <2>2, LeftOff
<1> QED BY <1>1, <1>2

(* The line of the location.                                                *)
LEMMA LocationTyped ==
  ASSUME InTypes, Shaped, Location
  PROVE  InTypes' /\ Shaped'
<1> DEFINE p == NextLine(text, pos)
           W == Wanted(50)
<1>1. pc = "header" /\ todo # <<>>
  BY DEF Location
<1>2. todo \in Seq(W) /\ cur.blkt = 50
  BY <1>1 DEF Shaped
<1>3. Item(52, 4, "word", 0) \in W
  BY DEF Wanted, Item, ItemType, Role, Bears
<1>4. Tail(todo) \in Seq(W) /\ <<Item(52, 4, "word", 0)>> \o Tail(todo) \in Seq(W)
  <2> HIDE DEF W
  <2>1. Tail(todo) \in Seq(W)
    BY <1>1, <1>2
  <2>2. <<Item(52, 4, "word", 0)>> \in Seq(W)
    BY <1>3
  <2> QED BY <2>1, <2>2, ConcatParts
<1>5. CASE Fail
  BY <1>5, FailTyped
<1>6. ASSUME NEW rest \in Seq(W), p # 0, pos' = p + 1, todo' = rest,
             cur' = [cur EXCEPT !.lines = Append(@, p)],
             UNCHANGED <<input, pc, first_line, first_field, format, tmp_seq, blkts, channels>>
      PROVE  InTypes' /\ Shaped'
  <2>1. p \in DOMAIN text /\ p \in 1..Len(text)
    BY <1>6, Found, AllTyped
  <2>2. pos' \in 1..(Len(text) + 1)
    BY <1>6, <2>1, AllTyped
  <2>3. Append(cur.lines, p) \in Seq(DOMAIN text)
    <3> DEFINE D == DOMAIN text
    <3>1. cur.lines \in Seq(D)
      BY AllTyped DEF Blk
    <3> HIDE DEF D, p
    <3>2. p \in D
      BY <2>1 DEF D
    <3> QED BY <3>1, <3>2 DEF D
  <2> HIDE DEF p
  <2>4. cur' \in Blk(DOMAIN text) /\ cur'.blkt = cur.blkt
    BY <1>6, <2>3, AllTyped DEF Blk
  <2>5. InTypes'
    BY <1>6, <2>2, <2>4, AllTyped, StillTyped
  <2> QED BY <1>1, <1>2, <1>6, <2>4, <2>5 DEF Shaped
<1>7. \/ Fail
      \/ \E rest \in Seq(W) :
           /\ p # 0 /\ pos' = p + 1 /\ todo' = rest /\ cur' = [cur EXCEPT !.lines = Append(@, p)]
           /\ UNCHANGED <<input, pc, first_line, first_field, format, tmp_seq, blkts, channels>>
  <2> HIDE DEF W
  <2> QED BY <1>4 DEF Location
<1> QED BY <1>5, <1>6, <1>7

LEMMA HeaderReadTyped ==
  ASSUME InTypes, Shaped, HeaderRead
  PROVE  InTypes' /\ Shaped'
<1>1. blkts' = <<cur>> /\ pc' = "data" /\ first_field' = Unset /\ tmp_seq' = 0
      /\ UNCHANGED <<input, pos, first_line, todo, cur, format, channels>>
  BY DEF HeaderRead
<1>2. blkts' \in Seq(Blk(DOMAIN text)) /\ blkts' # <<>>
  <2> DEFINE B == Blk(DOMAIN text)
  <2>1. cur \in B
    BY AllTyped
  <2> HIDE DEF B
  <2>2. <<cur>> \in Seq(B) /\ <<cur>> # <<>>
    BY <2>1
  <2> QED BY <1>1, <2>2 DEF B
<1>3. InTypes'
  BY <1>1, <1>2, AllTyped, StillTyped
<1> QED BY <1>1, <1>2, <1>3 DEF Shaped

LEMMA StartBlocketteTyped ==
  ASSUME InTypes, Shaped, StartBlockette
  PROVE  InTypes' /\ Shaped'
<1> DEFINE p == NextLine(text, pos)
           l == text[p]
           items == Reader(l.blkt, l.fld = 5, l.blkt = 54 /\ IsIirCoeffs(text, p + 1))
           seqs == IF l.blkt = 60 THEN <<>> ELSE <<IF l.blkt \in Plain THEN 0 ELSE tmp_seq>>
<1>1. p # 0 /\ l.blkt \in Known /\ pc = "data"
  BY DEF StartBlockette, AtLine
<1>2. p \in DOMAIN text /\ l \in Line /\ p \in 1..Len(text)
  BY <1>1, Found, AllTyped
<1>3. CASE Fail
  BY <1>3, FailTyped
<1>4. CASE ~Fail
  <2>1. /\ l.fld \in (IF l.blkt = 60 THEN {3} ELSE {3, 5})
        /\ pc' = "reading" /\ pos' = p + 1 /\ first_field' = l.fld /\ todo' = Rest(items, l)
        /\ cur' = [blkt |-> l.blkt, seqs |-> Numbered(seqs, items[1].role, l),
                   lines |-> <<p>>, complete |-> TRUE]
        /\ format' = 0
        /\ UNCHANGED <<input, first_line, tmp_seq, blkts, channels>>
    BY <1>4 DEF StartBlockette
  <2>2. (l.fld = 5) \in BOOLEAN /\ (l.blkt = 54 /\ IsIirCoeffs(text, p + 1)) \in BOOLEAN
        /\ (l.blkt = 60 => ~(l.fld = 5))
    BY <2>1
  <2>3. items \in Seq(Wanted(l.blkt)) /\ items # <<>>
    BY <1>1, <2>2, BlocketteAsks
  <2>4. seqs \in Seq(Nat) /\ (l.blkt # 60 => Len(seqs) > 0)
    <3>1. \A n \in Nat : <<n>> \in Seq(Nat) /\ Len(<<n>>) > 0
      OBVIOUS
    <3>2. <<>> \in Seq(Nat)
      OBVIOUS
    <3> QED BY <3>1, <3>2, AllTyped
  <2> HIDE DEF items, seqs
  <2>5. todo' \in Seq(Wanted(l.blkt))
    BY <1>2, <2>1, <2>3, RestWanted
  <2> DEFINE numbered == Numbered(seqs, items[1].role, l)
  <2>6. numbered \in Seq(Nat) /\ (l.blkt # 60 => Len(numbered) > 0)
    <3>1. numbered \in Seq(Nat) /\ Len(numbered) >= Len(seqs)
      BY <1>2, <2>4, NumberedIs
    <3> HIDE DEF numbered
    <3>2. Len(numbered) \in Nat /\ Len(seqs) \in Nat
      BY <2>4, <3>1
    <3> QED BY <2>4, <3>1, <3>2
  <2>7. <<p>> \in Seq(DOMAIN text)
    <3> DEFINE D == DOMAIN text
    <3> HIDE DEF D, p
    <3>1. p \in D
      BY <1>2 DEF D
    <3>2. <<p>> \in Seq(D)
      BY <3>1
    <3> QED BY <3>2 DEF D
  <2>8. cur' = [blkt |-> l.blkt, seqs |-> numbered, lines |-> <<p>>, complete |-> TRUE]
    BY <2>1
  <2>9. pos' \in 1..(Len(text) + 1) /\ l.fld \in 0..23
    <3>1. p + 1 \in 1..(Len(text) + 1)
      BY <1>2, AllTyped
    <3>2. l.fld \in 0..23
      BY <1>2 DEF Line
    <3> QED BY <2>1, <3>1, <3>2
  <2> HIDE DEF numbered, p, l
  <2>10. cur' \in Blk(DOMAIN text) /\ cur'.blkt = l.blkt /\ cur'.seqs = numbered
    BY <1>1, <2>6, <2>7, <2>8 DEF Blk
  <2>11. InTypes'
    BY <2>1, <2>5, <2>9, <2>10, AllTyped, StillTyped
  <2>12. blkts' # <<>>
    BY <1>1, <2>1 DEF Shaped
  <2> QED BY <1>1, <2>1, <2>5, <2>6, <2>10, <2>11, <2>12 DEF Shaped
<1> QED BY <1>3, <1>4

LEMMA SkipUnknownTyped ==
  ASSUME InTypes, Shaped, SkipUnknown
  PROVE  InTypes' /\ Shaped'
<1> DEFINE p == NextLine(text, pos)
<1>1. /\ p # 0 /\ pos' = p + 1 /\ first_field' = text[p].fld
      /\ UNCHANGED <<input, pc, first_line, todo, cur, format, tmp_seq, blkts, channels>>
  BY DEF SkipUnknown, AtLine
<1>2. p \in 1..Len(text) /\ text[p].fld \in 0..23
  <2>1. p \in DOMAIN text /\ p \in 1..Len(text) /\ text[p] \in Line
    BY <1>1, Found, AllTyped
  <2>2. text[p].fld \in 0..23
    BY <2>1 DEF Line
  <2> QED BY <2>1, <2>2
<1> HIDE DEF p
<1>3. pos' \in 1..(Len(text) + 1)
  BY <1>1, <1>2, AllTyped
<1>4. InTypes'
  BY <1>1, <1>2, <1>3, AllTyped, StillTyped
<1> QED BY <1>1, <1>4 DEF Shaped

LEMMA DeliverTyped ==
  ASSUME InTypes, Shaped, Deliver
  PROVE  InTypes' /\ Shaped'
<1>1. /\ pc = "reading" /\ pc' = "data" /\ blkts' = Append(blkts, cur)
      /\ tmp_seq' = IF cur.blkt \in Plain \cup {60} THEN tmp_seq ELSE cur.seqs[1]
      /\ UNCHANGED <<input, pos, first_line, first_field, todo, cur, format, channels>>
  BY DEF Deliver
<1>2. blkts' \in Seq(Blk(DOMAIN text)) /\ blkts' # <<>>
  <2> DEFINE B == Blk(DOMAIN text)
  <2>1. cur \in B /\ blkts \in Seq(B)
    BY AllTyped
  <2> HIDE DEF B
  <2>2. Append(blkts, cur) \in Seq(B) /\ Append(blkts, cur) # <<>>
    BY <2>1, AppendProperties
  <2> QED BY <1>1, <2>2 DEF B
<1>3. tmp_seq' \in Nat
  <2>1. CASE cur.blkt \in Plain \cup {60}
    BY <1>1, <2>1, AllTyped
  <2>2. CASE cur.blkt \notin Plain \cup {60}
    <3>1. cur.seqs \in Seq(Nat) /\ Len(cur.seqs) > 0
      BY <1>1, <2>2, AllTyped DEF Shaped, Blk
    <3>2. cur.seqs[1] \in Nat
      BY <3>1
    <3> QED BY <1>1, <2>2, <3>2
  <2> QED BY <2>1, <2>2
<1>4. InTypes'
  BY <1>1, <1>2, <1>3, AllTyped, StillTyped
<1> QED BY <1>1, <1>2, <1>4 DEF Shaped

LEMMA ChannelDoneTyped ==
  ASSUME InTypes, Shaped, ChannelDone
  PROVE  InTypes' /\ Shaped'
<1> DEFINE p == NextLine(text, pos)
<1>1. CASE Fail
  BY <1>1, FailTyped
<1>2. CASE ~Fail
  <2>1. /\ pc' = "channels" /\ pos' = (IF p = 0 THEN Len(text) + 1 ELSE p + 1)
        /\ first_line' = p /\ channels' = Append(channels, blkts) /\ blkts' = <<>>
        /\ UNCHANGED <<input, first_field, todo, cur, format, tmp_seq>>
    BY <1>2 DEF ChannelDone
  <2>2. p # 0 => p \in 1..Len(text)
    BY Found, AllTyped
  <2> HIDE DEF p
  <2>3. pos' \in 1..(Len(text) + 1) /\ first_line' \in 0..Len(text)
    <3>1. PICK n \in Nat : n = Len(text)
      BY AllTyped
    <3>2. p # 0 => p \in 1..n
      BY <2>2, <3>1
    <3> QED BY <2>1, <3>1, <3>2
  <2>4. blkts' \in Seq(Blk(DOMAIN text)) /\ channels' \in Seq(Seq(Blk(DOMAIN text)))
    <3> DEFINE B == Blk(DOMAIN text)
               T == Seq(B)
    <3>1. channels \in Seq(T) /\ blkts \in T
      BY AllTyped
    <3> HIDE DEF B
    <3>2. <<>> \in Seq(B)
      OBVIOUS
    <3> HIDE DEF T
    <3>3. Append(channels, blkts) \in Seq(T)
      BY <3>1
    <3> QED BY <2>1, <3>2, <3>3 DEF B, T
  <2>5. InTypes'
    BY <2>1, <2>3, <2>4, AllTyped, StillTyped
  <2> QED BY <2>1, <2>5 DEF Shaped
<1> QED BY <1>1, <1>2

LEMMA ResponseTyped ==
  ASSUME InTypes, Shaped, Response
  PROVE  InTypes' /\ Shaped'
<1> DEFINE p == NextLine(text, pos)
           l == text[p]
           k == BaseOf(l.blkt)
           items == Reader(k, l.fld = 5, FALSE)
           opens == IF k \in Plain /\ l.fld = 3 THEN Item(l.blkt, 3, "line", 0) ELSE items[1]
           W == Wanted(60)
<1>1. todo # <<>> /\ pc \in {"header", "reading"} /\ todo[1].role = "response"
  BY DEF Response, Looking
<1>2. pc = "reading" /\ cur.blkt = 60 /\ todo \in Seq(W)
  <2>1. todo \in Seq(Wanted(cur.blkt))
    BY <1>1 DEF Shaped
  <2>2. todo[1] \in Wanted(cur.blkt)
    <3> DEFINE V == Wanted(cur.blkt)
    <3> HIDE DEF V
    <3>1. todo \in Seq(V)
      BY <2>1 DEF V
    <3>2. todo[1] \in V
      BY <1>1, <3>1
    <3> QED BY <3>2 DEF V
  <2>3. cur.blkt = 60
    BY <1>1, <2>2 DEF Wanted
  <2> QED BY <1>1, <2>1, <2>3 DEF Shaped
<1>3. CASE Fail
  BY <1>3, FailTyped
<1>4. CASE p = 0
  <2>1. /\ todo' = <<>> /\ cur' = [cur EXCEPT !.complete = FALSE] /\ pos' = Len(text) + 1
        /\ UNCHANGED <<input, pc, first_line, first_field, format, tmp_seq, blkts, channels>>
    BY <1>4 DEF Response
  <2>2. pos' \in 1..(Len(text) + 1)
    BY <2>1, AllTyped
  <2> QED BY <1>2, <2>1, <2>2, LeftOff
<1>5. CASE p # 0 /\ ~Fail
  <2>1. /\ l.blkt \in {41} \cup 43..48 /\ l.fld \in {3, 5}
        /\ pos' = p + 1
        /\ todo' = Rest(<<opens>> \o Tail(items), l) \o Tail(todo)
        /\ cur' = [cur EXCEPT !.seqs = Numbered(@, opens.role, l), !.lines = Append(@, p)]
        /\ format' = 0
        /\ UNCHANGED <<input, pc, first_line, first_field, tmp_seq, blkts, channels>>
    BY <1>5 DEF Response
  <2>2. p \in DOMAIN text /\ l \in Line /\ p \in 1..Len(text)
    BY <1>5, Found, AllTyped
  <2>3. items \in Seq(W) /\ items # <<>>
    BY <2>1, ResponseAsks
  <2>4. Item(l.blkt, 3, "line", 0) \in W
    BY <2>1 DEF Wanted, Item, ItemType, Role, Bears
  <2> HIDE DEF items, W
  <2>5. opens \in W /\ Tail(items) \in Seq(W) /\ Tail(todo) \in Seq(W)
    <3>1. items[1] \in W /\ Tail(items) \in Seq(W)
      BY <2>3
    <3>2. Tail(todo) \in Seq(W)
      BY <1>1, <1>2
    <3> QED BY <2>4, <3>1, <3>2
  <2> HIDE DEF opens
  <2> DEFINE asked == <<opens>> \o Tail(items)
  <2>6. asked \in Seq(W) /\ asked # <<>>
    <3>1. <<opens>> \in Seq(W) /\ Len(<<opens>>) = 1
      BY <2>5
    <3>2. asked \in Seq(W) /\ Len(asked) = 1 + Len(Tail(items)) /\ Len(Tail(items)) \in Nat
      BY <2>5, <3>1, ConcatParts
    <3> HIDE DEF asked
    <3>3. Len(<<>>) = 0
      OBVIOUS
    <3> QED BY <3>2, <3>3
  <2> HIDE DEF asked, l
  <2>7. Rest(asked, l) \in Seq(W)
    BY <2>2, <2>6, RestWanted DEF W
  <2>8. todo' \in Seq(W)
    BY <2>1, <2>5, <2>7, ConcatParts DEF asked
  <2>9. /\ cur' \in Blk(DOMAIN text) /\ cur'.blkt = cur.blkt
    BY <2>1, <2>2, LineAdded DEF l
  <2>10. pos' \in 1..(Len(text) + 1)
    <3> HIDE DEF p
    <3>1. PICK n \in Nat : n = Len(text)
      BY AllTyped
    <3> QED BY <2>1, <2>2, <3>1
  <2>11. todo' \in Seq(Wanted(60))
    BY <2>8 DEF W
  <2>12. InTypes'
    <3>1. /\ format' = 0
          /\ UNCHANGED <<input, pc, first_line, first_field, tmp_seq, blkts, channels>>
      BY <2>1
    <3>2. \E n : todo' \in Seq(Wanted(n))
      BY <2>11
    <3> QED BY <2>9, <2>10, <3>1, <3>2, AllTyped, StillTyped
  <2> QED BY <1>2, <2>1, <2>9, <2>11, <2>12 DEF Shaped
<1> QED BY <1>3, <1>4, <1>5

(* Every step keeps the types.                                              *)
LEMMA NextTyped ==
  ASSUME InTypes, Shaped, [Next]_vars
  PROVE  InTypes' /\ Shaped'
<1>1. CASE UNCHANGED vars
  <2>1. UNCHANGED <<input, pos, pc, first_line, first_field, todo, cur, format, tmp_seq, blkts,
                    channels>>
    BY <1>1 DEF vars, input
  <2>2. InTypes'
    BY <2>1, AllTyped, StillTyped
  <2> QED BY <2>1, <2>2 DEF Shaped
<1>2. CASE BadField
  BY <1>2, FailTyped DEF BadField
<1>3. CASE BadLine
  BY <1>3, FailTyped DEF BadLine
<1> QED BY <1>1, <1>2, <1>3, BeginChannelTyped, AllReadTyped, ReadFieldTyped, ColumnsTyped,
          NoFieldTyped, LocationTyped, HeaderReadTyped, StartBlocketteTyped, SkipUnknownTyped,
          ResponseTyped, DeliverTyped, ChannelDoneTyped DEF Next

(* Whatever may have happened to a line, it is one.                         *)
LEMMA HarmedIsLine ==
  ASSUME NEW l \in Line, NEW how \in Harms, MayBe(l, how)
  PROVE  Harmed(l, how) \in Line
<1>1. how \in {"lost", "bad", "empty", "prefix", "fewer", "more"}
  BY SourcesAssumption
<1>2. how = "fewer" => l.val > 0
  BY DEF MayBe
<1>3. Comment \in {Comment, BadPrefix} \cup 41..62 /\ BadPrefix \in {Comment, BadPrefix} \cup 41..62
  OBVIOUS
<1>4. /\ [l EXCEPT !.form = "bad"] \in Line
      /\ [l EXCEPT !.form = "empty"] \in Line
      /\ [l EXCEPT !.blkt = BadPrefix] \in Line
      /\ [l EXCEPT !.val = @ + 1] \in Line
      /\ how = "fewer" => [l EXCEPT !.val = @ - 1] \in Line
      /\ CommentLine \in Line
  BY <1>2, <1>3 DEF Line, Form, CommentLine, Ln
<1> QED BY <1>1, <1>4 DEF Harmed

LEMMA InitTyped ==
  ASSUME Init
  PROVE  InTypes /\ Shaped
<1> DEFINE T == Flat(source)
<1>1. source \in Seq(Seq(Seq(Line)))
  BY SourcesAssumption DEF Init
<1>2. T \in Seq(Line)
  <2> DEFINE parts == [i \in DOMAIN source |-> FlattenSeq(source[i])]
             L == Seq(Line)
             LL == Seq(L)
  <2>1. source \in Seq(LL)
    BY <1>1
  <2>2. \A s \in LL : FlattenSeq(s) \in L
    BY FlattenInSeq
  <2> HIDE DEF L, LL
  <2>3. DOMAIN source = 1..Len(source) /\ Len(source) \in Nat
        /\ \A i \in 1..Len(source) : source[i] \in LL
    BY <2>1
  <2>4. parts \in Seq(L)
    BY <2>2, <2>3
  <2> HIDE DEF parts
  <2>5. FlattenSeq(parts) \in Seq(Line)
    BY <2>4, FlattenInSeq DEF L
  <2> QED BY <2>5 DEF Flat, parts
<1> HIDE DEF T
<1>3. DOMAIN T = 1..Len(T) /\ Len(T) \in Nat
  BY <1>2
<1>4. /\ text \in Seq(Line) /\ harm.at \in 0..Len(text)
  <2>1. CASE harm = [at |-> 0, how |-> "none"] /\ text = Flat(source)
    BY <1>2, <1>3, <2>1 DEF T
  <2>2. ASSUME NEW at \in DOMAIN T, NEW how \in Harms, MayBe(T[at], how),
               harm = [at |-> at, how |-> how], text = [T EXCEPT ![at] = Harmed(@, how)]
        PROVE  text \in Seq(Line) /\ harm.at \in 0..Len(text)
    <3>1. T[at] \in Line
      BY <1>2
    <3> DEFINE new == Harmed(T[at], how)
    <3>2. new \in Line
      BY <2>2, <3>1, HarmedIsLine
    <3> HIDE DEF new
    <3>3. PICK n \in Nat : n = Len(T) /\ DOMAIN T = 1..n
      BY <1>3
    <3>4. text = [i \in 1..n |-> IF i = at THEN new ELSE T[i]]
      BY <2>2, <3>3 DEF new
    <3>5. \A i \in 1..n : (IF i = at THEN new ELSE T[i]) \in Line
      BY <1>2, <3>2, <3>3
    <3>6. text \in Seq(Line) /\ Len(text) = n
      <4> DEFINE L == Line
      <4> HIDE DEF L
      <4>1. \A i \in 1..n : (IF i = at THEN new ELSE T[i]) \in L
        BY <3>5 DEF L
      <4>2. text \in Seq(L) /\ Len(text) = n
        BY <3>4, <4>1
      <4> QED BY <4>2 DEF L
    <3>7. harm.at = at /\ at \in 1..n
      BY <2>2, <3>3
    <3> QED BY <3>6, <3>7
  <2>3. \/ harm = [at |-> 0, how |-> "none"] /\ text = Flat(source)
        \/ \E at \in DOMAIN T, how \in Harms :
             /\ MayBe(T[at], how)
             /\ harm = [at |-> at, how |-> how]
             /\ text = [T EXCEPT ![at] = Harmed(@, how)]
    BY DEF Init, T
  <2> QED BY <2>1, <2>2, <2>3
<1>5. PICK n \in Nat : n = Len(text)
  BY <1>4
<1>6. /\ source \in Sources /\ pos = 1 /\ pc = "channels" /\ first_line = 0 /\ first_field = Unset
      /\ todo = <<>> /\ cur = [blkt |-> 0, seqs |-> <<>>, lines |-> <<>>, complete |-> TRUE]
      /\ format = 0 /\ tmp_seq = 0 /\ blkts = <<>> /\ channels = <<>>
  BY DEF Init
<1>7. pos \in 1..(Len(text) + 1) /\ first_line \in 0..Len(text)
  BY <1>5, <1>6
<1>8. \A S : <<>> \in Seq(S)
  OBVIOUS
<1>9. cur \in Blk(DOMAIN text) /\ cur.seqs \in Seq(Nat) /\ cur.lines \in Seq(DOMAIN text)
  BY <1>6, <1>8 DEF Blk
<1>10. TypeOK
  BY <1>4, <1>6, <1>7, <1>8, <1>9 DEF TypeOK
<1> QED BY <1>6, <1>8, <1>9, <1>10 DEF InTypes, Shaped

(* Whatever the text is and was harmed by, a reader asks for fields, knows   *)
(* positions in the text and numbers, and no step leads out of these.       *)
THEOREM ReaderInTypes == Spec => []TypeOK
<1>1. Init => InTypes /\ Shaped
  BY InitTyped
<1>2. InTypes /\ Shaped /\ [Next]_vars => (InTypes /\ Shaped)'
  BY NextTyped
<1>3. InTypes => TypeOK
  BY DEF InTypes
<1> QED BY <1>1, <1>2, <1>3, PTL DEF Spec

-----------------------------------------------------------------------------
(* Blockettes in their order, the lines of one, and those all behind p.     *)
Sound(t, r) ==
  Ascending(r.lines) /\ \A i \in DOMAIN r.lines : t[r.lines[i]].blkt \in Bears(r.blkt)

InOrder(t, B) ==
  \A n \in DOMAIN B :
    /\ Sound(t, B[n])
    /\ \A m \in 1..(n - 1) : \A p \in Range(B[m].lines), q \in Range(B[n].lines) : p < q

Behind(B, p) == \A n \in DOMAIN B : \A q \in Range(B[n].lines) : q < p

(* The lines of a blockette that is being read follow those of the ones      *)
(* before it, and the reader is past them; so is the line kept for the next  *)
(* channel.                                                                 *)
Ordered ==
  /\ InOrder(text, Blockettes)
  /\ Behind(Blockettes, pos)
  /\ pc \in {"header", "reading"} =>
       Sound(text, cur) /\ \A q \in Range(cur.lines) : q < pos /\ Behind(Blockettes, q)
  /\ pc = "channels" /\ first_line # 0 =>
       first_line < pos /\ text[first_line].blkt = 50 /\ Behind(Blockettes, first_line)

LEMMA InOrderIs == InOrder(text, Blockettes) => LinesInOrder
BY DEF InOrder, Sound, LinesInOrder

LEMMA FurtherOn ==
  ASSUME NEW D \in SUBSET Nat, NEW B \in Seq(Blk(D)), NEW p \in Nat, NEW q \in Nat, p <= q, Behind(B, p)
  PROVE  Behind(B, q)
<1>1. ASSUME NEW n \in DOMAIN B, NEW x \in Range(B[n].lines)
      PROVE  x < q
  <2>1. B[n] \in Blk(D)
    <3> DEFINE S == Blk(D)
    <3> HIDE DEF S
    <3>1. B \in Seq(S)
      BY DEF S
    <3>2. B[n] \in S
      BY <3>1
    <3> QED BY <3>2 DEF S
  <2>2. B[n].lines \in Seq(D)
    BY <2>1 DEF Blk
  <2>3. x \in D
    BY <2>2 DEF Range
  <2>4. x \in Nat /\ x < p
    BY <2>3 DEF Behind
  <2> QED BY <2>4
<1> QED BY <1>1 DEF Behind

(* A blockette whose lines follow those of all others may come behind them. *)
LEMMA PutBehind ==
  ASSUME NEW D \in SUBSET Nat, NEW t, NEW B \in Seq(Blk(D)), NEW r \in Blk(D), InOrder(t, B),
         Sound(t, r), \A q \in Range(r.lines) : Behind(B, q),
         NEW p \in Nat, Behind(B, p), \A q \in Range(r.lines) : q < p
  PROVE  InOrder(t, Append(B, r)) /\ Behind(Append(B, r), p)
<1> DEFINE S == Blk(D)
           C == Append(B, r)
<1>1. B \in Seq(S) /\ r \in S
  OBVIOUS
<1> HIDE DEF S
<1>2. PICK n \in Nat : n = Len(B) /\ DOMAIN B = 1..n
  BY <1>1
<1>3. /\ DOMAIN C = 1..(n + 1) /\ C[n + 1] = r
      /\ \A i \in 1..n : C[i] = B[i]
  BY <1>1, <1>2, AppendProperties
<1> HIDE DEF C
<1>4. ASSUME NEW i \in 1..(n + 1)
      PROVE  /\ Sound(t, C[i])
             /\ \A m \in 1..(i - 1) : \A x \in Range(C[m].lines), y \in Range(C[i].lines) : x < y
             /\ \A q \in Range(C[i].lines) : q < p
  <2>1. CASE i = n + 1
    <3>1. \A m \in 1..(i - 1) : m \in DOMAIN B /\ C[m] = B[m]
      BY <1>2, <1>3, <2>1
    <3>2. C[i] = r
      BY <1>3, <2>1
    <3> QED BY <3>1, <3>2 DEF Behind
  <2>2. CASE i \in 1..n
    <3>1. C[i] = B[i] /\ i \in DOMAIN B
      BY <1>2, <1>3, <2>2
    <3>2. \A m \in 1..(i - 1) : C[m] = B[m]
      BY <1>3, <2>2
    <3> QED BY <3>1, <3>2 DEF Behind, InOrder
  <2> QED BY <2>1, <2>2
<1> QED BY <1>3, <1>4 DEF InOrder, Behind, C

(* What has been read changes only when a blockette is complete.            *)
LEMMA BlockettesAre ==
  ASSUME InTypes
  PROVE  Blockettes \in Seq(Blk(DOMAIN text))
<1> DEFINE S == Blk(DOMAIN text)
           T == Seq(S)
<1>1. channels \in Seq(T) /\ blkts \in T
  BY AllTyped
<1> HIDE DEF S
<1>2. Got \in Seq(T)
  <2> HIDE DEF T
  <2> QED BY <1>1, AppendProperties DEF Got
<1>3. FlattenSeq(Got) \in Seq(S)
  BY <1>2, FlattenInSeq DEF T
<1> QED BY <1>3 DEF Blockettes, S

LEMMA SameBlockettes ==
  ASSUME UNCHANGED <<channels, blkts>>
  PROVE  Blockettes' = Blockettes
BY DEF Blockettes, Got

LEMMA BlocketteAdded ==
  ASSUME InTypes, channels' = channels, blkts' = Append(blkts, cur)
  PROVE  Blockettes' = Append(Blockettes, cur)
<1> DEFINE S == Blk(DOMAIN text)
           T == Seq(S)
<1>1. channels \in Seq(T) /\ blkts \in T /\ cur \in S
  BY AllTyped
<1> HIDE DEF S
<1>2. blkts' \in T /\ blkts' # <<>> /\ blkts' = blkts \o <<cur>> /\ <<cur>> \in T
  <2>1. <<cur>> \in T
    BY <1>1
  <2> QED BY <1>1, <2>1, AppendProperties, AppendIsConcat
<1> DEFINE F == FlattenSeq(channels)
<1>3. F \in T
  BY <1>1, FlattenInSeq
<1>4. Blockettes' = F \o blkts'
  <2>1. Blockettes' = FlattenSeq(Append(channels, blkts'))
    BY <1>2 DEF Blockettes, Got
  <2> QED BY <1>1, <1>2, <2>1, FlattenAppend
<1>5. Blockettes = F \o blkts
  <2>1. CASE blkts = <<>>
    <3>1. Blockettes = F
      BY <2>1 DEF Blockettes, Got
    <3>2. F \o <<>> = F
      BY <1>3, ConcatEmptySeq
    <3> QED BY <2>1, <3>1, <3>2
  <2>2. CASE blkts # <<>>
    <3>1. Blockettes = FlattenSeq(Append(channels, blkts))
      BY <2>2 DEF Blockettes, Got
    <3> QED BY <1>1, <3>1, FlattenAppend
  <2> QED BY <2>1, <2>2
<1> HIDE DEF F, T
<1>6. (F \o blkts) \o <<cur>> = F \o (blkts \o <<cur>>)
  BY <1>1, <1>2, <1>3, ConcatAssociative DEF T
<1>7. Blockettes \in T
  BY BlockettesAre DEF S, T
<1>8. Append(Blockettes, cur) = Blockettes \o <<cur>>
  BY <1>1, <1>7, AppendIsConcat DEF T
<1> QED BY <1>2, <1>4, <1>5, <1>6, <1>8

(* A blockette that is complete has its place.                              *)
LEMMA Delivered ==
  ASSUME InTypes, Ordered, pc \in {"header", "reading"}, UNCHANGED <<input, pos, channels>>,
         blkts' = Append(blkts, cur), pc' = "data"
  PROVE  Ordered'
<1> DEFINE D == DOMAIN text
<1>1. Blockettes' = Append(Blockettes, cur) /\ Blockettes \in Seq(Blk(D)) /\ cur \in Blk(D)
  BY BlocketteAdded, BlockettesAre, AllTyped
<1>2. D \in SUBSET Nat /\ pos \in Nat
  BY AllTyped
<1>3. /\ InOrder(text, Blockettes) /\ Behind(Blockettes, pos) /\ Sound(text, cur)
      /\ \A q \in Range(cur.lines) : Behind(Blockettes, q)
      /\ \A q \in Range(cur.lines) : q < pos
  BY DEF Ordered
<1> HIDE DEF D
<1>4. InOrder(text, Append(Blockettes, cur)) /\ Behind(Append(Blockettes, cur), pos)
  BY <1>1, <1>2, <1>3, PutBehind
<1>5. text' = text /\ pos' = pos
  BY DEF input
<1>6. InOrder(text', Blockettes') /\ Behind(Blockettes', pos')
  BY <1>1, <1>4, <1>5
<1> QED BY <1>6 DEF Ordered

(* The reader goes on in the text without reading a line.                   *)
LEMMA LineLeft ==
  ASSUME InTypes, Ordered, UNCHANGED <<input, first_line, channels, blkts>>,
         pos' \in Nat, pos' >= pos, pc' = pc \/ pc' \in {"done", "failed"},
         cur'.blkt = cur.blkt, cur'.lines = cur.lines
  PROVE  Ordered'
<1>1. text' = text
  BY DEF input
<1>2. Blockettes' = Blockettes /\ Blockettes \in Seq(Blk(DOMAIN text)) /\ DOMAIN text \in SUBSET Nat
      /\ pos \in Nat
  BY SameBlockettes, BlockettesAre, AllTyped
<1>3. InOrder(text', Blockettes') /\ Behind(Blockettes', pos')
  <2>1. Behind(Blockettes, pos) /\ InOrder(text, Blockettes)
    BY DEF Ordered
  <2>2. Behind(Blockettes, pos')
    BY <1>2, <2>1, FurtherOn
  <2> QED BY <1>1, <1>2, <2>1, <2>2
<1>4. ASSUME pc' \in {"header", "reading"}
      PROVE  Sound(text', cur') /\ \A q \in Range(cur'.lines) : q < pos' /\ Behind(Blockettes', q)
  <2>1. Sound(text, cur) /\ \A q \in Range(cur.lines) : q < pos /\ Behind(Blockettes, q)
    BY <1>4 DEF Ordered
  <2>2. Sound(text', cur')
    BY <1>1, <2>1 DEF Sound
  <2>3. ASSUME NEW q \in Range(cur.lines) PROVE q < pos'
    <3>1. q \in DOMAIN text /\ q < pos
      BY <2>1, AllTyped DEF Range, Blk
    <3> QED BY <1>2, <3>1
  <2> QED BY <1>2, <2>1, <2>2, <2>3
<1>5. ASSUME pc' = "channels", first_line' # 0
      PROVE  first_line' < pos' /\ text'[first_line'].blkt = 50 /\ Behind(Blockettes', first_line')
  <2>1. first_line < pos /\ text[first_line].blkt = 50 /\ Behind(Blockettes, first_line)
    BY <1>5 DEF Ordered
  <2>2. first_line' = first_line /\ first_line \in Nat
    BY AllTyped
  <2>3. first_line' < pos'
    BY <1>2, <2>1, <2>2
  <2> QED BY <1>1, <1>2, <2>1, <2>2, <2>3
<1> QED BY <1>3, <1>4, <1>5 DEF Ordered

(* The reader takes the line at p.                                          *)
LEMMA LineTaken ==
  ASSUME InTypes, Ordered, UNCHANGED <<input, pc, channels, blkts>>,
         pc \in {"header", "reading"}, NEW p \in pos..Len(text), pos' = p + 1,
         cur'.blkt = cur.blkt, cur'.lines = Append(cur.lines, p),
         text[p].blkt \in Bears(cur.blkt)
  PROVE  Ordered'
<1> DEFINE D == DOMAIN text
<1>1. text' = text
  BY DEF input
<1>2. Blockettes' = Blockettes /\ Blockettes \in Seq(Blk(D)) /\ D \in SUBSET Nat
      /\ pos \in Nat /\ p \in D /\ p \in Nat /\ pos <= p
  BY SameBlockettes, BlockettesAre, AllTyped
<1>3. /\ InOrder(text, Blockettes) /\ Behind(Blockettes, pos) /\ Sound(text, cur)
      /\ \A q \in Range(cur.lines) : q < pos /\ Behind(Blockettes, q)
  BY DEF Ordered
<1>4. cur.lines \in Seq(D)
  BY AllTyped DEF Blk
<1> HIDE DEF D
<1>5. Behind(Blockettes, p) /\ Behind(Blockettes, p + 1)
  BY <1>2, <1>3, FurtherOn
<1>6. PICK n \in Nat : n = Len(cur.lines) /\ DOMAIN cur.lines = 1..n
  BY <1>4
<1> DEFINE lines == Append(cur.lines, p)
<1>7. /\ DOMAIN lines = 1..(n + 1) /\ lines[n + 1] = p
      /\ \A i \in 1..n : lines[i] = cur.lines[i] /\ lines[i] \in Nat /\ lines[i] < pos
  <2>1. lines \in Seq(D) /\ Len(lines) = n + 1 /\ lines[n + 1] = p
        /\ \A i \in 1..n : lines[i] = cur.lines[i]
    BY <1>2, <1>4, <1>6, AppendProperties
  <2> HIDE DEF lines
  <2>2. DOMAIN lines = 1..(n + 1)
    BY <2>1
  <2>3. \A i \in 1..n : cur.lines[i] \in Nat /\ cur.lines[i] < pos
    <3>1. \A i \in 1..n : cur.lines[i] \in D
      BY <1>4, <1>6
    <3>2. \A i \in 1..n : cur.lines[i] \in Range(cur.lines)
      BY <1>6 DEF Range
    <3> QED BY <1>2, <1>3, <3>1, <3>2
  <2> QED BY <2>1, <2>2, <2>3
<1> HIDE DEF lines
<1>8. Ascending(lines)
  <2>1. ASSUME NEW i \in 1..(n + 1), NEW j \in 1..(n + 1), i < j
        PROVE  lines[i] < lines[j]
    <3>1. CASE j = n + 1
      <4>1. i \in 1..n
        BY <2>1, <3>1
      <4> QED BY <1>2, <1>7, <3>1, <4>1
    <3>2. CASE j # n + 1
      <4>1. i \in 1..n /\ j \in 1..n
        BY <2>1, <3>2
      <4>2. cur.lines[i] < cur.lines[j]
        BY <1>3, <1>6, <2>1, <4>1 DEF Sound, Ascending
      <4> QED BY <1>7, <4>1, <4>2
    <3> QED BY <3>1, <3>2
  <2> QED BY <1>7, <2>1 DEF Ascending
<1>9. \A i \in DOMAIN lines : text[lines[i]].blkt \in Bears(cur.blkt)
  <2>1. ASSUME NEW i \in 1..(n + 1) PROVE text[lines[i]].blkt \in Bears(cur.blkt)
    <3>1. i = n + 1 \/ i \in 1..n
      OBVIOUS
    <3> QED BY <1>3, <1>6, <1>7, <3>1 DEF Sound
  <2> QED BY <1>7, <2>1
<1>10. ASSUME NEW q \in Range(lines) PROVE q < p + 1 /\ Behind(Blockettes, q)
  <2>1. PICK i \in 1..(n + 1) : q = lines[i]
    BY <1>7 DEF Range
  <2>2. CASE i = n + 1
    BY <1>2, <1>5, <1>7, <2>1, <2>2
  <2>3. CASE i # n + 1
    <3>1. i \in 1..n
      BY <2>3
    <3>2. q \in Range(cur.lines) /\ q \in Nat /\ q < pos
      BY <1>6, <1>7, <2>1, <3>1 DEF Range
    <3> QED BY <1>2, <1>3, <3>2
  <2> QED BY <2>2, <2>3
<1>11. cur'.lines = lines /\ cur'.blkt = cur.blkt
  BY DEF lines
<1>12. Sound(text', cur')
  BY <1>1, <1>8, <1>9, <1>11 DEF Sound
<1>13. \A q \in Range(cur'.lines) : q < pos' /\ Behind(Blockettes', q)
  BY <1>2, <1>10, <1>11
<1>14. InOrder(text', Blockettes') /\ Behind(Blockettes', pos')
  BY <1>1, <1>2, <1>3, <1>5
<1> QED BY <1>12, <1>13, <1>14 DEF Ordered

LEMMA FailOrdered ==
  ASSUME InTypes, Ordered, Fail
  PROVE  Ordered'
<1>1. pos \in Nat
  BY AllTyped
<1> QED BY <1>1, LineLeft DEF Fail

LEMMA BeginChannelOrdered ==
  ASSUME InTypes, Ordered, BeginChannel
  PROVE  Ordered'
<1>1. /\ text' = text /\ pos' = pos /\ pc = "channels" /\ pc' = "header" /\ first_line' = first_line
      /\ cur'.blkt = 50 /\ cur'.lines = IF first_line = 0 THEN <<>> ELSE <<first_line>>
  BY DEF BeginChannel, input
<1>2. Blockettes' = Blockettes
  BY SameBlockettes DEF BeginChannel
<1>3. CASE first_line = 0
  <2>1. cur'.lines = <<>>
    BY <1>1, <1>3
  <2>2. Sound(text', cur') /\ Range(cur'.lines) = {}
    BY <2>1 DEF Sound, Ascending, Range
  <2> QED BY <1>1, <1>2, <2>2 DEF Ordered
<1>4. CASE first_line # 0
  <2>1. cur'.lines = <<first_line>>
    BY <1>1, <1>4
  <2>2. first_line < pos /\ text[first_line].blkt = 50 /\ Behind(Blockettes, first_line)
    BY <1>1, <1>4 DEF Ordered
  <2>3. DOMAIN cur'.lines = {1} /\ cur'.lines[1] = first_line
    BY <2>1
  <2>4. Sound(text', cur')
    <3>1. Ascending(cur'.lines)
      BY <2>3 DEF Ascending
    <3> QED BY <1>1, <2>2, <2>3, <3>1 DEF Sound, Bears
  <2>5. \A q \in Range(cur'.lines) : q = first_line
    BY <2>3 DEF Range
  <2> QED BY <1>1, <1>2, <2>2, <2>4, <2>5 DEF Ordered
<1> QED BY <1>3, <1>4

LEMMA ReadFieldOrdered ==
  ASSUME InTypes, Shaped, Ordered, ReadField
  PROVE  Ordered'
<1> DEFINE p == Sought
<1>1. /\ UNCHANGED <<input, pc, channels, blkts>> /\ pc \in {"header", "reading"} /\ todo # <<>>
      /\ pos' = p + 1 /\ p # 0 /\ text[p].blkt # BadPrefix /\ todo[1].role # "response"
      /\ cur' = [cur EXCEPT !.seqs = Numbered(@, todo[1].role, text[p]), !.lines = Append(@, p)]
  BY DEF ReadField, Looking, Acceptable
<1>2. p \in pos..Len(text) /\ p \in DOMAIN text /\ text[p].blkt = todo[1].blkt
  BY <1>1, Found
<1>3. todo[1].blkt \in Bears(cur.blkt)
  <2> DEFINE W == Wanted(cur.blkt)
  <2>1. todo \in Seq(W)
    BY <1>1 DEF Shaped
  <2> HIDE DEF W
  <2>2. todo[1] \in W
    BY <1>1, <2>1
  <2> QED BY <1>1, <2>2 DEF W, Wanted
<1> HIDE DEF p
<1>4. cur'.blkt = cur.blkt /\ cur'.lines = Append(cur.lines, p)
  BY <1>1, <1>2, LineAdded
<1> QED BY <1>1, <1>2, <1>3, <1>4, LineTaken

LEMMA LocationOrdered ==
  ASSUME InTypes, Shaped, Ordered, Location
  PROVE  Ordered'
<1> DEFINE p == NextLine(text, pos)
<1>1. CASE Fail
  BY <1>1, FailOrdered
<1>2. CASE ~Fail
  <2>1. /\ UNCHANGED <<input, pc, channels, blkts>> /\ pc = "header"
        /\ pos' = p + 1 /\ p # 0 /\ text[p].blkt \in {BadPrefix, 52}
        /\ cur' = [cur EXCEPT !.lines = Append(@, p)]
    BY <1>2 DEF Location
  <2>2. p \in pos..Len(text)
    BY <2>1, Found
  <2>3. text[p].blkt \in Bears(cur.blkt)
    BY <2>1 DEF Bears, Shaped
  <2> HIDE DEF p
  <2>4. cur'.blkt = cur.blkt /\ cur'.lines = Append(cur.lines, p)
    BY <2>1, AllTyped DEF Blk
  <2> QED BY <2>1, <2>2, <2>3, <2>4, LineTaken
<1> QED BY <1>1, <1>2

LEMMA HeaderReadOrdered ==
  ASSUME InTypes, Shaped, Ordered, HeaderRead
  PROVE  Ordered'
<1>1. /\ pc = "header" /\ pc' = "data" /\ blkts' = <<cur>>
      /\ UNCHANGED <<input, pos, channels>>
  BY DEF HeaderRead
<1>2. blkts = <<>>
  BY <1>1 DEF Shaped
<1>3. blkts' = Append(blkts, cur)
  BY <1>1, <1>2
<1> QED BY <1>1, <1>3, Delivered

LEMMA StartBlocketteOrdered ==
  ASSUME InTypes, Ordered, StartBlockette
  PROVE  Ordered'
<1> DEFINE p == NextLine(text, pos)
<1>1. CASE Fail
  BY <1>1, FailOrdered
<1>2. CASE ~Fail
  <2>1. /\ UNCHANGED <<input, first_line, channels, blkts>> /\ pc' = "reading"
        /\ pos' = p + 1 /\ p # 0 /\ text[p].blkt \in Known
        /\ cur'.blkt = text[p].blkt /\ cur'.lines = <<p>>
    BY <1>2 DEF StartBlockette, AtLine
  <2>2. p \in pos..Len(text) /\ p \in DOMAIN text
    BY <2>1, Found
  <2>3. Blockettes' = Blockettes /\ Blockettes \in Seq(Blk(DOMAIN text)) /\ text' = text
        /\ DOMAIN text \in SUBSET Nat /\ pos \in Nat /\ p \in Nat /\ pos <= p
    BY <2>1, <2>2, SameBlockettes, BlockettesAre, AllTyped DEF input
  <2>4. text[p].blkt \in Bears(text[p].blkt)
    BY <2>1 DEF Bears, Known
  <2> HIDE DEF p
  <2>5. InOrder(text, Blockettes) /\ Behind(Blockettes, p) /\ Behind(Blockettes, p + 1)
    BY <2>3, FurtherOn DEF Ordered
  <2>6. DOMAIN cur'.lines = {1} /\ cur'.lines[1] = p
    BY <2>1
  <2>7. Ascending(cur'.lines)
    BY <2>6 DEF Ascending
  <2>8. Sound(text', cur')
    BY <2>1, <2>3, <2>4, <2>6, <2>7 DEF Sound
  <2>9. \A q \in Range(cur'.lines) : q = p
    BY <2>6 DEF Range
  <2>10. \A q \in Range(cur'.lines) : q < pos' /\ Behind(Blockettes', q)
    BY <2>1, <2>3, <2>5, <2>9
  <2> QED BY <2>1, <2>3, <2>5, <2>8, <2>10 DEF Ordered
<1> QED BY <1>1, <1>2

LEMMA ResponseOrdered ==
  ASSUME InTypes, Shaped, Ordered, Response
  PROVE  Ordered'
<1> DEFINE p == NextLine(text, pos)
<1>1. CASE Fail
  BY <1>1, FailOrdered
<1>2. ASSUME NEW role, ~Fail, p # 0, text[p].blkt \in {41} \cup 43..48, pos' = p + 1,
             cur' = [cur EXCEPT !.seqs = Numbered(@, role, text[p]), !.lines = Append(@, p)],
             UNCHANGED <<input, pc, channels, blkts>>
      PROVE  Ordered'
  <2>1. pc \in {"header", "reading"} /\ cur.blkt = 60
    <3>1. todo # <<>> /\ pc \in {"header", "reading"} /\ todo[1].role = "response"
      BY DEF Response, Looking
    <3> DEFINE W == Wanted(cur.blkt)
    <3>2. todo \in Seq(W)
      BY <3>1 DEF Shaped
    <3> HIDE DEF W
    <3>3. todo[1] \in W
      BY <3>1, <3>2
    <3> QED BY <3>1, <3>3 DEF W, Wanted
  <2>2. p \in pos..Len(text) /\ p \in DOMAIN text
    BY <1>2, Found
  <2>3. text[p].blkt \in Bears(cur.blkt)
    BY <1>2, <2>1 DEF Bears
  <2> HIDE DEF p
  <2>4. cur'.blkt = cur.blkt /\ cur'.lines = Append(cur.lines, p)
    BY <1>2, <2>2, LineAdded
  <2> QED BY <1>2, <2>1, <2>2, <2>3, <2>4, LineTaken
<1>3. CASE p = 0
  <2>1. /\ cur' = [cur EXCEPT !.complete = FALSE] /\ pos' = Len(text) + 1
        /\ UNCHANGED <<input, pc, first_line, blkts, channels>>
    BY <1>3 DEF Response
  <2>2. pos' \in Nat /\ pos' >= pos
    BY <2>1, AllTyped
  <2>3. cur'.blkt = cur.blkt /\ cur'.lines = cur.lines
    BY <2>1, AllTyped DEF Blk
  <2> QED BY <2>1, <2>2, <2>3, LineLeft
<1>4. CASE p # 0 /\ ~Fail
  <2>1. \E role : /\ text[p].blkt \in {41} \cup 43..48 /\ pos' = p + 1
                  /\ cur' = [cur EXCEPT !.seqs = Numbered(@, role, text[p]), !.lines = Append(@, p)]
                  /\ UNCHANGED <<input, pc, channels, blkts>>
    BY <1>4 DEF Response
  <2> QED BY <1>2, <1>4, <2>1
<1> QED BY <1>1, <1>3, <1>4

LEMMA ChannelDoneOrdered ==
  ASSUME InTypes, Shaped, Ordered, ChannelDone
  PROVE  Ordered'
<1> DEFINE p == NextLine(text, pos)
<1>1. CASE Fail
  BY <1>1, FailOrdered
<1>2. CASE ~Fail
  <2>1. /\ pc = "data" /\ pc' = "channels" /\ pos' = (IF p = 0 THEN Len(text) + 1 ELSE p + 1)
        /\ first_line' = p /\ channels' = Append(channels, blkts) /\ blkts' = <<>>
        /\ p # 0 => text[p].blkt = 50
        /\ text' = text
    BY <1>2 DEF ChannelDone, input
  <2>2. p # 0 => p \in pos..Len(text) /\ p \in DOMAIN text
    BY Found
  <2>3. Got' = Got
    <3>1. blkts # <<>>
      BY <2>1 DEF Shaped
    <3> QED BY <2>1, <3>1 DEF Got
  <2>4. Blockettes' = Blockettes /\ Blockettes \in Seq(Blk(DOMAIN text))
        /\ DOMAIN text \in SUBSET Nat /\ pos \in Nat /\ Len(text) \in Nat /\ pos <= Len(text) + 1
    BY <2>3, BlockettesAre, AllTyped DEF Blockettes
  <2> HIDE DEF p
  <2>5. pos' \in Nat /\ pos <= pos' /\ (p # 0 => p \in Nat /\ pos <= p /\ p < pos')
    BY <2>1, <2>2, <2>4
  <2>6. InOrder(text, Blockettes) /\ Behind(Blockettes, pos') /\ (p # 0 => Behind(Blockettes, p))
    BY <2>4, <2>5, FurtherOn DEF Ordered
  <2> QED BY <2>1, <2>4, <2>5, <2>6 DEF Ordered
<1> QED BY <1>1, <1>2

LEMMA NextOrdered ==
  ASSUME InTypes, Shaped, Ordered, [Next]_vars
  PROVE  Ordered'
<1>1. CASE UNCHANGED vars
  <2>1. UNCHANGED <<input, pos, pc, first_line, cur, blkts, channels>> /\ pos \in Nat
    BY <1>1, AllTyped DEF vars, input
  <2> QED BY <2>1, LineLeft
<1>2. CASE AllRead
  <2>1. UNCHANGED <<input, pos, first_line, cur, blkts, channels>> /\ pos \in Nat /\ pc' = "done"
    BY <1>2, AllTyped DEF AllRead
  <2> QED BY <2>1, LineLeft
<1>3. CASE Columns
  <2>1. UNCHANGED <<input, pos, pc, first_line, cur, blkts, channels>> /\ pos \in Nat
    BY <1>3, AllTyped DEF Columns
  <2> QED BY <2>1, LineLeft
<1>4. CASE NoField
  <2>1. CASE Fail
    BY <2>1, FailOrdered
  <2>2. CASE ~Fail
    <3>1. /\ UNCHANGED <<input, pc, first_line, blkts, channels>>
          /\ cur' = [cur EXCEPT !.complete = FALSE] /\ pos' \in {pos, Len(text) + 1}
      BY <1>4, <2>2 DEF NoField
    <3>2. pos' \in Nat /\ pos' >= pos
      BY <3>1, AllTyped
    <3>3. cur'.blkt = cur.blkt /\ cur'.lines = cur.lines
      BY <3>1, AllTyped DEF Blk
    <3> QED BY <3>1, <3>2, <3>3, LineLeft
  <2> QED BY <2>1, <2>2
<1>5. CASE SkipUnknown
  <2> DEFINE p == NextLine(text, pos)
  <2>1. /\ UNCHANGED <<input, pc, first_line, cur, blkts, channels>> /\ pos' = p + 1 /\ p # 0
    BY <1>5 DEF SkipUnknown, AtLine
  <2>2. p \in pos..Len(text)
    BY <2>1, Found
  <2> HIDE DEF p
  <2>3. pos' \in Nat /\ pos' >= pos
    BY <2>1, <2>2, AllTyped
  <2> QED BY <2>1, <2>3, LineLeft
<1>6. CASE Deliver
  <2>1. /\ pc = "reading" /\ pc' = "data" /\ blkts' = Append(blkts, cur)
        /\ UNCHANGED <<input, pos, channels>>
    BY <1>6 DEF Deliver
  <2> QED BY <2>1, Delivered
<1>7. CASE BadField
  BY <1>7, FailOrdered DEF BadField
<1>8. CASE BadLine
  BY <1>8, FailOrdered DEF BadLine
<1> QED BY <1>1, <1>2, <1>3, <1>4, <1>5, <1>6, <1>7, <1>8, BeginChannelOrdered, ReadFieldOrdered,
          LocationOrdered, HeaderReadOrdered, StartBlocketteOrdered, ResponseOrdered,
          ChannelDoneOrdered DEF Next

LEMMA InitOrdered ==
  ASSUME Init
  PROVE  Ordered
<1>1. pc = "channels" /\ first_line = 0 /\ channels = <<>> /\ blkts = <<>>
  BY DEF Init
<1>2. Blockettes = <<>>
  BY <1>1, FlattenEmpty DEF Blockettes, Got
<1> QED BY <1>1, <1>2 DEF Ordered, InOrder, Behind

(* No line of a text is read twice, and none out of turn, whatever the text *)
(* holds and whatever was lost from it.                                     *)
THEOREM LinesAreReadInOrder == Spec => []LinesInOrder
<1>1. Init => InTypes /\ Shaped /\ Ordered
  BY InitTyped, InitOrdered
<1>2. InTypes /\ Shaped /\ Ordered /\ [Next]_vars => (InTypes /\ Shaped /\ Ordered)'
  BY NextTyped, NextOrdered
<1>3. Ordered => LinesInOrder
  BY InOrderIs DEF Ordered
<1> QED BY <1>1, <1>2, <1>3, PTL DEF Spec

-----------------------------------------------------------------------------
(* Every step leads on in the text, or nearer to a line where the reader is. *)
LEMMA FailAdvances ==
  ASSUME InTypes, Fail, pc \in {"channels", "header", "data", "reading"}
  PROVE  Advances
<1>1. pc' = "failed" /\ pos' = pos
  BY DEF Fail
<1>2. Ahead' = 0
  BY <1>1 DEF Ahead
<1>3. 0 < Ahead
  BY DEF Ahead
<1> QED BY <1>1, <1>2, <1>3 DEF Advances

LEMMA LineAdvances ==
  ASSUME InTypes, NEW p \in pos..Len(text), pos' = p + 1
  PROVE  Advances
<1>1. pos \in Nat /\ Len(text) \in Nat
  BY AllTyped
<1> QED BY <1>1 DEF Advances

(* A reader that finds nothing asks for nothing more.                       *)
LEMMA NothingAdvances ==
  ASSUME InTypes, pc' = pc, pc \in {"header", "reading"}, todo # <<>>, todo' = <<>>,
         pos' \in {pos, Len(text) + 1}
  PROVE  Advances
<1>1. pos \in 1..(Len(text) + 1) /\ Len(text) \in Nat
  BY AllTyped
<1>2. Len(todo') < Len(todo)
  <2> DEFINE S == [blkt : {0} \cup 41..62, fld : 0..23, role : Role, group : Nat]
  <2>1. todo \in Seq(S)
    BY DEF InTypes, TypeOK
  <2> HIDE DEF S
  <2>2. Len(todo) \in Nat /\ Len(todo) # 0
    BY <2>1
  <2>3. Len(<<>>) = 0
    OBVIOUS
  <2> QED BY <2>2, <2>3
<1>3. Ahead' = Ahead
  BY DEF Ahead
<1>4. CASE pos' = pos
  BY <1>2, <1>3, <1>4 DEF Advances
<1>5. CASE pos' # pos
  <2>1. pos' = Len(text) + 1 /\ pos < pos' /\ pos' <= Len(text) + 1
    BY <1>1, <1>5
  <2> QED BY <2>1 DEF Advances
<1> QED BY <1>4, <1>5

LEMMA NextAdvances ==
  ASSUME InTypes, Next
  PROVE  Advances
<1> DEFINE p == NextLine(text, pos)
<1>1. pos \in 1..(Len(text) + 1) /\ Len(text) \in Nat
  BY AllTyped
<1>2. CASE BeginChannel
  <2>1. pc = "channels" /\ pos <= Len(text) /\ pc' = "header" /\ pos' = pos
    BY <1>2 DEF BeginChannel
  <2>2. Ahead = 4 /\ Ahead' = 3
    BY <2>1 DEF Ahead
  <2> QED BY <2>1, <2>2 DEF Advances
<1>3. CASE AllRead
  <2>1. pc = "channels" /\ pos > Len(text) /\ pc' = "done" /\ pos' = pos
    BY <1>3 DEF AllRead
  <2>2. Ahead = 1 /\ Ahead' = 0
    BY <1>1, <2>1 DEF Ahead
  <2> QED BY <2>1, <2>2 DEF Advances
<1>4. CASE ReadField
  <2>1. Sought \in pos..Len(text) /\ pos' = Sought + 1
    BY <1>4, Found DEF ReadField
  <2> HIDE DEF p
  <2> QED BY <2>1, LineAdvances
<1>5. CASE Columns
  <2>1. todo' = Tail(todo) /\ todo # <<>> /\ pos' = pos /\ pc' = pc /\ pc \in {"header", "reading"}
    BY <1>5 DEF Columns, Looking
  <2>2. Len(todo') < Len(todo)
    <3> DEFINE S == [blkt : {0} \cup 41..62, fld : 0..23, role : Role, group : Nat]
    <3>1. todo \in Seq(S)
      BY DEF InTypes, TypeOK
    <3> HIDE DEF S
    <3>2. Len(Tail(todo)) = Len(todo) - 1 /\ Len(todo) \in Nat
      BY <2>1, <3>1
    <3> QED BY <2>1, <3>2
  <2>3. Ahead' = Ahead
    BY <2>1 DEF Ahead
  <2> QED BY <2>1, <2>2, <2>3 DEF Advances
<1>6. CASE BadField
  BY <1>6, FailAdvances DEF BadField, Looking
<1>7. CASE NoField
  <2>1. pc \in {"header", "reading"} /\ todo # <<>>
    BY <1>7 DEF NoField, Looking
  <2>2. CASE Fail
    BY <2>1, <2>2, FailAdvances
  <2>3. CASE ~Fail
    <3>1. pc' = pc /\ todo' = <<>> /\ pos' \in {pos, Len(text) + 1}
      BY <1>7, <2>3 DEF NoField
    <3> QED BY <2>1, <3>1, NothingAdvances
  <2> QED BY <2>2, <2>3
<1>8. CASE Location
  <2>1. CASE Fail
    BY <1>8, <2>1, FailAdvances DEF Location
  <2>2. CASE ~Fail
    <3>1. p # 0 /\ pos' = p + 1
      BY <1>8, <2>2 DEF Location
    <3>2. p \in pos..Len(text)
      BY <3>1, Found
    <3> HIDE DEF p
    <3> QED BY <3>1, <3>2, LineAdvances
  <2> QED BY <2>1, <2>2
<1>9. CASE HeaderRead
  <2>1. pc = "header" /\ pc' = "data" /\ pos' = pos
    BY <1>9 DEF HeaderRead
  <2>2. Ahead = 3 /\ Ahead' = 2
    BY <2>1 DEF Ahead
  <2> QED BY <2>1, <2>2 DEF Advances
<1>10. CASE StartBlockette
  <2>1. pc = "data" /\ p # 0
    BY <1>10 DEF StartBlockette, AtLine
  <2>2. CASE Fail
    BY <2>1, <2>2, FailAdvances
  <2>3. CASE ~Fail
    <3>1. pos' = p + 1
      BY <1>10, <2>3 DEF StartBlockette
    <3>2. p \in pos..Len(text)
      BY <2>1, Found
    <3> HIDE DEF p
    <3> QED BY <3>1, <3>2, LineAdvances
  <2> QED BY <2>2, <2>3
<1>11. CASE SkipUnknown
  <2>1. p # 0 /\ pos' = p + 1
    BY <1>11 DEF SkipUnknown, AtLine
  <2>2. p \in pos..Len(text)
    BY <2>1, Found
  <2> HIDE DEF p
  <2> QED BY <2>1, <2>2, LineAdvances
<1>12. CASE Response
  <2>1. pc \in {"header", "reading"} /\ todo # <<>>
    BY <1>12 DEF Response, Looking
  <2>2. CASE Fail
    BY <2>1, <2>2, FailAdvances
  <2>3. CASE p = 0
    <3>1. pc' = pc /\ todo' = <<>> /\ pos' \in {pos, Len(text) + 1}
      BY <1>12, <2>3 DEF Response
    <3> QED BY <2>1, <3>1, NothingAdvances
  <2>4. CASE p # 0 /\ ~Fail
    <3>1. pos' = p + 1
      BY <1>12, <2>4 DEF Response
    <3>2. p \in pos..Len(text)
      BY <2>4, Found
    <3> HIDE DEF p
    <3> QED BY <3>1, <3>2, LineAdvances
  <2> QED BY <2>2, <2>3, <2>4
<1>13. CASE Deliver
  <2>1. pc = "reading" /\ pc' = "data" /\ pos' = pos
    BY <1>13 DEF Deliver
  <2>2. Ahead = 3 /\ Ahead' = 2
    BY <2>1 DEF Ahead
  <2> QED BY <2>1, <2>2 DEF Advances
<1>14. CASE BadLine
  BY <1>14, FailAdvances DEF BadLine
<1>15. CASE ChannelDone
  <2>1. CASE Fail
    BY <1>15, <2>1, FailAdvances DEF ChannelDone
  <2>2. CASE ~Fail
    <3>1. /\ pc = "data" /\ pc' = "channels" /\ text' = text
          /\ pos' = (IF p = 0 THEN Len(text) + 1 ELSE p + 1)
      BY <1>15, <2>2 DEF ChannelDone, input
    <3>2. CASE p # 0
      <4>1. p \in pos..Len(text) /\ pos' = p + 1
        BY <3>1, <3>2, Found
      <4> HIDE DEF p
      <4> QED BY <4>1, LineAdvances
    <3>3. CASE p = 0
      <4>1. pos' = Len(text) + 1
        BY <3>1, <3>3
      <4>2. Ahead = 2 /\ Ahead' = 1
        BY <1>1, <3>1, <4>1 DEF Ahead
      <4>3. pos' = pos \/ (pos < pos' /\ pos' <= Len(text) + 1)
        BY <1>1, <4>1
      <4> QED BY <4>2, <4>3 DEF Advances
    <3> QED BY <3>2, <3>3
  <2> QED BY <2>1, <2>2
<1> QED BY <1>2, <1>3, <1>4, <1>5, <1>6, <1>7, <1>8, <1>9, <1>10, <1>11, <1>12, <1>13, <1>14,
          <1>15 DEF Next

(* No text holds the reader up: there is a bound to its steps at every      *)
(* position, and it never goes back.                                        *)
THEOREM TextAlwaysAdvances == Spec => ReadingAdvances
<1>1. Init => InTypes /\ Shaped
  BY InitTyped
<1>2. InTypes /\ Shaped /\ [Next]_vars => (InTypes /\ Shaped)'
  BY NextTyped
<1>3. InTypes /\ [Next]_vars => [Advances]_vars
  BY NextAdvances
<1> QED BY <1>1, <1>2, <1>3, PTL DEF Spec, ReadingAdvances

-----------------------------------------------------------------------------
(* The call that opens, converts and reads a file.                          *)
Files == {"file", "temp_file"}

NoneClosed == closed["file"] = 0 /\ closed["temp_file"] = 0

ReaderSteps == {"slurp", "channels", "header", "data", "reading", "done", "failed"}

(* Which files are held at every step of the call: the inductive invariant  *)
(* behind FilesClosedOnce.                                                  *)
FilesHeld ==
  /\ convert \in BOOLEAN
  /\ pc \in {"open", "detect", "convert", "load", "write", "returned", "refused"} \cup ReaderSteps
  /\ closed \in [Files -> Nat]
  /\ pc = "open" => opened = {} /\ NoneClosed
  /\ pc = "detect" => opened = {"file"} /\ NoneClosed
  /\ pc = "convert" => convert /\ opened = {"file"} /\ NoneClosed
  /\ pc \in {"load", "write"} => convert /\ opened = Files /\ NoneClosed
  /\ pc \in ReaderSteps =>
       IF convert THEN opened = Files /\ closed["file"] = 1 /\ closed["temp_file"] = 0
       ELSE opened = {"file"} /\ NoneClosed
  /\ pc \in {"returned", "refused"} =>
       \A f \in Files : closed[f] = (IF f \in opened THEN 1 ELSE 0)

(* Whatever the reader does, it stays where text is read until it is done   *)
(* or has failed, and it touches none of the files.                         *)
LEMMA ReaderStays ==
  ASSUME Next
  PROVE  /\ pc \in {"channels", "header", "data", "reading"}
         /\ pc' \in {"channels", "header", "data", "reading", "done", "failed"}
<1>1. CASE BeginChannel
  BY <1>1 DEF BeginChannel
<1>2. CASE AllRead
  BY <1>2 DEF AllRead
<1>3. CASE ReadField
  BY <1>3 DEF ReadField, Looking
<1>4. CASE Columns
  BY <1>4 DEF Columns, Looking
<1>5. CASE BadField
  BY <1>5 DEF BadField, Looking, Fail
<1>6. CASE NoField
  BY <1>6 DEF NoField, Looking, Fail
<1>7. CASE Location
  BY <1>7 DEF Location, Fail
<1>8. CASE HeaderRead
  BY <1>8 DEF HeaderRead
<1>9. CASE StartBlockette
  BY <1>9 DEF StartBlockette, AtLine, Fail
<1>10. CASE SkipUnknown
  BY <1>10 DEF SkipUnknown, AtLine
<1>11. CASE Response
  BY <1>11 DEF Response, Looking, Fail
<1>12. CASE Deliver
  BY <1>12 DEF Deliver
<1>13. CASE BadLine
  BY <1>13 DEF BadLine, Fail
<1>14. CASE ChannelDone
  BY <1>14 DEF ChannelDone, Fail
<1> QED
  BY <1>1, <1>2, <1>3, <1>4, <1>5, <1>6, <1>7, <1>8, <1>9, <1>10, <1>11, <1>12, <1>13, <1>14
  DEF Next

(* Giving up closes exactly what is still open.                             *)
LEMMA GivenUp ==
  ASSUME FilesHeld, NEW files, GiveUp(files),
         \A f \in Files : (IF f \in opened THEN 1 ELSE 0)
                             = (IF f \in files THEN closed[f] + 1 ELSE closed[f])
  PROVE  FilesHeld'
<1>1. /\ pc' = "refused" /\ convert' = convert /\ opened' = opened
      /\ closed' = [f \in Files |-> IF f \in files THEN closed[f] + 1 ELSE closed[f]]
  BY DEF GiveUp, FilesHeld
<1>2. /\ closed' \in [Files -> Nat]
      /\ \A f \in Files : closed'[f] = (IF f \in opened' THEN 1 ELSE 0)
  BY <1>1 DEF FilesHeld
<1> QED
  BY <1>1, <1>2 DEF FilesHeld, ReaderSteps

(* Every step of the call keeps the account of the files.                  *)
LEMMA FilesHeldStep ==
  ASSUME FilesHeld, InputsAssumption, input_file \in Inputs, forced \in BOOLEAN,
         [NextInput]_all_vars
  PROVE  FilesHeld'
<1> USE DEF Files, NoneClosed, ReaderSteps
<1>1. CASE OpenFile
  BY <1>1 DEF OpenFile, GiveUp, FilesHeld
<1>2. CASE Detect
  <2>1. (forced \/ (input_file.kind = "xml" /\ input_file.detectable)) \in BOOLEAN
    BY DEF InputsAssumption
  <2> QED
    BY <1>2, <2>1 DEF Detect, FilesHeld
<1>3. CASE OpenTemporary
  <2>1. CASE GiveUp({"file"})
    BY <1>3, <2>1, GivenUp DEF OpenTemporary, FilesHeld
  <2> QED
    BY <1>3, <2>1 DEF OpenTemporary, FilesHeld
<1>4. CASE Load
  <2>1. CASE GiveUp({"file", "temp_file"})
    BY <1>4, <2>1, GivenUp DEF Load, FilesHeld
  <2> QED
    BY <1>4, <2>1 DEF Load, FilesHeld, file_vars
<1>5. CASE WriteResp
  <2>1. CASE GiveUp({"file", "temp_file"})
    BY <1>5, <2>1, GivenUp DEF WriteResp, FilesHeld
  <2>2. CASE /\ closed' = [closed EXCEPT !["file"] = @ + 1] /\ pc' = "slurp"
              /\ UNCHANGED <<convert, opened>>
    <3>1. /\ closed'["file"] = 1 /\ closed'["temp_file"] = 0
          /\ closed' \in [Files -> Nat]
      BY <1>5, <2>2 DEF WriteResp, FilesHeld
    <3>2. convert /\ opened = {"file", "temp_file"}
      BY <1>5 DEF WriteResp, FilesHeld
    <3> QED
      BY <2>2, <3>1, <3>2 DEF FilesHeld
  <2> QED
    BY <1>5, <2>1, <2>2 DEF WriteResp
<1>6. CASE Slurp
  <2>1. CASE GiveUp({Current})
    BY <1>6, <2>1, GivenUp DEF Slurp, FilesHeld, Current
  <2> QED
    BY <1>6, <2>1 DEF Slurp, FilesHeld, file_vars
<1>7. CASE ReadText
  BY <1>7, ReaderStays DEF ReadText, FilesHeld, file_vars
<1>8. CASE CloseFile
  <2>1. CASE pc = "failed"
    BY <1>8, <2>1, GivenUp DEF CloseFile, FilesHeld, Current
  <2>2. CASE pc = "done"
    <3>1. /\ closed' = [closed EXCEPT ![Current] = @ + 1]
          /\ pc' = "returned" /\ convert' = convert /\ opened' = opened
      BY <1>8, <2>2 DEF CloseFile
    <3>2. CASE convert
      BY <2>2, <3>1, <3>2 DEF FilesHeld, Current
    <3>3. CASE ~convert
      BY <2>2, <3>1, <3>3 DEF FilesHeld, Current
    <3> QED
      BY <3>2, <3>3
  <2> QED
    BY <1>8, <2>1, <2>2 DEF CloseFile
<1>9. CASE UNCHANGED all_vars
  BY <1>9 DEF all_vars, vars, file_vars, FilesHeld
<1> QED
  BY <1>1, <1>2, <1>3, <1>4, <1>5, <1>6, <1>7, <1>8, <1>9 DEF NextInput

(* Which file the call is about and what was asked for does not change.     *)
LEMMA InputStays ==
  ASSUME input_file \in Inputs, forced \in BOOLEAN, [NextInput]_all_vars
  PROVE  input_file' \in Inputs /\ forced' \in BOOLEAN
BY DEF NextInput, OpenFile, Detect, OpenTemporary, Load, WriteResp, Slurp, ReadText, CloseFile,
       GiveUp, file_vars, all_vars

(* evalresp_filename_to_channels closes what it opened: whether opening,    *)
(* recognising, converting, writing or reading fails, each file that was    *)
(* opened has been closed exactly once when the call returns, and a file    *)
(* that was not opened never is.                                            *)
THEOREM FilesAreClosedOnce == SpecInput => []FilesClosedOnce
<1> DEFINE Inv == FilesHeld /\ input_file \in Inputs /\ forced \in BOOLEAN
<1>1. StartInput => Inv
  <2> SUFFICES ASSUME StartInput PROVE Inv
    OBVIOUS
  <2>1. /\ convert = FALSE /\ opened = {} /\ pc = "open" /\ closed = [f \in Files |-> 0]
        /\ input_file \in Inputs /\ forced \in BOOLEAN
    BY DEF StartInput, NoFiles, Files
  <2>2. closed \in [Files -> Nat] /\ NoneClosed
    BY <2>1 DEF NoneClosed, Files
  <2> QED
    BY <2>1, <2>2 DEF FilesHeld, ReaderSteps
<1>2. Inv /\ [NextInput]_all_vars => Inv'
  BY FilesHeldStep, InputStays, InputsAssumption
<1>3. Inv => FilesClosedOnce
  BY DEF FilesHeld, FilesClosedOnce, Over, Files
<1> QED
  BY <1>1, <1>2, <1>3, PTL DEF SpecInput
=============================================================================
