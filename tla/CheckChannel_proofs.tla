-------------------------- MODULE CheckChannel_proofs --------------------------
(***************************************************************************)
(* Proofs about CheckChannel: of the stage at hand it is known at every    *)
(* blockette which roles those read so far have, and of the stages left    *)
(* behind that they are tied in the documented order.                      *)
(***************************************************************************)
EXTENDS CheckChannel, SequenceLemmas

Count(s) == Len(chan[s].blkts)
Kind(s, p) == chan[s].blkts[p]

(* The position of the next blockette, and the positions already read.     *)
Position == IF blkt_ptr = NULL THEN Count(stage_no) + 1 ELSE blkt_ptr[2]

Read(s) == {p \in 1..Count(s) : s < stage_no \/ (s = stage_no /\ p < Position)}

(* Where the function stands while it runs, and when it has ended well.    *)
InPlace ==
  /\ status = "RUN" => /\ stage_no \in DOMAIN chan
                       /\ blkt_ptr # NULL =>
                            blkt_ptr[1] = stage_no /\ blkt_ptr[2] \in 1..Count(stage_no)
  /\ status = "OK" => stage_no = Len(chan) + 1

(* What is not read yet is as it was parsed; nothing that was read skips it. *)
Ahead(s, p) == s > stage_no \/ (s = stage_no /\ p >= Position)

Untouched ==
  status = "RUN" =>
    /\ \A s \in DOMAIN chan : \A p \in 1..Count(s) :
         Ahead(s, p) => /\ <<s, p>> \notin freed
                        /\ next[<<s, p>>] = IF p = Count(s) THEN NULL ELSE <<s, p + 1>>
    /\ \A p \in Read(stage_no) :
         LET b == next[<<stage_no, p>>]
         IN  <<stage_no, p>> \notin freed /\ b # NULL => b[2] <= Position

GainsKept == \A s \in DOMAIN chan : <<s, 0>> \notin freed /\ <<s, 1>> \notin freed

(* A stage's list is what was parsed, without the blockettes merged away,  *)
(* or an order that it was relinked in.                                    *)
Plain(s) ==
  /\ first_blkt[s] = FirstOf(chan, s)
  /\ \A p \in 1..Count(s) :
       LET b == next[<<s, p>>]
       IN  <<s, p>> \notin freed /\ b # NULL => b[1] = s /\ b[2] > p /\ b \notin freed

Tied(s, order) ==
  /\ order \in Seq(Blkts(chan))
  /\ Len(order) \in 1..(Count(s) + 2)
  /\ first_blkt[s] = order[1]
  /\ \A i \in 1..Len(order) :
       /\ order[i][1] = s /\ order[i] \notin freed
       /\ next[order[i]] = IF i = Len(order) THEN NULL ELSE order[i + 1]
  /\ \A i, j \in 1..Len(order) : order[i] = order[j] => i = j

Apart ==
  /\ \A s \in DOMAIN chan : Plain(s) \/ \E order \in Seq(Blkts(chan)) : Tied(s, order)
  /\ status = "RUN" => \A s \in DOMAIN chan : s >= stage_no => Plain(s)

(* The roles of the blockettes of this stage that were read.               *)
Noted(flag, b, types) ==
  /\ flag <=> \E p \in Read(stage_no) : Kind(stage_no, p) \in types
  /\ flag => /\ b[1] = stage_no /\ b[2] \in Read(stage_no) /\ b \notin freed
             /\ Kind(stage_no, b[2]) \in types

Roles ==
  status = "RUN" =>
    /\ Noted(HasFilter, filt_blkt, Filters)
    /\ HasFilter => stage_type = StageTypeOf(Type(filt_blkt))
    /\ Noted(deci_flag, deci_blkt, {"DECIMATION"})
    /\ Noted(gain_flag, gain_blkt, {"GAIN"})
    /\ Noted(ref_flag, ref_blkt, {"REFERENCE"})
    /\ ~ gain_flag => gain_blkt = NULL
    /\ \A p \in Read(stage_no) : Kind(stage_no, p) \notin {"UNDEF", "FIR_COEFFS"}

(* The FIR blockettes of a stage are a single run of continuations.        *)
Firs(s) == {p \in Read(s) : Kind(s, p) \in FirTypes}

IsRun(s, a, z) == a <= z /\ Firs(s) = a..z

Run(s, a, z) == [d \in 1..(z - a + 1) |-> <<s, a + d - 1>>]

FirsMerged ==
  status = "RUN" /\ stage_type = "FIR_TYPE" =>
    LET a == filt_blkt[2]
    IN  \E z \in 1..Count(stage_no) :
          /\ IsRun(stage_no, a, z)
          /\ coeffs[filt_blkt] = Run(stage_no, a, z)
          /\ nc = Taps(Kind(stage_no, a), z - a + 1)

(* An accepted stage.                                                      *)
Digital(s) ==
  /\ \E p \in 1..Count(s) : Kind(s, p) \in FirTypes
  /\ \A p \in 1..Count(s) : Kind(s, p) \notin Filters \ FirTypes

Mixed(s) == HoldsFilter(s) /\ \E p \in 1..Count(s) : Kind(s, p) \notin Filters

Ranked(order) ==
  /\ \A i, j \in 1..Len(order) : i < j => Rank(Type(order[i])) < Rank(Type(order[j]))
  /\ Type(order[Len(order)]) = "GAIN"

WholeDigital(s, order) ==
  /\ \E i \in 1..Len(order) : \E a, z \in 1..Count(s) :
       /\ {p \in 1..Count(s) : Kind(s, p) \in FirTypes} = a..z /\ a <= z
       /\ coeffs[order[i]] = Run(s, a, z)
  /\ \E i \in 1..Len(order) : Type(order[i]) = "DECIMATION"

Complete(s) ==
  /\ Digital(s) => Mixed(s)
  /\ Mixed(s) => \E order \in Seq(Blkts(chan)) :
                   /\ Tied(s, order) /\ Ranked(order)
                   /\ Digital(s) => WholeDigital(s, order)

AcceptedComplete == \A s \in DOMAIN chan : s < stage_no => Complete(s)

(* The last stage that has a filter and a number, and the units so far.    *)
Passing(s) == HoldsFilter(s) /\ chan[s].seq # 0

LastPassing(r, s) == r < s /\ Passing(r) /\ \A q \in (r + 1)..(s - 1) : ~ Passing(q)

UnitsSoFar ==
  status # "VAL" =>
    /\ IF prev_stage = 0 THEN \A r \in DOMAIN chan : r < stage_no => ~ Passing(r)
       ELSE LastPassing(prev_stage, stage_no)
    /\ \A r, s \in DOMAIN chan :
         s < stage_no /\ LastPassing(r, s) /\ Compared(s) => chan[r].out = chan[s].in

(* The delays so far.                                                      *)
Upto(s, n, types) ==
  Picked(n, [p \in 1..Count(s) |-> <<s, p>>], {p \in 1..Count(s) : Kind(s, p) \in types})

Counted(n) == FlattenSeq([s \in 1..n |-> Positions(s, {"DECIMATION"})])

DelaysSoFar ==
  status # "VAL" =>
    /\ [q \in DOMAIN delays |-> delays[q].deci]
         = Counted(stage_no - 1)
             \o (IF status = "RUN" THEN Upto(stage_no, Position - 1, {"DECIMATION"}) ELSE <<>>)
    /\ \A q \in DOMAIN delays :
         LET s == delays[q].deci[1]
         IN  /\ s <= stage_no
             /\ delays[q].calc # 0 =>
                  \E a, z \in 1..Count(s) :
                    IsRun(s, a, z) /\ delays[q].calc = Taps(Kind(s, a), z - a + 1)

CheckInv ==
  /\ TypeOK /\ InPlace /\ Untouched /\ GainsKept /\ Apart /\ Roles /\ FirsMerged
  /\ AcceptedComplete /\ UnitsSoFar /\ DelaysSoFar

-----------------------------------------------------------------------------
(* The data: stages, blockettes, types.                                    *)
LEMMA ChanIs ==
  ASSUME chan \in Channels
  PROVE  /\ chan \in Seq(Stage) /\ Len(chan) \in Nat \ {0} /\ DOMAIN chan = 1..Len(chan)
         /\ \A s \in DOMAIN chan :
              /\ s \in Nat \ {0} /\ chan[s] \in Stage
              /\ Count(s) \in Nat /\ DOMAIN chan[s].blkts = 1..Count(s)
              /\ \A p \in 1..Count(s) : Kind(s, p) \in Types
              /\ ~ HoldsFilter(s) => chan[s].in = UNDEF_UNITS
<1>1. chan \in Seq(Stage) /\ chan # <<>>
  BY ChannelAssumption
<1>2. Len(chan) \in Nat \ {0} /\ DOMAIN chan = 1..Len(chan)
  BY <1>1
<1>3. ASSUME NEW s \in DOMAIN chan
      PROVE  /\ s \in Nat \ {0} /\ chan[s] \in Stage
             /\ Count(s) \in Nat /\ DOMAIN chan[s].blkts = 1..Count(s)
             /\ \A p \in 1..Count(s) : Kind(s, p) \in Types
             /\ ~ HoldsFilter(s) => chan[s].in = UNDEF_UNITS
  <2>1. chan[s] \in Stage /\ s \in Nat \ {0}
    BY <1>1, <1>2
  <2>2. chan[s].blkts \in Seq(Types)
    BY <2>1 DEF Stage
  <2>3. Count(s) \in Nat /\ DOMAIN chan[s].blkts = 1..Count(s)
    BY <2>2 DEF Count
  <2>4. \A p \in 1..Count(s) : Kind(s, p) \in Types
    BY <2>2, <2>3 DEF Count, Kind
  <2>5. ASSUME ~ HoldsFilter(s) PROVE Range(chan[s].blkts) \cap Filters = {}
    BY <2>5 DEF HoldsFilter, Range
  <2>6. Range(chan[s].blkts) \cap Filters = {} => chan[s].in = UNDEF_UNITS
    BY ChannelAssumption
  <2> QED BY <2>1, <2>3, <2>4, <2>5, <2>6
<1> QED BY <1>1, <1>2, <1>3

(* A blockette is its stage and its position; position 0 is the gain a     *)
(* stage may be given.                                                     *)
LEMMA BlktsIs ==
  ASSUME chan \in Channels
  PROVE  /\ \A s \in DOMAIN chan : \A p \in 0..Count(s) : <<s, p>> \in Blkts(chan)
         /\ \A b \in Blkts(chan) : /\ b = <<b[1], b[2]>> /\ b[1] \in DOMAIN chan
                                   /\ b[2] \in 0..Count(b[1])
         /\ NULL \notin Blkts(chan)
<1>1. \A s \in DOMAIN chan : \A p \in 0..Count(s) : <<s, p>> \in Blkts(chan)
  BY DEF Blkts, Count
<1>2. ASSUME NEW b \in Blkts(chan)
      PROVE  /\ b = <<b[1], b[2]>> /\ b[1] \in DOMAIN chan /\ b[2] \in 0..Count(b[1])
  BY DEF Blkts, Count
<1>3. NULL \notin Blkts(chan)
  <2>1. SUFFICES ASSUME NULL \in Blkts(chan) PROVE FALSE
    OBVIOUS
  <2>2. NULL[1] \in DOMAIN chan /\ NULL[1] = 0
    BY <1>2, <2>1 DEF NULL
  <2> QED BY <2>2, ChanIs
<1> QED BY <1>1, <1>2, <1>3

(* The type of a blockette that was read from the file.                    *)
LEMMA TypeIs ==
  ASSUME chan \in Channels, NEW s \in DOMAIN chan, NEW p \in 1..Count(s)
  PROVE  Type(<<s, p>>) = Kind(s, p)
BY DEF Type, Kind

(* The continuations that RunLength counts.                                *)
LEMMA RunIs ==
  ASSUME chan \in Channels, NEW s \in DOMAIN chan, NEW p \in 1..Count(s)
  PROVE  LET len == RunLength(<<s, p>>)
         IN  /\ len \in Nat \ {0} /\ p + len - 1 <= Count(s)
             /\ \A q \in p..(p + len - 1) : Kind(s, q) = Kind(s, p)
<1> DEFINE n == Count(s)
           t == Kind(s, p)
           run == {q \in p..n : \A m \in p..q : Kind(s, m) = t}
           Other == {q \in p..(n + 1) : q = n + 1 \/ Kind(s, q) # t}
<1>1. n \in Nat /\ p \in Nat /\ p <= n
  BY ChanIs
<1> HIDE DEF n
<1>2. Other \subseteq Nat /\ Other # {}
  BY <1>1
<1>3. PICK x \in Other : \A y \in Other : x <= y
  <2> HIDE DEF Other
  <2> QED BY <1>2, LeastNumber
<1>4. x \in Nat /\ x > p /\ x <= n + 1
  BY <1>1, <1>3
<1>5. \A q \in p..(x - 1) : Kind(s, q) = t /\ q <= n
  BY <1>1, <1>3, <1>4
<1>6. x <= n => Kind(s, x) # t
  BY <1>1, <1>3
<1>7. run = p..(x - 1)
  <2>1. p..(x - 1) \subseteq run
    BY <1>1, <1>4, <1>5
  <2>2. ASSUME NEW q \in run PROVE q \in p..(x - 1)
    <3>1. q \in p..n /\ (x \in p..q => Kind(s, x) = t)
      OBVIOUS
    <3> QED BY <1>1, <1>4, <1>6, <3>1
  <2> QED BY <2>1, <2>2
<1>8. RunLength(<<s, p>>) = Cardinality(run)
  <2>1. Type(<<s, p>>) = t
    BY TypeIs
  <2> QED BY <2>1 DEF RunLength, n, Count, Kind
<1>9. Cardinality(p..(x - 1)) = x - p
  BY <1>1, <1>4, FS_Interval
<1>10. RunLength(<<s, p>>) = x - p
  BY <1>7, <1>8, <1>9
<1> HIDE DEF run, Other, t
<1> QED BY <1>1, <1>4, <1>5, <1>10 DEF t, n

(* Lists of positions.                                                     *)
LEMMA PositionsIs ==
  ASSUME chan \in Channels, NEW s \in DOMAIN chan, NEW types
  PROVE  Positions(s, types) = Upto(s, Count(s), types)
<1>1. Count(s) \in Nat /\ DOMAIN chan[s].blkts = 1..Count(s)
  BY ChanIs
<1>2. \A p \in 1..Count(s) : Type(<<s, p>>) = Kind(s, p)
  BY TypeIs
<1> DEFINE e == [p \in 1..Count(s) |-> <<s, p>>]
           W == {p \in 1..Count(s) : Kind(s, p) \in types}
<1>3. [p \in DOMAIN chan[s].blkts |-> IF Type(<<s, p>>) \in types THEN << <<s, p>> >> ELSE <<>>]
        = [p \in 1..Count(s) |-> IF p \in W THEN <<e[p]>> ELSE <<>>]
  BY <1>1, <1>2
<1> QED BY <1>3 DEF Positions, Upto, Picked

(* The blockettes of these types up to a position, from position to        *)
(* position.                                                               *)
LEMMA UptoIs ==
  ASSUME chan \in Channels, NEW s \in DOMAIN chan, NEW types, NEW n \in 0..Count(s)
  PROVE  /\ Upto(s, n, types) \in Seq(Blkts(chan))
         /\ Upto(s, 0, types) = <<>>
         /\ n < Count(s) =>
              Upto(s, n + 1, types) =
                Upto(s, n, types) \o (IF Kind(s, n + 1) \in types THEN << <<s, n + 1>> >> ELSE <<>>)
<1> DEFINE e == [p \in 1..Count(s) |-> <<s, p>>]
           W == {p \in 1..Count(s) : Kind(s, p) \in types}
           S == Blkts(chan)
<1>1. Count(s) \in Nat /\ n \in Nat
  BY ChanIs
<1>2. \A p \in 1..Count(s) : e[p] \in S
  BY BlktsIs
<1>3. Upto(s, n, types) = Picked(n, e, W) /\ Upto(s, 0, types) = Picked(0, e, W)
        /\ Upto(s, n + 1, types) = Picked(n + 1, e, W)
  BY DEF Upto
<1>4. n < Count(s) => e[n + 1] = <<s, n + 1>> /\ (n + 1 \in W <=> Kind(s, n + 1) \in types)
  BY <1>1
<1> HIDE DEF e, W, S
<1>5. Picked(n, e, W) \in Seq(S)
  <2>1. \A p \in 1..n : e[p] \in S
    BY <1>1, <1>2
  <2> QED BY <1>1, <2>1, PickedInSeq
<1>6. /\ Picked(0, e, W) = <<>>
      /\ Picked(n + 1, e, W) = Picked(n, e, W) \o (IF n + 1 \in W THEN <<e[n + 1]>> ELSE <<>>)
  BY <1>1, PickedNone, PickedNext
<1> QED BY <1>3, <1>4, <1>5, <1>6 DEF S

(* A run of blockettes that follow each other, as a sequence.              *)
LEMMA RunInSeq ==
  ASSUME chan \in Channels, NEW s \in DOMAIN chan, NEW a \in 1..Count(s), NEW z \in 1..Count(s),
         a <= z
  PROVE  /\ Run(s, a, z) \in Seq(Blkts(chan)) /\ Len(Run(s, a, z)) = z - a + 1
         /\ \A d \in 1..(z - a + 1) : Run(s, a, z)[d] = <<s, a + d - 1>>
<1>1. Count(s) \in Nat
  BY ChanIs
<1>2. \A d \in 1..(z - a + 1) : a + d - 1 \in 0..Count(s)
  BY <1>1
<1>3. \A d \in 1..(z - a + 1) : <<s, a + d - 1>> \in Blkts(chan)
  BY <1>2, BlktsIs
<1>4. z - a + 1 \in Nat
  BY <1>1
<1> QED BY <1>3, <1>4 DEF Run

(* The positions of a kind that stand side by side are a run.              *)
LEMMA UptoRun ==
  ASSUME chan \in Channels, NEW s \in DOMAIN chan, NEW types,
         NEW a \in 1..Count(s), NEW z \in 1..Count(s), a <= z,
         {p \in 1..Count(s) : Kind(s, p) \in types} = a..z
  PROVE  Upto(s, Count(s), types) = Run(s, a, z)
<1> DEFINE U(n) == Upto(s, n, types)
           T == {n \in Nat : n <= Count(s) =>
                   /\ n < a => U(n) = <<>>
                   /\ a <= n /\ n <= z => U(n) = Run(s, a, n)
                   /\ z < n => U(n) = Run(s, a, z)}
           S == Blkts(chan)
<1>1. Count(s) \in Nat /\ a \in Nat /\ z \in Nat /\ 1 <= a /\ z <= Count(s) /\ a <= z
  BY ChanIs
<1>2. 0 \in T
  <2>1. 0 \in 0..Count(s)
    BY <1>1
  <2>2. U(0) = <<>>
    BY <2>1, UptoIs
  <2> HIDE DEF U
  <2> QED BY <1>1, <2>2
<1>3. ASSUME NEW n \in Nat, n \in T PROVE n + 1 \in T
  <2>1. SUFFICES ASSUME n + 1 <= Count(s)
                 PROVE  /\ n + 1 < a => U(n + 1) = <<>>
                        /\ a <= n + 1 /\ n + 1 <= z => U(n + 1) = Run(s, a, n + 1)
                        /\ z < n + 1 => U(n + 1) = Run(s, a, z)
    OBVIOUS
  <2>2. n \in 0..Count(s) /\ n < Count(s) /\ n + 1 \in 1..Count(s)
    BY <1>1, <2>1
  <2>3. /\ U(n) \in Seq(S)
        /\ U(n + 1) = U(n) \o (IF Kind(s, n + 1) \in types THEN << <<s, n + 1>> >> ELSE <<>>)
    BY <2>2, UptoIs
  <2>4. Kind(s, n + 1) \in types <=> a <= n + 1 /\ n + 1 <= z
    <3>1. Kind(s, n + 1) \in types <=> n + 1 \in a..z
      BY <2>2
    <3> QED BY <1>1, <3>1
  <2>5. /\ n < a => U(n) = <<>>
        /\ a <= n /\ n <= z => U(n) = Run(s, a, n)
        /\ z < n => U(n) = Run(s, a, z)
    BY <1>1, <1>3, <2>1
  <2> HIDE DEF U, S
  <2>6. CASE ~ (a <= n + 1 /\ n + 1 <= z)
    <3>1. U(n + 1) = U(n)
      BY <2>3, <2>4, <2>6, ConcatEmptySeq
    <3>2. CASE n + 1 < a
      BY <1>1, <2>5, <3>1, <3>2
    <3>3. CASE z < n + 1
      <4>1. n = z \/ z < n
        BY <1>1, <3>3
      <4> QED BY <1>1, <2>5, <3>1, <3>3, <4>1
    <3> QED BY <1>1, <2>6, <3>2, <3>3
  <2>7. CASE a <= n + 1 /\ n + 1 <= z
    <3> DEFINE x == <<s, n + 1>>
    <3>1. U(n + 1) = U(n) \o <<x>> /\ x \in S
      <4>1. n + 1 \in 0..Count(s)
        BY <2>2
      <4>2. x \in S
        BY <4>1, BlktsIs DEF S
      <4> QED BY <2>3, <2>4, <2>7, <4>2
    <3>2. /\ Run(s, a, n + 1) \in Seq(S) /\ Len(Run(s, a, n + 1)) = n + 1 - a + 1
          /\ \A d \in 1..(n + 1 - a + 1) : Run(s, a, n + 1)[d] = <<s, a + d - 1>>
      <4> PICK k \in 1..Count(s) : k = n + 1
        BY <2>2
      <4>1. a <= k
        BY <2>7
      <4>2. /\ Run(s, a, k) \in Seq(S) /\ Len(Run(s, a, k)) = k - a + 1
            /\ \A d \in 1..(k - a + 1) : Run(s, a, k)[d] = <<s, a + d - 1>>
        BY <4>1, RunInSeq DEF S
      <4> QED BY <4>2
    <3> DEFINE len == n + 1 - a
    <3>0. len \in Nat /\ a + (len + 1) - 1 = n + 1 /\ n + 1 - a + 1 = len + 1
      BY <1>1, <2>7
    <3>3. Len(U(n)) = len /\ \A d \in 1..len : U(n)[d] = <<s, a + d - 1>>
      <4>1. CASE n + 1 = a
        <5>1. len = 0 /\ U(n) = <<>>
          BY <1>1, <2>5, <4>1
        <5> QED BY <5>1
      <4>2. CASE n + 1 # a
        <5>1. a <= n /\ n <= z /\ n \in 1..Count(s)
          BY <1>1, <2>2, <2>7, <4>2
        <5>2. U(n) = Run(s, a, n)
          BY <2>5, <5>1
        <5>3. Len(Run(s, a, n)) = n - a + 1 /\ \A d \in 1..(n - a + 1) : Run(s, a, n)[d] = <<s, a + d - 1>>
          BY <5>1, RunInSeq
        <5>4. n - a + 1 = len
          BY <1>1
        <5> QED BY <5>2, <5>3, <5>4
      <4> QED BY <4>1, <4>2
    <3>4. <<x>> \in Seq(S) /\ Len(<<x>>) = 1 /\ <<x>>[1] = x
      BY <3>1
    <3> HIDE DEF x, len
    <3>5. /\ U(n + 1) \in Seq(S) /\ Len(U(n + 1)) = len + 1
          /\ \A d \in 1..len : U(n + 1)[d] = <<s, a + d - 1>>
          /\ U(n + 1)[len + 1] = x
      <4> PICK u, v : u = U(n) /\ v = <<x>>
        OBVIOUS
      <4>1. /\ u \o v \in Seq(S) /\ Len(u \o v) = Len(u) + Len(v)
            /\ \A i \in 1..Len(u) : (u \o v)[i] = u[i]
            /\ \A i \in 1..Len(v) : (u \o v)[Len(u) + i] = v[i]
        BY <2>3, <3>4, ConcatParts
      <4>2. Len(u) = len /\ Len(v) = 1 /\ v[1] = x /\ 1 \in 1..Len(v)
        BY <3>3, <3>4
      <4>3. (u \o v)[len + 1] = x
        BY <4>1, <4>2
      <4> QED BY <3>0, <3>1, <3>3, <4>1, <4>2, <4>3
    <3>6. \A d \in 1..(len + 1) : U(n + 1)[d] = Run(s, a, n + 1)[d]
      <4>1. SUFFICES ASSUME NEW d \in 1..(len + 1) PROVE U(n + 1)[d] = Run(s, a, n + 1)[d]
        OBVIOUS
      <4>2. Run(s, a, n + 1)[d] = <<s, a + d - 1>>
        BY <3>0, <3>2
      <4>3. CASE d = len + 1
        BY <3>0, <3>5, <4>2, <4>3 DEF x
      <4>4. CASE d # len + 1
        <5>1. d \in 1..len
          BY <3>0, <4>4
        <5> QED BY <3>5, <4>2, <5>1
      <4> QED BY <4>3, <4>4
    <3>7. U(n + 1) = Run(s, a, n + 1)
      BY <3>0, <3>2, <3>5, <3>6, SeqEqual
    <3> QED BY <1>1, <2>7, <3>7
  <2> QED BY <2>6, <2>7
<1>4. Nat \subseteq T
  <2> HIDE DEF T
  <2> QED BY <1>2, <1>3, Induction
<1>5. Count(s) \in T
  BY <1>1, <1>4
<1> QED BY <1>1, <1>5

(* A stage has no position of these types when it has no blockette of      *)
(* them.                                                                   *)
LEMMA PositionsEmpty ==
  ASSUME chan \in Channels, NEW s \in DOMAIN chan, NEW types
  PROVE  Positions(s, types) = <<>> <=> \A p \in 1..Count(s) : Kind(s, p) \notin types
<1> DEFINE n == Count(s)
           e == [p \in 1..n |-> <<s, p>>]
           W == {p \in 1..n : Kind(s, p) \in types}
<1>1. n \in Nat /\ Positions(s, types) = Picked(n, e, W)
  BY ChanIs, PositionsIs DEF Upto
<1>2. Positions(s, types) \in Seq(Blkts(chan))
  <2>1. Count(s) \in 0..Count(s)
    BY <1>1
  <2>2. Upto(s, Count(s), types) \in Seq(Blkts(chan))
    BY <2>1, UptoIs
  <2> QED BY <2>2, PositionsIs
<1>3. ASSUME NEW x PROVE Contains(Positions(s, types), x) <=> \E p \in 1..n : p \in W /\ e[p] = x
  <2> HIDE DEF e, W, n
  <2> QED BY <1>1, PickedHas
<1>4. Positions(s, types) = <<>> <=> \A x : ~ Contains(Positions(s, types), x)
  BY <1>2 DEF Contains
<1>5. ASSUME NEW p \in W PROVE Contains(Positions(s, types), e[p])
  BY <1>3
<1> QED BY <1>3, <1>4, <1>5

-----------------------------------------------------------------------------
(* The path ChainOf follows.                                               *)
IsPath(n, x, f) == f = [q \in 0..n |-> IF q = 0 THEN <<x>> ELSE Further(f[q - 1])]

(* What a path along the pointers of a stage is, step by step ...          *)
LEMMA PathIs ==
  ASSUME NEW n, NEW x, NEW f, IsPath(n, x, f)
  PROVE  /\ 0 \in 0..n => f[0] = <<x>>
         /\ \A q \in 0..n : q # 0 => f[q] = Further(f[q - 1])
BY DEF IsPath

(* ... that there is one of any length ...                                 *)
LEMMA PathExists ==
  ASSUME NEW x
  PROVE  \A n \in Nat : \E f : IsPath(n, x, f)
<1> DEFINE T == {n \in Nat : \E f : IsPath(n, x, f)}
<1>1. 0 \in T
  <2> DEFINE g == [q \in 0..0 |-> <<x>>]
  <2>1. g = [q \in 0..0 |-> IF q = 0 THEN <<x>> ELSE Further(g[q - 1])]
    <3> DEFINE h == [q \in 0..0 |-> IF q = 0 THEN <<x>> ELSE Further(g[q - 1])]
    <3>1. \A q \in 0..0 : h[q] = g[q]
      OBVIOUS
    <3>2. h = [q \in 0..0 |-> h[q]] /\ g = [q \in 0..0 |-> g[q]]
      OBVIOUS
    <3>3. g = h
      <4> HIDE DEF g, h
      <4> QED BY <3>1, <3>2
    <3> QED BY <3>3
  <2>2. IsPath(0, x, g)
    BY <2>1 DEF IsPath
  <2>3. \E f : IsPath(0, x, f)
    <3> HIDE DEF g
    <3> QED BY <2>2
  <2> QED BY <2>3
<1>2. ASSUME NEW n \in Nat, n \in T PROVE n + 1 \in T
  <2>1. PICK f : IsPath(n, x, f)
    BY <1>2
  <2> DEFINE e == Further(f[n])
             g == [q \in 0..(n + 1) |-> IF q = n + 1 THEN e ELSE f[q]]
             h == [q \in 0..(n + 1) |-> IF q = 0 THEN <<x>> ELSE Further(g[q - 1])]
  <2>2. \A q \in 0..(n + 1) : g[q] = h[q]
    <3>1. SUFFICES ASSUME NEW q \in 0..(n + 1) PROVE g[q] = h[q]
      OBVIOUS
    <3>2. CASE q = n + 1
      <4>1. q # 0 /\ q - 1 \in 0..(n + 1) /\ q - 1 # n + 1 /\ q - 1 = n
        BY <3>2
      <4>2. g[q - 1] = f[n]
        BY <4>1
      <4> QED BY <3>2, <4>1, <4>2
    <3>3. CASE q # n + 1
      <4>1. q \in 0..n /\ g[q] = f[q]
        BY <3>3
      <4>2. f[q] = IF q = 0 THEN <<x>> ELSE Further(f[q - 1])
        BY <2>1, <4>1, PathIs
      <4>3. q # 0 => q - 1 \in 0..(n + 1) /\ q - 1 # n + 1 /\ g[q - 1] = f[q - 1]
        BY <4>1
      <4> QED BY <4>1, <4>2, <4>3
    <3> QED BY <3>2, <3>3
  <2>3. g = [q \in 0..(n + 1) |-> g[q]] /\ h = [q \in 0..(n + 1) |-> h[q]]
    OBVIOUS
  <2>4. g = h
    <3> HIDE DEF g, h
    <3> QED BY <2>2, <2>3
  <2>5. IsPath(n + 1, x, g)
    BY <2>4 DEF IsPath
  <2>6. \E k : IsPath(n + 1, x, k)
    <3> HIDE DEF g
    <3> QED BY <2>5
  <2> QED BY <2>6
<1>3. Nat \subseteq T
  <2> HIDE DEF T
  <2> QED BY <1>1, <1>2, Induction
<1> QED BY <1>3

(* ... and that ChainOf is where it ends.                                  *)
LEMMA ChainOnPath ==
  ASSUME chan \in Channels, NEW s \in DOMAIN chan, first_blkt[s] # NULL
  PROVE  \E f : IsPath(Count(s) + 1, first_blkt[s], f) /\ ChainOf(s) = f[Count(s) + 1]
<1>1. Count(s) + 1 \in Nat
  BY ChanIs
<1>2. \E f : IsPath(Count(s) + 1, first_blkt[s], f)
  BY <1>1, PathExists
<1> DEFINE f == CHOOSE f : IsPath(Count(s) + 1, first_blkt[s], f)
<1>3. IsPath(Count(s) + 1, first_blkt[s], f)
  BY <1>2
<1>4. ChainOf(s) = f[Count(s) + 1]
  BY DEF ChainOf, IsPath, Count
<1> HIDE DEF f
<1> QED BY <1>3, <1>4

(* A stage that was relinked is the order it was relinked in.              *)
LEMMA TiedChain ==
  ASSUME TypeOK, NEW s \in DOMAIN chan, NEW order, Tied(s, order)
  PROVE  ChainOf(s) = order
<1> DEFINE B == Blkts(chan)
           n == Len(order)
           top == Count(s) + 1
           m(q) == IF q + 1 < n THEN q + 1 ELSE n
<1>1. /\ order \in Seq(B) /\ n \in Nat \ {0} /\ n <= top + 1 /\ top \in Nat
      /\ \A i \in 1..n : order[i] \in B /\ next[order[i]] = IF i = n THEN NULL ELSE order[i + 1]
  <2>1. chan \in Channels
    BY DEF TypeOK
  <2>2. Count(s) \in Nat
    BY <2>1, ChanIs
  <2>3. /\ order \in Seq(B) /\ n \in 1..(Count(s) + 2)
        /\ \A i \in 1..n : next[order[i]] = IF i = n THEN NULL ELSE order[i + 1]
    BY DEF Tied
  <2> QED BY <2>2, <2>3
<1>2. NULL \notin B
  BY BlktsIs DEF TypeOK
<1>3. first_blkt[s] = order[1] /\ first_blkt[s] # NULL
  <2>1. 1 \in 1..n
    BY <1>1
  <2> QED BY <1>1, <1>2, <2>1 DEF Tied
<1>4. PICK f : IsPath(top, order[1], f) /\ ChainOf(s) = f[top]
  BY <1>3, ChainOnPath DEF TypeOK
<1> HIDE DEF B, n, top
<1> DEFINE Follows(path, len) ==
             path \in Seq(B) /\ Len(path) = len /\ \A i \in 1..len : path[i] = order[i]
           T == {q \in Nat : q \in 0..top => Follows(f[q], m(q))}
<1>5. 0 \in T
  <2>1. 0 \in 0..top /\ m(0) = 1 /\ 1 \in 1..n
    BY <1>1
  <2>2. f[0] = <<order[1]>> /\ order[1] \in B
    BY <1>1, <1>4, <2>1, PathIs
  <2>3. Follows(<<order[1]>>, 1)
    BY <2>2
  <2> HIDE DEF m, Follows
  <2> QED BY <2>1, <2>2, <2>3
<1>6. ASSUME NEW q \in Nat, q \in T PROVE q + 1 \in T
  <2>1. SUFFICES ASSUME q + 1 \in 0..top PROVE Follows(f[q + 1], m(q + 1))
    OBVIOUS
  <2>2. q \in 0..top /\ q + 1 # 0 /\ (q + 1) - 1 = q
    BY <1>1, <2>1
  <2>3. f[q + 1] = Further(f[q])
    BY <1>4, <2>1, <2>2, PathIs
  <2>4. Follows(f[q], m(q)) /\ m(q) \in 1..n
    BY <1>1, <1>6, <2>2
  <2>5. Last(f[q]) = order[m(q)]
    BY <2>4 DEF Last
  <2>6. CASE m(q) = n
    <3>1. next[Last(f[q])] = NULL
      BY <1>1, <2>4, <2>5, <2>6
    <3>2. f[q + 1] = f[q]
      BY <2>3, <3>1 DEF Further
    <3>3. m(q + 1) = m(q)
      BY <1>1, <2>6
    <3> HIDE DEF m, Follows
    <3> QED BY <2>4, <3>2, <3>3
  <2>7. CASE m(q) # n
    <3>1. m(q) = q + 1 /\ m(q + 1) = q + 2 /\ q + 2 \in 1..n
      BY <1>1, <2>7
    <3>2. next[Last(f[q])] = order[q + 2] /\ order[q + 2] \in B
      BY <1>1, <2>4, <2>5, <2>7, <3>1
    <3>3. f[q + 1] = Append(f[q], order[q + 2])
      BY <1>2, <2>3, <3>2 DEF Further
    <3> HIDE DEF m
    <3>4. f[q] \in Seq(B) /\ Len(f[q]) = q + 1 /\ \A i \in 1..(q + 1) : f[q][i] = order[i]
      BY <2>4, <3>1
    <3>5. Append(f[q], order[q + 2]) \in Seq(B) /\ Len(Append(f[q], order[q + 2])) = q + 2
            /\ \A i \in 1..(q + 2) : Append(f[q], order[q + 2])[i] = order[i]
      BY <3>2, <3>4
    <3> QED BY <3>1, <3>3, <3>5
  <2> QED BY <2>6, <2>7
<1>7. Nat \subseteq T
  <2> HIDE DEF T
  <2> QED BY <1>5, <1>6, Induction
<1>8. m(top) = n /\ top \in 0..top
  BY <1>1
<1>9. Follows(f[top], n)
  BY <1>1, <1>7, <1>8
<1> QED BY <1>1, <1>4, <1>9, SeqEqual DEF n

(* In a stage that was not, positions only grow.                           *)
LEMMA PlainChain ==
  ASSUME TypeOK, GainsKept, NEW s \in DOMAIN chan, Plain(s)
  PROVE  /\ ChainOf(s) \in Seq(Blkts(chan))
         /\ \A i \in 1..Len(ChainOf(s)) : ChainOf(s)[i][1] = s /\ ChainOf(s)[i] \notin freed
         /\ \A i, j \in 1..Len(ChainOf(s)) : i < j => ChainOf(s)[i][2] < ChainOf(s)[j][2]
<1> DEFINE B == Blkts(chan)
           top == Count(s) + 1
           Grows(path) ==
             /\ path \in Seq(B) /\ Len(path) # 0
             /\ \A i \in 1..Len(path) : path[i][1] = s /\ path[i] \notin freed /\ path[i][2] # 0
             /\ \A i, j \in 1..Len(path) : i < j => path[i][2] < path[j][2]
<1>0. next \in [B -> B \cup {NULL}] /\ chan \in Channels
  BY DEF TypeOK, BlktOrNull
<1>1. top \in Nat /\ Count(s) \in Nat
  BY <1>0, ChanIs
<1>2. \A b \in B : b = <<b[1], b[2]>> /\ b[2] \in 0..Count(b[1]) /\ b # NULL
  BY <1>0, BlktsIs
<1>3. CASE first_blkt[s] = NULL
  <2>1. ChainOf(s) = <<>>
    BY <1>3 DEF ChainOf
  <2> QED BY <2>1
<1>4. CASE first_blkt[s] # NULL
  <2>1. first_blkt[s] = <<s, 1>> /\ 1 \in 0..Count(s)
    <3>1. first_blkt[s] = <<s, 1>> /\ chan[s].blkts # <<>>
      BY <1>4 DEF Plain, FirstOf
    <3>2. chan[s].blkts \in Seq(Types)
      BY <1>0, ChanIs DEF Stage
    <3>3. Count(s) # 0
      BY <3>1, <3>2 DEF Count
    <3> QED BY <1>1, <3>1, <3>3
  <2>2. PICK f : IsPath(top, <<s, 1>>, f) /\ ChainOf(s) = f[top]
    BY <1>0, <1>4, <2>1, ChainOnPath
  <2> DEFINE T == {q \in Nat : q \in 0..top => Grows(f[q])}
  <2> HIDE DEF B, top
  <2>3. 0 \in T
    <3>1. f[0] = <<<<s, 1>>>>
      BY <1>1, <2>2, PathIs
    <3>2. <<s, 1>> \in B /\ <<s, 1>> \notin freed
      BY <1>0, <2>1, BlktsIs DEF B, GainsKept
    <3>3. Grows(<<<<s, 1>>>>)
      BY <3>2
    <3> QED BY <3>1, <3>3
  <2>4. ASSUME NEW q \in Nat, q \in T PROVE q + 1 \in T
    <3>1. SUFFICES ASSUME q + 1 \in 0..top PROVE Grows(f[q + 1])
      OBVIOUS
    <3>2. q \in 0..top /\ q + 1 # 0 /\ (q + 1) - 1 = q
      BY <1>1, <3>1
    <3>3. f[q + 1] = Further(f[q])
      BY <2>2, <3>1, <3>2, PathIs
    <3>4. Grows(f[q])
      BY <2>4, <3>2
    <3> DEFINE path == f[q]
               b == path[Len(path)]
    <3>5. Len(path) \in 1..Len(path) /\ b \in B /\ b[1] = s /\ b \notin freed /\ b[2] # 0
      BY <3>4
    <3>6. b = <<s, b[2]>> /\ b[2] \in 1..Count(s)
      BY <1>1, <1>2, <3>5
    <3>7. Last(path) = b
      BY DEF Last
    <3>8. CASE next[b] = NULL
      BY <3>3, <3>4, <3>7, <3>8 DEF Further
    <3>9. CASE next[b] # NULL
      <4> DEFINE c == next[b]
      <4>1. c \in B
        BY <1>0, <3>5, <3>9
      <4>2. c[1] = s /\ c[2] > b[2] /\ c \notin freed
        <5>1. b[2] \in 1..Count(s) /\ c = next[<<s, b[2]>>] /\ <<s, b[2]>> \notin freed
          BY <3>5, <3>6
        <5> QED BY <3>9, <5>1 DEF Plain
      <4>3. c[2] # 0 /\ c[2] \in Nat /\ b[2] \in Nat
        BY <1>1, <1>2, <3>6, <4>1, <4>2
      <4>4. f[q + 1] = Append(path, c)
        BY <3>3, <3>7, <3>9 DEF Further
      <4>5. \A i \in 1..Len(path) : path[i][2] < c[2]
        <5>1. SUFFICES ASSUME NEW i \in 1..Len(path) PROVE path[i][2] < c[2]
          OBVIOUS
        <5>2. i = Len(path) \/ i < Len(path)
          BY <3>4
        <5>3. path[i] \in B /\ path[i][1] = s
          BY <3>4
        <5>4. path[i][2] \in Nat
          BY <1>1, <1>2, <5>3
        <5>5. path[i][2] = b[2] \/ path[i][2] < b[2]
          BY <3>4, <3>5, <5>2
        <5> QED BY <4>2, <4>3, <5>4, <5>5
      <4> HIDE DEF c, b, path
      <4>6. /\ Append(path, c) \in Seq(B) /\ Len(Append(path, c)) = Len(path) + 1
            /\ Len(path) \in Nat /\ Append(path, c)[Len(path) + 1] = c
            /\ \A i \in 1..Len(path) : Append(path, c)[i] = path[i]
        BY <3>4, <4>1 DEF path
      <4> PICK new : new = Append(path, c)
        OBVIOUS
      <4>7. \A i \in 1..Len(new) : i = Len(path) + 1 \/ i \in 1..Len(path)
        BY <4>6
      <4>8. \A i \in 1..Len(new) : new[i][1] = s /\ new[i] \notin freed /\ new[i][2] # 0
        BY <3>4, <4>2, <4>3, <4>6, <4>7 DEF path
      <4>9. ASSUME NEW i \in 1..Len(new), NEW j \in 1..Len(new), i < j
            PROVE  new[i][2] < new[j][2]
        <5>1. i \in 1..Len(path)
          BY <4>6, <4>9
        <5>2. CASE j \in 1..Len(path)
          BY <3>4, <4>6, <4>9, <5>1, <5>2 DEF path
        <5>3. CASE j = Len(path) + 1
          BY <4>5, <4>6, <5>1, <5>3
        <5> QED BY <4>7, <5>2, <5>3
      <4>10. new \in Seq(B) /\ Len(new) # 0
        BY <4>6
      <4>11. Grows(new)
        BY <4>8, <4>9, <4>10
      <4> QED BY <4>4, <4>11 DEF path
    <3> QED BY <3>8, <3>9
  <2>5. Nat \subseteq T
    <3> HIDE DEF T
    <3> QED BY <2>3, <2>4, Induction
  <2>6. Grows(f[top])
    BY <1>1, <2>5
  <2> QED BY <2>2, <2>6 DEF B
<1> QED BY <1>3, <1>4

(* StagesStayApart, from what the invariant says of lists.                 *)
LEMMA StagesApart ==
  ASSUME TypeOK, GainsKept, Apart
  PROVE  StagesStayApart
<1>1. SUFFICES ASSUME NEW s \in DOMAIN chan
      PROVE  /\ IsInjective(ChainOf(s))
             /\ \A b \in Range(ChainOf(s)) : b[1] = s /\ b \notin freed
  BY DEF StagesStayApart
<1>2. CASE Plain(s)
  <2> PICK c : c = ChainOf(s)
    OBVIOUS
  <2>1. /\ c \in Seq(Blkts(chan)) /\ DOMAIN c = 1..Len(c) /\ Len(c) \in Nat
        /\ \A i \in 1..Len(c) : c[i][1] = s /\ c[i] \notin freed
        /\ \A i, j \in 1..Len(c) : i < j => c[i][2] < c[j][2]
    BY <1>2, PlainChain
  <2>2. \A i \in 1..Len(c) : c[i][2] \in Nat
    <3>1. \A b \in Blkts(chan) : b[1] \in DOMAIN chan /\ b[2] \in 0..Count(b[1])
      BY BlktsIs DEF TypeOK
    <3>2. \A b \in Blkts(chan) : b[2] \in Nat
      BY <3>1, ChanIs DEF TypeOK
    <3> QED BY <2>1, <3>2
  <2>3. ASSUME NEW i \in 1..Len(c), NEW j \in 1..Len(c), c[i] = c[j] PROVE i = j
    <3>1. ~ (i < j) /\ ~ (j < i)
      BY <2>1, <2>2, <2>3
    <3> QED BY <2>1, <3>1
  <2> QED BY <2>1, <2>3 DEF IsInjective, Range
<1>3. CASE \E order \in Seq(Blkts(chan)) : Tied(s, order)
  <2>1. PICK order \in Seq(Blkts(chan)) : Tied(s, order)
    BY <1>3
  <2>2. ChainOf(s) = order /\ DOMAIN order = 1..Len(order)
    BY <2>1, TiedChain
  <2>3. IsInjective(order)
    BY <2>1, <2>2 DEF Tied, IsInjective
  <2>4. \A b \in Range(order) : b[1] = s /\ b \notin freed
    <3>1. \A i \in 1..Len(order) : order[i][1] = s /\ order[i] \notin freed
      BY <2>1 DEF Tied
    <3> HIDE DEF Tied
    <3> QED BY <2>2, <3>1 DEF Range
  <2> QED BY <2>2, <2>3, <2>4
<1> QED BY <1>2, <1>3 DEF Apart

(* StagesComplete, from what the invariant says of stages left behind.     *)
LEMMA AllComplete ==
  ASSUME TypeOK, AcceptedComplete
  PROVE  StagesComplete
<1>0. chan \in Channels
  BY DEF TypeOK
<1>1. ASSUME NEW s \in DOMAIN chan, s < stage_no
      PROVE  /\ DOMAIN chan[s].blkts = 1..Count(s) /\ Complete(s)
             /\ \A p \in 1..Count(s) : chan[s].blkts[p] = Kind(s, p)
  BY <1>0, <1>1, ChanIs DEF AcceptedComplete, Kind
<1>2. ASSUME NEW s \in DOMAIN chan, NEW order, Tied(s, order), Ranked(order) PROVE InOrder(s)
  <2>1. ChainOf(s) = order /\ DOMAIN order = 1..Len(order)
    BY <1>2, TiedChain DEF Tied
  <2> QED BY <1>2, <2>1 DEF InOrder, Ranked, Last
<1>3. StageInOrder
  <2>1. SUFFICES ASSUME NEW s \in DOMAIN chan, s < stage_no, HoldsFilter(s),
                        NEW p \in DOMAIN chan[s].blkts, chan[s].blkts[p] \notin Filters
                 PROVE  InOrder(s)
    BY DEF StageInOrder, Accepted
  <2>2. Mixed(s)
    BY <1>1, <2>1 DEF Mixed
  <2> QED BY <1>1, <1>2, <2>1, <2>2 DEF Complete
<1>4. DigitalStagesComplete
  <2>1. SUFFICES ASSUME NEW s \in DOMAIN chan, s < stage_no, Positions(s, FirTypes) # <<>>,
                        Positions(s, Filters \ FirTypes) = <<>>
                 PROVE  /\ \E b \in Range(ChainOf(s)) : coeffs[b] = Positions(s, FirTypes)
                        /\ \E b \in Range(ChainOf(s)) : Type(b) = "DECIMATION"
    BY DEF DigitalStagesComplete, Accepted
  <2>2. Digital(s)
    BY <1>0, <2>1, PositionsEmpty DEF Digital
  <2>3. Complete(s)
    BY <1>1, <2>1
  <2>4. PICK order \in Seq(Blkts(chan)) : Tied(s, order) /\ WholeDigital(s, order)
    BY <2>2, <2>3 DEF Complete
  <2>5. ChainOf(s) = order /\ DOMAIN order = 1..Len(order)
    BY <2>4, TiedChain
  <2>6. PICK i \in 1..Len(order) : \E a, z \in 1..Count(s) :
          /\ {p \in 1..Count(s) : Kind(s, p) \in FirTypes} = a..z /\ a <= z
          /\ coeffs[order[i]] = Run(s, a, z)
    BY <2>4 DEF WholeDigital
  <2>7. coeffs[order[i]] = Positions(s, FirTypes)
    <3>1. PICK a \in 1..Count(s), z \in 1..Count(s) :
            /\ {p \in 1..Count(s) : Kind(s, p) \in FirTypes} = a..z /\ a <= z
            /\ coeffs[order[i]] = Run(s, a, z)
      BY <2>6
    <3>2. Upto(s, Count(s), FirTypes) = Run(s, a, z)
      BY <1>0, <3>1, UptoRun
    <3> QED BY <1>0, <3>1, <3>2, PositionsIs
  <2>8. PICK j \in 1..Len(order) : Type(order[j]) = "DECIMATION"
    BY <2>4 DEF WholeDigital
  <2> QED BY <2>5, <2>7, <2>8 DEF Range
<1> QED BY <1>3, <1>4 DEF StagesComplete

(* UnitsContinuous, from what the invariant says of units so far.          *)
LEMMA UnitsMeet ==
  ASSUME TypeOK, InPlace, UnitsSoFar
  PROVE  UnitsContinuous
<1>1. SUFFICES ASSUME status = "OK", NEW s \in DOMAIN chan, NEW r \in DOMAIN chan, r < s,
                      HoldsFilter(r), chan[r].seq # 0, Compared(s),
                      \A q \in (r + 1)..(s - 1) : ~HoldsFilter(q) \/ chan[q].seq = 0
               PROVE  chan[r].out = chan[s].in
  BY DEF UnitsContinuous
<1>2. s < stage_no
  BY <1>1, ChanIs DEF InPlace, TypeOK
<1>3. LastPassing(r, s)
  BY <1>1 DEF LastPassing, Passing
<1> QED BY <1>1, <1>2, <1>3 DEF UnitsSoFar

(* The decimations of n stages.                                            *)
LEMMA CountedIs ==
  ASSUME chan \in Channels, NEW n \in Nat, n <= Len(chan)
  PROVE  /\ Counted(n) \in Seq(Blkts(chan)) /\ Counted(0) = <<>>
         /\ n < Len(chan) => Counted(n + 1) = Counted(n) \o Positions(n + 1, {"DECIMATION"})
<1> DEFINE P(s) == Positions(s, {"DECIMATION"})
           B == Blkts(chan)
           ss == [s \in 1..n |-> P(s)]
           tt == [s \in 1..(n + 1) |-> P(s)]
<1>1. ASSUME NEW s \in DOMAIN chan PROVE P(s) \in Seq(B)
  <2>1. Count(s) \in 0..Count(s)
    BY ChanIs
  <2>2. Upto(s, Count(s), {"DECIMATION"}) \in Seq(B)
    BY <2>1, UptoIs
  <2> QED BY <2>2, PositionsIs
<1> HIDE DEF P, B
<1>2. DOMAIN chan = 1..Len(chan) /\ Len(chan) \in Nat
  BY ChanIs
<1>3. ss \in Seq(Seq(B)) /\ Len(ss) = n
  BY <1>1, <1>2
<1>4. FlattenSeq(ss) \in Seq(B)
  <2> HIDE DEF ss
  <2> QED BY <1>3, FlattenInSeq
<1>5. Counted(0) = <<>>
  <2>1. [s \in 1..0 |-> Positions(s, {"DECIMATION"})] = <<>>
    OBVIOUS
  <2> QED BY <2>1, FlattenEmpty DEF Counted
<1>6. ASSUME n < Len(chan) PROVE FlattenSeq(tt) = FlattenSeq(ss) \o P(n + 1)
  <2>1. P(n + 1) \in Seq(B)
    BY <1>1, <1>2, <1>6
  <2> DEFINE uu == Append(ss, P(n + 1))
  <2>2. tt \in Seq(Seq(B)) /\ Len(tt) = n + 1 /\ \A c \in 1..(n + 1) : tt[c] = P(c)
    BY <1>1, <1>2, <1>6
  <2>3. uu \in Seq(Seq(B)) /\ Len(uu) = n + 1 /\ \A c \in 1..(n + 1) : uu[c] = P(c)
    <3>1. \A c \in 1..n : ss[c] = P(c)
      OBVIOUS
    <3> HIDE DEF ss
    <3>2. uu \in Seq(Seq(B)) /\ Len(uu) = n + 1 /\ uu[n + 1] = P(n + 1)
            /\ \A c \in 1..n : uu[c] = ss[c]
      BY <1>3, <2>1
    <3>3. \A c \in 1..(n + 1) : c = n + 1 \/ c \in 1..n
      OBVIOUS
    <3> HIDE DEF uu
    <3> QED BY <3>1, <3>2, <3>3
  <2> HIDE DEF tt, uu
  <2>4. tt = uu
    BY <2>2, <2>3, SeqEqual
  <2>5. FlattenSeq(Append(ss, P(n + 1))) = FlattenSeq(ss) \o P(n + 1)
    <3> HIDE DEF ss
    <3> QED BY <1>3, <2>1, FlattenAppend
  <2> QED BY <2>4, <2>5 DEF uu
<1> QED BY <1>4, <1>5, <1>6 DEF Counted, P, B

(* DelaysCountedOnce, from what the invariant says of delays so far.       *)
LEMMA DelaysCounted ==
  ASSUME TypeOK, InPlace, DelaysSoFar
  PROVE  DelaysCountedOnce
<1>1. SUFFICES ASSUME status = "OK"
      PROVE  /\ [q \in DOMAIN delays |-> delays[q].deci]
                   = FlattenSeq([s \in DOMAIN chan |-> Positions(s, {"DECIMATION"})])
             /\ \A q \in DOMAIN delays :
                  LET s == delays[q].deci[1]
                  IN  delays[q].calc # 0 =>
                        Positions(s, FirTypes) # <<>> /\ delays[q].calc = FirTaps(s)
  BY DEF DelaysCountedOnce
<1>2. chan \in Channels /\ stage_no = Len(chan) + 1 /\ stage_no - 1 = Len(chan) /\ DOMAIN chan = 1..Len(chan)
        /\ Len(chan) \in Nat
  BY <1>1, ChanIs DEF TypeOK, InPlace
<1>3. [q \in DOMAIN delays |-> delays[q].deci]
        = FlattenSeq([s \in DOMAIN chan |-> Positions(s, {"DECIMATION"})])
  <2>1. [q \in DOMAIN delays |-> delays[q].deci] = Counted(stage_no - 1) \o <<>>
    BY <1>1 DEF DelaysSoFar
  <2>2. Counted(stage_no - 1) \in Seq(Blkts(chan))
    BY <1>2, CountedIs
  <2>3. Counted(stage_no - 1) \o <<>> = Counted(stage_no - 1)
    BY <2>2, ConcatEmptySeq
  <2> QED BY <1>2, <2>1, <2>3 DEF Counted
<1>4. ASSUME NEW q \in DOMAIN delays, delays[q].calc # 0
      PROVE  /\ Positions(delays[q].deci[1], FirTypes) # <<>>
             /\ delays[q].calc = FirTaps(delays[q].deci[1])
  <2> DEFINE s == delays[q].deci[1]
  <2>1. s \in DOMAIN chan
    <3> DEFINE D == [deci : Blkts(chan), calc : Nat]
    <3>0. delays \in Seq(D)
      BY DEF TypeOK
    <3>1. delays[q] \in D
      <4> HIDE DEF D
      <4> QED BY <1>4, <3>0
    <3> QED BY <1>2, <3>1, BlktsIs
  <2>2. PICK a \in 1..Count(s), z \in 1..Count(s) :
          IsRun(s, a, z) /\ delays[q].calc = Taps(Kind(s, a), z - a + 1)
    BY <1>1, <1>4 DEF DelaysSoFar
  <2> HIDE DEF s
  <2>3. Count(s) \in Nat /\ s < stage_no
    BY <1>2, <2>1, ChanIs
  <2>4. Firs(s) = {p \in 1..Count(s) : Kind(s, p) \in FirTypes}
    BY <2>3 DEF Firs, Read
  <2>5. Positions(s, FirTypes) = Run(s, a, z)
    BY <1>2, <2>1, <2>2, <2>4, UptoRun, PositionsIs DEF IsRun
  <2>6. Len(Run(s, a, z)) = z - a + 1 /\ 1 \in 1..(z - a + 1) /\ Run(s, a, z)[1] = <<s, a + 1 - 1>>
    <3>1. a <= z /\ a \in Nat /\ z \in Nat
      BY <2>2, <2>3 DEF IsRun
    <3>2. 1 \in 1..(z - a + 1)
      BY <3>1
    <3> QED BY <1>2, <2>1, <2>2, <3>1, <3>2, RunInSeq
  <2>7. a + 1 - 1 = a /\ z - a + 1 # 0
    BY <2>2, <2>3 DEF IsRun
  <2>8. FirTaps(s) = Taps(Kind(s, a), z - a + 1)
    <3>1. Positions(s, FirTypes)[1] = <<s, a>> /\ Len(Positions(s, FirTypes)) = z - a + 1
      BY <2>5, <2>6, <2>7
    <3>2. Type(<<s, a>>) = Kind(s, a)
      BY <1>2, <2>1, TypeIs
    <3> QED BY <3>1, <3>2 DEF FirTaps
  <2>9. Positions(s, FirTypes) # <<>>
    BY <2>5, <2>6, <2>7
  <2> QED BY <2>2, <2>8, <2>9 DEF s
<1> QED BY <1>3, <1>4

-----------------------------------------------------------------------------
(* A step that reads len blockettes of the stage, all of one type, and     *)
(* frees all but the first.                                                *)
Reads(len) ==
  /\ status = "RUN" /\ stage_no \in DOMAIN chan
  /\ len \in Nat \ {0} /\ Position \in 1..Count(stage_no) /\ Position + len - 1 <= Count(stage_no)
  /\ blkt_ptr = <<stage_no, Position>>
  /\ \A p \in Position..(Position + len - 1) : Kind(stage_no, p) = Type(blkt_ptr)

After(len) ==
  IF Position + len - 1 = Count(stage_no) THEN NULL ELSE <<stage_no, Position + len>>

Merges(len) ==
  /\ UNCHANGED <<chan, stage_no, first_blkt>>
  /\ next' = [next EXCEPT ![blkt_ptr] = After(len)]
  /\ freed' = freed \cup {<<stage_no, p>> : p \in (Position + 1)..(Position + len - 1)}

Moves(len) ==
  /\ Reads(len) /\ Merges(len)
  /\ status' = "RUN" /\ prev_stage' = prev_stage
  /\ blkt_ptr' = After(len)
  /\ \A b \in Blkts(chan) : b # blkt_ptr => coeffs'[b] = coeffs[b]

(* While there is a blockette to be read, it is one of the stage at hand,  *)
(* as it was parsed.                                                       *)
LEMMA AtIs ==
  ASSUME CheckInv, status = "RUN", blkt_ptr # NULL
  PROVE  /\ stage_no \in DOMAIN chan /\ Position \in 1..Count(stage_no)
         /\ blkt_ptr = <<stage_no, Position>> /\ blkt_ptr \in Blkts(chan)
         /\ Type(blkt_ptr) = Kind(stage_no, Position) /\ Type(blkt_ptr) \in Types
         /\ blkt_ptr \notin freed
<1>1. stage_no \in DOMAIN chan /\ blkt_ptr[1] = stage_no /\ blkt_ptr[2] \in 1..Count(stage_no)
  BY DEF CheckInv, InPlace
<1>2. chan \in Channels /\ blkt_ptr \in Blkts(chan)
  BY DEF CheckInv, TypeOK, BlktOrNull
<1>3. blkt_ptr = <<stage_no, blkt_ptr[2]>> /\ Position = blkt_ptr[2]
  BY <1>1, <1>2, BlktsIs DEF Position
<1>4. Type(blkt_ptr) = Kind(stage_no, Position) /\ Type(blkt_ptr) \in Types
  BY <1>1, <1>2, <1>3, TypeIs, ChanIs
<1>5. blkt_ptr \notin freed
  <2>1. stage_no \in Nat /\ Position \in Nat /\ Position \in 1..Count(stage_no)
    BY <1>1, <1>2, <1>3, ChanIs
  <2>2. Ahead(stage_no, Position)
    BY <2>1 DEF Ahead
  <2>3. Untouched
    BY DEF CheckInv
  <2> QED BY <1>1, <1>3, <2>1, <2>2, <2>3 DEF Untouched
<1> QED BY <1>1, <1>2, <1>3, <1>4, <1>5

(* What one blockette and a whole run of continuations read, and where     *)
(* they lead.                                                              *)
LEMMA ReadsIs ==
  ASSUME CheckInv, status = "RUN", blkt_ptr # NULL
  PROVE  /\ Reads(1) /\ After(1) = next[blkt_ptr]
         /\ LET len == RunLength(blkt_ptr)
            IN  /\ Reads(len) /\ After(len) = next[<<blkt_ptr[1], blkt_ptr[2] + len - 1>>]
                /\ Position + len - 1 \in 1..Count(stage_no)
<1> DEFINE s == stage_no
           p == Position
<1>1. /\ s \in DOMAIN chan /\ p \in 1..Count(s) /\ blkt_ptr = <<s, p>>
      /\ Type(blkt_ptr) = Kind(s, p)
  BY AtIs
<1>2. chan \in Channels /\ Count(s) \in Nat /\ p \in Nat /\ s \in Nat
  BY <1>1, ChanIs DEF CheckInv, TypeOK
<1>3. \A q \in p..Count(s) : next[<<s, q>>] = IF q = Count(s) THEN NULL ELSE <<s, q + 1>>
  <2>1. SUFFICES ASSUME NEW q \in p..Count(s)
                 PROVE  next[<<s, q>>] = IF q = Count(s) THEN NULL ELSE <<s, q + 1>>
    OBVIOUS
  <2>2. q \in 1..Count(s) /\ Ahead(s, q)
    BY <1>1, <1>2 DEF Ahead
  <2>3. Untouched
    BY DEF CheckInv
  <2> QED BY <1>1, <2>2, <2>3 DEF Untouched
<1> HIDE DEF s, p
<1>4. ASSUME NEW len \in Nat \ {0}, p + len - 1 <= Count(s),
             \A q \in p..(p + len - 1) : Kind(s, q) = Kind(s, p)
      PROVE  /\ Reads(len) /\ After(len) = next[<<s, p + len - 1>>]
             /\ p + len - 1 \in 1..Count(s)
  <2>1. p + len - 1 \in p..Count(s) /\ p + len - 1 \in 1..Count(s) /\ (p + len - 1) + 1 = p + len
    BY <1>1, <1>2, <1>4
  <2>2. Reads(len)
    BY <1>1, <1>4 DEF Reads, s, p
  <2>3. next[<<s, p + len - 1>>]
          = IF p + len - 1 = Count(s) THEN NULL ELSE <<s, (p + len - 1) + 1>>
    BY <1>3, <2>1
  <2> QED BY <2>1, <2>2, <2>3 DEF After, s, p
<1>5. Reads(1) /\ After(1) = next[blkt_ptr]
  <2>1. p + 1 - 1 = p /\ p <= Count(s) /\ \A q \in p..(p + 1 - 1) : Kind(s, q) = Kind(s, p)
    <3>1. p + 1 - 1 = p /\ p <= Count(s) /\ \A q \in p..(p + 1 - 1) : q = p
      BY <1>1, <1>2
    <3> QED BY <3>1
  <2>2. Reads(1) /\ After(1) = next[<<s, p + 1 - 1>>]
    BY <1>4, <2>1
  <2> QED BY <1>1, <2>1, <2>2
<1>6. LET len == RunLength(<<s, p>>)
      IN  /\ len \in Nat \ {0} /\ p + len - 1 <= Count(s)
          /\ \A q \in p..(p + len - 1) : Kind(s, q) = Kind(s, p)
  BY <1>1, <1>2, RunIs
<1>7. LET len == RunLength(<<s, p>>)
      IN  /\ Reads(len) /\ After(len) = next[<<s, p + len - 1>>]
          /\ p + len - 1 \in 1..Count(s)
  BY <1>4, <1>6
<1> QED BY <1>1, <1>5, <1>7 DEF s, p

(* Merging a run of continuations puts all their coefficients into the     *)
(* first of them.                                                          *)
LEMMA MergeIs ==
  ASSUME CheckInv, status = "RUN", blkt_ptr # NULL, Merge, UNCHANGED <<chan, stage_no, first_blkt>>
  PROVE  LET len == RunLength(blkt_ptr)
         IN  /\ Reads(len) /\ Merges(len) /\ next'[blkt_ptr] = After(len)
             /\ coeffs' = [coeffs EXCEPT ![blkt_ptr] =
                             Run(stage_no, Position, Position + len - 1)]
<1> DEFINE len == RunLength(blkt_ptr)
           b == blkt_ptr
<1>1. /\ Reads(len) /\ After(len) = next[<<b[1], b[2] + len - 1>>]
      /\ Position + len - 1 \in 1..Count(stage_no)
  BY ReadsIs
<1>2. /\ b[1] = stage_no /\ b[2] = Position /\ b \in DOMAIN next
      /\ Position \in Nat /\ len \in Nat \ {0}
  <2>1. chan \in Channels /\ next \in [Blkts(chan) -> BlktOrNull]
    BY DEF CheckInv, TypeOK
  <2>2. b \in Blkts(chan) /\ b = <<stage_no, Position>> /\ stage_no \in DOMAIN chan
          /\ Position \in 1..Count(stage_no)
    BY AtIs
  <2>3. Position \in Nat
    BY <2>1, <2>2, ChanIs
  <2> QED BY <1>1, <2>1, <2>2, <2>3 DEF Reads
<1> HIDE DEF len, b
<1>3. /\ coeffs' = [coeffs EXCEPT ![b] = [d \in 1..len |-> <<b[1], b[2] + d - 1>>]]
      /\ next' = [next EXCEPT ![b] = next[<<b[1], b[2] + len - 1>>]]
      /\ freed' = freed \cup {<<b[1], b[2] + d>> : d \in 1..(len - 1)}
  BY DEF Merge, len, b
<1>4. {<<b[1], b[2] + d>> : d \in 1..(len - 1)}
        = {<<stage_no, p>> : p \in (Position + 1)..(Position + len - 1)}
  <2>1. ASSUME NEW d \in 1..(len - 1)
        PROVE  b[2] + d \in (Position + 1)..(Position + len - 1)
    BY <1>2
  <2>2. ASSUME NEW p \in (Position + 1)..(Position + len - 1)
        PROVE  p - Position \in 1..(len - 1) /\ b[2] + (p - Position) = p
    BY <1>2
  <2> QED BY <1>2, <2>1, <2>2
<1>5. Run(stage_no, Position, Position + len - 1) = [d \in 1..len |-> <<b[1], b[2] + d - 1>>]
  <2>1. (Position + len - 1) - Position + 1 = len
    BY <1>2
  <2> QED BY <1>2, <2>1 DEF Run
<1>6. next'[b] = After(len)
  BY <1>1, <1>2, <1>3 DEF b
<1>7. Merges(len)
  BY <1>1, <1>3, <1>4 DEF Merges, b
<1> QED BY <1>1, <1>3, <1>5, <1>6, <1>7 DEF len, b

(* What is merged away belongs to this stage, and nothing points to it.    *)
LEMMA MergedApart ==
  ASSUME CheckInv, NEW len, Reads(len), Merges(len)
  PROVE  /\ GainsKept'
         /\ \A s \in DOMAIN chan : s >= stage_no => Plain(s)'
         /\ \A s \in DOMAIN chan : Plain(s)' \/ (\E order \in Seq(Blkts(chan)) : Tied(s, order))'
<1> DEFINE n == stage_no
           pos == Position
           gone == {<<n, p>> : p \in (pos + 1)..(pos + len - 1)}
<1>1. /\ chan \in Channels /\ n \in DOMAIN chan /\ n \in Nat /\ Count(n) \in Nat
      /\ pos \in 1..Count(n) /\ len \in Nat \ {0} /\ pos + len - 1 <= Count(n)
      /\ blkt_ptr = <<n, pos>> /\ DOMAIN chan \subseteq Nat
      /\ next \in [Blkts(chan) -> BlktOrNull]
  BY ChanIs DEF CheckInv, TypeOK, Reads
<1>2. /\ chan' = chan /\ first_blkt' = first_blkt /\ freed' = freed \cup gone
      /\ next' = [next EXCEPT ![<<n, pos>>] = After(len)]
  BY <1>1 DEF Merges
<1>3. /\ GainsKept /\ Apart /\ Untouched /\ status = "RUN"
  BY DEF CheckInv, Reads
<1> HIDE DEF n, pos, gone
<1>4. \A s \in DOMAIN chan : \A p \in 1..Count(s) :
        <<s, p>> \in gone <=> s = n /\ p \in (pos + 1)..(pos + len - 1)
  BY <1>1 DEF gone
<1>5. GainsKept'
  <2>1. \A s \in DOMAIN chan : <<s, 0>> \notin gone /\ <<s, 1>> \notin gone
    BY <1>1 DEF gone
  <2> QED BY <1>2, <1>3, <2>1 DEF GainsKept
<1>6. \A s : Count(s)' = Count(s) /\ FirstOf(chan, s)' = FirstOf(chan, s)
  BY <1>2 DEF Count, FirstOf
<1>7. ASSUME NEW s \in DOMAIN chan, Plain(s) PROVE Plain(s)'
  <2>1. first_blkt'[s] = FirstOf(chan, s)'
    BY <1>2, <1>6, <1>7 DEF Plain
  <2>2. ASSUME NEW p \in 1..Count(s), <<s, p>> \notin freed', next'[<<s, p>>] # NULL
        PROVE  LET b == next'[<<s, p>>] IN b[1] = s /\ b[2] > p /\ b \notin freed'
    <3>1. <<s, p>> \notin freed /\ <<s, p>> \notin gone /\ <<s, p>> \in Blkts(chan) /\ p \in Nat
            /\ s \in Nat /\ Count(s) \in Nat
      <4>1. p \in 0..Count(s) /\ Count(s) \in Nat
        BY <1>1, ChanIs
      <4> QED BY <1>1, <1>2, <2>2, <4>1, BlktsIs
    <3>2. CASE <<s, p>> = <<n, pos>>
      <4>1. next'[<<s, p>>] = After(len)
        BY <1>1, <1>2, <3>1, <3>2
      <4>2. After(len) = <<n, pos + len>> /\ pos + len \in 1..Count(n)
        BY <1>1, <2>2, <4>1 DEF After, n, pos
      <4>3. <<n, pos + len>> \notin gone
        BY <1>1, <1>4, <4>2
      <4>4. <<n, pos + len>> \notin freed
        <5>1. Ahead(n, pos + len)
          BY <1>1, <4>2 DEF Ahead, n, pos
        <5> QED BY <1>1, <1>3, <4>2, <5>1 DEF Untouched
      <4> QED BY <1>1, <1>2, <3>1, <3>2, <4>1, <4>2, <4>3, <4>4
    <3>3. CASE <<s, p>> # <<n, pos>>
      <4> DEFINE b == next[<<s, p>>]
      <4>1. next'[<<s, p>>] = b
        BY <1>1, <1>2, <3>1, <3>3
      <4>2. b # NULL /\ b[1] = s /\ b[2] > p /\ b \notin freed
        BY <1>7, <2>2, <3>1, <4>1 DEF Plain
      <4>3. b \notin gone
        <5>1. SUFFICES ASSUME b \in gone PROVE FALSE
          OBVIOUS
        <5>2. PICK q \in (pos + 1)..(pos + len - 1) : b = <<n, q>>
          BY <5>1 DEF gone
        <5>3. s = n /\ b[2] = q
          BY <4>2, <5>2
        <5>4. CASE p < pos
          <6>1. p \in Read(n)
            BY <1>1, <2>2, <3>1, <5>3, <5>4 DEF Read, n, pos
          <6>2. b[2] <= pos
            BY <1>3, <3>1, <4>2, <5>3, <6>1 DEF Untouched, n, pos
          <6> QED BY <1>1, <5>3, <6>2
        <5>5. CASE pos < p
          <6>1. Ahead(n, p)
            BY <1>1, <3>1, <5>5 DEF Ahead, n, pos
          <6>2. b = IF p = Count(n) THEN NULL ELSE <<n, p + 1>>
            BY <1>1, <1>3, <2>2, <5>3, <6>1 DEF Untouched
          <6>3. b = <<n, p + 1>>
            BY <4>2, <6>2
          <6>4. b[2] = p + 1
            BY <6>3
          <6>5. p \in (pos + 1)..(pos + len - 1)
            BY <1>1, <3>1, <5>3, <5>5, <6>4
          <6> QED BY <1>4, <2>2, <3>1, <5>3, <6>5
        <5>6. p # pos
          BY <3>3, <5>3
        <5> QED BY <1>1, <3>1, <5>4, <5>5, <5>6
      <4> QED BY <1>2, <4>1, <4>2, <4>3
    <3> QED BY <3>2, <3>3
  <2> QED BY <1>6, <2>1, <2>2 DEF Plain
<1>8. ASSUME NEW s \in DOMAIN chan, s # n, NEW order \in Seq(Blkts(chan)), Tied(s, order)
      PROVE  Tied(s, order)'
  <2>1. \A i \in 1..Len(order) : order[i] \in Blkts(chan) /\ order[i] # <<n, pos>>
                                   /\ order[i] \notin gone
    <3>1. \A i \in 1..Len(order) : order[i] \in Blkts(chan) /\ order[i][1] = s
      BY <1>8 DEF Tied
    <3> QED BY <1>8, <3>1 DEF gone
  <2>2. \A i \in 1..Len(order) : next'[order[i]] = next[order[i]] /\ order[i] \notin freed'
    BY <1>1, <1>2, <1>8, <2>1 DEF Tied
  <2> QED BY <1>2, <1>6, <1>8, <2>2 DEF Tied
<1>9. \A s \in DOMAIN chan : s >= n => Plain(s)
  BY <1>3 DEF Apart, n
<1>10. ASSUME NEW s \in DOMAIN chan
       PROVE  Plain(s)' \/ (\E order \in Seq(Blkts(chan)) : Tied(s, order))'
  <2>1. CASE Plain(s)
    BY <1>7, <2>1
  <2>2. CASE ~ Plain(s)
    <3>1. PICK order \in Seq(Blkts(chan)) : Tied(s, order)
      BY <1>3, <2>2 DEF Apart
    <3>2. s # n
      BY <1>1, <1>9, <2>2
    <3>3. Tied(s, order)'
      BY <1>8, <3>1, <3>2
    <3> QED BY <1>2, <3>3
  <2> QED BY <2>1, <2>2
<1> QED BY <1>5, <1>7, <1>9, <1>10 DEF n

(* Reading on keeps lists and gains in order, and what is read grows by    *)
(* what was passed.                                                        *)
LEMMA MovesShape ==
  ASSUME CheckInv, NEW len, Moves(len)
  PROVE  /\ InPlace' /\ Untouched' /\ GainsKept' /\ Apart'
         /\ Position' = Position + len
         /\ \A s : Read(s)' = IF s = stage_no THEN Read(s) \cup Position..(Position + len - 1)
                              ELSE Read(s)
<1> DEFINE n == stage_no
           pos == Position
<1>1. /\ chan \in Channels /\ n \in DOMAIN chan /\ n \in Nat /\ Count(n) \in Nat
      /\ pos \in 1..Count(n) /\ len \in Nat \ {0} /\ pos + len - 1 <= Count(n)
      /\ blkt_ptr = <<n, pos>> /\ DOMAIN chan \subseteq Nat
      /\ next \in [Blkts(chan) -> BlktOrNull]
  BY ChanIs DEF CheckInv, TypeOK, Moves, Reads
<1>2. /\ chan' = chan /\ stage_no' = n /\ status' = "RUN" /\ blkt_ptr' = After(len)
      /\ freed' = freed \cup {<<n, p>> : p \in (pos + 1)..(pos + len - 1)}
      /\ next' = [next EXCEPT ![<<n, pos>>] = After(len)]
      /\ Merges(len) /\ Reads(len)
  BY <1>1 DEF Moves, Merges
<1>3. GainsKept' /\ Apart'
  BY <1>2, MergedApart DEF Apart
<1>4. \A s : Count(s)' = Count(s)
  BY <1>2 DEF Count
<1>5. Position' = pos + len
  <2>1. <<n, pos + len>> # NULL
    BY <1>1 DEF NULL
  <2>2. After(len) = IF pos + len = Count(n) + 1 THEN NULL ELSE <<n, pos + len>>
    BY <1>1 DEF After
  <2>3. Position' = IF After(len) = NULL THEN Count(n) + 1 ELSE After(len)[2]
    BY <1>2, <1>4 DEF Position
  <2> QED BY <1>1, <2>1, <2>2, <2>3
<1>6. InPlace'
  <2>1. After(len) # NULL => After(len)[1] = n /\ After(len)[2] \in 1..Count(n)
    BY <1>1 DEF After
  <2> QED BY <1>1, <1>2, <1>4, <2>1 DEF InPlace
<1>7. Untouched /\ status = "RUN"
  BY DEF CheckInv, Moves, Reads
<1> HIDE DEF n, pos
<1>8. \A s : Read(s)' = IF s = n THEN Read(s) \cup pos..(pos + len - 1) ELSE Read(s)
  <2>1. SUFFICES ASSUME NEW s
                 PROVE  Read(s)' = IF s = n THEN Read(s) \cup pos..(pos + len - 1) ELSE Read(s)
    OBVIOUS
  <2>2. Read(s)' = {p \in 1..Count(s) : s < n \/ (s = n /\ p < pos + len)}
    BY <1>2, <1>4, <1>5 DEF Read
  <2>3. Read(s) = {p \in 1..Count(s) : s < n \/ (s = n /\ p < pos)}
    BY DEF Read, n, pos
  <2> QED BY <1>1, <2>2, <2>3
<1>9. ASSUME NEW s \in DOMAIN chan, NEW p \in 1..Count(s), s > n \/ (s = n /\ p >= pos + len)
      PROVE  /\ <<s, p>> \notin freed'
             /\ next'[<<s, p>>] = IF p = Count(s) THEN NULL ELSE <<s, p + 1>>
  <2>1. s \in Nat /\ p \in Nat /\ p \in 0..Count(s)
    BY <1>1, ChanIs
  <2>2. Ahead(s, p)
    BY <1>1, <1>9, <2>1 DEF Ahead, n, pos
  <2>3. <<s, p>> \notin freed /\ next[<<s, p>>] = IF p = Count(s) THEN NULL ELSE <<s, p + 1>>
    BY <1>7, <2>2 DEF Untouched
  <2>4. <<s, p>> # <<n, pos>> /\ <<s, p>> \in Blkts(chan)
    BY <1>1, <1>9, <2>1, BlktsIs
  <2>5. <<s, p>> \notin {<<n, q>> : q \in (pos + 1)..(pos + len - 1)}
    BY <1>1, <1>9, <2>1
  <2> QED BY <1>1, <1>2, <2>3, <2>4, <2>5
<1>10. ASSUME NEW p \in 1..Count(n), p < pos + len,
              <<n, p>> \notin freed', next'[<<n, p>>] # NULL
       PROVE  next'[<<n, p>>][2] <= pos + len
  <2>1. p \in 1..Count(n) /\ p \in Nat /\ p < pos + len
    BY <1>1, <1>10
  <2>2. p <= pos
    <3>1. p \notin (pos + 1)..(pos + len - 1)
      BY <1>2, <1>10
    <3> QED BY <1>1, <2>1, <3>1
  <2>3. CASE p = pos
    <3>1. <<n, pos>> \in Blkts(chan)
      BY <1>1, <2>1, <2>3, BlktsIs
    <3>2. next'[<<n, p>>] = After(len)
      BY <1>1, <1>2, <2>3, <3>1
    <3>3. After(len) = <<n, pos + len>>
      BY <1>10, <3>2 DEF After, n, pos
    <3> QED BY <1>1, <3>2, <3>3
  <2>4. CASE p # pos
    <3>1. p \in Read(n)
      BY <1>1, <2>1, <2>2, <2>4 DEF Read, n, pos
    <3>2. <<n, p>> # <<n, pos>> /\ <<n, p>> \in Blkts(chan)
      BY <1>1, <2>1, <2>4, BlktsIs
    <3>3. next'[<<n, p>>] = next[<<n, p>>] /\ <<n, p>> \notin freed
      BY <1>1, <1>2, <1>10, <3>2
    <3>4. next[<<n, p>>][2] <= pos
      BY <1>7, <1>10, <3>1, <3>3 DEF Untouched, n, pos
    <3>5. next[<<n, p>>][2] \in Nat
      <4>1. next[<<n, p>>] \in Blkts(chan)
        BY <1>1, <1>10, <3>2, <3>3 DEF BlktOrNull
      <4>2. \A b \in Blkts(chan) : b[1] \in DOMAIN chan /\ b[2] \in 0..Count(b[1])
        BY <1>1, BlktsIs
      <4> QED BY <1>1, <4>1, <4>2, ChanIs
    <3> QED BY <1>1, <3>3, <3>4, <3>5
  <2> QED BY <2>3, <2>4
<1>11. Untouched'
  <2>1. \A s, p : Ahead(s, p)' <=> s > n \/ (s = n /\ p >= pos + len)
    BY <1>2, <1>5 DEF Ahead
  <2>2. \A p : p \in Read(stage_no)' => p \in 1..Count(n) /\ p < pos + len
    <3>1. Read(stage_no)' = {p \in 1..Count(n) : n < n \/ (n = n /\ p < pos + len)}
      BY <1>2, <1>4, <1>5 DEF Read
    <3> QED BY <1>1, <3>1
  <2>3. \A s \in DOMAIN chan : \A p \in 1..Count(s) :
          Ahead(s, p)' => /\ <<s, p>> \notin freed'
                          /\ next'[<<s, p>>] = IF p = Count(s) THEN NULL ELSE <<s, p + 1>>
    BY <1>9, <2>1
  <2>4. \A p : p \in Read(stage_no)' =>
          (<<n, p>> \notin freed' /\ next'[<<n, p>>] # NULL => next'[<<n, p>>][2] <= Position')
    BY <1>5, <1>10, <2>2
  <2> QED BY <1>2, <1>4, <2>3, <2>4 DEF Untouched
<1> QED BY <1>3, <1>5, <1>6, <1>8, <1>11 DEF n, pos

(* Every way a blockette is read is such a step.                           *)
LEMMA FilterTypes ==
  /\ \A t \in Filters : /\ StageTypeOf(t) \in StageTypes
                        /\ StageTypeOf(t) \notin {"UNDEF_STAGE", "GAIN_TYPE"}
                        /\ StageTypeOf(t) = "FIR_TYPE" <=> t \in FirTypes
  /\ FirTypes \subseteq Filters
  /\ {"POLYNOMIAL", "PZ", "IIR_PZ", "LIST", "GENERIC", "IIR_COEFFS"} \subseteq Filters \ FirTypes
  /\ {"GAIN", "DECIMATION", "REFERENCE"} \cap Filters = {}
<1>1. Filters = FirTypes \cup {"POLYNOMIAL", "PZ", "IIR_PZ", "LIST", "GENERIC", "IIR_COEFFS"}
  BY DEF Filters, Types, FirTypes
<1>2. ASSUME NEW t \in FirTypes PROVE StageTypeOf(t) = "FIR_TYPE"
  BY DEF StageTypeOf, FirTypes
<1>3. /\ StageTypeOf("POLYNOMIAL") = "POLYNOMIAL_TYPE" /\ StageTypeOf("PZ") = "PZ_TYPE"
      /\ StageTypeOf("IIR_PZ") = "IIR_TYPE" /\ StageTypeOf("LIST") = "LIST_TYPE"
      /\ StageTypeOf("GENERIC") = "GENERIC_TYPE" /\ StageTypeOf("IIR_COEFFS") = "IIR_COEFFS_TYPE"
  BY DEF StageTypeOf, FirTypes
<1>4. \A t \in Filters : StageTypeOf(t) \in StageTypes
  BY DEF StageTypes
<1>5. ASSUME NEW t \in Filters
      PROVE  /\ StageTypeOf(t) \notin {"UNDEF_STAGE", "GAIN_TYPE"}
             /\ StageTypeOf(t) = "FIR_TYPE" <=> t \in FirTypes
  <2>1. CASE t \in FirTypes
    BY <1>2, <2>1
  <2>2. CASE t \in {"POLYNOMIAL", "PZ", "IIR_PZ", "LIST", "GENERIC", "IIR_COEFFS"}
    BY <1>3, <2>2 DEF FirTypes
  <2> QED BY <1>1, <2>1, <2>2
<1>6. /\ FirTypes \subseteq Filters
      /\ {"POLYNOMIAL", "PZ", "IIR_PZ", "LIST", "GENERIC", "IIR_COEFFS"} \subseteq Filters \ FirTypes
      /\ {"GAIN", "DECIMATION", "REFERENCE"} \cap Filters = {}
  BY <1>1 DEF FirTypes
<1> QED BY <1>4, <1>5, <1>6

(* A step to the next blockette reads one.                                 *)
LEMMA OneRead ==
  ASSUME CheckInv, status = "RUN", blkt_ptr # NULL, blkt_ptr' = next[blkt_ptr],
         UNCHANGED <<chan, stage_no, first_blkt, next, freed, coeffs, prev_stage, status>>
  PROVE  Moves(1)
<1>1. Reads(1) /\ After(1) = next[blkt_ptr]
  BY ReadsIs
<1>2. blkt_ptr \in Blkts(chan) /\ Position \in 1..Count(stage_no) /\ stage_no \in DOMAIN chan
  BY AtIs
<1>3. next \in [Blkts(chan) -> BlktOrNull] /\ chan \in Channels
  BY DEF CheckInv, TypeOK
<1>4. next = [next EXCEPT ![blkt_ptr] = next[blkt_ptr]]
  BY <1>2, <1>3
<1>5. (Position + 1)..(Position + 1 - 1) = {}
  <2>1. Position \in Nat
    BY <1>2, <1>3, ChanIs
  <2> QED BY <2>1
<1>6. freed' = freed \cup {<<stage_no, p>> : p \in (Position + 1)..(Position + 1 - 1)}
  BY <1>5
<1> QED BY <1>1, <1>4, <1>6 DEF Moves, Merges

(* A step that merges reads the whole run.                                 *)
LEMMA RunRead ==
  ASSUME CheckInv, status = "RUN", blkt_ptr # NULL, Merge, TakeFilter
  PROVE  /\ Moves(RunLength(blkt_ptr))
         /\ coeffs'[blkt_ptr] = Run(stage_no, Position, Position + RunLength(blkt_ptr) - 1)
<1>1. UNCHANGED <<chan, stage_no, first_blkt, prev_stage, status>> /\ blkt_ptr' = next'[blkt_ptr]
  BY DEF TakeFilter
<1> DEFINE len == RunLength(blkt_ptr)
<1>2. /\ Reads(len) /\ Merges(len) /\ next'[blkt_ptr] = After(len)
      /\ coeffs' = [coeffs EXCEPT ![blkt_ptr] = Run(stage_no, Position, Position + len - 1)]
  BY <1>1, MergeIs
<1>3. coeffs \in [Blkts(chan) -> Seq(Blkts(chan))] /\ blkt_ptr \in Blkts(chan)
  BY AtIs DEF CheckInv, TypeOK
<1> HIDE DEF len
<1>4. Moves(len)
  BY <1>1, <1>2, <1>3 DEF Moves
<1> QED BY <1>2, <1>3, <1>4 DEF len

TakesFilter == Polynomial \/ PoleZero \/ List \/ Generic \/ Fir \/ IirCoeffs
TakesOther == Gain \/ Decimation \/ Reference

(* Every action that reads blockettes reads one, or the run of a FIR       *)
(* filter or list.                                                         *)
LEMMA ReadMoves ==
  ASSUME CheckInv, TakesFilter \/ TakesOther
  PROVE  /\ status = "RUN" /\ blkt_ptr # NULL
         /\ \E len : /\ Moves(len)
                     /\ TakesOther => len = 1
                     /\ Fir => len = RunLength(blkt_ptr)
<1>1. CASE Polynomial \/ PoleZero \/ Generic \/ IirCoeffs
  <2>1. /\ status = "RUN" /\ blkt_ptr # NULL /\ UNCHANGED <<next, coeffs, freed>> /\ TakeFilter
        /\ Type(blkt_ptr) \in {"POLYNOMIAL", "PZ", "IIR_PZ", "GENERIC", "IIR_COEFFS"}
    BY <1>1 DEF Polynomial, PoleZero, Generic, IirCoeffs, AtBlkt, KeepBlkts
  <2>2. Moves(1)
    BY <2>1, OneRead DEF TakeFilter
  <2>3. ~ TakesOther /\ ~ Fir
    BY <2>1 DEF TakesOther, Gain, Decimation, Reference, Fir, AtBlkt, FirTypes
  <2> QED BY <2>1, <2>2, <2>3
<1>2. CASE List \/ Fir
  <2>1. /\ status = "RUN" /\ blkt_ptr # NULL /\ Merge /\ TakeFilter
        /\ Type(blkt_ptr) \in {"LIST"} \cup FirTypes
    BY <1>2 DEF List, Fir, AtBlkt
  <2>2. Moves(RunLength(blkt_ptr))
    BY <2>1, RunRead
  <2>3. ~ TakesOther
    BY <2>1 DEF TakesOther, Gain, Decimation, Reference, AtBlkt, FirTypes
  <2> QED BY <2>1, <2>2, <2>3
<1>3. CASE TakesOther
  <2>1. /\ status = "RUN" /\ blkt_ptr # NULL /\ blkt_ptr' = next[blkt_ptr]
        /\ UNCHANGED <<chan, stage_no, first_blkt, next, freed, coeffs, prev_stage, status>>
        /\ Type(blkt_ptr) \in {"GAIN", "DECIMATION", "REFERENCE"}
    BY <1>3 DEF TakesOther, Gain, Decimation, Reference, AtBlkt, lists
  <2>2. Moves(1)
    BY <2>1, OneRead
  <2>3. ~ Fir
    BY <2>1 DEF Fir, AtBlkt, FirTypes
  <2> QED BY <2>1, <2>2, <2>3
<1> QED BY <1>1, <1>2, <1>3 DEF TakesFilter

(* What is noted of a role stays true of it.                               *)
LEMMA NotedStays ==
  ASSUME CheckInv, NEW len, Moves(len), NEW f, NEW b, NEW types,
         Type(blkt_ptr) \notin types, Noted(f, b, types)
  PROVE  Noted(f, b, types)'
<1> DEFINE n == stage_no
           pos == Position
<1>1. /\ chan \in Channels /\ n \in DOMAIN chan /\ pos \in 1..Count(n) /\ Count(n) \in Nat
      /\ len \in Nat \ {0} /\ \A p \in pos..(pos + len - 1) : Kind(n, p) = Type(blkt_ptr)
  BY ChanIs DEF CheckInv, TypeOK, Moves, Reads
<1>2. chan' = chan /\ stage_no' = n
        /\ freed' = freed \cup {<<n, p>> : p \in (pos + 1)..(pos + len - 1)}
  BY DEF Moves, Merges
<1>3. Read(n) = {p \in 1..Count(n) : p < pos}
  <2>1. n \in Nat
    BY <1>1, ChanIs
  <2> QED BY <2>1 DEF Read
<1>4. Read(stage_no)' = Read(n) \cup pos..(pos + len - 1)
  <2>1. PICK k : k = stage_no
    OBVIOUS
  <2>2. Read(k)' = Read(k) \cup pos..(pos + len - 1)
    BY <2>1, MovesShape
  <2>3. Read(stage_no)' = Read(k)'
    BY <1>2, <2>1 DEF Read
  <2> QED BY <2>1, <2>2, <2>3
<1>5. \A p : Kind(stage_no, p)' = Kind(n, p)
  BY <1>2 DEF Kind
<1> HIDE DEF n, pos
<1>6. f <=> \E p \in Read(stage_no)' : Kind(n, p) \in types
  BY <1>1, <1>4 DEF Noted, n
<1>7. ASSUME f PROVE /\ b[1] = n /\ b[2] \in Read(stage_no)' /\ b \notin freed'
                     /\ Kind(n, b[2]) \in types
  <2>1. b[1] = n /\ b[2] \in Read(n) /\ b \notin freed /\ Kind(n, b[2]) \in types
    BY <1>7 DEF Noted, n
  <2>2. b \notin {<<n, p>> : p \in (pos + 1)..(pos + len - 1)}
    BY <1>1, <1>3, <2>1
  <2> QED BY <1>2, <1>4, <2>1, <2>2
<1> QED BY <1>2, <1>5, <1>6, <1>7 DEF Noted

(* The blockette just read is noted in its role.                           *)
LEMMA NotedNow ==
  ASSUME CheckInv, NEW len, Moves(len), NEW b, b = blkt_ptr, NEW types,
         Type(blkt_ptr) \in types
  PROVE  Noted(TRUE, b, types)'
<1> DEFINE n == stage_no
           pos == Position
<1>1. /\ chan \in Channels /\ n \in DOMAIN chan /\ pos \in 1..Count(n) /\ Count(n) \in Nat
      /\ len \in Nat \ {0} /\ Kind(n, pos) = Type(blkt_ptr) /\ b = <<n, pos>> /\ b \notin freed
  <2>1. status = "RUN" /\ blkt_ptr # NULL /\ len \in Nat \ {0}
    BY DEF Moves, Reads, NULL
  <2>2. chan \in Channels
    BY DEF CheckInv, TypeOK
  <2> QED BY <2>1, <2>2, AtIs, ChanIs
<1>2. chan' = chan /\ stage_no' = n
        /\ freed' = freed \cup {<<n, p>> : p \in (pos + 1)..(pos + len - 1)}
  BY DEF Moves, Merges
<1>4. Read(stage_no)' = Read(n) \cup pos..(pos + len - 1)
  <2>1. PICK k : k = stage_no
    OBVIOUS
  <2>2. Read(k)' = Read(k) \cup pos..(pos + len - 1)
    BY <2>1, MovesShape
  <2>3. Read(stage_no)' = Read(k)'
    BY <1>2, <2>1 DEF Read
  <2> QED BY <2>1, <2>2, <2>3
<1>5. \A p : Kind(stage_no, p)' = Kind(n, p)
  BY <1>2 DEF Kind
<1> HIDE DEF n, pos
<1>6. pos \in Read(stage_no)'
  BY <1>1, <1>4
<1>7. b \notin freed'
  BY <1>1, <1>2
<1> QED BY <1>1, <1>2, <1>5, <1>6, <1>7 DEF Noted

(* Reading blockettes keeps the roles.                                     *)
LEMMA RolesStep ==
  ASSUME CheckInv, TakesFilter \/ TakesOther
  PROVE  Roles'
<1>1. status = "RUN" /\ blkt_ptr # NULL
  BY ReadMoves
<1>2. PICK len : Moves(len)
  BY ReadMoves
<1>3. PICK f, b, t, d, db, g, gb, r, rb, st :
        /\ f = HasFilter /\ b = filt_blkt /\ t = Type(blkt_ptr) /\ st = stage_type
        /\ d = deci_flag /\ db = deci_blkt /\ g = gain_flag /\ gb = gain_blkt
        /\ r = ref_flag /\ rb = ref_blkt
  OBVIOUS
<1>4. PICK x : x = blkt_ptr
  OBVIOUS
<1>5. /\ Noted(f, b, Filters) /\ Noted(d, db, {"DECIMATION"}) /\ Noted(g, gb, {"GAIN"})
      /\ Noted(r, rb, {"REFERENCE"})
      /\ f => st = StageTypeOf(Type(b))
      /\ ~ g => gb = NULL
      /\ \A p \in Read(stage_no) : Kind(stage_no, p) \notin {"UNDEF", "FIR_COEFFS"}
  BY <1>1, <1>3 DEF CheckInv, Roles
<1>6. \A y : Type(y)' = Type(y)
  BY <1>2 DEF Moves, Merges, Type
<1>7. /\ \A types : t \in types => Noted(TRUE, x, types)'
      /\ \A ff, bb, types : t \notin types /\ Noted(ff, bb, types) => Noted(ff, bb, types)'
  BY <1>2, <1>3, <1>4, NotedStays, NotedNow
<1>8. t \notin {"UNDEF", "FIR_COEFFS"}
        => \A p \in Read(stage_no)' : Kind(stage_no, p)' \notin {"UNDEF", "FIR_COEFFS"}
  <2> SUFFICES ASSUME t \notin {"UNDEF", "FIR_COEFFS"}
               PROVE  \A p \in Read(stage_no)' : Kind(stage_no, p)' \notin {"UNDEF", "FIR_COEFFS"}
    OBVIOUS
  <2>1. Noted(FALSE, x, {"UNDEF", "FIR_COEFFS"})
    BY <1>5 DEF Noted
  <2>2. Noted(FALSE, x, {"UNDEF", "FIR_COEFFS"})'
    BY <1>7, <2>1
  <2> QED BY <2>2 DEF Noted
<1>9. status' = "RUN"
  BY <1>2 DEF Moves
<1>10. CASE TakesFilter
  <2>1. /\ stage_type' = StageTypeOf(t) /\ filt_blkt' = x
        /\ UNCHANGED <<deci_blkt, gain_blkt, ref_blkt, flags>> /\ t \in Filters
    <3>1. TakeFilter
      BY <1>10 DEF TakesFilter, Polynomial, PoleZero, List, Generic, Fir, IirCoeffs
    <3>2. t \in Filters
      <4>1. t \in FirTypes \cup {"POLYNOMIAL", "PZ", "IIR_PZ", "LIST", "GENERIC", "IIR_COEFFS"}
        BY <1>3, <1>10 DEF TakesFilter, Polynomial, PoleZero, List, Generic, Fir, IirCoeffs, AtBlkt
      <4> QED BY <4>1, FilterTypes
    <3> QED BY <1>3, <1>4, <3>1, <3>2 DEF TakeFilter
  <2>2. /\ t \notin {"DECIMATION"} /\ t \notin {"GAIN"} /\ t \notin {"REFERENCE"}
        /\ t \notin {"UNDEF", "FIR_COEFFS"}
    BY <2>1 DEF Filters
  <2>3. /\ Noted(TRUE, x, Filters)' /\ Noted(d, db, {"DECIMATION"})' /\ Noted(g, gb, {"GAIN"})'
        /\ Noted(r, rb, {"REFERENCE"})'
    <3>1. Noted(TRUE, x, Filters)'
      BY <1>5, <1>7, <2>1, <2>2
    <3>2. Noted(d, db, {"DECIMATION"})'
      BY <1>5, <1>7, <2>1, <2>2
    <3>3. Noted(g, gb, {"GAIN"})'
      BY <1>5, <1>7, <2>1, <2>2
    <3>4. Noted(r, rb, {"REFERENCE"})'
      BY <1>5, <1>7, <2>1, <2>2
    <3> QED BY <3>1, <3>2, <3>3, <3>4
  <2>4. HasFilter'
    BY <2>1, FilterTypes DEF HasFilter
  <2>5. Noted(HasFilter, filt_blkt, Filters)'
    BY <2>1, <2>3, <2>4 DEF Noted
  <2>6. Noted(deci_flag, deci_blkt, {"DECIMATION"})' /\ Noted(gain_flag, gain_blkt, {"GAIN"})'
          /\ Noted(ref_flag, ref_blkt, {"REFERENCE"})' /\ (~ gain_flag => gain_blkt = NULL)'
    BY <1>3, <1>5, <2>1, <2>3 DEF Noted, flags
  <2>7. (HasFilter => stage_type = StageTypeOf(Type(filt_blkt)))'
    BY <1>3, <1>4, <1>6, <2>1
  <2> QED BY <1>8, <2>2, <2>5, <2>6, <2>7 DEF Roles
<1>11. CASE Gain
  <2>1. /\ stage_type' = IF st = "UNDEF_STAGE" THEN "GAIN_TYPE" ELSE st
        /\ gain_flag' = TRUE /\ gain_blkt' = x /\ t = "GAIN"
        /\ UNCHANGED <<filt_blkt, deci_blkt, ref_blkt, deci_flag, ref_flag>>
    BY <1>3, <1>4, <1>11 DEF Gain, AtBlkt
  <2>2. t \notin Filters /\ t \notin {"DECIMATION"} /\ t \notin {"REFERENCE"}
        /\ t \notin {"UNDEF", "FIR_COEFFS"} /\ t \in {"GAIN"}
    BY <2>1 DEF Filters
  <2>3. /\ Noted(f, b, Filters)' /\ Noted(d, db, {"DECIMATION"})' /\ Noted(TRUE, x, {"GAIN"})'
        /\ Noted(r, rb, {"REFERENCE"})'
    <3>1. Noted(f, b, Filters)'
      BY <1>5, <1>7, <2>1, <2>2
    <3>2. Noted(d, db, {"DECIMATION"})'
      BY <1>5, <1>7, <2>1, <2>2
    <3>3. Noted(TRUE, x, {"GAIN"})'
      BY <1>5, <1>7, <2>1, <2>2
    <3>4. Noted(r, rb, {"REFERENCE"})'
      BY <1>5, <1>7, <2>1, <2>2
    <3> QED BY <3>1, <3>2, <3>3, <3>4
  <2>4. HasFilter' <=> f
    BY <1>3, <2>1 DEF HasFilter
  <2>5. Noted(HasFilter, filt_blkt, Filters)'
    BY <1>3, <2>1, <2>3, <2>4 DEF Noted
  <2>6. Noted(deci_flag, deci_blkt, {"DECIMATION"})' /\ Noted(gain_flag, gain_blkt, {"GAIN"})'
          /\ Noted(ref_flag, ref_blkt, {"REFERENCE"})' /\ (~ gain_flag => gain_blkt = NULL)'
    BY <1>3, <1>5, <2>1, <2>3 DEF Noted
  <2>7. (HasFilter => stage_type = StageTypeOf(Type(filt_blkt)))'
    <3>1. filt_blkt' = b /\ stage_type' = IF st = "UNDEF_STAGE" THEN "GAIN_TYPE" ELSE st
      BY <1>3, <2>1
    <3>2. Type(filt_blkt)' = Type(b)
      BY <1>2, <3>1 DEF Moves, Merges, Type
    <3>3. f => st = StageTypeOf(Type(b)) /\ st # "UNDEF_STAGE"
      BY <1>3, <1>5 DEF HasFilter
    <3> QED BY <2>4, <3>1, <3>2, <3>3
  <2> QED BY <1>8, <2>2, <2>5, <2>6, <2>7 DEF Roles
<1>12. CASE Decimation
  <2>1. /\ deci_flag' = TRUE /\ deci_blkt' = x /\ t = "DECIMATION"
        /\ UNCHANGED <<stage_type, filt_blkt, gain_blkt, ref_blkt, gain_flag, ref_flag>>
    BY <1>3, <1>4, <1>12 DEF Decimation, AtBlkt
  <2>2. t \notin Filters /\ t \notin {"GAIN"} /\ t \notin {"REFERENCE"}
        /\ t \notin {"UNDEF", "FIR_COEFFS"} /\ t \in {"DECIMATION"}
    BY <2>1 DEF Filters
  <2>3. /\ Noted(f, b, Filters)' /\ Noted(TRUE, x, {"DECIMATION"})' /\ Noted(g, gb, {"GAIN"})'
        /\ Noted(r, rb, {"REFERENCE"})'
    <3>1. Noted(f, b, Filters)'
      BY <1>5, <1>7, <2>1, <2>2
    <3>2. Noted(TRUE, x, {"DECIMATION"})'
      BY <1>5, <1>7, <2>1, <2>2
    <3>3. Noted(g, gb, {"GAIN"})'
      BY <1>5, <1>7, <2>1, <2>2
    <3>4. Noted(r, rb, {"REFERENCE"})'
      BY <1>5, <1>7, <2>1, <2>2
    <3> QED BY <3>1, <3>2, <3>3, <3>4
  <2>4. HasFilter' <=> f
    BY <1>3, <2>1 DEF HasFilter
  <2>5. Noted(HasFilter, filt_blkt, Filters)'
    BY <1>3, <2>1, <2>3, <2>4 DEF Noted
  <2>6. Noted(deci_flag, deci_blkt, {"DECIMATION"})' /\ Noted(gain_flag, gain_blkt, {"GAIN"})'
          /\ Noted(ref_flag, ref_blkt, {"REFERENCE"})' /\ (~ gain_flag => gain_blkt = NULL)'
    BY <1>3, <1>5, <2>1, <2>3 DEF Noted
  <2>7. (HasFilter => stage_type = StageTypeOf(Type(filt_blkt)))'
    <3>1. filt_blkt' = b /\ stage_type' = st
      BY <1>3, <2>1
    <3>2. Type(filt_blkt)' = Type(b)
      BY <1>2, <3>1 DEF Moves, Merges, Type
    <3>3. f => st = StageTypeOf(Type(b))
      BY <1>5
    <3> QED BY <2>4, <3>1, <3>2, <3>3
  <2> QED BY <1>8, <2>2, <2>5, <2>6, <2>7 DEF Roles
<1>13. CASE Reference
  <2>1. /\ ref_flag' = TRUE /\ ref_blkt' = x /\ t = "REFERENCE"
        /\ UNCHANGED <<stage_type, filt_blkt, deci_blkt, gain_blkt, gain_flag, deci_flag>>
    BY <1>3, <1>4, <1>13 DEF Reference, AtBlkt
  <2>2. t \notin Filters /\ t \notin {"GAIN"} /\ t \notin {"DECIMATION"}
        /\ t \notin {"UNDEF", "FIR_COEFFS"} /\ t \in {"REFERENCE"}
    BY <2>1 DEF Filters
  <2>3. /\ Noted(f, b, Filters)' /\ Noted(d, db, {"DECIMATION"})' /\ Noted(g, gb, {"GAIN"})'
        /\ Noted(TRUE, x, {"REFERENCE"})'
    <3>1. Noted(f, b, Filters)'
      BY <1>5, <1>7, <2>1, <2>2
    <3>2. Noted(d, db, {"DECIMATION"})'
      BY <1>5, <1>7, <2>1, <2>2
    <3>3. Noted(g, gb, {"GAIN"})'
      BY <1>5, <1>7, <2>1, <2>2
    <3>4. Noted(TRUE, x, {"REFERENCE"})'
      BY <1>5, <1>7, <2>1, <2>2
    <3> QED BY <3>1, <3>2, <3>3, <3>4
  <2>4. HasFilter' <=> f
    BY <1>3, <2>1 DEF HasFilter
  <2>5. Noted(HasFilter, filt_blkt, Filters)'
    BY <1>3, <2>1, <2>3, <2>4 DEF Noted
  <2>6. Noted(deci_flag, deci_blkt, {"DECIMATION"})' /\ Noted(gain_flag, gain_blkt, {"GAIN"})'
          /\ Noted(ref_flag, ref_blkt, {"REFERENCE"})' /\ (~ gain_flag => gain_blkt = NULL)'
    BY <1>3, <1>5, <2>1, <2>3 DEF Noted
  <2>7. (HasFilter => stage_type = StageTypeOf(Type(filt_blkt)))'
    <3>1. filt_blkt' = b /\ stage_type' = st
      BY <1>3, <2>1
    <3>2. Type(filt_blkt)' = Type(b)
      BY <1>2, <3>1 DEF Moves, Merges, Type
    <3>3. f => st = StageTypeOf(Type(b))
      BY <1>5
    <3> QED BY <2>4, <3>1, <3>2, <3>3
  <2> QED BY <1>8, <2>2, <2>5, <2>6, <2>7 DEF Roles
<1> QED BY <1>10, <1>11, <1>12, <1>13 DEF TakesOther

(* The run of FIR blockettes, and no other stage's list, is disturbed.     *)
LEMMA FirsStep ==
  ASSUME CheckInv, TakesFilter \/ TakesOther
  PROVE  FirsMerged'
<1>1. status = "RUN" /\ blkt_ptr # NULL
  BY ReadMoves
<1>2. PICK len : Moves(len) /\ (Fir => len = RunLength(blkt_ptr))
  BY ReadMoves
<1>3. SUFFICES ASSUME stage_type' = "FIR_TYPE"
      PROVE  (\E z \in 1..Count(stage_no) :
                /\ IsRun(stage_no, filt_blkt[2], z)
                /\ coeffs[filt_blkt] = Run(stage_no, filt_blkt[2], z)
                /\ nc = Taps(Kind(stage_no, filt_blkt[2]), z - filt_blkt[2] + 1))'
  BY DEF FirsMerged
<1>4. PICK n, pos : n = stage_no /\ pos = Position
  OBVIOUS
<1>5. /\ chan \in Channels /\ n \in DOMAIN chan /\ pos \in 1..Count(n) /\ Count(n) \in Nat
      /\ n \in Nat /\ len \in Nat \ {0} /\ pos + len - 1 <= Count(n)
      /\ \A p \in pos..(pos + len - 1) : Kind(n, p) = Type(blkt_ptr)
      /\ blkt_ptr = <<n, pos>> /\ blkt_ptr \in Blkts(chan)
  <2>1. chan \in Channels
    BY DEF CheckInv, TypeOK
  <2>2. /\ n \in DOMAIN chan /\ pos \in 1..Count(n) /\ Type(blkt_ptr) = Kind(n, pos)
        /\ blkt_ptr = <<n, pos>> /\ blkt_ptr \in Blkts(chan)
    BY <1>1, <1>4, AtIs
  <2>3. n \in Nat \ {0} /\ n <= Len(chan) /\ Len(chan) \in Nat /\ Count(n) \in Nat
    BY <2>1, <2>2, ChanIs
  <2>4. /\ len \in Nat \ {0} /\ pos + len - 1 <= Count(n)
        /\ \A p \in pos..(pos + len - 1) : Kind(n, p) = Kind(n, pos)
    BY <1>2, <1>4 DEF Moves, Reads
  <2> QED BY <2>1, <2>2, <2>3, <2>4
<1>6. chan' = chan /\ stage_no' = n
  BY <1>2, <1>4 DEF Moves, Merges
<1>7. Read(n)' = Read(n) \cup pos..(pos + len - 1) /\ Read(n) = {p \in 1..Count(n) : p < pos}
  <2>1. Read(n)' = Read(n) \cup pos..(pos + len - 1)
    BY <1>2, <1>4, MovesShape
  <2> QED BY <1>4, <1>5, <2>1 DEF Read
<1>8. /\ \A p : Kind(n, p)' = Kind(n, p)
      /\ \A a, z : Run(n, a, z)' = Run(n, a, z)
      /\ Count(n)' = Count(n)
  BY <1>6 DEF Kind, Run, Count
<1>9. Firs(n)' = {p \in Read(n)' : Kind(n, p) \in FirTypes}
  BY <1>8 DEF Firs
<1>10. CASE TakesFilter
  <2>1. stage_type' = StageTypeOf(Type(blkt_ptr)) /\ filt_blkt' = blkt_ptr
          /\ Type(blkt_ptr) \in FirTypes \cup {"POLYNOMIAL", "PZ", "IIR_PZ", "LIST", "GENERIC", "IIR_COEFFS"}
    BY <1>10 DEF TakesFilter, Polynomial, PoleZero, List, Generic, Fir, IirCoeffs, AtBlkt, TakeFilter
  <2>2. Type(blkt_ptr) \in FirTypes
    BY <1>3, <2>1, FilterTypes
  <2>3. Fir
    BY <1>10, <2>2 DEF TakesFilter, Polynomial, PoleZero, List, Generic, IirCoeffs, AtBlkt, FirTypes
  <2>4. \A p \in Read(n) : Kind(n, p) \notin Filters
    BY <1>1, <1>4, <2>3 DEF CheckInv, Roles, Noted, Fir
  <2> DEFINE z == pos + len - 1
  <2>5. Firs(n)' = pos..z
    <3>1. \A p \in pos..z : Kind(n, p) \in FirTypes
      BY <1>5, <2>2
    <3>2. \A p \in Read(n) : Kind(n, p) \notin FirTypes
      BY <2>4, FilterTypes
    <3> QED BY <1>7, <1>9, <3>1, <3>2
  <2>6. z \in 1..Count(n) /\ pos <= z /\ z - pos + 1 = len
    BY <1>5
  <2>7. coeffs'[blkt_ptr] = Run(n, pos, z) /\ nc' = Taps(Kind(n, pos), len)
    <3>1. Merge /\ TakeFilter /\ nc' = Taps(Type(blkt_ptr), RunLength(blkt_ptr))
      BY <2>3 DEF Fir
    <3>2. pos \in pos..(pos + len - 1)
      BY <1>5
    <3> QED BY <1>1, <1>2, <1>4, <1>5, <2>3, <3>1, <3>2, RunRead
  <2>8. filt_blkt'[2] = pos /\ filt_blkt' = <<n, pos>>
    BY <1>5, <2>1
  <2> HIDE DEF z
  <2>9. IsRun(n, pos, z)'
    BY <2>5, <2>6 DEF IsRun
  <2> QED BY <1>5, <1>6, <1>8, <2>1, <2>6, <2>7, <2>8, <2>9 DEF Run, Kind, Count, IsRun
<1>11. CASE TakesOther
  <2>1. /\ stage_type = "FIR_TYPE" /\ UNCHANGED <<filt_blkt, nc, coeffs>>
        /\ Type(blkt_ptr) \in {"GAIN", "DECIMATION", "REFERENCE"}
    <3>1. UNCHANGED <<filt_blkt, nc, coeffs>> /\ Type(blkt_ptr) \in {"GAIN", "DECIMATION", "REFERENCE"}
      BY <1>11 DEF TakesOther, Gain, Decimation, Reference, lists, AtBlkt
    <3>2. stage_type = "FIR_TYPE"
      BY <1>3, <1>11 DEF TakesOther, Gain, Decimation, Reference
    <3> QED BY <3>1, <3>2
  <2>2. PICK a : a = filt_blkt[2]
    OBVIOUS
  <2>3. PICK z \in 1..Count(n) :
          /\ IsRun(n, a, z) /\ coeffs[filt_blkt] = Run(n, a, z) /\ nc = Taps(Kind(n, a), z - a + 1)
    BY <1>1, <1>4, <2>1, <2>2 DEF CheckInv, FirsMerged
  <2>4. Firs(n)' = Firs(n)
    <3>1. Type(blkt_ptr) \notin FirTypes
      BY <2>1 DEF FirTypes
    <3>2. \A p \in pos..(pos + len - 1) : Kind(n, p) \notin FirTypes
      BY <1>5, <3>1
    <3> QED BY <1>7, <1>9, <3>2 DEF Firs
  <2>5. IsRun(n, a, z)'
    BY <2>3, <2>4 DEF IsRun
  <2>6. filt_blkt' = filt_blkt /\ filt_blkt'[2] = a /\ coeffs'[filt_blkt'] = Run(n, a, z)
          /\ nc' = Taps(Kind(n, a), z - a + 1)
    BY <2>1, <2>2, <2>3
  <2> QED BY <1>5, <1>6, <1>8, <2>3, <2>5, <2>6 DEF Run, Kind, Count, IsRun
<1> QED BY <1>10, <1>11

(* A stage whose list is left alone.                                       *)
Same(s) ==
  /\ chan' = chan /\ first_blkt'[s] = first_blkt[s]
  /\ \A b \in Blkts(chan) : b[1] = s =>
       next'[b] = next[b] /\ coeffs'[b] = coeffs[b] /\ (b \notin freed => b \notin freed')

(* A stage that a step does not touch stays tied, ...                      *)
LEMMA TiedStays ==
  ASSUME NEW s, NEW order, Tied(s, order), Same(s)
  PROVE  Tied(s, order)'
<1>1. Count(s)' = Count(s) /\ Blkts(chan)' = Blkts(chan)
  BY DEF Same, Count, Blkts
<1>2. \A i \in 1..Len(order) : order[i] \in Blkts(chan) /\ order[i][1] = s /\ order[i] \notin freed
  BY DEF Tied
<1>3. \A i \in 1..Len(order) : next'[order[i]] = next[order[i]] /\ order[i] \notin freed'
  BY <1>2 DEF Same
<1> QED BY <1>1, <1>2, <1>3 DEF Tied, Same

(* ... and complete ...                                                    *)
LEMMA CompleteStays ==
  ASSUME TypeOK, NEW s \in DOMAIN chan, Complete(s), Same(s)
  PROVE  Complete(s)'
<1>1. chan' = chan /\ Count(s)' = Count(s) /\ \A p : Kind(s, p)' = Kind(s, p)
  BY DEF Same, Count, Kind
<1>2. Digital(s)' <=> Digital(s)
  BY <1>1 DEF Digital
<1>3. Mixed(s)' <=> Mixed(s)
  BY <1>1 DEF Mixed, HoldsFilter
<1>4. ASSUME NEW order \in Seq(Blkts(chan)), Tied(s, order), Ranked(order),
             Digital(s) => WholeDigital(s, order)
      PROVE  Tied(s, order)' /\ Ranked(order)' /\ (Digital(s)' => WholeDigital(s, order)')
  <2>1. Tied(s, order)'
    BY <1>4, TiedStays
  <2>2. \A b : Type(b)' = Type(b)
    BY <1>1 DEF Type
  <2>3. Ranked(order)'
    BY <1>4, <2>2 DEF Ranked
  <2>4. \A i \in 1..Len(order) : order[i] \in Blkts(chan) /\ order[i][1] = s
    BY <1>4 DEF Tied
  <2>5. \A i \in 1..Len(order) : coeffs'[order[i]] = coeffs[order[i]]
    BY <2>4 DEF Same
  <2>6. \A a, z : Run(s, a, z)' = Run(s, a, z)
    BY DEF Run
  <2>7. WholeDigital(s, order) => WholeDigital(s, order)'
    BY <1>1, <2>2, <2>5, <2>6 DEF WholeDigital
  <2> QED BY <1>2, <1>4, <2>1, <2>3, <2>7
<1>5. Blkts(chan)' = Blkts(chan)
  BY <1>1 DEF Blkts
<1>6. Digital(s) => Mixed(s)
  BY DEF Complete
<1>7. Mixed(s) => \E order \in Seq(Blkts(chan)) :
                    Tied(s, order)' /\ Ranked(order)' /\ (Digital(s)' => WholeDigital(s, order)')
  <2>1. ASSUME Mixed(s) PROVE \E order \in Seq(Blkts(chan)) :
                    Tied(s, order)' /\ Ranked(order)' /\ (Digital(s)' => WholeDigital(s, order)')
    <3>1. PICK order \in Seq(Blkts(chan)) :
            Tied(s, order) /\ Ranked(order) /\ (Digital(s) => WholeDigital(s, order))
      BY <2>1 DEF Complete
    <3> QED BY <1>4, <3>1
  <2> QED BY <2>1
<1> QED BY <1>2, <1>3, <1>5, <1>6, <1>7 DEF Complete

(* ... and merging touches no stage but the one at hand, ...               *)
LEMMA MergedSame ==
  ASSUME CheckInv, NEW len, Reads(len), Merges(len), NEW s \in DOMAIN chan, s # stage_no,
         \A b \in Blkts(chan) : b # blkt_ptr => coeffs'[b] = coeffs[b]
  PROVE  Same(s)
<1>1. next \in [Blkts(chan) -> BlktOrNull] /\ blkt_ptr[1] = stage_no
  BY DEF CheckInv, TypeOK, Reads
<1>2. ASSUME NEW b \in Blkts(chan), b[1] = s
      PROVE  next'[b] = next[b] /\ coeffs'[b] = coeffs[b] /\ (b \notin freed => b \notin freed')
  <2>1. b # blkt_ptr /\ b \notin {<<stage_no, p>> : p \in (Position + 1)..(Position + len - 1)}
    BY <1>1, <1>2
  <2> QED BY <1>1, <2>1 DEF Merges
<1> QED BY <1>2 DEF Same, Merges

(* ... so the stages left behind stay complete while blockettes are read.  *)
LEMMA CompleteStep ==
  ASSUME CheckInv, NEW len, Reads(len), Merges(len),
         \A b \in Blkts(chan) : b # blkt_ptr => coeffs'[b] = coeffs[b]
  PROVE  AcceptedComplete'
<1>1. SUFFICES ASSUME NEW s \in DOMAIN chan, s < stage_no PROVE Complete(s)'
  BY DEF AcceptedComplete, Merges
<1>2. s # stage_no
  BY <1>1, ChanIs DEF CheckInv, TypeOK
<1>3. Same(s)
  BY <1>2, MergedSame
<1> QED BY <1>1, <1>3, CompleteStays DEF CheckInv, AcceptedComplete

(* Units and delays as a stage is read.                                    *)
LEMMA UnitsStep ==
  ASSUME CheckInv, NEW len, Moves(len)
  PROVE  UnitsSoFar'
<1>1. /\ chan' = chan /\ stage_no' = stage_no /\ prev_stage' = prev_stage
      /\ status = "RUN" /\ status' = "RUN"
  BY DEF Moves, Reads, Merges
<1>2. \A s : Passing(s)' = Passing(s) /\ Compared(s)' = Compared(s)
  BY <1>1 DEF Passing, HoldsFilter, Compared
<1>3. \A r, s : LastPassing(r, s)' = LastPassing(r, s)
  BY <1>2 DEF LastPassing
<1>4. LastPassing(prev_stage, stage_no)' = LastPassing(prev_stage, stage_no)
  BY <1>1, <1>2 DEF LastPassing
<1> QED BY <1>1, <1>2, <1>3, <1>4 DEF CheckInv, UnitsSoFar

(* Blockettes of other types add nothing to what is collected.             *)
LEMMA UptoSame ==
  ASSUME chan \in Channels, NEW s \in DOMAIN chan, NEW types, NEW n \in 0..Count(s), NEW len \in Nat,
         n + len <= Count(s), \A p \in (n + 1)..(n + len) : Kind(s, p) \notin types
  PROVE  Upto(s, n + len, types) = Upto(s, n, types)
<1> DEFINE T == {d \in Nat : d <= len => Upto(s, n + d, types) = Upto(s, n, types)}
<1>1. n \in Nat /\ Count(s) \in Nat
  BY ChanIs
<1>2. 0 \in T
  BY <1>1
<1>3. ASSUME NEW d \in Nat, d \in T PROVE d + 1 \in T
  <2>1. SUFFICES ASSUME d + 1 <= len PROVE Upto(s, n + (d + 1), types) = Upto(s, n, types)
    OBVIOUS
  <2>2. PICK k : k = n + d
    OBVIOUS
  <2>3. k \in 0..Count(s) /\ k < Count(s) /\ k + 1 = n + (d + 1) /\ k + 1 \in (n + 1)..(n + len)
    BY <1>1, <2>1, <2>2
  <2>4. Upto(s, k + 1, types) = Upto(s, k, types) \o <<>>
    BY <2>3, UptoIs
  <2>5. Upto(s, k, types) \in Seq(Blkts(chan))
    BY <2>3, UptoIs
  <2>6. Upto(s, k, types) \o <<>> = Upto(s, k, types)
    BY <2>5, ConcatEmptySeq
  <2>7. Upto(s, k, types) = Upto(s, n, types)
    BY <1>3, <2>1, <2>2
  <2> QED BY <2>3, <2>4, <2>6, <2>7
<1>4. Nat \subseteq T
  <2> HIDE DEF T
  <2> QED BY <1>2, <1>3, Induction
<1> QED BY <1>4

(* Reading blockettes keeps the delays: a decimation adds its own,         *)
(* computed from a filter of its stage that was read before.               *)
LEMMA DelaysStep ==
  ASSUME CheckInv, TakesFilter \/ TakesOther
  PROVE  DelaysSoFar'
<1> DEFINE D == {"DECIMATION"}
<1>1. status = "RUN" /\ blkt_ptr # NULL
  BY ReadMoves
<1>2. PICK len : Moves(len) /\ (TakesOther => len = 1)
  BY ReadMoves
<1>4. PICK n, pos : n = stage_no /\ pos = Position
  OBVIOUS
<1>5. /\ chan \in Channels /\ n \in DOMAIN chan /\ pos \in 1..Count(n) /\ Count(n) \in Nat
      /\ n \in Nat /\ len \in Nat \ {0} /\ pos + len - 1 <= Count(n) /\ n - 1 \in Nat
      /\ n - 1 <= Len(chan) /\ \A p \in pos..(pos + len - 1) : Kind(n, p) = Type(blkt_ptr)
      /\ blkt_ptr = <<n, pos>> /\ blkt_ptr \in Blkts(chan)
  <2>1. chan \in Channels
    BY DEF CheckInv, TypeOK
  <2>2. /\ n \in DOMAIN chan /\ pos \in 1..Count(n) /\ Type(blkt_ptr) = Kind(n, pos)
        /\ blkt_ptr = <<n, pos>> /\ blkt_ptr \in Blkts(chan)
    BY <1>1, <1>4, AtIs
  <2>3. n \in Nat \ {0} /\ n <= Len(chan) /\ Len(chan) \in Nat /\ Count(n) \in Nat
    BY <2>1, <2>2, ChanIs
  <2>4. /\ len \in Nat \ {0} /\ pos + len - 1 <= Count(n)
        /\ \A p \in pos..(pos + len - 1) : Kind(n, p) = Kind(n, pos)
    BY <1>2, <1>4 DEF Moves, Reads
  <2> QED BY <2>1, <2>2, <2>3, <2>4
<1>6. chan' = chan /\ stage_no' = n /\ status' = "RUN" /\ Position' = pos + len
  BY <1>2, <1>4, MovesShape DEF Moves, Merges
<1>7. /\ \A s, p : Kind(s, p)' = Kind(s, p)
      /\ \A s : Count(s)' = Count(s)
      /\ \A s, types : Positions(s, types)' = Positions(s, types)
  BY <1>6 DEF Kind, Count, Positions, Type
<1>8. Counted(stage_no - 1)' = Counted(n - 1) /\ Counted(n - 1) \in Seq(Blkts(chan))
  BY <1>5, <1>6, <1>7, CountedIs DEF Counted
<1>9. Upto(stage_no, Position - 1, D)' = Upto(n, pos + len - 1, D)
  <2>1. Count(stage_no)' = Count(n) /\ \A p : Kind(stage_no, p)' = Kind(n, p)
    BY <1>6, <1>7 DEF Count, Kind
  <2>2. (Position - 1)' = pos + len - 1
    BY <1>5, <1>6
  <2>3. [p \in 1..Count(stage_no) |-> <<stage_no, p>>]' = [p \in 1..Count(n) |-> <<n, p>>]
    BY <1>6, <2>1
  <2>4. {p \in 1..Count(stage_no) : Kind(stage_no, p) \in D}' = {p \in 1..Count(n) : Kind(n, p) \in D}
    BY <2>1
  <2> HIDE DEF D
  <2> QED BY <2>2, <2>3, <2>4 DEF Upto
<1>10. [q \in DOMAIN delays |-> delays[q].deci] = Counted(n - 1) \o Upto(n, pos - 1, D)
  BY <1>1, <1>4 DEF CheckInv, DelaysSoFar
<1>11. Upto(n, pos - 1, D) \in Seq(Blkts(chan)) /\ pos - 1 \in 0..Count(n) /\ pos - 1 < Count(n)
         /\ (pos - 1) + 1 = pos /\ (pos - 1) + len = pos + len - 1
  <2>1. PICK k : k = pos - 1
    OBVIOUS
  <2>2. k \in 0..Count(n)
    BY <1>5, <2>1
  <2>3. Upto(n, k, D) \in Seq(Blkts(chan))
    BY <1>5, <2>2, UptoIs
  <2> QED BY <1>5, <2>1, <2>2, <2>3
<1>12. \A s : Read(s)' = IF s = n THEN Read(s) \cup pos..(pos + len - 1) ELSE Read(s)
  BY <1>2, <1>4, MovesShape
<1>13. \A q \in DOMAIN delays :
         LET s == delays[q].deci[1]
         IN  /\ s <= n
             /\ delays[q].calc # 0 =>
                  \E a, z \in 1..Count(s) :
                    IsRun(s, a, z) /\ delays[q].calc = Taps(Kind(s, a), z - a + 1)
  BY <1>1, <1>4 DEF CheckInv, DelaysSoFar
<1>14. ASSUME NEW s, NEW a, NEW z, IsRun(s, a, z), s # n \/ Firs(n)' = Firs(n)
       PROVE  IsRun(s, a, z)'
  <2>1. Firs(s)' = Firs(s)
    <3>1. CASE s = n
      BY <1>14, <3>1
    <3>2. CASE s # n
      BY <1>7, <1>12, <3>2 DEF Firs
    <3> QED BY <3>1, <3>2
  <2> QED BY <1>14, <2>1 DEF IsRun
<1>15. Type(blkt_ptr) \notin FirTypes => Firs(n)' = Firs(n)
  <2>1. Firs(n)' = {p \in Read(n) \cup pos..(pos + len - 1) : Kind(n, p) \in FirTypes}
    BY <1>7, <1>12 DEF Firs
  <2> QED BY <1>5, <2>1 DEF Firs
<1>19. ASSUME \A s : \A a, z \in Int : IsRun(s, a, z) => IsRun(s, a, z)',
              NEW r, NEW s,
              \E a, z \in 1..Count(s) : IsRun(s, a, z) /\ r = Taps(Kind(s, a), z - a + 1)
       PROVE  (\E a, z \in 1..Count(s) : IsRun(s, a, z) /\ r = Taps(Kind(s, a), z - a + 1))'
  <2>1. PICK a \in 1..Count(s), z \in 1..Count(s) :
          IsRun(s, a, z) /\ r = Taps(Kind(s, a), z - a + 1)
    BY <1>19
  <2>2. IsRun(s, a, z)'
    BY <1>19, <2>1
  <2> QED BY <1>7, <2>1, <2>2
<1>16. delays \in Seq([deci : Blkts(chan), calc : Nat])
  BY DEF CheckInv, TypeOK
<1> HIDE DEF D
<1>17. CASE ~ Decimation
  <2>1. delays' = delays /\ Type(blkt_ptr) # "DECIMATION"
    <3>1. CASE TakesFilter
      BY <3>1 DEF TakesFilter, Polynomial, PoleZero, List, Generic, Fir, IirCoeffs, AtBlkt,
                  TakeFilter, totals, FirTypes
    <3>2. CASE Gain \/ Reference
      BY <3>2 DEF Gain, Reference, AtBlkt, totals
    <3> QED BY <1>17, <3>1, <3>2 DEF TakesOther
  <2>2. Upto(n, pos + len - 1, D) = Upto(n, pos - 1, D)
    <3>1. \A p \in ((pos - 1) + 1)..((pos - 1) + len) : Kind(n, p) \notin D
      BY <1>5, <1>11, <2>1 DEF D
    <3>2. PICK k : k = pos - 1
      OBVIOUS
    <3>3. Upto(n, k + len, D) = Upto(n, k, D)
      BY <1>5, <1>11, <3>1, <3>2, UptoSame
    <3> QED BY <1>11, <3>2, <3>3
  <2>3. [q \in DOMAIN delays' |-> delays'[q].deci]
          = Counted(stage_no - 1)' \o Upto(stage_no, Position - 1, D)'
    BY <1>8, <1>9, <1>10, <2>1, <2>2
  <2>4. ASSUME NEW s, NEW a \in Int, NEW z \in Int, IsRun(s, a, z) PROVE IsRun(s, a, z)'
    <3>1. CASE Type(blkt_ptr) \notin FirTypes
      BY <1>14, <1>15, <2>4, <3>1
    <3>2. CASE Type(blkt_ptr) \in FirTypes
      <4>1. Fir
        BY <3>2 DEF TakesFilter, TakesOther, Polynomial, PoleZero, List, Generic, IirCoeffs,
                    Gain, Decimation, Reference, AtBlkt, FirTypes
      <4>2. \A p \in Read(n) : Kind(n, p) \notin Filters
        BY <1>1, <1>4, <4>1 DEF CheckInv, Roles, Noted, Fir
      <4>3. Firs(n) = {}
        BY <4>2, FilterTypes DEF Firs
      <4>4. s # n
        <5>1. SUFFICES ASSUME s = n PROVE FALSE
          OBVIOUS
        <5>2. a <= z /\ a..z = {}
          BY <2>4, <4>3, <5>1 DEF IsRun
        <5> QED BY <5>2
      <4> QED BY <1>14, <2>4, <4>4
    <3> QED BY <3>1, <3>2
  <2>5. ASSUME NEW q \in DOMAIN delays, NEW s, s = delays[q].deci[1], NEW r, r = delays[q].calc
        PROVE  s <= n /\ (r # 0 => (\E a, z \in 1..Count(s) :
                                      IsRun(s, a, z) /\ r = Taps(Kind(s, a), z - a + 1))')
    <3>1. s <= n /\ (r # 0 => \E a, z \in 1..Count(s) :
                                 IsRun(s, a, z) /\ r = Taps(Kind(s, a), z - a + 1))
      BY <1>13, <2>5
    <3> QED BY <1>19, <2>4, <3>1
  <2>6. (\A q \in DOMAIN delays :
           LET s == delays[q].deci[1]
           IN  /\ s <= stage_no
               /\ delays[q].calc # 0 =>
                    \E a, z \in 1..Count(s) :
                      IsRun(s, a, z) /\ delays[q].calc = Taps(Kind(s, a), z - a + 1))'
    BY <1>6, <2>1, <2>5
  <2> QED BY <1>6, <2>3, <2>6 DEF DelaysSoFar, D
<1>18. CASE Decimation
  <2>1. /\ delays' = Append(delays, [deci |-> blkt_ptr, calc |-> CalcDelay])
        /\ Type(blkt_ptr) = "DECIMATION"
    BY <1>18 DEF Decimation, AtBlkt
  <2>2. len = 1
    BY <1>2, <1>18 DEF TakesOther
  <2>3. Upto(n, pos + len - 1, D) = Upto(n, pos - 1, D) \o << <<n, pos>> >>
    <3>1. PICK k : k = pos - 1
      OBVIOUS
    <3>2. k \in 0..Count(n) /\ k < Count(n) /\ k + 1 = pos /\ Kind(n, k + 1) \in D
      BY <1>5, <1>11, <2>1, <2>2, <3>1 DEF D
    <3>3. Upto(n, k + 1, D) = Upto(n, k, D) \o << <<n, k + 1>> >>
      BY <1>5, <3>2, UptoIs
    <3> QED BY <1>11, <2>2, <3>1, <3>2, <3>3
  <2>4. PICK r : r = [deci |-> blkt_ptr, calc |-> CalcDelay]
    OBVIOUS
  <2>5. PICK m : m = Len(delays)
    OBVIOUS
  <2>6. m \in Nat /\ DOMAIN delays = 1..m /\ DOMAIN delays' = 1..(m + 1)
          /\ (\A q \in 1..m : delays'[q] = delays[q]) /\ delays'[m + 1] = r
    BY <1>16, <2>1, <2>4, <2>5
  <2>7. r.deci = <<n, pos>> /\ r.calc = CalcDelay
    BY <1>5, <2>4
  <2>8. PICK c, u, e : c = Counted(n - 1) /\ u = Upto(n, pos - 1, D) /\ e = <<n, pos>>
    OBVIOUS
  <2>9. c \in Seq(Blkts(chan)) /\ u \in Seq(Blkts(chan)) /\ e \in Blkts(chan)
          /\ <<e>> \in Seq(Blkts(chan)) /\ c \o u \in Seq(Blkts(chan))
    BY <1>5, <1>8, <1>11, <2>8
  <2>10. c \o (u \o <<e>>) = (c \o u) \o <<e>>
    BY <2>9, ConcatAssociative
  <2> DEFINE v == [q \in DOMAIN delays |-> delays[q].deci]
             w == [q \in DOMAIN delays' |-> delays'[q].deci]
  <2>11. v = c \o u
    BY <1>10, <2>8
  <2>12. v \in Seq(Blkts(chan)) /\ Len(v) = m /\ \A q \in 1..m : v[q] = delays[q].deci
    <3>1. DOMAIN v = 1..m /\ \A q \in 1..m : v[q] = delays[q].deci
      BY <2>6
    <3>2. v \in Seq(Blkts(chan))
      <4> HIDE DEF v
      <4> QED BY <2>9, <2>11
    <3>3. Len(v) = m
      <4> HIDE DEF v
      <4> QED BY <2>6, <3>1, <3>2
    <3> QED BY <3>1, <3>2, <3>3
  <2>13. w = v \o <<e>>
    <3>1. \A q \in 1..(m + 1) : w[q] = IF q = m + 1 THEN e ELSE v[q]
      <4>1. \A q \in 1..(m + 1) : w[q] = delays'[q].deci
        BY <2>6
      <4>2. \A q \in 1..(m + 1) : q = m + 1 \/ q \in 1..m
        BY <2>6
      <4> HIDE DEF v, w
      <4> QED BY <2>6, <2>7, <2>8, <2>12, <4>1, <4>2
    <3>2. w \in Seq(Blkts(chan)) /\ Len(w) = m + 1
      <4>1. \A q \in 1..(m + 1) : w[q] \in Blkts(chan)
        <5>1. \A q \in 1..m : v[q] \in Blkts(chan)
          BY <2>12
        <5>2. \A q \in 1..(m + 1) : q = m + 1 \/ q \in 1..m
          BY <2>6
        <5> HIDE DEF v, w
        <5> QED BY <2>9, <3>1, <5>1, <5>2
      <4> QED BY <2>6, <4>1
    <3> HIDE DEF v, w
    <3>3. Append(v, e) \in Seq(Blkts(chan)) /\ Len(Append(v, e)) = m + 1
            /\ \A q \in 1..(m + 1) : Append(v, e)[q] = IF q = m + 1 THEN e ELSE v[q]
      BY <2>6, <2>9, <2>12
    <3>4. w = Append(v, e)
      BY <3>1, <3>2, <3>3, SeqEqual
    <3>5. v \o <<e>> = Append(v, e)
      BY <2>9, <2>12, AppendIsConcat
    <3> QED BY <3>4, <3>5
  <2>14. w = Counted(stage_no - 1)' \o Upto(stage_no, Position - 1, D)'
    <3> HIDE DEF v, w
    <3> QED BY <1>8, <1>9, <2>3, <2>8, <2>10, <2>11, <2>13
  <2>15. \A s, a, z : IsRun(s, a, z) => IsRun(s, a, z)'
    BY <1>14, <1>15, <2>1 DEF FirTypes
  <2>16. ASSUME r.calc # 0
         PROVE  \E a, z \in 1..Count(n) : IsRun(n, a, z) /\ r.calc = Taps(Kind(n, a), z - a + 1)
    <3>1. stage_type = "FIR_TYPE" /\ r.calc = nc
      BY <2>7, <2>16 DEF CalcDelay
    <3>2. PICK a : a = filt_blkt[2]
      OBVIOUS
    <3>3. PICK z \in 1..Count(n) : IsRun(n, a, z) /\ nc = Taps(Kind(n, a), z - a + 1)
      BY <1>1, <1>4, <3>1, <3>2 DEF CheckInv, FirsMerged
    <3>4. a \in 1..Count(n)
      <4>1. HasFilter
        BY <3>1 DEF HasFilter
      <4>2. a \in Read(n)
        BY <1>1, <1>4, <3>2, <4>1 DEF CheckInv, Roles, Noted
      <4> QED BY <4>2 DEF Read
    <3> QED BY <3>1, <3>3, <3>4
  <2>17. ASSUME NEW q \in 1..(m + 1), NEW s, s = delays'[q].deci[1], NEW k, k = delays'[q].calc
         PROVE  s <= n /\ (k # 0 => (\E a, z \in 1..Count(s) :
                                       IsRun(s, a, z) /\ k = Taps(Kind(s, a), z - a + 1))')
    <3>1. s <= n /\ (k # 0 => \E a, z \in 1..Count(s) :
                                 IsRun(s, a, z) /\ k = Taps(Kind(s, a), z - a + 1))
      <4>1. CASE q = m + 1
        <5>1. s = n /\ k = r.calc
          BY <2>6, <2>7, <2>17, <4>1
        <5> QED BY <1>5, <2>16, <5>1
      <4>2. CASE q # m + 1
        <5>1. q \in DOMAIN delays /\ s = delays[q].deci[1] /\ k = delays[q].calc
          BY <2>6, <2>17, <4>2
        <5> QED BY <1>13, <5>1
      <4> QED BY <4>1, <4>2
    <3> QED BY <1>19, <2>15, <3>1
  <2>18. (\A q \in DOMAIN delays :
            LET s == delays[q].deci[1]
            IN  /\ s <= stage_no
                /\ delays[q].calc # 0 =>
                     \E a, z \in 1..Count(s) :
                       IsRun(s, a, z) /\ delays[q].calc = Taps(Kind(s, a), z - a + 1))'
    BY <1>6, <2>6, <2>17
  <2> QED BY <1>6, <2>14, <2>18 DEF DelaysSoFar, D
<1> QED BY <1>17, <1>18

(* Types are kept as a stage is read.                                      *)
LEMMA MergedTyped ==
  ASSUME CheckInv, NEW len, Reads(len), Merges(len)
  PROVE  /\ chan' \in Channels /\ stage_no' \in 1..(Len(chan') + 1)
         /\ Blkts(chan)' = Blkts(chan) /\ BlktOrNull' = BlktOrNull
         /\ After(len) \in BlktOrNull
         /\ first_blkt' \in [DOMAIN chan' -> BlktOrNull]
         /\ next' \in [Blkts(chan) -> BlktOrNull]
         /\ freed' \subseteq Blkts(chan)
         /\ Run(stage_no, Position, Position + len - 1) \in Seq(Blkts(chan))
<1>1. /\ chan \in Channels /\ stage_no \in 1..(Len(chan) + 1)
      /\ first_blkt \in [DOMAIN chan -> BlktOrNull] /\ next \in [Blkts(chan) -> BlktOrNull]
      /\ freed \subseteq Blkts(chan)
  BY DEF CheckInv, TypeOK
<1> DEFINE n == stage_no
           pos == Position
<1>2. /\ n \in DOMAIN chan /\ pos \in 1..Count(n) /\ Count(n) \in Nat /\ len \in Nat \ {0}
      /\ pos + len - 1 <= Count(n)
  BY <1>1, ChanIs DEF Reads
<1>3. UNCHANGED <<chan, stage_no, first_blkt>> /\ next' = [next EXCEPT ![blkt_ptr] = After(len)]
        /\ freed' = freed \cup {<<n, p>> : p \in (pos + 1)..(pos + len - 1)}
  BY DEF Merges
<1>4. After(len) \in BlktOrNull
  <2>1. pos + len - 1 # Count(n) => pos + len \in 0..Count(n)
    BY <1>2
  <2> QED BY <1>1, <1>2, <2>1, BlktsIs DEF After, BlktOrNull
<1> HIDE DEF n, pos
<1>5. {<<n, p>> : p \in (pos + 1)..(pos + len - 1)} \subseteq Blkts(chan)
  <2>1. \A p \in (pos + 1)..(pos + len - 1) : p \in 0..Count(n)
    BY <1>2
  <2>2. \A p \in (pos + 1)..(pos + len - 1) : <<n, p>> \in Blkts(chan)
    BY <1>1, <1>2, <2>1, BlktsIs
  <2> QED BY <2>2
<1>6. Run(n, pos, pos + len - 1) \in Seq(Blkts(chan))
  <2>1. PICK z : z = pos + len - 1
    OBVIOUS
  <2>2. z \in 1..Count(n) /\ pos <= z
    BY <1>2, <2>1
  <2> QED BY <1>1, <1>2, <2>1, <2>2, RunInSeq
<1>7. Blkts(chan)' = Blkts(chan) /\ BlktOrNull' = BlktOrNull
  BY <1>3 DEF Blkts, BlktOrNull
<1>8. next' \in [Blkts(chan) -> BlktOrNull]
  BY <1>1, <1>3, <1>4
<1> QED BY <1>1, <1>3, <1>4, <1>5, <1>6, <1>7, <1>8 DEF n, pos

(* The number of coefficients after symmetry is a number.                  *)
LEMMA TapsInNat ==
  ASSUME NEW t \in FirTypes, NEW len \in Nat \ {0}
  PROVE  Taps(t, len) \in Nat
<1>1. CASE t = "FIR_SYM_1"
  BY <1>1 DEF Taps
<1>2. CASE t = "FIR_SYM_2"
  BY <1>2 DEF Taps
<1>3. CASE t = "FIR_ASYM"
  BY <1>3 DEF Taps
<1> QED BY <1>1, <1>2, <1>3 DEF FirTypes

(* Reading blockettes keeps the types.                                     *)
LEMMA ReadTyped ==
  ASSUME CheckInv, TakesFilter \/ TakesOther
  PROVE  TypeOK'
<1>1. status = "RUN" /\ blkt_ptr # NULL
  BY ReadMoves
<1>2. PICK len : Moves(len) /\ (Fir => len = RunLength(blkt_ptr))
  BY ReadMoves
<1>3. /\ chan' = chan /\ chan' \in Channels /\ stage_no' \in 1..(Len(chan') + 1)
      /\ Blkts(chan)' = Blkts(chan) /\ BlktOrNull' = BlktOrNull
      /\ blkt_ptr' \in BlktOrNull
      /\ first_blkt' \in [DOMAIN chan' -> BlktOrNull]
      /\ next' \in [Blkts(chan) -> BlktOrNull]
      /\ freed' \subseteq Blkts(chan)
      /\ prev_stage' = prev_stage /\ status' = "RUN" /\ len \in Nat \ {0}
  BY <1>2, MergedTyped DEF Moves, Reads, Merges
<1>4. /\ {filt_blkt, deci_blkt, gain_blkt, ref_blkt, sensit} \subseteq BlktOrNull
      /\ coeffs \in [Blkts(chan) -> Seq(Blkts(chan))] /\ allocated \subseteq DOMAIN chan
      /\ stage_type \in StageTypes /\ {gain_flag, deci_flag, ref_flag} \subseteq BOOLEAN
      /\ nc \in Nat /\ prev_stage \in 0..Len(chan)
      /\ delays \in Seq([deci : Blkts(chan), calc : Nat])
  BY DEF CheckInv, TypeOK
<1>5. blkt_ptr \in Blkts(chan) /\ blkt_ptr \in BlktOrNull
  BY <1>1, AtIs DEF BlktOrNull
<1>6. /\ {filt_blkt', deci_blkt', gain_blkt', ref_blkt', sensit'} \subseteq BlktOrNull
      /\ allocated' = allocated /\ {gain_flag', deci_flag', ref_flag'} \subseteq BOOLEAN
  <2>1. CASE TakesFilter
    <3>1. TakeFilter
      BY <2>1 DEF TakesFilter, Polynomial, PoleZero, List, Generic, Fir, IirCoeffs
    <3> QED BY <1>4, <1>5, <3>1 DEF TakeFilter, flags, totals
  <2>2. CASE Gain
    BY <1>4, <1>5, <2>2 DEF Gain
  <2>3. CASE Decimation
    BY <1>4, <1>5, <2>3 DEF Decimation
  <2>4. CASE Reference
    BY <1>4, <1>5, <2>4 DEF Reference, totals
  <2> QED BY <2>1, <2>2, <2>3, <2>4 DEF TakesOther
<1>7. stage_type' \in StageTypes /\ nc' \in Nat
  <2>1. CASE TakesFilter
    <3>1. /\ stage_type' = StageTypeOf(Type(blkt_ptr))
          /\ Type(blkt_ptr) \in FirTypes
                \cup {"POLYNOMIAL", "PZ", "IIR_PZ", "LIST", "GENERIC", "IIR_COEFFS"}
      BY <2>1 DEF TakesFilter, Polynomial, PoleZero, List, Generic, Fir, IirCoeffs, AtBlkt, TakeFilter
    <3>2. stage_type' \in StageTypes
      BY <3>1, FilterTypes
    <3>3. CASE Fir
      <4>1. nc' = Taps(Type(blkt_ptr), len) /\ Type(blkt_ptr) \in FirTypes
        BY <1>2, <3>3 DEF Fir, AtBlkt
      <4> QED BY <1>3, <3>2, <4>1, TapsInNat
    <3>4. CASE ~ Fir
      <4>1. nc' = nc \/ nc' = 1
        BY <2>1, <3>4 DEF TakesFilter, Polynomial, PoleZero, List, Generic, IirCoeffs
      <4> QED BY <1>4, <3>2, <4>1
    <3> QED BY <3>3, <3>4
  <2>2. CASE TakesOther
    <3>1. nc' = nc /\ stage_type' \in {stage_type, "GAIN_TYPE"}
      BY <2>2 DEF TakesOther, Gain, Decimation, Reference
    <3> QED BY <1>4, <3>1 DEF StageTypes
  <2> QED BY <2>1, <2>2
<1>8. coeffs' \in [Blkts(chan) -> Seq(Blkts(chan))]
  <2>1. CASE List \/ Fir
    <3>1. Merge /\ UNCHANGED <<chan, stage_no, first_blkt>>
      BY <2>1 DEF List, Fir, TakeFilter
    <3>2. PICK k : /\ Reads(k) /\ Merges(k)
                   /\ coeffs' = [coeffs EXCEPT ![blkt_ptr] = Run(stage_no, Position, Position + k - 1)]
      BY <1>1, <3>1, MergeIs
    <3>3. Run(stage_no, Position, Position + k - 1) \in Seq(Blkts(chan))
      BY <3>2, MergedTyped
    <3> QED BY <1>4, <1>5, <3>2, <3>3
  <2>2. CASE ~ (List \/ Fir)
    <3>1. coeffs' = coeffs
      BY <2>2 DEF TakesFilter, TakesOther, Polynomial, PoleZero, Generic, IirCoeffs, KeepBlkts,
                  Gain, Decimation, Reference, lists
    <3> QED BY <1>4, <3>1
  <2> QED BY <2>1, <2>2
<1>9. delays' \in Seq([deci : Blkts(chan), calc : Nat])
  <2>1. CASE Decimation
    <3>1. delays' = Append(delays, [deci |-> blkt_ptr, calc |-> CalcDelay])
      BY <2>1 DEF Decimation
    <3>2. [deci |-> blkt_ptr, calc |-> CalcDelay] \in [deci : Blkts(chan), calc : Nat]
      BY <1>4, <1>5 DEF CalcDelay
    <3> QED BY <1>4, <3>1, <3>2
  <2>2. CASE ~ Decimation
    <3>1. delays' = delays
      BY <2>2 DEF TakesFilter, TakesOther, Polynomial, PoleZero, List, Generic, Fir, IirCoeffs,
                  TakeFilter, Gain, Reference, totals
    <3> QED BY <1>4, <3>1
  <2> QED BY <2>1, <2>2
<1>10. {blkt_ptr', filt_blkt', deci_blkt', gain_blkt', ref_blkt', sensit'} \subseteq BlktOrNull
  BY <1>3, <1>6
<1>11. allocated' \subseteq DOMAIN chan' /\ prev_stage' \in 0..Len(chan')
  BY <1>3, <1>4, <1>6
<1> QED BY <1>3, <1>6, <1>7, <1>8, <1>9, <1>10, <1>11 DEF TypeOK

(* A blockette read.                                                       *)
LEMMA ReadKeeps ==
  ASSUME CheckInv, TakesFilter \/ TakesOther
  PROVE  CheckInv'
<1>1. PICK len : Moves(len)
  BY ReadMoves
<1>2. Reads(len) /\ Merges(len) /\ \A b \in Blkts(chan) : b # blkt_ptr => coeffs'[b] = coeffs[b]
  BY <1>1 DEF Moves
<1>3. AcceptedComplete'
  BY <1>2, CompleteStep
<1>4. InPlace' /\ Untouched' /\ GainsKept' /\ Apart' /\ UnitsSoFar'
  BY <1>1, MovesShape, UnitsStep
<1>5. TypeOK' /\ Roles' /\ FirsMerged' /\ DelaysSoFar'
  BY ReadTyped, RolesStep, FirsStep, DelaysStep
<1> QED BY <1>3, <1>4, <1>5 DEF CheckInv

-----------------------------------------------------------------------------
(* A step that only gives up, and one that gives up after merging a list.  *)
LEMMA RejectKeeps ==
  ASSUME CheckInv, Reject
  PROVE  CheckInv'
<1>1. /\ status' = "VAL"
      /\ UNCHANGED <<chan, stage_no, blkt_ptr, first_blkt, next, coeffs, freed, allocated, stage_type,
                     filt_blkt, deci_blkt, gain_blkt, ref_blkt, gain_flag, deci_flag, ref_flag, nc,
                     prev_stage, sensit, delays>>
  BY DEF Reject, lists, roles, flags, totals
<1>2. TypeOK'
  <2>1. Blkts(chan)' = Blkts(chan) /\ BlktOrNull' = BlktOrNull
    BY <1>1 DEF Blkts, BlktOrNull
  <2> QED BY <1>1, <2>1 DEF CheckInv, TypeOK
<1>3. InPlace' /\ Untouched' /\ Roles' /\ FirsMerged' /\ UnitsSoFar' /\ DelaysSoFar'
  BY <1>1 DEF InPlace, Untouched, Roles, FirsMerged, UnitsSoFar, DelaysSoFar
<1>4. GainsKept'
  BY <1>1 DEF CheckInv, GainsKept
<1>5. \A s : Same(s) /\ (Plain(s) => Plain(s)')
  BY <1>1 DEF Same, Plain, FirstOf, Count
<1>6. Apart'
  <2>1. \A s, order : Tied(s, order) => Tied(s, order)'
    BY <1>5, TiedStays
  <2>2. \A s \in DOMAIN chan : Plain(s) \/ \E order \in Seq(Blkts(chan)) : Tied(s, order)
    BY DEF CheckInv, Apart
  <2>3. Blkts(chan)' = Blkts(chan)
    BY <1>1 DEF Blkts
  <2> QED BY <1>1, <1>5, <2>1, <2>2, <2>3 DEF Apart
<1>7. AcceptedComplete'
  BY <1>1, <1>5, CompleteStays DEF CheckInv, AcceptedComplete
<1> QED BY <1>2, <1>3, <1>4, <1>6, <1>7 DEF CheckInv

(* A list that is refused ends the function with the invariant.            *)
LEMMA BadListKeeps ==
  ASSUME CheckInv, BadList
  PROVE  CheckInv'
<1>1. /\ status = "RUN" /\ blkt_ptr # NULL /\ Merge /\ status' = "VAL"
      /\ UNCHANGED <<chan, stage_no, blkt_ptr, first_blkt, allocated, stage_type,
                     filt_blkt, deci_blkt, gain_blkt, ref_blkt, gain_flag, deci_flag, ref_flag, nc,
                     prev_stage, sensit, delays>>
  BY DEF BadList, AtBlkt, roles, flags, totals
<1>2. PICK len : /\ Reads(len) /\ Merges(len)
                 /\ coeffs' = [coeffs EXCEPT ![blkt_ptr] = Run(stage_no, Position, Position + len - 1)]
  BY <1>1, MergeIs
<1>3. blkt_ptr \in Blkts(chan) /\ coeffs \in [Blkts(chan) -> Seq(Blkts(chan))]
  BY <1>1, AtIs DEF CheckInv, TypeOK
<1>4. TypeOK'
  <2>1. /\ chan' \in Channels /\ stage_no' \in 1..(Len(chan') + 1)
        /\ Blkts(chan)' = Blkts(chan) /\ BlktOrNull' = BlktOrNull
        /\ first_blkt' \in [DOMAIN chan' -> BlktOrNull]
        /\ next' \in [Blkts(chan) -> BlktOrNull] /\ freed' \subseteq Blkts(chan)
        /\ Run(stage_no, Position, Position + len - 1) \in Seq(Blkts(chan))
    BY <1>2, MergedTyped
  <2>2. coeffs' \in [Blkts(chan) -> Seq(Blkts(chan))]
    BY <1>2, <1>3, <2>1
  <2>3. /\ {blkt_ptr, filt_blkt, deci_blkt, gain_blkt, ref_blkt, sensit} \subseteq BlktOrNull
        /\ allocated \subseteq DOMAIN chan
        /\ stage_type \in StageTypes /\ {gain_flag, deci_flag, ref_flag} \subseteq BOOLEAN
        /\ nc \in Nat /\ prev_stage \in 0..Len(chan)
        /\ delays \in Seq([deci : Blkts(chan), calc : Nat])
    BY DEF CheckInv, TypeOK
  <2> QED BY <1>1, <2>1, <2>2, <2>3 DEF TypeOK
<1>5. InPlace' /\ Untouched' /\ Roles' /\ FirsMerged' /\ UnitsSoFar' /\ DelaysSoFar'
  BY <1>1 DEF InPlace, Untouched, Roles, FirsMerged, UnitsSoFar, DelaysSoFar
<1>6. GainsKept' /\ Apart'
  <2>1. /\ GainsKept'
        /\ \A s \in DOMAIN chan : Plain(s)' \/ (\E order \in Seq(Blkts(chan)) : Tied(s, order))'
    BY <1>2, MergedApart
  <2> QED BY <1>1, <2>1 DEF Apart
<1>7. AcceptedComplete'
  <2>1. \A b \in Blkts(chan) : b # blkt_ptr => coeffs'[b] = coeffs[b]
    BY <1>2, <1>3
  <2> QED BY <1>2, <2>1, CompleteStep
<1> QED BY <1>4, <1>5, <1>6, <1>7 DEF CheckInv

-----------------------------------------------------------------------------
(* The end of a stage: all of it is read, and its units tell whether it    *)
(* has a filter.                                                           *)
LEMMA EndIs ==
  ASSUME CheckInv, AtStageEnd
  PROVE  /\ stage_no \in DOMAIN chan /\ stage_no \in Nat \ {0} /\ stage_no <= Len(chan)
         /\ Count(stage_no) \in Nat /\ Position = Count(stage_no) + 1
         /\ Read(stage_no) = 1..Count(stage_no)
         /\ HasFilter <=> HoldsFilter(stage_no)
         /\ ~ UnitsUndefined => (HasFilter <=> stage_type # "GAIN_TYPE")
<1>1. /\ stage_no \in DOMAIN chan /\ stage_no \in Nat \ {0} /\ stage_no <= Len(chan)
      /\ Count(stage_no) \in Nat /\ DOMAIN chan[stage_no].blkts = 1..Count(stage_no)
  <2>1. chan \in Channels
    BY DEF CheckInv, TypeOK
  <2>2. stage_no \in DOMAIN chan
    BY DEF CheckInv, InPlace, AtStageEnd
  <2> QED BY <2>1, <2>2, ChanIs
<1>2. Position = Count(stage_no) + 1
  BY DEF Position, AtStageEnd
<1>3. Read(stage_no) = 1..Count(stage_no)
  BY <1>1, <1>2 DEF Read
<1>4. HasFilter <=> HoldsFilter(stage_no)
  <2>1. HasFilter <=> \E p \in Read(stage_no) : Kind(stage_no, p) \in Filters
    BY DEF CheckInv, Roles, Noted, AtStageEnd
  <2> QED BY <1>1, <1>3, <2>1 DEF HoldsFilter, Kind
<1>5. ASSUME ~ UnitsUndefined, ~ HasFilter PROVE stage_type = "GAIN_TYPE"
  <2>1. chan[stage_no].in = UNDEF_UNITS
    BY <1>1, <1>4, <1>5, ChanIs DEF CheckInv, TypeOK
  <2> QED BY <1>5, <2>1 DEF UnitsUndefined
<1>6. HasFilter => stage_type # "GAIN_TYPE"
  BY DEF HasFilter
<1> QED BY <1>1, <1>2, <1>3, <1>4, <1>5, <1>6

(* The order a stage is relinked in.                                       *)
Item(b, s, rank) ==
  b \in Blkts(chan) /\ b[1] = s /\ b \notin freed /\ Rank(Type(b)) = rank

Ordered(o, s) ==
  /\ o \in Seq(Blkts(chan)) /\ Len(o) \in 2..4
  /\ \A i \in 1..Len(o) : o[i][1] = s /\ o[i] \notin freed /\ Rank(Type(o[i])) \in Nat
  /\ \A i, j \in 1..Len(o) : i < j => Rank(Type(o[i])) < Rank(Type(o[j]))

(* The documented order of the roles.                                      *)
LEMMA RankIs ==
  /\ Rank("REFERENCE") = 1 /\ Rank("DECIMATION") = 3 /\ Rank("GAIN") = 4
  /\ \A t \in Filters : Rank(t) = 2
<1>1. "REFERENCE" \notin Filters /\ "DECIMATION" \notin Filters /\ "GAIN" \notin Filters
  BY FilterTypes
<1> QED BY <1>1 DEF Rank

(* Three and four elements, put together as LinkStage does.                *)
LEMMA ConcatOf ==
  ASSUME NEW S, NEW a \in S, NEW b \in S, NEW c \in S, NEW d \in S
  PROVE  <<a>> \o <<b, c>> = <<a, b, c>> /\ <<a>> \o <<b, c, d>> = <<a, b, c, d>>
<1>1. <<a>> \in Seq(S) /\ <<b, c>> \in Seq(S) /\ <<b, c, d>> \in Seq(S)
        /\ Len(<<a>>) = 1 /\ Len(<<b, c>>) = 2 /\ Len(<<b, c, d>>) = 3
  OBVIOUS
<1>2. <<a>> \o <<b, c>> = <<a, b, c>>
  <2> DEFINE l == <<a>> \o <<b, c>>
  <2>1. l \in Seq(S) /\ Len(l) = 3 /\ l[1] = a /\ l[2] = b /\ l[3] = c
    BY <1>1
  <2>2. <<a, b, c>> \in Seq(S) /\ Len(<<a, b, c>>) = 3 /\ \A i \in 1..3 : l[i] = <<a, b, c>>[i]
    BY <2>1
  <2> HIDE DEF l
  <2>3. l = <<a, b, c>>
    BY <2>1, <2>2, SeqEqual
  <2> QED BY <2>3 DEF l
<1>3. <<a>> \o <<b, c, d>> = <<a, b, c, d>>
  <2> DEFINE l == <<a>> \o <<b, c, d>>
  <2>1. l \in Seq(S) /\ Len(l) = 4 /\ l[1] = a /\ l[2] = b /\ l[3] = c /\ l[4] = d
    BY <1>1
  <2>2. <<a, b, c, d>> \in Seq(S) /\ Len(<<a, b, c, d>>) = 4
          /\ \A i \in 1..4 : l[i] = <<a, b, c, d>>[i]
    BY <2>1
  <2> HIDE DEF l
  <2>3. l = <<a, b, c, d>>
    BY <2>1, <2>2, SeqEqual
  <2> QED BY <2>3 DEF l
<1> QED BY <1>2, <1>3

(* The order a stage is relinked in: its own blockettes, none merged away, *)
(* rank after rank, with the filter, the decimation if there is one, and a *)
(* gain at the end.                                                        *)
LEMMA OrderIs ==
  ASSUME CheckInv, AtStageEnd, ~ UnitsUndefined, HasFilter,
         NEW g, g = IF gain_blkt = NULL THEN <<stage_no, 0>> ELSE gain_blkt
  PROVE  LET o == Order(g)
         IN  /\ Ordered(o, stage_no) /\ Len(o) <= Count(stage_no) + 2
             /\ Type(o[Len(o)]) = "GAIN"
             /\ \E i \in 1..Len(o) : o[i] = filt_blkt
             /\ deci_flag => \E i \in 1..Len(o) : o[i] = deci_blkt
<1> PICK n : n = stage_no
  OBVIOUS
<1>1. /\ chan \in Channels /\ n \in DOMAIN chan /\ Count(n) \in Nat /\ Read(n) = 1..Count(n)
      /\ GainsKept
  BY EndIs DEF CheckInv, TypeOK
<1>2. /\ Noted(TRUE, filt_blkt, Filters)
      /\ deci_flag => Noted(TRUE, deci_blkt, {"DECIMATION"})
      /\ gain_flag => Noted(TRUE, gain_blkt, {"GAIN"})
      /\ ref_flag => Noted(TRUE, ref_blkt, {"REFERENCE"})
      /\ ~ gain_flag => gain_blkt = NULL
      /\ {filt_blkt, deci_blkt, gain_blkt, ref_blkt} \subseteq BlktOrNull
  BY DEF CheckInv, TypeOK, Roles, AtStageEnd, Noted
<1>3. ASSUME NEW b \in BlktOrNull, NEW types, Noted(TRUE, b, types)
      PROVE  b \in Blkts(chan) /\ b[1] = n /\ b \notin freed /\ Type(b) \in types
               /\ b[2] \in 1..Count(n)
  <2>1. b[1] = n /\ b[2] \in 1..Count(n) /\ b \notin freed /\ Kind(n, b[2]) \in types
    BY <1>1, <1>3 DEF Noted
  <2>2. b \in Blkts(chan)
    <3>1. NULL[2] \notin 1..Count(n)
      BY <1>1 DEF NULL
    <3> QED BY <2>1, <3>1 DEF BlktOrNull
  <2>3. b = <<n, b[2]>>
    BY <1>1, <2>1, <2>2, BlktsIs
  <2>4. Type(<<n, b[2]>>) = Kind(n, b[2])
    BY <1>1, <2>1, TypeIs
  <2> QED BY <2>1, <2>2, <2>3, <2>4
<1>4. Item(filt_blkt, n, 2) /\ filt_blkt[2] \in 1..Count(n)
  BY <1>2, <1>3, RankIs DEF Item
<1>5. deci_flag => Item(deci_blkt, n, 3) /\ deci_blkt[2] \in 1..Count(n)
  <2>1. SUFFICES ASSUME deci_flag PROVE Item(deci_blkt, n, 3) /\ deci_blkt[2] \in 1..Count(n)
    OBVIOUS
  <2>2. PICK T : T = {"DECIMATION"}
    OBVIOUS
  <2>3. Noted(TRUE, deci_blkt, T) /\ deci_blkt \in BlktOrNull
    BY <1>2, <2>1, <2>2
  <2>4. /\ deci_blkt \in Blkts(chan) /\ deci_blkt[1] = n /\ deci_blkt \notin freed
        /\ Type(deci_blkt) \in T /\ deci_blkt[2] \in 1..Count(n)
    BY <1>3, <2>3
  <2> QED BY <2>2, <2>4, RankIs DEF Item
<1>6. ref_flag => Item(ref_blkt, n, 1) /\ ref_blkt[2] \in 1..Count(n)
  <2>1. SUFFICES ASSUME ref_flag PROVE Item(ref_blkt, n, 1) /\ ref_blkt[2] \in 1..Count(n)
    OBVIOUS
  <2>2. PICK T : T = {"REFERENCE"}
    OBVIOUS
  <2>3. Noted(TRUE, ref_blkt, T) /\ ref_blkt \in BlktOrNull
    BY <1>2, <2>1, <2>2
  <2>4. /\ ref_blkt \in Blkts(chan) /\ ref_blkt[1] = n /\ ref_blkt \notin freed
        /\ Type(ref_blkt) \in T /\ ref_blkt[2] \in 1..Count(n)
    BY <1>3, <2>3
  <2> QED BY <2>2, <2>4, RankIs DEF Item
<1>7. Item(g, n, 4) /\ Type(g) = "GAIN"
  <2>1. CASE gain_blkt = NULL
    <3>1. g = <<n, 0>> /\ g[2] = 0 /\ g[1] = n
      BY <2>1
    <3>2. g \in Blkts(chan) /\ g \notin freed
      <4>1. 0 \in 0..Count(n)
        BY <1>1
      <4>2. <<n, 0>> \in Blkts(chan)
        BY <1>1, <4>1, BlktsIs
      <4>3. <<n, 0>> \notin freed
        BY <1>1 DEF GainsKept
      <4> QED BY <3>1, <4>2, <4>3
    <3>3. Type(g) = "GAIN"
      BY <3>1 DEF Type
    <3> QED BY <3>1, <3>2, <3>3, RankIs DEF Item
  <2>2. CASE gain_blkt # NULL
    <3>1. g = gain_blkt /\ Noted(TRUE, gain_blkt, {"GAIN"})
      BY <1>2, <2>2
    <3>2. Type(g) = "GAIN" /\ g \in Blkts(chan) /\ g[1] = n /\ g \notin freed
      <4>1. PICK T : T = {"GAIN"}
        OBVIOUS
      <4>2. Noted(TRUE, g, T) /\ g \in BlktOrNull
        BY <1>2, <3>1, <4>1
      <4>3. g \in Blkts(chan) /\ g[1] = n /\ g \notin freed /\ Type(g) \in T
        BY <1>3, <4>2
      <4> QED BY <4>1, <4>3
    <3> QED BY <3>2, RankIs DEF Item
  <2> QED BY <2>1, <2>2
<1>8. ref_flag /\ deci_flag => Count(n) >= 2
  <2>1. SUFFICES ASSUME ref_flag, deci_flag PROVE Count(n) # 1 /\ Count(n) # 0
    BY <1>1
  <2>2. Item(ref_blkt, n, 1) /\ Item(deci_blkt, n, 3) /\ ref_blkt[2] \in 1..Count(n)
          /\ deci_blkt[2] \in 1..Count(n)
    BY <1>5, <1>6, <2>1
  <2>3. ref_blkt # deci_blkt
    BY <2>2 DEF Item
  <2>4. ref_blkt = <<n, ref_blkt[2]>> /\ deci_blkt = <<n, deci_blkt[2]>>
    BY <1>1, <2>2, BlktsIs DEF Item
  <2> QED BY <1>1, <2>2, <2>3, <2>4
<1> PICK B : B = Blkts(chan)
  OBVIOUS
<1> DEFINE Fits(o) == /\ Ordered(o, n) /\ Len(o) <= Count(n) + 2
                      /\ Type(o[Len(o)]) = "GAIN"
                      /\ \E i \in 1..Len(o) : o[i] = filt_blkt
                      /\ deci_flag => \E i \in 1..Len(o) : o[i] = deci_blkt
<1>13. SUFFICES Fits(Order(g))
  OBVIOUS
<1>9. CASE ref_flag /\ deci_flag
  <2>1. Order(g) = <<ref_blkt, filt_blkt, deci_blkt, g>>
    <3>1. {ref_blkt, filt_blkt, deci_blkt, g} \subseteq B
      BY <1>4, <1>5, <1>6, <1>7, <1>9 DEF Item
    <3>2. Order(g) = <<ref_blkt>> \o <<filt_blkt, deci_blkt, g>>
      BY <1>9 DEF Order
    <3> QED BY <3>1, <3>2, ConcatOf
  <2>2. PICK o : o = <<ref_blkt, filt_blkt, deci_blkt, g>>
    OBVIOUS
  <2>3. o \in Seq(B) /\ Len(o) = 4 /\ o[1] = ref_blkt /\ o[2] = filt_blkt /\ o[3] = deci_blkt /\ o[4] = g
    BY <1>4, <1>5, <1>6, <1>7, <1>9, <2>2 DEF Item
  <2>4. \A i \in 1..4 : Item(o[i], n, i)
    BY <1>4, <1>5, <1>6, <1>7, <1>9, <2>3
  <2>5. Ordered(o, n)
    <3>1. \A i \in 1..Len(o) : o[i][1] = n /\ o[i] \notin freed
      BY <2>3, <2>4 DEF Item
    <3>2. Rank(Type(o[1])) = 1 /\ Rank(Type(o[2])) = 2 /\ Rank(Type(o[3])) = 3 /\ Rank(Type(o[4])) = 4
      BY <2>3, <2>4 DEF Item
    <3> QED BY <2>3, <3>1, <3>2 DEF Ordered
  <2>6. Fits(o)
    BY <1>1, <1>7, <1>8, <1>9, <2>3, <2>5
  <2> QED BY <2>1, <2>2, <2>6
<1>10. CASE ref_flag /\ ~ deci_flag
  <2>1. Order(g) = <<ref_blkt, filt_blkt, g>>
    <3>1. {ref_blkt, filt_blkt, g} \subseteq B
      BY <1>4, <1>6, <1>7, <1>10 DEF Item
    <3>2. Order(g) = <<ref_blkt>> \o <<filt_blkt, g>>
      BY <1>10 DEF Order
    <3> QED BY <3>1, <3>2, ConcatOf
  <2>2. PICK o : o = <<ref_blkt, filt_blkt, g>>
    OBVIOUS
  <2>3. o \in Seq(B) /\ Len(o) = 3 /\ o[1] = ref_blkt /\ o[2] = filt_blkt /\ o[3] = g
    BY <1>4, <1>6, <1>7, <1>10, <2>2 DEF Item
  <2>4. \A i \in 1..3 : Item(o[i], n, IF i = 3 THEN 4 ELSE i)
    BY <1>4, <1>6, <1>7, <1>10, <2>3
  <2>5. Ordered(o, n)
    <3>1. \A i \in 1..Len(o) : o[i][1] = n /\ o[i] \notin freed
      BY <2>3, <2>4 DEF Item
    <3>2. Rank(Type(o[1])) = 1 /\ Rank(Type(o[2])) = 2 /\ Rank(Type(o[3])) = 4
      <4>1. \A i \in 1..3 : Rank(Type(o[i])) = IF i = 3 THEN 4 ELSE i
        BY <2>4 DEF Item
      <4> QED BY <4>1
    <3> QED BY <2>3, <3>1, <3>2 DEF Ordered
  <2>6. Count(n) >= 1
    BY <1>1, <1>4
  <2>7. Fits(o)
    BY <1>1, <1>7, <1>10, <2>3, <2>5, <2>6
  <2> QED BY <2>1, <2>2, <2>7
<1>11. CASE ~ ref_flag /\ deci_flag
  <2>1. Order(g) = <<filt_blkt, deci_blkt, g>>
    BY <1>11 DEF Order
  <2>2. PICK o : o = <<filt_blkt, deci_blkt, g>>
    OBVIOUS
  <2>3. o \in Seq(B) /\ Len(o) = 3 /\ o[1] = filt_blkt /\ o[2] = deci_blkt /\ o[3] = g
    BY <1>4, <1>5, <1>7, <1>11, <2>2 DEF Item
  <2>4. Item(o[1], n, 2) /\ Item(o[2], n, 3) /\ Item(o[3], n, 4)
    BY <1>4, <1>5, <1>7, <1>11, <2>3
  <2>5. Ordered(o, n)
    <3>1. \A i \in 1..Len(o) : o[i][1] = n /\ o[i] \notin freed
      BY <2>3, <2>4 DEF Item
    <3>2. Rank(Type(o[1])) = 2 /\ Rank(Type(o[2])) = 3 /\ Rank(Type(o[3])) = 4
      BY <2>3, <2>4 DEF Item
    <3> QED BY <2>3, <3>1, <3>2 DEF Ordered
  <2>6. Count(n) >= 1
    BY <1>1, <1>4
  <2>7. Fits(o)
    BY <1>1, <1>7, <1>11, <2>3, <2>5, <2>6
  <2> QED BY <2>1, <2>2, <2>7
<1>12. CASE ~ ref_flag /\ ~ deci_flag
  <2>1. Order(g) = <<filt_blkt, g>>
    BY <1>12 DEF Order
  <2>2. PICK o : o = <<filt_blkt, g>>
    OBVIOUS
  <2>3. o \in Seq(B) /\ Len(o) = 2 /\ o[1] = filt_blkt /\ o[2] = g
    BY <1>4, <1>7, <2>2 DEF Item
  <2>4. Item(o[1], n, 2) /\ Item(o[2], n, 4)
    BY <1>4, <1>7, <2>3
  <2>5. Ordered(o, n)
    <3>1. \A i \in 1..Len(o) : o[i][1] = n /\ o[i] \notin freed
      BY <2>3, <2>4 DEF Item
    <3>2. Rank(Type(o[1])) = 2 /\ Rank(Type(o[2])) = 4
      BY <2>3, <2>4 DEF Item
    <3> QED BY <2>3, <3>1, <3>2 DEF Ordered
  <2>6. Fits(o)
    BY <1>1, <1>7, <1>12, <2>3, <2>5
  <2> QED BY <2>1, <2>2, <2>6
<1> QED BY <1>9, <1>10, <1>11, <1>12

(* Relinking ties the stage at hand in that order and no other.            *)
LEMMA RelinkIs ==
  ASSUME TypeOK, stage_no \in DOMAIN chan, chan' = chan, freed' = freed,
         NEW o, Ordered(o, stage_no), Len(o) <= Count(stage_no) + 2, Relink(o)
  PROVE  /\ first_blkt' \in [DOMAIN chan -> BlktOrNull] /\ next' \in [Blkts(chan) -> BlktOrNull]
         /\ \A s \in DOMAIN chan : s # stage_no =>
              /\ first_blkt'[s] = first_blkt[s]
              /\ \A b \in Blkts(chan) : b[1] = s => next'[b] = next[b]
         /\ \A n : n = stage_no => Tied(n, o)'
<1>1. /\ first_blkt \in [DOMAIN chan -> BlktOrNull] /\ next \in [Blkts(chan) -> BlktOrNull]
      /\ DOMAIN next = Blkts(chan)
  BY DEF TypeOK
<1>2. /\ o \in Seq(Blkts(chan)) /\ Len(o) \in 2..4 /\ DOMAIN o = 1..Len(o)
      /\ \A i \in 1..Len(o) : o[i] \in Blkts(chan) /\ o[i][1] = stage_no /\ o[i] \notin freed
  BY DEF Ordered
<1> PICK m : m = Len(o)
  OBVIOUS
<1>3. ASSUME NEW i \in 1..m, NEW j \in 1..m, o[i] = o[j] PROVE i = j
  <2>1. \A p, q \in 1..m : p < q => Rank(Type(o[p])) < Rank(Type(o[q]))
    BY DEF Ordered
  <2>2. Rank(Type(o[i])) \in Nat
    BY DEF Ordered
  <2>3. ~ (Rank(Type(o[i])) < Rank(Type(o[i])))
    BY <2>2
  <2>4. ~ (i < j) /\ ~ (j < i)
    BY <1>3, <2>1, <2>3
  <2> QED BY <1>2, <2>4
<1>4. first_blkt' = [first_blkt EXCEPT ![stage_no] = o[1]] /\ o[1] \in Blkts(chan)
  BY <1>2 DEF Relink
<1>5. \A b \in Blkts(chan) : b \notin Range(o) => next'[b] = next[b]
  BY <1>1 DEF Relink
<1>6. ASSUME NEW i \in 1..m PROVE next'[o[i]] = IF i = m THEN NULL ELSE o[i + 1]
  <2> DEFINE q == CHOOSE q \in DOMAIN o : o[q] = o[i]
  <2>1. q \in DOMAIN o /\ o[q] = o[i]
    BY <1>2
  <2>2. q = i
    <3> HIDE DEF q
    <3> QED BY <1>2, <1>3, <2>1
  <2>3. o[i] \in Range(o) /\ o[i] \in DOMAIN next
    BY <1>1, <1>2 DEF Range
  <2>4. next'[o[i]] = IF q = Len(o) THEN NULL ELSE o[q + 1]
    BY <2>3 DEF Relink
  <2> HIDE DEF q
  <2> QED BY <2>2, <2>4
<1>7. ASSUME NEW b \in Blkts(chan) PROVE next'[b] \in BlktOrNull
  <2>1. CASE b \in Range(o)
    <3>1. PICK i \in 1..m : b = o[i]
      BY <1>2, <2>1 DEF Range
    <3>2. i # m => i + 1 \in 1..m
      BY <1>2
    <3> QED BY <1>2, <1>6, <3>1, <3>2 DEF BlktOrNull
  <2>2. CASE b \notin Range(o)
    BY <1>1, <1>5, <2>2
  <2> QED BY <2>1, <2>2
<1>8. next' \in [Blkts(chan) -> BlktOrNull]
  <2>1. DOMAIN next' = Blkts(chan) /\ next' = [b \in Blkts(chan) |-> next'[b]]
    BY <1>1 DEF Relink
  <2> QED BY <1>7, <2>1
<1>9. first_blkt' \in [DOMAIN chan -> BlktOrNull]
  BY <1>1, <1>4 DEF BlktOrNull
<1>10. ASSUME NEW s \in DOMAIN chan, s # stage_no
       PROVE  /\ first_blkt'[s] = first_blkt[s]
              /\ \A b \in Blkts(chan) : b[1] = s => next'[b] = next[b]
  <2>1. \A b \in Blkts(chan) : b[1] = s => b \notin Range(o)
    BY <1>2, <1>10 DEF Range
  <2> QED BY <1>1, <1>4, <1>5, <1>10, <2>1
<1>11. ASSUME NEW n, n = stage_no PROVE Tied(n, o)'
  <2>1. Blkts(chan)' = Blkts(chan) /\ Count(n)' = Count(n)
    BY DEF Blkts, Count
  <2>2. Len(o) \in 1..(Count(n) + 2)
    <3>1. Count(n) \in Nat
      BY <1>11, ChanIs DEF TypeOK
    <3> QED BY <1>2, <1>11, <3>1
  <2>3. first_blkt'[n] = o[1]
    BY <1>1, <1>4, <1>11
  <2>4. \A i \in 1..Len(o) : /\ o[i][1] = n /\ o[i] \notin freed'
                             /\ next'[o[i]] = IF i = Len(o) THEN NULL ELSE o[i + 1]
    BY <1>2, <1>6, <1>11
  <2>5. \A i, j \in 1..Len(o) : o[i] = o[j] => i = j
    BY <1>3
  <2> QED BY <1>2, <2>1, <2>2, <2>3, <2>4, <2>5 DEF Tied
<1> QED BY <1>8, <1>9, <1>10, <1>11

(* What LinkStage leaves behind.                                           *)
LEMMA LinkIs ==
  ASSUME CheckInv, AtStageEnd, ~ UnitsUndefined, LinkStage, UNCHANGED <<chan, coeffs, freed>>
  PROVE  /\ first_blkt' \in [DOMAIN chan -> BlktOrNull] /\ next' \in [Blkts(chan) -> BlktOrNull]
         /\ allocated' \subseteq DOMAIN chan
         /\ \A s \in DOMAIN chan : s # stage_no => Same(s)
         /\ \A n : n = stage_no =>
              /\ Plain(n)' \/ \E order \in Seq(Blkts(chan)) : Tied(n, order)'
              /\ ~ DecimationMissing => Complete(n)'
<1> PICK n : n = stage_no
  OBVIOUS
<1>1. /\ n \in DOMAIN chan /\ Count(n) \in Nat /\ Read(n) = 1..Count(n)
      /\ HasFilter <=> HoldsFilter(n)
      /\ HasFilter <=> stage_type # "GAIN_TYPE"
  BY EndIs
<1>2. /\ first_blkt \in [DOMAIN chan -> BlktOrNull] /\ next \in [Blkts(chan) -> BlktOrNull]
      /\ allocated \subseteq DOMAIN chan /\ TypeOK /\ chan \in Channels /\ Plain(n) /\ Roles
      /\ FirsMerged /\ status = "RUN"
  <2>1. \A s \in DOMAIN chan : s >= stage_no => Plain(s)
    BY DEF CheckInv, Apart, AtStageEnd
  <2>2. n >= stage_no
    BY ChanIs DEF CheckInv, TypeOK
  <2>3. TypeOK
    BY DEF CheckInv
  <2>4. Roles /\ FirsMerged /\ status = "RUN"
    BY DEF CheckInv, AtStageEnd
  <2>5. /\ first_blkt \in [DOMAIN chan -> BlktOrNull] /\ next \in [Blkts(chan) -> BlktOrNull]
        /\ allocated \subseteq DOMAIN chan /\ chan \in Channels
    BY <2>3 DEF TypeOK
  <2> QED BY <1>1, <2>1, <2>2, <2>3, <2>4, <2>5
<1>3. allocated' \subseteq DOMAIN chan
  BY <1>1, <1>2 DEF LinkStage
<1>4. ASSUME Mixed(n) PROVE stage_type # "GAIN_TYPE" /\ (ref_flag \/ deci_flag \/ gain_flag)
  <2>1. PICK p \in 1..Count(n) : Kind(n, p) \notin Filters
    BY <1>4 DEF Mixed
  <2>2. Kind(n, p) \in Types /\ Kind(n, p) \notin {"UNDEF", "FIR_COEFFS"}
    <3>1. Kind(n, p) \in Types
      BY <1>1, <1>2, ChanIs
    <3> QED BY <1>1, <1>2, <3>1 DEF Roles
  <2>3. Kind(n, p) \in {"GAIN", "DECIMATION", "REFERENCE"}
    BY <2>1, <2>2 DEF Filters
  <2>4. /\ deci_flag <=> \E r \in Read(n) : Kind(n, r) \in {"DECIMATION"}
        /\ gain_flag <=> \E r \in Read(n) : Kind(n, r) \in {"GAIN"}
        /\ ref_flag <=> \E r \in Read(n) : Kind(n, r) \in {"REFERENCE"}
    BY <1>2 DEF Roles, Noted
  <2> QED BY <1>1, <1>4, <2>3, <2>4 DEF Mixed
<1>5. /\ Count(n)' = Count(n) /\ (Mixed(n)' <=> Mixed(n)) /\ (Digital(n)' <=> Digital(n))
      /\ Blkts(chan)' = Blkts(chan) /\ \A b : Type(b)' = Type(b)
      /\ \A p : Kind(n, p)' = Kind(n, p)
  BY DEF Count, Mixed, HoldsFilter, Kind, Digital, Blkts, Type
<1>6. ASSUME Digital(n)
      PROVE  /\ HasFilter /\ stage_type = "FIR_TYPE"
             /\ ~ DecimationMissing => deci_flag /\ Mixed(n)
             /\ \E a, z \in 1..Count(n) :
                  /\ {p \in 1..Count(n) : Kind(n, p) \in FirTypes} = a..z /\ a <= z
                  /\ coeffs[filt_blkt] = Run(n, a, z)
  <2>1. HasFilter
    <3>1. \E p \in 1..Count(n) : Kind(n, p) \in Filters
      BY <1>6, FilterTypes DEF Digital
    <3>2. HasFilter <=> \E p \in Read(n) : Kind(n, p) \in Filters
      BY <1>2 DEF Roles, Noted
    <3> QED BY <1>1, <3>1, <3>2
  <2>2. /\ filt_blkt[1] = n /\ filt_blkt[2] \in 1..Count(n) /\ Kind(n, filt_blkt[2]) \in Filters
        /\ stage_type = StageTypeOf(Type(filt_blkt))
    BY <1>1, <1>2, <2>1 DEF Roles, Noted
  <2>3. filt_blkt = <<n, filt_blkt[2]>>
    <3>1. filt_blkt \in Blkts(chan)
      <4>1. NULL[2] \notin 1..Count(n)
        BY <1>1 DEF NULL
      <4>2. filt_blkt \in BlktOrNull
        BY <1>2 DEF TypeOK
      <4> QED BY <2>2, <4>1, <4>2 DEF BlktOrNull
    <3> QED BY <1>2, <2>2, <3>1, BlktsIs
  <2>4. Type(filt_blkt) \in FirTypes
    <3>1. Type(<<n, filt_blkt[2]>>) = Kind(n, filt_blkt[2])
      BY <1>1, <1>2, <2>2, TypeIs
    <3> QED BY <1>6, <2>2, <2>3, <3>1 DEF Digital
  <2>5. stage_type = "FIR_TYPE"
    BY <2>2, <2>4, FilterTypes
  <2>6. ~ DecimationMissing => deci_flag
    BY <2>5 DEF DecimationMissing
  <2>7. deci_flag => Mixed(n)
    <3>1. deci_flag <=> \E r \in Read(n) : Kind(n, r) \in {"DECIMATION"}
      BY <1>2 DEF Roles, Noted
    <3>2. "DECIMATION" \notin Filters
      BY FilterTypes
    <3> QED BY <1>1, <2>1, <3>1, <3>2 DEF Mixed
  <2>8. PICK a : a = filt_blkt[2]
    OBVIOUS
  <2>9. PICK z \in 1..Count(n) : IsRun(n, a, z) /\ coeffs[filt_blkt] = Run(n, a, z)
    BY <1>2, <2>5, <2>8 DEF FirsMerged
  <2>10. {p \in 1..Count(n) : Kind(n, p) \in FirTypes} = a..z /\ a <= z
    BY <1>1, <2>9 DEF IsRun, Firs
  <2> QED BY <2>1, <2>2, <2>5, <2>6, <2>7, <2>8, <2>9, <2>10
<1>7. CASE stage_type = "GAIN_TYPE" \/ ~ (ref_flag \/ deci_flag \/ gain_flag)
  <2>1. first_blkt' = first_blkt /\ next' = next
    BY <1>7 DEF LinkStage
  <2>2. \A s \in DOMAIN chan : s # stage_no => Same(s)
    BY <2>1 DEF Same
  <2>3. Plain(n)'
    BY <1>2, <1>5, <2>1 DEF Plain, FirstOf
  <2>4. ~ DecimationMissing => Complete(n)'
    <3>1. ~ Mixed(n)
      BY <1>4, <1>7
    <3> QED BY <1>5, <1>6, <3>1 DEF Complete
  <2> QED BY <1>2, <1>3, <2>1, <2>2, <2>3, <2>4
<1>8. CASE stage_type # "GAIN_TYPE" /\ (ref_flag \/ deci_flag \/ gain_flag)
  <2> PICK g : g = IF gain_blkt = NULL THEN <<stage_no, 0>> ELSE gain_blkt
    OBVIOUS
  <2> PICK o : o = Order(g)
    OBVIOUS
  <2>1. Relink(o)
    BY <1>8 DEF LinkStage
  <2>2. /\ Ordered(o, n) /\ Len(o) <= Count(n) + 2
        /\ Type(o[Len(o)]) = "GAIN"
        /\ \E i \in 1..Len(o) : o[i] = filt_blkt
        /\ deci_flag => \E i \in 1..Len(o) : o[i] = deci_blkt
    BY <1>1, <1>8, OrderIs
  <2>3. /\ first_blkt' \in [DOMAIN chan -> BlktOrNull] /\ next' \in [Blkts(chan) -> BlktOrNull]
        /\ \A s \in DOMAIN chan : s # stage_no =>
              /\ first_blkt'[s] = first_blkt[s]
              /\ \A b \in Blkts(chan) : b[1] = s => next'[b] = next[b]
        /\ Tied(n, o)'
    BY <1>1, <1>2, <2>1, <2>2, RelinkIs
  <2>4. \A s \in DOMAIN chan : s # stage_no => Same(s)
    BY <2>3 DEF Same
  <2>5. o \in Seq(Blkts(chan))
    BY <2>2 DEF Ordered
  <2>6. Ranked(o)'
    <3>1. \A i, j \in 1..Len(o) : i < j => Rank(Type(o[i])) < Rank(Type(o[j]))
      BY <2>2 DEF Ordered
    <3> QED BY <1>5, <2>2, <3>1 DEF Ranked
  <2>7. ASSUME Digital(n), ~ DecimationMissing PROVE WholeDigital(n, o)'
    <3>1. PICK a \in 1..Count(n), z \in 1..Count(n) :
            /\ {p \in 1..Count(n) : Kind(n, p) \in FirTypes} = a..z /\ a <= z
            /\ coeffs[filt_blkt] = Run(n, a, z)
      BY <1>6, <2>7
    <3>2. PICK i \in 1..Len(o) : o[i] = filt_blkt
      BY <2>2
    <3>3. Run(n, a, z)' = Run(n, a, z) /\ coeffs'[o[i]] = Run(n, a, z)
      BY <3>1, <3>2 DEF Run
    <3>4. {p \in 1..Count(n) : Kind(n, p) \in FirTypes}' = a..z
      BY <1>5, <3>1
    <3>5. \E j \in 1..Len(o) : Type(o[j]) = "DECIMATION"
      <4>1. PICK j \in 1..Len(o) : o[j] = deci_blkt
        BY <1>6, <2>2, <2>7
      <4>2. deci_flag /\ deci_blkt[1] = n /\ deci_blkt[2] \in 1..Count(n)
              /\ Kind(n, deci_blkt[2]) = "DECIMATION"
        BY <1>1, <1>2, <1>6, <2>7 DEF Roles, Noted
      <4>3. o[j] = <<n, o[j][2]>>
        <5>1. o[j] \in Blkts(chan) /\ o[j][1] = n
          BY <2>5, <4>1, <4>2
        <5> QED BY <1>2, <5>1, BlktsIs
      <4>4. Type(<<n, deci_blkt[2]>>) = Kind(n, deci_blkt[2])
        BY <1>1, <1>2, <4>2, TypeIs
      <4> QED BY <4>1, <4>2, <4>3, <4>4
    <3>6. (\E j \in 1..Len(o) : Type(o[j]) = "DECIMATION")'
      BY <1>5, <3>5
    <3>7. (\E k \in 1..Len(o) : \E x, y \in 1..Count(n) :
             /\ {p \in 1..Count(n) : Kind(n, p) \in FirTypes} = x..y /\ x <= y
             /\ coeffs[o[k]] = Run(n, x, y))'
      BY <1>5, <3>1, <3>3, <3>4
    <3> QED BY <3>6, <3>7 DEF WholeDigital
  <2>8. ~ DecimationMissing => Complete(n)'
    <3>1. Digital(n)' /\ ~ DecimationMissing => Mixed(n)' /\ WholeDigital(n, o)'
      BY <1>5, <1>6, <2>7
    <3> QED BY <1>5, <2>3, <2>5, <2>6, <3>1 DEF Complete
  <2> QED BY <1>3, <2>3, <2>4, <2>5, <2>8
<1> QED BY <1>7, <1>8

(* A stage that a step does not touch stays as it was parsed.              *)
LEMMA PlainStays ==
  ASSUME TypeOK, NEW s \in DOMAIN chan, Plain(s), Same(s), freed' = freed
  PROVE  Plain(s)'
<1>1. Count(s)' = Count(s) /\ FirstOf(chan, s)' = FirstOf(chan, s) /\ Count(s) \in Nat
  BY ChanIs DEF TypeOK, Same, Count, FirstOf
<1>2. ASSUME NEW p \in 1..Count(s) PROVE next'[<<s, p>>] = next[<<s, p>>]
  <2>1. p \in 0..Count(s)
    BY <1>1
  <2>2. <<s, p>> \in Blkts(chan)
    BY <2>1, BlktsIs DEF TypeOK
  <2> QED BY <2>2 DEF Same
<1>3. first_blkt'[s] = FirstOf(chan, s)'
  BY <1>1 DEF Plain, Same
<1>4. \A p \in 1..Count(s) :
        LET b == next'[<<s, p>>]
        IN  <<s, p>> \notin freed' /\ b # NULL => b[1] = s /\ b[2] > p /\ b \notin freed'
  BY <1>2 DEF Plain
<1> QED BY <1>1, <1>3, <1>4 DEF Plain

(* Both ends of a stage leave the lists apart and the accepted stages      *)
(* complete.                                                               *)
LEMMA LinkedApart ==
  ASSUME CheckInv, AtStageEnd, ~ UnitsUndefined, LinkStage, UNCHANGED <<chan, coeffs, freed>>
  PROVE  /\ GainsKept'
         /\ \A s \in DOMAIN chan : Plain(s)' \/ (\E order \in Seq(Blkts(chan)) : Tied(s, order))'
         /\ \A s \in DOMAIN chan : s > stage_no => Plain(s)'
         /\ \A s \in DOMAIN chan : s < stage_no => Complete(s)'
<1>1. \A s \in DOMAIN chan : s # stage_no => Same(s)
  BY LinkIs
<1>2. \A n : n = stage_no => Plain(n)' \/ \E order \in Seq(Blkts(chan)) : Tied(n, order)'
  BY LinkIs
<1>3. TypeOK /\ Blkts(chan)' = Blkts(chan) /\ stage_no \in Nat /\ DOMAIN chan \subseteq Nat
  <2>1. TypeOK
    BY DEF CheckInv
  <2>2. stage_no \in Nat /\ DOMAIN chan \subseteq Nat
    BY <2>1, ChanIs DEF TypeOK
  <2>3. Blkts(chan)' = Blkts(chan)
    BY DEF Blkts
  <2> QED BY <2>1, <2>2, <2>3
<1>4. GainsKept'
  BY DEF CheckInv, GainsKept
<1>5. ASSUME NEW s \in DOMAIN chan, s # stage_no, Plain(s) PROVE Plain(s)'
  BY <1>1, <1>3, <1>5, PlainStays
<1>6. ASSUME NEW s \in DOMAIN chan, s # stage_no, NEW order, Tied(s, order) PROVE Tied(s, order)'
  BY <1>1, <1>6, TiedStays
<1>7. /\ \A s \in DOMAIN chan : Plain(s) \/ \E order \in Seq(Blkts(chan)) : Tied(s, order)
      /\ \A s \in DOMAIN chan : s >= stage_no => Plain(s)
  BY DEF CheckInv, Apart, AtStageEnd
<1>8. ASSUME NEW s \in DOMAIN chan
      PROVE  Plain(s)' \/ (\E order \in Seq(Blkts(chan)) : Tied(s, order))'
  BY <1>2, <1>3, <1>5, <1>6, <1>7
<1>9. ASSUME NEW s \in DOMAIN chan, s > stage_no PROVE Plain(s)'
  BY <1>3, <1>5, <1>7, <1>9
<1>10. ASSUME NEW s \in DOMAIN chan, s < stage_no PROVE Complete(s)'
  <2>1. Complete(s)
    BY <1>10 DEF CheckInv, AcceptedComplete
  <2>2. Same(s)
    BY <1>1, <1>3, <1>10
  <2> QED BY <1>3, <2>1, <2>2, CompleteStays
<1> QED BY <1>4, <1>8, <1>9, <1>10

(* A stage that is refused ends the function with the invariant.           *)
LEMMA BadStageKeeps ==
  ASSUME CheckInv, BadStage
  PROVE  CheckInv'
<1>1. /\ AtStageEnd /\ ~ UnitsUndefined /\ LinkStage /\ status' = "VAL"
      /\ UNCHANGED <<chan, stage_no, blkt_ptr, coeffs, freed, stage_type,
                     filt_blkt, deci_blkt, gain_blkt, ref_blkt, gain_flag, deci_flag, ref_flag, nc,
                     prev_stage, sensit, delays>>
  BY DEF BadStage, roles, flags, totals
<1>2. TypeOK'
  <2>1. Blkts(chan)' = Blkts(chan) /\ BlktOrNull' = BlktOrNull
    BY <1>1 DEF Blkts, BlktOrNull
  <2>2. /\ first_blkt' \in [DOMAIN chan -> BlktOrNull] /\ next' \in [Blkts(chan) -> BlktOrNull]
        /\ allocated' \subseteq DOMAIN chan
    BY <1>1, LinkIs
  <2>3. TypeOK
    BY DEF CheckInv
  <2> QED BY <1>1, <2>1, <2>2, <2>3 DEF TypeOK
<1>3. InPlace' /\ Untouched' /\ Roles' /\ FirsMerged' /\ UnitsSoFar' /\ DelaysSoFar'
  BY <1>1 DEF InPlace, Untouched, Roles, FirsMerged, UnitsSoFar, DelaysSoFar
<1>4. GainsKept' /\ Apart' /\ AcceptedComplete'
  <2>1. /\ GainsKept'
        /\ \A s \in DOMAIN chan : Plain(s)' \/ (\E order \in Seq(Blkts(chan)) : Tied(s, order))'
        /\ \A s \in DOMAIN chan : s < stage_no => Complete(s)'
    BY <1>1, LinkedApart
  <2> QED BY <1>1, <2>1 DEF Apart, AcceptedComplete
<1> QED BY <1>2, <1>3, <1>4 DEF CheckInv

(* The next stage begins with nothing noted of it.                         *)
LEMMA EndShape ==
  ASSUME CheckInv, EndStage
  PROVE  /\ AtStageEnd /\ ~ UnitsUndefined /\ LinkStage /\ UNCHANGED <<chan, coeffs, freed>>
         /\ \A n : n = stage_no =>
              /\ stage_no' = n + 1
              /\ status' = "RUN" => n + 1 \in DOMAIN chan /\ Position' = 1 /\ Read(stage_no)' = {}
              /\ \A s \in DOMAIN chan : s <= n => Read(s)' = 1..Count(s) /\ Read(s) = 1..Count(s)
         /\ InPlace' /\ stage_no' \in 1..(Len(chan') + 1) /\ blkt_ptr' \in BlktOrNull'
<1> PICK n : n = stage_no
  OBVIOUS
<1>1. /\ AtStageEnd /\ ~ UnitsUndefined /\ LinkStage /\ UNCHANGED <<chan, coeffs, freed>>
      /\ stage_no' = n + 1 /\ blkt_ptr' = FirstOf(chan, n + 1)
      /\ status' = IF n = Len(chan) THEN "OK" ELSE "RUN"
  BY DEF EndStage
<1>2. /\ n \in Nat \ {0} /\ n <= Len(chan) /\ Len(chan) \in Nat /\ n \in DOMAIN chan
      /\ DOMAIN chan = 1..Len(chan) /\ chan \in Channels /\ DOMAIN chan' = DOMAIN chan
      /\ Position = Count(n) + 1 /\ Count(n) \in Nat
  BY <1>1, EndIs, ChanIs DEF CheckInv, TypeOK
<1>3. \A s : Count(s)' = Count(s)
  BY <1>1 DEF Count
<1>12. /\ n \in Nat \ {0} /\ n <= Len(chan) /\ Len(chan) \in Nat /\ Count(n) \in Nat
       /\ \A s \in DOMAIN chan : s \in Nat
  BY <1>2
<1>13. stage_no' = n + 1 /\ status' = (IF n = Len(chan) THEN "OK" ELSE "RUN") /\ chan' = chan
  BY <1>1
<1>4. n + 1 <= Len(chan) =>
        /\ n + 1 \in DOMAIN chan /\ Count(n + 1) \in Nat
        /\ FirstOf(chan, n + 1) = IF Count(n + 1) = 0 THEN NULL ELSE <<n + 1, 1>>
  <2>1. SUFFICES ASSUME n + 1 <= Len(chan)
        PROVE  /\ n + 1 \in DOMAIN chan /\ Count(n + 1) \in Nat
               /\ FirstOf(chan, n + 1) = IF Count(n + 1) = 0 THEN NULL ELSE <<n + 1, 1>>
    OBVIOUS
  <2>2. PICK k : k = n + 1
    OBVIOUS
  <2>3. k \in DOMAIN chan /\ ~ (k > Len(chan))
    BY <1>2, <2>1, <2>2
  <2>4. chan[k] \in Stage /\ Count(k) \in Nat
    BY <1>2, <2>3, ChanIs
  <2>5. chan[k].blkts \in Seq(Types)
    BY <2>4 DEF Stage
  <2>6. chan[k].blkts = <<>> <=> Count(k) = 0
    BY <2>5 DEF Count
  <2> QED BY <2>2, <2>3, <2>4, <2>6 DEF FirstOf
<1>5. n + 1 > Len(chan) => FirstOf(chan, n + 1) = NULL
  BY DEF FirstOf
<1>6. n + 1 <= Len(chan) => Position' = 1
  <2>1. SUFFICES ASSUME n + 1 <= Len(chan) PROVE Position' = 1
    OBVIOUS
  <2>2. Position' = IF FirstOf(chan, n + 1) = NULL THEN Count(n + 1) + 1 ELSE FirstOf(chan, n + 1)[2]
    BY <1>1, <1>3 DEF Position, Count
  <2>3. <<n + 1, 1>> # NULL
    BY DEF NULL
  <2> QED BY <1>4, <2>1, <2>2, <2>3
<1>7. \A s \in DOMAIN chan : s <= n => Read(s)' = 1..Count(s) /\ Read(s) = 1..Count(s)
  <2>1. SUFFICES ASSUME NEW s \in DOMAIN chan, s <= n
        PROVE  Read(s)' = 1..Count(s) /\ Read(s) = 1..Count(s)
    OBVIOUS
  <2>2. s \in Nat
    BY <1>2
  <2>3. Read(s)' = 1..Count(s)
    <3>1. s < stage_no'
      BY <1>12, <1>13, <2>1, <2>2
    <3> QED BY <1>3, <3>1 DEF Read
  <2>4. Read(s) = 1..Count(s)
    BY <1>2, <2>1, <2>2 DEF Read
  <2> QED BY <2>3, <2>4
<1>8. status' = "RUN" => n + 1 \in DOMAIN chan /\ Position' = 1 /\ Read(stage_no)' = {}
  <2>1. SUFFICES ASSUME status' = "RUN"
        PROVE  n + 1 \in DOMAIN chan /\ Position' = 1 /\ Read(stage_no)' = {}
    OBVIOUS
  <2>2. n + 1 <= Len(chan)
    BY <1>12, <1>13, <2>1
  <2>3. Position' = 1 /\ n + 1 \in DOMAIN chan
    BY <1>4, <1>6, <2>2
  <2>4. Read(stage_no)' = {p \in 1..Count(n + 1) : n + 1 < n + 1 \/ (n + 1 = n + 1 /\ p < 1)}
    BY <1>1, <1>3, <2>3 DEF Read, Count
  <2>5. Read(stage_no)' = {}
    BY <1>2, <1>4, <2>2, <2>4
  <2> QED BY <2>3, <2>5
<1>9. InPlace'
  <2>1. status' = "RUN" => /\ stage_no' \in DOMAIN chan'
                           /\ blkt_ptr' # NULL =>
                                blkt_ptr'[1] = stage_no' /\ blkt_ptr'[2] \in 1..Count(n + 1)
    <3>1. SUFFICES ASSUME status' = "RUN"
          PROVE  /\ stage_no' \in DOMAIN chan'
                 /\ blkt_ptr' # NULL =>
                      blkt_ptr'[1] = stage_no' /\ blkt_ptr'[2] \in 1..Count(n + 1)
      OBVIOUS
    <3>2. n + 1 <= Len(chan)
      BY <1>12, <1>13, <3>1
    <3>3. n + 1 \in DOMAIN chan /\ blkt_ptr' = IF Count(n + 1) = 0 THEN NULL ELSE <<n + 1, 1>>
      BY <1>1, <1>4, <3>2
    <3>4. Count(n + 1) \in Nat
      BY <1>4, <3>2
    <3>5. stage_no' \in DOMAIN chan'
      BY <1>13, <3>3
    <3>6. blkt_ptr' # NULL => blkt_ptr'[1] = n + 1 /\ blkt_ptr'[2] \in 1..Count(n + 1)
      BY <3>3, <3>4
    <3> QED BY <1>13, <3>5, <3>6
  <2>2. status' = "OK" => stage_no' = Len(chan') + 1
    BY <1>1
  <2>3. Count(stage_no)' = Count(n + 1)
    BY <1>1 DEF Count
  <2> QED BY <2>1, <2>2, <2>3 DEF InPlace
<1>10. stage_no' \in 1..(Len(chan') + 1)
  BY <1>12, <1>13
<1>11. blkt_ptr' \in BlktOrNull'
  <2>1. BlktOrNull' = BlktOrNull
    BY <1>1 DEF BlktOrNull, Blkts
  <2>2. CASE n + 1 <= Len(chan)
    <3>1. PICK k : k = n + 1
      OBVIOUS
    <3>2. k \in DOMAIN chan /\ Count(k) \in Nat /\ blkt_ptr' = IF Count(k) = 0 THEN NULL ELSE <<k, 1>>
      BY <1>1, <1>4, <2>2, <3>1
    <3>3. Count(k) # 0 => 1 \in 0..Count(k)
      BY <3>2
    <3> QED BY <1>2, <2>1, <3>2, <3>3, BlktsIs DEF BlktOrNull
  <2>3. CASE n + 1 > Len(chan)
    BY <1>1, <1>5, <2>1, <2>3 DEF BlktOrNull
  <2> QED BY <1>2, <2>2, <2>3
<1> QED BY <1>1, <1>7, <1>8, <1>9, <1>10, <1>11

(* A stage that is accepted is tied, complete and continuous, and the      *)
(* roles are forgotten.                                                    *)
LEMMA EndStageKeeps ==
  ASSUME CheckInv, EndStage
  PROVE  CheckInv'
<1> DEFINE D == {"DECIMATION"}
<1> PICK n : n = stage_no
  OBVIOUS
<1>1. /\ AtStageEnd /\ ~ UnitsUndefined /\ ~ UnitsMismatch /\ ~ DecimationMissing /\ LinkStage
      /\ prev_stage' = IF stage_type # "GAIN_TYPE" /\ chan[n].seq # 0 THEN n ELSE prev_stage
      /\ stage_no' = n + 1 /\ status' = IF n = Len(chan) THEN "OK" ELSE "RUN"
      /\ stage_type' = "UNDEF_STAGE" /\ ~ gain_flag' /\ ~ deci_flag' /\ ~ ref_flag'
      /\ {gain_flag', deci_flag', ref_flag'} \subseteq BOOLEAN /\ gain_blkt' = NULL
      /\ UNCHANGED <<chan, coeffs, freed, filt_blkt, deci_blkt, ref_blkt, nc, sensit, delays>>
  BY DEF EndStage, totals
<1>2. /\ status' = "RUN" => n + 1 \in DOMAIN chan /\ Position' = 1 /\ Read(stage_no)' = {}
      /\ \A s \in DOMAIN chan : s <= n => Read(s)' = 1..Count(s) /\ Read(s) = 1..Count(s)
      /\ InPlace' /\ stage_no' \in 1..(Len(chan') + 1) /\ blkt_ptr' \in BlktOrNull'
  BY EndShape
<1>3. /\ n \in Nat \ {0} /\ n <= Len(chan) /\ Len(chan) \in Nat /\ n \in DOMAIN chan
      /\ DOMAIN chan = 1..Len(chan) /\ chan \in Channels
      /\ Position = Count(n) + 1 /\ Count(n) \in Nat
      /\ stage_type # "GAIN_TYPE" <=> HoldsFilter(n)
      /\ HasFilter <=> HoldsFilter(n)
  BY <1>1, EndIs, ChanIs DEF CheckInv, TypeOK
<1>12. n \in Nat \ {0} /\ n <= Len(chan) /\ Len(chan) \in Nat /\ DOMAIN chan = 1..Len(chan)
  BY <1>3
<1>13. stage_no' = n + 1
  BY <1>1
<1>4. TypeOK /\ status = "RUN"
  BY <1>1 DEF CheckInv, AtStageEnd
<1>5. TypeOK'
  <2>1. Blkts(chan)' = Blkts(chan) /\ BlktOrNull' = BlktOrNull
    BY <1>1 DEF Blkts, BlktOrNull
  <2>2. /\ first_blkt' \in [DOMAIN chan -> BlktOrNull] /\ next' \in [Blkts(chan) -> BlktOrNull]
        /\ allocated' \subseteq DOMAIN chan
    BY <1>1, LinkIs
  <2>3. prev_stage' \in 0..Len(chan)
    <3>1. prev_stage \in 0..Len(chan)
      BY <1>4 DEF TypeOK
    <3>2. prev_stage' \in {n, prev_stage}
      BY <1>1
    <3> QED BY <1>12, <3>1, <3>2
  <2>4. NULL \in BlktOrNull /\ "UNDEF_STAGE" \in StageTypes
    BY DEF BlktOrNull, StageTypes
  <2>5. /\ {filt_blkt, deci_blkt, ref_blkt, sensit} \subseteq BlktOrNull
        /\ coeffs \in [Blkts(chan) -> Seq(Blkts(chan))] /\ freed \subseteq Blkts(chan)
        /\ nc \in Nat /\ delays \in Seq([deci : Blkts(chan), calc : Nat])
    BY <1>4 DEF TypeOK
  <2>6. /\ chan' \in Channels /\ stage_no' \in 1..(Len(chan') + 1)
        /\ prev_stage' \in 0..Len(chan') /\ status' \in {"RUN", "OK", "VAL"}
        /\ stage_type' \in StageTypes /\ {gain_flag', deci_flag', ref_flag'} \subseteq BOOLEAN
    BY <1>1, <1>2, <1>3, <2>3, <2>4
  <2>7. {blkt_ptr', filt_blkt', deci_blkt', gain_blkt', ref_blkt', sensit'} \subseteq BlktOrNull'
    BY <1>1, <1>2, <2>1, <2>4, <2>5
  <2>8. /\ first_blkt' \in [DOMAIN chan' -> BlktOrNull'] /\ next' \in [Blkts(chan)' -> BlktOrNull']
        /\ coeffs' \in [Blkts(chan)' -> Seq(Blkts(chan)')] /\ freed' \subseteq Blkts(chan)'
        /\ allocated' \subseteq DOMAIN chan'
    BY <1>1, <2>1, <2>2, <2>5
  <2>9. nc' \in Nat /\ delays' \in Seq([deci : Blkts(chan)', calc : Nat])
    BY <1>1, <2>1, <2>5
  <2> QED BY <2>6, <2>7, <2>8, <2>9 DEF TypeOK
<1>6. Untouched'
  <2>1. SUFFICES ASSUME status' = "RUN" PROVE Untouched'
    BY DEF Untouched
  <2>2. ASSUME NEW s \in DOMAIN chan, NEW p \in 1..Count(s), Ahead(s, p)'
        PROVE  /\ <<s, p>> \notin freed'
               /\ next'[<<s, p>>] = IF p = Count(s) THEN NULL ELSE <<s, p + 1>>
    <3>1. s > n /\ s \in Nat
      <4>1. s >= n + 1 /\ s \in Nat
        BY <1>12, <1>13, <2>2 DEF Ahead
      <4> QED BY <1>12, <4>1
    <3>2. Ahead(s, p)
      BY <3>1 DEF Ahead
    <3>3. <<s, p>> \notin freed /\ next[<<s, p>>] = IF p = Count(s) THEN NULL ELSE <<s, p + 1>>
      BY <1>4, <3>2 DEF CheckInv, Untouched
    <3>4. Same(s)
      <4>1. \A q \in DOMAIN chan : q # n => Same(q)
        BY <1>1, LinkIs
      <4> QED BY <1>3, <3>1, <4>1
    <3>5. <<s, p>> \in Blkts(chan)
      <4>1. p \in 0..Count(s)
        BY <1>3, ChanIs
      <4> QED BY <1>3, <4>1, BlktsIs
    <3> QED BY <1>1, <3>3, <3>4, <3>5 DEF Same
  <2>3. \A s : Count(s)' = Count(s)
    BY <1>1 DEF Count
  <2> QED BY <1>1, <1>2, <2>1, <2>2, <2>3 DEF Untouched
<1>7. GainsKept' /\ Apart' /\ AcceptedComplete'
  <2>1. /\ GainsKept'
        /\ \A s \in DOMAIN chan : Plain(s)' \/ (\E order \in Seq(Blkts(chan)) : Tied(s, order))'
        /\ \A s \in DOMAIN chan : s > n => Plain(s)'
        /\ \A s \in DOMAIN chan : s < n => Complete(s)'
    BY <1>1, LinkedApart
  <2>2. Complete(n)'
    BY <1>1, LinkIs
  <2>3. \A s \in DOMAIN chan : (s >= n + 1 => s > n) /\ (s < n + 1 => s < n \/ s = n)
    BY <1>3
  <2> QED BY <1>1, <2>1, <2>2, <2>3 DEF Apart, AcceptedComplete
<1>8. Roles'
  <2>1. ~ HasFilter'
    BY <1>1 DEF HasFilter
  <2> QED BY <1>1, <1>2, <2>1 DEF Roles, Noted
<1>9. FirsMerged'
  BY <1>1 DEF FirsMerged
<1>10. UnitsSoFar'
  <2>1. \A s : Passing(s)' = Passing(s) /\ Compared(s)' = Compared(s)
    BY <1>1 DEF Passing, HoldsFilter, Compared
  <2>2. \A r, s : LastPassing(r, s)' = LastPassing(r, s)
    BY <2>1 DEF LastPassing
  <2>3. /\ IF prev_stage = 0 THEN \A r \in DOMAIN chan : r < n => ~ Passing(r)
           ELSE LastPassing(prev_stage, n)
        /\ \A r, s \in DOMAIN chan :
             s < n /\ LastPassing(r, s) /\ Compared(s) => chan[r].out = chan[s].in
    BY <1>4 DEF CheckInv, UnitsSoFar
  <2>4. prev_stage' = IF Passing(n) THEN n ELSE prev_stage
    BY <1>1, <1>3 DEF Passing
  <2>5. prev_stage \in Nat /\ prev_stage <= Len(chan)
    BY <1>3, <1>4 DEF TypeOK
  <2>6. IF prev_stage' = 0 THEN \A r \in DOMAIN chan : r < n + 1 => ~ Passing(r)
        ELSE LastPassing(prev_stage', n + 1)
    <3>1. CASE Passing(n)
      <4>1. LastPassing(n, n + 1)
        BY <1>3, <3>1 DEF LastPassing
      <4> QED BY <1>3, <2>4, <3>1, <4>1
    <3>2. CASE ~ Passing(n) /\ prev_stage = 0
      <4>1. \A r \in DOMAIN chan : r < n + 1 => r < n \/ r = n
        BY <1>3
      <4> QED BY <2>3, <2>4, <3>2, <4>1
    <3>3. CASE ~ Passing(n) /\ prev_stage # 0
      <4>1. LastPassing(prev_stage, n)
        BY <2>3, <3>3
      <4>2. \A q \in (prev_stage + 1)..((n + 1) - 1) : q \in (prev_stage + 1)..(n - 1) \/ q = n
        BY <1>3, <2>5
      <4>3. LastPassing(prev_stage, n + 1)
        BY <1>3, <2>5, <3>3, <4>1, <4>2 DEF LastPassing
      <4> QED BY <2>4, <3>3, <4>3
    <3> QED BY <3>1, <3>2, <3>3
  <2>7. ASSUME NEW r \in DOMAIN chan, LastPassing(r, n), Compared(n)
        PROVE  chan[r].out = chan[n].in
    <3>1. r \in Nat /\ r < n /\ Passing(r) /\ \A q \in (r + 1)..(n - 1) : ~ Passing(q)
      BY <1>3, <2>7 DEF LastPassing
    <3>2. prev_stage # 0 /\ LastPassing(prev_stage, n)
      BY <2>3, <3>1
    <3>3. prev_stage = r
      <4>1. prev_stage < n /\ Passing(prev_stage) /\ \A q \in (prev_stage + 1)..(n - 1) : ~ Passing(q)
        BY <3>2 DEF LastPassing
      <4>2. ~ (prev_stage < r)
        <5>1. prev_stage < r => r \in (prev_stage + 1)..(n - 1)
          BY <1>3, <2>5, <3>1
        <5> QED BY <3>1, <4>1, <5>1
      <4>3. ~ (r < prev_stage)
        <5>1. r < prev_stage => prev_stage \in (r + 1)..(n - 1)
          BY <1>3, <2>5, <3>1, <4>1
        <5> QED BY <3>1, <4>1, <5>1
      <4> QED BY <2>5, <3>1, <4>2, <4>3
    <3>4. stage_type \in {"PZ_TYPE", "FIR_TYPE", "IIR_TYPE", "IIR_COEFFS_TYPE", "LIST_TYPE"}
      <4>1. /\ HoldsFilter(n) /\ Range(chan[n].blkts) \cap Filters \subseteq LinearFilters
            /\ DOMAIN chan[n].blkts = 1..Count(n)
        <5>1. Range(chan[n].blkts) \cap Filters # {}
          BY <2>7 DEF Compared
        <5> QED BY <1>3, <2>7, <5>1, ChanIs DEF Compared, HoldsFilter, Range
      <4>2. HasFilter
        BY <1>3, <4>1
      <4>3. /\ filt_blkt[1] = n /\ filt_blkt[2] \in 1..Count(n) /\ Kind(n, filt_blkt[2]) \in Filters
            /\ stage_type = StageTypeOf(Type(filt_blkt))
        BY <1>2, <1>3, <1>4, <4>2 DEF CheckInv, Roles, Noted
      <4>4. filt_blkt = <<n, filt_blkt[2]>>
        <5>1. NULL[2] \notin 1..Count(n)
          BY <1>3 DEF NULL
        <5>2. filt_blkt \in BlktOrNull
          BY <1>4 DEF TypeOK
        <5>3. filt_blkt \in Blkts(chan)
          BY <4>3, <5>1, <5>2 DEF BlktOrNull
        <5> QED BY <1>3, <4>3, <5>3, BlktsIs
      <4>5. Type(<<n, filt_blkt[2]>>) = Kind(n, filt_blkt[2])
        BY <1>3, <4>3, TypeIs
      <4>6. Kind(n, filt_blkt[2]) \in Range(chan[n].blkts)
        BY <4>1, <4>3 DEF Range, Kind
      <4>7. Type(filt_blkt) \in LinearFilters
        BY <4>1, <4>3, <4>4, <4>5, <4>6
      <4>8. \A t \in LinearFilters :
              StageTypeOf(t) \in {"PZ_TYPE", "FIR_TYPE", "IIR_TYPE", "IIR_COEFFS_TYPE", "LIST_TYPE"}
        <5>1. LinearFilters = FirTypes \cup {"PZ", "IIR_PZ", "LIST", "IIR_COEFFS"}
          BY DEF LinearFilters, Filters, Types, FirTypes
        <5>2. \A t \in FirTypes : StageTypeOf(t) = "FIR_TYPE"
          BY FilterTypes
        <5>3. /\ StageTypeOf("PZ") = "PZ_TYPE" /\ StageTypeOf("IIR_PZ") = "IIR_TYPE"
              /\ StageTypeOf("LIST") = "LIST_TYPE" /\ StageTypeOf("IIR_COEFFS") = "IIR_COEFFS_TYPE"
          BY DEF StageTypeOf, FirTypes
        <5> QED BY <5>1, <5>2, <5>3
      <4> QED BY <4>3, <4>7, <4>8
    <3> QED BY <1>1, <3>2, <3>3, <3>4 DEF UnitsMismatch
  <2>8. \A r, s \in DOMAIN chan :
          s < n + 1 /\ LastPassing(r, s) /\ Compared(s) => chan[r].out = chan[s].in
    <3>1. \A s \in DOMAIN chan : s < n + 1 => s < n \/ s = n
      BY <1>3
    <3> QED BY <2>3, <2>7, <3>1
  <2>9. LastPassing(prev_stage, stage_no)' <=> LastPassing(prev_stage', n + 1)
    BY <1>1, <2>1 DEF LastPassing
  <2> QED BY <1>1, <2>1, <2>2, <2>6, <2>8, <2>9 DEF UnitsSoFar
<1>11. DelaysSoFar'
  <2>1. Counted(n) = Counted(n - 1) \o Upto(n, Count(n), D)
    <3>1. PICK k : k = n - 1
      OBVIOUS
    <3>2. k \in Nat /\ k < Len(chan) /\ k <= Len(chan) /\ k + 1 = n
      BY <1>3, <3>1
    <3>3. Counted(k + 1) = Counted(k) \o Positions(k + 1, D)
      BY <1>3, <3>2, CountedIs
    <3>4. Positions(n, D) = Upto(n, Count(n), D)
      BY <1>3, PositionsIs
    <3> QED BY <3>1, <3>2, <3>3, <3>4
  <2>2. [q \in DOMAIN delays |-> delays[q].deci] = Counted(n)
    <3>1. [q \in DOMAIN delays |-> delays[q].deci] = Counted(n - 1) \o Upto(n, Position - 1, D)
      BY <1>4 DEF CheckInv, DelaysSoFar
    <3>2. Position - 1 = Count(n)
      BY <1>3
    <3> QED BY <2>1, <3>1, <3>2
  <2>3. Counted(n) \in Seq(Blkts(chan)) /\ Counted(n) \o <<>> = Counted(n)
    <3>1. Counted(n) \in Seq(Blkts(chan))
      BY <1>3, CountedIs
    <3> QED BY <3>1, ConcatEmptySeq
  <2>4. /\ \A s, types : Positions(s, types)' = Positions(s, types)
        /\ \A s : Count(s)' = Count(s)
        /\ \A s, p : Kind(s, p)' = Kind(s, p)
    BY <1>1 DEF Positions, Type, Count, Kind
  <2>5. Counted(stage_no - 1)' = Counted(n)
    <3>1. (stage_no - 1)' = n
      BY <1>12, <1>13
    <3> QED BY <2>4, <3>1 DEF Counted
  <2>6. status' = "RUN" => Upto(stage_no, Position - 1, D)' = <<>>
    <3>1. SUFFICES ASSUME status' = "RUN" PROVE Upto(stage_no, Position - 1, D)' = <<>>
      OBVIOUS
    <3>2. PICK e, W : /\ e = [p \in 1..Count(stage_no) |-> <<stage_no, p>>]'
                      /\ W = {p \in 1..Count(stage_no) : Kind(stage_no, p) \in D}'
      OBVIOUS
    <3>3. (Position - 1)' = 0
      BY <1>2, <3>1
    <3>4. Upto(stage_no, Position - 1, D)' = Picked(0, e, W)
      BY <3>2, <3>3 DEF Upto
    <3> QED BY <3>4, PickedNone
  <2>7. ([q \in DOMAIN delays |-> delays[q].deci])'
          = (Counted(stage_no - 1)
               \o (IF status = "RUN" THEN Upto(stage_no, Position - 1, D) ELSE <<>>))'
    BY <1>1, <2>2, <2>3, <2>5, <2>6
  <2>8. ASSUME NEW q \in DOMAIN delays, NEW s, s = delays[q].deci[1], NEW r, r = delays[q].calc
        PROVE  s <= n + 1 /\ (r # 0 => (\E a, z \in 1..Count(s) :
                                          IsRun(s, a, z) /\ r = Taps(Kind(s, a), z - a + 1))')
    <3>1. s <= n /\ (r # 0 => \E a, z \in 1..Count(s) :
                                 IsRun(s, a, z) /\ r = Taps(Kind(s, a), z - a + 1))
      BY <1>4, <2>8 DEF CheckInv, DelaysSoFar
    <3>2. s \in DOMAIN chan
      <4>1. delays[q] \in [deci : Blkts(chan), calc : Nat]
        <5> DEFINE R == [deci : Blkts(chan), calc : Nat]
        <5>1. delays \in Seq(R)
          BY <1>4 DEF TypeOK
        <5>2. delays[q] \in R
          <6> HIDE DEF R
          <6> QED BY <2>8, <5>1
        <5> QED BY <5>2
      <4> QED BY <1>3, <2>8, <4>1, BlktsIs
    <3>3. Firs(s)' = Firs(s)
      BY <1>2, <2>4, <3>1, <3>2 DEF Firs
    <3>4. \A a, z : IsRun(s, a, z)' <=> IsRun(s, a, z)
      BY <3>3 DEF IsRun
    <3> QED BY <1>3, <2>4, <3>1, <3>2, <3>4
  <2>9. (\A q \in DOMAIN delays :
           LET s == delays[q].deci[1]
           IN  /\ s <= stage_no
               /\ delays[q].calc # 0 =>
                    \E a, z \in 1..Count(s) :
                      IsRun(s, a, z) /\ delays[q].calc = Taps(Kind(s, a), z - a + 1))'
    BY <1>1, <2>8
  <2> QED BY <2>7, <2>9 DEF DelaysSoFar, D
<1> QED BY <1>2, <1>5, <1>6, <1>7, <1>8, <1>9, <1>10, <1>11 DEF CheckInv

-----------------------------------------------------------------------------
(* The beginning.                                                          *)
LEMMA CheckInvInit ==
  ASSUME Init
  PROVE  CheckInv
<1>1. /\ chan \in Channels /\ Len(chan) \in Nat \ {0} /\ DOMAIN chan = 1..Len(chan)
      /\ 1 \in DOMAIN chan
      /\ \A s \in DOMAIN chan : s \in Nat \ {0} /\ Count(s) \in Nat
  BY ChanIs DEF Init
<1>2. /\ stage_no = 1 /\ blkt_ptr = FirstOf(chan, 1)
      /\ first_blkt = [s \in DOMAIN chan |-> FirstOf(chan, s)]
      /\ next = [b \in Blkts(chan) |->
                   IF b[2] \in 1..(Len(chan[b[1]].blkts) - 1) THEN <<b[1], b[2] + 1>> ELSE NULL]
      /\ coeffs = [b \in Blkts(chan) |-> <<b>>]
      /\ freed = {} /\ allocated = {} /\ stage_type = "UNDEF_STAGE"
      /\ filt_blkt = NULL /\ deci_blkt = NULL /\ gain_blkt = NULL /\ ref_blkt = NULL
      /\ gain_flag = FALSE /\ deci_flag = FALSE /\ ref_flag = FALSE
      /\ nc = 0 /\ prev_stage = 0 /\ sensit = NULL /\ delays = <<>> /\ status = "RUN"
  BY DEF Init
<1>3. ASSUME NEW s \in DOMAIN chan
      PROVE  FirstOf(chan, s) = IF Count(s) = 0 THEN NULL ELSE <<s, 1>>
  <2>1. chan[s] \in Stage /\ ~ (s > Len(chan)) /\ Count(s) \in Nat
    BY <1>1, ChanIs
  <2>2. chan[s].blkts \in Seq(Types)
    BY <2>1 DEF Stage
  <2>3. chan[s].blkts = <<>> <=> Count(s) = 0
    BY <2>2 DEF Count
  <2> QED BY <2>1, <2>3 DEF FirstOf
<1>4. \A s \in DOMAIN chan : FirstOf(chan, s) \in BlktOrNull
  <2>1. ASSUME NEW s \in DOMAIN chan, Count(s) # 0 PROVE <<s, 1>> \in Blkts(chan)
    <3>1. 1 \in 0..Count(s)
      BY <1>1, <2>1
    <3> QED BY <1>1, <3>1, BlktsIs
  <2> QED BY <1>3, <2>1 DEF BlktOrNull
<1>5. ASSUME NEW s \in DOMAIN chan, NEW p \in 1..Count(s)
      PROVE  next[<<s, p>>] = IF p = Count(s) THEN NULL ELSE <<s, p + 1>>
  <2>1. p \in 0..Count(s) /\ Count(s) \in Nat
    BY <1>1
  <2>2. <<s, p>> \in Blkts(chan)
    BY <1>1, <2>1, BlktsIs
  <2>3. next[<<s, p>>] = IF p \in 1..(Len(chan[s].blkts) - 1) THEN <<s, p + 1>> ELSE NULL
    BY <1>2, <2>2
  <2> QED BY <2>1, <2>3 DEF Count
<1>6. Position = 1 /\ Read(stage_no) = {}
  <2>1. Position = 1
    BY <1>1, <1>2, <1>3 DEF Position, NULL
  <2> QED BY <1>1, <1>2, <2>1 DEF Read
<1>7. TypeOK
  <2>1. next \in [Blkts(chan) -> BlktOrNull]
    <3>1. ASSUME NEW b \in Blkts(chan), b[2] \in 1..(Len(chan[b[1]].blkts) - 1)
          PROVE  <<b[1], b[2] + 1>> \in Blkts(chan)
      <4>1. b[1] \in DOMAIN chan
        BY <1>1, BlktsIs
      <4>2. Count(b[1]) \in Nat
        BY <1>1, <4>1
      <4>3. b[2] + 1 \in 0..Count(b[1])
        BY <3>1, <4>2 DEF Count
      <4> QED BY <1>1, <4>1, <4>3, BlktsIs
    <3>2. \A b \in Blkts(chan) : next[b] \in BlktOrNull
      BY <1>2, <3>1 DEF BlktOrNull
    <3> QED BY <1>2, <3>2
  <2>2. first_blkt \in [DOMAIN chan -> BlktOrNull] /\ blkt_ptr \in BlktOrNull
    BY <1>1, <1>2, <1>4
  <2>3. coeffs \in [Blkts(chan) -> Seq(Blkts(chan))]
    BY <1>2
  <2>4. delays \in Seq([deci : Blkts(chan), calc : Nat])
    BY <1>2
  <2>5. {blkt_ptr, filt_blkt, deci_blkt, gain_blkt, ref_blkt, sensit} \subseteq BlktOrNull
    BY <1>2, <2>2 DEF BlktOrNull
  <2>6. "UNDEF_STAGE" \in StageTypes
    BY DEF StageTypes
  <2>7. /\ stage_no \in 1..(Len(chan) + 1) /\ prev_stage \in 0..Len(chan)
        /\ freed \subseteq Blkts(chan) /\ allocated \subseteq DOMAIN chan
        /\ stage_type \in StageTypes /\ {gain_flag, deci_flag, ref_flag} \subseteq BOOLEAN
        /\ nc \in Nat /\ status \in {"RUN", "OK", "VAL"}
    <3>1. /\ stage_no = 1 /\ prev_stage = 0 /\ freed = {} /\ allocated = {} /\ nc = 0
          /\ stage_type = "UNDEF_STAGE" /\ status = "RUN"
          /\ gain_flag = FALSE /\ deci_flag = FALSE /\ ref_flag = FALSE
      BY <1>2
    <3>2. Len(chan) \in Nat
      BY <1>1
    <3>3. {gain_flag, deci_flag, ref_flag} \subseteq BOOLEAN
      BY <3>1
    <3>4. stage_no \in 1..(Len(chan) + 1) /\ prev_stage \in 0..Len(chan)
      BY <3>1, <3>2
    <3>5. freed \subseteq Blkts(chan) /\ allocated \subseteq DOMAIN chan
      BY <3>1
    <3>6. nc \in Nat /\ status \in {"RUN", "OK", "VAL"} /\ stage_type \in StageTypes
      BY <2>6, <3>1
    <3> QED BY <3>3, <3>4, <3>5, <3>6
  <2> QED BY <1>1, <2>1, <2>2, <2>3, <2>4, <2>5, <2>7 DEF TypeOK
<1>8. InPlace
  <2>1. blkt_ptr # NULL => blkt_ptr = <<1, 1>> /\ 1 \in 1..Count(1)
    BY <1>1, <1>2, <1>3
  <2> QED BY <1>1, <1>2, <2>1 DEF InPlace
<1>9. Untouched /\ GainsKept
  BY <1>2, <1>5, <1>6 DEF Untouched, GainsKept
<1>10. Apart
  <2>1. ASSUME NEW s \in DOMAIN chan PROVE Plain(s)
    <3>1. first_blkt[s] = FirstOf(chan, s)
      BY <1>2, <2>1
    <3>2. ASSUME NEW p \in 1..Count(s), next[<<s, p>>] # NULL
          PROVE  next[<<s, p>>][1] = s /\ next[<<s, p>>][2] > p
      <4>1. next[<<s, p>>] = <<s, p + 1>>
        BY <1>5, <3>2
      <4>2. p \in Nat
        BY <1>1
      <4> QED BY <4>1, <4>2
    <3> QED BY <1>2, <3>1, <3>2 DEF Plain
  <2> QED BY <2>1 DEF Apart
<1>11. Roles /\ FirsMerged
  <2>1. ~ HasFilter
    BY <1>2 DEF HasFilter
  <2> QED BY <1>2, <1>6, <2>1 DEF Roles, Noted, FirsMerged
<1>12. AcceptedComplete /\ UnitsSoFar
  <2>1. \A s \in DOMAIN chan : ~ (s < stage_no)
    BY <1>1, <1>2
  <2> QED BY <1>2, <2>1 DEF AcceptedComplete, UnitsSoFar
<1>13. DelaysSoFar
  <2>1. Counted(stage_no - 1) = <<>>
    <3>1. stage_no - 1 = 0
      BY <1>2
    <3> QED BY <1>1, <3>1, CountedIs
  <2>2. Upto(stage_no, Position - 1, {"DECIMATION"}) = <<>>
    <3>1. Position - 1 = 0
      BY <1>6
    <3> QED BY <3>1, PickedNone DEF Upto
  <2>3. <<>> \o <<>> = <<>>
    <3>1. <<>> \in Seq(Nat)
      OBVIOUS
    <3> QED BY <3>1, ConcatEmptySeq
  <2>4. DOMAIN delays = {} /\ [q \in DOMAIN delays |-> delays[q].deci] = <<>>
    BY <1>2
  <2> QED BY <1>2, <2>1, <2>2, <2>3, <2>4 DEF DelaysSoFar
<1> QED BY <1>7, <1>8, <1>9, <1>10, <1>11, <1>12, <1>13 DEF CheckInv

(* A step that changes nothing.                                            *)
LEMMA StillKeeps ==
  ASSUME CheckInv,
         UNCHANGED <<chan, stage_no, blkt_ptr, first_blkt, next, coeffs, freed, allocated,
                     stage_type, filt_blkt, deci_blkt, gain_blkt, ref_blkt, gain_flag, deci_flag,
                     ref_flag, nc, prev_stage, sensit, delays, status>>
  PROVE  CheckInv'
<1>1. TypeOK'
  <2>1. Blkts(chan)' = Blkts(chan) /\ BlktOrNull' = BlktOrNull
    BY DEF Blkts, BlktOrNull
  <2>2. TypeOK
    BY DEF CheckInv
  <2> QED BY <2>1, <2>2 DEF TypeOK
<1>2. InPlace' /\ Untouched'
  BY DEF CheckInv, InPlace, Untouched, Count, Ahead, Position, Read
<1>3. GainsKept'
  BY DEF CheckInv, GainsKept
<1>4. \A s : Same(s) /\ (Plain(s) => Plain(s)')
  BY DEF Same, Plain, FirstOf, Count
<1>5. Apart'
  <2>1. \A s, order : Tied(s, order) => Tied(s, order)'
    BY <1>4, TiedStays
  <2>2. Apart
    BY DEF CheckInv
  <2>3. Blkts(chan)' = Blkts(chan)
    BY DEF Blkts
  <2> QED BY <1>4, <2>1, <2>2, <2>3 DEF Apart
<1>6. AcceptedComplete'
  BY <1>4, CompleteStays DEF CheckInv, AcceptedComplete
<1>7. Roles' /\ FirsMerged'
  <2>1. Read(stage_no)' = Read(stage_no)
    BY DEF Read, Position, Count
  <2>2. /\ \A s, p : Kind(s, p)' = Kind(s, p)
        /\ \A b : Type(b)' = Type(b)
        /\ Count(stage_no)' = Count(stage_no) /\ HasFilter' = HasFilter
    BY DEF Kind, Type, Count, HasFilter
  <2>3. Firs(stage_no)' = Firs(stage_no)
    BY <2>1, <2>2 DEF Firs
  <2>4. Roles'
    <3>1. Roles
      BY DEF CheckInv
    <3> QED BY <2>1, <2>2, <3>1 DEF Roles, Noted
  <2>5. FirsMerged'
    <3>1. FirsMerged
      BY DEF CheckInv
    <3> QED BY <2>2, <2>3, <3>1 DEF FirsMerged, IsRun, Run
  <2> QED BY <2>4, <2>5
<1>8. UnitsSoFar'
  BY DEF CheckInv, UnitsSoFar, Passing, LastPassing, Compared, HoldsFilter
<1>9. DelaysSoFar'
  <2>1. /\ \A s, types : Positions(s, types)' = Positions(s, types)
        /\ \A s : Count(s)' = Count(s)
        /\ \A s, p : Kind(s, p)' = Kind(s, p)
        /\ Position' = Position
    BY DEF Positions, Type, Count, Kind, Position
  <2>2. \A n : Counted(n)' = Counted(n)
    BY <2>1 DEF Counted
  <2>3. Counted(stage_no - 1)' = Counted(stage_no - 1)
    BY <2>2
  <2>4. \A s, n, types : Upto(s, n, types)' = Upto(s, n, types)
    BY <2>1 DEF Upto
  <2>5. Upto(stage_no, Position - 1, {"DECIMATION"})' = Upto(stage_no, Position - 1, {"DECIMATION"})
    BY <2>1, <2>4
  <2>6. \A s, a, z : IsRun(s, a, z)' = IsRun(s, a, z)
    BY DEF IsRun, Firs, Read, Position, Count, Kind
  <2>7. DelaysSoFar
    BY DEF CheckInv
  <2>8. ([q \in DOMAIN delays |-> delays[q].deci])' = [q \in DOMAIN delays |-> delays[q].deci]
    OBVIOUS
  <2> QED BY <2>1, <2>3, <2>5, <2>6, <2>7, <2>8 DEF DelaysSoFar
<1> QED BY <1>1, <1>2, <1>3, <1>5, <1>6, <1>7, <1>8, <1>9 DEF CheckInv

(* The invariant holds throughout the function.                            *)
THEOREM CheckInvariance == Spec => []CheckInv
<1>1. Init => CheckInv
  BY CheckInvInit
<1>2. CheckInv /\ [Next]_vars => CheckInv'
  <2> SUFFICES ASSUME CheckInv, [Next]_vars PROVE CheckInv'
    OBVIOUS
  <2>1. CASE TakesFilter \/ TakesOther
    BY <2>1, ReadKeeps
  <2>2. CASE BadBlkt \/ BadUnits
    <3>1. Reject
      BY <2>2 DEF BadBlkt, BadUnits
    <3> QED BY <3>1, RejectKeeps
  <2>3. CASE BadList
    BY <2>3, BadListKeeps
  <2>4. CASE EndStage
    BY <2>4, EndStageKeeps
  <2>5. CASE BadStage
    BY <2>5, BadStageKeeps
  <2>6. CASE UNCHANGED vars
    <3>1. UNCHANGED <<chan, stage_no, blkt_ptr, first_blkt, next, coeffs, freed, allocated,
                      stage_type, filt_blkt, deci_blkt, gain_blkt, ref_blkt, gain_flag, deci_flag,
                      ref_flag, nc, prev_stage, sensit, delays, status>>
      BY <2>6 DEF vars
    <3> QED BY <3>1, StillKeeps
  <2> QED BY <2>1, <2>2, <2>3, <2>4, <2>5, <2>6 DEF Next, TakesFilter, TakesOther
<1> QED BY <1>1, <1>2, PTL DEF Spec

(* StagesStayApart: no relinking borrows a blockette of another stage,     *)
(* follows one that was merged away, or ties a stage into a ring.          *)
THEOREM StagesStayApartHolds == Spec => []StagesStayApart
<1>1. CheckInv => StagesStayApart
  BY StagesApart DEF CheckInv
<1> QED BY <1>1, CheckInvariance, PTL

(* StagesComplete: an accepted stage is in the documented order, a digital *)
(* one keeps all its coefficients and a decimation of its own.             *)
THEOREM StagesCompleteHolds == Spec => []StagesComplete
<1>1. CheckInv => StagesComplete
  BY AllComplete DEF CheckInv
<1> QED BY <1>1, CheckInvariance, PTL

(* UnitsContinuous: in an accepted channel every stage compared takes in   *)
(* what the one before it puts out.                                        *)
THEOREM UnitsContinuousHolds == Spec => []UnitsContinuous
<1>1. CheckInv => UnitsContinuous
  BY UnitsMeet DEF CheckInv
<1> QED BY <1>1, CheckInvariance, PTL

(* DelaysCountedOnce: the delays are those of the decimations, each once,  *)
(* and computed from the coefficients of their own stage.                  *)
THEOREM DelaysCountedOnceHolds == Spec => []DelaysCountedOnce
<1>1. CheckInv => DelaysCountedOnce
  BY DelaysCounted DEF CheckInv
<1> QED BY <1>1, CheckInvariance, PTL

================================================================================
