--------------------------- MODULE CwdDriver_proofs ---------------------------
(***************************************************************************)
(* Proofs about CwdDriver: what was read is the beginning of what the      *)
(* search found, the output files hold the latest of what was written, and *)
(* with that the directory is as documented whenever the driver returns;   *)
(* and about Output, the text of what it writes.                           *)
(***************************************************************************)
EXTENDS CwdDriver, Output, SequenceLemmas

(* The channels of the files fs, in the order they are read.               *)
Flat(fs) == FlattenSeq([q \in DOMAIN fs |-> Selected(fs[q])])

(* The files of n rounds, and those of the rounds begun.                   *)
Rounds(n) == FlattenSeq([q \in 1..n |-> lists[1]])
Begun == IF mode \in {"stdin", "named"} THEN <<1>> ELSE Rounds(round - 1)

(* What was read and what is left make up what was begun; every channel of *)
(* what was read is evaluated or waits for it.                             *)
ReadSoFar ==
  \E done \in Seq(DOMAIN world.disk) :
    Begun = done \o file /\ responses \o todo = Flat(done)

(* The responses written to output file k so far, and the last of them.    *)
WrittenTo(k) ==
  {i \in DOMAIN responses :
     /\ Sncl(responses[i]) = k[2]
     /\ \E j \in DOMAIN OutputKinds :
          OutputKinds[j] = k[1] /\ (i - 1) * Len(OutputKinds) + j <= written}

HoldsLatest(k) ==
  \/ WrittenTo(k) = {} /\ out[k] = None
  \/ \E i \in WrittenTo(k) : out[k] = responses[i] /\ \A p \in WrittenTo(k) : p <= i

CutShort(k) == pc = "done" /\ status = "ERROR" /\ out[k] = Partial

Searching == mode \in {"dir", "cwd"}

Order ==
  /\ pc = "start" <=> mode = "none"
  /\ pc \in {"start", "find"} => round = 1 /\ file = <<>> /\ responses = <<>>
  /\ pc \in {"find", "round"} => Searching
  /\ pc = "round" => file = <<>>
  /\ pc \in {"start", "find", "round", "open", "write"} => todo = <<>>
  /\ Searching /\ pc # "find" => Len(lists) = Len(world.requests)
  /\ status = "ERROR" => pc \in {"done", "wild_free"}
  /\ pc = "start" => lists = <<>>

Reading == pc \in {"start", "find", "round", "open", "evaluate"}

AllIsRead == AllRead \in Seq(DOMAIN world.disk) /\ responses = Flat(AllRead)

InStep ==
  /\ Reading => ReadSoFar
  /\ pc = "write" => AllIsRead
  /\ pc = "done" /\ status = "OK" => AllWritten /\ AllIsRead
  /\ pc \notin {"write", "done"} => written = 0
  /\ written # 0 => allocated /\ AllIsRead
  /\ \A k \in DOMAIN out : CutShort(k) => AllIsRead

ListsFound == \A q \in DOMAIN lists : lists[q] = Found(world.requests[q])

OutputsLatest ==
  \A k \in Kinds \X Sncls :
    IF mode = "stdin" THEN out[k] = None ELSE HoldsLatest(k) \/ CutShort(k)

CwdInv == TypeOK /\ Order /\ ListsFound /\ InStep /\ OutputsLatest

-----------------------------------------------------------------------------
(* What a call finds when it begins.                                       *)
LEMMA WorldIs ==
  ASSUME world \in Worlds
  PROVE  /\ world.requests \in Seq(Request) /\ world.disk \in Seq(RespFile)
         /\ world.format \in {"fap", "ap", "complex"}
         /\ Len(world.requests) \in Nat /\ Len(world.disk) \in Nat
         /\ DOMAIN world.disk = 1..Len(world.disk)
         /\ world.source \in {"stdin", "named", "dir", "missing", "cwd"}
<1>1. world \in World
  BY WorldAssumption
<1>2. /\ world.requests \in Seq(Request) /\ world.disk \in Seq(RespFile)
      /\ world.format \in {"fap", "ap", "complex"}
      /\ world.source \in {"stdin", "named", "dir", "missing", "cwd"}
  BY <1>1 DEF World
<1> QED BY <1>2

(* The files a response is written to are one or two, of different kinds.  *)
LEMMA KindsAre ==
  ASSUME world \in Worlds
  PROVE  /\ \/ world.format = "fap" /\ OutputKinds = <<"FAP">>
            \/ world.format = "ap" /\ OutputKinds = <<"AMP", "PHASE">>
            \/ world.format = "complex" /\ OutputKinds = <<"SPECTRA">>
         /\ Len(OutputKinds) \in {1, 2} /\ DOMAIN OutputKinds = 1..Len(OutputKinds)
         /\ \A j \in DOMAIN OutputKinds : OutputKinds[j] \in Kinds
         /\ \A i, j \in DOMAIN OutputKinds : OutputKinds[i] = OutputKinds[j] => i = j
<1>1. world.format \in {"fap", "ap", "complex"}
  BY WorldIs
<1>2. \/ world.format = "fap" /\ OutputKinds = <<"FAP">>
      \/ world.format = "ap" /\ OutputKinds = <<"AMP", "PHASE">>
      \/ world.format = "complex" /\ OutputKinds = <<"SPECTRA">>
  BY <1>1 DEF OutputKinds
<1> QED BY <1>2 DEF Kinds

(* A response belongs to a file, and is none of the other things an output *)
(* may hold.                                                               *)
LEMMA ResponseIs ==
  ASSUME world \in Worlds, NEW x \in Response
  PROVE  x.file \in DOMAIN world.disk /\ x.file \in Nat \ {0} /\ x \notin {None, Partial}
<1>1. x.file \in DOMAIN world.disk
  BY DEF Response
<1>2. x.file \in Nat \ {0}
  BY <1>1, WorldIs
<1> QED BY <1>1, <1>2 DEF None, Partial

(* The channels selected from a file are places in that file.              *)
LEMMA SelectedIs ==
  ASSUME world \in Worlds, NEW f \in DOMAIN world.disk
  PROVE  /\ Selected(f) \in Seq(Response)
         /\ \A i \in 1..Len(Selected(f)) : Selected(f)[i].file = f
                                             /\ Sncl(Selected(f)[i]) \in Sncls
<1> DEFINE chans == world.disk[f].chans
           n == Len(chans)
           e == [c \in 1..n |-> [file |-> f, at |-> c]]
           W == {c \in 1..n : Wanted(chans[c])}
<1>1. world.disk[f] \in RespFile
  BY WorldIs
<1>2. chans \in Seq(Sncls) /\ n \in Nat /\ DOMAIN chans = 1..n
  BY <1>1 DEF RespFile
<1>3. Selected(f) = Picked(n, e, W)
  <2>1. [c \in DOMAIN chans |-> IF Wanted(chans[c]) THEN <<[file |-> f, at |-> c]>> ELSE <<>>]
          = [c \in 1..n |-> IF c \in W THEN <<e[c]>> ELSE <<>>]
    BY <1>2
  <2> QED BY <2>1 DEF Selected, Picked
<1>4. e \in [1..n -> [file : {f}, at : 1..n]]
  OBVIOUS
<1> DEFINE p == Selected(f)
<1>5. p \in Seq([file : {f}, at : 1..n])
  <2>1. Picked(n, e, W) \in Seq([file : {f}, at : 1..n])
    <3> HIDE DEF n, e, W
    <3> QED BY <1>2, <1>4, PickedInSeq
  <2> QED BY <1>3, <2>1
<1>6. p \in Seq(Response)
  <2>1. [file : {f}, at : 1..n] \subseteq Response
    BY <1>2 DEF Response
  <2> QED BY <1>5, <2>1, SeqMonotonic
<1>7. \A i \in 1..Len(p) : p[i] \in [file : {f}, at : 1..n]
  BY <1>5, ElementOfSeq
<1>8. \A i \in 1..Len(p) : p[i].file = f /\ Sncl(p[i]) \in Sncls
  <2>1. SUFFICES ASSUME NEW i \in 1..Len(p) PROVE p[i].file = f /\ Sncl(p[i]) \in Sncls
    OBVIOUS
  <2>2. p[i].file = f /\ p[i].at \in 1..n
    BY <1>7
  <2>3. Sncl(p[i]) = chans[p[i].at]
    BY <2>2 DEF Sncl
  <2> QED BY <1>2, <2>2, <2>3
<1> QED BY <1>6, <1>8

(* A list of files is in the disk, and in the order of falling names.      *)
LEMMA LastNameFirstIs ==
  ASSUME world \in Worlds, NEW X
  PROVE  /\ LastNameFirst(X) \in Seq(DOMAIN world.disk)
         /\ \A i \in 1..Len(LastNameFirst(X)) : LastNameFirst(X)[i] \in X
         /\ \A i, j \in 1..Len(LastNameFirst(X)) :
              i < j => LastNameFirst(X)[i] > LastNameFirst(X)[j]
<1> DEFINE n == Len(world.disk)
           e == [q \in 1..n |-> n + 1 - q]
           W == {q \in 1..n : n + 1 - q \in X}
           R == {ab \in Nat \X Nat : ab[1] > ab[2]}
           p == LastNameFirst(X)
<1>1. n \in Nat /\ DOMAIN world.disk = 1..n
  BY WorldIs
<1>2. p = Picked(n, e, W)
  <2>1. [q \in 1..n |-> IF n + 1 - q \in X THEN <<n + 1 - q>> ELSE <<>>]
          = [q \in 1..n |-> IF q \in W THEN <<e[q]>> ELSE <<>>]
    OBVIOUS
  <2> QED BY <2>1 DEF LastNameFirst, Picked
<1>3. e \in [1..n -> 1..n]
  BY <1>1
<1>4. \A c, d \in 1..n : c < d /\ c \in W /\ d \in W => <<e[c], e[d]>> \in R
  BY <1>1
<1> HIDE DEF p
<1>5. p \in Seq(1..n) /\ \A x : Contains(p, x) <=> \E c \in 1..n : c \in W /\ e[c] = x
  <2> HIDE DEF n, e, W
  <2>1. Picked(n, e, W) \in Seq(1..n)
    BY <1>1, <1>3, PickedInSeq
  <2>2. \A x : Contains(Picked(n, e, W), x) <=> \E c \in 1..n : c \in W /\ e[c] = x
    BY <1>1, PickedHas
  <2> QED BY <1>2, <2>1, <2>2
<1>6. \A i, j \in 1..Len(p) : i < j => <<p[i], p[j]>> \in R
  <2> HIDE DEF e, W, R
  <2> QED BY <1>1, <1>2, <1>3, <1>4, PickedOrdered
<1>7. \A i \in 1..Len(p) : p[i] \in X
  <2>1. SUFFICES ASSUME NEW i \in 1..Len(p) PROVE p[i] \in X
    OBVIOUS
  <2>2. Contains(p, p[i])
    BY DEF Contains
  <2>3. PICK c \in 1..n : c \in W /\ e[c] = p[i]
    BY <1>5, <2>2
  <2> QED BY <2>3
<1>8. \A i, j \in 1..Len(p) : i < j => p[i] > p[j]
  BY <1>6
<1> QED BY <1>1, <1>5, <1>7, <1>8 DEF p

(* What a glob finds are files, in the order opposite to that of their     *)
(* names.                                                                  *)
LEMMA FoundIs ==
  ASSUME world \in Worlds, NEW r
  PROVE  /\ Found(r) \in Seq(DOMAIN world.disk)
         /\ \A i, j \in 1..Len(Found(r)) : i < j => Found(r)[i] > Found(r)[j]
<1>1. Found(r) = <<>> \/ \E X : Found(r) = LastNameFirst(X)
  BY DEF Found
<1> QED BY <1>1, LastNameFirstIs

(* Reading a file appends its channels; beginning a round, its list.       *)
LEMMA FlatIs ==
  ASSUME world \in Worlds, NEW fs \in Seq(DOMAIN world.disk), NEW f \in DOMAIN world.disk
  PROVE  /\ Flat(fs) \in Seq(Response)
         /\ Flat(Append(fs, f)) = Flat(fs) \o Selected(f)
<1> DEFINE ss == [q \in DOMAIN fs |-> Selected(fs[q])]
<1>1. \A g \in DOMAIN world.disk : Selected(g) \in Seq(Response)
  BY SelectedIs
<1>2. ss \in Seq(Seq(Response))
  <2>1. DOMAIN fs = 1..Len(fs) /\ Len(fs) \in Nat /\ \A q \in DOMAIN fs : fs[q] \in DOMAIN world.disk
    OBVIOUS
  <2>2. \A q \in 1..Len(fs) : Selected(fs[q]) \in Seq(Response)
    BY <1>1, <2>1
  <2>3. ss = [q \in 1..Len(fs) |-> Selected(fs[q])]
    BY <2>1
  <2> QED BY <2>1, <2>2, <2>3
<1>3. [q \in DOMAIN Append(fs, f) |-> Selected(Append(fs, f)[q])] = Append(ss, Selected(f))
  <2> DEFINE tt == [q \in DOMAIN Append(fs, f) |-> Selected(Append(fs, f)[q])]
             uu == Append(ss, Selected(f))
  <2>1. tt \in Seq(Seq(Response)) /\ Len(tt) = Len(fs) + 1
    BY <1>1
  <2>2. uu \in Seq(Seq(Response)) /\ Len(uu) = Len(fs) + 1
    BY <1>1, <1>2
  <2>3. \A i \in 1..(Len(fs) + 1) : tt[i] = uu[i]
    <3>1. SUFFICES ASSUME NEW i \in 1..(Len(fs) + 1) PROVE tt[i] = uu[i]
      OBVIOUS
    <3>2. CASE i = Len(fs) + 1
      BY <1>2, <3>2
    <3>3. CASE i # Len(fs) + 1
      <4>1. i \in 1..Len(fs)
        BY <3>3
      <4> QED BY <1>2, <4>1
    <3> QED BY <3>2, <3>3
  <2> HIDE DEF tt, uu
  <2>4. tt = uu
    BY <2>1, <2>2, <2>3, SeqEqual
  <2> QED BY <2>4 DEF tt, uu
<1>4. FlattenSeq(Append(ss, Selected(f))) = FlattenSeq(ss) \o Selected(f)
  <2> HIDE DEF ss
  <2> QED BY <1>1, <1>2, FlattenAppend
<1>5. FlattenSeq(ss) \in Seq(Response)
  <2> HIDE DEF ss
  <2> QED BY <1>2, FlattenInSeq
<1> QED BY <1>3, <1>4, <1>5 DEF Flat

(* No files have no channels.                                              *)
LEMMA FlatEmpty == Flat(<<>>) = <<>>
<1>1. [q \in DOMAIN <<>> |-> Selected(<<>>[q])] = <<>>
  OBVIOUS
<1> QED BY <1>1, FlattenEmpty DEF Flat

(* The files of a number of rounds, round by round.                        *)
LEMMA RoundsIs ==
  ASSUME lists \in Seq(Seq(DOMAIN world.disk)), lists # <<>>, NEW n \in Nat
  PROVE  /\ Rounds(n) \in Seq(DOMAIN world.disk)
         /\ Rounds(0) = <<>>
         /\ Rounds(n + 1) = Rounds(n) \o lists[1]
<1> DEFINE ss == [q \in 1..n |-> lists[1]]
           S == DOMAIN world.disk
<1>1. lists[1] \in Seq(S)
  OBVIOUS
<1>2. ss \in Seq(Seq(S)) /\ Len(ss) = n
  BY <1>1
<1>3. [q \in 1..(n + 1) |-> lists[1]] = Append(ss, lists[1])
  <2> DEFINE tt == [q \in 1..(n + 1) |-> lists[1]]
             uu == Append(ss, lists[1])
  <2>1. tt \in Seq(Seq(S)) /\ Len(tt) = n + 1 /\ \A i \in 1..(n + 1) : tt[i] = lists[1]
    BY <1>1
  <2>2. uu \in Seq(Seq(S)) /\ Len(uu) = n + 1 /\ \A i \in 1..(n + 1) : uu[i] = lists[1]
    <3>1. \A i \in 1..n : ss[i] = lists[1]
      OBVIOUS
    <3> HIDE DEF ss, S
    <3> QED BY <1>1, <1>2, <3>1
  <2> HIDE DEF tt, uu, S
  <2>3. tt = uu
    BY <2>1, <2>2, SeqEqual
  <2> QED BY <2>3 DEF tt, uu
<1>4. FlattenSeq(Append(ss, lists[1])) = FlattenSeq(ss) \o lists[1]
  <2> HIDE DEF ss, S
  <2> QED BY <1>1, <1>2, FlattenAppend
<1>5. FlattenSeq(ss) \in Seq(S)
  <2> HIDE DEF ss, S
  <2> QED BY <1>2, FlattenInSeq
<1>6. Rounds(0) = <<>>
  <2>1. [q \in 1..0 |-> lists[1]] = <<>>
    OBVIOUS
  <2> QED BY <2>1, FlattenEmpty DEF Rounds
<1> QED BY <1>3, <1>4, <1>5, <1>6 DEF Rounds

-----------------------------------------------------------------------------
(* The operators the invariant uses say the same after a step that leaves  *)
(* what they read alone.                                                   *)
LEMMA FlatStays ==
  ASSUME world' = world, NEW fs
  PROVE  Flat(fs)' = Flat(fs)
<1>1. \A f : Selected(f)' = Selected(f)
  BY DEF Selected, Wanted
<1> QED BY <1>1 DEF Flat

(* What a glob finds does not change during a call.                        *)
LEMMA FoundStays ==
  ASSUME world' = world, mode' = mode, NEW r
  PROVE  Found(r)' = Found(r)
<1>1. \A X : LastNameFirst(X)' = LastNameFirst(X)
  BY DEF LastNameFirst
<1>2. GlobsOf(r)' = GlobsOf(r)
  BY DEF GlobsOf, Glob, LocWild, Places
<1> QED BY <1>1, <1>2 DEF Found

(* What was begun when the rounds are over is everything.                  *)
LEMMA BegunIs ==
  ASSUME TypeOK, Order, pc \in {"round", "open", "evaluate"}, pc = "round" => round > Len(world.requests),
         pc # "round" => ~ Searching
  PROVE  AllRead = Begun
<1>1. CASE pc = "round"
  <2>1. /\ Searching /\ mode \notin {"stdin", "named"}
        /\ round - 1 = Len(world.requests) /\ Len(lists) = Len(world.requests)
    BY <1>1, WorldIs DEF TypeOK, Order, Searching
  <2>2. DOMAIN lists = 1..(round - 1)
    BY <2>1 DEF TypeOK
  <2> QED BY <2>1, <2>2 DEF AllRead, Begun, Rounds, ListOfRound
<1>2. CASE pc # "round"
  <2>1. mode \in {"stdin", "named"}
    BY <1>2 DEF TypeOK, Order, Searching
  <2> QED BY <2>1 DEF AllRead, Begun
<1> QED BY <1>1, <1>2

(* The response and the output file that come next.                        *)
LEMMA NextIs ==
  ASSUME TypeOK, ~ AllWritten
  PROVE  \E i \in DOMAIN responses : \E j \in DOMAIN OutputKinds :
           /\ (i - 1) * Len(OutputKinds) + j = written + 1
           /\ NextResponse = responses[i]
           /\ NextOutput = <<OutputKinds[j], Sncl(responses[i])>>
<1> DEFINE K == Len(OutputKinds)
           i == written \div K + 1
           j == (written % K) + 1
<1>1. K \in {1, 2} /\ DOMAIN OutputKinds = 1..K
  BY KindsAre DEF TypeOK
<1>2. DOMAIN responses = 1..Len(responses) /\ Len(responses) \in Nat
  BY DEF TypeOK
<1>3. written \in Nat /\ written < Len(responses) * K
  BY <1>1, <1>2 DEF TypeOK, AllWritten
<1>4. i \in DOMAIN responses /\ j \in DOMAIN OutputKinds /\ (i - 1) * K + j = written + 1
  <2> HIDE DEF K
  <2>1. CASE K = 1
    BY <1>1, <1>2, <1>3, <2>1
  <2>2. CASE K = 2
    BY <1>1, <1>2, <1>3, <2>2
  <2> QED BY <1>1, <2>1, <2>2
<1> QED BY <1>4 DEF NextResponse, NextOutput

(* The elements of what was read.                                          *)
LEMMA FlatHas ==
  ASSUME world \in Worlds, NEW fs \in Seq(DOMAIN world.disk)
  PROVE  /\ \A r : Contains(Flat(fs), r) <=> \E q \in 1..Len(fs) : Contains(Selected(fs[q]), r)
         /\ \A i \in 1..Len(Flat(fs)) :
              /\ Sncl(Flat(fs)[i]) \in Sncls
              /\ \E q \in 1..Len(fs) :
                   Flat(fs)[i].file = fs[q] /\ Contains(Selected(fs[q]), Flat(fs)[i])
<1> DEFINE ss == [q \in DOMAIN fs |-> Selected(fs[q])]
<1>1. /\ DOMAIN fs = 1..Len(fs) /\ Len(fs) \in Nat
      /\ \A q \in 1..Len(fs) : fs[q] \in DOMAIN world.disk
  OBVIOUS
<1>2. \A q \in 1..Len(fs) : Selected(fs[q]) \in Seq(Response)
  BY <1>1, SelectedIs
<1>3. ss \in Seq(Seq(Response)) /\ Len(ss) = Len(fs) /\ \A q \in 1..Len(fs) : ss[q] = Selected(fs[q])
  BY <1>1, <1>2
<1>4. Flat(fs) = FlattenSeq(ss)
  BY DEF Flat
<1> HIDE DEF ss
<1>5. \A r : Contains(FlattenSeq(ss), r) <=> \E q \in 1..Len(ss) : Contains(ss[q], r)
  BY <1>3, FlattenMembers
<1>6. \A r : Contains(Flat(fs), r) <=> \E q \in 1..Len(fs) : Contains(Selected(fs[q]), r)
  BY <1>3, <1>4, <1>5
<1>7. ASSUME NEW i \in 1..Len(Flat(fs))
      PROVE  /\ Sncl(Flat(fs)[i]) \in Sncls
             /\ \E q \in 1..Len(fs) :
                  Flat(fs)[i].file = fs[q] /\ Contains(Selected(fs[q]), Flat(fs)[i])
  <2>1. Contains(Flat(fs), Flat(fs)[i])
    BY DEF Contains
  <2>2. PICK q \in 1..Len(fs) : Contains(Selected(fs[q]), Flat(fs)[i])
    BY <1>6, <2>1
  <2>3. PICK k \in 1..Len(Selected(fs[q])) : Selected(fs[q])[k] = Flat(fs)[i]
    BY <2>2 DEF Contains
  <2>4. Selected(fs[q])[k].file = fs[q] /\ Sncl(Selected(fs[q])[k]) \in Sncls
    BY <1>1, SelectedIs
  <2> QED BY <2>2, <2>3, <2>4
<1> QED BY <1>6, <1>7

-----------------------------------------------------------------------------
(* Every step keeps the types, ...                                         *)
LEMMA CwdTypeStep ==
  ASSUME CwdInv, [Next]_vars
  PROVE  TypeOK'
<1> USE DEF CwdInv
<1>1. CASE Start
  <2>1. world.source \in {"stdin", "named", "dir", "missing", "cwd"}
    BY WorldIs DEF TypeOK
  <2>2. mode' \in {"stdin", "named", "dir", "cwd"} /\ file' \in Seq(Nat)
    BY <1>1, <2>1 DEF Start, ModesOf
  <2> QED BY <1>1, <2>2 DEF Start, TypeOK, Response, OutputKinds
<1>2. CASE FindFiles
  <2> DEFINE r == world.requests[Len(lists) + 1]
  <2>1. Found(r) \in Seq(DOMAIN world.disk)
    BY FoundIs DEF TypeOK
  <2> HIDE DEF r
  <2>2. lists' = Append(lists, Found(r))
    BY <1>2 DEF FindFiles, r
  <2>3. lists' \in Seq(Seq(DOMAIN world.disk)) /\ Len(lists') = Len(lists) + 1
    BY <2>1, <2>2 DEF TypeOK
  <2>4. Len(lists') <= Len(world.requests)
    BY <1>2, <2>3, WorldIs DEF FindFiles, TypeOK
  <2> QED BY <1>2, <2>3, <2>4 DEF FindFiles, TypeOK, Response, OutputKinds
<1>3. CASE FilesFound
  BY <1>3 DEF FilesFound, search, TypeOK, Response, OutputKinds
<1>4. CASE StartRound
  <2>1. Len(lists) = Len(world.requests) /\ Len(world.requests) \in Nat
    BY <1>4, WorldIs DEF StartRound, Order, TypeOK
  <2>2. lists[1] \in Seq(DOMAIN world.disk)
    BY <1>4, <2>1 DEF StartRound, TypeOK
  <2>3. lists[1] \in Seq(Nat)
    <3>1. DOMAIN world.disk \subseteq Nat
      BY WorldIs DEF TypeOK
    <3> QED BY <2>2, <3>1, SeqMonotonic
  <2>4. file' \in Seq(Nat) /\ round' \in 1..(Len(world.requests) + 1)
    BY <1>4, <2>1, <2>3 DEF StartRound, ListOfRound, TypeOK
  <2> QED BY <1>4, <2>4 DEF StartRound, search, TypeOK, Response, OutputKinds
<1>5. CASE RoundsOver
  BY <1>5 DEF RoundsOver, search, TypeOK, Response, OutputKinds
<1>6. CASE ReadFile
  <2>1. Selected(Head(file)) \in Seq(Response)
    BY <1>6, SelectedIs DEF ReadFile, TypeOK
  <2>2. Tail(file) \in Seq(Nat)
    BY <1>6 DEF ReadFile, TypeOK
  <2> QED BY <1>6, <2>1, <2>2 DEF ReadFile, search, TypeOK, Response, OutputKinds
<1>7. CASE ReadFails
  BY <1>7 DEF ReadFails, search, TypeOK, Response, OutputKinds
<1>8. CASE Evaluate
  <2>1. Head(todo) \in Response /\ Tail(todo) \in Seq(Response)
    BY <1>8 DEF Evaluate, TypeOK
  <2>2. responses' \in Seq(Response) /\ Len(responses') = Len(responses) + 1
    BY <1>8, <2>1 DEF Evaluate, TypeOK
  <2>3. written' \in 0..(Len(responses') * Len(OutputKinds))
    <3>1. written' = 0
      BY <1>8 DEF Evaluate, InStep
    <3>2. Len(OutputKinds) \in {1, 2} /\ Len(responses') \in Nat
      BY <2>2, KindsAre DEF TypeOK
    <3> QED BY <3>1, <3>2
  <2> QED BY <1>8, <2>1, <2>2, <2>3 DEF Evaluate, search, TypeOK, Response, OutputKinds
<1>9. CASE EvaluateFails
  BY <1>9 DEF EvaluateFails, search, TypeOK, Response, OutputKinds
<1>10. CASE FileOver
  BY <1>10 DEF FileOver, search, TypeOK, Response, OutputKinds
<1>11. CASE ListOver
  BY <1>11 DEF ListOver, search, TypeOK, Response, OutputKinds
<1>12. CASE ReadNull
  BY <1>12 DEF ReadNull, search, TypeOK, Response, OutputKinds
<1>13. CASE PrintFile
  <2>1. NextResponse \in Response
    BY <1>13, NextIs DEF PrintFile, TypeOK
  <2>2. written' \in 0..(Len(responses) * Len(OutputKinds))
    BY <1>13 DEF PrintFile, TypeOK, AllWritten
  <2>3. out' \in [Kinds \X Sncls -> Response \cup {None, Partial}]
    BY <1>13, <2>1 DEF PrintFile, TypeOK
  <2> QED BY <1>13, <2>2, <2>3 DEF PrintFile, search, TypeOK, Response, OutputKinds
<1>14. CASE PrintFails
  <2>1. out' \in [Kinds \X Sncls -> Response \cup {None, Partial}]
    BY <1>14 DEF PrintFails, TypeOK
  <2> QED BY <1>14, <2>1 DEF PrintFails, search, TypeOK, Response, OutputKinds
<1>15. CASE Finish
  BY <1>15 DEF Finish, search, TypeOK, Response, OutputKinds
<1>16. CASE UNCHANGED vars
  BY <1>16 DEF vars, TypeOK, Response, OutputKinds
<1> QED BY <1>1, <1>2, <1>3, <1>4, <1>5, <1>6, <1>7, <1>8, <1>9, <1>10, <1>11, <1>12, <1>13,
           <1>14, <1>15, <1>16 DEF Next

(* ... the order of the phases of a call ...                               *)
LEMMA OrderStep ==
  ASSUME CwdInv, [Next]_vars
  PROVE  Order'
<1> USE DEF CwdInv, Order, Searching
<1>1. CASE Start
  <2>1. world.source \in {"stdin", "named", "dir", "missing", "cwd"}
    BY WorldIs DEF TypeOK
  <2>2. status = "OK" /\ mode' \in {"stdin", "named", "dir", "cwd"}
    BY <1>1, <2>1 DEF Start, ModesOf, TypeOK
  <2> QED BY <1>1, <2>2 DEF Start
<1>2. CASE FindFiles
  BY <1>2 DEF FindFiles
<1>3. CASE FilesFound
  BY <1>3 DEF FilesFound, search
<1>4. CASE StartRound
  BY <1>4 DEF StartRound, search
<1>5. CASE RoundsOver
  BY <1>5 DEF RoundsOver, search
<1>6. CASE ReadFile
  BY <1>6 DEF ReadFile, search
<1>7. CASE ReadFails
  BY <1>7 DEF ReadFails, search
<1>8. CASE Evaluate
  BY <1>8 DEF Evaluate, search
<1>9. CASE EvaluateFails
  BY <1>9 DEF EvaluateFails, search
<1>10. CASE FileOver
  BY <1>10 DEF FileOver, search
<1>11. CASE ListOver
  <2>1. mode \notin {"stdin", "named"} => Searching
    BY <1>11 DEF ListOver, TypeOK
  <2> QED BY <1>11, <2>1 DEF ListOver, search
<1>12. CASE ReadNull
  BY <1>12 DEF ReadNull, search
<1>13. CASE PrintFile
  BY <1>13 DEF PrintFile, search
<1>14. CASE PrintFails
  BY <1>14 DEF PrintFails, search
<1>15. CASE Finish
  BY <1>15 DEF Finish, search
<1>16. CASE UNCHANGED vars
  BY <1>16 DEF vars
<1> QED BY <1>1, <1>2, <1>3, <1>4, <1>5, <1>6, <1>7, <1>8, <1>9, <1>10, <1>11, <1>12, <1>13,
           <1>14, <1>15, <1>16 DEF Next

(* ... and the lists of files that were found.                             *)
LEMMA ListsStep ==
  ASSUME CwdInv, [Next]_vars
  PROVE  ListsFound'
<1> USE DEF CwdInv
<1>1. CASE Start
  <2>1. lists' = <<>>
    BY <1>1 DEF Start, Order
  <2> QED BY <2>1 DEF ListsFound
<1>2. CASE FindFiles
  <2>1. world' = world /\ mode' = mode
    BY <1>2 DEF FindFiles
  <2>2. \A r : Found(r)' = Found(r)
    BY <2>1, FoundStays
  <2>3. lists' = Append(lists, Found(world.requests[Len(lists) + 1]))
    BY <1>2 DEF FindFiles
  <2>4. Found(world.requests[Len(lists) + 1]) \in Seq(DOMAIN world.disk)
    BY FoundIs DEF TypeOK
  <2>5. DOMAIN lists' = 1..(Len(lists) + 1) /\ DOMAIN lists = 1..Len(lists) /\ Len(lists) \in Nat
    BY <2>3, <2>4 DEF TypeOK
  <2>6. ASSUME NEW q \in DOMAIN lists' PROVE lists'[q] = Found(world.requests[q])
    <3>1. CASE q = Len(lists) + 1
      BY <2>3, <2>4, <3>1 DEF TypeOK
    <3>2. CASE q # Len(lists) + 1
      <4>1. q \in DOMAIN lists
        BY <2>5, <2>6, <3>2
      <4>2. lists'[q] = lists[q]
        BY <2>3, <2>4, <2>5, <4>1 DEF TypeOK
      <4> QED BY <4>1, <4>2 DEF ListsFound
    <3> QED BY <3>1, <3>2
  <2> QED BY <2>1, <2>2, <2>6 DEF ListsFound
<1>3. CASE ~ Start /\ ~ FindFiles
  <2>1. world' = world /\ mode' = mode /\ lists' = lists
    BY <1>3 DEF Next, vars, search, FilesFound, StartRound, RoundsOver, ReadFile, ReadFails, Evaluate,
      EvaluateFails, FileOver, ListOver, ReadNull, PrintFile, PrintFails, Finish
  <2>2. \A r : Found(r)' = Found(r)
    BY <2>1, FoundStays
  <2> QED BY <2>1, <2>2 DEF ListsFound
<1> QED BY <1>1, <1>2, <1>3

-----------------------------------------------------------------------------
(* What should have been read so far depends on the place in the lists     *)
(* alone, ...                                                              *)
LEMMA ReadSoFarStays ==
  ASSUME UNCHANGED <<world, mode, lists, round, file, todo, responses>>
  PROVE  ReadSoFar' = ReadSoFar
<1>1. \A fs : Flat(fs)' = Flat(fs)
  BY FlatStays
<1>2. Begun' = Begun
  BY DEF Begun, Rounds
<1> QED BY <1>1, <1>2 DEF ReadSoFar

(* ... and that all is read on the responses besides.                      *)
LEMMA AllIsReadStays ==
  ASSUME UNCHANGED <<world, mode, lists, responses>>
  PROVE  AllIsRead' = AllIsRead
<1>1. \A fs : Flat(fs)' = Flat(fs)
  BY FlatStays
<1>2. AllRead' = AllRead
  BY DEF AllRead, ListOfRound
<1> QED BY <1>1, <1>2 DEF AllIsRead

(* When reading is over, all is read.                                      *)
LEMMA ReadingOver ==
  ASSUME CwdInv, pc \in {"round", "open"}, file = <<>>,
         pc = "round" => round > Len(world.requests), pc = "open" => ~ Searching
  PROVE  AllIsRead
<1>1. AllRead = Begun
  BY BegunIs DEF CwdInv
<1>2. PICK done \in Seq(DOMAIN world.disk) : Begun = done \o file /\ responses \o todo = Flat(done)
  BY DEF CwdInv, InStep, Reading, ReadSoFar
<1>3. Begun = done
  BY <1>2
<1>4. responses = Flat(done)
  <2>1. todo = <<>> /\ responses \in Seq(Response)
    BY DEF CwdInv, Order, TypeOK
  <2> QED BY <1>2, <2>1
<1> QED BY <1>1, <1>3, <1>4 DEF AllIsRead

(* Only the last file that is written is ever cut short.                   *)
LEMMA NoneCutShort ==
  ASSUME CwdInv, pc # "done"
  PROVE  \A k \in DOMAIN out : out[k] # Partial
<1>1. SUFFICES ASSUME NEW k \in DOMAIN out PROVE out[k] # Partial
  OBVIOUS
<1>2. k \in Kinds \X Sncls
  BY DEF CwdInv, TypeOK
<1>3. out[k] = None \/ \E i \in DOMAIN responses : out[k] = responses[i]
  BY <1>2 DEF CwdInv, OutputsLatest, HoldsLatest, CutShort, WrittenTo
<1>4. \A i \in DOMAIN responses : responses[i] # Partial
  <2>1. \A i \in DOMAIN responses : responses[i] \in Response
    BY DEF CwdInv, TypeOK
  <2>2. 0 \notin DOMAIN world.disk
    BY WorldIs DEF CwdInv, TypeOK
  <2>3. \A i \in DOMAIN responses : responses[i].file # 0
    BY <2>1, <2>2 DEF Response
  <2> QED BY <2>3 DEF Partial
<1>5. None # Partial
  <2>1. None.at # Partial.at
    BY DEF None, Partial
  <2> QED BY <2>1
<1> QED BY <1>3, <1>4, <1>5

(* Every step keeps what is read in step with what was found.              *)
LEMMA InStepStep ==
  ASSUME CwdInv, [Next]_vars
  PROVE  InStep'
<1> USE DEF CwdInv, Order, Reading, Searching
<1>0. Flat(<<>>)' = <<>>
  <2>1. [q \in DOMAIN <<>> |-> Selected(<<>>[q])'] = <<>>
    OBVIOUS
  <2> QED BY <2>1, FlattenEmpty DEF Flat
<1>a. Rounds(0)' = <<>>
  <2>1. [q \in 1..0 |-> lists'[1]] = <<>>
    OBVIOUS
  <2> QED BY <2>1, FlattenEmpty DEF Rounds
<1>b. \A k \in DOMAIN out : pc # "done" => out[k] # Partial
  BY NoneCutShort
<1>1. CASE Start
  <2>1. todo' = <<>> /\ responses' = <<>> /\ written' = 0 /\ round' = 1 /\ out' = out
    BY <1>1 DEF Start, InStep
  <2>2. Begun' = file'
    <3>1. CASE mode' \in {"stdin", "named"}
      BY <1>1, <3>1 DEF Start, Begun
    <3>2. CASE mode' \notin {"stdin", "named"}
      BY <1>1, <1>a, <2>1, <3>2 DEF Start, Begun
    <3> QED BY <3>1, <3>2
  <2>3. file' \in Seq(Nat)
    BY CwdTypeStep DEF TypeOK
  <2>4. ReadSoFar'
    <3>1. <<>> \in Seq(DOMAIN world'.disk) /\ Begun' = <<>> \o file'
      BY <2>2, <2>3
    <3>2. responses' \o todo' = Flat(<<>>)'
      BY <1>0, <2>1
    <3> QED BY <3>1, <3>2 DEF ReadSoFar
  <2>5. pc' \notin {"write", "done"}
    BY <1>1 DEF Start
  <2> QED BY <2>1, <2>4, <2>5 DEF InStep, CutShort
<1>2. CASE FindFiles
  <2>1. /\ todo' = <<>> /\ responses' = <<>> /\ written' = 0 /\ round' = 1 /\ file' = <<>>
        /\ pc' = "find" /\ mode' \notin {"stdin", "named"}
    BY <1>2 DEF FindFiles, InStep
  <2>2. ReadSoFar'
    <3>1. <<>> \in Seq(DOMAIN world'.disk) /\ Begun' = <<>> \o file'
      BY <1>a, <2>1 DEF Begun
    <3>2. responses' \o todo' = Flat(<<>>)'
      BY <1>0, <2>1
    <3> QED BY <3>1, <3>2 DEF ReadSoFar
  <2> QED BY <2>1, <2>2 DEF InStep, CutShort
<1>3. CASE FilesFound
  <2>1. ReadSoFar' = ReadSoFar
    BY <1>3, ReadSoFarStays DEF FilesFound, search
  <2> QED BY <1>3, <2>1 DEF FilesFound, InStep, CutShort
<1>4. CASE StartRound
  <2>1. PICK done \in Seq(DOMAIN world.disk) :
          Begun = done \o file /\ responses \o todo = Flat(done)
    BY <1>4 DEF StartRound, InStep, ReadSoFar
  <2>2. file = <<>> /\ Begun = Rounds(round - 1) /\ round \in Nat \ {0}
    BY <1>4, WorldIs DEF StartRound, Begun, TypeOK
  <2>3. done = Rounds(round - 1)
    BY <2>1, <2>2
  <2>4. Rounds((round - 1) + 1) = Rounds(round - 1) \o lists[1]
    <3>1. lists \in Seq(Seq(DOMAIN world.disk)) /\ lists # <<>>
      BY <1>4, WorldIs DEF StartRound, TypeOK
    <3>2. round - 1 \in Nat
      BY <2>2
    <3> QED BY <3>1, <3>2, RoundsIs
  <2>5. Begun' = Rounds(round)
    <3>1. round' - 1 = round /\ lists' = lists /\ mode' \notin {"stdin", "named"}
      BY <1>4, <2>2 DEF StartRound, search
    <3> QED BY <3>1 DEF Begun, Rounds
  <2>6. Begun' = done \o file'
    <3>1. (round - 1) + 1 = round /\ file' = lists[1]
      BY <1>4, <2>2 DEF StartRound, ListOfRound
    <3> QED BY <2>3, <2>4, <2>5, <3>1
  <2>7. responses' \o todo' = Flat(done)'
    <3>1. Flat(done)' = Flat(done)
      BY <1>4, FlatStays DEF StartRound
    <3> QED BY <1>4, <2>1, <3>1 DEF StartRound
  <2>8. ReadSoFar'
    BY <1>4, <2>6, <2>7 DEF StartRound, ReadSoFar
  <2> QED BY <1>4, <2>8 DEF StartRound, InStep, CutShort
<1>5. CASE RoundsOver
  <2>1. AllIsRead' = AllIsRead
    BY <1>5, AllIsReadStays DEF RoundsOver, search
  <2>2. AllIsRead
    BY <1>5, ReadingOver DEF RoundsOver
  <2> QED BY <1>5, <2>1, <2>2 DEF RoundsOver, InStep, CutShort
<1>6. CASE ReadFile
  <2> DEFINE f == Head(file)
  <2>1. PICK done \in Seq(DOMAIN world.disk) :
          Begun = done \o file /\ responses \o todo = Flat(done)
    BY <1>6 DEF ReadFile, InStep, ReadSoFar
  <2>2. /\ file \in Seq(Nat) /\ file # <<>> /\ f \in DOMAIN world.disk /\ done \in Seq(Nat)
        /\ DOMAIN world.disk \subseteq Nat
    <3>1. DOMAIN world.disk \subseteq Nat
      <4>1. world \in Worlds
        BY DEF TypeOK
      <4> QED BY <4>1, WorldIs
    <3>2. done \in Seq(Nat)
      BY <3>1, SeqMonotonic
    <3> QED BY <1>6, <3>1, <3>2 DEF ReadFile, TypeOK
  <2>3. PICK read \in Seq(DOMAIN world.disk) : read = Append(done, f)
    <3>1. Append(done, f) \in Seq(DOMAIN world.disk)
      BY <2>2
    <3> QED BY <3>1
  <2>4. done \o file = read \o Tail(file)
    <3> DEFINE a == done \o file  b == Append(done, f) \o Tail(file)
    <3>1. a \in Seq(Nat) /\ b \in Seq(Nat) /\ Len(a) = Len(b)
      BY <2>2
    <3>2. \A q \in 1..Len(a) : a[q] = b[q]
      BY <2>2
    <3> HIDE DEF a, b
    <3>3. a = b
      BY <3>1, <3>2, SeqEqual
    <3> QED BY <2>3, <3>3 DEF a, b
  <2>5. Flat(read) = Flat(done) \o Selected(f)
    BY <2>2, <2>3, FlatIs DEF TypeOK
  <2>6. responses = Flat(done)
    <3>1. todo = <<>> /\ responses \in Seq(Response)
      BY <1>6 DEF ReadFile, TypeOK
    <3> QED BY <2>1, <3>1
  <2>7. Begun' = read \o file'
    BY <1>6, <2>1, <2>4 DEF ReadFile, search, Begun, Rounds
  <2>8. responses' \o todo' = Flat(read)'
    <3>1. Flat(read)' = Flat(read)
      BY <1>6, FlatStays DEF ReadFile
    <3> QED BY <1>6, <2>5, <2>6, <3>1 DEF ReadFile
  <2>9. ReadSoFar'
    BY <1>6, <2>7, <2>8 DEF ReadFile, ReadSoFar
  <2> QED BY <1>6, <2>9 DEF ReadFile, InStep, CutShort
<1>7. CASE ReadFails
  BY <1>7, <1>b DEF ReadFails, InStep, CutShort
<1>8. CASE Evaluate
  <2>1. PICK done \in Seq(DOMAIN world.disk) :
          Begun = done \o file /\ responses \o todo = Flat(done)
    BY <1>8 DEF Evaluate, InStep, ReadSoFar
  <2>2. Begun' = Begun
    BY <1>8 DEF Evaluate, search, Begun, Rounds
  <2>3. Flat(done)' = Flat(done)
    BY <1>8, FlatStays DEF Evaluate
  <2>4. Append(responses, Head(todo)) \o Tail(todo) = responses \o todo
    <3> DEFINE a == responses \o todo  b == Append(responses, Head(todo)) \o Tail(todo)
    <3>0. responses \in Seq(Response) /\ todo \in Seq(Response) /\ todo # <<>>
      BY <1>8 DEF Evaluate, TypeOK
    <3>1. a \in Seq(Response) /\ b \in Seq(Response) /\ Len(a) = Len(b)
      BY <3>0
    <3>2. \A q \in 1..Len(a) : a[q] = b[q]
      BY <3>0
    <3> HIDE DEF a, b
    <3>3. a = b
      BY <3>1, <3>2, SeqEqual
    <3> QED BY <3>3 DEF a, b
  <2>5. ReadSoFar'
    BY <1>8, <2>1, <2>2, <2>3, <2>4 DEF Evaluate, ReadSoFar
  <2> QED BY <1>8, <2>5 DEF Evaluate, InStep, CutShort
<1>9. CASE EvaluateFails
  BY <1>9, <1>b DEF EvaluateFails, InStep, CutShort
<1>10. CASE FileOver
  <2>1. ReadSoFar' = ReadSoFar
    BY <1>10, ReadSoFarStays DEF FileOver, search
  <2> QED BY <1>10, <2>1 DEF FileOver, InStep, CutShort
<1>11. CASE ListOver
  <2>1. ReadSoFar' = ReadSoFar
    BY <1>11, ReadSoFarStays DEF ListOver, search
  <2>2. AllIsRead' = AllIsRead
    BY <1>11, AllIsReadStays DEF ListOver, search
  <2>3. mode \in {"stdin", "named"} => AllIsRead
    BY <1>11, ReadingOver DEF ListOver
  <2> QED BY <1>11, <2>1, <2>2, <2>3 DEF ListOver, InStep, CutShort
<1>12. CASE ReadNull
  <2>1. written = 0
    BY <1>12 DEF ReadNull, InStep
  <2> QED BY <1>12, <2>1 DEF ReadNull, InStep, CutShort
<1>13. CASE PrintFile
  <2>1. AllIsRead' = AllIsRead
    BY <1>13, AllIsReadStays DEF PrintFile, search
  <2> QED BY <1>13, <2>1 DEF PrintFile, InStep, CutShort
<1>14. CASE PrintFails
  <2>1. AllIsRead' = AllIsRead
    BY <1>14, AllIsReadStays DEF PrintFails, search
  <2> QED BY <1>14, <2>1 DEF PrintFails, InStep, CutShort
<1>15. CASE Finish
  <2>1. AllIsRead' = AllIsRead
    BY <1>15, AllIsReadStays DEF Finish, search
  <2> QED BY <1>15, <2>1 DEF Finish, search, InStep, CutShort, AllWritten, OutputKinds
<1>16. CASE UNCHANGED vars
  <2>1. AllIsRead' = AllIsRead
    BY <1>16, AllIsReadStays DEF vars
  <2>2. ReadSoFar' = ReadSoFar
    BY <1>16, ReadSoFarStays DEF vars
  <2> QED BY <1>16, <2>1, <2>2 DEF vars, InStep, CutShort, AllWritten, OutputKinds
<1> QED BY <1>1, <1>2, <1>3, <1>4, <1>5, <1>6, <1>7, <1>8, <1>9, <1>10, <1>11, <1>12, <1>13,
           <1>14, <1>15, <1>16 DEF Next

-----------------------------------------------------------------------------
(* Before the first file is written none is.                               *)
LEMMA NothingWritten ==
  ASSUME TypeOK, written = 0, NEW k
  PROVE  WrittenTo(k) = {}
<1>1. Len(OutputKinds) \in {1, 2} /\ DOMAIN OutputKinds = 1..Len(OutputKinds)
  BY KindsAre DEF TypeOK
<1>2. DOMAIN responses \subseteq Nat \ {0}
  BY DEF TypeOK
<1>3. \A i \in Nat \ {0}, j \in 1..2, K \in {1, 2} : ~ ((i - 1) * K + j <= 0)
  OBVIOUS
<1> QED BY <1>1, <1>2, <1>3 DEF WrittenTo

(* Until the writing starts, no output file is there.                      *)
LEMMA OutputsNone ==
  ASSUME CwdInv, pc \notin {"write", "done"}
  PROVE  \A k \in Kinds \X Sncls : out[k] = None
<1>1. TypeOK /\ written = 0
  BY DEF CwdInv, InStep
<1>2. \A k : WrittenTo(k) = {}
  BY <1>1, NothingWritten
<1> QED BY <1>2 DEF CwdInv, OutputsLatest, HoldsLatest, CutShort

(* Steps before writing leave all outputs as they are.                     *)
LEMMA OutputsStayNone ==
  ASSUME CwdInv, TypeOK', written' = 0, out' = out, world' = world, pc \notin {"write", "done"}
  PROVE  OutputsLatest'
<1>1. \A k \in Kinds \X Sncls : out'[k] = None
  BY OutputsNone
<1>2. OutputKinds' = OutputKinds
  BY DEF OutputKinds
<1>3. Len(OutputKinds) \in {1, 2} /\ DOMAIN OutputKinds = 1..Len(OutputKinds)
  BY KindsAre DEF CwdInv, TypeOK
<1>4. DOMAIN responses' \subseteq Nat \ {0}
  BY DEF TypeOK
<1>5. \A i \in Nat \ {0}, j \in 1..2, K \in {1, 2} : ~ ((i - 1) * K + j <= 0)
  OBVIOUS
<1>6. \A k : WrittenTo(k)' = {}
  BY <1>2, <1>3, <1>4, <1>5 DEF WrittenTo
<1> QED BY <1>1, <1>6 DEF OutputsLatest, HoldsLatest

(* A file that is written holds the latest of the responses written to it, *)
(* ...                                                                     *)
LEMMA PrintedIs ==
  ASSUME CwdInv, PrintFile
  PROVE  OutputsLatest'
<1> USE DEF CwdInv
<1> DEFINE K == Len(OutputKinds)
<1>1. PICK i \in DOMAIN responses, j \in DOMAIN OutputKinds :
        /\ (i - 1) * K + j = written + 1
        /\ NextResponse = responses[i]
        /\ NextOutput = <<OutputKinds[j], Sncl(responses[i])>>
  BY NextIs DEF PrintFile
<1>2. /\ world' = world /\ responses' = responses /\ mode' = mode /\ written' = written + 1
      /\ pc = "write" /\ pc' = "write"
  BY DEF PrintFile, search
<1>3. /\ K \in {1, 2} /\ DOMAIN OutputKinds = 1..K /\ OutputKinds[j] \in Kinds
      /\ OutputKinds' = OutputKinds
  BY <1>2, KindsAre DEF TypeOK, OutputKinds
<1>4. DOMAIN responses = 1..Len(responses) /\ Len(responses) \in Nat /\ written \in Nat
  BY <1>3 DEF TypeOK
<1>5. Sncl(responses[i]) \in Sncls
  <2>1. AllIsRead
    BY <1>2 DEF InStep
  <2>2. PICK fs \in Seq(DOMAIN world.disk) : responses = Flat(fs)
    BY <2>1 DEF AllIsRead
  <2>3. \A q \in 1..Len(Flat(fs)) : Sncl(Flat(fs)[q]) \in Sncls
    BY FlatHas DEF TypeOK
  <2> QED BY <1>1, <1>4, <2>2, <2>3
<1>6. NextOutput \in DOMAIN out
  BY <1>1, <1>3, <1>5 DEF TypeOK
<1>7. \A p \in DOMAIN responses, q \in DOMAIN OutputKinds :
        (p - 1) * K + q <= written + 1 =>
          p <= i /\ ((p - 1) * K + q <= written \/ (p = i /\ q = j))
  <2> HIDE DEF K
  <2>1. CASE K = 1
    BY <1>1, <1>3, <1>4, <2>1
  <2>2. CASE K = 2
    BY <1>1, <1>3, <1>4, <2>2
  <2> QED BY <1>3, <2>1, <2>2
<1>8. \A p \in DOMAIN responses : Sncl(responses[p])' = Sncl(responses[p])
  BY <1>2 DEF Sncl
<1>9. ASSUME NEW k \in Kinds \X Sncls
      PROVE  IF mode' = "stdin" THEN out'[k] = None ELSE HoldsLatest(k)'
  <2>1. CASE mode = "stdin"
    BY <1>2, <2>1 DEF PrintFile, OutputsLatest
  <2>2. CASE mode # "stdin" /\ k = NextOutput
    <3>1. out'[k] = responses[i]
      BY <1>1, <1>6, <2>2 DEF PrintFile, TypeOK
    <3>2. i \in WrittenTo(k)'
      <4>1. k[1] = OutputKinds[j] /\ k[2] = Sncl(responses[i])
        BY <1>1, <2>2
      <4>2. (i - 1) * K + j <= written'
        BY <1>1, <1>2, <1>4
      <4> QED BY <1>1, <1>2, <1>3, <1>8, <4>1, <4>2 DEF WrittenTo
    <3>3. \A p \in WrittenTo(k)' : p <= i
      BY <1>2, <1>3, <1>7 DEF WrittenTo
    <3> QED BY <1>2, <2>2, <3>1, <3>2, <3>3 DEF HoldsLatest
  <2>3. CASE mode # "stdin" /\ k # NextOutput
    <3>1. out'[k] = out[k]
      BY <2>3 DEF PrintFile, TypeOK
    <3>2. WrittenTo(k)' = WrittenTo(k)
      <4>1. \A p \in DOMAIN responses, q \in DOMAIN OutputKinds :
              Sncl(responses[p]) = k[2] /\ OutputKinds[q] = k[1] => ~ (p = i /\ q = j)
        <5>1. k = <<k[1], k[2]>>
          OBVIOUS
        <5> QED BY <1>1, <2>3, <5>1
      <4>2. \A p \in DOMAIN responses, q \in DOMAIN OutputKinds :
              Sncl(responses[p]) = k[2] /\ OutputKinds[q] = k[1] =>
                ((p - 1) * K + q <= written + 1 <=> (p - 1) * K + q <= written)
        <5>1. \A p \in DOMAIN responses, q \in DOMAIN OutputKinds :
                (p - 1) * K + q <= written => (p - 1) * K + q <= written + 1
          <6>1. \A p \in DOMAIN responses, q \in DOMAIN OutputKinds : (p - 1) * K + q \in Int
            BY <1>3, <1>4
          <6>2. \A x \in Int : x <= written => x <= written + 1
            BY <1>4
          <6> QED BY <6>1, <6>2
        <5> QED BY <1>7, <4>1, <5>1
      <4> QED BY <1>2, <1>3, <1>8, <4>2 DEF WrittenTo
    <3>3. HoldsLatest(k)
      BY <1>2, <2>3 DEF OutputsLatest, CutShort
    <3> QED BY <1>2, <2>3, <3>1, <3>2, <3>3 DEF HoldsLatest
  <2> QED BY <2>1, <2>2, <2>3
<1> QED BY <1>9 DEF OutputsLatest

(* ... and every step keeps that.                                          *)
LEMMA OutputsStep ==
  ASSUME CwdInv, [Next]_vars
  PROVE  OutputsLatest'
<1> USE DEF CwdInv
<1>1. TypeOK'
  BY CwdTypeStep
<1>2. CASE Start \/ FindFiles \/ FilesFound \/ StartRound \/ RoundsOver \/ ReadFile \/ ReadFails
             \/ Evaluate \/ EvaluateFails \/ FileOver \/ ListOver
  <2>1. world' = world /\ out' = out /\ written' = written /\ pc \notin {"write", "done"}
    BY <1>2 DEF Start, FindFiles, search, FilesFound, StartRound, RoundsOver, ReadFile, ReadFails, Evaluate,
      EvaluateFails, FileOver, ListOver
  <2>2. written = 0
    BY <2>1 DEF InStep
  <2> QED BY <1>1, <2>1, <2>2, OutputsStayNone
<1>3. CASE PrintFile
  BY <1>3, PrintedIs
<1>4. CASE PrintFails
  <2>1. /\ world' = world /\ responses' = responses /\ mode' = mode /\ written' = written
        /\ pc = "write" /\ pc' = "done" /\ status' = "ERROR"
    BY <1>4 DEF PrintFails, search
  <2>2. \A k : WrittenTo(k)' = WrittenTo(k)
    BY <2>1 DEF WrittenTo, Sncl, OutputKinds
  <2>3. ASSUME NEW k \in Kinds \X Sncls
        PROVE  out'[k] = out[k] \/ (mode # "stdin" /\ out'[k] = Partial)
    BY <1>4, <2>3 DEF PrintFails, TypeOK
  <2> QED BY <2>1, <2>2, <2>3 DEF OutputsLatest, HoldsLatest, CutShort
<1>5. CASE ReadNull \/ Finish
  <2>1. /\ world' = world /\ responses' = responses /\ mode' = mode /\ written' = written
        /\ pc = "write" /\ out' = out
    BY <1>5 DEF ReadNull, Finish, search
  <2>2. \A k : WrittenTo(k)' = WrittenTo(k)
    BY <2>1 DEF WrittenTo, Sncl, OutputKinds
  <2> QED BY <2>1, <2>2 DEF OutputsLatest, HoldsLatest, CutShort
<1>6. CASE UNCHANGED vars
  <2>1. \A k : WrittenTo(k)' = WrittenTo(k)
    BY <1>6 DEF WrittenTo, Sncl, OutputKinds, vars
  <2> QED BY <1>6, <2>1 DEF OutputsLatest, HoldsLatest, CutShort, vars
<1> QED BY <1>2, <1>3, <1>4, <1>5, <1>6 DEF Next

-----------------------------------------------------------------------------
(* The invariant holds when the driver is called.                          *)
LEMMA CwdInvInit == Init => CwdInv
<1> SUFFICES ASSUME Init PROVE CwdInv
  OBVIOUS
<1>1. TypeOK
  <2>1. Len(OutputKinds) \in {1, 2} /\ Len(world.requests) \in Nat
    BY KindsAre, WorldIs DEF Init
  <2>2. written \in 0..(Len(responses) * Len(OutputKinds))
    BY <2>1 DEF Init
  <2>3. lists \in Seq(Seq(DOMAIN world.disk)) /\ Len(lists) <= Len(world.requests)
    BY <2>1 DEF Init
  <2>4. round \in 1..(Len(world.requests) + 1)
    BY <2>1 DEF Init
  <2>5. out \in [Kinds \X Sncls -> Response \cup {None, Partial}]
    BY DEF Init
  <2>6. file \in Seq(Nat) /\ todo \in Seq(Response) /\ responses \in Seq(Response)
    BY DEF Init
  <2> QED BY <2>2, <2>3, <2>4, <2>5, <2>6 DEF Init, TypeOK
<1>2. Order /\ ListsFound
  BY DEF Init, Order, ListsFound, Searching
<1>3. ReadSoFar
  <2>1. <<>> \in Seq(DOMAIN world.disk)
    OBVIOUS
  <2>2. Begun = <<>>
    <3>1. round - 1 = 0 /\ mode = "none"
      BY DEF Init
    <3>2. [q \in 1..0 |-> lists[1]] = <<>>
      OBVIOUS
    <3> QED BY <3>1, <3>2, FlattenEmpty DEF Begun, Rounds
  <2>3. Begun = <<>> \o file /\ responses \o todo = Flat(<<>>)
    BY <2>2, FlatEmpty DEF Init
  <2> QED BY <2>1, <2>3 DEF ReadSoFar
<1>4. InStep
  BY <1>3 DEF Init, InStep, CutShort
<1>5. OutputsLatest
  <2>1. \A k : WrittenTo(k) = {}
    BY <1>1, NothingWritten DEF Init
  <2> QED BY <2>1 DEF Init, OutputsLatest, HoldsLatest
<1> QED BY <1>1, <1>2, <1>4, <1>5 DEF CwdInv

(* What is read, found and written stays in step in every behaviour of the  *)
(* driver, for all requests, directories and failures.                     *)
THEOREM CwdInvariance == Spec => []CwdInv
<1>1. CwdInv /\ [Next]_vars => CwdInv'
  BY CwdTypeStep, OrderStep, ListsStep, InStepStep, OutputsStep DEF CwdInv
<1> QED BY CwdInvInit, <1>1, PTL DEF Spec

(* NothingWrittenTooEarly follows from the invariant, ...                  *)
LEMMA TooEarly ==
  ASSUME CwdInv
  PROVE  NothingWrittenTooEarly
<1>1. SUFFICES ASSUME NEW k \in DOMAIN out, out[k] # None PROVE responses = Flat(AllRead)
  BY DEF NothingWrittenTooEarly, Flat
<1>2. k \in Kinds \X Sncls
  BY DEF CwdInv, TypeOK
<1>3. CASE CutShort(k)
  BY <1>3 DEF CwdInv, InStep, AllIsRead
<1>4. CASE ~ CutShort(k)
  <2>1. WrittenTo(k) # {}
    BY <1>1, <1>2, <1>4 DEF CwdInv, OutputsLatest, HoldsLatest
  <2>2. written # 0
    BY <2>1, NothingWritten DEF CwdInv
  <2> QED BY <2>2 DEF CwdInv, InStep, AllIsRead
<1> QED BY <1>3, <1>4

(* ... PhaseHasItsAmplitude does, ...                                      *)
LEMMA PhaseWithAmplitude ==
  ASSUME CwdInv
  PROVE  PhaseHasItsAmplitude
<1> USE DEF CwdInv
<1>1. SUFFICES ASSUME world.format = "ap", NEW s \in Sncls
      PROVE  /\ out[<<"PHASE", s>>] \notin {None, Partial} => out[<<"AMP", s>>] # None
             /\ pc = "done" /\ status = "OK" => out[<<"AMP", s>>] = out[<<"PHASE", s>>]
  BY DEF PhaseHasItsAmplitude
<1> DEFINE a == <<"AMP", s>>
           p == <<"PHASE", s>>
<1>2. a \in Kinds \X Sncls /\ p \in Kinds \X Sncls /\ a[1] = "AMP" /\ p[1] = "PHASE"
        /\ a[2] = s /\ p[2] = s
  BY DEF Kinds
<1>3. OutputKinds = <<"AMP", "PHASE">>
  BY <1>1 DEF OutputKinds
<1>4. /\ Len(OutputKinds) = 2 /\ DOMAIN OutputKinds = {1, 2}
      /\ OutputKinds[1] = "AMP" /\ OutputKinds[2] = "PHASE"
  BY <1>3
<1>5. /\ WrittenTo(a) = {i \in DOMAIN responses : Sncl(responses[i]) = s /\ (i - 1) * 2 + 1 <= written}
      /\ WrittenTo(p) = {i \in DOMAIN responses : Sncl(responses[i]) = s /\ (i - 1) * 2 + 2 <= written}
  BY <1>2, <1>4 DEF WrittenTo
<1>6. DOMAIN responses = 1..Len(responses) /\ Len(responses) \in Nat /\ written \in Nat
  BY <1>4 DEF TypeOK
<1>7. WrittenTo(p) \subseteq WrittenTo(a)
  BY <1>5, <1>6
<1> HIDE DEF a, p
<1>8. ASSUME out[p] \notin {None, Partial} PROVE out[a] # None
  <2>1. WrittenTo(p) # {}
    BY <1>2, <1>8 DEF OutputsLatest, HoldsLatest, CutShort
  <2>2. WrittenTo(a) # {} /\ mode # "stdin"
    BY <1>2, <1>7, <1>8, <2>1 DEF OutputsLatest
  <2>3. CASE CutShort(a)
    BY <2>3 DEF CutShort, None, Partial
  <2>4. CASE ~ CutShort(a)
    <3>1. PICK i \in DOMAIN responses : out[a] = responses[i]
      BY <1>2, <2>2, <2>4 DEF OutputsLatest, HoldsLatest, WrittenTo
    <3>2. responses[i] \in Response
      BY DEF TypeOK
    <3>3. responses[i].file \in DOMAIN world.disk
      BY <3>2 DEF Response
    <3>4. responses[i].file # 0
      BY <3>3, WorldIs DEF TypeOK
    <3> QED BY <3>1, <3>4 DEF None
  <2> QED BY <2>3, <2>4
<1>9. ASSUME pc = "done", status = "OK" PROVE out[a] = out[p]
  <2>1. written = Len(responses) * 2
    BY <1>4, <1>9 DEF InStep, AllWritten
  <2>2. WrittenTo(a) = WrittenTo(p)
    BY <1>5, <1>6, <2>1
  <2>3. CASE mode = "stdin"
    BY <1>2, <2>3 DEF OutputsLatest
  <2>4. CASE mode # "stdin"
    <3>1. HoldsLatest(a) /\ HoldsLatest(p)
      BY <1>2, <1>9, <2>4 DEF OutputsLatest, CutShort
    <3>2. ASSUME NEW i \in WrittenTo(p), NEW q \in WrittenTo(p), i <= q, q <= i PROVE i = q
      BY <1>6, <3>2 DEF WrittenTo
    <3> QED BY <2>2, <3>1, <3>2 DEF HoldsLatest
  <2> QED BY <2>3, <2>4
<1> QED BY <1>8, <1>9 DEF a, p

(* Nothing is written before everything found is read and evaluated, each   *)
(* file once per round and in order, and a phase on disk has its amplitude. *)
THEOREM WrittenInStepHolds == Spec => []WrittenInStep
<1>1. CwdInv => WrittenInStep
  BY TooEarly, PhaseWithAmplitude DEF WrittenInStep
<1> QED BY <1>1, CwdInvariance, PTL

-----------------------------------------------------------------------------
(* Files read from the last name to the first leave responses in that order. *)
LEMMA FlatFalls ==
  ASSUME world \in Worlds, NEW fs \in Seq(DOMAIN world.disk),
         \A p, q \in 1..Len(fs) : p < q => fs[p] > fs[q]
  PROVE  \A i, j \in 1..Len(Flat(fs)) : i < j => Flat(fs)[i].file >= Flat(fs)[j].file
<1> DEFINE ss == [q \in DOMAIN fs |-> Selected(fs[q])]
           R == {ab \in Response \X Response : ab[1].file >= ab[2].file}
<1>1. /\ DOMAIN fs = 1..Len(fs) /\ Len(fs) \in Nat /\ DOMAIN world.disk \subseteq Nat
      /\ \A q \in 1..Len(fs) : fs[q] \in DOMAIN world.disk
  BY WorldIs
<1>2. \A q \in 1..Len(fs) : /\ Selected(fs[q]) \in Seq(Response)
                            /\ \A i \in 1..Len(Selected(fs[q])) : Selected(fs[q])[i].file = fs[q]
  BY <1>1, SelectedIs
<1>3. ss \in Seq(Seq(Response)) /\ Len(ss) = Len(fs)
        /\ \A q \in 1..Len(fs) : ss[q] = Selected(fs[q])
  BY <1>1, <1>2
<1>4. Flat(fs) = FlattenSeq(ss)
  BY DEF Flat
<1> HIDE DEF ss
<1>5. \A q \in 1..Len(ss) : \A i \in 1..Len(ss[q]) :
        ss[q][i] \in Response /\ ss[q][i].file = fs[q] /\ fs[q] \in Nat
  BY <1>1, <1>2, <1>3
<1>6. \A q \in 1..Len(ss) : \A i, j \in 1..Len(ss[q]) : i < j => <<ss[q][i], ss[q][j]>> \in R
  BY <1>5
<1>7. \A p, q \in 1..Len(ss) : p < q =>
        \A i \in 1..Len(ss[p]), j \in 1..Len(ss[q]) : <<ss[p][i], ss[q][j]>> \in R
  <2>1. SUFFICES ASSUME NEW p \in 1..Len(ss), NEW q \in 1..Len(ss), p < q,
                        NEW i \in 1..Len(ss[p]), NEW j \in 1..Len(ss[q])
                 PROVE  <<ss[p][i], ss[q][j]>> \in R
    OBVIOUS
  <2>2. fs[p] > fs[q] /\ fs[p] \in Nat /\ fs[q] \in Nat
    BY <1>1, <1>3, <2>1
  <2>3. fs[p] >= fs[q]
    BY <2>2
  <2> QED BY <1>5, <2>3
<1>8. \A i, j \in 1..Len(FlattenSeq(ss)) :
        i < j => <<FlattenSeq(ss)[i], FlattenSeq(ss)[j]>> \in R
  <2> HIDE DEF R
  <2> QED BY <1>3, <1>6, <1>7, FlattenOrdered
<1> QED BY <1>4, <1>8

(* With one request, what is read is what was found for it.                *)
LEMMA OneRequest ==
  ASSUME CwdInv, AllIsRead, Searching, Len(world.requests) = 1, Len(lists) = 1
  PROVE  /\ lists[1] = Found(world.requests[1]) /\ lists[1] \in Seq(DOMAIN world.disk)
         /\ responses = Flat(lists[1])
<1>1. lists \in Seq(Seq(DOMAIN world.disk))
  BY DEF CwdInv, TypeOK
<1>2. DOMAIN lists = 1..1
  BY <1>1
<1>3. lists # <<>> /\ lists[1] \in Seq(DOMAIN world.disk)
  BY <1>1, <1>2
<1>4. lists[1] = Found(world.requests[1])
  BY <1>2 DEF CwdInv, ListsFound
<1>5. AllRead = Rounds(1)
  BY <1>2 DEF AllRead, Rounds, ListOfRound, Searching
<1>6. Rounds(0 + 1) = Rounds(0) \o lists[1] /\ Rounds(0) = <<>>
  BY <1>1, <1>3, RoundsIs
<1>7. Rounds(1) = lists[1]
  BY <1>3, <1>6
<1> QED BY <1>3, <1>4, <1>5, <1>7 DEF AllIsRead

(* ... and FirstNameWins.                                                  *)
LEMMA FirstNameFound ==
  ASSUME CwdInv
  PROVE  FirstNameWins
<1> USE DEF CwdInv
<1> DEFINE r(k, s) == out[<<k, s>>]
<1>1. SUFFICES ASSUME pc = "done", status = "OK", Searching, Len(world.requests) = 1,
                      NEW s \in Sncls, NEW k \in Range(OutputKinds)
      PROVE  IF Holding(s) = {} THEN r(k, s) = None
             ELSE /\ r(k, s) \notin {None, Partial} /\ Sncl(r(k, s)) = s
                  /\ r(k, s).file \in Holding(s) /\ \A f \in Holding(s) : r(k, s).file <= f
  BY DEF FirstNameWins, Searching
<1> DEFINE fs == lists[1]
           ks == <<k, s>>
<1>2. AllIsRead /\ AllWritten /\ Len(lists) = 1
  BY <1>1 DEF InStep, Order
<1>3. fs = Found(world.requests[1]) /\ fs \in Seq(DOMAIN world.disk) /\ responses = Flat(fs)
  BY <1>1, <1>2, OneRequest
<1>4. /\ \A p, q \in 1..Len(fs) : p < q => fs[p] > fs[q]
      /\ DOMAIN fs = 1..Len(fs) /\ \A q \in 1..Len(fs) : fs[q] \in DOMAIN world.disk
  BY <1>3, FoundIs DEF TypeOK
<1> HIDE DEF fs
<1>5. DOMAIN responses = 1..Len(responses) /\ Len(responses) \in Nat
  BY DEF TypeOK
<1>6. \A i, j \in 1..Len(responses) : i < j => responses[i].file >= responses[j].file
  BY <1>3, <1>4, FlatFalls DEF TypeOK
<1>7. \A x : Contains(responses, x) <=> \E q \in 1..Len(fs) : Contains(Selected(fs[q]), x)
  BY <1>3, FlatHas DEF TypeOK
<1>8. \A i \in 1..Len(responses) : \E q \in 1..Len(fs) :
        responses[i].file = fs[q] /\ Contains(Selected(fs[q]), responses[i])
  BY <1>3, FlatHas DEF TypeOK
<1>9. WrittenTo(ks) = {i \in DOMAIN responses : Sncl(responses[i]) = s}
  <2>1. PICK j \in DOMAIN OutputKinds : OutputKinds[j] = k
    BY DEF Range
  <2>2. Len(OutputKinds) \in {1, 2} /\ DOMAIN OutputKinds = 1..Len(OutputKinds)
    BY KindsAre DEF TypeOK
  <2> DEFINE K == Len(OutputKinds)
  <2>3. ASSUME NEW i \in DOMAIN responses PROVE (i - 1) * K + j <= written
    <3>1. i \in 1..Len(responses) /\ written = Len(responses) * K
      BY <1>2, <1>5 DEF AllWritten
    <3> HIDE DEF K
    <3>2. CASE K = 1
      BY <1>5, <2>2, <3>1, <3>2 DEF K
    <3>3. CASE K = 2
      BY <1>5, <2>2, <3>1, <3>3 DEF K
    <3> QED BY <2>2, <3>2, <3>3 DEF K
  <2> QED BY <2>1, <2>3 DEF WrittenTo
<1>10. ks \in Kinds \X Sncls
  BY KindsAre DEF TypeOK, Range
<1>11. HoldsLatest(ks)
  <2>1. mode # "stdin"
    BY <1>1 DEF Searching
  <2> QED BY <1>1, <1>10, <2>1 DEF OutputsLatest, CutShort
<1>12. Holding(s) = {f \in Range(fs) : \E x : Contains(Selected(f), x) /\ Sncl(x) = s}
  <2>1. ASSUME NEW f \in Range(fs)
        PROVE  (\E q \in DOMAIN Selected(f) : Sncl(Selected(f)[q]) = s)
                 <=> \E x : Contains(Selected(f), x) /\ Sncl(x) = s
    <3>1. f \in DOMAIN world.disk
      BY <1>4 DEF Range
    <3>2. DOMAIN Selected(f) = 1..Len(Selected(f))
      BY <3>1, SelectedIs DEF TypeOK
    <3> QED BY <3>2 DEF Contains
  <2> QED BY <2>1 DEF Holding, fs
<1>13. ASSUME NEW f \in Holding(s) PROVE \E i \in WrittenTo(ks) : responses[i].file = f
  <2>1. PICK x : Contains(Selected(f), x) /\ Sncl(x) = s
    BY <1>12
  <2>2. PICK q \in 1..Len(fs) : fs[q] = f
    BY <1>4, <1>12 DEF Range
  <2>3. PICK i \in 1..Len(responses) : responses[i] = x
    BY <1>7, <2>1, <2>2 DEF Contains
  <2>4. x.file = f
    <3>1. f \in DOMAIN world.disk
      BY <1>4, <2>2
    <3> QED BY <2>1, <3>1, SelectedIs DEF Contains, TypeOK
  <2> QED BY <1>5, <1>9, <2>1, <2>3, <2>4
<1>14. ASSUME NEW i \in WrittenTo(ks) PROVE responses[i].file \in Holding(s)
  <2>1. i \in 1..Len(responses) /\ Sncl(responses[i]) = s
    BY <1>5, <1>9
  <2>2. PICK q \in 1..Len(fs) :
          responses[i].file = fs[q] /\ Contains(Selected(fs[q]), responses[i])
    BY <1>8, <2>1
  <2>3. fs[q] \in Range(fs)
    BY <1>4 DEF Range
  <2> QED BY <1>12, <2>1, <2>2, <2>3
<1>15. CASE Holding(s) = {}
  BY <1>11, <1>14, <1>15 DEF HoldsLatest
<1>16. CASE Holding(s) # {}
  <2>1. WrittenTo(ks) # {}
    BY <1>13, <1>16
  <2>2. PICK i \in WrittenTo(ks) : out[ks] = responses[i] /\ \A p \in WrittenTo(ks) : p <= i
    BY <1>11, <2>1 DEF HoldsLatest
  <2>3. i \in 1..Len(responses) /\ Sncl(responses[i]) = s
    BY <1>5, <1>9
  <2>4. \A p \in 1..Len(responses) : responses[p] \in Response
    BY DEF TypeOK
  <2>5. responses[i] \notin {None, Partial} /\ responses[i].file \in Nat
    BY <2>3, <2>4, ResponseIs DEF TypeOK
  <2>6. ASSUME NEW f \in Holding(s) PROVE responses[i].file <= f
    <3>1. PICK p \in WrittenTo(ks) : responses[p].file = f
      BY <1>13
    <3>2. p \in 1..Len(responses) /\ p <= i
      BY <1>5, <1>9, <2>2
    <3>3. p = i \/ p < i
      BY <1>5, <2>3, <3>2
    <3>4. responses[p].file \in Nat
      BY <2>4, <3>2, ResponseIs DEF TypeOK
    <3>5. CASE p = i
      BY <2>5, <3>1, <3>5
    <3>6. CASE p < i
      <4>1. responses[p].file >= responses[i].file
        BY <1>6, <2>3, <3>2, <3>6
      <4> QED BY <2>5, <3>1, <3>4, <4>1
    <3> QED BY <3>3, <3>5, <3>6
  <2> QED BY <1>14, <1>16, <2>2, <2>3, <2>5, <2>6
<1> QED BY <1>15, <1>16

(* The tuples that GlobsOf builds.                                         *)
LEMMA Tuples ==
  ASSUME NEW a, NEW b
  PROVE  /\ <<a>> \o <<>> = <<a>> /\ <<a>> \o <<b>> = <<a, b>>
         /\ <<a, b>> \o <<>> = <<a, b>>
<1> DEFINE S == {a, b}
<1>1. <<>> \in Seq(S) /\ <<a>> \in Seq(S) /\ <<b>> \in Seq(S) /\ <<a, b>> \in Seq(S)
  OBVIOUS
<1>2. /\ <<a>> \o <<>> \in Seq(S) /\ Len(<<a>> \o <<>>) = 1 /\ (<<a>> \o <<>>)[1] = a
      /\ <<a, b>> \o <<>> \in Seq(S) /\ Len(<<a, b>> \o <<>>) = 2
      /\ (<<a, b>> \o <<>>)[1] = a /\ (<<a, b>> \o <<>>)[2] = b
  BY <1>1, ConcatProperties
<1>3. /\ <<a>> \o <<b>> \in Seq(S) /\ Len(<<a>> \o <<b>>) = 2
      /\ (<<a>> \o <<b>>)[1] = a /\ (<<a>> \o <<b>>)[2] = b
  BY <1>1, ConcatProperties
<1> HIDE DEF S
<1>5. <<a>> \o <<>> = <<a>> /\ <<a, b>> \o <<>> = <<a, b>> /\ <<a>> \o <<b>> = <<a, b>>
  <2> DEFINE t == <<a>> \o <<>>
             u == <<a, b>> \o <<>>
             v == <<a>> \o <<b>>
  <2>1. /\ t \in Seq(S) /\ Len(t) = 1 /\ t[1] = a
        /\ u \in Seq(S) /\ Len(u) = 2 /\ u[1] = a /\ u[2] = b
        /\ v \in Seq(S) /\ Len(v) = 2 /\ v[1] = a /\ v[2] = b
    BY <1>2, <1>3
  <2> HIDE DEF t, u, v
  <2>2. t = <<a>> /\ u = <<a, b>> /\ v = <<a, b>>
    BY <1>1, <2>1
  <2> QED BY <2>2 DEF t, u, v
<1> QED BY <1>5

(* What is tried, in turn, without -f.                                     *)
LEMMA GlobsAre ==
  ASSUME mode = "cwd", NEW r
  PROVE  LET L(located) == Glob(r, "local", located)
             S(located) == Glob(r, "seedresp", located)
         IN  \/ GlobsOf(r) = <<>>
             \/ GlobsOf(r) = <<L(TRUE)>>
             \/ GlobsOf(r) = <<L(TRUE), L(FALSE)>>
             \/ GlobsOf(r) = <<L(TRUE), S(TRUE)>>
             \/ GlobsOf(r) = <<L(TRUE), S(TRUE), L(FALSE), S(FALSE)>>
<1> DEFINE L(located) == Glob(r, "local", located)
           S(located) == Glob(r, "seedresp", located)
           tries(located) == [p \in DOMAIN Places |-> Glob(r, Places[p], located)]
<1>1. Places = <<"local", "seedresp">> \/ Places = <<"local">>
  BY DEF Places
<1>2. GlobsOf(r) = <<>> \/ GlobsOf(r) = tries(TRUE) \o <<>> \/ GlobsOf(r) = tries(TRUE) \o tries(FALSE)
  BY DEF GlobsOf
<1>3. CASE Places = <<"local">>
  <2>1. \A located \in BOOLEAN : tries(located) = <<L(located)>>
    BY <1>3
  <2> HIDE DEF tries, L
  <2>2. /\ <<L(TRUE)>> \o <<>> = <<L(TRUE)>>
        /\ <<L(TRUE)>> \o <<L(FALSE)>> = <<L(TRUE), L(FALSE)>>
    BY Tuples
  <2>3. tries(TRUE) = <<L(TRUE)>> /\ tries(FALSE) = <<L(FALSE)>>
    BY <2>1
  <2>4. GlobsOf(r) = <<>> \/ GlobsOf(r) = <<L(TRUE)>> \/ GlobsOf(r) = <<L(TRUE), L(FALSE)>>
    BY <1>2, <2>2, <2>3
  <2> QED BY <2>4 DEF L
<1>4. CASE Places = <<"local", "seedresp">>
  <2>1. \A located \in BOOLEAN : tries(located) = <<L(located), S(located)>>
    BY <1>4
  <2> HIDE DEF tries, L, S
  <2>2. PICK a, b, c, d : a = L(TRUE) /\ b = S(TRUE) /\ c = L(FALSE) /\ d = S(FALSE)
    OBVIOUS
  <2>3. <<a, b>> \o <<>> = <<a, b>>
    BY Tuples
  <2>4. <<a, b>> \o <<c, d>> = <<a, b, c, d>>
    <3> DEFINE T == {a, b, c, d}
               abcd == <<a, b>> \o <<c, d>>
    <3>1. <<a, b>> \in Seq(T) /\ <<c, d>> \in Seq(T) /\ <<a, b, c, d>> \in Seq(T)
      OBVIOUS
    <3>2. \A i \in 1..4 : abcd[i] = IF i <= 2 THEN <<a, b>>[i] ELSE <<c, d>>[i - 2]
      BY <3>1, ConcatProperties
    <3>3. abcd \in Seq(T) /\ Len(abcd) = 4
      BY <3>1, ConcatProperties
    <3>4. abcd[1] = a /\ abcd[2] = b /\ abcd[3] = c /\ abcd[4] = d
      BY <3>2
    <3> HIDE DEF T, abcd
    <3>5. abcd = <<a, b, c, d>>
      BY <3>1, <3>3, <3>4
    <3> QED BY <3>5 DEF abcd
  <2>5. tries(TRUE) = <<a, b>> /\ tries(FALSE) = <<c, d>>
    BY <2>1, <2>2
  <2>6. GlobsOf(r) = <<>> \/ GlobsOf(r) = <<a, b>> \/ GlobsOf(r) = <<a, b, c, d>>
    BY <1>2, <2>3, <2>4, <2>5
  <2> QED BY <2>2, <2>6 DEF L, S
<1> QED BY <1>1, <1>3, <1>4

(* SEEDRESP is tried directly behind the local directory, with the same    *)
(* form of name.                                                           *)
LEMMA GlobsOrder ==
  ASSUME mode = "cwd", NEW r, NEW m \in DOMAIN GlobsOf(r)
  PROVE  /\ DOMAIN GlobsOf(r) \subseteq Nat
         /\ \/ GlobsOf(r)[m] \in {Glob(r, "local", TRUE), Glob(r, "local", FALSE)}
            \/ /\ m - 1 \in DOMAIN GlobsOf(r)
               /\ \/ /\ GlobsOf(r)[m - 1] = Glob(r, "local", TRUE)
                     /\ GlobsOf(r)[m] = Glob(r, "seedresp", TRUE)
                  \/ /\ GlobsOf(r)[m - 1] = Glob(r, "local", FALSE)
                     /\ GlobsOf(r)[m] = Glob(r, "seedresp", FALSE)
<1> DEFINE globs == GlobsOf(r)
<1>0. m \in DOMAIN globs
  OBVIOUS
<1> SUFFICES ASSUME NEW gs, globs = gs
    PROVE  /\ DOMAIN gs \subseteq Nat
           /\ \/ gs[m] \in {Glob(r, "local", TRUE), Glob(r, "local", FALSE)}
              \/ /\ m - 1 \in DOMAIN gs
                 /\ \/ gs[m - 1] = Glob(r, "local", TRUE) /\ gs[m] = Glob(r, "seedresp", TRUE)
                    \/ gs[m - 1] = Glob(r, "local", FALSE) /\ gs[m] = Glob(r, "seedresp", FALSE)
  OBVIOUS
<1>1. PICK a, b, c, d : /\ a = Glob(r, "local", TRUE) /\ b = Glob(r, "local", FALSE)
                       /\ c = Glob(r, "seedresp", TRUE) /\ d = Glob(r, "seedresp", FALSE)
  OBVIOUS
<1>2. gs = <<>> \/ gs = <<a>> \/ gs = <<a, b>> \/ gs = <<a, c>> \/ gs = <<a, c, b, d>>
  BY <1>1, GlobsAre
<1>3. m \in DOMAIN gs
  BY <1>0
<1> HIDE DEF globs
<1>4. CASE gs = <<>>
  BY <1>3, <1>4
<1>5. CASE gs = <<a>>
  <2>1. DOMAIN gs = {1} /\ gs[1] = a
    BY <1>5
  <2>2. gs[m] = a
    BY <1>3, <2>1
  <2>3. DOMAIN gs \subseteq Nat
    BY <2>1
  <2> QED BY <1>1, <2>2, <2>3
<1>6. CASE gs = <<a, b>>
  <2>1. DOMAIN gs = {1, 2} /\ gs[1] = a /\ gs[2] = b
    BY <1>6
  <2>2. gs[m] \in {a, b}
    BY <1>3, <2>1
  <2>3. DOMAIN gs \subseteq Nat
    BY <2>1
  <2> QED BY <1>1, <2>2, <2>3
<1>7. CASE gs = <<a, c>>
  <2>1. DOMAIN gs = {1, 2} /\ gs[1] = a /\ gs[2] = c
    BY <1>7
  <2>2. m = 1 \/ (m = 2 /\ m - 1 = 1)
    BY <1>3, <2>1
  <2>3. gs[m] = a \/ (gs[m] = c /\ gs[m - 1] = a /\ m - 1 \in DOMAIN gs)
    BY <2>1, <2>2
  <2>4. DOMAIN gs \subseteq Nat
    BY <2>1
  <2> QED BY <1>1, <2>3, <2>4
<1>8. CASE gs = <<a, c, b, d>>
  <2>1. DOMAIN gs = {1, 2, 3, 4} /\ gs[1] = a /\ gs[2] = c /\ gs[3] = b /\ gs[4] = d
    BY <1>8
  <2>2. m = 1 \/ (m = 2 /\ m - 1 = 1) \/ m = 3 \/ (m = 4 /\ m - 1 = 3)
    BY <1>3, <2>1
  <2>3. \/ gs[m] \in {a, b}
        \/ gs[m] = c /\ gs[m - 1] = a /\ m - 1 \in DOMAIN gs
        \/ gs[m] = d /\ gs[m - 1] = b /\ m - 1 \in DOMAIN gs
    BY <2>1, <2>2
  <2>4. DOMAIN gs \subseteq Nat
    BY <2>1
  <2> QED BY <1>1, <2>3, <2>4
<1> QED BY <1>2, <1>4, <1>5, <1>6, <1>7, <1>8

(* LocalBeforeSeedresp follows from the invariant.                         *)
LEMMA LocalFirst ==
  ASSUME CwdInv
  PROVE  LocalBeforeSeedresp
<1>0. TypeOK /\ Order /\ ListsFound /\ InStep /\ OutputsLatest /\ world \in Worlds
  BY DEF CwdInv, TypeOK
<1>1. SUFFICES ASSUME NEW k \in DOMAIN out, out[k] \notin {None, Partial}, Len(world.requests) = 1,
                      mode = "cwd", world.disk[out[k].file].place = "seedresp",
                      NEW f \in DOMAIN world.disk, world.disk[f].place = "local",
                      world.disk[f].located = world.disk[out[k].file].located,
                      world.disk[f].name \in world.requests[1].pat
      PROVE  FALSE
  BY DEF LocalBeforeSeedresp
<1> DEFINE r == world.requests[1]
           globs == GlobsOf(r)
           hits == {g \in DOMAIN globs : globs[g] # {}}
<1>2. k \in Kinds \X Sncls
  BY <1>0 DEF TypeOK
<1>3. PICK i \in WrittenTo(k) : out[k] = responses[i]
  BY <1>0, <1>1, <1>2 DEF OutputsLatest, HoldsLatest, CutShort
<1>4. AllIsRead
  <2>1. written # 0
    BY <1>0, <1>3, NothingWritten
  <2> QED BY <1>0, <2>1 DEF InStep
<1>5. Searching /\ Len(lists) = 1
  <2>1. pc # "find"
    BY <1>0, <1>1, <1>2, OutputsNone DEF CwdInv
  <2> QED BY <1>0, <1>1, <2>1 DEF Order, Searching
<1>6. responses = Flat(lists[1]) /\ lists[1] = Found(r) /\ lists[1] \in Seq(DOMAIN world.disk)
  BY <1>0, <1>1, <1>4, <1>5, OneRequest DEF CwdInv
<1> DEFINE g == out[k].file
<1>7. PICK fs \in Seq(DOMAIN world.disk) : fs = lists[1]
  BY <1>6
<1>8. PICK q \in 1..Len(fs) : fs[q] = g
  <2>1. i \in 1..Len(responses)
    <3>1. responses \in Seq(Response)
      BY <1>0 DEF TypeOK
    <3>2. i \in DOMAIN responses
      BY <1>3 DEF WrittenTo
    <3> QED BY <3>1, <3>2
  <2>2. responses = Flat(fs)
    BY <1>6, <1>7
  <2>3. \E q \in 1..Len(fs) : responses[i].file = fs[q]
    BY <1>0, <2>1, <2>2, FlatHas
  <2> QED BY <1>3, <2>3
<1>9. hits # {} /\ g \in globs[Min(hits)]
  <2>1. fs = Found(r) /\ fs # <<>>
    BY <1>6, <1>7, <1>8
  <2>2. hits # {} /\ fs = LastNameFirst(globs[Min(hits)])
    BY <2>1 DEF Found
  <2> QED BY <1>0, <1>8, <2>2, LastNameFirstIs
<1>10. PICK m \in hits : m = Min(hits) /\ \A h \in hits : m <= h
  <2>1. ASSUME NEW h \in DOMAIN globs PROVE h \in Nat
    BY <1>1, GlobsOrder
  <2>2. hits \subseteq Nat
    BY <2>1
  <2> HIDE DEF hits
  <2>3. \E h \in hits : \A x \in hits : h <= x
    BY <1>9, <2>2, LeastNumber
  <2> QED BY <2>3 DEF Min
<1>11. m \in DOMAIN globs /\ g \in globs[m] /\ m \in Nat
  <2>1. m \in DOMAIN globs /\ g \in globs[m]
    BY <1>9, <1>10
  <2> QED BY <1>1, <2>1, GlobsOrder
<1>12. \A b \in BOOLEAN : g \notin Glob(r, "local", b)
  BY <1>1 DEF Glob
<1>13. \A b \in BOOLEAN : g \in Glob(r, "seedresp", b) => Glob(r, "local", b) # {}
  <2>1. SUFFICES ASSUME NEW b \in BOOLEAN, g \in Glob(r, "seedresp", b) PROVE f \in Glob(r, "local", b)
    OBVIOUS
  <2> QED BY <1>1, <2>1 DEF Glob
<1>14. m - 1 \in DOMAIN globs /\ globs[m - 1] # {}
  <2>1. globs[m] \notin {Glob(r, "local", TRUE), Glob(r, "local", FALSE)}
    BY <1>11, <1>12
  <2>2. /\ m - 1 \in DOMAIN globs
        /\ \/ globs[m - 1] = Glob(r, "local", TRUE) /\ globs[m] = Glob(r, "seedresp", TRUE)
           \/ globs[m - 1] = Glob(r, "local", FALSE) /\ globs[m] = Glob(r, "seedresp", FALSE)
    BY <1>1, <1>11, <2>1, GlobsOrder
  <2>3. /\ g \in Glob(r, "seedresp", TRUE) => Glob(r, "local", TRUE) # {}
        /\ g \in Glob(r, "seedresp", FALSE) => Glob(r, "local", FALSE) # {}
    BY <1>13
  <2> QED BY <1>11, <2>2, <2>3
<1>15. m - 1 \in hits
  BY <1>14
<1>16. m <= m - 1
  BY <1>10, <1>15
<1> QED BY <1>11, <1>16

(* With one request the file whose name sorts first provides a channel, and *)
(* SEEDRESP only where the local directory has no name of that form.        *)
THEOREM FilesChosenHolds == Spec => []FilesChosen
<1>1. CwdInv => FilesChosen
  BY FirstNameFound, LocalFirst DEF FilesChosen
<1> QED BY <1>1, CwdInvariance, PTL

-----------------------------------------------------------------------------
(* What is written of a response (Output).  Phases are followed by          *)
(* induction over the loops of evalresp_response_to_char and                *)
(* interpolate_list_blockette, with what was added so far as whole turns;   *)
(* the lines of the log by induction over the stages; the frequencies       *)
(* that are kept of those asked for are a run of them, as they rise.        *)

(* Nothing but whole turns.                                                 *)
Turns(added) == \E z \in Int : added = 360 * z

(* A phase and what was added to it.                                        *)
Unwrapping == {r \in [phase : Int, added : Int] : Turns(r.added)}

(* A turn more or less.                                                     *)
LEMMA TurnMore ==
  \A a \in Int : Turns(a) => Turns(a + 360) /\ Turns(a - 360)
<1> SUFFICES ASSUME NEW a \in Int, NEW z \in Int, a = 360 * z PROVE Turns(a + 360) /\ Turns(a - 360)
  BY DEF Turns
<1>1. z + 1 \in Int /\ a + 360 = 360 * (z + 1)
  OBVIOUS
<1>2. z - 1 \in Int /\ a - 360 = 360 * (z - 1)
  OBVIOUS
<1> QED BY <1>1, <1>2 DEF Turns

(* What differs by whole turns is the same angle.                           *)
LEMMA TurnsVanish ==
  ASSUME NEW p \in Int, NEW q \in Int, NEW a \in Int, Turns(a), p = q + a
  PROVE  (p - q) % 360 = 0
<1>1. PICK z \in Int : a = 360 * z
  BY DEF Turns
<1>2. p - q = 360 * z
  BY <1>1
<1>3. (360 * z) % 360 = 0
  OBVIOUS
<1> QED BY <1>2, <1>3

(* No turn is a number of whole turns.                                      *)
LEMMA NoTurn == Turns(0)
<1>1. 0 = 360 * 0
  OBVIOUS
<1> QED BY <1>1 DEF Turns

(* IntoCircle brings a phase into [0, 360) by whole turns.                  *)
LEMMA CircleTurns ==
  ASSUME NEW p \in Int
  PROVE  IntoCircle(p) \in Int /\ Turns(IntoCircle(p)) /\ p + IntoCircle(p) \in 0..359
<1>1. PICK q : q = p \div 360
  OBVIOUS
<1>2. PICK r : r = p % 360
  OBVIOUS
<1>3. q \in Int /\ r \in 0..359 /\ p = 360 * q + r
  BY <1>1, <1>2
<1>4. IntoCircle(p) = 360 * (-q)
  BY <1>2, <1>3 DEF IntoCircle
<1>5. -q \in Int
  BY <1>3
<1> QED BY <1>2, <1>3, <1>4, <1>5 DEF Turns, IntoCircle

(* IntoHalves consists of whole turns, and is nothing for a phase within    *)
(* half a turn of zero.                                                     *)
LEMMA HalvesTurns ==
  ASSUME NEW p \in Int
  PROVE  IntoHalves(p) \in Int /\ Turns(IntoHalves(p)) /\ (p \in -180..180 => IntoHalves(p) = 0)
<1>1. CASE p > 180
  <2>1. PICK q : q = (p + 179) \div 360
    OBVIOUS
  <2>2. q \in Int /\ -q \in Int
    BY <2>1
  <2>3. IntoHalves(p) = -360 * q
    BY <1>1, <2>1 DEF IntoHalves
  <2>4. IntoHalves(p) = 360 * (-q)
    BY <2>2, <2>3
  <2>5. p \notin -180..180
    BY <1>1
  <2> QED BY <2>2, <2>4, <2>5 DEF Turns
<1>2. CASE p < -180
  <2>1. PICK q : q = (179 - p) \div 360
    OBVIOUS
  <2>2. q \in Int
    BY <2>1
  <2>3. IntoHalves(p) = 360 * q
    BY <1>2, <2>1 DEF IntoHalves
  <2>4. p \notin -180..180
    BY <1>2
  <2> QED BY <2>2, <2>3, <2>4 DEF Turns
<1>3. CASE ~ (p > 180) /\ ~ (p < -180)
  <2>1. IntoHalves(p) = 0
    BY <1>3 DEF IntoHalves
  <2> QED BY <2>1, NoTurn
<1> QED BY <1>1, <1>2, <1>3

(* A phase is turned, and brought near the one before if at most a turn and *)
(* a half lie between; it is left if it is near.                            *)
Turned(phase, prev, added, r) ==
  /\ r \in Unwrapping /\ r.phase = phase + r.added
  /\ phase + added - prev \in -540..540 => r.phase - prev \in -180..180
  /\ phase + added - prev \in -180..180 => r.phase = phase + added

(* unwrap_phase turns a phase so that it does not jump, if a turn is        *)
(* enough.                                                                  *)
LEMMA UnwrapStep ==
  ASSUME NEW phase \in Int, NEW prev \in Int, NEW added \in Int, Turns(added)
  PROVE  Turned(phase, prev, added, unwrap_phase(phase, prev, added))
<1> SUFFICES ASSUME NEW r, r = unwrap_phase(phase, prev, added) PROVE Turned(phase, prev, added, r)
  OBVIOUS
<1>1. CASE phase + added - prev > 180
  <2>1. r = [phase |-> phase + added - 360, added |-> added - 360]
    BY <1>1 DEF unwrap_phase
  <2> QED BY <1>1, <2>1, TurnMore DEF Unwrapping, Turned
<1>2. CASE phase + added - prev < -180
  <2>1. r = [phase |-> phase + added + 360, added |-> added + 360]
    BY <1>2 DEF unwrap_phase
  <2> QED BY <1>2, <2>1, TurnMore DEF Unwrapping, Turned
<1>3. CASE ~ (phase + added - prev > 180) /\ ~ (phase + added - prev < -180)
  <2>1. r = [phase |-> phase + added, added |-> added]
    BY <1>3 DEF unwrap_phase
  <2> QED BY <1>3, <2>1 DEF Unwrapping, Turned
<1> QED BY <1>1, <1>2, <1>3

(* wrap_phase brings it back within half a turn of zero, if a turn is       *)
(* enough.                                                                  *)
LEMMA WrapStep ==
  ASSUME NEW phase \in Int, NEW added \in Int, Turns(added), NEW r, r = wrap_phase(phase, added)
  PROVE  /\ r \in Unwrapping /\ r.phase = phase + r.added
         /\ phase + added \in -540..540 => r.phase \in -180..180
<1>1. CASE phase + added > 180
  <2>1. r = [phase |-> phase + added - 360, added |-> added - 360]
    BY <1>1 DEF wrap_phase
  <2> QED BY <1>1, <2>1, TurnMore DEF Unwrapping
<1>2. CASE phase + added < -180
  <2>1. r = [phase |-> phase + added + 360, added |-> added + 360]
    BY <1>2 DEF wrap_phase
  <2> QED BY <1>2, <2>1, TurnMore DEF Unwrapping
<1>3. CASE ~ (phase + added > 180) /\ ~ (phase + added < -180)
  <2>1. r = [phase |-> phase + added, added |-> added]
    BY <1>3 DEF wrap_phase
  <2> QED BY <1>3, <2>1 DEF Unwrapping
<1> QED BY <1>1, <1>2, <1>3

(* What the loops over the phases compute.                                  *)
UnwrapsTo(phases, prev, added, done) ==
  /\ done[0] = [phase |-> prev, added |-> added]
  /\ \A k \in 1..Len(phases) : done[k] = unwrap_phase(phases[k], done[k - 1].phase, done[k - 1].added)

WrapsTo(phases, added, done) ==
  /\ done[0] = [phase |-> 0, added |-> added]
  /\ \A k \in 1..Len(phases) : done[k] = wrap_phase(phases[k], done[k - 1].added)

(* Unwrapped computes with unwrap_phase, phase by phase.                    *)
LEMMA UnwrappedIs ==
  ASSUME NEW phases \in Seq(Int), NEW prev \in Int, NEW added \in Int, Turns(added)
  PROVE  \E done : /\ UnwrapsTo(phases, prev, added, done)
                   /\ Unwrapped(phases, prev, added) = [k \in 1..Len(phases) |-> done[k].phase]
<1> DEFINE n == Len(phases)
           first == [phase |-> prev, added |-> added]
           After(k, was) == unwrap_phase(phases[k], was.phase, was.added)
           Body(f) == [k \in 0..n |-> IF k = 0 THEN first ELSE After(k, f[k - 1])]
           done == CHOOSE f : f = Body(f)
           G == [p \in (1..n) \X Unwrapping |-> After(p[1], p[2])]
<1>1. Unwrapped(phases, prev, added) = [k \in 1..n |-> done[k].phase]
  BY DEF Unwrapped
<1>2. n \in Nat /\ first \in Unwrapping
  BY DEF Unwrapping
<1>3. G \in [(1..n) \X Unwrapping -> Unwrapping]
  <2>1. ASSUME NEW k \in 1..n, NEW was \in Unwrapping PROVE After(k, was) \in Unwrapping
    <3>1. phases[k] \in Int /\ was.phase \in Int /\ was.added \in Int /\ Turns(was.added)
      BY DEF Unwrapping
    <3>2. Turned(phases[k], was.phase, was.added, After(k, was))
      BY <3>1, UnwrapStep
    <3> HIDE DEF n, After
    <3> QED BY <3>2 DEF Turned
  <2> HIDE DEF After, n
  <2> QED BY <2>1
<1>4. PICK f : Stepped(n, Unwrapping, first, G, f)
  <2> HIDE DEF G, n, first
  <2> QED BY <1>2, <1>3, StepsExist
<1>5. f = Body(f)
  <2>1. f \in [0..n -> Unwrapping] /\ f[0] = first /\ \A k \in 1..n : f[k] = G[<<k, f[k - 1]>>]
    BY <1>4 DEF Stepped
  <2>2. ASSUME NEW k \in 0..n PROVE f[k] = IF k = 0 THEN first ELSE After(k, f[k - 1])
    <3>1. CASE k = 0
      BY <2>1, <3>1
    <3>2. CASE k # 0
      <4>1. k \in 1..n /\ k - 1 \in 0..n
        BY <1>2, <3>2
      <4>2. PICK was \in Unwrapping : was = f[k - 1]
        BY <2>1, <4>1
      <4>3. f[k] = G[<<k, was>>]
        BY <2>1, <4>1, <4>2
      <4>4. G[<<k, was>>] = After(k, was)
        <5> HIDE DEF After, n
        <5> QED BY <4>1
      <4> HIDE DEF After, G
      <4> QED BY <3>2, <4>2, <4>3, <4>4
    <3> QED BY <3>1, <3>2
  <2> HIDE DEF G, After, n, first
  <2> QED BY <2>1, <2>2
<1>6. done = Body(done)
  <2> HIDE DEF Body
  <2> QED BY <1>5
<1>7. UnwrapsTo(phases, prev, added, done)
  <2>1. 0 \in 0..n /\ \A k \in 1..n : k \in 0..n /\ k # 0
    BY <1>2
  <2>2. done[0] = first /\ \A k \in 1..n : done[k] = After(k, done[k - 1])
    <3> HIDE DEF done, After, n, first
    <3> QED BY <1>6, <2>1
  <2> HIDE DEF done
  <2> QED BY <2>2 DEF UnwrapsTo
<1> QED
  <2> HIDE DEF done
  <2> QED BY <1>1, <1>7

(* Wrapped computes with wrap_phase, phase by phase.                        *)
LEMMA WrappedIs ==
  ASSUME NEW phases \in Seq(Int), NEW added \in Int, Turns(added)
  PROVE  \E done : /\ WrapsTo(phases, added, done)
                   /\ Wrapped(phases, added) = [k \in 1..Len(phases) |-> done[k].phase]
<1> DEFINE n == Len(phases)
           first == [phase |-> 0, added |-> added]
           After(k, was) == wrap_phase(phases[k], was.added)
           Body(f) == [k \in 0..n |-> IF k = 0 THEN first ELSE After(k, f[k - 1])]
           done == CHOOSE f : f = Body(f)
           G == [p \in (1..n) \X Unwrapping |-> After(p[1], p[2])]
<1>1. Wrapped(phases, added) = [k \in 1..n |-> done[k].phase]
  BY DEF Wrapped
<1>2. n \in Nat /\ first \in Unwrapping
  BY DEF Unwrapping
<1>3. G \in [(1..n) \X Unwrapping -> Unwrapping]
  <2>1. ASSUME NEW k \in 1..n, NEW was \in Unwrapping PROVE After(k, was) \in Unwrapping
    <3>1. phases[k] \in Int /\ was.added \in Int /\ Turns(was.added)
      BY DEF Unwrapping
    <3>2. PICK r : r = After(k, was)
      OBVIOUS
    <3> HIDE DEF n
    <3> QED BY <3>1, <3>2, WrapStep
  <2> HIDE DEF After, n
  <2> QED BY <2>1
<1>4. PICK f : Stepped(n, Unwrapping, first, G, f)
  <2> HIDE DEF G, n, first
  <2> QED BY <1>2, <1>3, StepsExist
<1>5. f = Body(f)
  <2>1. f \in [0..n -> Unwrapping] /\ f[0] = first /\ \A k \in 1..n : f[k] = G[<<k, f[k - 1]>>]
    BY <1>4 DEF Stepped
  <2>2. ASSUME NEW k \in 0..n PROVE f[k] = IF k = 0 THEN first ELSE After(k, f[k - 1])
    <3>1. CASE k = 0
      BY <2>1, <3>1
    <3>2. CASE k # 0
      <4>1. k \in 1..n /\ k - 1 \in 0..n
        BY <1>2, <3>2
      <4>2. PICK was \in Unwrapping : was = f[k - 1]
        BY <2>1, <4>1
      <4>3. f[k] = G[<<k, was>>]
        BY <2>1, <4>1, <4>2
      <4>4. G[<<k, was>>] = After(k, was)
        <5> HIDE DEF After, n
        <5> QED BY <4>1
      <4> HIDE DEF After, G
      <4> QED BY <3>2, <4>2, <4>3, <4>4
    <3> QED BY <3>1, <3>2
  <2> HIDE DEF G, After, n, first
  <2> QED BY <2>1, <2>2
<1>6. done = Body(done)
  <2> HIDE DEF Body
  <2> QED BY <1>5
<1>7. WrapsTo(phases, added, done)
  <2>1. 0 \in 0..n /\ \A k \in 1..n : k \in 0..n /\ k # 0
    BY <1>2
  <2>2. done[0] = first /\ \A k \in 1..n : done[k] = After(k, done[k - 1])
    <3> HIDE DEF done, After, n, first
    <3> QED BY <1>6, <2>1
  <2> HIDE DEF done
  <2> QED BY <2>2 DEF WrapsTo
<1> QED
  <2> HIDE DEF done
  <2> QED BY <1>1, <1>7

(* The same angle as one that is the same is the same.                      *)
LEMMA AnglesCompose ==
  ASSUME NEW p \in Int, NEW q \in Int, NEW r \in Int, (p - q) % 360 = 0, (q - r) % 360 = 0
  PROVE  (p - r) % 360 = 0
<1>1. PICK x \in Int : p - q = 360 * x
  <2>1. (p - q) \div 360 \in Int /\ p - q = 360 * ((p - q) \div 360)
    OBVIOUS
  <2> QED BY <2>1
<1>2. PICK y \in Int : q - r = 360 * y
  <2>1. (q - r) \div 360 \in Int /\ q - r = 360 * ((q - r) \div 360)
    OBVIOUS
  <2> QED BY <2>1
<1>3. x + y \in Int /\ p = r + 360 * (x + y) /\ 360 * (x + y) \in Int
  BY <1>1, <1>2
<1>4. Turns(360 * (x + y))
  BY <1>3 DEF Turns
<1> QED BY <1>3, <1>4, TurnsVanish

(* Unwrapped, phases are the same angles; and if they lie within half a     *)
(* turn of zero, there are no jumps.                                        *)
KeptUnwrapped(phases, prev, added, u) ==
  /\ u \in Seq(Int) /\ Len(u) = Len(phases) /\ SameAngles(u, phases)
  /\ Len(phases) # 0 /\ phases[1] + added - prev \in -180..180 => u[1] = phases[1] + added
  /\ (\A i \in 1..Len(phases) : phases[i] \in -180..180) => NoJumps(u)

(* What unwrapping keeps, by induction over the phases.                     *)
LEMMA UnwrappedKeeps ==
  ASSUME NEW phases \in Seq(Int), NEW prev \in Int, NEW added \in Int, Turns(added),
         NEW u, u = Unwrapped(phases, prev, added)
  PROVE  KeptUnwrapped(phases, prev, added, u)
<1>1. PICK done : /\ UnwrapsTo(phases, prev, added, done)
                  /\ u = [k \in 1..Len(phases) |-> done[k].phase]
  BY UnwrappedIs
<1>2. /\ done[0] = [phase |-> prev, added |-> added]
      /\ \A k \in 1..Len(phases) : done[k] = unwrap_phase(phases[k], done[k - 1].phase, done[k - 1].added)
  BY <1>1 DEF UnwrapsTo
<1>3. Len(phases) \in Nat /\ \A k \in 1..Len(phases) : phases[k] \in Int
  OBVIOUS
<1> DEFINE T == {k \in Nat : k <= Len(phases) => done[k] \in Unwrapping}
<1>4. ASSUME NEW k \in Nat, k + 1 <= Len(phases), done[k] \in Unwrapping
      PROVE  Turned(phases[k + 1], done[k].phase, done[k].added, done[k + 1])
  <2>1. k + 1 \in 1..Len(phases) /\ (k + 1) - 1 = k
    BY <1>3, <1>4
  <2>2. done[k + 1] = unwrap_phase(phases[k + 1], done[k].phase, done[k].added)
    BY <1>2, <2>1
  <2>3. done[k].phase \in Int /\ done[k].added \in Int /\ Turns(done[k].added) /\ phases[k + 1] \in Int
    BY <1>3, <1>4, <2>1 DEF Unwrapping
  <2> QED BY <2>2, <2>3, UnwrapStep
<1>5. Nat \subseteq T
  <2>1. 0 \in T
    BY <1>2 DEF Unwrapping
  <2>2. ASSUME NEW k \in Nat, k \in T PROVE k + 1 \in T
    <3> SUFFICES ASSUME k + 1 <= Len(phases) PROVE done[k + 1] \in Unwrapping
      OBVIOUS
    <3>1. done[k] \in Unwrapping
      BY <1>3, <2>2
    <3>2. Turned(phases[k + 1], done[k].phase, done[k].added, done[k + 1])
      BY <1>4, <3>1
    <3> QED BY <3>2 DEF Turned
  <2> HIDE DEF T
  <2> QED BY <2>1, <2>2, Induction
<1>6. \A k \in 0..Len(phases) : done[k] \in Unwrapping /\ done[k].phase \in Int /\ done[k].added \in Int
  <2>1. \A k \in 0..Len(phases) : k \in T
    BY <1>3, <1>5
  <2>2. \A k \in 0..Len(phases) : done[k] \in Unwrapping
    BY <1>3, <2>1
  <2> QED BY <2>2 DEF Unwrapping
<1>7. \A k \in 1..Len(phases) : done[k].phase = phases[k] + done[k].added
  <2> SUFFICES ASSUME NEW k \in 1..Len(phases) PROVE done[k].phase = phases[k] + done[k].added
    OBVIOUS
  <2>1. PICK j \in Nat : k = j + 1 /\ j \in 0..Len(phases) /\ j + 1 <= Len(phases)
    <3>1. k - 1 \in Nat /\ k = (k - 1) + 1 /\ k - 1 \in 0..Len(phases)
      BY <1>3
    <3> QED BY <1>3, <3>1
  <2> QED BY <1>4, <1>6, <2>1 DEF Turned
<1>8. u \in Seq(Int) /\ Len(u) = Len(phases) /\ \A k \in 1..Len(phases) : u[k] = done[k].phase
  <2>1. \A k \in 1..Len(phases) : done[k].phase \in Int
    BY <1>6
  <2> QED BY <1>1, <1>3, <2>1
<1>9. SameAngles(u, phases)
  <2>1. ASSUME NEW k \in 1..Len(phases) PROVE (u[k] - phases[k]) % 360 = 0
    <3>1. PICK a : a = done[k].added
      OBVIOUS
    <3>2. a \in Int /\ Turns(a)
      BY <1>6, <3>1 DEF Unwrapping
    <3>3. u[k] = phases[k] + a /\ u[k] \in Int /\ phases[k] \in Int
      BY <1>3, <1>7, <1>8, <3>1
    <3> QED BY <3>2, <3>3, TurnsVanish
  <2> QED BY <1>8, <2>1 DEF SameAngles
<1>10. ASSUME Len(phases) # 0, phases[1] + added - prev \in -180..180
       PROVE  u[1] = phases[1] + added
  <2>1. 1 \in 1..Len(phases)
    BY <1>3, <1>10
  <2>2. done[1] = unwrap_phase(phases[1], prev, added)
    BY <1>2, <2>1
  <2>3. phases[1] \in Int
    BY <1>3, <2>1
  <2>4. Turned(phases[1], prev, added, done[1])
    BY <2>2, <2>3, UnwrapStep
  <2>5. done[1].phase = phases[1] + added
    BY <1>10, <2>4 DEF Turned
  <2> QED BY <1>8, <2>1, <2>5
<1>11. ASSUME \A i \in 1..Len(phases) : phases[i] \in -180..180 PROVE NoJumps(u)
  <2>1. ASSUME NEW i \in 1..(Len(phases) - 1) PROVE u[i + 1] - u[i] \in -180..180
    <3>1. i \in Nat /\ i + 1 <= Len(phases) /\ i \in 1..Len(phases) /\ i + 1 \in 1..Len(phases) /\ i \in 0..Len(phases)
      BY <1>3
    <3>2. done[i].phase = phases[i] + done[i].added /\ done[i].added \in Int
      BY <1>6, <1>7, <3>1
    <3>3. phases[i + 1] \in -180..180 /\ phases[i] \in -180..180
      BY <1>11, <3>1
    <3>4. phases[i + 1] + done[i].added - done[i].phase \in -540..540
      <4>1. PICK p, q \in -180..180 : p = phases[i + 1] /\ q = phases[i]
        BY <3>3
      <4>2. PICK a \in Int : a = done[i].added
        BY <3>2
      <4>3. p + a - (q + a) \in -540..540
        OBVIOUS
      <4> QED BY <3>2, <4>1, <4>2, <4>3
    <3>5. done[i + 1].phase - done[i].phase \in -180..180
      <4>1. Turned(phases[i + 1], done[i].phase, done[i].added, done[i + 1])
        BY <1>4, <1>6, <3>1
      <4> QED BY <3>4, <4>1 DEF Turned
    <3> QED BY <1>8, <3>1, <3>5
  <2> QED BY <1>8, <2>1 DEF NoJumps
<1> QED BY <1>8, <1>9, <1>10, <1>11 DEF KeptUnwrapped

(* Wrapped again they still are, and lie within half a turn of zero if they *)
(* begin there and do not jump.                                             *)
KeptWrapped(phases, added, w) ==
  /\ w \in Seq(Int) /\ Len(w) = Len(phases) /\ SameAngles(w, phases)
  /\ Len(phases) # 0 /\ phases[1] + added \in -180..180 /\ NoJumps(phases) =>
       \A i \in 1..Len(w) : w[i] \in -180..180

(* What wrapping keeps, by induction over the phases.                       *)
LEMMA WrappedKeeps ==
  ASSUME NEW phases \in Seq(Int), NEW added \in Int, Turns(added), NEW w, w = Wrapped(phases, added)
  PROVE  KeptWrapped(phases, added, w)
<1>1. PICK done : /\ WrapsTo(phases, added, done)
                  /\ w = [k \in 1..Len(phases) |-> done[k].phase]
  BY WrappedIs
<1>2. /\ done[0] = [phase |-> 0, added |-> added]
      /\ \A k \in 1..Len(phases) : done[k] = wrap_phase(phases[k], done[k - 1].added)
  BY <1>1 DEF WrapsTo
<1>3. Len(phases) \in Nat /\ \A k \in 1..Len(phases) : phases[k] \in Int
  OBVIOUS
<1> DEFINE T == {k \in Nat : k <= Len(phases) => done[k] \in Unwrapping}
<1>4. ASSUME NEW k \in Nat, k + 1 <= Len(phases), done[k] \in Unwrapping
      PROVE  /\ done[k + 1] \in Unwrapping
             /\ done[k + 1].phase = phases[k + 1] + done[k + 1].added
             /\ phases[k + 1] + done[k].added \in -540..540 => done[k + 1].phase \in -180..180
  <2>1. k + 1 \in 1..Len(phases) /\ (k + 1) - 1 = k
    BY <1>3, <1>4
  <2>2. PICK was \in Unwrapping : was = done[k]
    BY <1>4
  <2>3. PICK r : r = done[k + 1]
    OBVIOUS
  <2>4. r = wrap_phase(phases[k + 1], was.added)
    BY <1>2, <2>1, <2>2, <2>3
  <2>5. was.added \in Int /\ Turns(was.added) /\ phases[k + 1] \in Int
    BY <1>3, <2>1 DEF Unwrapping
  <2>6. PICK p \in Int : p = phases[k + 1]
    BY <2>5
  <2>7. /\ r \in Unwrapping /\ r.phase = p + r.added
        /\ p + was.added \in -540..540 => r.phase \in -180..180
    <3>1. r = wrap_phase(p, was.added)
      BY <2>4, <2>6
    <3> QED BY <2>5, <3>1, WrapStep
  <2> QED BY <2>2, <2>3, <2>6, <2>7
<1>5. Nat \subseteq T
  <2>1. 0 \in T
    BY <1>2 DEF Unwrapping
  <2>2. ASSUME NEW k \in Nat, k \in T PROVE k + 1 \in T
    BY <1>3, <1>4, <2>2
  <2> HIDE DEF T
  <2> QED BY <2>1, <2>2, Induction
<1>6. \A k \in 0..Len(phases) : done[k] \in Unwrapping /\ done[k].phase \in Int /\ done[k].added \in Int
  <2>1. \A k \in 0..Len(phases) : k \in T
    BY <1>3, <1>5
  <2>2. \A k \in 0..Len(phases) : done[k] \in Unwrapping
    BY <1>3, <2>1
  <2> QED BY <2>2 DEF Unwrapping
<1>7. \A k \in 1..Len(phases) : done[k].phase = phases[k] + done[k].added
  <2> SUFFICES ASSUME NEW k \in 1..Len(phases) PROVE done[k].phase = phases[k] + done[k].added
    OBVIOUS
  <2>1. PICK j \in Nat : k = j + 1 /\ j \in 0..Len(phases) /\ j + 1 <= Len(phases)
    <3>1. k - 1 \in Nat /\ k = (k - 1) + 1 /\ k - 1 \in 0..Len(phases)
      BY <1>3
    <3> QED BY <1>3, <3>1
  <2> QED BY <1>4, <1>6, <2>1
<1>8. w \in Seq(Int) /\ Len(w) = Len(phases) /\ \A k \in 1..Len(phases) : w[k] = done[k].phase
  <2>1. \A k \in 1..Len(phases) : done[k].phase \in Int
    BY <1>6
  <2> QED BY <1>1, <1>3, <2>1
<1>9. SameAngles(w, phases)
  <2>1. ASSUME NEW k \in 1..Len(phases) PROVE (w[k] - phases[k]) % 360 = 0
    <3>1. PICK a : a = done[k].added
      OBVIOUS
    <3>2. a \in Int /\ Turns(a)
      BY <1>6, <3>1 DEF Unwrapping
    <3>3. w[k] = phases[k] + a /\ w[k] \in Int /\ phases[k] \in Int
      BY <1>3, <1>7, <1>8, <3>1
    <3> QED BY <3>2, <3>3, TurnsVanish
  <2> QED BY <1>8, <2>1 DEF SameAngles
<1>10. ASSUME Len(phases) # 0, phases[1] + added \in -180..180, NoJumps(phases)
       PROVE  \A i \in 1..Len(w) : w[i] \in -180..180
  <2> DEFINE U == {k \in Nat : k + 1 <= Len(phases) => done[k + 1].phase \in -180..180}
  <2>1. 0 \in U
    <3>1. 0 + 1 = 1 /\ 0 + 1 <= Len(phases) /\ 0 \in 0..Len(phases)
      BY <1>3, <1>10
    <3>2. phases[0 + 1] + done[0].added \in -540..540
      BY <1>2, <1>10, <3>1
    <3>3. done[0 + 1].phase \in -180..180
      BY <1>4, <1>6, <3>1, <3>2
    <3> QED BY <3>3
  <2>2. ASSUME NEW k \in Nat, k \in U PROVE k + 1 \in U
    <3> SUFFICES ASSUME (k + 1) + 1 <= Len(phases) PROVE done[(k + 1) + 1].phase \in -180..180
      OBVIOUS
    <3>1. PICK i : i = k + 1
      OBVIOUS
    <3>2. i \in Nat /\ i + 1 <= Len(phases) /\ i \in 1..Len(phases) /\ i \in 0..Len(phases)
          /\ i \in 1..(Len(phases) - 1) /\ i + 1 \in 1..Len(phases) /\ k + 1 <= Len(phases)
      BY <1>3, <3>1
    <3>3. done[i].phase \in -180..180 /\ done[i].phase = phases[i] + done[i].added
      BY <1>7, <2>2, <3>1, <3>2
    <3>4. phases[i + 1] - phases[i] \in -180..180
      BY <1>10, <3>2 DEF NoJumps
    <3>5. phases[i + 1] \in Int /\ phases[i] \in Int /\ done[i].added \in Int
      BY <1>3, <1>6, <3>2
    <3>6. phases[i + 1] + done[i].added \in -540..540
      <4>1. PICK p, q, a \in Int : p = phases[i + 1] /\ q = phases[i] /\ a = done[i].added
        BY <3>5
      <4>2. q + a \in -180..180 /\ p - q \in -180..180
        BY <3>3, <3>4, <4>1
      <4>3. p + a \in -540..540
        BY <4>2
      <4> QED BY <4>1, <4>3
    <3> QED BY <1>4, <1>6, <3>1, <3>2, <3>6
  <2>3. Nat \subseteq U
    <3> HIDE DEF U
    <3> QED BY <2>1, <2>2, Induction
  <2> SUFFICES ASSUME NEW i \in 1..Len(w) PROVE w[i] \in -180..180
    OBVIOUS
  <2>4. PICK j \in Nat : i = j + 1 /\ j + 1 <= Len(phases)
    <3>1. i - 1 \in Nat /\ i = (i - 1) + 1
      BY <1>3, <1>8
    <3> QED BY <1>3, <1>8, <3>1
  <2>5. j \in U
    BY <2>3
  <2> QED BY <1>8, <2>4, <2>5
<1> QED BY <1>8, <1>9, <1>10 DEF KeptWrapped

(* Phases there are have a number.                                          *)
LEMMA SomePhases ==
  ASSUME NEW p \in Seq(Int), p # <<>>
  PROVE  Len(p) # 0
OBVIOUS

(* Phases are the same angles as themselves.                                *)
LEMMA SameAsItself ==
  ASSUME NEW p \in Seq(Int)
  PROVE  SameAngles(p, p)
<1>1. \A i \in DOMAIN p : p[i] \in Int
  OBVIOUS
<1>2. \A a \in Int : (a - a) % 360 = 0
  OBVIOUS
<1> QED BY <1>1, <1>2 DEF SameAngles

(* The phases that are printed are those that were calculated.              *)
PrintedAre(p, phases, unwrap) ==
  /\ p \in Seq(Int) /\ Len(p) = Len(phases) /\ SameAngles(p, phases)
  /\ unwrap /\ Len(p) # 0 => p[1] \in 0..359 /\ NoJumps(p)

(* PrintedPhases gives those, unwrapped or not.                             *)
LEMMA PrintedKeeps ==
  ASSUME NEW phases \in Seq(Int), \A i \in DOMAIN phases : phases[i] \in -180..180, NEW unwrap,
         NEW p, p = PrintedPhases(phases, unwrap)
  PROVE  PrintedAre(p, phases, unwrap)
<1>1. /\ Len(phases) \in Nat /\ DOMAIN phases = 1..Len(phases)
      /\ \A i \in 1..Len(phases) : phases[i] \in Int
  OBVIOUS
<1>2. CASE ~unwrap \/ phases = <<>>
  <2>1. p = phases
    BY <1>2 DEF PrintedPhases
  <2>2. unwrap => Len(p) = 0
    BY <1>2, <2>1
  <2> QED BY <2>1, <2>2, SameAsItself DEF PrintedAre
<1>3. CASE ~(~unwrap \/ phases = <<>>)
  <2>1. Len(phases) # 0
    BY <1>3
  <2>2. 1 \in 1..Len(phases)
    BY <1>1, <2>1
  <2>3. PICK f \in Int : f = phases[1]
    BY <1>1, <2>2
  <2>4. PICK added : added = IntoCircle(f)
    OBVIOUS
  <2>5. added \in Int /\ Turns(added) /\ f + added \in 0..359
    BY <2>4, CircleTurns
  <2>6. p = Unwrapped(phases, f + added, added)
    BY <1>3, <2>3, <2>4 DEF PrintedPhases
  <2>7. f + added \in Int /\ f + added - (f + added) = 0
    BY <2>5
  <2>8. KeptUnwrapped(phases, f + added, added, p)
    BY <2>5, <2>6, <2>7, UnwrappedKeeps
  <2>9. p \in Seq(Int) /\ Len(p) = Len(phases) /\ SameAngles(p, phases)
    BY <2>8 DEF KeptUnwrapped
  <2>10. p[1] = f + added
    BY <2>1, <2>3, <2>7, <2>8 DEF KeptUnwrapped
  <2>11. NoJumps(p)
    BY <1>1, <2>8 DEF KeptUnwrapped
  <2> QED BY <2>5, <2>9, <2>10, <2>11 DEF PrintedAre
<1> QED BY <1>2, <1>3

(* Between unwrapping and wrapping, the phases of a list stay what they are.*)
LEMMA ListKeeps ==
  ASSUME NEW phases \in Seq(Int), NEW u, u = ListUnwrapped(phases), NEW w, w = ListWrapped(phases, u)
  PROVE  /\ SameAngles(u, phases) /\ SameAngles(w, phases)
         /\ (\A i \in DOMAIN phases : phases[i] \in -180..180) =>
              NoJumps(u) /\ \A i \in DOMAIN w : w[i] \in -180..180
<1>1. KeptUnwrapped(phases, 0, 0, u)
  BY NoTurn, UnwrappedKeeps DEF ListUnwrapped
<1>2. u \in Seq(Int) /\ Len(u) = Len(phases) /\ SameAngles(u, phases)
  BY <1>1 DEF KeptUnwrapped
<1>3. /\ Len(phases) \in Nat /\ DOMAIN phases = 1..Len(phases) /\ DOMAIN u = 1..Len(phases)
      /\ \A i \in 1..Len(phases) : phases[i] \in Int /\ u[i] \in Int
  BY <1>2
<1>4. (\A i \in DOMAIN phases : phases[i] \in -180..180) => NoJumps(u)
  BY <1>1, <1>3 DEF KeptUnwrapped
<1>5. CASE u = phases
  <2>1. w = u
    BY <1>5 DEF ListWrapped
  <2> HIDE DEF SameAngles, NoJumps
  <2> QED BY <1>2, <1>4, <1>5, <2>1
<1>6. CASE u # phases
  <2>1. Len(phases) # 0
    BY <1>2, <1>6
  <2>2. 1 \in 1..Len(phases)
    BY <1>3, <2>1
  <2>3. PICK f \in Int : f = u[1]
    BY <1>3, <2>2
  <2>4. PICK added : added = IntoHalves(f)
    OBVIOUS
  <2>5. added \in Int /\ Turns(added) /\ (f \in -180..180 => added = 0)
    BY <2>4, HalvesTurns
  <2>6. w = Wrapped(u, added)
    BY <1>6, <2>3, <2>4 DEF ListWrapped, ListUnwrapped
  <2>7. KeptWrapped(u, added, w)
    BY <1>2, <2>5, <2>6, WrappedKeeps
  <2>8. w \in Seq(Int) /\ Len(w) = Len(phases) /\ SameAngles(w, u)
    BY <1>2, <2>7 DEF KeptWrapped
  <2>9. DOMAIN w = 1..Len(phases) /\ \A i \in 1..Len(phases) : w[i] \in Int
    BY <2>8
  <2>10. SameAngles(w, phases)
    <3>1. ASSUME NEW i \in 1..Len(phases) PROVE (w[i] - phases[i]) % 360 = 0
      <4>1. w[i] \in Int /\ u[i] \in Int /\ phases[i] \in Int
        BY <1>3, <2>9
      <4>2. (w[i] - u[i]) % 360 = 0 /\ (u[i] - phases[i]) % 360 = 0
        <5>1. i \in DOMAIN w /\ SameAngles(w, u)
          BY <2>8, <2>9, Zenon
        <5>2. i \in DOMAIN u /\ SameAngles(u, phases)
          BY <1>2, <1>3, Zenon
        <5>3. (w[i] - u[i]) % 360 = 0
          BY <5>1, Zenon DEF SameAngles
        <5>4. (u[i] - phases[i]) % 360 = 0
          BY <5>2, Zenon DEF SameAngles
        <5> QED BY <5>3, <5>4
      <4>3. PICK a, b, c \in Int : a = w[i] /\ b = u[i] /\ c = phases[i]
        BY <4>1
      <4>4. (a - b) % 360 = 0 /\ (b - c) % 360 = 0
        BY <4>2, <4>3
      <4>5. (a - c) % 360 = 0
        BY <4>4, AnglesCompose
      <4> QED BY <4>3, <4>5
    <3>2. \A i \in 1..Len(phases) : (w[i] - phases[i]) % 360 = 0
      BY <3>1, Zenon
    <3> QED BY <2>8, <2>9, <3>2, Zenon DEF SameAngles
  <2>11. ASSUME \A i \in DOMAIN phases : phases[i] \in -180..180
         PROVE  \A i \in DOMAIN w : w[i] \in -180..180
    <3>1. phases[1] \in -180..180 /\ phases[1] \in Int
      BY <1>3, <2>2, <2>11
    <3>2. phases[1] + 0 - 0 = phases[1] /\ phases[1] + 0 = phases[1]
      BY <3>1
    <3>3. f = phases[1]
      BY <1>1, <2>1, <2>3, <3>1, <3>2 DEF KeptUnwrapped
    <3>4. f + added = f /\ f \in -180..180
      BY <2>5, <3>1, <3>3
    <3>5. NoJumps(u)
      BY <1>4, <2>11
    <3> QED BY <1>2, <2>1, <2>3, <2>7, <2>8, <2>9, <3>4, <3>5 DEF KeptWrapped
  <2> QED BY <1>2, <1>4, <2>10, <2>11
<1> QED BY <1>5, <1>6

(* What PhasesSurvive says of what is printed, and of a list.               *)
AnglesSurvive(printed, phases, unwrap) ==
  /\ SameAngles(printed, phases)
  /\ unwrap /\ printed # <<>> => printed[1] \in 0..359 /\ NoJumps(printed)

PrintedSurvive(rows, phases, unwrap) ==
  AnglesSurvive([i \in DOMAIN rows |-> rows[i][2][2]], phases, unwrap)

ListSurvive(u, w, phases) ==
  /\ SameAngles(u, phases) /\ SameAngles(w, phases)
  /\ (\A i \in DOMAIN phases : phases[i] \in -180..180) =>
       NoJumps(u) /\ \A i \in DOMAIN w : w[i] \in -180..180

(* PhasesSurvive in the next state, from what is said of it.                *)
LEMMA PhasesSurviveIf ==
  ASSUME answer'.of = "output" /\ answer'.char.status = "OK" /\ question'.format = "phase" =>
           PrintedSurvive(answer'.char.rows, question'.phases, question'.unwrap),
         answer'.of = "list" => ListSurvive(answer'.unwrapped, answer'.wrapped, question'.phases)
  PROVE  PhasesSurvive'
BY Zenon DEF PhasesSurvive, PrintedSurvive, AnglesSurvive, ListSurvive

(* The column that holds the phase.                                         *)
LEMMA RowsSurvive ==
  ASSUME NEW phases \in Seq(Int), \A i \in DOMAIN phases : phases[i] \in -180..180, NEW unwrap,
         NEW p, p = PrintedPhases(phases, unwrap),
         NEW rows, rows = [i \in DOMAIN phases |-> Columns("phase", i, p)]
  PROVE  PrintedSurvive(rows, phases, unwrap)
<1>1. /\ p \in Seq(Int) /\ Len(p) = Len(phases) /\ SameAngles(p, phases)
      /\ unwrap /\ Len(p) # 0 => p[1] \in 0..359 /\ NoJumps(p)
  <2>1. PrintedAre(p, phases, unwrap)
    BY PrintedKeeps
  <2> QED BY <2>1 DEF PrintedAre
<1>2. \A i \in DOMAIN phases : Columns("phase", i, p)[2][2] = p[i]
  BY DEF Columns
<1>3. DOMAIN phases = 1..Len(p) /\ DOMAIN p = 1..Len(p) /\ p = [i \in 1..Len(p) |-> p[i]]
  BY <1>1
<1>4. DOMAIN rows = 1..Len(p) /\ \A i \in 1..Len(p) : rows[i][2][2] = p[i]
  BY <1>2, <1>3
<1>5. [i \in DOMAIN rows |-> rows[i][2][2]] = p
  BY <1>3, <1>4
<1>6. ASSUME p # <<>> PROVE Len(p) # 0
  <2>1. p \in Seq(Int)
    BY <1>1
  <2> QED BY <2>1, <1>6, SomePhases
<1>7. AnglesSurvive(p, phases, unwrap)
  BY <1>1, <1>6, Zenon DEF AnglesSurvive
<1> QED BY <1>5, <1>7, Zenon DEF PrintedSurvive

(* A response that is written keeps PhasesSurvive.                          *)
LEMMA WriteKeepsPhases ==
  ASSUME question.phases \in Seq(Int), \A i \in DOMAIN question.phases : question.phases[i] \in -180..180,
         WriteResponse
  PROVE  PhasesSurvive'
<1>1. PICK phases, unwrap, p, result :
        /\ phases = question.phases /\ unwrap = question.unwrap /\ p = PrintedPhases(phases, unwrap)
        /\ result = ResponseToChar(question.phases, question.fault, question.unwrap, question.format, question.refused)
  OBVIOUS
<1>2. question' = question /\ answer'.of = "output" /\ answer'.char = result
  BY <1>1 DEF WriteResponse, Answer
<1>3. phases \in Seq(Int) /\ \A i \in DOMAIN phases : phases[i] \in -180..180
  BY <1>1
<1>4. ASSUME result.status = "OK", question.format = "phase"
      PROVE  PrintedSurvive(result.rows, phases, unwrap)
  <2>1. result = [status |-> "OK", rows |-> [i \in DOMAIN phases |-> Columns("phase", i, p)]]
    BY <1>1, <1>4 DEF ResponseToChar
  <2>2. PICK rows : rows = [i \in DOMAIN phases |-> Columns("phase", i, p)]
    OBVIOUS
  <2>3. result.rows = rows
    BY <2>1, <2>2
  <2>4. p = PrintedPhases(phases, unwrap)
    BY <1>1
  <2>5. PrintedSurvive(rows, phases, unwrap)
    BY <1>3, <2>2, <2>4, RowsSurvive
  <2> QED BY <2>3, <2>5
<1>5. answer'.of = "output" /\ answer'.char.status = "OK" /\ question'.format = "phase" =>
        PrintedSurvive(answer'.char.rows, question'.phases, question'.unwrap)
  BY <1>1, <1>2, <1>4
<1>6. answer'.of # "list"
  BY <1>2
<1> QED BY <1>5, <1>6, PhasesSurviveIf

(* A response list that is interpolated keeps PhasesSurvive.                *)
LEMMA ListKeepsPhases ==
  ASSUME question.phases \in Seq(Int), InterpolatePhases
  PROVE  PhasesSurvive'
<1>1. PICK phases \in Seq(Int) : phases = question.phases
  OBVIOUS
<1>2. PICK u : u = ListUnwrapped(phases)
  OBVIOUS
<1>3. PICK w : w = ListWrapped(phases, u)
  OBVIOUS
<1>4. question' = question /\ answer'.of = "list" /\ answer'.unwrapped = u /\ answer'.wrapped = w
  BY <1>1, <1>2, <1>3 DEF InterpolatePhases, Answer
<1>5. ListSurvive(u, w, phases)
  BY <1>2, <1>3, ListKeeps DEF ListSurvive
<1>6. answer'.of # "output"
  BY <1>4
<1>7. ListSurvive(answer'.unwrapped, answer'.wrapped, question'.phases)
  BY <1>1, <1>4, <1>5
<1> QED BY <1>6, <1>7, PhasesSurviveIf

(* What is in a line: the number of a stage, and what its blockettes add.   *)
Words == Nat \cup STRING \cup {"GAIN Sd", "Sd", "SamInt"}

LogLine == [out_str : Seq(Words), lines : Seq(Seq(Words))]

(* What blockettes add to a line is words.                                  *)
LEMMA ItemsAreWords ==
  ASSUME NEW stage \in DescribedStage
  PROVE  Items(stage) \in Seq(Words)
<1>1. stage.blkts \in Seq(STRING)
  BY DEF DescribedStage
<1>2. PICK blkts \in Seq(STRING) : blkts = stage.blkts
  BY <1>1
<1>3. ASSUME NEW k \in 1..Len(blkts) PROVE Item(blkts[k], k = 1, stage.no) \in Seq(Words)
  <2>1. PICK type \in STRING : type = blkts[k]
    BY ElementOfSeq
  <2>2. /\ type \in Words /\ "GAIN Sd" \in Words /\ "Sd" \in Words /\ "SamInt" \in Words
    BY Zenon DEF Words
  <2>3. /\ <<>> \in Seq(Words) /\ <<"GAIN Sd">> \in Seq(Words) /\ <<"Sd">> \in Seq(Words)
        /\ <<"SamInt">> \in Seq(Words) /\ <<type>> \in Seq(Words)
    BY <2>2, OneLong, Zenon
  <2>4. \/ Item(type, k = 1, stage.no) = <<>>
        \/ Item(type, k = 1, stage.no) = <<"GAIN Sd">>
        \/ Item(type, k = 1, stage.no) = <<"Sd">>
        \/ Item(type, k = 1, stage.no) = <<"SamInt">>
        \/ Item(type, k = 1, stage.no) = <<type>>
    BY DEF Item
  <2> QED BY <2>1, <2>3, <2>4
<1> DEFINE parts == [k \in DOMAIN blkts |-> Item(blkts[k], k = 1, stage.no)]
<1>4. Items(stage) = FlattenSeq(parts)
  BY <1>2 DEF Items
<1>5. parts \in Seq(Seq(Words))
  <2>1. Len(blkts) \in Nat /\ DOMAIN blkts = 1..Len(blkts)
    OBVIOUS
  <2>2. parts \in [1..Len(blkts) -> Seq(Words)]
    BY <1>3, <2>1
  <2> HIDE DEF parts
  <2> QED BY <2>1, <2>2
<1> HIDE DEF parts
<1> QED BY <1>4, <1>5, FlattenInSeq

(* A line is words.                                                         *)
LEMMA LineIsWords ==
  ASSUME NEW stage \in DescribedStage, NEW out_str \in Seq(Words)
  PROVE  LineOf(out_str, stage) \in Seq(Words)
<1>1. PICK items \in Seq(Words) : items = Items(stage)
  BY ItemsAreWords
<1>2. stage.no \in Nat
  BY DEF DescribedStage
<1>3. PICK no \in Words : no = stage.no
  BY <1>2 DEF Words
<1>4. <<no>> \in Seq(Words)
  OBVIOUS
<1>5. PICK first \in Seq(Words) : first = IF stage.no # 0 THEN <<stage.no>> ELSE out_str
  BY <1>3, <1>4
<1>6. first \o items \in Seq(Words)
  OBVIOUS
<1> QED BY <1>1, <1>5, <1>6 DEF LineOf

(* One stage after the other.                                               *)
LineAdded(stage, options, was) ==
  IF ~StageInRange(stage.no, options) THEN was
  ELSE LET line == LineOf(was.out_str, stage)
       IN  [out_str |-> line, lines |-> IF stage.no # 0 THEN Append(was.lines, line) ELSE was.lines]

(* With one stage more, there are lines again.                              *)
LEMMA LineAddedIs ==
  ASSUME NEW stage \in DescribedStage, NEW options, NEW was \in LogLine
  PROVE  LineAdded(stage, options, was) \in LogLine
<1>1. was.out_str \in Seq(Words) /\ was.lines \in Seq(Seq(Words))
  BY DEF LogLine
<1>2. PICK lines \in Seq(Seq(Words)) : lines = was.lines
  BY <1>1
<1>3. PICK line \in Seq(Words) : line = LineOf(was.out_str, stage)
  BY <1>1, LineIsWords
<1>4. Append(lines, line) \in Seq(Seq(Words))
  OBVIOUS
<1>5. CASE ~StageInRange(stage.no, options)
  BY <1>5 DEF LineAdded
<1>6. CASE ~~StageInRange(stage.no, options)
  <2>1. PICK more \in Seq(Seq(Words)) : more = IF stage.no # 0 THEN Append(lines, line) ELSE lines
    BY <1>4
  <2>2. LineAdded(stage, options, was) = [out_str |-> line, lines |-> more]
    BY <1>2, <1>3, <1>6, <2>1 DEF LineAdded
  <2>3. [out_str |-> line, lines |-> more] \in LogLine
    BY DEF LogLine
  <2> QED BY <2>2, <2>3
<1> QED BY <1>5, <1>6

LinesTo(stages, options, done) ==
  /\ done[0] = [out_str |-> <<>>, lines |-> <<>>]
  /\ \A k \in 1..Len(stages) : done[k] = LineAdded(stages[k], options, done[k - 1])

(* Lines takes one stage after the other.                                   *)
LEMMA LinesIs ==
  ASSUME NEW stages \in Seq(DescribedStage), NEW options
  PROVE  \E done : /\ LinesTo(stages, options, done) /\ \A k \in 0..Len(stages) : done[k] \in LogLine
                   /\ Lines(stages, options) = done[Len(stages)].lines
<1> DEFINE n == Len(stages)
           first == [out_str |-> <<>>, lines |-> <<>>]
           Body(f) == [k \in 0..n |-> IF k = 0 THEN first
                                      ELSE IF ~StageInRange(stages[k].no, options) THEN f[k - 1]
                                      ELSE LET line == LineOf(f[k - 1].out_str, stages[k])
                                           IN  [out_str |-> line,
                                                lines |-> IF stages[k].no # 0 THEN Append(f[k - 1].lines, line)
                                                          ELSE f[k - 1].lines]]
           BodyAdded(f) == [k \in 0..n |-> IF k = 0 THEN first ELSE LineAdded(stages[k], options, f[k - 1])]
           done == CHOOSE f : f = Body(f)
           G == [p \in (1..n) \X LogLine |-> LineAdded(stages[p[1]], options, p[2])]
<1>1. Lines(stages, options) = done[n].lines
  BY DEF Lines
<1>2. n \in Nat /\ first \in LogLine
  <2>1. <<>> \in Seq(Words) /\ <<>> \in Seq(Seq(Words))
    OBVIOUS
  <2> QED BY <2>1 DEF LogLine
<1>3. G \in [(1..n) \X LogLine -> LogLine]
  <2>1. ASSUME NEW k \in 1..n, NEW was \in LogLine PROVE LineAdded(stages[k], options, was) \in LogLine
    <3>1. stages[k] \in DescribedStage
      OBVIOUS
    <3> QED BY <3>1, LineAddedIs
  <2> HIDE DEF n
  <2> QED BY <2>1
<1>4. PICK f : Stepped(n, LogLine, first, G, f)
  <2> HIDE DEF G, n, first
  <2> QED BY <1>2, <1>3, StepsExist
<1>5. \A f1 : Body(f1) = BodyAdded(f1)
  BY DEF LineAdded
<1>6. f = BodyAdded(f)
  <2>1. f \in [0..n -> LogLine] /\ f[0] = first /\ \A k \in 1..n : f[k] = G[<<k, f[k - 1]>>]
    BY <1>4 DEF Stepped
  <2>2. ASSUME NEW k \in 0..n PROVE f[k] = IF k = 0 THEN first ELSE LineAdded(stages[k], options, f[k - 1])
    <3>1. CASE k = 0
      BY <2>1, <3>1
    <3>2. CASE k # 0
      <4>1. k \in 1..n /\ k - 1 \in 0..n
        BY <1>2, <3>2
      <4>2. PICK was \in LogLine : was = f[k - 1]
        BY <2>1, <4>1
      <4>3. f[k] = G[<<k, was>>]
        BY <2>1, <4>1, <4>2
      <4>4. G[<<k, was>>] = LineAdded(stages[k], options, was)
        <5> HIDE DEF n
        <5> QED BY <4>1
      <4> HIDE DEF G
      <4> QED BY <3>2, <4>2, <4>3, <4>4
    <3> QED BY <3>1, <3>2
  <2> HIDE DEF G, n, first
  <2> QED BY <2>1, <2>2
<1>7. done = BodyAdded(done)
  <2>1. f = Body(f)
    <3> HIDE DEF Body, BodyAdded
    <3> QED BY <1>5, <1>6
  <2>2. done = Body(done)
    <3> HIDE DEF Body
    <3> QED BY <2>1
  <2> HIDE DEF Body, BodyAdded, done
  <2> QED BY <1>5, <2>2
<1>8. done[0] = first /\ \A k \in 1..n : done[k] = LineAdded(stages[k], options, done[k - 1])
  <2>1. 0 \in 0..n /\ \A k \in 1..n : k \in 0..n /\ k # 0
    BY <1>2
  <2> HIDE DEF done, n, first
  <2> QED BY <1>7, <2>1
<1>9. \A k \in 0..n : done[k] \in LogLine
  <2> DEFINE T == {k \in Nat : k <= n => done[k] \in LogLine}
  <2>1. 0 \in T
    <3> HIDE DEF done, n, first
    <3> QED BY <1>2, <1>8
  <2>2. ASSUME NEW k \in Nat, k \in T PROVE k + 1 \in T
    <3> SUFFICES ASSUME k + 1 <= n PROVE done[k + 1] \in LogLine
      <4> HIDE DEF done, n
      <4> QED OBVIOUS
    <3>1. k + 1 \in 1..n /\ (k + 1) - 1 = k /\ k <= n
      BY <1>2
    <3>2. stages[k + 1] \in DescribedStage
      BY <3>1
    <3>3. PICK was \in LogLine : was = done[k]
      <4> HIDE DEF done, n
      <4> QED BY <2>2, <3>1
    <3>4. done[k + 1] = LineAdded(stages[k + 1], options, was)
      <4> HIDE DEF done, n, first
      <4> QED BY <1>8, <3>1, <3>3
    <3> HIDE DEF done
    <3> QED BY <3>2, <3>4, LineAddedIs
  <2>3. Nat \subseteq T
    <3> HIDE DEF T
    <3> QED BY <2>1, <2>2, Induction
  <2>4. \A k \in 0..n : done[k] \in LogLine
    <3> HIDE DEF done, n
    <3> QED BY <1>2, <2>3
  <2> HIDE DEF done, n
  <2> QED BY <2>4
<1> QED
  <2> HIDE DEF done
  <2> QED BY <1>1, <1>8, <1>9 DEF LinesTo

(* What the log has of a stage.                                             *)
InLog(stage, options) == stage.no # 0 /\ StageInRange(stage.no, options)

LinesOf(stages, options, n) ==
  [k \in 1..n |-> IF InLog(stages[k], options) THEN <<<<stages[k].no>> \o Items(stages[k])>> ELSE <<>>]

(* What the log should have of the stages is lines of words.                *)
LEMMA LinesOfWords ==
  ASSUME NEW stages \in Seq(DescribedStage), NEW options, NEW n \in Nat, n <= Len(stages)
  PROVE  LinesOf(stages, options, n) \in Seq(Seq(Seq(Words)))
<1>1. ASSUME NEW k \in 1..n
      PROVE  (IF InLog(stages[k], options) THEN <<<<stages[k].no>> \o Items(stages[k])>> ELSE <<>>) \in Seq(Seq(Words))
  <2>1. stages[k] \in DescribedStage
    <3>1. k \in 1..Len(stages)
      OBVIOUS
    <3> QED BY <3>1, ElementOfSeq
  <2>2. PICK stage \in DescribedStage : stage = stages[k]
    BY <2>1
  <2>3. PICK items \in Seq(Words) : items = Items(stage)
    BY ItemsAreWords
  <2>4. stage.no \in Words
    <3>1. stage.no \in Nat
      BY DEF DescribedStage
    <3> QED BY <3>1, Zenon DEF Words
  <2>5. PICK no \in Words : no = stage.no
    BY <2>4
  <2>6. <<no>> \o items \in Seq(Words)
    OBVIOUS
  <2>7. PICK line \in Seq(Words) : line = <<stages[k].no>> \o Items(stages[k])
    BY <2>2, <2>3, <2>5, <2>6
  <2>8. <<line>> \in Seq(Seq(Words)) /\ <<>> \in Seq(Seq(Words))
    OBVIOUS
  <2> QED BY <2>7, <2>8
<1>2. LinesOf(stages, options, n) \in [1..n -> Seq(Seq(Words))]
  BY <1>1 DEF LinesOf
<1>3. PICK p : p = LinesOf(stages, options, n)
  OBVIOUS
<1>4. p \in [1..n -> Seq(Seq(Words))]
  BY <1>2, <1>3
<1> QED BY <1>3, <1>4

(* What it should have of one stage more.                                   *)
LEMMA LinesOfMore ==
  ASSUME NEW stages \in Seq(DescribedStage), NEW options, NEW n \in Nat, n + 1 <= Len(stages)
  PROVE  LinesOf(stages, options, n + 1) =
           Append(LinesOf(stages, options, n),
                  IF InLog(stages[n + 1], options) THEN <<<<stages[n + 1].no>> \o Items(stages[n + 1])>> ELSE <<>>)
<1> DEFINE Part(k) == IF InLog(stages[k], options) THEN <<<<stages[k].no>> \o Items(stages[k])>> ELSE <<>>
<1>1. \A m : LinesOf(stages, options, m) = [k \in 1..m |-> Part(k)]
  BY DEF LinesOf
<1>2. PICK p : p = [k \in 1..n |-> Part(k)]
  OBVIOUS
<1>3. PICK q : q = [k \in 1..(n + 1) |-> Part(k)]
  OBVIOUS
<1>4. p \in Seq(Seq(Seq(Words))) /\ q \in Seq(Seq(Seq(Words)))
  <2>1. n <= Len(stages) /\ n + 1 \in Nat
    <3>1. Len(stages) \in Nat
      OBVIOUS
    <3> QED BY <3>1
  <2>2. p = LinesOf(stages, options, n) /\ q = LinesOf(stages, options, n + 1)
    <3> HIDE DEF Part
    <3> QED BY <1>1, <1>2, <1>3
  <2> QED BY <2>1, <2>2, LinesOfWords
<1> HIDE DEF Part
<1>5. Len(p) = n /\ Len(q) = n + 1 /\ n + 1 \in 1..(n + 1)
  BY <1>2, <1>3, <1>4
<1>6. q = Append(p, Part(n + 1))
  <2>1. q[n + 1] = Part(n + 1) /\ \A k \in 1..n : k \in 1..(n + 1) /\ q[k] = p[k]
    BY <1>2, <1>3, <1>5
  <2>2. q[n + 1] \in Seq(Seq(Words))
    BY <1>4, <1>5, ElementOfSeq
  <2> QED BY <1>4, <1>5, <2>1, <2>2, AppendIs
<1> QED BY <1>1, <1>2, <1>3, <1>6 DEF Part

(* The lines are those of the described stages, each begun anew.            *)
LEMMA LinesAre ==
  ASSUME NEW stages \in Seq(DescribedStage), NEW options
  PROVE  Lines(stages, options) = FlattenSeq(LinesOf(stages, options, Len(stages)))
<1>1. PICK done : /\ LinesTo(stages, options, done) /\ \A k \in 0..Len(stages) : done[k] \in LogLine
                  /\ Lines(stages, options) = done[Len(stages)].lines
  BY LinesIs
<1>2. Len(stages) \in Nat
  OBVIOUS
<1> DEFINE T == {k \in Nat : k <= Len(stages) => done[k].lines = FlattenSeq(LinesOf(stages, options, k))}
<1>3. 0 \in T
  <2>1. LinesOf(stages, options, 0) = <<>>
    BY DEF LinesOf
  <2>2. done[0].lines = <<>>
    BY <1>1 DEF LinesTo
  <2> QED BY <2>1, <2>2, FlattenEmpty
<1>4. ASSUME NEW k \in Nat, k \in T PROVE k + 1 \in T
  <2> SUFFICES ASSUME k + 1 <= Len(stages) PROVE done[k + 1].lines = FlattenSeq(LinesOf(stages, options, k + 1))
    OBVIOUS
  <2>1. k + 1 \in 1..Len(stages) /\ (k + 1) - 1 = k /\ k <= Len(stages) /\ k \in 0..Len(stages)
    BY <1>2
  <2>2. PICK stage \in DescribedStage : stage = stages[k + 1]
    BY <2>1, ElementOfSeq
  <2>3. PICK was \in LogLine : was = done[k]
    BY <1>1, <2>1
  <2>4. done[k + 1] = LineAdded(stage, options, was)
    BY <1>1, <2>1, <2>2, <2>3 DEF LinesTo
  <2>5. PICK parts \in Seq(Seq(Seq(Words))) : parts = LinesOf(stages, options, k)
    BY <2>1, LinesOfWords
  <2>6. was.lines = FlattenSeq(parts) /\ was.lines \in Seq(Seq(Words))
    BY <1>4, <2>1, <2>3, <2>5 DEF LogLine
  <2>7. PICK lines \in Seq(Seq(Words)) : lines = was.lines
    BY <2>6
  <2>8. PICK line : line = LineOf(was.out_str, stage)
    OBVIOUS
  <2>9. line \in Seq(Words)
    <3>1. was.out_str \in Seq(Words)
      BY DEF LogLine
    <3> QED BY <2>8, <3>1, LineIsWords
  <2>10. CASE InLog(stage, options)
    <3>1. line = <<stage.no>> \o Items(stage)
      BY <2>8, <2>10 DEF LineOf, InLog
    <3>2. done[k + 1].lines = Append(lines, line)
      BY <2>4, <2>7, <2>8, <2>10 DEF LineAdded, InLog
    <3>3. LinesOf(stages, options, k + 1) = Append(parts, <<line>>)
      BY <2>2, <2>5, <2>10, <3>1, LinesOfMore
    <3>4. <<line>> \in Seq(Seq(Words))
      BY <2>9
    <3>5. FlattenSeq(Append(parts, <<line>>)) = FlattenSeq(parts) \o <<line>>
      BY <3>4, FlattenAppend
    <3>6. lines \o <<line>> = Append(lines, line)
      BY <2>9
    <3> QED BY <2>6, <2>7, <3>2, <3>3, <3>5, <3>6
  <2>11. CASE ~InLog(stage, options)
    <3>1. done[k + 1].lines = lines
      BY <2>4, <2>7, <2>11 DEF LineAdded, InLog
    <3>2. LinesOf(stages, options, k + 1) = Append(parts, <<>>)
      BY <2>2, <2>5, <2>11, LinesOfMore
    <3>3. <<>> \in Seq(Seq(Words))
      OBVIOUS
    <3>4. FlattenSeq(Append(parts, <<>>)) = FlattenSeq(parts) \o <<>>
      BY <3>3, FlattenAppend
    <3>5. lines \o <<>> = lines
      BY ConcatEmptySeq
    <3> QED BY <2>6, <2>7, <3>1, <3>2, <3>4, <3>5
  <2> QED BY <2>10, <2>11
<1>5. Nat \subseteq T
  <2> HIDE DEF T
  <2> QED BY <1>3, <1>4, Induction
<1>6. Len(stages) \in T
  <2> HIDE DEF T
  <2> QED BY <1>2, <1>5
<1> QED BY <1>1, <1>2, <1>6

(* Describing a channel keeps StagesDescribed.                              *)
LEMMA DescribeKeeps ==
  ASSUME question.stages \in Seq(DescribedStage), Describe
  PROVE  StagesDescribed'
<1>1. PICK stages \in Seq(DescribedStage) : stages = question.stages
  OBVIOUS
<1>2. PICK options : options = question.options
  OBVIOUS
<1>3. question' = question /\ answer'.log = ChannelToLog(stages, options)
  BY <1>1, <1>2 DEF Describe, Answer
<1>4. answer'.log.lines = Lines(stages, options)
  BY <1>3 DEF ChannelToLog
<1>5. Lines(stages, options) = FlattenSeq(LinesOf(stages, options, Len(stages)))
  BY LinesAre
<1>6. DOMAIN stages = 1..Len(stages)
  OBVIOUS
<1>7. LinesOf(stages, options, Len(stages)) =
        [k \in DOMAIN stages |-> IF stages[k].no # 0 /\ StageInRange(stages[k].no, options)
                                 THEN <<<<stages[k].no>> \o Items(stages[k])>> ELSE <<>>]
  BY <1>6 DEF LinesOf, InLog
<1> QED BY <1>1, <1>2, <1>3, <1>4, <1>5, <1>7 DEF StagesDescribed

Inside(req, ends) == {i \in DOMAIN req : Within(req[i], ends)}

(* From where and up to where frequencies are kept.                         *)
LEMMA BelowIs ==
  ASSUME NEW req \in Seq(Int), NEW ends, NEW inside, inside = Inside(req, ends)
  PROVE  \E i, fix : /\ ClippedBelow(req, ends) = [from |-> IF fix THEN i - 1 ELSE i, fix |-> fix]
                     /\ fix <=> i > 1 /\ Near(req[i - 1], ends.first)
                     /\ inside = {} => i = Len(req) + 1
                     /\ inside # {} => i \in inside /\ \A j \in inside : i <= j
<1> DEFINE i == IF inside = {} THEN Len(req) + 1 ELSE CHOOSE x \in inside : \A j \in inside : x <= j
           fix == i > 1 /\ Near(req[i - 1], ends.first)
<1>1. ClippedBelow(req, ends) = [from |-> IF fix THEN i - 1 ELSE i, fix |-> fix]
  BY DEF ClippedBelow, Inside
<1>2. ASSUME inside # {} PROVE i \in inside /\ \A j \in inside : i <= j
  <2>1. inside \subseteq Nat
    BY DEF Inside
  <2>2. \E x \in inside : \A j \in inside : x <= j
    BY <1>2, <2>1, LeastNumber
  <2>3. i = CHOOSE x \in inside : \A j \in inside : x <= j
    BY <1>2
  <2> HIDE DEF i
  <2> QED BY <2>2, <2>3
<1>3. inside = {} => i = Len(req) + 1
  OBVIOUS
<1> HIDE DEF i
<1> QED BY <1>1, <1>2, <1>3

(* The same from the other end.                                             *)
LEMMA AboveIs ==
  ASSUME NEW req \in Seq(Int), NEW ends, NEW inside, inside = Inside(req, ends)
  PROVE  \E i, fix : /\ ClippedAbove(req, ends) = [to |-> IF fix THEN i + 1 ELSE i, fix |-> fix]
                     /\ fix <=> i < Len(req) /\ Near(req[i + 1], ends.last)
                     /\ inside = {} => i = 0
                     /\ inside # {} => i \in inside /\ \A j \in inside : j <= i
<1> DEFINE i == IF inside = {} THEN 0 ELSE CHOOSE x \in inside : \A j \in inside : j <= x
           fix == i < Len(req) /\ Near(req[i + 1], ends.last)
<1>1. ClippedAbove(req, ends) = [to |-> IF fix THEN i + 1 ELSE i, fix |-> fix]
  BY DEF ClippedAbove, Inside
<1>2. ASSUME inside # {} PROVE i \in inside /\ \A j \in inside : j <= i
  <2>1. inside \subseteq 1..Len(req) /\ Len(req) \in Nat
    BY DEF Inside
  <2>2. \E x \in inside : \A j \in inside : j <= x
    BY <1>2, <2>1, GreatestNumber
  <2>3. i = CHOOSE x \in inside : \A j \in inside : j <= x
    BY <1>2
  <2> HIDE DEF i
  <2> QED BY <2>2, <2>3
<1>3. inside = {} => i = 0
  OBVIOUS
<1> HIDE DEF i
<1> QED BY <1>1, <1>2, <1>3

(* What is asked for rises.                                                 *)
Rising(req) == \A i, j \in DOMAIN req : i < j => req[i] <= req[j]

Ends(list) == IF list.first > list.last THEN [first |-> list.last, last |-> list.first] ELSE list

(* Without a frequency inside, none is near both ends, nor is a later one   *)
(* near the lower end than one near the upper.                              *)
LEMMA NoneInside ==
  ASSUME NEW req \in Seq(Int), NEW ends \in [first : Int, last : Int], ends.first < ends.last,
         Inside(req, ends) = {},
         NEW below, below = ClippedBelow(req, ends), NEW above, above = ClippedAbove(req, ends)
  PROVE  below.from > Len(req) \/ above.to < below.from
<1>1. PICK i, fixB : /\ below = [from |-> IF fixB THEN i - 1 ELSE i, fix |-> fixB]
                     /\ fixB <=> i > 1 /\ Near(req[i - 1], ends.first)
                     /\ i = Len(req) + 1
  BY BelowIs
<1>2. PICK j, fixA : /\ above = [to |-> IF fixA THEN j + 1 ELSE j, fix |-> fixA]
                     /\ fixA <=> j < Len(req) /\ Near(req[j + 1], ends.last)
                     /\ j = 0
  BY AboveIs
<1>3. PICK n \in Nat : n = Len(req) /\ DOMAIN req = 1..n
  OBVIOUS
<1>4. PICK first, last \in Int : first = ends.first /\ last = ends.last /\ first < last
  OBVIOUS
<1>5. CASE ~fixB
  <2>1. below.from = n + 1
    BY <1>1, <1>3, <1>5
  <2> QED BY <1>3, <2>1
<1>6. CASE fixB /\ ~fixA
  <2>1. below.from = n /\ above.to = 0 /\ n > 0
    BY <1>1, <1>2, <1>3, <1>6
  <2> QED BY <2>1
<1>7. CASE fixB /\ fixA
  <2>1. below.from = n /\ above.to = 1 /\ n > 0 /\ Near(req[n], first) /\ Near(req[1], last)
    BY <1>1, <1>2, <1>3, <1>4, <1>7
  <2>2. CASE n = 1
    <3>1. 1 \in DOMAIN req
      BY <1>3, <2>2
    <3>2. PICK f \in Int : f = req[1]
      BY <3>1
    <3>3. f \in (first - 1)..(first + 1) /\ f \in (last - 1)..(last + 1)
      BY <2>1, <2>2, <3>2 DEF Near
    <3>4. first <= f /\ f <= last
      BY <1>4, <3>3
    <3>5. 1 \in Inside(req, ends)
      BY <1>4, <3>1, <3>2, <3>4 DEF Inside, Within
    <3> QED BY <3>5
  <2>3. CASE n # 1
    BY <2>1, <2>3
  <2> QED BY <2>2, <2>3
<1> QED BY <1>5, <1>6, <1>7

(* A part of the frequencies asked for.                                     *)
LEMMA SubSeqIs ==
  ASSUME NEW s \in Seq(Int), NEW b \in 1..Len(s), NEW t \in b..Len(s), NEW k, k = SubSeq(s, b, t)
  PROVE  /\ k \in Seq(Int) /\ Len(k) = t - b + 1 /\ DOMAIN k = 1..(t - b + 1)
         /\ \A x \in 1..(t - b + 1) : k[x] = s[b + x - 1]
OBVIOUS

(* Those inside are a run of what is asked for.                             *)
LEMMA InsideIsRun ==
  ASSUME NEW req \in Seq(Int), Rising(req), NEW ends \in [first : Int, last : Int],
         NEW inside, inside = Inside(req, ends), NEW i \in inside, NEW j \in inside,
         \A m \in inside : i <= m, \A m \in inside : m <= j
  PROVE  /\ inside = i..j /\ i \in 1..Len(req) /\ j \in i..Len(req)
         /\ Cardinality(inside) = j - i + 1
<1>1. Len(req) \in Nat /\ DOMAIN req = 1..Len(req) /\ \A m \in 1..Len(req) : req[m] \in Int
  OBVIOUS
<1>2. i \in 1..Len(req) /\ j \in 1..Len(req) /\ i <= j
  BY <1>1 DEF Inside
<1>3. PICK first, last \in Int : first = ends.first /\ last = ends.last
  OBVIOUS
<1>4. first <= req[i] /\ req[j] <= last
  BY <1>3 DEF Inside, Within
<1>5. ASSUME NEW m \in i..j PROVE m \in inside
  <2>1. m \in 1..Len(req) /\ i <= m /\ m <= j
    BY <1>1, <1>2
  <2>2. req[i] <= req[m]
    <3>1. CASE i = m
      BY <1>1, <1>2, <3>1
    <3>2. CASE i # m
      <4>1. i \in Int /\ m \in Int
        BY <1>1, <1>2, <2>1
      <4>2. i < m /\ i \in DOMAIN req /\ m \in DOMAIN req
        BY <1>1, <1>2, <2>1, <3>2, <4>1
      <4> QED BY <4>2, Zenon DEF Rising
    <3> QED BY <3>1, <3>2
  <2>3. req[m] <= req[j]
    <3>1. CASE m = j
      BY <1>1, <1>2, <3>1
    <3>2. CASE m # j
      BY <1>1, <1>2, <2>1, <3>2 DEF Rising
    <3> QED BY <3>1, <3>2
  <2>4. PICK x, y, z \in Int : x = req[i] /\ y = req[m] /\ z = req[j]
    BY <1>2, <2>1
  <2>5. first <= y /\ y <= last
    BY <1>4, <2>2, <2>3, <2>4
  <2> QED BY <1>1, <1>3, <2>1, <2>4, <2>5 DEF Inside, Within
<1>6. \A m \in inside : m \in i..j
  <2>1. \A m \in inside : m \in 1..Len(req)
    BY <1>1 DEF Inside
  <2> QED BY <1>2, <2>1
<1>7. inside = i..j
  BY <1>5, <1>6
<1>8. Cardinality(i..j) = j - i + 1
  <2>1. i \in Int /\ j \in Int /\ ~(i > j)
    BY <1>2
  <2>2. Cardinality(i..j) = IF i > j THEN 0 ELSE j - i + 1
    BY <2>1, FS_Interval
  <2> QED BY <2>1, <2>2
<1> QED BY <1>1, <1>2, <1>7, <1>8

(* What is kept, the ends of which may have been moved.                     *)
ToMove(req, first, last, i, j, b, t, n, freqs) ==
  /\ \A x, y \in 1..Len(req) : x < y => req[x] <= req[y]
  /\ \A m \in i..j : first <= req[m] /\ req[m] <= last
  /\ b = i - 1 \/ b = i
  /\ t = j \/ t = j + 1
  /\ n = t - b + 1
  /\ \A k \in 1..n : t = j + 1 /\ k = n => freqs[k] = last
  /\ \A k \in 1..n : ~(t = j + 1 /\ k = n) /\ b = i - 1 /\ k = 1 => freqs[k] = first
  /\ \A k \in 1..n : ~(t = j + 1 /\ k = n) /\ ~(b = i - 1 /\ k = 1) => freqs[k] = req[b + k - 1]

HasMoved(req, first, last, i, j, n, freqs) ==
  /\ \A k \in 1..n : freqs[k] \in Int /\ first <= freqs[k] /\ freqs[k] <= last
  /\ \A m \in i..j : \E k \in 1..n : freqs[k] = req[m]
  /\ \A k, l \in 1..n : k < l => freqs[k] <= freqs[l]
  /\ n \in Nat /\ n <= (j - i + 1) + 2

(* Moved onto the ends of the list, they are in its range and in order.     *)
LEMMA MovedKeeps ==
  ASSUME NEW req \in Seq(Int), NEW first \in Int, NEW last \in Int, first < last,
         NEW i \in 1..Len(req), NEW j \in i..Len(req), NEW b \in 1..Len(req), NEW t \in 1..Len(req),
         NEW n, NEW freqs, ToMove(req, first, last, i, j, b, t, n, freqs)
  PROVE  HasMoved(req, first, last, i, j, n, freqs)
<1>1. Len(req) \in Nat /\ \A m \in 1..Len(req) : req[m] \in Int
  OBVIOUS
<1>2. n \in Nat \ {0} /\ i \in Int /\ j \in Int /\ b \in Int /\ t \in Int /\ i <= j /\ n = t - b + 1
  BY <1>1 DEF ToMove
<1>7. \A m \in i..j : m \in 1..Len(req) /\ req[m] \in Int
  BY <1>1, <1>2
<1>8. ASSUME NEW k \in 1..n, ~(t = j + 1 /\ k = n), ~(b = i - 1 /\ k = 1)
      PROVE  b + k - 1 \in i..j /\ freqs[k] = req[b + k - 1]
  <2>1. freqs[k] = req[b + k - 1]
    BY <1>8 DEF ToMove
  <2>2. k \in Int /\ 1 <= k /\ k <= n
    BY <1>2
  <2>3. i <= b + k - 1
    BY <1>2, <1>8, <2>2 DEF ToMove
  <2>4. b + k - 1 <= j
    BY <1>2, <1>8, <2>2 DEF ToMove
  <2> QED BY <1>2, <2>1, <2>2, <2>3, <2>4
<1>9. ASSUME NEW k \in 1..n PROVE freqs[k] \in Int /\ first <= freqs[k] /\ freqs[k] <= last
  <2>1. CASE t = j + 1 /\ k = n
    BY <2>1 DEF ToMove
  <2>2. CASE ~(t = j + 1 /\ k = n) /\ b = i - 1 /\ k = 1
    BY <2>2 DEF ToMove
  <2>3. CASE ~(t = j + 1 /\ k = n) /\ ~(b = i - 1 /\ k = 1)
    <3>1. PICK m \in i..j : m = b + k - 1 /\ freqs[k] = req[m]
      BY <1>8, <2>3
    <3> QED BY <1>7, <3>1 DEF ToMove
  <2> QED BY <2>1, <2>2, <2>3
<1>10. ASSUME NEW m \in i..j PROVE \E k \in 1..n : freqs[k] = req[m]
  <2>1. PICK k : k = m - b + 1
    OBVIOUS
  <2>2. k \in 1..n /\ b + k - 1 = m
    BY <1>2, <2>1 DEF ToMove
  <2>3. ~(t = j + 1 /\ k = n)
    BY <1>2, <2>1 DEF ToMove
  <2>4. ~(b = i - 1 /\ k = 1)
    BY <1>2, <2>1 DEF ToMove
  <2>5. freqs[k] = req[m]
    BY <1>8, <2>2, <2>3, <2>4
  <2> QED BY <2>2, <2>5
<1>11. ASSUME NEW k \in 1..n, NEW l \in 1..n, k < l PROVE freqs[k] <= freqs[l]
  <2>1. CASE t = j + 1 /\ l = n
    <3>1. freqs[l] = last
      BY <2>1 DEF ToMove
    <3> QED BY <1>9, <3>1
  <2>2. CASE b = i - 1 /\ k = 1
    <3>1. freqs[k] = first
      BY <1>11, <2>2 DEF ToMove
    <3> QED BY <1>9, <3>1
  <2>3. CASE ~(t = j + 1 /\ l = n) /\ ~(b = i - 1 /\ k = 1)
    <3>1. ~(t = j + 1 /\ k = n) /\ ~(b = i - 1 /\ l = 1)
      BY <1>11 DEF ToMove
    <3>2. PICK x \in i..j : x = b + k - 1 /\ freqs[k] = req[x]
      BY <1>8, <2>3, <3>1
    <3>3. PICK y \in i..j : y = b + l - 1 /\ freqs[l] = req[y]
      BY <1>8, <2>3, <3>1
    <3>4. x < y
      BY <1>2, <1>11, <3>2, <3>3
    <3>5. x \in 1..Len(req) /\ y \in 1..Len(req)
      BY <1>7
    <3> QED BY <3>2, <3>3, <3>4, <3>5 DEF ToMove
  <2> QED BY <2>1, <2>2, <2>3
<1>12. n <= (j - i + 1) + 2
  BY <1>2 DEF ToMove
<1> QED BY <1>2, <1>9, <1>10, <1>11, <1>12 DEF HasMoved

(* What InterpolatedWithinList says of a list and what is asked for.        *)
ClippedRight(req, ends, freqs) ==
  /\ \A k \in DOMAIN freqs : freqs[k] \in ends.first..ends.last
  /\ \A m \in Inside(req, ends) : \E k \in DOMAIN freqs : freqs[k] = req[m]
  /\ \A k, l \in DOMAIN freqs : k < l => freqs[k] <= freqs[l]
  /\ Len(freqs) <= Cardinality(Inside(req, ends)) + 2

Moved(req, ends, below, above) ==
  LET kept == SubSeq(req, below.from, above.to)
  IN  [i \in DOMAIN kept |->
         IF above.fix /\ i = Len(kept) THEN ends.last
         ELSE IF below.fix /\ i = 1 THEN ends.first ELSE kept[i]]

MovedBy(req, ends, below, above, n, freqs) ==
  /\ DOMAIN freqs = 1..n /\ Len(freqs) = n
  /\ \A k \in 1..n : above.fix /\ k = n => freqs[k] = ends.last
  /\ \A k \in 1..n : ~(above.fix /\ k = n) /\ below.fix /\ k = 1 => freqs[k] = ends.first
  /\ \A k \in 1..n : ~(above.fix /\ k = n) /\ ~(below.fix /\ k = 1) => freqs[k] = req[below.from + k - 1]

(* What Clip has after it moved its ends.                                   *)
LEMMA MovedIs ==
  ASSUME NEW req \in Seq(Int), NEW ends, NEW below, NEW above, NEW n \in Nat \ {0},
         below.from \in 1..Len(req), above.to \in below.from..Len(req), n = above.to - below.from + 1,
         NEW freqs, freqs = Moved(req, ends, below, above)
  PROVE  MovedBy(req, ends, below, above, n, freqs)
<1>1. PICK b \in 1..Len(req) : b = below.from
  OBVIOUS
<1>2. PICK t \in b..Len(req) : t = above.to
  BY <1>1
<1>3. PICK kept : kept = SubSeq(req, b, t)
  OBVIOUS
<1>4. Len(kept) = n /\ DOMAIN kept = 1..n /\ \A x \in 1..n : kept[x] = req[b + x - 1]
  <2>1. n = t - b + 1
    BY <1>1, <1>2
  <2>2. /\ Len(kept) = t - b + 1 /\ DOMAIN kept = 1..(t - b + 1)
        /\ \A x \in 1..(t - b + 1) : kept[x] = req[b + x - 1]
    BY <1>3, SubSeqIs
  <2> QED BY <2>1, <2>2
<1> DEFINE Value(k) == IF above.fix /\ k = n THEN ends.last
                       ELSE IF below.fix /\ k = 1 THEN ends.first ELSE kept[k]
<1>5. freqs = [k \in 1..n |-> Value(k)]
  <2>1. freqs = [i \in DOMAIN kept |-> IF above.fix /\ i = Len(kept) THEN ends.last
                                       ELSE IF below.fix /\ i = 1 THEN ends.first ELSE kept[i]]
    BY <1>1, <1>2, <1>3 DEF Moved
  <2> QED BY <1>4, <2>1
<1>6. ASSUME NEW k \in 1..n
      PROVE  /\ above.fix /\ k = n => Value(k) = ends.last
             /\ ~(above.fix /\ k = n) /\ below.fix /\ k = 1 => Value(k) = ends.first
             /\ ~(above.fix /\ k = n) /\ ~(below.fix /\ k = 1) => Value(k) = kept[k]
  BY Zenon
<1> HIDE DEF Value
<1>7. DOMAIN freqs = 1..n /\ Len(freqs) = n /\ \A k \in 1..n : freqs[k] = Value(k)
  BY <1>5
<1> QED BY <1>1, <1>4, <1>6, <1>7, Zenon DEF MovedBy

(* With frequencies inside, some are left, and the right ones.              *)
LEMMA SomeInside ==
  ASSUME NEW req \in Seq(Int), Rising(req), NEW ends \in [first : Int, last : Int], ends.first < ends.last,
         NEW inside, inside = Inside(req, ends), inside # {},
         NEW below, below = ClippedBelow(req, ends), NEW above, above = ClippedAbove(req, ends)
  PROVE  /\ below.from <= Len(req) /\ below.from <= above.to /\ below.from \in Int /\ above.to \in Int
         /\ ClippedRight(req, ends, Moved(req, ends, below, above))
<1>1. PICK i, fixB : /\ below = [from |-> IF fixB THEN i - 1 ELSE i, fix |-> fixB]
                     /\ fixB <=> i > 1 /\ Near(req[i - 1], ends.first)
                     /\ inside = {} => i = Len(req) + 1
                     /\ inside # {} => i \in inside /\ \A x \in inside : i <= x
  BY BelowIs
<1>2. PICK j, fixA : /\ above = [to |-> IF fixA THEN j + 1 ELSE j, fix |-> fixA]
                     /\ fixA <=> j < Len(req) /\ Near(req[j + 1], ends.last)
                     /\ inside = {} => j = 0
                     /\ inside # {} => j \in inside /\ \A x \in inside : x <= j
  BY AboveIs
<1>3. inside = i..j /\ i \in 1..Len(req) /\ j \in i..Len(req) /\ Cardinality(inside) = j - i + 1
  BY <1>1, <1>2, InsideIsRun
<1>4. PICK first, last \in Int : first = ends.first /\ last = ends.last /\ first < last
  OBVIOUS
<1>5. Len(req) \in Nat /\ DOMAIN req = 1..Len(req) /\ i \in Int /\ j \in Int /\ i <= j
  BY <1>3
<1>6. below.fix = fixB /\ above.fix = fixA
  BY <1>1, <1>2
<1>7. PICK b \in 1..Len(req) : b = below.from /\ (b = i - 1 \/ b = i) /\ (b = i - 1 <=> fixB)
  <2>1. CASE fixB
    BY <1>1, <1>3, <1>5, <2>1
  <2>2. CASE ~fixB
    BY <1>1, <1>3, <1>5, <2>2
  <2> QED BY <2>1, <2>2
<1>8. PICK t \in 1..Len(req) : t = above.to /\ (t = j \/ t = j + 1) /\ (t = j + 1 <=> fixA)
  <2>1. CASE fixA
    BY <1>2, <1>3, <1>5, <2>1
  <2>2. CASE ~fixA
    BY <1>2, <1>3, <1>5, <2>2
  <2> QED BY <2>1, <2>2
<1>9. PICK n \in Nat \ {0} : n = t - b + 1 /\ t \in b..Len(req)
  <2>1. b \in Int /\ t \in Int /\ t <= Len(req)
    <3>1. \A x \in 1..Len(req) : x \in Int /\ x <= Len(req)
      BY <1>5
    <3>2. b \in 1..Len(req) /\ t \in 1..Len(req)
      BY <1>7, <1>8, Zenon
    <3> QED BY <3>1, <3>2, Zenon
  <2>2. b = i - 1 \/ b = i
    BY <1>7, Zenon
  <2>3. t = j \/ t = j + 1
    BY <1>8, Zenon
  <2>4. b <= t
    BY <1>5, <2>1, <2>2, <2>3
  <2>5. t - b + 1 \in Nat \ {0} /\ t \in b..Len(req)
    BY <1>5, <2>1, <2>4
  <2> QED BY <2>5
<1>10. PICK freqs : freqs = Moved(req, ends, below, above)
  OBVIOUS
<1>11. MovedBy(req, ends, below, above, n, freqs)
  <2>1. below.from \in 1..Len(req) /\ above.to \in below.from..Len(req) /\ n = above.to - below.from + 1
    BY <1>7, <1>8, <1>9
  <2> QED BY <1>10, <2>1, MovedIs
<1>12. /\ \A k \in 1..n : t = j + 1 /\ k = n => freqs[k] = last
       /\ \A k \in 1..n : ~(t = j + 1 /\ k = n) /\ b = i - 1 /\ k = 1 => freqs[k] = first
       /\ \A k \in 1..n : ~(t = j + 1 /\ k = n) /\ ~(b = i - 1 /\ k = 1) => freqs[k] = req[b + k - 1]
  BY <1>4, <1>6, <1>7, <1>8, <1>11, Zenon DEF MovedBy
<1>13. \A x, y \in 1..Len(req) : x < y => req[x] <= req[y]
  BY <1>5, Zenon DEF Rising
<1>14. \A m \in i..j : first <= req[m] /\ req[m] <= last
  BY <1>3, <1>4 DEF Inside, Within
<1>15. /\ \A k \in 1..n : freqs[k] \in Int /\ first <= freqs[k] /\ freqs[k] <= last
       /\ \A m \in i..j : \E k \in 1..n : freqs[k] = req[m]
       /\ \A k, l \in 1..n : k < l => freqs[k] <= freqs[l]
       /\ n \in Nat /\ n <= (j - i + 1) + 2
  <2>1. i \in 1..Len(req) /\ j \in i..Len(req) /\ n = t - b + 1 /\ first < last
    BY <1>3, <1>4, <1>9
  <2>2. b = i - 1 \/ b = i
    BY <1>7
  <2>3. t = j \/ t = j + 1
    BY <1>8
  <2>4. ToMove(req, first, last, i, j, b, t, n, freqs)
    BY <1>12, <1>13, <1>14, <2>1, <2>2, <2>3, Zenon DEF ToMove
  <2>5. HasMoved(req, first, last, i, j, n, freqs)
    BY <2>1, <2>4, MovedKeeps
  <2> QED BY <2>5 DEF HasMoved
<1>16. Len(freqs) = n /\ DOMAIN freqs = 1..n
  BY <1>11 DEF MovedBy
<1>17. ClippedRight(req, ends, freqs)
  <2>1. \A k \in DOMAIN freqs : freqs[k] \in ends.first..ends.last
    BY <1>4, <1>15, <1>16
  <2>2. \A m \in Inside(req, ends) : \E k \in DOMAIN freqs : freqs[k] = req[m]
    BY <1>3, <1>15, <1>16, Zenon
  <2>3. \A k, l \in DOMAIN freqs : k < l => freqs[k] <= freqs[l]
    BY <1>15, <1>16, Zenon
  <2>4. Len(freqs) <= Cardinality(Inside(req, ends)) + 2
    BY <1>3, <1>15, <1>16
  <2> QED BY <2>1, <2>2, <2>3, <2>4 DEF ClippedRight
<1>18. b <= Len(req) /\ b <= t /\ b \in Int /\ t \in Int
  BY <1>5, <1>9
<1> QED BY <1>7, <1>8, <1>10, <1>17, <1>18

(* Both cases: what Clip gives.                                             *)
LEMMA ClipIs ==
  ASSUME NEW req \in Seq(Int), Rising(req), NEW list \in [first : Int, last : Int], list.first # list.last,
         NEW ends, ends = Ends(list), NEW clip, clip = Clip(req, list)
  PROVE  /\ clip.ok <=> Inside(req, ends) # {}
         /\ clip.ok => ClippedRight(req, ends, clip.freqs)
         /\ ~clip.ok => clip.freqs = <<>>
<1>1. ends \in [first : Int, last : Int] /\ ends.first < ends.last
  BY DEF Ends
<1>2. PICK below : below = ClippedBelow(req, ends)
  OBVIOUS
<1>3. PICK above : above = ClippedAbove(req, ends)
  OBVIOUS
<1>4. clip = IF below.from > Len(req) \/ above.to < below.from THEN [ok |-> FALSE, freqs |-> <<>>]
             ELSE [ok |-> TRUE, freqs |-> Moved(req, ends, below, above)]
  BY <1>2, <1>3, Zenon DEF Clip, Ends, Moved
<1>5. CASE Inside(req, ends) = {}
  <2>1. below.from > Len(req) \/ above.to < below.from
    BY <1>1, <1>2, <1>3, <1>5, NoneInside
  <2>2. clip = [ok |-> FALSE, freqs |-> <<>>]
    BY <1>4, <2>1
  <2> QED BY <1>5, <2>2
<1>6. CASE Inside(req, ends) # {}
  <2>1. PICK inside : inside = Inside(req, ends) /\ inside # {}
    BY <1>6
  <2>2. /\ below.from <= Len(req) /\ below.from <= above.to /\ below.from \in Int /\ above.to \in Int
        /\ ClippedRight(req, ends, Moved(req, ends, below, above))
    BY <1>1, <1>2, <1>3, <2>1, SomeInside
  <2>3. ~(below.from > Len(req)) /\ ~(above.to < below.from)
    <3>1. Len(req) \in Int
      OBVIOUS
    <3> QED BY <2>2, <3>1
  <2>4. PICK freqs : freqs = Moved(req, ends, below, above)
    OBVIOUS
  <2>5. clip = [ok |-> TRUE, freqs |-> freqs]
    BY <1>4, <2>3, <2>4
  <2>6. clip.ok /\ clip.freqs = freqs
    BY <2>5
  <2> QED BY <1>6, <2>2, <2>4, <2>6
<1> QED BY <1>5, <1>6

(* Clipping what is asked for keeps InterpolatedWithinList.                 *)
LEMMA ClipKeeps ==
  ASSUME question.req \in Seq(Int), Rising(question.req),
         question.list \in [first : Int, last : Int], question.list.first # question.list.last, ClipRequested
  PROVE  InterpolatedWithinList'
<1>1. PICK req \in Seq(Int) : req = question.req
  OBVIOUS
<1>2. PICK list \in [first : Int, last : Int] : list = question.list
  OBVIOUS
<1>3. PICK ends : ends = Ends(list)
  OBVIOUS
<1>4. PICK clip : clip = Clip(req, list)
  OBVIOUS
<1>5. question' = question /\ answer'.clip = clip
  BY <1>1, <1>2, <1>4 DEF ClipRequested, Answer
<1>6. /\ clip.ok <=> Inside(req, ends) # {}
      /\ clip.ok => ClippedRight(req, ends, clip.freqs)
      /\ ~clip.ok => clip.freqs = <<>>
  BY <1>1, <1>2, <1>3, <1>4, ClipIs
<1>7. PICK within : within = (list.first..list.last) \cup (list.last..list.first)
  OBVIOUS
<1>8. within = ends.first..ends.last
  BY <1>3, <1>7 DEF Ends
<1>9. PICK inside : inside = {i \in DOMAIN req : req[i] \in within}
  OBVIOUS
<1>10. inside = Inside(req, ends)
  <2>1. ends.first \in Int /\ ends.last \in Int
    BY <1>3 DEF Ends
  <2>2. ASSUME NEW i \in DOMAIN req PROVE req[i] \in within <=> Within(req[i], ends)
    <3>1. PICK f \in Int : f = req[i]
      OBVIOUS
    <3> QED BY <1>8, <2>1, <3>1 DEF Within
  <2> QED BY <1>9, <2>2 DEF Inside
<1>11. PICK freqs : freqs = clip.freqs
  OBVIOUS
<1>12. /\ \A k \in DOMAIN freqs : freqs[k] \in within
       /\ \A i \in inside : \E k \in DOMAIN freqs : freqs[k] = req[i]
       /\ \A k, l \in DOMAIN freqs : k < l => freqs[k] <= freqs[l]
       /\ Len(freqs) <= Cardinality(inside) + 2
  <2>1. CASE clip.ok
    BY <1>6, <1>8, <1>10, <1>11, <2>1, Zenon DEF ClippedRight
  <2>2. CASE ~clip.ok
    <3>1. freqs = <<>> /\ inside = {}
      BY <1>6, <1>10, <1>11, <2>2
    <3>2. Len(freqs) = 0 /\ DOMAIN freqs = {}
      BY <3>1
    <3>3. Cardinality(inside) = 0
      BY <3>1, FS_EmptySet
    <3> QED BY <3>1, <3>2, <3>3
  <2> QED BY <2>1, <2>2
<1>13. clip.ok <=> inside # {}
  BY <1>6, <1>10
<1> QED BY <1>1, <1>2, <1>5, <1>7, <1>9, <1>11, <1>12, <1>13, Zenon DEF InterpolatedWithinList

(* What is asked is what OutputAssumption allows to be asked.               *)
AskedRight ==
  /\ question.of = "output" => question.phases \in PhaseLists
  /\ question.of = "list" => question.phases \in ListPhases
  /\ question.of = "clip" => question.req \in Requested /\ question.list \in ListEnds
  /\ question.of = "log" => question.stages \in Described

(* The invariant: with it, what is answered is right.                       *)
OutputInv == AskedRight /\ WrittenAsCalculated

(* Before an answer there is nothing to keep.                               *)
LEMMA NothingAnswered ==
  ASSUME answer.of \notin {"output", "list", "clip", "log"}
  PROVE  WrittenAsCalculated
BY DEF WrittenAsCalculated, PhasesSurvive, InterpolatedWithinList, StagesDescribed

(* OutputInv holds at the start.                                            *)
LEMMA OutputStarts == OutputInit => OutputInv
<1> SUFFICES ASSUME OutputInit PROVE OutputInv
  OBVIOUS
<1>1. AskedRight
  BY DEF OutputInit, AskedRight
<1>2. WrittenAsCalculated
  BY NothingAnswered DEF OutputInit, Unanswered
<1> QED BY <1>1, <1>2 DEF OutputInv

(* Every question answered keeps OutputInv.                                 *)
LEMMA OutputSteps == OutputInv /\ [OutputNext]_asked_vars => OutputInv'
<1> SUFFICES ASSUME OutputInv, [OutputNext]_asked_vars PROVE OutputInv'
  OBVIOUS
<1>1. AskedRight /\ WrittenAsCalculated
  BY DEF OutputInv
<1>2. AskedRight'
  <2>1. question' = question
    BY DEF OutputNext, asked_vars, WriteResponse, InterpolatePhases, ClipRequested, Describe, Answer
  <2> QED BY <1>1, <2>1 DEF AskedRight
<1>3. WrittenAsCalculated'
  <2>1. CASE WriteResponse
    <3>1. question.of = "output" /\ answer'.of = "output"
      BY <2>1 DEF WriteResponse, Asked, Answer
    <3>2. question.phases \in Seq(Int) /\ \A i \in DOMAIN question.phases : question.phases[i] \in -180..180
      BY <1>1, <3>1, OutputAssumption, Zenon DEF AskedRight
    <3>3. PhasesSurvive'
      BY <2>1, <3>2, WriteKeepsPhases
    <3>4. InterpolatedWithinList' /\ StagesDescribed'
      BY <3>1 DEF InterpolatedWithinList, StagesDescribed
    <3> QED BY <3>3, <3>4 DEF WrittenAsCalculated
  <2>2. CASE InterpolatePhases
    <3>1. question.of = "list" /\ answer'.of = "list"
      BY <2>2 DEF InterpolatePhases, Asked, Answer
    <3>2. question.phases \in Seq(Int)
      BY <1>1, <3>1, OutputAssumption, Zenon DEF AskedRight
    <3>3. PhasesSurvive'
      BY <2>2, <3>2, ListKeepsPhases
    <3>4. InterpolatedWithinList' /\ StagesDescribed'
      BY <3>1 DEF InterpolatedWithinList, StagesDescribed
    <3> QED BY <3>3, <3>4 DEF WrittenAsCalculated
  <2>3. CASE ClipRequested
    <3>1. question.of = "clip" /\ answer'.of = "clip"
      BY <2>3 DEF ClipRequested, Asked, Answer
    <3>2. /\ question.req \in Seq(Int) /\ Rising(question.req)
          /\ question.list \in [first : Int, last : Int] /\ question.list.first # question.list.last
      <4>1. /\ question.req \in Seq(Int) /\ Rising(question.req)
            /\ question.list \in [first : Nat, last : Nat] /\ question.list.first # question.list.last
        BY <1>1, <3>1, OutputAssumption, Zenon DEF AskedRight, Rising
      <4>2. [first : Nat, last : Nat] \subseteq [first : Int, last : Int]
        OBVIOUS
      <4> QED BY <4>1, <4>2
    <3>3. InterpolatedWithinList'
      BY <2>3, <3>2, ClipKeeps
    <3>4. PhasesSurvive' /\ StagesDescribed'
      BY <3>1 DEF PhasesSurvive, StagesDescribed
    <3> QED BY <3>3, <3>4 DEF WrittenAsCalculated
  <2>4. CASE Describe
    <3>1. question.of = "log" /\ answer'.of = "log"
      BY <2>4 DEF Describe, Asked, Answer
    <3>2. question.stages \in Seq(DescribedStage)
      BY <1>1, <3>1, OutputAssumption, Zenon DEF AskedRight
    <3>3. StagesDescribed'
      BY <2>4, <3>2, DescribeKeeps
    <3>4. PhasesSurvive' /\ InterpolatedWithinList'
      BY <3>1 DEF PhasesSurvive, InterpolatedWithinList
    <3> QED BY <3>3, <3>4 DEF WrittenAsCalculated
  <2>5. CASE UNCHANGED asked_vars
    <3>1. question' = question /\ answer' = answer
      BY <2>5 DEF asked_vars
    <3>2. PhasesSurvive'
      <4>1. /\ answer.of = "output" /\ answer.char.status = "OK" /\ question.format = "phase" =>
                 PrintedSurvive(answer.char.rows, question.phases, question.unwrap)
            /\ answer.of = "list" => ListSurvive(answer.unwrapped, answer.wrapped, question.phases)
        BY <1>1, Zenon DEF WrittenAsCalculated, PhasesSurvive, PrintedSurvive, AnglesSurvive, ListSurvive
      <4> QED BY <3>1, <4>1, PhasesSurviveIf
    <3>3. InterpolatedWithinList'
      BY <1>1, <3>1 DEF WrittenAsCalculated, InterpolatedWithinList
    <3>4. StagesDescribed'
      BY <1>1, <3>1 DEF WrittenAsCalculated, StagesDescribed
    <3> QED BY <3>2, <3>3, <3>4 DEF WrittenAsCalculated
  <2> QED BY <2>1, <2>2, <2>3, <2>4, <2>5 DEF OutputNext
<1> QED BY <1>2, <1>3 DEF OutputInv

(* What is written of a channel is what was calculated and used: phases     *)
(* up to whole turns and without jumps, the frequencies asked for within    *)
(* the range of a response list, and a line of the log for every stage      *)
(* that was evaluated.                                                      *)
THEOREM WrittenAsCalculatedHolds == OutputSpec => []WrittenAsCalculated
<1>1. OutputInv => WrittenAsCalculated
  BY DEF OutputInv
<1> QED BY <1>1, OutputStarts, OutputSteps, PTL DEF OutputSpec
===============================================================================
