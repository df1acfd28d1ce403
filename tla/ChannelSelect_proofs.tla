------------------------ MODULE ChannelSelect_proofs ------------------------
(***************************************************************************)
(* Proofs about ChannelSelect, for every file, filter and width of int.     *)
(***************************************************************************)
EXTENDS ChannelSelect, TLAPS

-----------------------------------------------------------------------------
(* The comparisons of input.c against their reference.                     *)

(* The conversion to int is the identity on what fits.                     *)
LEMMA ToIntInRange ==
  ASSUME NEW x \in Int, - IntMax - 1 <= x, x <= IntMax
  PROVE  ToInt(x) = x
<1> DEFINE m == 2 * (IntMax + 1)
           y == x + IntMax + 1
<1>1. IntMax \in Nat
  BY EpochAssumption
<1>2. m \in Nat /\ m > 0 /\ y \in Nat /\ y < m
  BY <1>1
<1>3. y % m = y
  BY <1>2
<1> QED
  BY <1>1, <1>3 DEF ToInt

(* The ends of an epoch are numbers, unless it is open.                    *)
LEMMA EpochEnds ==
  ASSUME NEW e \in Epoch
  PROVE  e.beg \in Int /\ (e.end # Open => e.end \in Int)
BY DEF Epoch

(* The epochs of a file and their indices.                                 *)
LEMMA FileEpochs ==
  ASSUME NEW fl \in Files, NEW k \in DOMAIN fl
  PROVE  k \in Int /\ k \in 1..Len(fl) /\ fl[k] \in Epoch
<1>1. fl \in Seq(Epoch)
  BY InputAssumption
<1> QED
  BY <1>1

(* Being worse is a strict order, and so is not being worse a total one.    *)
LEMMA WorseOrder ==
  ASSUME NEW f, NEW a \in Epoch, NEW b \in Epoch, NEW c \in Epoch
  PROVE  /\ ~Worse(f, a, a)
         /\ Worse(f, a, b) => ~Worse(f, b, a)
         /\ Worse(f, a, b) /\ ~Worse(f, c, b) => Worse(f, a, c)
         /\ ~Worse(f, b, a) /\ Worse(f, b, c) => Worse(f, a, c)
         /\ ~Worse(f, a, b) /\ ~Worse(f, b, c) => ~Worse(f, a, c)
<1>1. CASE f.time = NoTime
  BY <1>1, EpochEnds DEF Worse, LaterThan
<1>2. CASE f.time # NoTime
  BY <1>2, EpochEnds DEF Worse, ShorterThan
<1> QED
  BY <1>1, <1>2

(* Preference among the entries of a file is transitive ...                *)
LEMMA PreferredTransitive ==
  ASSUME NEW fl \in Files, NEW f,
         NEW a \in DOMAIN fl, NEW b \in DOMAIN fl, NEW c \in DOMAIN fl,
         Preferred(fl, f, a, b), Preferred(fl, f, b, c)
  PROVE  Preferred(fl, f, a, c)
<1>1. /\ a \in Int /\ b \in Int /\ c \in Int
      /\ fl[a] \in Epoch /\ fl[b] \in Epoch /\ fl[c] \in Epoch
  BY FileEpochs
<1> QED
  BY <1>1, WorseOrder DEF Preferred

(* ... and never both ways.                                                *)
LEMMA PreferredAsymmetric ==
  ASSUME NEW fl \in Files, NEW f, NEW a \in DOMAIN fl, NEW b \in DOMAIN fl,
         Preferred(fl, f, a, b)
  PROVE  ~Preferred(fl, f, b, a)
<1>1. a \in Int /\ b \in Int /\ fl[a] \in Epoch /\ fl[b] \in Epoch
  BY FileEpochs
<1> QED
  BY <1>1, WorseOrder DEF Preferred

(* The candidate gives way to a later entry exactly when that entry is a    *)
(* rival and preferred: the comparisons of filter_channels, int lengths and *)
(* asymmetric ties included, decide what the reference decides.            *)
LEMMA GivesWayIsPreference ==
  ASSUME NEW fl \in Files, NEW f \in Filters, SpansFit(fl),
         NEW c \in DOMAIN fl, NEW o \in DOMAIN fl, c < o,
         SameChannel(fl[c], fl[o]), ChannelMatches(f, fl[c])
  PROVE  /\ GivesWay(f, fl[c], fl[o]) => ChannelMatches(f, fl[o]) /\ Preferred(fl, f, o, c)
         /\ ~GivesWay(f, fl[c], fl[o]) /\ ChannelMatches(f, fl[o]) => Preferred(fl, f, c, o)
<1>1. c \in Int /\ o \in Int /\ fl[c] \in Epoch /\ fl[o] \in Epoch
  BY FileEpochs
<1>2. MatchingPatterns(f, fl[c]) = MatchingPatterns(f, fl[o])
  BY DEF MatchingPatterns, SameChannel
<1>3. CASE f.time = NoTime
  <2>1. ChannelMatches(f, fl[o])
    BY <1>2, <1>3 DEF ChannelMatches
  <2>2. Earlier(fl[c], fl[o]) <=> ~Worse(f, fl[o], fl[c])
    BY <1>1, <1>3, EpochEnds DEF Earlier, Worse, LaterThan
  <2> QED
    BY <1>3, <2>1, <2>2 DEF GivesWay, Preferred
<1>4. CASE f.time # NoTime
  <2>1. ChannelMatches(f, fl[o]) <=> InEpoch(f.time, fl[o])
    BY <1>2, <1>4 DEF ChannelMatches
  <2>2. ASSUME NEW k \in DOMAIN fl, fl[k].end # Open
        PROVE  Duration(fl[k]) = fl[k].end - fl[k].beg /\ fl[k].end - fl[k].beg < IntMax
    <3>1. fl[k].end - fl[k].beg \in Int
      BY <2>2, FileEpochs, EpochEnds
    <3> QED
      BY <2>2, <3>1, ToIntInRange, EpochAssumption DEF SpansFit, Duration
  <2>3. ASSUME NEW k \in DOMAIN fl, fl[k].end = Open
        PROVE  Duration(fl[k]) = IntMax
    BY <2>3 DEF Duration
  <2>4. Duration(fl[c]) >= Duration(fl[o]) <=> ~ShorterThan(fl[c], fl[o])
    BY <1>1, <2>2, <2>3, EpochEnds, EpochAssumption DEF ShorterThan
  <2> QED
    BY <1>4, <2>1, <2>4 DEF GivesWay, Preferred, Worse
<1> QED
  BY <1>3, <1>4

-----------------------------------------------------------------------------
(* Type correctness.                                                       *)

(* A file has a length.                                                    *)
LEMMA FileLength ==
  ASSUME file \in Files
  PROVE  n \in Nat /\ DOMAIN file = 1..n
<1>1. file \in Seq(Epoch)
  BY InputAssumption
<1> QED
  BY <1>1 DEF n

(* What freeing a set of objects does to the counts.                       *)
LEMMA FreeCounts ==
  ASSUME NEW S, TypeOK, Free(S)
  PROVE  /\ frees' \in [1..n -> Nat]
         /\ \A k \in 1..n : frees'[k] = IF k \in S THEN frees[k] + 1 ELSE frees[k]
BY DEF TypeOK, Free

(* The parts of the inductive invariant hold at the start ...              *)
LEMMA InvInit == Init => IndInv
<1> SUFFICES ASSUME Init PROVE IndInv
  OBVIOUS
<1>1. n \in Nat
  BY FileLength DEF Init
<1>2. Len(filter.pats) \in Nat
  BY InputAssumption DEF Init, Filter
<1>3. best_match \in BOOLEAN /\ warn_user \in BOOLEAN
  BY Zenon DEF Init
<1>4. TypeOK
  BY <1>1, <1>3 DEF Init, TypeOK
<1>5. Control /\ Accounted
  BY DEF Init, Control, Accounted, InLoop
<1>6. Served
  BY DEF Init, Served, OnePerSncl, InLoop
<1>7. Ranked /\ Chosen
  BY DEF Init, Ranked, Chosen, InLoop
<1> QED
  BY <1>4, <1>5, <1>6, <1>7 DEF IndInv

(* ... and every step preserves them.                                      *)
LEMMA TypeStep ==
  ASSUME TypeOK, Control, [Next]_vars
  PROVE  TypeOK'
<1>0. n \in Nat /\ DOMAIN file = 1..n
  BY FileLength DEF TypeOK
<1> USE <1>0 DEF TypeOK, n, inputs, Control, InLoop
<1>1. CASE ReadChannel
  BY <1>1 DEF ReadChannel
<1>2. CASE ReadFails
  BY <1>2, FreeCounts DEF ReadFails
<1>3. CASE StartFilter
  BY <1>3 DEF StartFilter
<1>4. CASE Skip
  BY <1>4 DEF Skip, LoopOver
<1>5. CASE Consider
  BY <1>5 DEF Consider, LoopOver, Credit
<1>6. CASE PassOver
  BY <1>6 DEF PassOver, Comparing
<1>7. CASE GiveWay
  <2>1. best_match' \in BOOLEAN /\ warn_user' \in BOOLEAN
    BY <1>7, Zenon DEF GiveWay
  <2> QED
    BY <1>7, <2>1 DEF GiveWay, Comparing
<1>8. CASE BeatOther
  <2>1. frees' \in [1..n' -> Nat]
    BY <1>8, FreeCounts DEF BeatOther
  <2> QED BY <1>8, <2>1 DEF BeatOther, Comparing
<1>9. CASE Adopt
  BY <1>9 DEF Adopt, Compared
<1>10. CASE CheckFails
  BY <1>10 DEF CheckFails, Compared
<1>11. CASE Discard
  BY <1>11, FreeCounts DEF Discard, Compared
<1>12. CASE Finish
  <2>1. frees' \in [1..n -> Nat]
    BY <1>12, FreeCounts DEF Finish
  <2> QED
    BY <1>12, <2>1 DEF Finish
<1>13. CASE UNCHANGED vars
  BY <1>13 DEF vars
<1> QED
  BY <1>1, <1>2, <1>3, <1>4, <1>5, <1>6, <1>7, <1>8, <1>9, <1>10, <1>11, <1>12, <1>13 DEF Next

(* Every step keeps the loop indices where the code has them, ...          *)
LEMMA ControlStep ==
  ASSUME TypeOK, Control, Accounted, [Next]_vars
  PROVE  Control'
<1>0. n \in Nat /\ DOMAIN file = 1..n
  BY FileLength DEF TypeOK
<1> USE <1>0 DEF TypeOK, n, inputs, Control, InLoop, Accounted
<1>1. CASE ReadChannel
  BY <1>1 DEF ReadChannel, Matches
<1>2. CASE ReadFails
  BY <1>2 DEF ReadFails, Matches
<1>3. CASE StartFilter
  BY <1>3 DEF StartFilter, Matches
<1>4. CASE Skip
  BY <1>4 DEF Skip, LoopOver, Matches
<1>5. CASE Consider
  BY <1>5 DEF Consider, LoopOver, Matches
<1>6. CASE PassOver
  BY <1>6 DEF PassOver, Comparing, Matches
<1>7. CASE GiveWay
  BY <1>7 DEF GiveWay, Comparing, Matches
<1>8. CASE BeatOther
  BY <1>8 DEF BeatOther, Comparing, Matches
<1>9. CASE Adopt
  BY <1>9 DEF Adopt, Compared, Matches
<1>10. CASE CheckFails
  BY <1>10 DEF CheckFails, Compared, Matches
<1>11. CASE Discard
  BY <1>11 DEF Discard, Compared, Matches
<1>12. CASE Finish
  BY <1>12 DEF Finish, LoopOver, Matches
<1>13. CASE UNCHANGED vars
  BY <1>13 DEF vars, Matches
<1> QED
  BY <1>1, <1>2, <1>3, <1>4, <1>5, <1>6, <1>7, <1>8, <1>9, <1>10, <1>11, <1>12, <1>13 DEF Next

(* Freeing live objects, or one just read, keeps the account.              *)
LEMMA FreeAccounts ==
  ASSUME TypeOK, Accounted, NEW S, Free(S), n' = n,
         channels_in' \cup channels_out' = (channels_in \cup channels_out) \ S,
         channels_in' \cap channels_out' = {},
         nread' \in Nat, 1..nread' = (1..nread) \cup S,
         S \cap (1..nread) \subseteq channels_in \cup channels_out
  PROVE  Accounted'
<1>1. channels_in' \subseteq 1..nread' /\ channels_out' \subseteq 1..nread'
  BY DEF Accounted
<1>2. ASSUME NEW k \in 1..n
      PROVE  frees'[k] = IF k \in 1..nread' /\ k \notin channels_in' \cup channels_out' THEN 1 ELSE 0
  <2>1. frees[k] = IF k \in 1..nread /\ k \notin channels_in \cup channels_out THEN 1 ELSE 0
    BY DEF Accounted
  <2>2. frees'[k] = IF k \in S THEN frees[k] + 1 ELSE frees[k]
    BY FreeCounts
  <2>3. CASE k \in S
    <3>1. frees[k] = 0
      BY <2>1, <2>3
    <3> QED
      BY <2>2, <2>3, <3>1
  <2>4. CASE k \notin S
    BY <2>1, <2>2, <2>4
  <2> QED
    BY <2>3, <2>4
<1> QED
  BY <1>1, <1>2 DEF Accounted

(* ... each object with one owner, ...                                     *)
LEMMA AccountedStep ==
  ASSUME TypeOK, Control, Accounted, [Next]_vars
  PROVE  Accounted'
<1>0. n \in Nat /\ DOMAIN file = 1..n
  BY FileLength DEF TypeOK
<1> USE <1>0 DEF TypeOK, n, inputs, Control, InLoop
<1>1. CASE ReadChannel
  BY <1>1 DEF ReadChannel, Accounted
<1>2. CASE ReadFails
  <2> DEFINE S == channels_in \cup {nread + 1}
  <2>1. Free(S) /\ n' = n
    BY <1>2 DEF ReadFails
  <2>2. channels_in' \cup channels_out' = (channels_in \cup channels_out) \ S
    BY <1>2 DEF ReadFails, Accounted
  <2>3. channels_in' \cap channels_out' = {}
    BY <1>2 DEF ReadFails, Accounted
  <2>4. nread' \in Nat /\ 1..nread' = (1..nread) \cup S
    BY <1>2 DEF ReadFails, Accounted
  <2>5. S \cap (1..nread) \subseteq channels_in \cup channels_out
    BY <1>2 DEF ReadFails, Accounted
  <2> QED
    BY <2>1, <2>2, <2>3, <2>4, <2>5, FreeAccounts
<1>3. CASE StartFilter
  BY <1>3 DEF StartFilter, Accounted
<1>4. CASE Skip
  BY <1>4 DEF Skip, LoopOver, Accounted
<1>5. CASE Consider
  BY <1>5 DEF Consider, Accounted
<1>6. CASE PassOver
  BY <1>6 DEF PassOver, Comparing, Accounted
<1>7. CASE GiveWay
  BY <1>7 DEF GiveWay, Comparing, Accounted
<1>8. CASE BeatOther
  <2> DEFINE S == {j}
  <2>1. Free(S) /\ n' = n
    BY <1>8 DEF BeatOther
  <2>2. channels_in' \cup channels_out' = (channels_in \cup channels_out) \ S
    BY <1>8 DEF BeatOther, Comparing
  <2>3. channels_in' \cap channels_out' = {}
    BY <1>8 DEF BeatOther, Accounted
  <2>4. nread' \in Nat /\ 1..nread' = (1..nread) \cup S
    BY <1>8 DEF BeatOther, Comparing
  <2>5. S \cap (1..nread) \subseteq channels_in \cup channels_out
    BY <1>8 DEF BeatOther, Comparing, Rival
  <2> QED
    BY <2>1, <2>2, <2>3, <2>4, <2>5, FreeAccounts
<1>9. CASE Adopt
  BY <1>9 DEF Adopt, Compared, Accounted
<1>10. CASE CheckFails
  BY <1>10 DEF CheckFails, Compared, Accounted
<1>11. CASE Discard
  <2> DEFINE S == {i}
  <2>1. Free(S) /\ n' = n
    BY <1>11 DEF Discard
  <2>2. channels_in' \cup channels_out' = (channels_in \cup channels_out) \ S
    BY <1>11 DEF Discard, Compared, Accounted
  <2>3. channels_in' \cap channels_out' = {}
    BY <1>11 DEF Discard, Accounted
  <2>4. nread' \in Nat /\ 1..nread' = (1..nread) \cup S
    BY <1>11 DEF Discard, Compared, Accounted
  <2>5. S \cap (1..nread) \subseteq channels_in \cup channels_out
    BY <1>11 DEF Discard, Compared, Accounted
  <2> QED
    BY <2>1, <2>2, <2>3, <2>4, <2>5, FreeAccounts
<1>12. CASE Finish
  <2> DEFINE S == channels_in \cup (IF status # "OK" THEN channels_out ELSE {})
  <2>1. Free(S) /\ n' = n
    BY <1>12 DEF Finish
  <2>2. channels_in' \cup channels_out' = (channels_in \cup channels_out) \ S
    BY <1>12 DEF Finish, LoopOver, Accounted
  <2>3. channels_in' \cap channels_out' = {}
    BY <1>12 DEF Finish, Accounted
  <2>4. nread' \in Nat /\ 1..nread' = (1..nread) \cup S
    BY <1>12 DEF Finish, LoopOver, Accounted
  <2>5. S \cap (1..nread) \subseteq channels_in \cup channels_out
    BY <1>12 DEF Finish, LoopOver, Accounted
  <2> QED
    BY <2>1, <2>2, <2>3, <2>4, <2>5, FreeAccounts
<1>13. CASE UNCHANGED vars
  BY <1>13 DEF vars, Accounted
<1> QED
  BY <1>1, <1>2, <1>3, <1>4, <1>5, <1>6, <1>7, <1>8, <1>9, <1>10, <1>11, <1>12, <1>13 DEF Next

(* ... each SNCL that was passed with an epoch that stands for it, ...     *)
LEMMA ServedStep ==
  ASSUME TypeOK, Control, Accounted, Served, [Next]_vars
  PROVE  Served'
<1>0. n \in Nat /\ DOMAIN file = 1..n
  BY FileLength DEF TypeOK
<1> USE <1>0
<1>1. CASE ReadChannel
  BY <1>1 DEF ReadChannel, Served, OnePerSncl, InLoop, inputs
<1>2. CASE ReadFails
  BY <1>2 DEF ReadFails, Served, OnePerSncl, inputs
<1>3. CASE StartFilter
  BY <1>3 DEF StartFilter, Served, OnePerSncl, Control
<1>4. CASE Skip
  BY <1>4 DEF Skip, Served, OnePerSncl, TypeOK, InLoop, inputs
<1>5. CASE Consider
  BY <1>5 DEF Consider, Served, OnePerSncl, InLoop, Accounted, inputs
<1>6. CASE PassOver
  <2>1. ASSUME NEW k \in channels_in, i < k, k < j + 1
        PROVE  ~SameChannel(file[i], file[k])
    <3>1. k < j \/ k = j
      BY <2>1 DEF TypeOK, n
    <3> QED
      BY <1>6, <2>1, <3>1 DEF PassOver, Comparing, Rival, Served
  <2> QED
    BY <1>6, <2>1 DEF PassOver, Served, OnePerSncl, InLoop, inputs
<1>7. CASE GiveWay
  <2>1. ~best_match'
    BY <1>7, Zenon DEF GiveWay
  <2> QED
    BY <1>7 DEF GiveWay, Comparing, Served, OnePerSncl, InLoop, inputs
<1>8. CASE BeatOther
  BY <1>8 DEF BeatOther, Comparing, Served, OnePerSncl, TypeOK, InLoop, inputs
<1>9. CASE Adopt
  BY <1>9 DEF Adopt, Compared, Served, OnePerSncl, SameChannel, TypeOK, Control, InLoop, inputs
<1>10. CASE CheckFails
  BY <1>10 DEF CheckFails, Compared, Served, OnePerSncl, TypeOK, InLoop, inputs
<1>11. CASE Discard
  BY <1>11 DEF Discard, Compared, Served, OnePerSncl, SameChannel, TypeOK, InLoop, inputs
<1>12. CASE Finish
  BY <1>12 DEF Finish, Served, OnePerSncl, inputs
<1>13. CASE UNCHANGED vars
  BY <1>13 DEF vars, Served, OnePerSncl, InLoop
<1> QED
  BY <1>1, <1>2, <1>3, <1>4, <1>5, <1>6, <1>7, <1>8, <1>9, <1>10, <1>11, <1>12, <1>13 DEF Next

(* When object x goes, whoever it dominated is dominated by whoever          *)
(* dominates x.                                                            *)
LEMMA DominationPasses ==
  ASSUME TypeOK, UNCHANGED inputs, NEW x \in 1..n, \A k : Live(k)' <=> Live(k) /\ k # x,
         Matches(x) => Dominated(x),
         \A k \in 1..n : Matches(k) /\ ~Live(k) => Dominated(k)
  PROVE  \A k \in 1..n : Matches(k) /\ ~Live(k)' => Dominated(k)'
<1>0. DOMAIN file = 1..n /\ file' = file /\ filter' = filter /\ n' = n /\ file \in Files
  BY FileLength DEF TypeOK, inputs, n
<1> SUFFICES ASSUME NEW k \in 1..n, Matches(k), ~Live(k)'
             PROVE  \E b \in 1..n : /\ Live(b)' /\ b # k
                                   /\ b \in Rivals(file, filter, k)
                                   /\ Preferred(file, filter, b, k)
  BY <1>0 DEF Dominated
<1>1. CASE k = x
  BY <1>1 DEF Dominated
<1>2. CASE k # x
  <2>1. ~Live(k) /\ Dominated(k)
    BY <1>2
  <2>2. PICK b \in 1..n : /\ Live(b) /\ b # k
                         /\ b \in Rivals(file, filter, k)
                         /\ Preferred(file, filter, b, k)
    BY <2>1 DEF Dominated
  <2>3. CASE b # x
    BY <2>2, <2>3
  <2>4. CASE b = x
    <3>1. Matches(x)
      BY <2>2, <2>4 DEF Rivals, Matches
    <3>2. PICK c \in 1..n : /\ Live(c) /\ c # x
                           /\ c \in Rivals(file, filter, x)
                           /\ Preferred(file, filter, c, x)
      BY <3>1 DEF Dominated
    <3>3. c \in Rivals(file, filter, k)
      BY <2>2, <2>4, <3>2 DEF Rivals, SameChannel
    <3>4. Preferred(file, filter, c, k)
      BY <1>0, <2>2, <2>4, <3>2, PreferredTransitive
    <3> QED
      BY <2>1, <3>2, <3>3, <3>4
  <2> QED
    BY <2>3, <2>4
<1> QED
  BY <1>1, <1>2

(* ... what was deleted beaten by something that is still there, ...       *)
LEMMA RankedStep ==
  ASSUME TypeOK, Control, Accounted, Served, Ranked, SpansFit(file), [Next]_vars
  PROVE  Ranked'
<1>0. n \in Nat /\ DOMAIN file = 1..n
  BY FileLength DEF TypeOK
<1> USE <1>0
<1>1. CASE ReadChannel
  BY <1>1 DEF ReadChannel, Ranked, InLoop
<1>2. CASE ReadFails
  BY <1>2 DEF ReadFails, Ranked
<1>3. CASE StartFilter
  BY <1>3 DEF StartFilter, Ranked, Live, Control, n, inputs
<1>4. CASE Skip
  BY <1>4 DEF Skip, Ranked, Matches, Live, Dominated, TypeOK, InLoop, n, inputs
<1>5. CASE Consider
  BY <1>5 DEF Consider, Ranked, Matches, Live, Dominated, InLoop, n, inputs
<1>6. CASE PassOver
  BY <1>6 DEF PassOver, Comparing, Ranked, Matches, Live, Dominated, InLoop, n, inputs
<1>7. CASE GiveWay
  <2>1. i \in 1..n /\ j \in 1..n /\ i < j /\ Matches(i) /\ Live(j) /\ SameChannel(file[i], file[j])
    BY <1>7 DEF GiveWay, Comparing, Rival, Live, Control, InLoop, Accounted
  <2>2. ChannelMatches(filter, file[j]) /\ Preferred(file, filter, j, i)
    BY <1>7, <2>1, GivesWayIsPreference DEF GiveWay, Matches, TypeOK
  <2>3. Dominated(i)
    <3>1. j \in Rivals(file, filter, i)
      BY <2>1, <2>2 DEF Rivals, SameChannel
    <3>2. j # i
      BY <2>1
    <3> QED
      BY <2>1, <2>2, <3>1 DEF Dominated
  <2> QED
    BY <1>7, <2>3 DEF GiveWay, Comparing, Ranked, Matches, Live, Dominated, InLoop, n, inputs
<1>8. CASE BeatOther
  <2>1. i \in 1..n /\ j \in 1..n /\ i < j /\ Matches(i) /\ Live(i) /\ SameChannel(file[i], file[j])
    BY <1>8 DEF BeatOther, Comparing, Rival, Live, Control, InLoop, Accounted
  <2>2. Matches(j) => Preferred(file, filter, i, j)
    BY <1>8, <2>1, GivesWayIsPreference DEF BeatOther, Matches, TypeOK
  <2>3. Matches(j) => Dominated(j)
    <3>1. i \in Rivals(file, filter, j)
      BY <2>1 DEF Rivals, SameChannel, Matches
    <3>2. i # j
      BY <2>1
    <3> QED
      BY <2>1, <2>2, <3>1 DEF Dominated
  <2>4. \A k : Live(k)' <=> Live(k) /\ k # j
    BY <1>8 DEF BeatOther, Comparing, Live, TypeOK, Control, InLoop
  <2>5. \A k \in 1..n : Matches(k) /\ ~Live(k) => Dominated(k)
    BY <1>8 DEF BeatOther, Comparing, Ranked, Control, InLoop
  <2>6. \A k \in 1..n : Matches(k) /\ ~Live(k)' => Dominated(k)'
    BY <1>8, <2>1, <2>3, <2>4, <2>5, DominationPasses DEF BeatOther
  <2> QED
    BY <1>8, <2>6 DEF BeatOther, Comparing, Ranked, Matches, InLoop, n, inputs
<1>9. CASE Adopt
  <2>1. \A k : Live(k)' <=> Live(k)
    BY <1>9 DEF Adopt, Compared, Live, Control
  <2> QED
    BY <1>9, <2>1 DEF Adopt, Compared, Ranked, Matches, Dominated, TypeOK, InLoop, n, inputs
<1>10. CASE CheckFails
  BY <1>10 DEF CheckFails, Compared, Ranked
<1>11. CASE Discard
  <2>1. Dominated(i) /\ i \in 1..n
    BY <1>11 DEF Discard, Compared, Ranked, Control, InLoop, Accounted
  <2>2. \A k : Live(k)' <=> Live(k) /\ k # i
    BY <1>11 DEF Discard, Compared, Live, Control, Accounted
  <2>3. \A k \in 1..n : Matches(k) /\ ~Live(k) => Dominated(k)
    BY <1>11 DEF Discard, Compared, Ranked, Control, InLoop
  <2>4. \A k \in 1..n : Matches(k) /\ ~Live(k)' => Dominated(k)'
    BY <1>11, <2>1, <2>2, <2>3, DominationPasses DEF Discard
  <2> QED
    BY <1>11, <2>4 DEF Discard, Compared, Ranked, Matches, TypeOK, InLoop, n, inputs
<1>12. CASE Finish
  BY <1>12 DEF Finish, Ranked, InLoop
<1>13. CASE UNCHANGED vars
  BY <1>13 DEF vars, Ranked, Matches, Live, Dominated, InLoop, n
<1> QED
  BY <1>1, <1>2, <1>3, <1>4, <1>5, <1>6, <1>7, <1>8, <1>9, <1>10, <1>11, <1>12, <1>13 DEF Next

(* ... and what was handed over the best of its SNCL.                      *)
LEMMA ChosenStep ==
  ASSUME TypeOK, Control, Accounted, Served, Ranked, Chosen, SpansFit(file), [Next]_vars
  PROVE  Chosen'
<1>0. n \in Nat /\ DOMAIN file = 1..n
  BY FileLength DEF TypeOK
<1> USE <1>0
<1>1. CASE ReadChannel
  BY <1>1 DEF ReadChannel, Chosen, inputs
<1>2. CASE ReadFails
  BY <1>2 DEF ReadFails, Chosen, inputs
<1>3. CASE StartFilter
  BY <1>3 DEF StartFilter, Chosen, inputs
<1>4. CASE Skip
  BY <1>4 DEF Skip, Chosen, inputs
<1>5. CASE Consider
  BY <1>5 DEF Consider, Chosen, inputs
<1>6. CASE PassOver
  BY <1>6 DEF PassOver, Comparing, Chosen, inputs
<1>7. CASE GiveWay
  BY <1>7 DEF GiveWay, Comparing, Chosen, inputs
<1>8. CASE BeatOther
  BY <1>8 DEF BeatOther, Comparing, Chosen, inputs
<1>9. CASE Adopt
  <2>1. /\ i \in 1..n /\ i \in channels_in /\ Matches(i) /\ j > n
        /\ phase = "compare" /\ best_match /\ status = "OK"
    BY <1>9 DEF Adopt, Compared, TypeOK, Control
  <2>2. ASSUME NEW k \in 1..n, Live(k), k \in Rivals(file, filter, i)
        PROVE  k = i
    <3>1. SameChannel(file[i], file[k]) /\ SameChannel(file[k], file[i]) /\ Matches(k)
      BY <2>2 DEF Rivals, SameChannel, Matches
    <3>2. k \notin channels_out
      BY <2>1, <3>1 DEF Served, InLoop
    <3>3. k \in channels_in
      BY <2>2, <3>2 DEF Live
    <3>4. ~(k < i)
      BY <2>1, <3>1, <3>3 DEF Ranked, InLoop
    <3>5. ~(i < k)
      BY <2>1, <3>1, <3>3 DEF Served, TypeOK
    <3> QED
      BY <2>1, <3>4, <3>5
  <2>3. ASSUME NEW r \in Rivals(file, filter, i), r # i
        PROVE  Preferred(file, filter, i, r)
    <3>1. r \in 1..n /\ Matches(r) /\ SameChannel(file[r], file[i])
      BY DEF Rivals, Matches
    <3>2. ~Live(r)
      BY <2>2, <2>3, <3>1
    <3>3. Dominated(r)
      BY <2>1, <3>1, <3>2 DEF Ranked, InLoop
    <3>4. PICK b \in 1..n : /\ Live(b) /\ b \in Rivals(file, filter, r)
                           /\ Preferred(file, filter, b, r)
      BY <3>3 DEF Dominated
    <3>5. b \in Rivals(file, filter, i)
      BY <3>1, <3>4 DEF Rivals, SameChannel
    <3>6. b = i
      BY <2>2, <3>4, <3>5
    <3> QED
      BY <3>4, <3>6
  <2>4. i \in Rivals(file, filter, i)
    BY <2>1 DEF Rivals, SameChannel, Matches
  <2>5. IsBest(file, filter, i)
    BY <2>3, <2>4 DEF IsBest
  <2> QED
    BY <1>9, <2>5 DEF Adopt, Chosen, inputs
<1>10. CASE CheckFails
  BY <1>10 DEF CheckFails, Compared, Chosen, inputs
<1>11. CASE Discard
  BY <1>11 DEF Discard, Compared, Chosen, inputs
<1>12. CASE Finish
  <2>1. /\ phase = "filter" /\ file' = file /\ filter' = filter /\ n' = n /\ status' = status
        /\ status # "OK" => channels_out' = {}
        /\ status = "OK" => channels_out' = channels_out /\ i > n
    BY <1>12 DEF Finish, LoopOver, inputs, n
  <2>2. ASSUME status = "OK", NEW k \in 1..n, IsBest(file, filter, k)
        PROVE  k \in channels_out
    <3>1. k \in Rivals(file, filter, k) /\ Matches(k)
      BY <2>2 DEF IsBest, Rivals, Matches
    <3>2. ~Dominated(k)
      <4> SUFFICES ASSUME NEW b \in 1..n, b # k, b \in Rivals(file, filter, k),
                          Preferred(file, filter, b, k)
                   PROVE  FALSE
        BY DEF Dominated
      <4>1. Preferred(file, filter, k, b)
        BY <2>2 DEF IsBest
      <4> QED
        BY <4>1, PreferredAsymmetric DEF TypeOK
    <3>3. Live(k)
      BY <2>1, <2>2, <3>1, <3>2 DEF Ranked, InLoop
    <3>4. k \notin channels_in
      BY <2>1, <2>2, <3>1 DEF Ranked, InLoop, TypeOK
    <3> QED
      BY <3>3, <3>4 DEF Live
  <2> QED
    BY <2>1, <2>2 DEF Chosen
<1>13. CASE UNCHANGED vars
  BY <1>13 DEF vars, Chosen, n
<1> QED
  BY <1>1, <1>2, <1>3, <1>4, <1>5, <1>6, <1>7, <1>8, <1>9, <1>10, <1>11, <1>12, <1>13 DEF Next

(* Every step keeps the inductive invariant.                               *)
LEMMA InvNext == IndInv /\ [Next]_vars => IndInv'
<1> SUFFICES ASSUME IndInv, [Next]_vars PROVE IndInv'
  OBVIOUS
<1>1. TypeOK' /\ Control' /\ Accounted' /\ Served'
  BY TypeStep, ControlStep, AccountedStep, ServedStep DEF IndInv
<1>2. file' = file
  BY DEF Next, vars, inputs, ReadChannel, ReadFails, StartFilter, Skip, Consider, PassOver,
         GiveWay, BeatOther, Adopt, CheckFails, Discard, Finish
<1>3. SpansFit(file)' => SpansFit(file)
  BY <1>2
<1>4. SpansFit(file) => Ranked' /\ Chosen'
  BY RankedStep, ChosenStep DEF IndInv
<1> QED
  BY <1>1, <1>3, <1>4 DEF IndInv

(* The inductive invariant of the selection holds in every behaviour.      *)
THEOREM Invariance == Spec => []IndInv
<1> QED
  BY InvInit, InvNext, PTL DEF Spec

-----------------------------------------------------------------------------
(* What follows from the invariant.                                        *)

(* Every variable stays in its range: no index runs past the array.        *)
THEOREM TypeCorrect == Spec => []TypeOK
<1>1. IndInv => TypeOK
  BY DEF IndInv
<1> QED
  BY <1>1, Invariance, PTL

(* No object is freed twice, and none that an array still points to.       *)
THEOREM OwnershipHolds == Spec => []Ownership
<1>1. IndInv => Ownership
  <2> SUFFICES ASSUME IndInv PROVE Ownership
    OBVIOUS
  <2>1. channels_in \cup channels_out \subseteq 1..n
    BY DEF IndInv, TypeOK
  <2> QED
    BY <2>1 DEF IndInv, Accounted, Ownership
<1> QED
  BY <1>1, Invariance, PTL

(* On return every object is freed or the caller's, and a failure leaves    *)
(* the caller with none.                                                   *)
THEOREM NoLeakHolds == Spec => []NoLeak
<1>1. IndInv => NoLeak
  <2> SUFFICES ASSUME IndInv, phase = "done" PROVE NoLeak
    BY DEF NoLeak
  <2>1. channels_in = {} /\ (status # "OK" => channels_out = {})
    BY DEF IndInv, Control
  <2>2. ASSUME NEW k \in 1..nread
        PROVE  k \in channels_out <=> frees[k] = 0
    <3>1. k \in 1..n
      BY <2>2, FileLength DEF IndInv, TypeOK
    <3> QED
      BY <2>1, <3>1 DEF IndInv, Accounted
  <2> QED
    BY <2>1, <2>2 DEF NoLeak
<1> QED
  BY <1>1, Invariance, PTL

(* The output never holds two epochs of one SNCL.                          *)
THEOREM OnePerSnclHolds == Spec => []OnePerSncl
<1>1. IndInv => OnePerSncl
  BY DEF IndInv, Served
<1> QED
  BY <1>1, Invariance, PTL

(* A successful call returns exactly the best epoch of each SNCL.          *)
THEOREM BestSelectedHolds == Spec => []BestSelected
<1>1. IndInv => BestSelected
  <2> SUFFICES ASSUME IndInv, phase = "done", status = "OK", SpansFit(file)
               PROVE  channels_out = {k \in 1..n : IsBest(file, filter, k)}
    BY DEF BestSelected
  <2>1. Chosen /\ channels_out \subseteq 1..n
    BY DEF IndInv, TypeOK
  <2> QED
    BY <2>1 DEF Chosen
<1> QED
  BY <1>1, Invariance, PTL

(* No step frees the best epoch of a SNCL unless the call fails.           *)
THEOREM BestNeverFreedHolds == Spec => BestNeverFreed
<1> DEFINE Spared(k) ==
      frees'[k] > frees[k] /\ IsBest(file, filter, k) /\ SpansFit(file) => status' # "OK"
<1>1. IndInv /\ IndInv' /\ [Next]_vars => \A k \in 1..n : Spared(k)
  <2> SUFFICES ASSUME IndInv, IndInv', [Next]_vars, NEW k \in 1..n,
                      frees'[k] > frees[k], IsBest(file, filter, k), SpansFit(file),
                      status' = "OK"
               PROVE  FALSE
    OBVIOUS
  <2>1. file' = file /\ filter' = filter /\ n' = n
    BY DEF Next, vars, inputs, n, ReadChannel, ReadFails, StartFilter, Skip, Consider,
           PassOver, GiveWay, BeatOther, Adopt, CheckFails, Discard, Finish
  <2>2. frees[k] \in Nat /\ file \in Files /\ n \in Nat /\ phase' \in {"collect", "filter", "compare", "done"}
        /\ nread' \in 0..n
    BY <2>1, FileLength DEF IndInv, TypeOK
  <2>3. k \in 1..nread' /\ ~Live(k)'
    BY <2>1 DEF IndInv, Accounted, Live
  <2>4. Matches(k)' /\ k \in DOMAIN file
    BY <2>1 DEF IsBest, Rivals, Matches
  <2>5. Ranked' /\ Chosen'
    BY <2>1 DEF IndInv
  <2>6. CASE phase' = "collect"
    BY <2>3, <2>6 DEF IndInv, Control, Live
  <2>7. CASE phase' = "done"
    BY <2>1, <2>3, <2>5, <2>7 DEF Chosen, Live
  <2>8. CASE InLoop'
    <3>1. Dominated(k)'
      BY <2>1, <2>3, <2>4, <2>5, <2>8 DEF Ranked
    <3>2. PICK b \in 1..n : b # k /\ b \in Rivals(file, filter, k) /\ Preferred(file, filter, b, k)
      BY <2>1, <3>1 DEF Dominated
    <3>3. b \in DOMAIN file /\ Preferred(file, filter, k, b)
      BY <3>2 DEF IsBest, Rivals
    <3> QED
      BY <2>2, <2>4, <3>2, <3>3, PreferredAsymmetric
  <2> QED
    BY <2>2, <2>6, <2>7, <2>8 DEF InLoop
<1> QED
  BY <1>1, Invariance, PTL DEF Spec, BestNeverFreed

-----------------------------------------------------------------------------
(* The tournament refines the abstract selection.                          *)

(* Selection and ChannelSelect share the notions of Epochs.                *)
LEMMA SameBest ==
  ASSUME NEW fl, NEW f, NEW k
  PROVE  Sel!IsBest(fl, f, k) <=> IsBest(fl, f, k)
<1>1. Sel!Rivals(fl, f, k) = Rivals(fl, f, k)
  BY DEF Rivals, SameChannel, ChannelMatches, InEpoch, MatchingPatterns, Sel!Rivals,
         Sel!SameChannel, Sel!ChannelMatches, Sel!InEpoch, Sel!MatchingPatterns
<1>2. ASSUME NEW a, NEW b
      PROVE  Sel!Worse(f, a, b) <=> Worse(f, a, b)
  BY DEF Worse, LaterThan, ShorterThan, Sel!Worse, Sel!LaterThan, Sel!ShorterThan
<1>3. ASSUME NEW a, NEW b
      PROVE  Sel!Preferred(fl, f, a, b) <=> Preferred(fl, f, a, b)
  BY <1>2 DEF Preferred, Sel!Preferred
<1> QED
  BY <1>1, <1>3 DEF IsBest, Sel!IsBest

(* The selection begins as the abstract one does, ...                      *)
LEMMA RefinesInit == Init => Sel!Init
BY DEF Init, Sel!Init

(* ... and each step of it is one of the abstract selection, or none.      *)
LEMMA RefinesNext ==
  ASSUME \A fl \in Files : SpansFit(fl), IndInv, IndInv', [Next]_vars
  PROVE  [Sel!Next]_(Sel!selectionVars)
<1> USE DEF Sel!selectionVars
<1>0. /\ n \in Nat /\ DOMAIN file = 1..n
      /\ SpansFit(file)
      /\ Chosen
      /\ channels_out \subseteq 1..n
      /\ i \in 1..(n + 1)
  BY FileLength DEF IndInv, TypeOK
<1>1. CASE ReadChannel \/ StartFilter \/ Skip \/ Consider \/ PassOver \/ GiveWay \/ BeatOther
           \/ Discard \/ UNCHANGED vars
  <2>1. UNCHANGED <<file, filter, channels_out, status>>
    BY <1>1 DEF ReadChannel, StartFilter, Skip, Consider, PassOver, GiveWay, BeatOther,
           Discard, inputs, vars
  <2>2. phase' = "done" <=> phase = "done"
    BY <1>1 DEF ReadChannel, StartFilter, Skip, Consider, PassOver, GiveWay, BeatOther,
           Discard, Compared, vars
  <2> QED
    BY <2>1, <2>2
<1>2. CASE ReadFails \/ CheckFails
  <2>1. UNCHANGED <<file, filter>> /\ status = "OK" /\ phase # "done" /\ status' = "ERROR"
    BY <1>2 DEF ReadFails, CheckFails, Compared, IndInv, Control, inputs
  <2>2. n > 0
    BY <1>0, <1>2 DEF ReadFails, CheckFails, Compared, IndInv, TypeOK, Control
  <2>3. file # <<>>
    BY <2>2 DEF n
  <2>4. Sel!Reject
    BY <2>1, <2>3 DEF Sel!Reject
  <2> QED
    BY <2>4 DEF Sel!Next
<1>3. CASE Adopt
  <2>1. /\ UNCHANGED <<file, filter, status>>
        /\ status = "OK" /\ phase = "compare" /\ phase' = "filter"
        /\ channels_out' = channels_out \cup {i}
        /\ i \in channels_in
    BY <1>3 DEF Adopt, Compared, IndInv, Control, inputs
  <2>2. i \in DOMAIN file /\ i \notin channels_out
    BY <1>0, <2>1 DEF IndInv, TypeOK, Accounted
  <2>3. IsBest(file, filter, i)
    BY <1>0, <2>1 DEF IndInv, Chosen
  <2>4. Sel!Publish(i)
    BY <2>1, <2>2, <2>3, SameBest DEF Sel!Publish
  <2> QED
    BY <2>2, <2>4 DEF Sel!Next
<1>4. CASE Finish
  <2>1. UNCHANGED <<file, filter, status>> /\ phase = "filter" /\ phase' = "done"
    BY <1>4 DEF Finish, inputs
  <2>2. CASE status = "OK"
    <3>1. channels_out' = channels_out
      BY <1>4, <2>2 DEF Finish
    <3>2. \A k \in DOMAIN file : IsBest(file, filter, k) => k \in channels_out
      BY <1>0, <2>1, <2>2, <3>1 DEF IndInv, Chosen, n
    <3>3. Sel!Accept
      BY <2>1, <2>2, <3>1, <3>2, SameBest DEF Sel!Accept
    <3> QED
      BY <3>3 DEF Sel!Next
  <2>3. CASE status # "OK"
    BY <2>1, <2>3
  <2> QED
    BY <2>2, <2>3
<1> QED
  BY <1>1, <1>2, <1>3, <1>4 DEF Next

(* When no epoch is longer than an int can say, the call implements the     *)
(* abstract selection, step by step.                                       *)
THEOREM Refinement ==
  ASSUME \A fl \in Files : SpansFit(fl)
  PROVE  Spec => ImplementsSelection
<1>1. IndInv /\ IndInv' /\ [Next]_vars => [Sel!Next]_(Sel!selectionVars)
  BY RefinesNext
<1> QED
  BY <1>1, RefinesInit, Invariance, PTL DEF Spec, ImplementsSelection, Sel!Spec
=============================================================================
