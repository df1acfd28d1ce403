-------------------------- MODULE Evaluation_proofs --------------------------
(***************************************************************************)
(* Proofs about Evaluation, for every channel, request and number of calls. *)
(***************************************************************************)
EXTENDS Evaluation, TLAPS

(* The numbers of a case.                                                  *)
LEMMA CaseNumbers ==
  ASSUME case \in Cases
  PROVE  /\ case.nlist \in Nat \ {0} /\ case.nfreq \in Nat \ {0}
         /\ Kept \in Nat /\ Kept <= case.nfreq
         /\ MaxCalls \in Nat
<1>1. case \in Case
  BY EvaluationAssumption
<1>2. case.hi \in Nat /\ case.lo \in Nat \ {0} /\ case.nfreq \in Nat \ {0} /\ case.nlist \in Nat \ {0}
  BY <1>1 DEF Case
<1>3. case.hi <= case.nfreq /\ case.lo <= case.hi + 1 /\ MaxCalls \in Nat
  BY EvaluationAssumption
<1> QED
  BY <1>2, <1>3 DEF Kept

(* What is asked for at the start of a call.                               *)
LEMMA RequestedType ==
  ASSUME case \in Cases
  PROVE  /\ Requested \in [nfreqs : Nat, grid : {"none", "list", "request"}, rvec : Nat]
         /\ Requested.nfreqs = case.nfreq /\ Requested.grid = "request"
         /\ Requested.rvec = case.nfreq
BY CaseNumbers DEF Requested

(* A list allocated in a call is named by it.                               *)
LEMMA NewList ==
  ASSUME NEW by \in {"reader", "save_b55", "interpolate"}, NEW c \in 0..MaxCalls,
         NEW m \in Nat, NEW g \in {"list", "request"}
  PROVE  /\ List(by, c, m, g) \in ListType
         /\ List(by, c, m, g).n = m /\ List(by, c, m, g).grid = g
         /\ List(by, c, m, g).arrays = Arrays(by, c)
         /\ \A x \in Fields : /\ Arrays(by, c)[x] # NULL
                              /\ Arrays(by, c)[x].call = c
                              /\ Arrays(by, c)[x].by = by
<1> DEFINE array(x) == [by |-> by, call |-> c, field |-> x]
           arrays == [x \in Fields |-> array(x)]
<1>1. Arrays(by, c) = arrays
  BY DEF Arrays
<1>2. ASSUME NEW x \in Fields
      PROVE  /\ array(x) \in ArrayOrNull /\ array(x) # NULL
             /\ array(x).call = c /\ array(x).by = by
  BY DEF ArrayOrNull, NULL
<1> HIDE DEF array
<1>3. /\ arrays \in [Fields -> ArrayOrNull]
      /\ \A x \in Fields : arrays[x] # NULL /\ arrays[x].call = c /\ arrays[x].by = by
  BY <1>2
<1>4. List(by, c, m, g) = [arrays |-> arrays, n |-> m, grid |-> g]
  BY <1>1 DEF List
<1> HIDE DEF arrays
<1>5. /\ List(by, c, m, g) \in ListType
      /\ List(by, c, m, g).n = m /\ List(by, c, m, g).grid = g
      /\ List(by, c, m, g).arrays = arrays
  BY <1>3, <1>4 DEF ListType
<1> QED
  BY <1>1, <1>3, <1>5

(* The arrays of a list, and what is left of freed after some were.        *)
LEMMA ListTypeFacts ==
  ASSUME NEW l \in ListType
  PROVE  /\ l.n \in Nat /\ l.grid \in {"list", "request"}
         /\ \A x \in Fields : l.arrays[x] \in ArrayOrNull
         /\ {l.arrays[x] : x \in Fields} \subseteq ArrayOrNull
BY DEF ListType

(* What an array is.                                                       *)
LEMMA ArrayFacts ==
  ASSUME NEW a \in ArrayOrNull, MaxCalls \in Nat
  PROVE  a.call \in Nat /\ NULL \in ArrayOrNull
BY DEF ArrayOrNull, NULL

(* Freeing arrays adds arrays to those that are freed.                     *)
LEMMA FreeType ==
  ASSUME freed \subseteq ArrayOrNull, freed_twice \subseteq freed,
         NEW S, S \subseteq ArrayOrNull, Free(S)
  PROVE  freed' \subseteq ArrayOrNull /\ freed_twice' \subseteq freed'
BY DEF Free

-----------------------------------------------------------------------------
(* The invariant holds before the first call, ...                          *)
LEMMA InvInit == Init => IndInv
<1> SUFFICES ASSUME Init PROVE IndInv
  OBVIOUS
<1>1. case \in Cases /\ MaxCalls \in Nat
  BY EvaluationAssumption DEF Init
<1>2. /\ AsRead \in ListType /\ AsRead.n = case.nlist /\ AsRead.grid = "list"
      /\ \A x \in Fields : AsRead.arrays[x] # NULL /\ AsRead.arrays[x].call = 0
  <2>1. 0 \in 0..MaxCalls /\ case.nlist \in Nat
    BY <1>1, CaseNumbers
  <2> QED
    BY <2>1, NewList DEF AsRead
<1>3. TypeOK
  <2>1. /\ list \in ListType /\ b55_save \in ListType
        /\ freed \subseteq ArrayOrNull /\ freed_twice \subseteq freed
    BY <1>2 DEF Init
  <2>2. /\ response \in [nfreqs : Nat, grid : {"none", "list", "request"}, rvec : Nat]
        /\ call \in 0..MaxCalls /\ f \in Nat \ {0}
    BY <1>1 DEF Init
  <2>3. have_save \in BOOLEAN /\ out_of_memory \in BOOLEAN
    BY DEF Init
  <2>4. status \in {"OK", "ERROR"} /\ pc = "idle"
    BY DEF Init
  <2> QED
    BY <1>1, <2>1, <2>2, <2>3, <2>4 DEF TypeOK
<1>4. Control /\ ResultsFit
  BY DEF Init, Control, ResultsFit
<1>5. Apart
  <2>1. list = AsRead /\ freed = {} /\ freed_twice = {} /\ ~have_save /\ pc = "idle" /\ call = 0
    BY DEF Init
  <2>2. IsOriginal(list)
    BY <1>2, <2>1 DEF IsOriginal, Intact
  <2>3. \A x \in Fields : list.arrays[x].call <= call
    BY <1>2, <2>1
  <2> QED
    BY <2>1, <2>2, <2>3 DEF Apart
<1> QED
  BY <1>3, <1>4, <1>5 DEF IndInv

(* Type correctness, one step per action.                                  *)
LEMMA TypeNext == IndInv /\ [Next]_vars => TypeOK'
<1> SUFFICES ASSUME IndInv, [Next]_vars PROVE TypeOK'
  OBVIOUS
<1> USE DEF heap
<1>1. TypeOK /\ case \in Cases /\ MaxCalls \in Nat
  BY CaseNumbers DEF IndInv, TypeOK
<1>2. ASSUME NEW interpolate \in BOOLEAN, Begin(interpolate) PROVE TypeOK'
  <2>1. response' \in [nfreqs : Nat, grid : {"none", "list", "request"}, rvec : Nat]
    BY <1>1, <1>2, CaseNumbers DEF Begin
  <2>2. call' \in 0..MaxCalls
    BY <1>1, <1>2 DEF Begin, TypeOK
  <2> QED
    BY <1>1, <1>2, <2>1, <2>2 DEF Begin, TypeOK
<1>3. CASE BeginFails
  <2>1. call' \in 0..MaxCalls
    BY <1>1, <1>3 DEF BeginFails, TypeOK
  <2> QED
    BY <1>1, <1>3, <2>1 DEF BeginFails, Fail, TypeOK
<1>4. CASE ReadFreedList
  BY <1>1, <1>4 DEF ReadFreedList, TypeOK
<1>5. CASE SaveB55
  <2>1. b55_save' \in ListType
    BY <1>1, <1>5, NewList, ListTypeFacts DEF SaveB55, Copied, TypeOK
  <2> QED
    BY <1>1, <1>5, <2>1 DEF SaveB55, TypeOK
<1>6. ASSUME NEW k \in 0..3, SaveFails(k) PROVE TypeOK'
  <2>1. Copied \in ListType
    BY <1>1, NewList, ListTypeFacts DEF Copied, TypeOK
  <2>2. \A x \in Fields : {Copied.arrays[x], NULL, list.arrays[x]} \subseteq ArrayOrNull
    BY <1>1, <2>1, ListTypeFacts DEF ArrayOrNull, TypeOK
  <2>3. b55_save' \in ListType
    <3> DEFINE saved == [x \in Fields |->
                 IF \E q \in 1..(k - 1) : Order[q] = x THEN Copied.arrays[x]
                 ELSE IF k > 0 /\ Order[k] = x THEN NULL
                 ELSE list.arrays[x]]
    <3>1. saved \in [Fields -> ArrayOrNull]
      BY <2>2
    <3>2. b55_save' = [list EXCEPT !.arrays = saved]
      BY <1>6 DEF SaveFails
    <3> HIDE DEF saved
    <3> QED
      BY <1>1, <3>1, <3>2 DEF ListType, TypeOK
  <2> QED
    BY <1>1, <1>6, <2>3 DEF SaveFails, Fail, TypeOK
<1>7. CASE RestrictRange
  <2>1. response' \in [nfreqs : Nat, grid : {"none", "list", "request"}, rvec : Nat]
    BY <1>1, <1>7, CaseNumbers DEF RestrictRange, TypeOK
  <2> QED
    BY <1>1, <1>7, <2>1 DEF RestrictRange, Fail, TypeOK
<1>8. CASE Interpolate
  <2>1. response.grid = "request" /\ response.nfreqs \in Nat
    BY <1>1, <1>8, RequestedType DEF Interpolate, IndInv, Control, TypeOK
  <2>2. list' \in ListType
    BY <1>1, <1>8, <2>1, NewList DEF Interpolate, TypeOK
  <2>3. freed' \subseteq ArrayOrNull /\ freed_twice' \subseteq freed'
    BY <1>1, <1>8, ListTypeFacts, FreeType DEF Interpolate, TypeOK
  <2> QED
    BY <1>1, <1>8, <2>2, <2>3 DEF Interpolate, TypeOK
<1>9. CASE InterpolateFails
  BY <1>1, <1>9 DEF InterpolateFails, Fail, TypeOK
<1>10. CASE UseB55Freqs
  <2>1. response' \in [nfreqs : Nat, grid : {"none", "list", "request"}, rvec : Nat]
    BY <1>1, <1>10, ListTypeFacts DEF UseB55Freqs, TypeOK
  <2> QED
    BY <1>1, <1>10, <2>1 DEF UseB55Freqs, TypeOK
<1>11. CASE UseB55FreqsFails
  BY <1>1, <1>11 DEF UseB55FreqsFails, Fail, TypeOK
<1>12. CASE Normalize
  BY <1>1, <1>12 DEF Normalize, Fail, TypeOK
<1>13. CASE Calculate
  <2>1. f' \in Nat \ {0}
    BY <1>1, <1>13 DEF Calculate, Fail, TypeOK
  <2> QED
    BY <1>1, <1>13, <2>1 DEF Calculate, Fail, TypeOK
<1>14. CASE NoStageMatched
  BY <1>1, <1>14 DEF NoStageMatched, Fail, TypeOK
<1>15. CASE ReadPastEnd
  BY <1>1, <1>15 DEF ReadPastEnd, TypeOK
<1>16. CASE Calculated
  BY <1>1, <1>16 DEF Calculated, TypeOK
<1>17. CASE Return
  <2>1. list' \in ListType /\ freed' \subseteq ArrayOrNull /\ freed_twice' \subseteq freed'
    BY <1>1, <1>17, ListTypeFacts, FreeType DEF Return, TypeOK
  <2>2. response' \in [nfreqs : Nat, grid : {"none", "list", "request"}, rvec : Nat]
    BY <1>1, <1>17 DEF Return, TypeOK
  <2> QED
    BY <1>1, <1>17, <2>1, <2>2 DEF Return, TypeOK
<1>18. CASE UNCHANGED vars
  BY <1>1, <1>18 DEF vars, TypeOK
<1> QED
  BY <1>2, <1>3, <1>4, <1>5, <1>6, <1>7, <1>8, <1>9, <1>10, <1>11, <1>12, <1>13, <1>14,
     <1>15, <1>16, <1>17, <1>18 DEF Next

-----------------------------------------------------------------------------
(* What the points of execution say, and that the results fit.             *)
LEMMA ControlNext == IndInv /\ [Next]_vars => Control' /\ ResultsFit'
<1> SUFFICES ASSUME IndInv, [Next]_vars PROVE Control' /\ ResultsFit'
  OBVIOUS
<1>1. /\ TypeOK /\ Control /\ ResultsFit
      /\ response.nfreqs \in Nat /\ response.rvec \in Nat /\ call \in Nat
  BY DEF IndInv, TypeOK
<1>2. /\ Kept \in Nat /\ Kept <= case.nfreq /\ case.nfreq \in Nat
      /\ Requested.nfreqs = case.nfreq /\ Requested.grid = "request"
      /\ Requested.rvec = case.nfreq
  BY <1>1, CaseNumbers, RequestedType DEF TypeOK
<1>3. case' = case => /\ IsBlock55' = IsBlock55 /\ Requested' = Requested /\ Kept' = Kept
  BY DEF IsBlock55, Requested, Kept
<1>4. ASSUME NEW interpolate \in BOOLEAN, Begin(interpolate) PROVE Control' /\ ResultsFit'
  <2>1. response' = Requested /\ case' = case /\ call' > 0 /\ have_save' = have_save /\ ~have_save
    BY <1>1, <1>4 DEF Begin, Requested, Control
  <2>2. pc' = IF ~IsBlock55 THEN "normalize" ELSE IF interpolate THEN "save" ELSE "use_freqs"
    BY <1>4 DEF Begin
  <2> QED
    BY <1>2, <1>3, <2>1, <2>2 DEF Control, ResultsFit
<1>5. CASE RestrictRange
  <2>1. /\ response = Requested /\ have_save /\ have_save' = have_save /\ case' = case
        /\ call > 0 /\ call' = call /\ IsBlock55
    BY <1>1, <1>5 DEF RestrictRange, Control
  <2>2. response' = [Requested EXCEPT !.nfreqs = Kept] /\ pc' \in {"interpolate", "restore"}
    BY <1>5, <2>1 DEF RestrictRange, Fail
  <2>3. response'.nfreqs = Kept /\ response'.rvec = case.nfreq
    BY <1>2, <2>2 DEF Requested
  <2> QED
    BY <1>2, <1>3, <2>1, <2>2, <2>3 DEF Control, ResultsFit
<1>6. CASE Interpolate
  <2>1. list'.n = response.nfreqs /\ list'.grid = response.grid
    BY <1>6 DEF Interpolate, List
  <2> QED
    BY <1>1, <1>6, <2>1 DEF Interpolate, Control, ResultsFit
<1>7. CASE UseB55Freqs
  <2>1. list.n \in Nat
    BY <1>1, ListTypeFacts DEF TypeOK
  <2> QED
    BY <1>1, <1>7, <2>1 DEF UseB55Freqs, Control, ResultsFit
<1>8. CASE Return
  <2>1. response' = response \/ response' = [nfreqs |-> 0, grid |-> "none", rvec |-> 0]
    BY <1>8 DEF Return
  <2> QED
    BY <1>1, <1>8, <2>1 DEF Return, Control, ResultsFit
<1>9. CASE SaveB55
  BY <1>1, <1>3, <1>9 DEF SaveB55, Control, ResultsFit
<1>10. CASE Normalize
  BY <1>1, <1>3, <1>10 DEF Normalize, Fail, Control, ResultsFit
<1>11. CASE Calculate
  BY <1>1, <1>3, <1>11 DEF Calculate, Fail, Control, ResultsFit
<1>12. ASSUME \/ BeginFails \/ ReadFreedList \/ InterpolateFails \/ UseB55FreqsFails
              \/ NoStageMatched \/ ReadPastEnd \/ Calculated \/ \E k \in 0..3 : SaveFails(k)
       PROVE  Control' /\ ResultsFit'
  <2>1. pc' \in {"restore", "undefined"} /\ response' = response
    BY <1>12 DEF BeginFails, ReadFreedList, InterpolateFails, UseB55FreqsFails, NoStageMatched,
                 ReadPastEnd, Calculated, SaveFails, Fail
  <2> QED
    BY <1>1, <2>1 DEF Control, ResultsFit
<1>13. CASE UNCHANGED vars
  BY <1>1, <1>3, <1>13 DEF vars, Control, ResultsFit
<1> QED
  BY <1>4, <1>5, <1>6, <1>7, <1>8, <1>9, <1>10, <1>11, <1>12, <1>13 DEF Next

(* Steps that leave the arrays alone, and do not begin a call.              *)
LEMMA ApartKept ==
  ASSUME Apart, UNCHANGED <<case, call, list, b55_save, have_save, freed, freed_twice>>,
         pc' \in {"save", "restrict", "interpolate"} => pc \in {"save", "restrict", "interpolate"}
  PROVE  Apart'
BY DEF Apart, IsOriginal, Intact

(* The arrays stay apart, as long as no backup failed.                      *)
LEMMA ApartNext ==
  ASSUME IndInv, TypeOK', [Next]_vars, ~out_of_memory'
  PROVE  Apart'
<1>1. TypeOK /\ Control /\ call \in Nat /\ call' \in Nat /\ MaxCalls \in Nat /\ case \in Cases
  BY CaseNumbers DEF IndInv, TypeOK
<1>2. out_of_memory \/ Apart
  BY DEF IndInv
<1>3. \A x \in Fields : list.arrays[x] \in ArrayOrNull /\ list.arrays[x].call \in Nat
  BY <1>1, ListTypeFacts, ArrayFacts DEF TypeOK
<1>4. \A a \in freed : a.call \in Nat
  BY <1>1, ArrayFacts DEF TypeOK
<1>5. ASSUME \/ BeginFails \/ \E interpolate \in BOOLEAN : Begin(interpolate)
      PROVE  Apart'
  <2>1. /\ Apart /\ pc = "idle" /\ ~have_save /\ call' = call + 1
        /\ UNCHANGED <<case, list, b55_save, have_save, freed, freed_twice>>
    BY <1>1, <1>2, <1>5 DEF BeginFails, Begin, Control, heap
  <2>2. IsOriginal(list)'
    BY <2>1 DEF Apart, IsOriginal, Intact
  <2>3. /\ freed' = freed /\ freed_twice' = {} /\ list' = list /\ ~have_save'
        /\ \A a \in freed : a.call < call' /\ a.call <= call'
        /\ \A x \in Fields : list.arrays[x].call < call' /\ list.arrays[x].call <= call'
    BY <1>1, <1>3, <1>4, <2>1 DEF Apart
  <2> QED
    BY <2>2, <2>3 DEF Apart
<1>6. CASE SaveB55
  <2>1. /\ Apart /\ pc = "save" /\ ~have_save /\ have_save' /\ call > 0 /\ pc' = "restrict"
        /\ UNCHANGED <<case, list, call, freed, freed_twice>> /\ b55_save' = Copied
    BY <1>1, <1>2, <1>6 DEF SaveB55, Control, heap
  <2>2. IsOriginal(list)
    BY <2>1 DEF Apart
  <2>3. /\ b55_save'.arrays = Arrays("save_b55", call)
        /\ b55_save'.n = case.nlist /\ b55_save'.grid = "list"
        /\ \A x \in Fields : /\ b55_save'.arrays[x] # NULL
                             /\ b55_save'.arrays[x].call = call
    BY <1>1, <2>1, <2>2, NewList, ListTypeFacts DEF Copied, IsOriginal, TypeOK
  <2>4. /\ \A a \in freed : a.call < call
        /\ \A x \in Fields : list.arrays[x].call < call
        /\ freed_twice = {} /\ Intact(list)
    BY <2>1, <2>2 DEF Apart, IsOriginal
  <2>5. IsOriginal(b55_save)'
    BY <1>1, <1>4, <2>1, <2>3, <2>4 DEF IsOriginal, Intact
  <2>6. Intact(list)'
    BY <2>1, <2>4 DEF Intact
  <2>7. b55_save'.arrays = Arrays("save_b55", call')
    BY <2>1, <2>3
  <2> QED
    BY <1>1, <1>3, <1>4, <2>1, <2>4, <2>5, <2>6, <2>7 DEF Apart, Arrays
<1>7. CASE Interpolate
  <2>1. /\ Apart /\ pc = "interpolate" /\ have_save /\ have_save' /\ call > 0
        /\ pc' = "normalize" /\ UNCHANGED <<case, call, b55_save>>
    BY <1>1, <1>2, <1>7 DEF Interpolate, Control
  <2> DEFINE old == {list.arrays[x] : x \in Fields}
  <2>2. freed' = freed \cup (old \ {NULL}) /\ freed_twice' = freed_twice \cup (old \cap freed)
    BY <1>7 DEF Interpolate, Free
  <2>3. \A a \in freed' : a.call < call
    BY <2>1, <2>2 DEF Apart
  <2>4. freed_twice' = {}
    BY <2>1, <2>2 DEF Apart, Intact
  <2>5. response.grid \in {"list", "request"} /\ response.nfreqs \in Nat /\ call \in 0..MaxCalls
    BY <1>1, <2>1, RequestedType DEF Control, TypeOK
  <2>6. \A x \in Fields : /\ list'.arrays[x] # NULL
                          /\ list'.arrays[x].call = call
                          /\ list'.arrays[x].by = "interpolate"
    BY <1>7, <2>5, NewList DEF Interpolate
  <2>7. Intact(list)'
    BY <1>1, <2>3, <2>6 DEF Intact
  <2>8. IsOriginal(b55_save)'
    <3>1. /\ IsOriginal(b55_save) /\ b55_save.arrays = Arrays("save_b55", call)
      BY <2>1 DEF Apart
    <3>2. \A x \in Fields : b55_save.arrays[x].call = call
      BY <1>1, <2>5, <3>1, NewList
    <3> QED
      BY <1>1, <2>1, <2>3, <3>1, <3>2 DEF IsOriginal, Intact
  <2>9. b55_save'.arrays = Arrays("save_b55", call')
    BY <2>1 DEF Apart
  <2>10. /\ \A a \in freed' : a.call <= call'
         /\ \A x \in Fields : list'.arrays[x].call <= call'
    <3>1. TypeOK' /\ call' = call
      BY <2>1
    <3>2. \A a \in freed' : a.call \in Nat
      BY <1>1, <3>1, ArrayFacts DEF TypeOK
    <3> QED
      BY <1>1, <2>3, <2>6, <3>1, <3>2
  <2> QED
    BY <2>1, <2>4, <2>6, <2>7, <2>8, <2>9, <2>10 DEF Apart
<1>8. CASE Return
  <2>1. Apart /\ pc = "restore" /\ UNCHANGED <<case, call, b55_save>> /\ ~have_save' /\ pc' = "idle"
    BY <1>2, <1>8 DEF Return
  <2>2. CASE ~have_save
    <3>1. UNCHANGED <<list, freed, freed_twice>>
      BY <1>8, <2>2 DEF Return, heap
    <3> QED
      BY <2>1, <2>2, <3>1 DEF Apart, IsOriginal, Intact
  <2>3. CASE have_save
    <3> DEFINE old == {list.arrays[x] : x \in Fields}
    <3>1. /\ list' = b55_save /\ freed' = freed \cup (old \ {NULL})
          /\ freed_twice' = freed_twice \cup (old \cap freed)
      BY <1>8, <2>3 DEF Return, Free
    <3>2. freed_twice' = {}
      BY <2>1, <2>3, <3>1 DEF Apart, Intact
    <3>3. /\ IsOriginal(b55_save) /\ b55_save.arrays = Arrays("save_b55", call)
          /\ \A x \in Fields : list.arrays[x].call < call \/ list.arrays[x].by = "interpolate"
      BY <2>1, <2>3 DEF Apart
    <3>4. \A x \in Fields : /\ b55_save.arrays[x].call = call
                            /\ b55_save.arrays[x].by = "save_b55"
      BY <1>1, <3>3, NewList DEF TypeOK
    <3>5. \A x \in Fields : b55_save.arrays[x] \notin old
      BY <1>1, <1>3, <3>3, <3>4
    <3>6. IsOriginal(list)'
      BY <2>1, <3>1, <3>3, <3>5 DEF IsOriginal, Intact
    <3>7. \A a \in freed' : a.call <= call'
      BY <2>1, <3>1 DEF Apart
    <3>8. \A x \in Fields : list'.arrays[x].call <= call'
      BY <1>1, <2>1, <3>1, <3>4
    <3> QED
      BY <2>1, <3>2, <3>6, <3>7, <3>8 DEF Apart
  <2> QED
    BY <2>2, <2>3
<1>9. ASSUME \/ ReadFreedList \/ RestrictRange \/ InterpolateFails \/ UseB55Freqs
             \/ UseB55FreqsFails \/ Normalize \/ Calculate \/ NoStageMatched \/ ReadPastEnd
             \/ Calculated \/ UNCHANGED vars
      PROVE  Apart'
  <2>1. /\ UNCHANGED <<case, call, list, b55_save, have_save, freed, freed_twice, out_of_memory>>
        /\ \/ pc' = pc
           \/ pc' = "interpolate" /\ pc = "restrict"
           \/ pc' \in {"restore", "undefined", "normalize", "calculate"}
    BY <1>9 DEF ReadFreedList, RestrictRange, InterpolateFails, UseB55Freqs, UseB55FreqsFails,
                Normalize, Calculate, NoStageMatched, ReadPastEnd, Calculated, Fail, heap, vars
  <2>2. Apart
    BY <1>2, <2>1
  <2> QED
    BY <2>1, <2>2, ApartKept
<1>10. ASSUME NEW k \in 0..3, SaveFails(k) PROVE FALSE
  BY <1>10 DEF SaveFails
<1> QED
  BY <1>5, <1>6, <1>7, <1>8, <1>9, <1>10 DEF Next

-----------------------------------------------------------------------------
(* ... and every step keeps it.                                            *)
LEMMA InvNext == IndInv /\ [Next]_vars => IndInv'
<1> SUFFICES ASSUME IndInv, [Next]_vars PROVE IndInv'
  OBVIOUS
<1>1. TypeOK'
  BY TypeNext
<1>2. Control' /\ ResultsFit'
  BY ControlNext
<1>3. ~out_of_memory' => Apart'
  BY <1>1, ApartNext
<1> QED
  BY <1>1, <1>2, <1>3 DEF IndInv

(* Whatever calls of evalresp_channel_to_response follow each other on one  *)
(* channel, and wherever each of them fails, the inductive invariant holds: *)
(* the arrays of the list, those of its backup and the freed ones are       *)
(* apart, until a backup fails for want of memory.                          *)
THEOREM EvaluationInvariance == Spec => []IndInv
<1>1. Init => IndInv
  BY InvInit
<1>2. IndInv /\ [Next]_vars => IndInv'
  BY InvNext
<1> QED
  BY <1>1, <1>2, PTL DEF Spec

(* Every variable stays in its type; an array freed twice was freed.        *)
THEOREM EvaluationTypeCorrect == Spec => []TypeOK
<1>1. IndInv => TypeOK
  BY DEF IndInv
<1> QED
  BY <1>1, EvaluationInvariance, PTL

(* Between two calls the channel's list is the one that was read, in arrays *)
(* that were not freed: save_b55 and restore_b55 undo what                  *)
(* interpolate_list_blockette did, after a success and after every failure  *)
(* but that of the backup itself.                                           *)
THEOREM ListSurvivesHolds == Spec => []ListSurvives
<1>1. IndInv => ListSurvives
  <2> SUFFICES ASSUME IndInv, pc = "idle", ~out_of_memory
               PROVE  list.n = case.nlist /\ list.grid = "list" /\ ListIntact
    BY DEF ListSurvives
  <2>1. Apart /\ ~have_save
    BY DEF IndInv, Control
  <2>2. IsOriginal(list)
    BY <2>1 DEF Apart
  <2> QED
    BY <2>2 DEF IsOriginal, ListIntact
<1> QED
  BY <1>1, EvaluationInvariance, PTL

(* The list that was interpolated and the list that was saved are freed by  *)
(* nobody twice, neither within a call nor from one call to a later one.    *)
THEOREM FreedOnceHolds == Spec => []FreedOnce
<1>1. IndInv => FreedOnce
  BY DEF IndInv, Apart, FreedOnce
<1> QED
  BY <1>1, EvaluationInvariance, PTL

(* calculate_response finds in a list that is the first blockette of its    *)
(* channel an entry for each frequency of the response, and that entry is   *)
(* for this frequency: it was interpolated, or its frequencies were taken.  *)
THEOREM FrequenciesAgreeHolds == Spec => []FrequenciesAgreeIfFirst
<1>1. IndInv => FrequenciesAgreeIfFirst
  BY DEF IndInv, Control, FrequenciesAgreeIfFirst, FrequenciesAgree
<1> QED
  BY <1>1, EvaluationInvariance, PTL

(* The vector of the results is never shorter than the frequencies that     *)
(* calculate_response goes through, when the range was restricted to that   *)
(* of the list and when the list's own frequencies replaced the request's.  *)
THEOREM ResultsFitHolds == Spec => []ResultsFit
<1>1. IndInv => ResultsFit
  BY DEF IndInv
<1> QED
  BY <1>1, EvaluationInvariance, PTL

(* Results are calculated for the frequencies they are reported for, in a   *)
(* vector that holds them, whichever branch of evalresp_channel_to_response *)
(* replaced, restricted or restored the frequencies.                        *)
THEOREM ResultsInPlaceHolds == Spec => []ResultsInPlace
<1>1. IndInv => ResultsInPlace
  BY DEF IndInv, Control, ResultsInPlace, FrequenciesAgreeIfFirst, FrequenciesAgree
<1> QED
  BY <1>1, EvaluationInvariance, PTL
=============================================================================
