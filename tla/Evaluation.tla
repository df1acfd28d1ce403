----------------------------- MODULE Evaluation -----------------------------
(***************************************************************************)
(* evalresp_channel_to_response of evaluation.c, called again and again on  *)
(* one channel, as a program that keeps its channels does.  The amplitudes  *)
(* of a response list, blockette [55], are known at its own frequencies     *)
(* only: either the output takes these frequencies over, or the list is     *)
(* replaced by one interpolated at the output's, and put back afterwards.   *)
(* calculate_response then reads the list by the index of the frequency.    *)
(*                                                                         *)
(* An array is named by who allocated it, in which call, and what it holds; *)
(* freed and freed_twice follow free().  Numbers are left out: a grid is    *)
(* the source of the frequencies an array of frequencies holds.             *)
(***************************************************************************)
EXTENDS Integers, SequencesExt

CONSTANTS
  Cases,    \* the channels and requests a behaviour may start from
  MaxCalls  \* bound on the calls of a behaviour

(* chan: the stages of a channel check_channel accepts, with one LIST       *)
(* blockette at most.  nlist: its number of frequencies.  nfreq: number of  *)
(* frequencies requested, of which those in lo..hi lie in the list's range. *)
(* start, stop: the stages to be used, -1 and 0 for all.                    *)
Case ==
  [chan : Seq([seq : Nat, blkts : Seq(STRING) \ {<<>>}]) \ {<<>>},
   nlist : Nat \ {0}, nfreq : Nat \ {0}, lo : Nat \ {0}, hi : Nat,
   start : Nat \cup {-1}, stop : Nat]

ASSUME EvaluationAssumption ==
  /\ MaxCalls \in Nat
  /\ Cases \subseteq Case
  /\ \A c \in Cases : c.hi <= c.nfreq /\ c.lo <= c.hi + 1

Fields == {"freq", "amp", "phase"}
NULL == [by |-> "nobody", call |-> 0, field |-> "freq"]

VARIABLES
  case,
  pc,
  call,
  list,         \* the evalresp_list of the channel's LIST blockette
  b55_save,     \* its backup
  have_save,    \* b55_save # NULL
  response,     \* nfreqs, the grid of freqs, the length of rvec
  f,            \* the next frequency to be evaluated
  status,
  freed, freed_twice,
  out_of_memory \* some allocation of save_b55 failed

vars == <<case, pc, call, list, b55_save, have_save, response, f, status, freed, freed_twice,
          out_of_memory>>

heap == <<freed, freed_twice>>

Arrays(by, c) == [x \in Fields |-> [by |-> by, call |-> c, field |-> x]]

List(by, c, n, grid) == [arrays |-> Arrays(by, c), n |-> n, grid |-> grid]

AsRead == List("reader", 0, case.nlist, "list")

Free(S) ==
  /\ freed' = freed \cup (S \ {NULL})
  /\ freed_twice' = freed_twice \cup (S \cap freed)

-----------------------------------------------------------------------------
Init ==
  /\ case \in Cases
  /\ pc = "idle"
  /\ call = 0
  /\ list = AsRead
  /\ b55_save = list
  /\ have_save = FALSE
  /\ response = [nfreqs |-> 0, grid |-> "none", rvec |-> 0]
  /\ f = 1
  /\ status = "OK"
  /\ freed = {} /\ freed_twice = {}
  /\ out_of_memory = FALSE

(* Only the first blockette of the first stage is looked at.                *)
IsBlock55 == case.chan[1].blkts[1] = "LIST"

(* The default frequencies; then what the list and the options call for.    *)
Begin(interpolate) ==
  /\ pc = "idle"
  /\ call < MaxCalls
  /\ call' = call + 1
  /\ status' = "OK"
  /\ f' = 1
  /\ response' = [nfreqs |-> case.nfreq, grid |-> "request", rvec |-> case.nfreq]
  /\ pc' = IF ~IsBlock55 THEN "normalize" ELSE IF interpolate THEN "save" ELSE "use_freqs"
  /\ UNCHANGED <<case, list, b55_save, have_save, heap, out_of_memory>>

Fail == status' = "ERROR" /\ pc' = "restore"

(* Options that make no sense, or no memory for the frequencies.            *)
BeginFails ==
  /\ pc = "idle"
  /\ call < MaxCalls
  /\ call' = call + 1
  /\ Fail
  /\ UNCHANGED <<case, list, b55_save, have_save, response, f, heap, out_of_memory>>

-----------------------------------------------------------------------------
(* save_b55: a copy of the blockette, whose three arrays are then copied    *)
(* one after the other.                                                     *)
Copied == List("save_b55", call, list.n, list.grid)

(* What an earlier failure may have left of the list.                       *)
Intact(l) == \A x \in Fields : l.arrays[x] # NULL /\ l.arrays[x] \notin freed

ListIntact == Intact(list)

ReadFreedList ==
  /\ pc \in {"save", "use_freqs"}
  /\ ~ListIntact
  /\ pc' = "undefined"
  /\ UNCHANGED <<case, call, list, b55_save, have_save, response, f, status, heap, out_of_memory>>

SaveB55 ==
  /\ pc = "save"
  /\ ListIntact
  /\ b55_save' = Copied
  /\ have_save' = TRUE
  /\ pc' = "restrict"
  /\ UNCHANGED <<case, call, list, response, f, status, heap, out_of_memory>>

(* The copy of one array fails: those after it still name the arrays of the *)
(* channel.                                                                 *)
Order == <<"freq", "amp", "phase">>

SaveFails(k) ==
  /\ pc = "save"
  /\ ListIntact
  /\ have_save' = (k > 0)
  /\ b55_save' =
       [list EXCEPT !.arrays =
          [x \in Fields |->
             IF \E q \in 1..(k - 1) : Order[q] = x THEN Copied.arrays[x]
             ELSE IF k > 0 /\ Order[k] = x THEN NULL
             ELSE list.arrays[x]]]
  /\ out_of_memory' = TRUE
  /\ Fail
  /\ UNCHANGED <<case, call, list, response, f, heap>>

(* restrict_frequency_range: the frequencies the list does not reach are    *)
(* dropped.                                                                 *)
Kept == case.hi - case.lo + 1

RestrictRange ==
  /\ pc = "restrict"
  /\ response' = [response EXCEPT !.nfreqs = Kept]
  /\ IF Kept > 0 THEN pc' = "interpolate" /\ UNCHANGED status ELSE Fail
  /\ UNCHANGED <<case, call, list, b55_save, have_save, f, heap, out_of_memory>>

(* interpolate_list_blockette: the list is replaced.                        *)
Interpolate ==
  /\ pc = "interpolate"
  /\ list' = List("interpolate", call, response.nfreqs, response.grid)
  /\ Free({list.arrays[x] : x \in Fields})
  /\ pc' = "normalize"
  /\ UNCHANGED <<case, call, b55_save, have_save, response, f, status, out_of_memory>>

(* Mutant of InterpolateFails: the old list is freed before the failure.     *)
InterpolateFailsTooLate ==
  /\ pc = "interpolate"
  /\ Fail
  /\ Free({list.arrays[x] : x \in Fields})
  /\ UNCHANGED <<case, call, list, b55_save, have_save, response, f, out_of_memory>>

InterpolateFails ==
  /\ pc = "interpolate"
  /\ Fail
  /\ UNCHANGED <<case, call, list, b55_save, have_save, response, f, heap, out_of_memory>>

(* Mutants of UseB55Freqs: the number of frequencies, or the vector for the *)
(* results, stays as it was.                                                *)
UseB55FreqsSameNumber ==
  /\ pc = "use_freqs"
  /\ ListIntact
  /\ response' = [nfreqs |-> response.nfreqs, grid |-> list.grid, rvec |-> response.nfreqs]
  /\ pc' = "normalize"
  /\ UNCHANGED <<case, call, list, b55_save, have_save, f, status, heap, out_of_memory>>
UseB55FreqsSameVector ==
  /\ pc = "use_freqs"
  /\ ListIntact
  /\ response' = [nfreqs |-> list.n, grid |-> list.grid, rvec |-> response.rvec]
  /\ pc' = "normalize"
  /\ UNCHANGED <<case, call, list, b55_save, have_save, f, status, heap, out_of_memory>>

(* use_b55_freqs: the output takes the frequencies of the list.             *)
UseB55Freqs ==
  /\ pc = "use_freqs"
  /\ ListIntact
  /\ response' = [nfreqs |-> list.n, grid |-> list.grid, rvec |-> list.n]
  /\ pc' = "normalize"
  /\ UNCHANGED <<case, call, list, b55_save, have_save, f, status, heap, out_of_memory>>

UseB55FreqsFails ==
  /\ pc = "use_freqs"
  /\ Fail
  /\ UNCHANGED <<case, call, list, b55_save, have_save, response, f, heap, out_of_memory>>

-----------------------------------------------------------------------------
(* normalize_response either adjusts gains, which no index depends on, or   *)
(* fails.                                                                   *)
Normalize ==
  /\ pc = "normalize"
  /\ \/ pc' = "calculate" /\ UNCHANGED status
     \/ Fail
  /\ UNCHANGED <<case, call, list, b55_save, have_save, response, f, heap, out_of_memory>>

(* calculate_response: the stages asked for.                                *)
StageUsed(s) ==
  LET seq == case.chan[s].seq
  IN  case.start >= 0 => IF case.stop # 0 THEN case.start <= seq /\ seq <= case.stop
                                          ELSE seq = case.start

StagesUsed == {s \in DOMAIN case.chan : StageUsed(s)}

ReadsList == \E s \in StagesUsed : "LIST" \in Range(case.chan[s].blkts)

InRange == f <= list.n

(* One frequency.  The units of the output are converted last, which may    *)
(* fail.                                                                    *)
Calculate ==
  /\ pc = "calculate"
  /\ f <= response.nfreqs
  /\ StagesUsed # {}
  /\ ReadsList => InRange
  /\ \/ f' = f + 1 /\ UNCHANGED <<pc, status>>
     \/ Fail /\ UNCHANGED f
  /\ UNCHANGED <<case, call, list, b55_save, have_save, response, heap, out_of_memory>>

NoStageMatched ==
  /\ pc = "calculate"
  /\ f <= response.nfreqs
  /\ StagesUsed = {}
  /\ Fail
  /\ UNCHANGED <<case, call, list, b55_save, have_save, response, f, heap, out_of_memory>>

(* The list is read past its end: what happens then is undefined.           *)
ReadPastEnd ==
  /\ pc = "calculate"
  /\ f <= response.nfreqs
  /\ ReadsList /\ ~InRange
  /\ pc' = "undefined"
  /\ UNCHANGED <<case, call, list, b55_save, have_save, response, f, status, heap, out_of_memory>>

Calculated ==
  /\ pc = "calculate"
  /\ f > response.nfreqs
  /\ pc' = "restore"
  /\ UNCHANGED <<case, call, list, b55_save, have_save, response, f, status, heap, out_of_memory>>

(* Mutant of Return: the list is put back only after a success.             *)
ReturnKeepingFailure ==
  /\ pc = "restore"
  /\ IF have_save /\ status = "OK"
       THEN list' = b55_save /\ Free({list.arrays[x] : x \in Fields})
       ELSE UNCHANGED <<list, heap>>
  /\ have_save' = FALSE
  /\ response' = IF status = "OK" THEN response ELSE [nfreqs |-> 0, grid |-> "none", rvec |-> 0]
  /\ pc' = "idle"
  /\ UNCHANGED <<case, call, b55_save, f, status, out_of_memory>>

(* restore_b55, and the backup is gone; a response that failed is freed.    *)
Return ==
  /\ pc = "restore"
  /\ IF have_save
       THEN list' = b55_save /\ Free({list.arrays[x] : x \in Fields})
       ELSE UNCHANGED <<list, heap>>
  /\ have_save' = FALSE
  /\ response' = IF status = "OK" THEN response ELSE [nfreqs |-> 0, grid |-> "none", rvec |-> 0]
  /\ pc' = "idle"
  /\ UNCHANGED <<case, call, b55_save, f, status, out_of_memory>>

Next ==
  \/ \E interpolate \in BOOLEAN : Begin(interpolate)
  \/ BeginFails
  \/ ReadFreedList \/ SaveB55 \/ RestrictRange \/ Interpolate \/ InterpolateFails
  \/ \E k \in 0..3 : SaveFails(k)
  \/ UseB55Freqs \/ UseB55FreqsFails
  \/ Normalize \/ Calculate \/ NoStageMatched \/ ReadPastEnd \/ Calculated
  \/ Return

Spec == Init /\ [][Next]_vars

-----------------------------------------------------------------------------
ArrayOrNull ==
  [by : {"reader", "save_b55", "interpolate"}, call : 0..MaxCalls, field : Fields] \cup {NULL}

ListType == [arrays : [Fields -> ArrayOrNull], n : Nat, grid : {"list", "request"}]

TypeOK ==
  /\ case \in Cases
  /\ pc \in {"idle", "save", "restrict", "interpolate", "use_freqs", "normalize", "calculate",
             "restore", "undefined"}
  /\ call \in 0..MaxCalls
  /\ list \in ListType
  /\ b55_save \in ListType
  /\ have_save \in BOOLEAN
  /\ response \in [nfreqs : Nat, grid : {"none", "list", "request"}, rvec : Nat]
  /\ f \in Nat \ {0}
  /\ status \in {"OK", "ERROR"}
  /\ freed \subseteq ArrayOrNull
  /\ freed_twice \subseteq freed
  /\ out_of_memory \in BOOLEAN

(* "we keep a backup and restore it below" (evaluation.c 454): whatever     *)
(* became of a call, between calls the list is the one that was read, at    *)
(* its own frequencies, in arrays that were not freed - as long as the      *)
(* backup itself did not fail for want of memory.                           *)
ListSurvives ==
  pc = "idle" /\ ~out_of_memory =>
    /\ list.n = case.nlist
    /\ list.grid = "list"
    /\ ListIntact

(* No array is freed twice, by the interpolation or by the restoring that   *)
(* follows it, however the calls succeed and fail in turn.                  *)
FreedOnce == ~out_of_memory => freed_twice = {}

(* "we need to make sure that frequencies agree beforehand" (evaluation.c   *)
(* 452): where a list is read, entry f of it is for frequency f of the      *)
(* response, for every f, in every call.                                    *)
FrequenciesAgree ==
  pc = "calculate" /\ ReadsList => list.grid = response.grid /\ list.n = response.nfreqs

(* So it is for channels that begin with their list.                        *)
FrequenciesAgreeIfFirst == IsBlock55 => FrequenciesAgree

(* The vector for the results holds a place for every frequency, whichever  *)
(* way the number of frequencies changed on the way.                        *)
ResultsFit == response.nfreqs <= response.rvec

(* Results are calculated for the frequencies they are reported for, in a   *)
(* vector that holds them.                                                  *)
ResultsInPlace == FrequenciesAgreeIfFirst /\ ResultsFit

-----------------------------------------------------------------------------
(* The inductive invariant the proofs rest on.                             *)
Requested == [nfreqs |-> case.nfreq, grid |-> "request", rvec |-> case.nfreq]

(* What the point of execution says of backup and frequencies.              *)
Control ==
  /\ pc \in {"save", "restrict", "interpolate", "use_freqs"} => call > 0 /\ IsBlock55
  /\ pc \in {"idle", "save", "use_freqs"} => ~have_save
  /\ pc \in {"restrict", "interpolate"} => have_save
  /\ pc \in {"save", "restrict", "use_freqs"} => response = Requested
  /\ pc = "interpolate" => response = [Requested EXCEPT !.nfreqs = Kept]
  /\ pc \in {"normalize", "calculate"} /\ IsBlock55 =>
       list.grid = response.grid /\ list.n = response.nfreqs

IsOriginal(l) == l.n = case.nlist /\ l.grid = "list" /\ Intact(l)

(* The arrays of the list, of the backup and those freed are apart: until   *)
(* the list is replaced, nothing but the backup was allocated in this call, *)
(* and what replaces it is not what was saved.                              *)
Apart ==
  /\ freed_twice = {}
  /\ \A a \in freed : a.call <= call
  /\ \A x \in Fields : list.arrays[x].call <= call
  /\ pc \in {"save", "restrict", "interpolate"} =>
       /\ \A a \in freed : a.call < call
       /\ \A x \in Fields : list.arrays[x].call < call
  /\ IF have_save
       THEN /\ Intact(list)
            /\ IsOriginal(b55_save)
            /\ b55_save.arrays = Arrays("save_b55", call)
            /\ \A x \in Fields : list.arrays[x].call < call \/ list.arrays[x].by = "interpolate"
       ELSE IsOriginal(list)

IndInv ==
  /\ TypeOK
  /\ Control
  /\ ResultsFit
  /\ ~out_of_memory => Apart
=============================================================================
