---------------------------- MODULE MCEvaluation ----------------------------
(* Small instances of Evaluation.                                           *)
EXTENDS Evaluation

StageOf(seq, blkts) == [seq |-> seq, blkts |-> blkts]

(* Lists at the start, with and without a sensitivity; a list behind a      *)
(* reference, in a later stage, in front of another filter; no list at all. *)
Chans ==
  {<<StageOf(1, <<"LIST", "GAIN">>)>>,
   <<StageOf(1, <<"LIST", "GAIN">>), StageOf(0, <<"GAIN">>)>>,
   <<StageOf(1, <<"REFERENCE", "LIST", "GAIN">>)>>,
   <<StageOf(1, <<"PZ", "GAIN">>), StageOf(2, <<"LIST">>), StageOf(0, <<"GAIN">>)>>,
   <<StageOf(1, <<"PZ", "GAIN">>), StageOf(2, <<"GAIN">>)>>}

(* Requests shorter than, as long as and longer than the list, that lie     *)
(* inside, at either side or outside its range.                             *)
MCCases ==
  {c \in [chan : Chans, nlist : {1, 2}, nfreq : 1..3, lo : 1..3, hi : 0..3,
          start : {-1, 1, 2}, stop : {0, 2}] : c.hi <= c.nfreq /\ c.lo <= c.hi + 1}
=============================================================================
