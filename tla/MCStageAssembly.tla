--------------------------- MODULE MCStageAssembly ---------------------------
(* Small instances of StageAssembly.                                         *)
EXTENDS StageAssembly

MCSeqNos == 0..2

Alphabet ==
  {[kind |-> t, seq |-> q] : t \in Response, q \in 1..2}
    \cup {[kind |-> "plain", seq |-> 0], [kind |-> "other"]}
    \cup {[kind |-> "ref", stages |-> s] :
            s \in {<<[seq |-> 1, resps |-> <<"plain">>]>>,
                   <<[seq |-> 1, resps |-> <<"filter", "plain">>],
                     [seq |-> 2, resps |-> <<"filter", "filter">>]>>}}

(* Every channel of at most four blockettes of this alphabet.                *)
MCTexts == UNION {[1..l -> Alphabet] : l \in 0..4}
=============================================================================
