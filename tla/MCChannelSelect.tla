--------------------------- MODULE MCChannelSelect ---------------------------
(* Small instances of ChannelSelect.                                         *)
EXTENDS ChannelSelect

CONSTANTS A, B  \* two SNCLs

MCSncls == {A, B}

Spans(pairs) == {[sncl |-> s, beg |-> p[1], end |-> p[2]] : s \in MCSncls, p \in pairs}

FilesUpTo(len, epochs) == UNION {[1..l -> epochs] : l \in 0..len}

(* Nested, overlapping, abutting, equally long, equal and open epochs.       *)
MCFiles == FilesUpTo(3, Spans({<<1, 3>>, <<2, 4>>, <<1, 4>>, <<2, Open>>, <<3, Open>>}))

(* Four entries of one SNCL: winners that lose later, chains of losers.      *)
LongFiles ==
  [1..4 -> {[sncl |-> A, beg |-> p[1], end |-> p[2]] :
              p \in {<<1, 3>>, <<0, 4>>, <<2, 4>>, <<1, Open>>, <<3, Open>>}}]

MCFilters ==
  [time : {NoTime, 2, 3}, pats : {<<>>, <<{A}>>, <<{B}, {A, B}>>}]

AllFiles == MCFiles \cup LongFiles

(* An epoch whose length does not fit an int of four bits (-8..7): 16 seconds*)
(* become 0, 10 become -6.                                                   *)
WideFiles == FilesUpTo(2, Spans({<<1, 3>>, <<1, 17>>, <<1, 11>>}))
=============================================================================
