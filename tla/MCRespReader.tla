---------------------------- MODULE MCRespReader ---------------------------
(* Instances of RespReader: what dom_to_seed.c writes for a few channels,   *)
(* and blockettes only other writers of RESP files produce.                 *)
EXTENDS RespReader

Writer == INSTANCE DomToSeed

Stage(number, type, n, m, decimation, gain) ==
  [number |-> number, type |-> type, tft |-> "digital", n |-> n, m |-> m,
   decimation |-> decimation, stage_gain |-> gain]

Channel(stages, sensitivity, poly) ==
  [location |-> "code", open |-> TRUE, stages |-> stages, sensitivity |-> sensitivity,
   poly |-> poly]

Converted ==
  {<<Channel(<<Stage(1, "poles_zeros", 1, 2, FALSE, TRUE)>>, "set", -1)>>,
   <<Channel(<<Stage(1, "poles_zeros", 2, 1, FALSE, TRUE),
               Stage(2, "coefficients", 2, 0, TRUE, TRUE),
               Stage(3, "coefficients", 1, 1, TRUE, FALSE)>>, "unset", -1)>>,
   <<Channel(<<Stage(1, "polynomial", 2, 0, FALSE, FALSE),
               Stage(2, "fir", 2, 0, TRUE, TRUE)>>, "unset", 1)>>,
   <<Channel(<<Stage(1, "response_list", 0, 0, FALSE, TRUE),
               Stage(2, "none", 0, 0, TRUE, TRUE)>>, "set", -1)>>,
   <<Channel(<<Stage(1, "poles_zeros", 1, 0, FALSE, TRUE)>>, "unset", -1),
     Channel(<<>>, "unset", -1),
     Channel(<<Stage(1, "poles_zeros", 0, 1, FALSE, TRUE)>>, "unset", -1)>>}

(* A header without location, and blockettes with everything optional.      *)
OldHeader == Fields(50, <<3, 16>>, <<0, 0>>) \o Fields(52, <<4, 22, 23>>, <<0, 0, 0>>)
List(numbered) ==
  Fields(55, <<3, 4, 5, 6>>, <<1, 0, 0, 2>>) \o Rows(2, 55, 7, IF numbered THEN 6 ELSE 5)
GenericResponse == Fields(56, <<3, 4, 5, 6>>, <<2, 0, 0, 1>>) \o Rows(1, 56, 7, 5)
GainWithHistory ==
  Fields(58, <<3, 4, 5, 6>>, <<2, 0, 0, 2>>) \o Rows(2, 58, 7, 3) \o <<CommentLine, Ln(59, 3, 0)>>
TwoStageReference ==
  Fields(60, <<3, 4, 5>>, <<2, 1, 2>>)
    \o Fields(43, <<5, 6, 7, 8, 9, 10, 15>>, <<0, 0, 0, 0, 0, 1, 1>>) \o Rows(1, 43, 11, 5)
    \o Rows(1, 43, 16, 5) \o Fields(48, <<5, 6, 7>>, <<0, 0, 0>>)
    \o Fields(60, <<3, 4, 5>>, <<2, 2, 3>>)
    \o Fields(44, <<5, 6, 7, 8, 11>>, <<0, 0, 0, 2, 0>>) \o Rows(2, 44, 9, 3)
    \o Fields(47, <<5, 6, 7, 8, 9>>, <<0, 0, 0, 0, 0>>)
    \o Fields(41, <<5, 6, 7, 8>>, <<0, 0, 0, 1>>) \o Rows(1, 41, 9, 2)
ListReference ==
  Fields(60, <<3, 4, 5>>, <<1, 3, 2>>) \o Fields(45, <<5, 6, 7>>, <<0, 0, 1>>) \o Rows(1, 45, 8, 5)
    \o Fields(46, <<5, 6, 7>>, <<0, 0, 1>>) \o Rows(1, 46, 8, 5)

MCSources ==
  {Writer!Write(cs) : cs \in Converted}
    \cup {<<<<OldHeader, List(b), GenericResponse, GainWithHistory>>>> : b \in BOOLEAN}
    \cup {<<<<OldHeader, TwoStageReference, ListReference>>>>}

MCHarms == {"lost", "bad", "empty", "prefix", "fewer", "more"}
=============================================================================
