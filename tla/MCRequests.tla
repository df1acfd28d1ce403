----------------------------- MODULE MCRequests -----------------------------
EXTENDS Requests

MCAlphabet == <<" ", "*", ",", "?", "A", "B">>

StringsOf(set, n) == UNION {[1..k -> set] : k \in 0..n}

A == <<"A">>
B == <<"B">>

MCChannels ==
  [station : {A, <<"A", "B">>, <<"B", "B">>}, network : {<<>>, A}, locid : {<<>>, A, <<"A", "B">>},
   channel : {B}]

Command(sta, chan, net, loc, args, given) ==
  [sta |-> sta, chan |-> chan, net |-> net, loc |-> loc, args |-> args, flags |-> given]

Date == <<"1999", "1">>
AllNamed == <<"n", "*", "l", "*">>

(* The options, in orders that could be taken for each other's arguments.   *)
Parts == {<<"stage", "1">>, <<"stage", "1", "3">>, <<"stage", "DIS">>, <<"stage">>, <<"u", "DIS">>,
          <<"u", "3">>, <<"r", "CS">>, <<"stdio">>, <<"v">>, <<"il">>, <<"ii">>, <<"t", "12:30">>, <<"other">>,
          <<"3">>, <<"b", "1.5">>, <<"f", "file">>, <<"s", "LIN">>}

MCCommandLines ==
  {Command(s, B, AnyName, AnyName, Date, AllNamed) : s \in StringsOf({"A", "B", "*", ",", " "}, 4)}
    \cup {Command(A, B, AnyName, l, Date, AllNamed) : l \in StringsOf({"A", "?", ",", " "}, 4)}
    \cup {Command(A, c, n, AnyName, Date, f) : c \in {B, AnyName, <<"?", ",", "B">>, NULL},
                                               n \in StringsOf({"A", "?"}, 2), f \in {<<>>, <<"n", "A">>}}
    \cup {Command(A, B, AnyName, AnyName, Date \o more, p \o q \o r) :
            more \in {<<>>, <<"1.5">>, <<"1.5", "3", "1">>}, p, q, r \in Parts}
    \cup {Command(A, B, AnyName, AnyName, a, <<>>) :
            a \in {<<>>, <<"1999">>, <<"x", "1">>, <<"1999", "1", "x">>, <<"1999", "1", "1", "x">>,
                   <<"1999", "1", "1", "1", "1.5">>}}

MCLegacyCalls ==
  [sta : StringsOf({"A", "B", "*"}, 2) \cup {NULL}, chan : {B, <<"?">>}, net : {<<>>, A, NULL},
   loc : {<<>>, <<"?", "?">>, <<" ", " ">>, A, NULL}, date : {<<"1999", "1", "12:30">>},
   format : {"AP"}, unit : {"VEL", NULL}, flags : {<<>>}]
  \cup [sta : {A}, chan : {B}, net : {A}, loc : {A},
        date : {<<"1999", "1", "12:30">>, <<"1999", "1">>, <<"1999", "1", "x">>},
        format : {"AP", "x", NULL}, unit : {"x", "VEL"}, flags : {<<>>}]
=============================================================================
