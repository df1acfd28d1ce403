---------------------------- MODULE MCAlgorithms ----------------------------
(***************************************************************************)
(* The functions without state, each asked of its own questions.            *)
(***************************************************************************)
EXTENDS StringMatch, XmlChars, XmlElement, Spline, Filters, Output, Allocation, Legacy

LOCAL INSTANCE SequencesExt
LOCAL INSTANCE TLC

TextsOver(set, n) == UNION {[1..k -> set] : k \in 0..n}

-----------------------------------------------------------------------------
(* StringMatch                                                              *)
MCAlphabet ==
  <<" ", "$", "(", ")", "*", "+", "-", ".", "/", "0", "1", "2", "9", "?", "A", "B", "C", "D", "E",
    "G", "I", "K", "L", "M", "N", "O", "P", "S", "T", "U", "V", "Z", "[", "\\", "]", "^", "e", "|">>

CharA == OneOf({"A"})
CharB == OneOf({"B"})
Atoms == {CharA, CharB, AnyChar, OneOf({"A", "B"}), NoneOf({"A"}), AtBegin, AtEnd}

TimesOf(es) == {Repeat(e, op) : e \in es, op \in {"*", "+", "?"}}
BothOf(es, fs) == {Then(e, f) : e \in es, f \in fs}
EitherOf(es, fs) == {Either(e, f) : e \in es, f \in fs}

RepeatedAtoms == Atoms \cup TimesOf(Atoms)
Pairs == BothOf(RepeatedAtoms, RepeatedAtoms) \cup EitherOf(RepeatedAtoms, RepeatedAtoms)

(* A group whose last class could match the end of a string is not repeated:*)
(* it would run through what is behind the string.                          *)
Groups ==
  TimesOf({e \in BothOf(RepeatedAtoms, {CharA, CharB}) \cup EitherOf(RepeatedAtoms, {CharA, CharB}) :
             ClassesIn(e) = {}})

MCExpressions ==
  Pairs \cup Groups \cup BothOf(Groups, {CharA, CharB, AtEnd}) \cup BothOf({CharA, AtBegin}, Groups)
    \cup BothOf(TimesOf(BothOf({CharA}, TimesOf(BothOf({CharA, CharB}, {CharA, CharB})))), {CharB})
    \cup BothOf(BothOf({CharA, CharB, AtBegin}, {CharA, CharB, AnyChar}), RepeatedAtoms)
    \cup BothOf(EitherOf({CharA}, {CharB}), RepeatedAtoms)

MCStrings == TextsOver({"A", "B"}, 4)

MCPatterns == TextsOver({"A", "[", "]", "(", ")", "|", "*", "^", "-"}, 4)

MCNumbers == TextsOver({"-", "1", ".", "E"}, 5)

Motions(prefix, scale) ==
  {[line |-> prefix \o motion.line, units |-> motion.units, scale |-> scale] :
     motion \in {[line |-> <<"M">>, units |-> "DIS"],
                 [line |-> <<"M", "/", "S">>, units |-> "VEL"],
                 [line |-> <<"M", "/", "S", "E", "C">>, units |-> "VEL"],
                 [line |-> <<"M", "/", "S", "*", "*", "2">>, units |-> "ACC"],
                 [line |-> <<"M", "/", "S", "E", "C", "*", "*", "2">>, units |-> "ACC"]}}

Unit(line, units, scale) == [line |-> line, units |-> units, scale |-> scale]

MCUnitFields ==
  {[u EXCEPT !.line = @ \o explained] :
     u \in Motions(<<>>, "1") \cup Motions(<<"C">>, "1e2")
             \cup Motions(<<"M">>, "1e3") \cup Motions(<<"N">>, "1e9")
             \cup {Unit(<<"P", "A">>, "PRESSURE", "1"), Unit(<<"K", "P", "A">>, "PRESSURE", "1"),
                   Unit(<<"T", " ", "-">>, "TESLA", "1"), Unit(<<"N", "T", " ", "-">>, "TESLA", "1e9"),
                   Unit(<<"C", " ", "-">>, "CENTIGRADE", "1"), Unit(<<"V">>, "VOLTS", "1"),
                   Unit(<<"V", "O", "L", "T", "S">>, "VOLTS", "1"),
                   Unit(<<"C", "O", "U", "N", "T", "S">>, "COUNTS", "1"),
                   Unit(<<"C", "O", "U", "N", "T">>, "COUNTS", "1"),
                   Unit(<<"D", "I", "G", "I", "T", "A", "L">>, "COUNTS", "1"), Unit(<<"A">>, "UNDEF_UNITS", "1")},
     explained \in {<<>>, <<" ", "-", " ", "M", "/", "S">>}}

-----------------------------------------------------------------------------
(* XmlChars: characters at the limits of their encodings.                   *)
MCChars == {9, 65, 127, 128, 2047, 2048, 55295, 65279, 65533, 65536, 66559, 1048575, 1114109}

MCCharTexts == TextsOver(MCChars, 3)

MCBytes == {0, 10, 65, 128, 191, 192, 194, 220, 224, 237, 239, 187, 240, 247, 254, 255, 216}

MCByteTexts ==
  TextsOver(MCBytes, 3)
    \cup {<<a, b, c, d>> : a \in {240, 247, 254, 255, 239}, b \in MCBytes, c \in {128, 187, 0, 216}, d \in MCBytes}

-----------------------------------------------------------------------------
(* XmlElement                                                               *)
MCEntities ==
  (<<"A">> :> "&") @@ (<<"L">> :> "<") @@ (<<"G">> :> ">") @@ (<<"Q">> :> "\"") @@ (<<"#">> :> " ")

MCSets ==
  [call : {"set"}, name : {<<"a">>, <<"b", "c">>},
   value : TextsOver({"a", "&", "<", "\"", " ", ";"}, 2) \cup {<<">", "'", "=">>}]

MCFew ==
  [call : {"set"}, name : {<<"a">>, <<"b">>, <<"c">>}, value : {<<"\"">>, <<>>}]
    \cup [call : {"delete"}, name : {<<"a">>, <<"b", "c">>}, value : {<<>>}]

MCChanges == {<<c, d>> : c, d \in MCSets} \cup TextsOver(MCFew, 4)

TagPieces ==
  {<<"a">>, <<"b">>, <<"=">>, <<"\"">>, <<"'">>, <<" ">>, <<"&", "A", ";">>, <<"&", "Q", ";">>,
   <<"&", "#", ";">>, <<"&">>, <<"<">>, <<">">>, <<"/">>, <<"?">>}

MCTagTexts ==
  {FlattenSeq(p) : p \in TextsOver(TagPieces, 3)}
    \cup {<<"a", "=">> \o FlattenSeq(p) : p \in TextsOver(TagPieces, 3)}
    \cup {<<"a", "=", "\"">> \o FlattenSeq(p) \o <<"\"", " ", "b", "=">> \o FlattenSeq(q) \o <<">">> :
            p, q \in TextsOver(TagPieces, 2)}

-----------------------------------------------------------------------------
(* Its index: names and values that repeat, and some without an attribute.   *)
MCNodes == [name : {1, 2}, value : {9, 1, 2}]

MCElements ==
  UNION {[1..k -> MCNodes] : k \in 1..5}
    \cup {<<[name |-> 1, value |-> 9]>> \o s : s \in [1..6 -> [name : {2}, value : {1, 2, 3}]]}

MCCriteria == [element : {0, 2}, attr : BOOLEAN]
MCSearches == [element : {0, 1, 2, 3}, value : {0, 1, 2, 3}]

-----------------------------------------------------------------------------
(* Spline: even and uneven knots, and some that are refused.                *)
MCKnotLists ==
  {<<0, 1>>, <<0, 1, 2>>, <<0, 2, 4>>, <<0, 1, 2, 3>>, <<0, 1, 2, 3, 4>>, <<0, 3, 6, 9, 12>>,
   <<0, 1, 3>>, <<2, 3, 4, 7>>, <<0, 1, 1, 2>>, <<2, 1>>, <<1>>, <<0, 2, 3, 7, 8>>}

MCValueLists == UNION {[1..k -> {0, 1, 5}] : k \in 1..4} \cup [1..5 -> {0, 1}]
MCEnds == {<<a, b>> : a, b \in 0..3}
MCEndValues == {<<0, 0>>, <<1, 3>>}

-----------------------------------------------------------------------------
(* Filters: frequencies on the circle, and stages of every type.            *)
OnCircle(t) == Complex(Over(1 - t * t, 1 + t * t), Over(2 * t, 1 + t * t))
MCFrequencies == [f \in 0..3 |-> OnCircle(f * 2)]

MCSymFilters == UNION {[1..k -> {1, 2, 5}] : k \in 1..3}

RealNumber(x) == Complex(x, 0)
MCRootSets ==
  {<<>>, <<RealNumber(3)>>, <<RealNumber(-7)>>, <<Complex(2, 3), Complex(2, -3)>>,
   <<RealNumber(5), RealNumber(1)>>, <<RealNumber(2), Complex(7, 3), Complex(7, -3)>>}

(* A filter whose a0 makes it 1 at its frequency.                           *)
PoleZeroFilter(type, zeros, poles, freq) ==
  LET bare == [type |-> type, zeros |-> zeros, poles |-> poles, sample_int |-> 1]
  IN  [freq |-> freq, scale2 |-> Reciprocal(Norm(Trans(bare, AtFrequency(freq))))] @@ bare

FirFilter(type, coeffs) ==
  [type |-> type, coeffs |-> coeffs, sample_int |-> 2, scale2 |-> 1, applied_corr |-> 3, estim_delay |-> 2]

MCFilters ==
  {PoleZeroFilter("LAPLACE_PZ", <<RealNumber(0)>>, <<Complex(2, 3), Complex(2, -3)>>, f) : f \in {1, 2}}
    \cup {PoleZeroFilter("ANALOG_PZ", <<>>, <<RealNumber(4)>>, f) : f \in {1, 2}}
    \cup {PoleZeroFilter("IIR_PZ", <<RealNumber(4)>>, <<RealNumber(3)>>, f) : f \in {1, 2}}
    \cup {FirFilter("FIR_SYM_1", <<1, 2>>), FirFilter("FIR_SYM_2", <<1, 2>>),
          FirFilter("FIR_ASYM", <<1, 2, 5>>), FirFilter("FIR_ASYM", <<>>), NoFilter,
          [type |-> "IIR_COEFFS", numer |-> <<1, 3>>, denom |-> <<2, 5, 1>>, sample_int |-> 1, scale2 |-> 1],
          [type |-> "POLYNOMIAL", coeffs |-> <<1, 2, 3>>],
          [type |-> "LIST", list |-> [f \in 0..3 |-> Complex(f, 1)]]}

MCGains == {NoGain, Gain(0, 1)} \cup {Gain(9, f) : f \in {0, 1, 2}}
FilterStages(no) == [no : {no}, filter : MCFilters, gain : MCGains]

MCChannels ==
  [stages : {<<s>> : s \in FilterStages(1)} \cup {<<s, t>> : s \in FilterStages(1), t \in FilterStages(2)},
   sensit2 : {0, 4}, sensfreq : {2}, calc_sensit2 : {0}]

MCOptions ==
  {NoOptions, [NoOptions EXCEPT !.start = 1, !.stop = 2], [NoOptions EXCEPT !.start = 2],
   [NoOptions EXCEPT !.start = 1, !.use_estimated_delay = TRUE, !.b62_x = 0]}

-----------------------------------------------------------------------------
(* Allocation: blockettes of every type, in up to two stages of a channel.  *)
BlktOf(type, has) == [type |-> type, has |-> has]

MCBlkts ==
  {BlktOf("LAPLACE_PZ", {"zeros", "poles"}), BlktOf("IIR_PZ", {"poles"}), BlktOf("FIR_ASYM", {"coeffs"}),
   BlktOf("FIR_COEFFS", {"numer", "denom"}), BlktOf("IIR_COEFFS", {"numer", "denom"}),
   BlktOf("LIST", {"freq", "amp", "phase"}), BlktOf("GENERIC", {"corner_slope"}), BlktOf("DECIMATION", {}),
   BlktOf("GAIN", {}), BlktOf("REFERENCE", {}), BlktOf("POLYNOMIAL", {"coeffs", "coeffs_err"}),
   BlktOf("NONE", {})}

BuiltStages(n) == [blkts : UNION {[1..k -> MCBlkts] : k \in 0..n},
                   units : {{}, {"output_units_str", "input_units_str"}}]

MCStructures ==
  [of : {"channels"},
   channels : {<<>>, <<<<>>>>} \cup {<<<<s>>>> : s \in BuiltStages(2)}
                \cup {<<<<s, t>>>> : s, t \in BuiltStages(1)}
                \cup {<<<<s>>, <<>>, <<t>>>> : s, t \in BuiltStages(1)}]
    \cup [of : {"strings"}, strings : UNION {[1..k -> BOOLEAN] : k \in 1..3}]
    \cup [of : {"sncls"}, count : 1..3]
    \cup [of : {"files"}, lists : UNION {[1..k -> TextsOver(BOOLEAN, 3)] : k \in 1..2}]
    \cup [of : {"responses"}, chains : UNION {[1..k -> UNION {[1..l -> BOOLEAN] : l \in 1..2}] : k \in 0..2}]

-----------------------------------------------------------------------------
(* Output: phases about half a turn, frequencies in, out and at the ends of *)
(* a response list.                                                         *)
MCPhaseLists == TextsOver({-179, -90, 100, 180}, 3)
MCListPhases == UNION {[1..k -> {-270, -180, -100, 0, 90, 170, 181, 359}] : k \in 1..4}

MCListEnds == {[first |-> 10, last |-> 20], [first |-> 20, last |-> 10], [first |-> 0, last |-> 10]}

MCRequestable == <<-1, 1, 8, 9, 10, 11, 15, 20, 21, 22>>
MCRequested == {SelectSeq(MCRequestable, LAMBDA f : f \in s) : s \in (SUBSET ToSet(MCRequestable)) \ {{}}}

NoUnits == [code |-> 0, name |-> "NULL"]

DescribedStages(no) ==
  [no : {no},
   blkts : {<<"REFERENCE", "LAPLACE_PZ", "GAIN">>, <<"GAIN">>, <<"FIR_SYM_2", "DECIMATION", "GAIN">>,
            <<"LIST", "GAIN">>, <<"GENERIC", "GAIN">>},
   input_units : [code : {0, 1}, name : {"NULL", "m/s"}],
   output_units : {NoUnits, [code |-> 1, name |-> "V"]}]

MCDescribed ==
  {<<s>> : s \in DescribedStages(1)} \cup {<<s, t>> : s \in DescribedStages(1), t \in DescribedStages(2)}
    \cup {<<s, [no |-> 0, blkts |-> <<"GAIN">>, input_units |-> NoUnits, output_units |-> NoUnits]>> :
            s \in DescribedStages(1)}

MCDescribeOptions == [start : {-1, 0, 1, 2}, stop : {0, 1, 2}, b55_interpolate : BOOLEAN]

-----------------------------------------------------------------------------
(* Conversion                                                               *)
MCFlags ==
  {<<"-v", "">>, <<"-v", "x">>, <<"-o", "a">>, <<"-o", "b">>, <<"-o missing", "">>, <<"unknown", "">>,
   <<"name", "f">>}

(* Legacy                                                                   *)
MCDecades == (1 :> 0) @@ (10 :> 1) @@ (100 :> 2) @@ (1000 :> 3)
MCFreqLists ==
  UNION {[1..k -> {0, 1, 10, 100, 1000}] : k \in 1..4}
    \cup {[i \in 1..k |-> lo + (i - 1) * step] : k \in 3..5, lo \in 0..3, step \in {-3, 1, 2, 7}}

-----------------------------------------------------------------------------
Init ==
  \/ MatchInit \/ CharsInit \/ ElementInit \/ IndexInit
  \/ SplineInit \/ FiltersInit \/ AllocationInit \/ OutputInit
  \/ ConversionInit \/ LegacyInit

Next ==
  \/ MatchNext \/ CharsNext \/ ElementNext \/ IndexNext
  \/ SplineNext \/ FiltersNext \/ AllocationNext \/ OutputNext
  \/ ConversionNext \/ LegacyNext

Spec == Init /\ [][Next]_asked_vars
=============================================================================
