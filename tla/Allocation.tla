----------------------------- MODULE Allocation -----------------------------
(***************************************************************************)
(* alloc_fctns.c: how what the library builds is allocated, and freed; and *)
(* what the functions that convert StationXML open, close, give back and   *)
(* hand out.                                                               *)
(*                                                                         *)
(* A block is named by what it holds, and by the numbers of what it is in: *)
(* <<"zeros", 2, 1, 3>> are those of blockette 3 of stage 1 of channel 2.  *)
(* A function that frees is the sequence of what it does: it reads a block *)
(* (a pointer in it), or gives it back.                                    *)
(***************************************************************************)
EXTENDS Question, Integers, Sequences

LOCAL INSTANCE SequencesExt
LOCAL INSTANCE TLC

CONSTANTS Structures,   \* what is freed
          MaxCount      \* strings or requests in an array

NULL == "NULL"

Block(what, c, i, j) == <<what, c, i, j>>

Reads(block) == <<[does |-> "read", block |-> block]>>
Frees(block) == <<[does |-> "free", block |-> block]>>

(* One after the other, and for a chain that is recursed into before its    *)
(* links are given back, from its end.                                      *)
Each(n, Does(_)) == FlattenSeq([k \in 1..n |-> Does(k)])
FromEnd(n, Does(_)) == FlattenSeq([k \in 1..n |-> Does(n + 1 - k)])

IfThere(there, does) == IF there THEN does ELSE <<>>

-----------------------------------------------------------------------------
(* The functions that allocate: the blocks they ask for one after the       *)
(* other, and, when one is refused, which of them they give back.           *)
Single == {"alloc_complex", "alloc_file_list", "alloc_matched_files", "alloc_double", "alloc_char",
           "alloc_char_ptr", "alloc_pz", "alloc_coeff", "alloc_polynomial", "alloc_fir", "alloc_ref",
           "alloc_gain", "alloc_list", "alloc_generic", "alloc_deci", "evalresp_alloc_channels",
           "calloc_doubles"}

(* Nothing is asked for when nothing is to be in it.                        *)
Counted == {"alloc_complex", "alloc_double", "alloc_char", "alloc_char_ptr", "alloc_string_array",
            "alloc_scn_list", "alloc_response"}

scn_fields == <<"scn", "station", "network", "locid", "channel">>

Scn(i) == [k \in 1..5 |-> Block(scn_fields[k], 0, i, 0)]

(* alloc_scn, refused its block no. k: the fields it has are given back,    *)
(* but for channel, where it takes the one it lacks for locid.              *)
ScnGivesBack(k) == ToSet(SubSeq(Scn(0), 1, k - 1)) \ (IF k = 5 THEN {Block("locid", 0, 0, 0)} ELSE {})

(* A structure and the vector in it.                                        *)
VectorGivesBack(k) == IF k = 2 THEN {Block("array", 0, 0, 0)} ELSE {}

Wanted(name, n) ==
  CASE name \in Counted /\ n = 0 -> <<>>
    [] name = "alloc_scn" -> Scn(0)
    [] name = "alloc_string_array" -> <<Block("array", 0, 0, 0), Block("vector", 0, 0, 0)>>
    [] name = "alloc_scn_list" ->
         <<Block("array", 0, 0, 0), Block("vector", 0, 0, 0)>> \o FlattenSeq([i \in 1..n |-> Scn(i)])
    [] name = "alloc_response" -> <<Block("response", 0, 0, 0), Block("rvec", 0, 0, 0)>>
    [] OTHER -> <<Block(name, 0, 0, 0)>>

(* What is left of a call that is refused its block no. k, and what it      *)
(* returns: alloc_scn_list does not ask what alloc_scn returned, and        *)
(* alloc_response writes into the vector it did not get.                    *)
Refused(name, n, k) ==
  LET had == ToSet(SubSeq(Wanted(name, n), 1, k - 1))
  IN  CASE name = "alloc_scn" -> [live |-> had \ ScnGivesBack(k), result |-> NULL]
        [] name = "alloc_string_array" -> [live |-> had \ VectorGivesBack(k), result |-> NULL]
        [] name = "alloc_scn_list" /\ k <= 2 -> [live |-> had \ VectorGivesBack(k), result |-> NULL]
        [] name = "alloc_response" /\ k = 2 -> [live |-> had, result |-> "crash"]
        [] OTHER -> [live |-> had, result |-> NULL]

Granted(name, n) ==
  [live |-> ToSet(Wanted(name, n)), result |-> IF Wanted(name, n) = <<>> THEN NULL ELSE Wanted(name, n)[1]]

-----------------------------------------------------------------------------
(* The functions that free.  A blockette is its type and the vectors it has.*)
Vectors ==
  [free_pz |-> <<"zeros", "poles">>, free_coeff |-> <<"numer", "denom">>, free_fir |-> <<"coeffs">>,
   free_list |-> <<"freq", "amp", "phase">>, free_generic |-> <<"corner_slope", "corner_freq">>,
   free_gain |-> <<>>, free_deci |-> <<>>, free_ref |-> <<>>,
   free_polynomial |-> <<"coeffs", "coeffs_err">>]

FreeBlkt(function, blkt, c, i, j) ==
  LET vectors == Vectors[function]
      at(what) == Block(what, c, i, j)
  IN  Each(Len(vectors), LAMBDA k : Reads(at("blkt")) \o IfThere(vectors[k] \in blkt.has, Frees(at(vectors[k]))))
      \o Frees(at("blkt"))

(* free_stages asks for the type.  There are types it does not know.        *)
FreesType(type) ==
  CASE type \in {"LAPLACE_PZ", "ANALOG_PZ", "IIR_PZ"} -> "free_pz"
    [] type \in {"FIR_SYM_1", "FIR_SYM_2", "FIR_ASYM"} -> "free_fir"
    [] type = "FIR_COEFFS" -> "free_coeff"
    [] type = "LIST" -> "free_list"
    [] type = "GENERIC" -> "free_generic"
    [] type = "DECIMATION" -> "free_deci"
    [] type = "GAIN" -> "free_gain"
    [] type = "REFERENCE" -> "free_ref"
    [] type = "POLYNOMIAL" -> "free_polynomial"
    [] OTHER -> "none"

(* Mutant of FreeNext: the next one is looked for when the blockette is     *)
(* gone.                                                                    *)
FreeThenNext(blkt, c, i, j) ==
  LET function == FreesType(blkt.type)
  IN  Reads(Block("blkt", c, i, j))
      \o IfThere(function # "none", FreeBlkt(function, blkt, c, i, j)) \o Reads(Block("blkt", c, i, j))

(* A blockette of the loop of free_stages: the next one is looked for       *)
(* first.                                                                   *)
FreeNext(blkt, c, i, j) ==
  LET function == FreesType(blkt.type)
  IN  Reads(Block("blkt", c, i, j)) \o IfThere(function # "none", FreeBlkt(function, blkt, c, i, j))

unit_fields == <<"output_units_str", "input_units_str">>

(* Stages after this one are gone when it is freed.                         *)
FreeStages(stages, c) ==
  Each(Len(stages), LAMBDA i : Reads(Block("stage", c, i, 0)))
  \o FromEnd(Len(stages), LAMBDA i :
       LET stage == Block("stage", c, i, 0)
       IN  Reads(stage)
           \o Each(Len(stages[i].blkts), LAMBDA j : FreeNext(stages[i].blkts[j], c, i, j))
           \o Each(2, LAMBDA k : Reads(stage)
                \o IfThere(unit_fields[k] \in stages[i].units, Frees(Block(unit_fields[k], c, i, 0))))
           \o Frees(stage))

FreeChannel(stages, c) == Reads(Block("channel", c, 0, 0)) \o FreeStages(stages, c) \o Frees(Block("channel", c, 0, 0))

FreeChannels(channels) ==
  Each(Len(channels), LAMBDA c : Reads(Block("channels", 0, 0, 0)) \o Reads(Block("vector", 0, 0, 0)) \o FreeChannel(channels[c], c))
  \o Frees(Block("vector", 0, 0, 0)) \o Frees(Block("channels", 0, 0, 0))

FreeStringArray(strings) ==
  Reads(Block("array", 0, 0, 0))
  \o Each(Len(strings), LAMBDA i : Reads(Block("vector", 0, 0, 0)) \o IfThere(strings[i], Frees(Block("string", 0, i, 0))))
  \o Frees(Block("vector", 0, 0, 0)) \o Frees(Block("array", 0, 0, 0))

(* free_scn gives back the fields, its caller the structure.                *)
FreeScn(i) == Each(4, LAMBDA k : Reads(Scn(i)[1]) \o Frees(Scn(i)[k + 1]))

FreeSncls(n) ==
  Each(n, LAMBDA i : Reads(Block("vector", 0, 0, 0)) \o FreeScn(i) \o Frees(Scn(i)[1]))
  \o Frees(Block("vector", 0, 0, 0)) \o Frees(Block("array", 0, 0, 0))

(* free_file_list gives back all but the first of the list.                 *)
FreeFileList(names, i) ==
  LET file(j) == Block("file", 0, i, j)
  IN  Each(Len(names), LAMBDA j : Reads(file(j)))
      \o FromEnd(Len(names), LAMBDA j :
           Reads(file(j)) \o IfThere(names[j], Frees(Block("name", 0, i, j)))
           \o IfThere(j < Len(names), Frees(file(j + 1))))

FreeMatchedFiles(lists) ==
  LET list(i) == Block("matched", 0, i, 0)
  IN  Each(Len(lists), LAMBDA i : Reads(list(i)))
      \o FromEnd(Len(lists), LAMBDA i :
           Reads(list(i))
           \o IfThere(lists[i] # <<>>, FreeFileList(lists[i], i) \o Frees(Block("file", 0, i, 1)))
           \o Frees(list(i)))

(* One response is a chain of them; freqs may be NULL.                      *)
FreeResponse(chain, i) ==
  Each(Len(chain), LAMBDA j :
    Reads(Block("response", 0, i, j)) \o Frees(Block("rvec", 0, i, j))
    \o IfThere(chain[j], Frees(Block("freqs", 0, i, j))) \o Frees(Block("response", 0, i, j)))

FreeResponses(chains) ==
  Each(Len(chains), LAMBDA i : Reads(Block("responses", 0, 0, 0)) \o Reads(Block("vector", 0, 0, 0)) \o FreeResponse(chains[i], i))
  \o Frees(Block("vector", 0, 0, 0)) \o Frees(Block("responses", 0, 0, 0))

FreeAll(structure) ==
  CASE structure.of = "channels" -> FreeChannels(structure.channels)
    [] structure.of = "strings" -> FreeStringArray(structure.strings)
    [] structure.of = "sncls" -> FreeSncls(structure.count)
    [] structure.of = "files" -> FreeMatchedFiles(structure.lists)
    [] structure.of = "responses" -> FreeResponses(structure.chains)

-----------------------------------------------------------------------------
AllocationInit ==
  /\ question \in [of : {"alloc"}, name : Single \cup Counted \cup {"alloc_scn"}, n : 0..MaxCount,
                   refused : 0..(2 + 5 * MaxCount)]
             \cup [of : {"release"}, structure : Structures]
  /\ answer = Unanswered

(* A call that gets all it asks for, or is refused one block.               *)
Allocate ==
  /\ Asked("alloc")
  /\ question.refused <= Len(Wanted(question.name, question.n))
  /\ question.name = "alloc_scn_list" => question.refused <= 2
  /\ Answer([of |-> "alloc"] @@ IF question.refused = 0 THEN Granted(question.name, question.n)
                                ELSE Refused(question.name, question.n, question.refused))

ReleaseAll ==
  /\ Asked("release")
  /\ Answer([of |-> "release", does |-> FreeAll(question.structure)])

AllocationNext == Allocate \/ ReleaseAll

-----------------------------------------------------------------------------
(* What a structure is made of, and the blocks that none of the functions   *)
(* gives back: blockettes of types free_stages does not know.               *)
BlktBlocks(blkt, c, i, j) == {Block(what, c, i, j) : what \in {"blkt"} \cup blkt.has}

StageBlocks(stage, c, i) ==
  {Block(what, c, i, 0) : what \in {"stage"} \cup stage.units}
  \cup UNION {BlktBlocks(stage.blkts[j], c, i, j) : j \in DOMAIN stage.blkts}

Known(blkt) == FreesType(blkt.type) # "none"

Forgotten(structure) ==
  IF structure.of # "channels" THEN {}
  ELSE UNION {UNION {UNION {IF Known(structure.channels[c][i].blkts[j]) THEN {}
                            ELSE BlktBlocks(structure.channels[c][i].blkts[j], c, i, j)
                            : j \in DOMAIN structure.channels[c][i].blkts}
                     : i \in DOMAIN structure.channels[c]}
              : c \in DOMAIN structure.channels}

Blocks(structure) ==
  LET container(name) == {Block(name, 0, 0, 0), Block("vector", 0, 0, 0)}
  IN  CASE structure.of = "channels" ->
             container("channels") \cup {Block("channel", c, 0, 0) : c \in DOMAIN structure.channels}
             \cup UNION {UNION {StageBlocks(structure.channels[c][i], c, i) : i \in DOMAIN structure.channels[c]}
                         : c \in DOMAIN structure.channels}
        [] structure.of = "strings" ->
             container("array") \cup {Block("string", 0, i, 0) : i \in {i \in DOMAIN structure.strings : structure.strings[i]}}
        [] structure.of = "sncls" -> container("array") \cup UNION {ToSet(Scn(i)) : i \in 1..structure.count}
        [] structure.of = "files" ->
             UNION {{Block("matched", 0, i, 0)} \cup {Block("file", 0, i, j) : j \in DOMAIN structure.lists[i]}
                    \cup {Block("name", 0, i, j) : j \in {j \in DOMAIN structure.lists[i] : structure.lists[i][j]}}
                    : i \in DOMAIN structure.lists}
        [] structure.of = "responses" ->
             container("responses")
             \cup UNION {UNION {{Block(what, 0, i, j) : what \in {"response", "rvec"}
                                   \cup (IF structure.chains[i][j] THEN {"freqs"} ELSE {})}
                                : j \in DOMAIN structure.chains[i]} : i \in DOMAIN structure.chains}

(* No leak when an allocation is refused halfway, and everything built is   *)
(* given back exactly once, no block being read or given back after it is   *)
(* gone.  The code does not keep this for locid when alloc_scn is refused   *)
(* channel, and for blockettes of types free_stages does not know.          *)
NothingLeftBehind ==
  /\ answer.of = "alloc" /\ answer.result = NULL =>
       answer.live \subseteq {Block("locid", 0, 0, 0)}
  /\ answer.of = "release" =>
       LET frees == SelectSeq(answer.does, LAMBDA step : step.does = "free")
           gone(n) == {answer.does[m].block : m \in {m \in 1..(n - 1) : answer.does[m].does = "free"}}
       IN  /\ {frees[k].block : k \in DOMAIN frees} = Blocks(question.structure) \ Forgotten(question.structure)
           /\ \A n \in DOMAIN answer.does : answer.does[n].block \notin gone(n)

-----------------------------------------------------------------------------
(* The other ways to have StationXML converted: the functions of wrappers.c *)
(* that take it from memory or from a stream, and the program xml2resp.     *)
(* (StationXml is the way of evalresp_filename_to_channels.)                *)
(*                                                                          *)
(* A function is what it does with documents, files and strings, what it    *)
(* returns and what it hands out: Frees are also the closing of files.      *)
CONSTANTS Flags,      \* arguments of xml2resp
          MaxArgs     \* and how many it may be called with

Nothing == <<"nothing">>

Has(what) == Block(what, 0, 0, 0)
Gets(block) == <<[does |-> "get", block |-> block]>>

Call(status, does, out) == [status |-> status, does |-> does, out |-> out]

-----------------------------------------------------------------------------
(* load_mxml_service and x2r_station_service_load: the document is gone     *)
(* afterwards, the root stays even of one that is refused.                  *)
Load(source) ==
  CASE source = "none" -> Call("IO", <<>>, Nothing)
    [] source = "malformed" -> Call("XML", <<>>, Nothing)
    [] OTHER -> Call(IF source = "accepted" THEN "OK" ELSE "XML",
                     Gets(Has("doc")) \o Gets(Has("root")) \o Frees(Has("doc")), Nothing)

(* x2r_free_fdsn_station_xml                                                *)
FreeRoot(loaded) == IfThere(\E i \in DOMAIN loaded.does : loaded.does[i].block = Has("root"), Frees(Has("root")))

(* save_mxml_service_to_char, through a temporary file                      *)
SaveToChar(fault) ==
  IF fault = "open" THEN Call("IO", <<>>, Nothing)
  ELSE LET saved == fault \notin {"write", "slurp"}
       IN  Call(IF saved THEN "OK" ELSE "IO",
                Gets(Has("tmp")) \o IfThere(saved, Gets(Has("buffer"))) \o Frees(Has("tmp")),
                IF saved THEN Has("buffer") ELSE Nothing)

XmlToChar(xml_flag, source, fault) ==
  IF ~xml_flag THEN Call("OK", <<>>, Nothing)
  ELSE LET loaded == Load(source)
           saved == SaveToChar(fault)
       IN  IF loaded.status # "OK" THEN [loaded EXCEPT !.does = @ \o FreeRoot(loaded)]
           ELSE Call(saved.status, loaded.does \o saved.does \o FreeRoot(loaded), saved.out)

-----------------------------------------------------------------------------
(* evalresp_xml_stream_to_resp_file: the file that is written, temporary or *)
(* by a name, is the caller's, unless something goes wrong.  The root is    *)
(* not freed.                                                               *)
(* Mutant of StreamToFile: a file that a document was refused for is left.  *)
StreamToFileLeftOpen(xml_flag, source, fault) ==
  IF ~xml_flag THEN Call("OK", <<>>, Nothing)
  ELSE IF source = "none" THEN Call("ERR", <<>>, Nothing)
  ELSE IF fault = "open" THEN Call("IO", <<>>, Nothing)
  ELSE LET loaded == Load(source)
           status == IF loaded.status = "OK" /\ fault = "write" THEN "IO" ELSE loaded.status
       IN  Call(status,
                Gets(Has("resp")) \o loaded.does \o IfThere(status = "IO", Frees(Has("resp"))),
                IF status = "OK" THEN Has("resp") ELSE Nothing)

StreamToFile(xml_flag, source, fault) ==
  IF ~xml_flag THEN Call("OK", <<>>, Nothing)
  ELSE IF source = "none" THEN Call("ERR", <<>>, Nothing)
  ELSE IF fault = "open" THEN Call("IO", <<>>, Nothing)
  ELSE LET loaded == Load(source)
           status == IF loaded.status = "OK" /\ fault = "write" THEN "IO" ELSE loaded.status
       IN  Call(status,
                Gets(Has("resp")) \o loaded.does \o IfThere(status # "OK", Frees(Has("resp"))),
                IF status = "OK" THEN Has("resp") ELSE Nothing)

(* x2r_detect_xml: spaces, and then a "<" or something else.                *)
Detected(start) ==
  LET solid == SelectSeq(start, LAMBDA char : char \notin {" ", "\n", "\r"})
  IN  solid # <<>> /\ solid[1] = "<"

(* evalresp_xml_stream_to_resp_stream_auto: what is not converted is handed *)
(* back as it came.                                                         *)
StreamAuto(start, source, fault) ==
  LET xml_flag == Detected(start)
      file == StreamToFile(xml_flag, source, fault)
  IN  IF ~xml_flag /\ file.status = "OK" THEN [file EXCEPT !.out = Has("input")] ELSE file

-----------------------------------------------------------------------------
(* xml2resp.  Arguments are <<"-v", level>>, <<"-o", name>>, what is wrong, *)
(* and names.  A level that is no number is wrong.                          *)
Wrong(flag) == flag[1] \in {"-o missing", "unknown"} \/ flag = <<"-v", "x">>

Names(args) == SelectSeq(args, LAMBDA flag : flag[1] = "name")
OutputsIn(args) == SelectSeq(args, LAMBDA flag : flag[1] = "-o")

(* The options up to the first that is wrong; the name of the output is     *)
(* kept, and that of an earlier one freed.                                  *)
Obeyed(args) ==
  LET wrong == {i \in DOMAIN args : Wrong(args[i])}
  IN  IF wrong = {} THEN args ELSE SubSeq(args, 1, (CHOOSE i \in wrong : \A j \in wrong : i <= j) - 1)

Output(k) == Block("output", 0, k, 0)

KeepsOutputs(n) ==
  Each(n, LAMBDA k : IfThere(k > 1, Frees(Output(k - 1))) \o Gets(Output(k)))

(* parse_opts: the files, and the strings that named them.                  *)
ParseOpts(args, fault) ==
  LET n == Len(OutputsIn(Obeyed(args)))
      kept == KeepsOutputs(n)
      forget == IfThere(n > 0, Frees(Output(n)))
      named == Names(args) # <<>>
      input == IfThere(named, Gets(Has("input_name")))
      forget_input == IfThere(named, Frees(Has("input_name")))
  IN  IF Obeyed(args) # args \/ Len(Names(args)) > 1 THEN Call("USER", kept \o forget, Nothing)
      ELSE IF named /\ fault = "input" THEN Call("IO", kept \o input \o forget \o forget_input, Nothing)
      ELSE LET opened == IfThere(named, Gets(Has("in")))
           IN  IF n > 0 /\ fault = "open"
                 THEN Call("IO", kept \o input \o opened \o forget_input \o forget, Nothing)
               ELSE Call("OK", kept \o input \o opened \o IfThere(n > 0, Gets(Has("out"))) \o forget \o forget_input,
                         IF n > 0 THEN OutputsIn(args)[n] ELSE <<"stdout">>)

GotIn(does, block) == \E i \in DOMAIN does : does[i].does = "get" /\ does[i].block = block

Main(args, source, fault) ==
  LET opts == ParseOpts(args, fault)
      loaded == IF opts.status = "OK" THEN Load(source) ELSE Call(opts.status, <<>>, Nothing)
      status == IF loaded.status = "OK" /\ fault = "write" THEN "IO" ELSE loaded.status
      closes(file) == IfThere(GotIn(opts.does, Has(file)), Frees(Has(file)))
  IN  Call(status, opts.does \o loaded.does \o closes("in") \o closes("out") \o FreeRoot(loaded),
           IF status = "OK" THEN opts.out ELSE Nothing)

-----------------------------------------------------------------------------
Sources == {"none", "malformed", "refused", "accepted"}
ConversionFaults == {"no fault", "open", "write", "slurp", "input"}

ConversionInit ==
  /\ question \in [of : {"to char"}, xml_flag : BOOLEAN, source : Sources, fault : ConversionFaults]
             \cup [of : {"to file"}, xml_flag : BOOLEAN, source : Sources, fault : ConversionFaults]
             \cup [of : {"auto"}, start : UNION {[1..k -> {" ", "\n", "<", "B"}] : k \in 0..3},
                   source : Sources \ {"none"}, fault : ConversionFaults]
             \cup [of : {"xml2resp"}, args : UNION {[1..k -> Flags] : k \in 0..MaxArgs},
                   source : Sources \ {"none"}, fault : ConversionFaults]
  /\ question.of = "xml2resp" =>   \* only the last can lack what belongs to it
       \A i \in 1..(Len(question.args) - 1) : question.args[i][1] # "-o missing"
  /\ answer = Unanswered

Done(call) == Answer([of |-> "conversion", call |-> call])

ConvertChar == Asked("to char") /\ Done(XmlToChar(question.xml_flag, question.source, question.fault))
ConvertFile == Asked("to file") /\ Done(StreamToFile(question.xml_flag, question.source, question.fault))
ConvertAuto == Asked("auto") /\ Done(StreamAuto(question.start, question.source, question.fault))
Xml2Resp == Asked("xml2resp") /\ Done(Main(question.args, question.source, question.fault))

ConversionNext == ConvertChar \/ ConvertFile \/ ConvertAuto \/ Xml2Resp

-----------------------------------------------------------------------------
(* Whatever fails, what was got is given back once and not before, except   *)
(* for what the caller is handed; and the caller is handed something        *)
(* whenever the conversion succeeds, and only then.  What a stream's root   *)
(* holds is never given back.                                               *)
NothingLeftOpen ==
  answer.of = "conversion" =>
    LET call == answer.call
        does == call.does
        at(what, block) == {i \in DOMAIN does : does[i].does = what /\ does[i].block = block}
        blocks == {does[i].block : i \in DOMAIN does}
        lost == IF question.of \in {"to file", "auto"} THEN {Has("root")} ELSE {}
    IN  /\ \A block \in blocks \ (lost \cup {call.out}) :
             \E get, free \in DOMAIN does :
               get < free /\ at("get", block) = {get} /\ at("free", block) = {free}
        /\ call.out \in blocks => at("free", call.out) = {}
        /\ call.out # Nothing => call.status = "OK"
        /\ call.status = "OK" /\ (question.of \in {"to char", "to file"} => question.xml_flag) =>
             call.out # Nothing

(* Blocks and files alike.                                                  *)
NothingLeft == NothingLeftBehind /\ NothingLeftOpen
=============================================================================
