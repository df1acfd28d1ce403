------------------------------- MODULE Output -------------------------------
(***************************************************************************)
(* What comes out of a response: the rows of output.c, the phases in them  *)
(* and in an interpolated response list (calc_fctns.c, resp_fctns.c), and  *)
(* the description of the channel in the log.                              *)
(*                                                                         *)
(* Phases are in whole degrees.  A row is the sequence of the columns in   *)
(* it, of which the formats of printf are left out.                        *)
(***************************************************************************)
EXTENDS Question, Integers, FiniteSets, SequencesExt

CONSTANTS PhaseLists,      \* phases as they are calculated
          ListPhases,      \* phases of a response list
          ListEnds,        \* the first and last frequency of a response list
          Requested,       \* frequencies asked for
          Described,       \* the stages of a channel
          DescribeOptions  \* start_stage, stop_stage, b55_interpolate

(* What the log has of a stage.                                             *)
DescribedUnits == [code : Nat, name : STRING]

DescribedStage ==
  [no : Nat, blkts : Seq(STRING), input_units : DescribedUnits, output_units : DescribedUnits]

(* A calculated phase comes from atan2, that of a list from a file.  What   *)
(* is asked for rises (validate_freqs has its ends in order), and a list    *)
(* that ends where it begins cannot be interpolated (spline_cubic_set).     *)
ASSUME OutputAssumption ==
  /\ \A phases \in PhaseLists : /\ phases \in Seq(Int)
                                 /\ \A i \in DOMAIN phases : phases[i] \in -180..180
  /\ \A phases \in ListPhases : phases \in Seq(Int)
  /\ \A list \in ListEnds : list \in [first : Nat, last : Nat] /\ list.first # list.last
  /\ \A req \in Requested : /\ req \in Seq(Int)
                            /\ \A i, j \in DOMAIN req : i < j => req[i] <= req[j]
  /\ \A stages \in Described : stages \in Seq(DescribedStage)

-----------------------------------------------------------------------------
(* Mutant of unwrap_phase: only jumps of more than a whole turn count.      *)
unwrap_phase_whole(phase, prev, added) ==
  LET here == phase + added
  IN  CASE here - prev > 360 -> [phase |-> here - 360, added |-> added - 360]
        [] here - prev < -360 -> [phase |-> here + 360, added |-> added + 360]
        [] OTHER -> [phase |-> here, added |-> added]

unwrap_phase(phase, prev, added) ==
  LET here == phase + added
  IN  CASE here - prev > 180 -> [phase |-> here - 360, added |-> added - 360]
        [] here - prev < -180 -> [phase |-> here + 360, added |-> added + 360]
        [] OTHER -> [phase |-> here, added |-> added]

wrap_phase(phase, added) ==
  LET here == phase + added
  IN  CASE here > 180 -> [phase |-> here - 360, added |-> added - 360]
        [] here < -180 -> [phase |-> here + 360, added |-> added + 360]
        [] OTHER -> [phase |-> here, added |-> added]

(* One phase after the other, each with what was added so far.              *)
Unwrapped(phases, prev, added) ==
  LET done[k \in 0..Len(phases)] ==
        IF k = 0 THEN [phase |-> prev, added |-> added]
        ELSE unwrap_phase(phases[k], done[k - 1].phase, done[k - 1].added)
  IN  [k \in 1..Len(phases) |-> done[k].phase]

Wrapped(phases, added) ==
  LET done[k \in 0..Len(phases)] ==
        IF k = 0 THEN [phase |-> 0, added |-> added]
        ELSE wrap_phase(phases[k], done[k - 1].added)
  IN  [k \in 1..Len(phases) |-> done[k].phase]

(* What brings a phase into [0, 360), and into [-180, 180] by a number of   *)
(* turns no greater than it takes.                                          *)
IntoCircle(phase) == (phase % 360) - phase

IntoHalves(phase) ==
  CASE phase > 180 -> -360 * ((phase + 179) \div 360)
    [] phase < -180 -> 360 * ((179 - phase) \div 360)
    [] OTHER -> 0

(* The loop of evalresp_response_to_char.                                   *)
PrintedPhases(phases, unwrap) ==
  IF ~unwrap \/ phases = <<>> THEN phases
  ELSE LET added == IntoCircle(phases[1])
       IN  Unwrapped(phases, phases[1] + added, added)

(* Of interpolate_list_blockette: what is interpolated, and what becomes of *)
(* the phases between.                                                      *)
ListUnwrapped(phases) == Unwrapped(phases, 0, 0)

ListWrapped(phases, between) ==
  IF ListUnwrapped(phases) = phases THEN between
  ELSE Wrapped(between, IntoHalves(between[1]))

-----------------------------------------------------------------------------
(* The frequencies of interpolate_list_blockette, from low to high.  An end *)
(* of the list is near enough to a frequency one off, but for zero, of      *)
(* which one part in a million is nothing.                                  *)
Near(f, end) == end # 0 /\ f \in (end - 1)..(end + 1)

Within(f, ends) == ends.first <= f /\ f <= ends.last

(* Mutant of ClippedBelow: what is near the end stays as it is.             *)
ClippedBelowUnmoved(req, ends) ==
  LET inside == {i \in DOMAIN req : Within(req[i], ends)}
      i == IF inside = {} THEN Len(req) + 1 ELSE CHOOSE i \in inside : \A j \in inside : i <= j
      fix == i > 1 /\ Near(req[i - 1], ends.first)
  IN  [from |-> IF fix THEN i - 1 ELSE i, fix |-> FALSE]

ClippedBelow(req, ends) ==
  LET inside == {i \in DOMAIN req : Within(req[i], ends)}
      i == IF inside = {} THEN Len(req) + 1 ELSE CHOOSE i \in inside : \A j \in inside : i <= j
      fix == i > 1 /\ Near(req[i - 1], ends.first)
  IN  [from |-> IF fix THEN i - 1 ELSE i, fix |-> fix]

ClippedAbove(req, ends) ==
  LET inside == {i \in DOMAIN req : Within(req[i], ends)}
      i == IF inside = {} THEN 0 ELSE CHOOSE i \in inside : \A j \in inside : j <= i
      fix == i < Len(req) /\ Near(req[i + 1], ends.last)
  IN  [to |-> IF fix THEN i + 1 ELSE i, fix |-> fix]

(* None left is an error.                                                   *)
Clip(req, list) ==
  LET ends == IF list.first > list.last THEN [first |-> list.last, last |-> list.first] ELSE list
      below == ClippedBelow(req, ends)
      above == ClippedAbove(req, ends)
      kept == SubSeq(req, below.from, above.to)
      moved == [i \in DOMAIN kept |->
                  IF above.fix /\ i = Len(kept) THEN ends.last
                  ELSE IF below.fix /\ i = 1 THEN ends.first ELSE kept[i]]
  IN  IF below.from > Len(req) \/ above.to < below.from THEN [ok |-> FALSE, freqs |-> <<>>]
      ELSE [ok |-> TRUE, freqs |-> moved]

-----------------------------------------------------------------------------
Formats == {"fap", "amplitude", "phase", "complex"}

(* evalresp_response_to_char: the rows of a response, of which the values   *)
(* are named by their frequency, but for the phases.                        *)
Columns(format, i, phases) ==
  CASE format = "fap" -> <<<<"freq", i>>, <<"amp", i>>, <<"pha", phases[i]>>>>
    [] format = "amplitude" -> <<<<"freq", i>>, <<"amp", i>>>>
    [] format = "phase" -> <<<<"freq", i>>, <<"pha", phases[i]>>>>
    [] format = "complex" -> <<<<"freq", i>>, <<"real", i>>, <<"imag", i>>>>

(* The arrays that are asked for, and then the text.                        *)
Arrays(format) ==
  CASE format = "fap" -> <<"amp_arr", "pha_arr">>
    [] format = "amplitude" -> <<"amp_arr">>
    [] format = "phase" -> <<"pha_arr">>
    [] OTHER -> <<>>

ResponseToChar(phases, fault, unwrap, format, refused) ==
  CASE fault \in {"output given", "no response"} \/ format \notin Formats -> [status |-> "ERR", rows |-> <<>>]
    [] refused \in 1..(Len(Arrays(format)) + 1) -> [status |-> "MEM", rows |-> <<>>]
    [] OTHER -> [status |-> "OK",
                 rows |-> [i \in DOMAIN phases |-> Columns(format, i, PrintedPhases(phases, unwrap))]]

(* evalresp_response_to_stream: a stream may take less than all, or not be  *)
(* there; evalresp_response_to_file passes one that is.                     *)
Streamed(result, fault) ==
  IF result.status = "OK" /\ fault = "full" THEN [status |-> "IO", rows |-> <<>>] ELSE result

ToStream(result, fault) ==
  IF fault = "no stream" THEN [status |-> "ERR", rows |-> <<>>] ELSE Streamed(result, fault)

ToFile(result, fault) ==
  CASE fault = "no name" -> [status |-> "ERR", rows |-> <<>>]
    [] fault = "unopened" -> [status |-> "IO", rows |-> <<>>]
    [] OTHER -> Streamed(result, fault)

-----------------------------------------------------------------------------
(* evalresp_channel_to_log                                                  *)
StageInRange(no, options) ==
  options.start >= 0 =>
    IF options.stop # 0 THEN no \in options.start..options.stop ELSE no = options.start

InRangeOf(stages, options) == SelectSeq(stages, LAMBDA stage : StageInRange(stage.no, options))

(* Units have a code, 0 if it is not known, and a name, which may be NULL.  *)
DocumentedIn(stages) ==
  LET next(units, stage) == IF units.code = 0 \/ units.name = "NULL" THEN stage.input_units ELSE units
  IN  FoldLeft(next, [code |-> 0, name |-> "NULL"], stages).name

DocumentedOut(stages) ==
  LET next(name, stage) ==
        IF stage.output_units.code # 0 \/ stage.output_units.name # "NULL" THEN stage.output_units.name ELSE name
  IN  FoldLeft(next, "NULL", stages)

(* What a blockette adds to the line of its stage.                          *)
Item(type, first, no) ==
  CASE type = "GAIN" -> IF no = 0 THEN <<>> ELSE IF first THEN <<"GAIN Sd">> ELSE <<"Sd">>
    [] type \in {"FIR_COEFFS", "LIST", "REFERENCE"} -> <<>>
    [] type = "DECIMATION" -> <<"SamInt">>
    [] OTHER -> <<type>>

Items(stage) == FlattenSeq([k \in DOMAIN stage.blkts |-> Item(stage.blkts[k], k = 1, stage.no)])

(* Mutant of LineOf: the line of the stage before is added to.              *)
LineAfter(out_str, stage) == (IF stage.no # 0 THEN out_str \o <<stage.no>> ELSE out_str) \o Items(stage)

(* One buffer for all lines, begun anew by a stage with a number.  What is  *)
(* in it before the first of them is never set; it is taken for empty, as   *)
(* no line shows it.                                                        *)
LineOf(out_str, stage) == (IF stage.no # 0 THEN <<stage.no>> ELSE out_str) \o Items(stage)

Lines(stages, options) ==
  LET done[k \in 0..Len(stages)] ==
        IF k = 0 THEN [out_str |-> <<>>, lines |-> <<>>]
        ELSE IF ~StageInRange(stages[k].no, options) THEN done[k - 1]
        ELSE LET line == LineOf(done[k - 1].out_str, stages[k])
             IN  [out_str |-> line,
                  lines |-> IF stages[k].no # 0 THEN Append(done[k - 1].lines, line) ELSE done[k - 1].lines]
  IN  done[Len(stages)].lines

(* The notice of a response list; that of the second kind is never given.   *)
Notice(stages, options) ==
  IF stages[1].blkts[1] # "LIST" THEN "none"
  ELSE IF options.b55_interpolate THEN "interpolated" ELSE "as listed"

ChannelToLog(stages, options) ==
  LET used == InRangeOf(stages, options)
  IN  [input |-> DocumentedIn(used), output |-> DocumentedOut(used),
       lines |-> Lines(stages, options), notice |-> Notice(stages, options)]

-----------------------------------------------------------------------------
(* Of what is given, and of the stream or file.                             *)
Faults == {"none", "output given", "no response", "no stream", "no name", "unopened", "full"}

OutputInit ==
  /\ question \in [of : {"output"}, phases : PhaseLists, unwrap : BOOLEAN, format : Formats \cup {"unknown"},
                   fault : Faults, refused : 0..3]
             \cup [of : {"list"}, phases : ListPhases]
             \cup [of : {"clip"}, req : Requested, list : ListEnds]
             \cup [of : {"log"}, stages : Described, options : DescribeOptions]
  /\ answer = Unanswered

WriteResponse ==
  /\ Asked("output")
  /\ LET result == ResponseToChar(question.phases, question.fault, question.unwrap, question.format, question.refused)
     IN  Answer([of |-> "output", char |-> result, stream |-> ToStream(result, question.fault),
                 file |-> ToFile(result, question.fault)])

(* Between the phases of a list there are those at its frequencies.         *)
InterpolatePhases ==
  /\ Asked("list")
  /\ LET unwrapped == ListUnwrapped(question.phases)
     IN  Answer([of |-> "list", unwrapped |-> unwrapped, wrapped |-> ListWrapped(question.phases, unwrapped)])

ClipRequested ==
  /\ Asked("clip")
  /\ Answer([of |-> "clip", clip |-> Clip(question.req, question.list)])

Describe ==
  /\ Asked("log")
  /\ Answer([of |-> "log", log |-> ChannelToLog(question.stages, question.options)])

OutputNext == WriteResponse \/ InterpolatePhases \/ ClipRequested \/ Describe

-----------------------------------------------------------------------------
SameAngles(p, q) == Len(p) = Len(q) /\ \A i \in DOMAIN p : (p[i] - q[i]) % 360 = 0

NoJumps(phases) == \A i \in 1..(Len(phases) - 1) : phases[i + 1] - phases[i] \in -180..180

(* A phase that is written is the one that was calculated, up to whole      *)
(* turns: unwrapped, it begins in [0, 360) and never jumps by more than     *)
(* half a turn; and the phases of a response list are again those of the    *)
(* list, within half a turn, after they were unwrapped and wrapped.  That   *)
(* supposes phases of a list that are within a turn of each other and of    *)
(* zero, as unwrap_phase adds or takes only one.                            *)
PhasesSurvive ==
  /\ answer.of = "output" /\ answer.char.status = "OK" /\ question.format = "phase" =>
       LET printed == [i \in DOMAIN answer.char.rows |-> answer.char.rows[i][2][2]]
       IN  /\ SameAngles(printed, question.phases)
           /\ question.unwrap /\ printed # <<>> => printed[1] \in 0..359 /\ NoJumps(printed)
  /\ answer.of = "list" =>
       /\ SameAngles(answer.unwrapped, question.phases) /\ SameAngles(answer.wrapped, question.phases)
       /\ (\A i \in DOMAIN question.phases : question.phases[i] \in -180..180) =>
            /\ NoJumps(answer.unwrapped)
            /\ \A i \in DOMAIN answer.wrapped : answer.wrapped[i] \in -180..180

(* Interpolation keeps to the range of the list: every frequency asked for  *)
(* in the range is kept, those next to them that are near enough to an end  *)
(* are moved onto it, and none is left outside, nor out of order.           *)
InterpolatedWithinList ==
  answer.of = "clip" =>
    LET req == question.req
        list == question.list
        freqs == answer.clip.freqs
        within == (list.first..list.last) \cup (list.last..list.first)
        inside == {i \in DOMAIN req : req[i] \in within}
    IN  /\ answer.clip.ok <=> inside # {}
        /\ \A k \in DOMAIN freqs : freqs[k] \in within
        /\ \A i \in inside : \E k \in DOMAIN freqs : freqs[k] = req[i]
        /\ \A k, l \in DOMAIN freqs : k < l => freqs[k] <= freqs[l]
        /\ Len(freqs) <= Cardinality(inside) + 2

(* The log has a line for every numbered stage that was evaluated, in their *)
(* order, each with its own blockettes and nothing of another stage.        *)
StagesDescribed ==
  answer.of = "log" =>
    LET stages == question.stages
        line(stage) == <<stage.no>> \o Items(stage)
        described(stage) == stage.no # 0 /\ StageInRange(stage.no, question.options)
    IN  answer.log.lines =
          FlattenSeq([k \in DOMAIN stages |-> IF described(stages[k]) THEN <<line(stages[k])>> ELSE <<>>])

(* What is written of a channel is what was calculated and used.             *)
WrittenAsCalculated == PhasesSurvive /\ InterpolatedWithinList /\ StagesDescribed

OutputSpec == OutputInit /\ [][OutputNext]_asked_vars
=============================================================================
