----------------------------- MODULE StationXml ----------------------------
(***************************************************************************)
(* evalresp_filename_to_channels of input.c: a file is opened, recognised  *)
(* as StationXML or not, converted to RESP text in a temporary file        *)
(* (wrappers.c) if it is, and read (RespReader).  What is found in the     *)
(* document is XmlToDom's, what is written for it DomToSeed's.             *)
(*                                                                         *)
(* Opening, writing and reading files may fail at any time.                *)
(***************************************************************************)
EXTENDS RespReader, XmlToDom

Writer == INSTANCE DomToSeed

CONSTANT Inputs   \* the files a behaviour may start from

(* A RESP file is its text; a document may not be well-formed, and its tag  *)
(* may stand where it is not looked for (see Detect).                       *)
ASSUME InputsAssumption ==
  \A f \in Inputs : /\ f.kind \in {"resp", "xml"}
                    /\ f.kind = "xml" => f.detectable \in BOOLEAN /\ f.wellformed \in BOOLEAN
                    (* root: the document;  defect: what was done to it      *)

VARIABLES
  input_file,
  forced,     \* options->station_xml
  convert,    \* station_xml: the file is taken for StationXML
  opened,     \* the files that were opened
  closed      \* and how often each was closed

file_vars == <<input_file, forced, convert, opened, closed>>
all_vars == <<vars, file_vars>>
reader_vars == <<source, harm, text, pos, first_line, first_field, todo, cur, format, tmp_seq,
                 blkts, channels>>

NoFiles == [f \in {"file", "temp_file"} |-> 0]

StartInput ==
  /\ input_file \in Inputs
  /\ forced \in BOOLEAN
  /\ convert = FALSE
  /\ opened = {}
  /\ closed = NoFiles
  /\ source = <<>>
  /\ harm = [at |-> 0, how |-> "none"]
  /\ text = <<>>
  /\ pc = "open"
  /\ pos = 1
  /\ first_line = 0
  /\ first_field = Unset
  /\ todo = <<>>
  /\ cur = [blkt |-> 0, seqs |-> <<>>, lines |-> <<>>, complete |-> TRUE]
  /\ format = 0
  /\ tmp_seq = 0
  /\ blkts = <<>>
  /\ channels = <<>>

(* What is left of the file is closed, and nothing is returned.             *)
GiveUp(files) ==
  /\ closed' = [f \in DOMAIN closed |-> IF f \in files THEN closed[f] + 1 ELSE closed[f]]
  /\ pc' = "refused"
  /\ UNCHANGED <<reader_vars, input_file, forced, convert, opened>>

-----------------------------------------------------------------------------
OpenFile ==
  /\ pc = "open"
  /\ \/ /\ opened' = {"file"}
        /\ pc' = "detect"
        /\ UNCHANGED <<reader_vars, input_file, forced, convert, closed>>
     \/ GiveUp({})

(* evalresp_file_detect_stationxml: the tag must end in the first 254 bytes *)
(* of a file that has 255 (the last of them is overwritten); it is not      *)
(* looked for when the conversion is asked for.  A caller without options   *)
(* gets neither: not modelled, as every program here has some.              *)
Detect ==
  /\ pc = "detect"
  /\ convert' = (forced \/ (input_file.kind = "xml" /\ input_file.detectable))
  /\ pc' = IF convert' THEN "convert" ELSE "slurp"
  /\ UNCHANGED <<reader_vars, input_file, forced, opened, closed>>

(* evalresp_xml_stream_to_resp_file: a temporary file.                      *)
OpenTemporary ==
  /\ pc = "convert"
  /\ \/ /\ opened' = opened \cup {"temp_file"}
        /\ pc' = "load"
        /\ UNCHANGED <<reader_vars, input_file, forced, convert, closed>>
     \/ GiveUp({"file"})

Accepted(f) == f.kind = "xml" /\ f.wellformed /\ Parse(f.root)

(* Mutant of Load: the temporary file of a refused document stays open.     *)
LoadLeaks ==
  /\ pc = "load"
  /\ IF Accepted(input_file)
       THEN pc' = "write" /\ UNCHANGED <<reader_vars, file_vars>>
       ELSE GiveUp({"file"})

(* x2r_station_service_load: the document is parsed and its model built.    *)
Load ==
  /\ pc = "load"
  /\ IF Accepted(input_file)
       THEN pc' = "write" /\ UNCHANGED <<reader_vars, file_vars>>
       ELSE GiveUp({"file", "temp_file"})

(* x2r_resp_util_write, after which the temporary file takes the place of   *)
(* the file.  That a line is not written may fail the call.  In the code it *)
(* may also pass unnoticed, as lines() of dom_to_seed.c drops what line()   *)
(* returns: the text that is then read lacks lines, which is what the harms *)
(* of RespReader are about.                                                 *)
WriteResp ==
  /\ pc = "write"
  /\ \/ /\ source' = Writer!Write(Dom(input_file.root))
        /\ closed' = [closed EXCEPT !["file"] = @ + 1]
        /\ pc' = "slurp"
        /\ UNCHANGED <<harm, text, pos, first_line, first_field, todo, cur, format, tmp_seq,
                       blkts, channels, input_file, forced, convert, opened>>
     \/ GiveUp({"file", "temp_file"})

Current == IF convert THEN "temp_file" ELSE "file"

(* file_to_char: a document that was not recognised has no line a reader    *)
(* knows.                                                                   *)
Slurp ==
  /\ pc = "slurp"
  /\ \/ /\ source' = IF convert THEN source
                     ELSE IF input_file.kind = "resp" THEN input_file.source
                     ELSE <<<<<<Ln(BadPrefix, 0, 0)>>>>>>
        /\ text' = Flat(source')
        /\ pc' = "channels"
        /\ UNCHANGED <<harm, pos, first_line, first_field, todo, cur, format, tmp_seq, blkts,
                       channels, file_vars>>
     \/ GiveUp({Current})

ReadText == Next /\ UNCHANGED file_vars

CloseFile ==
  /\ pc \in {"done", "failed"}
  /\ IF pc = "failed" THEN GiveUp({Current})
     ELSE /\ closed' = [closed EXCEPT ![Current] = @ + 1]
          /\ pc' = "returned"
          /\ UNCHANGED <<reader_vars, input_file, forced, convert, opened>>

NextInput ==
  OpenFile \/ Detect \/ OpenTemporary \/ Load \/ WriteResp \/ Slurp \/ ReadText \/ CloseFile

SpecInput == StartInput /\ [][NextInput]_all_vars

-----------------------------------------------------------------------------
Over == pc \in {"returned", "refused"}

InputTypeOK ==
  /\ input_file.kind \in {"resp", "xml"}
  /\ forced \in BOOLEAN
  /\ convert \in BOOLEAN
  /\ opened \subseteq DOMAIN NoFiles
  /\ closed \in [DOMAIN NoFiles -> 0..1]
  /\ pc \in {"open", "detect", "convert", "load", "write", "slurp", "channels", "header", "data",
             "reading", "done", "failed", "returned", "refused"}

(* However the call ends, every file it opened has been closed, once.       *)
FilesClosedOnce ==
  Over => \A f \in DOMAIN closed : closed[f] = (IF f \in opened THEN 1 ELSE 0)

-----------------------------------------------------------------------------
(* What a document says, straight from its elements.                       *)
BlocketteOf ==
  [PolesZeros |-> 53, Coefficients |-> 54, ResponseList |-> 55, FIR |-> 61, Polynomial |-> 62,
   InstrumentPolynomial |-> 62, Decimation |-> 57, StageGain |-> 58, InstrumentSensitivity |-> 58]

Listed == {"Zero", "Pole", "Numerator", "Denominator", "NumeratorCoefficient", "Coefficient",
           "ResponseListElement"}

Elements(node, number) ==
  [blkt |-> BlocketteOf[node.name], number |-> number,
   rows |-> Len(SelectSeq(node.children, LAMBDA c : c.name \in Listed))]

(* The elements of a response: those of its stages, then its own, except a  *)
(* sensitivity of zero.                                                     *)
Said(response) ==
  LET told(node, number) ==
        LET kept == SelectSeq(node.children, LAMBDA c :
                      /\ c.name \in DOMAIN BlocketteOf
                      /\ c.name = "InstrumentSensitivity" => NonZeroGain(c))
        IN  [i \in DOMAIN kept |-> Elements(kept[i], number)]
      stages == FindChildren(response, "Stage")
  IN  FlattenSeq([i \in DOMAIN stages |-> told(stages[i], stages[i].attrs["number"])])
        \o told(response, 0)

(* What was read: number and rows of a blockette.                           *)
RowFields(b) ==
  CASE b = 53 -> {10, 15} [] b = 54 -> {8, 11} [] b = 55 -> {7} [] b = 61 -> {9} [] b = 62 -> {15}
    [] OTHER -> {}

ReadAs(r) ==
  [blkt |-> r.blkt, number |-> r.seqs[1],
   rows |-> Len(SelectSeq(r.lines, LAMBDA p : text[p].fld \in RowFields(r.blkt)))]

SameExceptRows(a, b, except) ==
  /\ a.blkt = b.blkt
  /\ a.number = b.number
  /\ a.blkt \in except \/ a.rows = b.rows

Kept(except) ==
  LET nodes == ChannelNodes(input_file.root)
  IN  /\ Len(channels) = Len(nodes)
      /\ \A i \in DOMAIN nodes :
           LET said == Said(FindChild(nodes[i], "Response"))
           IN  /\ Len(channels[i]) = 1 + Len(said)
               /\ \A j \in DOMAIN said :
                    /\ SameExceptRows(ReadAs(channels[i][j + 1]), said[j], except)
                    /\ said[j].blkt \in except \/ channels[i][j + 1].complete

(* A document that is returned has lost nothing on its way: every channel,  *)
(* and in it every content, decimation and gain of every stage, is there    *)
(* under its own number with as many rows as elements were listed.  Lists   *)
(* of responses are left to ResponseListKept.                               *)
StagesKept == pc = "returned" /\ convert => Kept({55})

(* xml_to_dom.c's comment on parse_response_list: it reads the list.        *)
ResponseListKept == pc = "returned" /\ convert => Kept({})

(* What a document can say that can be converted but not read: a            *)
(* transfer function type without a letter, or Laplace for coefficients.    *)
Unreadable(root) ==
  \E i \in DOMAIN ChannelNodes(root) :
    LET stages == FindChildren(FindChild(ChannelNodes(root)[i], "Response"), "Stage")
    IN  \E k \in DOMAIN stages : \E c \in Range(stages[k].children) :
          \E t \in Range(c.children) :
            \/ t.name = "PzTransferFunctionType" /\ t.text \notin {"laplace", "digital"}
            \/ t.name = "CfTransferFunctionType" /\ t.text # "digital"

(* Behind the last header nothing may follow (RespReader's ChannelDone).    *)
NothingBehindLast(root) ==
  ChannelNodes(root) # <<>> /\ Said(FindChild(Last(ChannelNodes(root)), "Response")) = <<>>

(* What is written for a document can be read, and nothing is lost on the   *)
(* way.  Either exception refuses all channels of the document, not only    *)
(* the one it is in.                                                        *)
ConvertedIsRead ==
  /\ StagesKept
  /\ pc = "failed" /\ convert => Unreadable(input_file.root) \/ NothingBehindLast(input_file.root)

-----------------------------------------------------------------------------
(* What must be in a document, what must be a number or a date, and what    *)
(* must not be empty, wherever it stands; nobody looks into a ResponseList. *)
Required ==
  {"Response", "Real", "Imaginary", "InputUnits", "OutputUnits", "Name", "PzTransferFunctionType",
   "CfTransferFunctionType", "NormalizationFrequency", "Symmetry", "ApproximationType",
   "InputSampleRate", "Factor", "Offset", "Delay", "Correction"}
Numeric ==
  {"Real", "Imaginary", "NormalizationFactor", "NormalizationFrequency", "Numerator", "Denominator",
   "NumeratorCoefficient", "Coefficient", "FrequencyLowerBound", "FrequencyUpperBound",
   "ApproximationLowerBound", "ApproximationUpperBound", "MaximumError", "InputSampleRate",
   "Factor", "Offset", "Delay", "Correction", "Value", "Frequency"}
Textual ==
  Numeric \cup {"Name", "Description", "PzTransferFunctionType", "CfTransferFunctionType",
               "Symmetry", "ApproximationType"}
RequiredAttributes == {"code", "locationCode", "startDate", "number"}
ParsedAttributes == {"startDate", "endDate", "number", "plusError", "minusError", "i"}

Tolerated(defect) ==
  CASE defect.how = "none" -> TRUE
    [] defect.how = "missing" -> defect.name \notin Required
    [] defect.how = "bad" -> defect.name \notin Numeric
    [] defect.how = "no_text" -> defect.name \notin Textual
    [] defect.how = "missing_attribute" -> defect.name \notin RequiredAttributes
    [] defect.how = "bad_attribute" -> defect.name \notin ParsedAttributes
    [] defect.how = "second_content" -> FALSE

(* One element or attribute that is missing, empty or no number decides     *)
(* whether a well-formed document is converted, and alone decides it.       *)
DefectRefused ==
  [][pc = "load" /\ pc' # "load"
       => (pc' = "write") = (/\ input_file.kind = "xml"
                             /\ input_file.wellformed
                             /\ Tolerated(input_file.defect))]_all_vars
=============================================================================
