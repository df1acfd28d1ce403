----------------------------- MODULE XmlToDom ------------------------------
(***************************************************************************)
(* xml_to_dom.c: what is taken from a parsed StationXML document, and what *)
(* it is refused for.  A node of the document is a record of its name, its *)
(* attributes (a function of their names), its text and its children; the  *)
(* text "none" stands for no text at all, "bad" for text no number can be  *)
(* read from, "zero" for the number 0.  The attribute number is an integer,*)
(* BadNumber if none can be read from it; the code would take -1, but no    *)
(* attribute here is negative.                                             *)
(*                                                                         *)
(* Each parse_ function is the condition under which it succeeds; the last *)
(* part is what it leaves in the model of the document (DomToSeed).        *)
(***************************************************************************)
EXTENDS Integers, SequencesExt

BadNumber == -1

Node(tag, attributes, content, parts) ==
  [name |-> tag, attrs |-> attributes, text |-> content, children |-> parts]

(* find_children, find_child: children of a name, and the first of them.    *)
FindChildren(node, name) == SelectSeq(node.children, LAMBDA c : c.name = name)

HasChild(node, name) == FindChildren(node, name) # <<>>

FindChild(node, name) == FindChildren(node, name)[1]

(* The children that a list is parsed from, each by the same function.      *)
Children(node, name) == ToSet(FindChildren(node, name))

(* char_element, int_element, double_element; optional: there is a default. *)
HasText(node) == node.text # "none"
HasNumber(node) == node.text \notin {"none", "bad"}

CharElement(node, name, optional) ==
  IF HasChild(node, name) THEN HasText(FindChild(node, name)) ELSE optional

NumberElement(node, name, optional) ==
  IF HasChild(node, name) THEN HasNumber(FindChild(node, name)) ELSE optional

(* char_attribute, double_attribute, datetime_attribute, int_attribute      *)
CharAttribute(node, name, optional) == name \in DOMAIN node.attrs \/ optional

ParsedAttribute(node, name, optional) ==
  IF name \in DOMAIN node.attrs THEN node.attrs[name] # "bad" ELSE optional

IntAttribute(node, optional) ==
  IF "number" \in DOMAIN node.attrs THEN node.attrs["number"] # BadNumber ELSE optional

-----------------------------------------------------------------------------
(* A number with optional errors, which no output uses but which must parse. *)
FloatNode(node) ==
  /\ HasNumber(node)
  /\ ParsedAttribute(node, "plusError", TRUE)
  /\ ParsedAttribute(node, "minusError", TRUE)

ParseFloat(node, path) == HasChild(node, path) /\ FloatNode(FindChild(node, path))

ParsePoleZero(node) ==
  IntAttribute(node, TRUE) /\ ParseFloat(node, "Real") /\ ParseFloat(node, "Imaginary")

ParseCoefficient(node) == IntAttribute(node, TRUE) /\ FloatNode(node)

ParseNumeratorCoefficient(node) == ParsedAttribute(node, "i", TRUE) /\ HasNumber(node)

ParseUnits(node, path) ==
  /\ HasChild(node, path)
  /\ CharElement(FindChild(node, path), "Name", FALSE)
  /\ CharElement(FindChild(node, path), "Description", TRUE)

InOutUnits(node) == ParseUnits(node, "InputUnits") /\ ParseUnits(node, "OutputUnits")

ParsePolesZerosData(node) ==
  /\ CharElement(node, "PzTransferFunctionType", FALSE)
  /\ InOutUnits(node)
  /\ NumberElement(node, "NormalizationFactor", TRUE)
  /\ NumberElement(node, "NormalizationFrequency", FALSE)

ParsePolesZeros(node) ==
  /\ ParsePolesZerosData(node)
  /\ \A child \in Children(node, "Pole") : ParsePoleZero(child)
  /\ \A child \in Children(node, "Zero") : ParsePoleZero(child)

ParseCoefficientsData(node) ==
  CharElement(node, "CfTransferFunctionType", FALSE) /\ InOutUnits(node)

ParseCoefficients(node) ==
  /\ ParseCoefficientsData(node)
  /\ \A child \in Children(node, "Numerator") : FloatNode(child)
  /\ \A child \in Children(node, "Denominator") : FloatNode(child)

(* The elements of the list are read only if finding them failed, which it  *)
(* never does: nothing they hold is looked at.                              *)
ParseResponseList(node) == InOutUnits(node)

ParseFirData(node) ==
  /\ CharElement(node, "Symmetry", FALSE)
  /\ CharAttribute(node, "name", TRUE)
  /\ InOutUnits(node)

ParseFir(node) ==
  /\ ParseFirData(node)
  /\ \A child \in Children(node, "NumeratorCoefficient") : ParseNumeratorCoefficient(child)

ParsePolynomialData(node) ==
  /\ CharElement(node, "ApproximationType", FALSE)
  /\ InOutUnits(node)
  /\ \A bound \in {"FrequencyLowerBound", "FrequencyUpperBound", "ApproximationLowerBound",
                   "ApproximationUpperBound", "MaximumError"} : NumberElement(node, bound, TRUE)

ParsePolynomial(node) ==
  /\ ParsePolynomialData(node)
  /\ \A child \in Children(node, "Coefficient") : ParseCoefficient(child)

ParseDecimation(node) ==
  \A n \in {"InputSampleRate", "Factor", "Offset", "Delay", "Correction"} :
    NumberElement(node, n, FALSE)

ParseGain(node) == NumberElement(node, "Value", TRUE) /\ NumberElement(node, "Frequency", TRUE)

-----------------------------------------------------------------------------
Contents == {"PolesZeros", "Coefficients", "ResponseList", "FIR", "Polynomial"}

ParseContent(node) ==
  CASE node.name = "PolesZeros" -> ParsePolesZeros(node)
    [] node.name = "Coefficients" -> ParseCoefficients(node)
    [] node.name = "ResponseList" -> ParseResponseList(node)
    [] node.name = "FIR" -> ParseFir(node)
    [] node.name = "Polynomial" -> ParsePolynomial(node)

(* Mutant of SetStage: a later content replaces an earlier one.             *)
SetStageAgain(node) == TRUE

(* set_stage: a stage holds at most one kind of content.                    *)
SetStage(node) ==
  \A c, d \in Contents : HasChild(node, c) /\ HasChild(node, d) => c = d

ParseStage(node) ==
  /\ IntAttribute(node, FALSE)
  /\ SetStage(node)
  /\ \A c \in Contents : HasChild(node, c) => ParseContent(FindChild(node, c))
  /\ HasChild(node, "Decimation") => ParseDecimation(FindChild(node, "Decimation"))
  /\ HasChild(node, "StageGain") => ParseGain(FindChild(node, "StageGain"))

ParseResponse(node) ==
  /\ \A child \in Children(node, "Stage") : ParseStage(child)
  /\ HasChild(node, "InstrumentSensitivity")
       => ParseGain(FindChild(node, "InstrumentSensitivity"))
  /\ HasChild(node, "InstrumentPolynomial")
       => ParsePolynomial(FindChild(node, "InstrumentPolynomial"))

ParseChannel(node) ==
  /\ CharAttribute(node, "code", FALSE)
  /\ CharAttribute(node, "locationCode", FALSE)
  /\ ParsedAttribute(node, "startDate", FALSE)
  /\ ParsedAttribute(node, "endDate", TRUE)
  /\ HasChild(node, "Response")
  /\ ParseResponse(FindChild(node, "Response"))

ParseStation(node) ==
  /\ CharAttribute(node, "code", FALSE)
  /\ \A child \in Children(node, "Channel") : ParseChannel(child)

ParseNetwork(node) ==
  /\ CharAttribute(node, "code", FALSE)
  /\ \A child \in Children(node, "Station") : ParseStation(child)

(* The document node is the root or follows the XML declaration.            *)
Parse(root) ==
  /\ root.name = "FDSNStationXML"
  /\ \A child \in Children(root, "Network") : ParseNetwork(child)

-----------------------------------------------------------------------------
(* What is left in the model: the members of x2r_stage, ..., for DomToSeed.  *)
Count(node, name) == Len(FindChildren(node, name))

ContentOf(node) ==
  IF \E c \in Contents : HasChild(node, c)
    THEN FindChild(node, CHOOSE c \in Contents : HasChild(node, c))
    ELSE Node("none", <<>>, "none", <<>>)

(* The type of the content, the transfer function it names and how many     *)
(* elements of its lists were read.                                         *)
TypeOf(content) ==
  CASE content.name = "PolesZeros" -> "poles_zeros"
    [] content.name = "Coefficients" -> "coefficients"
    [] content.name = "ResponseList" -> "response_list"
    [] content.name = "FIR" -> "fir"
    [] content.name = "Polynomial" -> "polynomial"
    [] OTHER -> "none"

TransferFunctionOf(content) ==
  CASE content.name = "PolesZeros" -> FindChild(content, "PzTransferFunctionType").text
    [] content.name = "Coefficients" -> FindChild(content, "CfTransferFunctionType").text
    [] OTHER -> "other"

FirstCount(content) ==
  CASE content.name = "PolesZeros" -> Count(content, "Zero")
    [] content.name = "Coefficients" -> Count(content, "Numerator")
    [] content.name = "FIR" -> Count(content, "NumeratorCoefficient")
    [] content.name = "Polynomial" -> Count(content, "Coefficient")
    [] OTHER -> 0

SecondCount(content) ==
  CASE content.name = "PolesZeros" -> Count(content, "Pole")
    [] content.name = "Coefficients" -> Count(content, "Denominator")
    [] OTHER -> 0

DomStage(node) ==
  [number |-> node.attrs["number"], type |-> TypeOf(ContentOf(node)),
   tft |-> TransferFunctionOf(ContentOf(node)),
   n |-> FirstCount(ContentOf(node)), m |-> SecondCount(ContentOf(node)),
   decimation |-> HasChild(node, "Decimation"), stage_gain |-> HasChild(node, "StageGain")]

(* parse_gain: without Value the gain is 0.                                 *)
NonZeroGain(node) == HasChild(node, "Value") /\ FindChild(node, "Value").text # "zero"

DomChannel(node) ==
  LET response == FindChild(node, "Response")
      stages == FindChildren(response, "Stage")
  IN  [location |-> IF node.attrs["locationCode"] \in {"", "  "} THEN "blank" ELSE "code",
       open |-> "endDate" \notin DOMAIN node.attrs,
       stages |-> [i \in DOMAIN stages |-> DomStage(stages[i])],
       sensitivity |-> IF /\ HasChild(response, "InstrumentSensitivity")
                          /\ NonZeroGain(FindChild(response, "InstrumentSensitivity"))
                         THEN "set" ELSE "unset",
       poly |-> IF HasChild(response, "InstrumentPolynomial")
                  THEN Count(FindChild(response, "InstrumentPolynomial"), "Coefficient") ELSE -1]

(* The channels of all stations of all networks, in the order of writing.   *)
ChannelNodes(root) ==
  LET networks == FindChildren(root, "Network")
      stations == FlattenSeq([i \in DOMAIN networks |-> FindChildren(networks[i], "Station")])
  IN  FlattenSeq([i \in DOMAIN stations |-> FindChildren(stations[i], "Channel")])

Dom(root) ==
  LET nodes == ChannelNodes(root)
  IN  [i \in DOMAIN nodes |-> DomChannel(nodes[i])]
=============================================================================
