---------------------------- MODULE MCStationXml ---------------------------
(* Instances of StationXml: a document with a stage of every kind, every    *)
(* single defect it can have, and RESP files.                               *)
EXTENDS StationXml

NoAttrs == <<>>
Leaf(name, content) == Node(name, NoAttrs, content, <<>>)
Value(name) == Leaf(name, "1")
ValuesOf(names) == [i \in DOMAIN names |-> Value(names[i])]

MCUnits == <<Node("InputUnits", NoAttrs, "none", <<Leaf("Name", "m/s"), Leaf("Description", "d")>>),
             Node("OutputUnits", NoAttrs, "none", <<Leaf("Name", "V")>>)>>
Complex(name) ==
  Node(name, [number |-> 0], "none",
       <<Node("Real", [plusError |-> "1", minusError |-> "1"], "1", <<>>), Value("Imaginary")>>)

PolesZeros(type, zeros, poles) ==
  Node("PolesZeros", NoAttrs, "none",
       MCUnits \o <<Leaf("PzTransferFunctionType", type)>>
         \o ValuesOf(<<"NormalizationFactor", "NormalizationFrequency">>)
         \o [i \in 1..zeros |-> Complex("Zero")] \o [i \in 1..poles |-> Complex("Pole")])
Coefficients(type, num, den) ==
  Node("Coefficients", NoAttrs, "none",
       MCUnits \o <<Leaf("CfTransferFunctionType", type)>>
         \o [i \in 1..num |-> Value("Numerator")] \o [i \in 1..den |-> Value("Denominator")])
ListOf(n) ==
  Node("ResponseList", NoAttrs, "none",
       MCUnits \o [i \in 1..n |-> Node("ResponseListElement", NoAttrs, "none",
                                       ValuesOf(<<"Frequency", "Amplitude", "Phase">>))])
FIR(n) ==
  Node("FIR", [name |-> "f"], "none",
       MCUnits \o <<Leaf("Symmetry", "NONE")>>
         \o [i \in 1..n |-> Node("NumeratorCoefficient", [i |-> "1"], "1", <<>>)])
PolynomialAs(name, n) ==
  Node(name, NoAttrs, "none",
       MCUnits \o <<Leaf("ApproximationType", "MACLAURIN")>>
         \o ValuesOf(<<"FrequencyLowerBound", "FrequencyUpperBound", "ApproximationLowerBound",
                       "ApproximationUpperBound", "MaximumError">>)
         \o [i \in 1..n |-> Node("Coefficient", [number |-> i], "1", <<>>)])
DecimationElement ==
  Node("Decimation", NoAttrs, "none",
       ValuesOf(<<"InputSampleRate", "Factor", "Offset", "Delay", "Correction">>))
GainElement(name, value) ==
  Node(name, NoAttrs, "none", <<Leaf("Value", value), Value("Frequency")>>)
StageElement(number, children) == Node("Stage", [number |-> number], "none", children)
ChannelElement(attrs, children) ==
  Node("Channel", attrs, "none", <<Node("Response", NoAttrs, "none", children)>>)
Document(channels_of) ==
  Node("FDSNStationXML", NoAttrs, "none",
       [i \in DOMAIN channels_of |->
          Node("Network", [code |-> "N"], "none",
               <<Node("Station", [code |-> "S"], "none", channels_of[i])>>)])

Attrs == [code |-> "BHZ", locationCode |-> "  ", startDate |-> "d", endDate |-> "d"]
OpenAttrs == [code |-> "BHN", locationCode |-> "00", startDate |-> "d"]
Gain1 == GainElement("StageGain", "1")

Analogue == StageElement(1, <<PolesZeros("laplace", 1, 2), Gain1>>)
Digital == StageElement(2, <<Coefficients("digital", 2, 1), DecimationElement, Gain1>>)
FirStage == StageElement(3, <<FIR(2), DecimationElement, Gain1>>)

(* Everything a channel can hold, in two channels.                          *)
Full ==
  Document(<< <<ChannelElement(Attrs, <<Analogue, Digital, FirStage,
                                        GainElement("InstrumentSensitivity", "1")>>)>>,
              <<ChannelElement(OpenAttrs,
                  <<StageElement(1, <<PolynomialAs("Polynomial", 2), Gain1>>),
                    PolynomialAs("InstrumentPolynomial", 1)>>)>> >>)

Others ==
  {Document(<<>>),
   Document(<< <<ChannelElement(Attrs, <<>>),
                 ChannelElement(OpenAttrs, <<Analogue, StageElement(2, <<Gain1>>),
                                             GainElement("InstrumentSensitivity", "zero")>>)>> >>)}
    \cup {Document(<< <<ChannelElement(Attrs, <<StageElement(1, <<PolesZeros(t, 1, 0), Gain1>>)>>),
                        ChannelElement(Attrs, <<Analogue>>)>> >>) : t \in {"digital", "other"}}
    \cup {Document(<< <<ChannelElement(Attrs, <<Analogue, StageElement(2, <<Coefficients(t, n, m),
                                                                           Gain1>>)>>)>> >>)
            : t \in {"laplace", "digital"}, n \in 0..1, m \in 0..1}

WithList(n) ==
  Document(<< <<ChannelElement(Attrs, <<StageElement(1, <<ListOf(n), Gain1>>), FirStage>>)>>,
              <<ChannelElement(OpenAttrs, <<Analogue>>)>> >>)

-----------------------------------------------------------------------------
(* All documents that differ from node in one place.                        *)
NoDefect == [name |-> "none", how |-> "none"]

OwnDefects(node) ==
  (IF node.text = "none" THEN {}
   ELSE {<<[node EXCEPT !.text = "none"], [name |-> node.name, how |-> "no_text"]>>,
         <<[node EXCEPT !.text = "bad"], [name |-> node.name, how |-> "bad"]>>})
  \cup {<<[node EXCEPT !.attrs = [b \in DOMAIN node.attrs \ {a} |-> node.attrs[b]]],
          [name |-> IF a = "number" /\ node.name # "Stage" THEN "optional number" ELSE a,
           how |-> "missing_attribute"]>>
          : a \in DOMAIN node.attrs}
  \cup {<<[node EXCEPT !.attrs[a] = IF a = "number" THEN BadNumber ELSE "bad"],
          [name |-> a, how |-> "bad_attribute"]>> : a \in DOMAIN node.attrs}
  \cup {<<[node EXCEPT !.children = RemoveAt(@, i)],
          [name |-> node.children[i].name, how |-> "missing"]>> : i \in DOMAIN node.children}
  \cup {<<[node EXCEPT !.children = Append(@, c)], [name |-> c.name, how |-> "second_content"]>>
          : c \in IF node.name # "Stage" THEN {}
                  ELSE {PolesZeros("laplace", 0, 0), FIR(0)}
                         \ {d \in {PolesZeros("laplace", 0, 0), FIR(0)} : HasChild(node, d.name)}}

(* In the node, or somewhere in it as far down as D looks in a child.  What *)
(* is in an element of a response list has no name of its own here.         *)
Within(node, D(_)) ==
  OwnDefects(node)
    \cup UNION {{<<[node EXCEPT !.children[i] = d[1]],
                   IF node.name = "ResponseListElement" THEN [d[2] EXCEPT !.name = "unread"]
                   ELSE d[2]>> : d \in D(node.children[i])}
                  : i \in DOMAIN node.children}

ContentDefects(node) == Within(node, LAMBDA part : Within(part, OwnDefects))
StageDefects(node) == Within(node, ContentDefects)
ChannelDefects(node) == Within(node, LAMBDA response : Within(response, StageDefects))
Defects(root) ==
  Within(root, LAMBDA network : Within(network, LAMBDA station : Within(station, ChannelDefects)))

Xml(root, defect, detectable, wellformed) ==
  [kind |-> "xml", root |-> root, defect |-> defect, detectable |-> detectable,
   wellformed |-> wellformed]

RespLines == Fields(50, <<3, 16>>, <<0, 0>>) \o Fields(52, <<4, 22, 23>>, <<0, 0, 0>>)
RespFiles ==
  {[kind |-> "resp", source |-> <<<<RespLines>>>>],
   [kind |-> "resp", source |-> <<<<SubSeq(RespLines, 1, 4)>>>>],
   [kind |-> "resp", source |-> <<>>]}

MCInputs ==
  RespFiles
    \cup {Xml(r, NoDefect, d, w) : r \in Others \cup {WithList(2)}, d \in BOOLEAN, w \in BOOLEAN}
    \cup {Xml(d[1], d[2], TRUE, TRUE) : d \in Defects(Full) \cup Defects(WithList(1))}

ListInputs == {Xml(WithList(n), NoDefect, TRUE, TRUE) : n \in 0..2}
=============================================================================
