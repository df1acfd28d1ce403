----------------------------- MODULE DomToSeed -----------------------------
(***************************************************************************)
(* dom_to_seed.c: the RESP text written for the in-memory model of a       *)
(* StationXML document.  Numbers that are not counts or stage numbers are  *)
(* written as 0, and the boxes of comments as one comment line.            *)
(***************************************************************************)
EXTENDS RespText

TransferFunction == {"laplace", "digital", "other"}
StageType == {"none", "poles_zeros", "coefficients", "response_list", "fir", "polynomial"}

(* x2r_stage: n and m count what the content lists (zeros and poles,        *)
(* numerators and denominators; m is 0 for the other types).                *)
X2rStage ==
  [number : Nat, type : StageType, tft : TransferFunction, n : Nat, m : Nat,
   decimation : BOOLEAN, stage_gain : BOOLEAN]

(* x2r_channel: sensitivity is "unset" when the element is missing or its   *)
(* value 0; poly counts the coefficients of the instrument polynomial.      *)
X2rChannel ==
  [location : {"blank", "code"}, open : BOOLEAN, stages : Seq(X2rStage),
   sensitivity : {"unset", "set"}, poly : Nat \cup {-1}]

-----------------------------------------------------------------------------
(* convert_tft: an unknown type is written as "Undefined", which no reader  *)
(* takes, and only D is taken for coefficients.                             *)
ConvertTft(tft, letters) == IF tft \in letters THEN "good" ELSE "bad"

LetterLine(b, form) == [Ln(b, 3, 0) EXCEPT !.form = form]

PrintPolesZeros(s) ==
  <<CommentLine, LetterLine(53, ConvertTft(s.tft, {"laplace", "digital"}))>>
    \o Fields(53, <<4, 5, 6, 7, 8, 9, 14>>, <<s.number, 0, 0, 0, 0, s.n, s.m>>)
    \o Rows(s.n, 53, 10, 5) \o Rows(s.m, 53, 15, 5)

(* Mutant of PrintCoefficients: the rows follow the count they belong to.   *)
PrintCoefficientsByCount(s) ==
  <<CommentLine, LetterLine(54, ConvertTft(s.tft, {"digital"}))>>
    \o Fields(54, <<4, 5, 6, 7>>, <<s.number, 0, 0, s.n>>) \o Rows(s.n, 54, 8, 3)
    \o Fields(54, <<10>>, <<s.m>>) \o Rows(s.m, 54, 11, 3)

PrintCoefficients(s) ==
  <<CommentLine, LetterLine(54, ConvertTft(s.tft, {"digital"}))>>
    \o Fields(54, <<4, 5, 6, 7, 10>>, <<s.number, 0, 0, s.n, s.m>>)
    \o Rows(s.n, 54, 8, 3) \o Rows(s.m, 54, 11, 3)

(* A row opens with its number, left-justified in four columns, directly    *)
(* followed by the frequency: a row of number 1000 or more has no blank     *)
(* between them and a column less.                                          *)
PrintResponseList(s) ==
  <<CommentLine>> \o Fields(55, <<3, 4, 5, 6>>, <<s.number, 0, 0, s.n>>)
    \o [i \in 1..s.n |-> Ln(55, 7, IF i < 1000 THEN 6 ELSE 5)]

(* An empty name would be a line without value, as the code writes it: the  *)
(* filters here have one.                                                   *)
PrintFir(s) ==
  <<CommentLine>> \o Fields(61, <<3, 4, 5, 6, 7, 8>>, <<s.number, 0, 0, 0, 0, s.n>>)
    \o Rows(s.n, 61, 9, 2)

PrintPolynomial(number, n) ==
  <<CommentLine>>
    \o Fields(62, <<3, 4, 5, 6, 7, 8, 9, 10, 11, 12, 13, 14>>,
              <<0, number, 0, 0, 0, 0, 0, 0, 0, 0, 0, n>>)
    \o Rows(n, 62, 15, 3)

PrintDecimation(number) ==
  <<CommentLine>> \o Fields(57, <<3, 4, 5, 6, 7, 8>>, <<number, 0, 0, 0, 0, 0>>)

PrintStageGain(number) ==
  <<CommentLine>> \o Fields(58, <<3, 4, 5, 6>>, <<number, 0, 0, 0>>)

-----------------------------------------------------------------------------
PrintContent(s) ==
  CASE s.type = "poles_zeros" -> PrintPolesZeros(s)
    [] s.type = "coefficients" -> PrintCoefficients(s)
    [] s.type = "response_list" -> PrintResponseList(s)
    [] s.type = "fir" -> PrintFir(s)
    [] s.type = "polynomial" -> PrintPolynomial(s.number, s.n)
    [] OTHER -> <<>>

(* The blockettes of a stage, each the sequence of its lines.               *)
PrintStage(s) ==
  (IF s.type = "none" THEN <<>> ELSE <<PrintContent(s)>>)
    \o (IF s.decimation THEN <<PrintDecimation(s.number)>> ELSE <<>>)
    \o (IF s.stage_gain THEN <<PrintStageGain(s.number)>> ELSE <<>>)

PrintResponse(c) ==
  FlattenSeq([i \in DOMAIN c.stages |-> PrintStage(c.stages[i])])
    \o (IF c.sensitivity = "set" THEN <<PrintStageGain(0)>> ELSE <<>>)
    \o (IF c.poly >= 0 THEN <<PrintPolynomial(0, c.poly)>> ELSE <<>>)

(* Mutant of PrintHeader: nothing is written for a missing end.             *)
PrintHeaderNoEnd(c) ==
  <<CommentLine>> \o Fields(50, <<3, 16>>, <<0, 0>>) \o Fields(52, <<3, 4, 22>>, <<0, 0, 0>>)
    \o <<[Ln(52, 23, 0) EXCEPT !.form = IF c.open THEN "empty" ELSE "good"]>>

(* A blank location is written as "??", a missing end as "No Ending Time",  *)
(* so no line of the header is ever empty.                                  *)
PrintHeader(c) ==
  <<CommentLine>> \o Fields(50, <<3, 16>>, <<0, 0>>) \o Fields(52, <<3, 4, 22, 23>>, <<0, 0, 0, 0>>)

(* x2r_resp_util_write: each channel as the sequence of its header and its  *)
(* blockettes.                                                              *)
Write(cs) == [i \in DOMAIN cs |-> <<PrintHeader(cs[i])>> \o PrintResponse(cs[i])]
=============================================================================
