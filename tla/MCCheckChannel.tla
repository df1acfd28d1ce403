--------------------------- MODULE MCCheckChannel ---------------------------
(* Small instances of CheckChannel.                                          *)
EXTENDS CheckChannel

CONSTANTS V, C  \* volts, counts

MCUnits == {V, C}

StageOf(q, i, o, b) == [seq |-> q, in |-> i, out |-> o, blkts |-> b]

Filtered(b) == Range(b) \cap Filters # {}

(* A stage of these blockettes, its units as StageAssembly leaves them.      *)
Alone(b, i, o) == IF Filtered(b) THEN StageOf(1, i, o, b)
                                 ELSE StageOf(1, UNDEF_UNITS, UNDEF_UNITS, b)

UpTo(len, types) == UNION {[1..l -> types] : l \in 0..len}

(* Single stages: any few blockettes, in any order.                          *)
OneStage ==
  {<<Alone(b, V, C)>> :
     b \in UpTo(2, Types)
           \cup UpTo(4, {"PZ", "FIR_SYM_1", "POLYNOMIAL", "GAIN", "DECIMATION", "REFERENCE"})
           \cup UpTo(3, {"LIST", "GAIN", "PZ"})
           \cup UpTo(3, {"FIR_SYM_2", "IIR_PZ", "IIR_COEFFS", "GAIN", "DECIMATION"})}
    \cup {<<Alone(<<"PZ", "GAIN">>, V, UNDEF_UNITS)>>}

Cascade ==
  {<<"PZ", "GAIN">>, <<"FIR_ASYM", "FIR_ASYM", "DECIMATION", "GAIN">>,
   <<"GAIN", "DECIMATION", "FIR_SYM_1">>, <<"LIST">>, <<"REFERENCE", "POLYNOMIAL">>}

(* Pairs and triples of stages: units that do and do not meet, gain-only     *)
(* stages between, stage 0 anywhere.                                         *)
Staged(kinds, seqs, units) ==
  {StageOf(q, u[1], u[2], b) : b \in kinds, q \in seqs, u \in units}
    \cup {StageOf(q, UNDEF_UNITS, UNDEF_UNITS, <<"GAIN">>) : q \in seqs}

TwoStages ==
  LET stages == Staged(Cascade, 0..2, {<<V, C>>, <<V, V>>, <<C, V>>})
  IN  {c \in stages \X stages : c[1].seq # c[2].seq}

ThreeStages ==
  LET stages(q) == Staged(Cascade, {q}, {<<V, V>>, <<V, C>>})
  IN  UNION {stages(q[1]) \X stages(q[2]) \X stages(q[3]) :
               q \in {<<1, 2, 3>>, <<1, 2, 0>>, <<0, 1, 2>>}}

MCChannels == OneStage \cup TwoStages \cup ThreeStages
=============================================================================
