------------------------------- MODULE Filters -------------------------------
(***************************************************************************)
(* calc_fctns.c: the responses of single filters, the normalisation of a   *)
(* channel's gains and filters at one frequency, and the response of the   *)
(* channel.                                                                *)
(*                                                                         *)
(* A complex number given by modulus and phase is that number: what        *)
(* sqrt and atan2 take apart, cos and sin put together again.  Factors     *)
(* that stem from moduli (gains, a0 and h0) are given by their squares, so *)
(* that roots need not be drawn.                                           *)
(*                                                                         *)
(* A frequency is f in Hz, w = 2 pi f, and the angle half, of w times half *)
(* the unit of time in which sample intervals and delays are integers.     *)
(***************************************************************************)
EXTENDS Question, Field

LOCAL INSTANCE SequencesExt

CONSTANTS TwoPi,         \* a number
          Frequencies,   \* the angles of frequencies, by f
          SymFilters,    \* first halves of symmetric filters
          RootSets,      \* zeros and poles, with as many of one as of the other
          Channels,      \* stages and what else is needed of a channel
          Options        \* range of stages and how to evaluate them

(* The frequencies of a response list are those of the response.            *)
AtFrequency(f) == [f |-> f, w |-> Times(TwoPi, f), half |-> Frequencies[f]]

Angle(at, sample_int) == Turned(at.half, 2 * sample_int)

-----------------------------------------------------------------------------
(* analog_trans                                                             *)
AnalogTrans(blkt, at) ==
  LET omega == Complex(0, IF blkt.type = "LAPLACE_PZ" THEN at.w ELSE at.f)
      from(roots) == Product([i \in DOMAIN roots |-> ZMinus(omega, roots[i])])
  IN  ZOver(from(blkt.zeros), from(blkt.poles))

(* fir_sym_trans: the coefficients are the first half of the filter, the    *)
(* last of them in the middle if there is one.                              *)
FirSymTrans(blkt, at) ==
  LET na == Len(blkt.coeffs)
      cosine(n) == Turned(at.half, n * blkt.sample_int).real
      term(k) == IF blkt.type = "FIR_SYM_2" THEN 2 * Times(blkt.coeffs[k], cosine(2 * (na - k) + 1))
                 ELSE IF k < na THEN 2 * Times(blkt.coeffs[k], cosine(2 * (na - k)))
                 ELSE blkt.coeffs[k]
  IN  Complex(Sum([k \in 1..na |-> term(k)]), 0)

(* Mutant of Centred: the middle of the filter is one off.                  *)
CentredOnNext(z, na, angle) == ZTimes(z, Turned(angle, na))

(* The phase is that of the filter about its middle.                        *)
Centred(z, na, angle) == ZTimes(z, Turned(angle, na - 1))

(* The coefficients as those of powers of the conjugate angle.              *)
Transformed(coeffs, z) ==
  FoldLeft(ZPlus, Complex(0, 0), [k \in DOMAIN coeffs |-> Scaled(coeffs[k], Turned(z, 1 - k))])

(* fir_asym_trans: where all coefficients are the same by a formula, which  *)
(* leaves h0 out and takes 1 at zero frequency.                             *)
FirAsymTrans(blkt, at) ==
  LET a == blkt.coeffs
      na == Len(a)
      half == Turned(at.half, blkt.sample_int)
  IN  IF \A k \in 1..na : a[k] = a[1]
        THEN Complex(IF Turned(half, 2) = One THEN 1 ELSE Times(Over(Turned(half, na).imag, half.imag), a[1]), 0)
      ELSE Centred(Transformed(a, Turned(half, 2)), na, half)

(* iir_pz_trans                                                             *)
IirPzTrans(blkt, at) ==
  LET from(roots) == Product([i \in DOMAIN roots |-> ZMinus(Angle(at, blkt.sample_int), roots[i])])
  IN  ZOver(from(blkt.zeros), from(blkt.poles))

(* iir_trans                                                                *)
IirTrans(blkt, at) ==
  LET z == Angle(at, blkt.sample_int)
  IN  ZOver(Transformed(blkt.numer, z), Transformed(blkt.denom, z))

(* calc_polynomial, with integers: the slope at a place greater than zero,  *)
(* without its sign as the phase turns it.                                  *)
CalcPolynomial(blkt, x) ==
  LET amp == FoldLeft(LAMBDA sum, j : sum + blkt.coeffs[j + 1] * j * x^(j - 1), 0,
                      [j \in 1..(Len(blkt.coeffs) - 1) |-> j])
  IN  Complex(IF amp >= 0 THEN amp ELSE -amp, 0)

(* calc_list, of which each entry is a number already.                      *)
CalcList(blkt, f) == blkt.list[f]

Firs == {"FIR_SYM_1", "FIR_SYM_2", "FIR_ASYM"}
PoleZeros == {"ANALOG_PZ", "LAPLACE_PZ", "IIR_PZ"}

Trans(blkt, at) ==
  CASE blkt.type \in {"ANALOG_PZ", "LAPLACE_PZ"} -> AnalogTrans(blkt, at)
    [] blkt.type = "IIR_PZ" -> IirPzTrans(blkt, at)
    [] blkt.type \in {"FIR_SYM_1", "FIR_SYM_2"} -> FirSymTrans(blkt, at)
    [] blkt.type = "FIR_ASYM" -> FirAsymTrans(blkt, at)
    [] blkt.type = "IIR_COEFFS" -> IirTrans(blkt, at)

-----------------------------------------------------------------------------
(* normalize_response.  A stage is a filter, which may be none, and a gain, *)
(* which may be none either.                                                *)
NoFilter == [type |-> "none"]
NoGain == [type |-> "none"]
Gain(gain2, freq) == [type |-> "GAIN", gain2 |-> gain2, freq |-> freq]

(* Test 1: the only stage needs a gain, the first of two may take the       *)
(* sensitivity instead.                                                     *)
Gained(chan) ==
  LET first == chan.stages[1]
      lacking == first.gain.type = "none" /\ first.filter.type # "POLYNOMIAL"
  IN  CASE ~lacking \/ Len(chan.stages) > 2 -> [ok |-> TRUE, chan |-> chan]
        [] lacking /\ Len(chan.stages) = 2 /\ chan.sensit2 # 0 ->
             [ok |-> TRUE, chan |-> [chan EXCEPT !.stages[1].gain = Gain(chan.sensit2, chan.sensfreq)]]
        [] OTHER -> [ok |-> FALSE, chan |-> chan]

(* The frequency to normalise at, where no sensitivity says it.             *)
Sensfreq(chan) ==
  LET freqs == {i \in DOMAIN chan.stages : /\ chan.stages[i].gain.type = "GAIN"
                                           /\ chan.stages[i].gain.freq # 0}
  IN  IF chan.sensit2 # 0 \/ freqs = {} THEN chan.sensfreq
      ELSE chan.stages[CHOOSE i \in freqs : \A j \in freqs : j <= i].gain.freq

(* Stages that are evaluated, with the number 0 for none in an option.      *)
InRange(no, options) ==
  options.start >= 0 =>
    IF options.stop # 0 THEN no \in options.start..options.stop ELSE no = options.start

(* Mutant of OffFrequency: the frequency of a0 is not compared.             *)
GainOffFrequency(stage, sensfreq) == stage.gain.freq # sensfreq

OffFrequency(stage, sensfreq) ==
  \/ stage.gain.freq # sensfreq
  \/ stage.filter.type \in PoleZeros /\ stage.filter.freq # sensfreq

(* Test 2, of one stage: the gain becomes that at the frequency of the      *)
(* channel's sensitivity, and the filter is 1 there.  A filter without      *)
(* coefficients is left alone.  df and of are the squares of the filter's   *)
(* response at the two frequencies.                                         *)
Fitted(stage, sensfreq, df, of) ==
  LET fil == stage.filter
  IN  IF \/ ~OffFrequency(stage, sensfreq) \/ fil.type \notin PoleZeros \cup Firs \cup {"IIR_COEFFS"}
         \/ fil.type \in Firs /\ fil.coeffs = <<>>
        THEN [ok |-> TRUE, stage |-> stage]
      ELSE IF fil.type \in {"ANALOG_PZ", "LAPLACE_PZ"} /\ 0 \in {df, of}
        THEN [ok |-> FALSE, stage |-> stage]
      ELSE [ok |-> TRUE,
            stage |-> [stage EXCEPT
                         !.gain = Gain(Times(Over(@.gain2, df), of), sensfreq),
                         !.filter = IF fil.type \in PoleZeros
                                      THEN [@ EXCEPT !.scale2 = Reciprocal(of), !.freq = sensfreq]
                                    ELSE [@ EXCEPT !.scale2 = Reciprocal(of)]]]

NormalisedStage(stage, sensfreq) ==
  Fitted(stage, sensfreq, Norm(Trans(stage.filter, AtFrequency(stage.gain.freq))),
         Norm(Trans(stage.filter, AtFrequency(sensfreq))))

(* Stage 0 takes no part.                                                   *)
Resets(stage, options) ==
  InRange(stage.no, options) /\ stage.gain.type = "GAIN" /\ stage.no # 0

NormalisedStages(chan, options) ==
  [i \in DOMAIN chan.stages |->
     IF Resets(chan.stages[i], options) THEN NormalisedStage(chan.stages[i], chan.sensfreq)
     ELSE [ok |-> TRUE, stage |-> chan.stages[i]]] \o <<>>

(* The sensitivity is the product of the gains.                             *)
Sensitivity(stages, options) ==
  FoldLeft(Times, 1,
           [i \in DOMAIN stages |-> IF Resets(stages[i], options) THEN stages[i].gain.gain2 ELSE 1])

WithStages(chan, normalised, options) ==
  LET stages == [i \in DOMAIN normalised |-> normalised[i].stage] \o <<>>
  IN  IF \/ \E i \in DOMAIN chan.stages : chan.stages[i].gain.type = "GAIN" /\ chan.stages[i].gain.gain2 = 0
         \/ \E i \in DOMAIN normalised : ~normalised[i].ok
        THEN [ok |-> FALSE, chan |-> chan]
      ELSE [ok |-> TRUE,
            chan |-> [chan EXCEPT
                        !.stages = stages,
                        !.calc_sensit2 = Sensitivity(stages, options),
                        !.sensit2 = IF Len(stages) = 1 /\ Resets(stages[1], options)
                                      THEN Sensitivity(stages, options) ELSE @]]

NormalizeResponse(channel, options) ==
  LET gained == Gained(channel)
      chan == [gained.chan EXCEPT !.sensfreq = Sensfreq(gained.chan)]
  IN  IF gained.ok THEN WithStages(chan, NormalisedStages(chan, options), options)
      ELSE [ok |-> FALSE, chan |-> chan]

-----------------------------------------------------------------------------
(* calc_time_shift                                                          *)
CalcTimeShift(delay2, at) == Turned(at.half, delay2)

(* convert_to_units                                                         *)
ConvertToUnits(inp, out, data, w) ==
  LET down(z) == IF w = 0 THEN Complex(0, 0) ELSE ZTimes(z, Complex(0, -Over(1, w)))
      up(z) == ZTimes(z, Complex(0, w))
      velocity == CASE inp = "DIS" -> down(data) [] inp = "ACC" -> up(data) [] OTHER -> data
  IN  CASE out = "file" \/ (inp = out /\ inp # "VEL") -> data
        [] out = "DIS" /\ inp # "DIS" -> up(velocity)
        [] out = "ACC" /\ inp # "ACC" -> down(velocity)
        [] out = "VEL" -> velocity

(* calculate_response at one frequency: what a stage contributes, with the  *)
(* delay of a filter that is not symmetric, in half units.                  *)
StageResponse(stage, at, options) ==
  LET fil == stage.filter
      delay2 == IF options.use_estimated_delay THEN 2 * fil.estim_delay
                ELSE 2 * fil.applied_corr - (Len(fil.coeffs) - 1) * fil.sample_int
  IN  CASE fil.type = "none" -> One
        [] fil.type = "POLYNOMIAL" -> CalcPolynomial(fil, options.b62_x)
        [] fil.type = "LIST" -> CalcList(fil, at.f)
        [] fil.type \in Firs ->
             IF fil.coeffs = <<>> THEN One
             ELSE IF fil.type # "FIR_ASYM" THEN FirSymTrans(fil, at)
             ELSE ZTimes(FirAsymTrans(fil, at), CalcTimeShift(delay2, at))
        [] OTHER -> Trans(fil, at)

Selected(chan, options) == SelectSeq(chan.stages, LAMBDA stage : InRange(stage.no, options))

(* No stage in range, or a polynomial without a place to take it at, is an  *)
(* error.                                                                   *)
Calculable(chan, options) ==
  /\ Selected(chan, options) # <<>>
  /\ \A i \in DOMAIN Selected(chan, options) :
       Selected(chan, options)[i].filter.type = "POLYNOMIAL" => options.b62_x > 0

CalculateResponse(chan, at, options) ==
  Product([i \in DOMAIN Selected(chan, options) |-> StageResponse(Selected(chan, options)[i], at, options)])

(* What was factored out of a filter's response; the formula for a filter   *)
(* with one coefficient only has no such factor.                            *)
Scale2(fil) ==
  CASE fil.type \in PoleZeros \cup {"IIR_COEFFS", "FIR_SYM_1", "FIR_SYM_2"} -> fil.scale2
    [] fil.type = "FIR_ASYM" -> IF \A k \in DOMAIN fil.coeffs : fil.coeffs[k] = fil.coeffs[1] THEN 1 ELSE fil.scale2
    [] OTHER -> 1

(* The square of the modulus, with all factors.                             *)
Magnitude2(chan, at, options) ==
  LET scale(product, stage) == Times(product, Scale2(stage.filter))
  IN  FoldLeft(scale,
               Times(Norm(CalculateResponse(chan, at, options)),
                     IF options.use_total_sensitivity THEN chan.sensit2 ELSE chan.calc_sensit2),
               Selected(chan, options))

-----------------------------------------------------------------------------
Units == {"DIS", "VEL", "ACC"}

FiltersInit ==
  /\ question \in [of : {"fir"}, coeffs : SymFilters, type : {"FIR_SYM_1", "FIR_SYM_2"},
                   sample_int : {1, 2}, f : DOMAIN Frequencies]
             \cup [of : {"roots"}, zeros : RootSets, poles : RootSets, sample_int : {1, 2},
                   f : DOMAIN Frequencies]
             \cup [of : {"units"}, inp : Units, out : Units, data : UNION {ToSet(roots) : roots \in RootSets},
                   f : DOMAIN Frequencies]
             \cup [of : {"channel"}, chan : Channels, options : Options]
  /\ answer = Unanswered

Whole(type, half) ==
  half \o (IF type = "FIR_SYM_2" THEN Reverse(half) ELSE Tail(Reverse(half)))

NoOptions == [start |-> -1, stop |-> 0, use_estimated_delay |-> FALSE, use_total_sensitivity |-> FALSE, b62_x |-> 1]

(* A symmetric filter, by its half and in whole, and as it reaches the      *)
(* response when it has not been corrected for its delay.                   *)
EvaluateFir ==
  /\ Asked("fir")
  /\ LET sym == [type |-> question.type, coeffs |-> question.coeffs, sample_int |-> question.sample_int]
         asym == [type |-> "FIR_ASYM", coeffs |-> Whole(question.type, question.coeffs),
                  sample_int |-> question.sample_int, applied_corr |-> 0, estim_delay |-> 0]
         at == AtFrequency(question.f)
     IN  Answer([of |-> "fir", sym |-> Trans(sym, at), asym |-> Trans(asym, at),
                 delayed |-> StageResponse([filter |-> asym], at, NoOptions)])

(* The coefficients of a polynomial in the conjugate angle with these       *)
(* roots.                                                                   *)
FromRoots(roots) ==
  LET times(p, root) ==
        [k \in 1..(Len(p) + 1) |->
           ZMinus(IF k <= Len(p) THEN p[k] ELSE Complex(0, 0), IF k > 1 THEN ZTimes(root, p[k - 1]) ELSE Complex(0, 0))]
      coeffs == FoldLeft(times, <<One>>, roots)
  IN  [k \in DOMAIN coeffs |-> coeffs[k].real]

EvaluateRoots ==
  /\ Asked("roots")
  /\ Len(question.zeros) = Len(question.poles)
  /\ LET blkt(type, zeros, poles) == [type |-> type, zeros |-> zeros, poles |-> poles,
                                      sample_int |-> question.sample_int]
         coeffs == [type |-> "IIR_COEFFS", numer |-> FromRoots(question.zeros),
                    denom |-> FromRoots(question.poles), sample_int |-> question.sample_int]
         radians(roots) == [i \in DOMAIN roots |-> Scaled(TwoPi, roots[i])]
         at == AtFrequency(question.f)
     IN  Answer([of |-> "roots",
                 pz |-> Trans(blkt("IIR_PZ", question.zeros, question.poles), at),
                 coeffs |-> Trans(coeffs, at),
                 analog |-> Trans(blkt("ANALOG_PZ", question.zeros, question.poles), at),
                 laplace |-> Trans(blkt("LAPLACE_PZ", radians(question.zeros), radians(question.poles)), at)])

ConvertUnits ==
  /\ Asked("units")
  /\ LET w == AtFrequency(question.f).w
         back == ConvertToUnits(question.inp, question.out, question.data, w)
     IN  Answer([of |-> "units", out |-> back,
                 via |-> [unit \in Units |-> ConvertToUnits(unit, question.out,
                            ConvertToUnits(question.inp, unit, question.data, w), w)]])

Normalised(result, options) ==
  LET calculable == result.ok /\ Calculable(result.chan, options)
  IN  [of |-> "channel", ok |-> calculable, chan |-> result.chan,
       magnitude2 |-> IF calculable
                        THEN Magnitude2(result.chan, AtFrequency(result.chan.sensfreq), options)
                      ELSE 0]

Normalise ==
  /\ Asked("channel")
  /\ Answer(Normalised(NormalizeResponse(question.chan, question.options), question.options))

FiltersNext == EvaluateFir \/ EvaluateRoots \/ ConvertUnits \/ Normalise

-----------------------------------------------------------------------------
(* One filter has one response, however it is written: a symmetric one by   *)
(* its half or in whole, about its middle or, with its delay, from its      *)
(* beginning; a recursive one by its roots or its coefficients; an analog   *)
(* one in Hz or in radians.  A response                                     *)
(* to one unit is the same one whether it is converted at once or in steps. *)
FiltersAgree ==
  /\ answer.of = "fir" =>
       LET whole == Whole(question.type, question.coeffs)
           z == Angle(AtFrequency(question.f), question.sample_int)
           uniform == \A k \in DOMAIN whole : whole[k] = whole[1]
       IN  \* the formula for the uniform filter fails at zero frequency
           \/ uniform /\ z = One
           \/ /\ answer.asym = answer.sym
              /\ answer.delayed = Transformed(whole, z)
  /\ answer.of = "roots" =>
       /\ answer.laplace = answer.analog
       /\ \/ Angle(AtFrequency(question.f), question.sample_int) \in ToSet(question.poles)
          \/ answer.coeffs = answer.pz
  /\ answer.of = "units" =>
       \/ AtFrequency(question.f).w = 0
       \/ \A unit \in Units : answer.via[unit] = answer.out

(* Gains are normalised so that the sensitivity is the magnitude of the     *)
(* response at its frequency, at whatever frequencies the gains and the     *)
(* filters were given.  That supposes gains, and filters that are 1 at the  *)
(* frequency they were given for; a digital filter whose gain was given at  *)
(* the frequency of the sensitivity is not looked at.                       *)
SensitivityIsMagnitude ==
  answer.of = "channel" /\ answer.ok =>
    LET used == Selected(question.chan, question.options)
        normalised(stage) ==
          /\ stage.gain.type = "GAIN"
          /\ \/ stage.filter.type \in PoleZeros \cup {"none"}
             \/ stage.filter.type \in Firs \cup {"IIR_COEFFS"} /\ stage.gain.freq # answer.chan.sensfreq
    IN  (\A i \in DOMAIN used : normalised(used[i])) => answer.magnitude2 = answer.chan.calc_sensit2

(* Responses are what their filters say, and their size is the sensitivity. *)
ResponsesAgree == FiltersAgree /\ SensitivityIsMagnitude
=============================================================================
