---------------------------- MODULE CheckChannel ----------------------------
(***************************************************************************)
(* check_channel of resp_fctns.c: one pass over the stages of a channel    *)
(* that merges continuation blockettes, notes the role of each blockette   *)
(* in pointers local to the function, and at the end of each stage relinks *)
(* its blockettes in the order  (REF ->) FILT -> (DECI ->) GAIN  and        *)
(* checks units and decimation.                                            *)
(*                                                                         *)
(* A blockette is named <<stage, position>>; position 0 is the gain the    *)
(* function allocates for a stage that has none.  The coefficients of a    *)
(* FIR or LIST blockette are named by the blockette they were read with.   *)
(***************************************************************************)
EXTENDS Integers, SequencesExt

CONSTANTS
  Channels,  \* the channels a behaviour may start from: sequences of stages
  Units      \* units of a stage's signals, other than UNDEF_UNITS

CONSTANT UNDEF_UNITS

FirTypes == {"FIR_SYM_1", "FIR_SYM_2", "FIR_ASYM"}
Types == FirTypes \cup {"POLYNOMIAL", "PZ", "IIR_PZ", "FIR_COEFFS", "LIST", "GENERIC",
                        "IIR_COEFFS", "GAIN", "DECIMATION", "REFERENCE", "UNDEF"}
Filters == Types \ {"GAIN", "DECIMATION", "REFERENCE", "UNDEF", "FIR_COEFFS"}

(* Stage type of a filter: the function's stage_types.                     *)
StageTypeOf(t) ==
  CASE t \in FirTypes -> "FIR_TYPE"
    [] t = "PZ" -> "PZ_TYPE"
    [] t = "IIR_PZ" -> "IIR_TYPE"
    [] t = "IIR_COEFFS" -> "IIR_COEFFS_TYPE"
    [] t = "LIST" -> "LIST_TYPE"
    [] t = "GENERIC" -> "GENERIC_TYPE"
    [] t = "POLYNOMIAL" -> "POLYNOMIAL_TYPE"

StageTypes == {"UNDEF_STAGE", "GAIN_TYPE"} \cup {StageTypeOf(t) : t \in Filters}

Stage == [seq : Nat, in : Units \cup {UNDEF_UNITS}, out : Units \cup {UNDEF_UNITS},
          blkts : Seq(Types)]

(* A stage gets its units from a filter of its own (StageAssembly).         *)
ASSUME ChannelAssumption ==
  /\ UNDEF_UNITS \notin Units
  /\ Channels \subseteq Seq(Stage) \ {<<>>}
  /\ \A c \in Channels : \A s \in DOMAIN c :
       Range(c[s].blkts) \cap Filters = {} => c[s].in = UNDEF_UNITS /\ c[s].out = UNDEF_UNITS

NULL == <<0, 0>>

VARIABLES
  chan,        \* the stages as read
  stage_no,    \* i_stage + 1
  blkt_ptr,
  first_blkt,  \* stage -> its first blockette
  next,        \* blockette -> its next_blkt
  coeffs,      \* blockette -> the blockettes its coefficients came from
  freed,       \* blockettes merged away
  allocated,   \* stages for which a gain was allocated
  stage_type,
  filt_blkt, deci_blkt, gain_blkt, ref_blkt,
  gain_flag, deci_flag, ref_flag,
  nc,
  prev_stage,  \* 0: none
  sensit,      \* the gain chan->sensit was taken from
  delays,      \* what was added to the channel's delays, in order
  status       \* "RUN" until the function returns

vars == <<chan, stage_no, blkt_ptr, first_blkt, next, coeffs, freed, allocated, stage_type,
          filt_blkt, deci_blkt, gain_blkt, ref_blkt, gain_flag, deci_flag, ref_flag, nc,
          prev_stage, sensit, delays, status>>

flags == <<gain_flag, deci_flag, ref_flag>>
roles == <<filt_blkt, deci_blkt, gain_blkt, ref_blkt>>
lists == <<first_blkt, next, coeffs, freed>>
totals == <<sensit, delays>>

Type(b) == IF b[2] = 0 THEN "GAIN" ELSE chan[b[1]].blkts[b[2]]

Blkts(c) == UNION {{<<s, p>> : p \in 0..Len(c[s].blkts)} : s \in DOMAIN c}

FirstOf(c, s) == IF s > Len(c) \/ c[s].blkts = <<>> THEN NULL ELSE <<s, 1>>

-----------------------------------------------------------------------------
Init ==
  /\ chan \in Channels
  /\ stage_no = 1
  /\ blkt_ptr = FirstOf(chan, 1)
  /\ first_blkt = [s \in DOMAIN chan |-> FirstOf(chan, s)]
  /\ next = [b \in Blkts(chan) |->
               IF b[2] \in 1..(Len(chan[b[1]].blkts) - 1) THEN <<b[1], b[2] + 1>> ELSE NULL]
  /\ coeffs = [b \in Blkts(chan) |-> <<b>>]
  /\ freed = {}
  /\ allocated = {}
  /\ stage_type = "UNDEF_STAGE"
  /\ filt_blkt = NULL /\ deci_blkt = NULL /\ gain_blkt = NULL /\ ref_blkt = NULL
  /\ gain_flag = FALSE /\ deci_flag = FALSE /\ ref_flag = FALSE
  /\ nc = 0
  /\ prev_stage = 0
  /\ sensit = NULL
  /\ delays = <<>>
  /\ status = "RUN"

AtBlkt(types) == status = "RUN" /\ blkt_ptr # NULL /\ Type(blkt_ptr) \in types

HasFilter == stage_type \notin {"UNDEF_STAGE", "GAIN_TYPE"}

(* The next blockette is of the same type: a continuation.                 *)
Continued == next[blkt_ptr] # NULL /\ Type(next[blkt_ptr]) = Type(blkt_ptr)

Reject ==
  /\ status' = "VAL"
  /\ UNCHANGED <<chan, stage_no, blkt_ptr, lists, allocated, stage_type, roles, flags, nc,
                 prev_stage, totals>>

(* The blockette is the stage's filter.                                    *)
TakeFilter ==
  /\ stage_type' = StageTypeOf(Type(blkt_ptr))
  /\ filt_blkt' = blkt_ptr
  /\ blkt_ptr' = next'[blkt_ptr]
  /\ UNCHANGED <<chan, stage_no, first_blkt, allocated, deci_blkt, gain_blkt, ref_blkt,
                 flags, prev_stage, totals, status>>

(* merge_coeffs, merge_lists: the run of continuations after blkt_ptr, in   *)
(* one go.  Its coefficients follow those of blkt_ptr, its blockettes are   *)
(* freed.                                                                   *)
RunLength(b) ==
  LET s == b[1]
      run == {q \in b[2]..Len(chan[s].blkts) :
                \A p \in b[2]..q : chan[s].blkts[p] = Type(b)}
  IN  Cardinality(run)

Merge ==
  LET b == blkt_ptr
      len == RunLength(b)
      merged == {<<b[1], b[2] + d>> : d \in 1..(len - 1)}
  IN  /\ coeffs' = [coeffs EXCEPT ![b] = [d \in 1..len |-> <<b[1], b[2] + d - 1>>]]
      /\ next' = [next EXCEPT ![b] = next[<<b[1], b[2] + len - 1>>]]
      /\ freed' = freed \cup merged

KeepBlkts == UNCHANGED <<next, coeffs, freed>>

(* No look at what the stage holds already.                                *)
Polynomial ==
  /\ AtBlkt({"POLYNOMIAL"})
  /\ KeepBlkts
  /\ TakeFilter
  /\ UNCHANGED nc

PoleZero ==
  /\ AtBlkt({"PZ", "IIR_PZ"})
  /\ ~HasFilter
  /\ KeepBlkts
  /\ TakeFilter
  /\ UNCHANGED nc

(* A list blockette may not be mixed with other filters: what is looked at  *)
(* is whether the channel has further stages, and of what kind.            *)
ListMixed ==
  LET hasNext == stage_no < Len(chan)
  IN  IF hasNext \/ prev_stage # 0
        THEN ~hasNext /\ chan[2].seq # 0
        ELSE /\ Len(chan) > 1
             /\ first_blkt[2] # NULL
             /\ Type(first_blkt[2]) # "GAIN"

List ==
  /\ AtBlkt({"LIST"})
  /\ ~ListMixed
  /\ Merge
  /\ TakeFilter
  /\ UNCHANGED nc

Generic ==
  /\ AtBlkt({"GENERIC"})
  /\ ~HasFilter
  /\ ~Continued
  /\ KeepBlkts
  /\ TakeFilter
  /\ UNCHANGED nc

(* check_symmetry may turn an asymmetric filter into half of a symmetric   *)
(* one; the number of coefficients nc counts both halves either way.       *)
Taps(type, n) ==
  CASE type = "FIR_SYM_1" -> 2 * n - 1
    [] type = "FIR_SYM_2" -> 2 * n
    [] type = "FIR_ASYM" -> n

Fir ==
  /\ AtBlkt(FirTypes)
  /\ ~HasFilter
  /\ Merge
  /\ TakeFilter
  /\ nc' = Taps(Type(blkt_ptr), RunLength(blkt_ptr))

IirCoeffs ==
  /\ AtBlkt({"IIR_COEFFS"})
  /\ ~HasFilter
  /\ ~Continued
  /\ KeepBlkts
  /\ TakeFilter
  /\ nc' = 1

Gain ==
  /\ AtBlkt({"GAIN"})
  /\ sensit' = IF chan[stage_no].seq = 0 THEN blkt_ptr ELSE sensit
  /\ stage_type' = IF stage_type = "UNDEF_STAGE" THEN "GAIN_TYPE" ELSE stage_type
  /\ gain_flag' = TRUE
  /\ gain_blkt' = blkt_ptr
  /\ blkt_ptr' = next[blkt_ptr]
  /\ UNCHANGED <<chan, stage_no, lists, allocated, filt_blkt, deci_blkt, ref_blkt, deci_flag,
                 ref_flag, nc, prev_stage, delays, status>>

(* Mutant of CalcDelay: nc is used whatever the stage is.                   *)
CalcDelayAnyStage == nc

(* What the delay is computed from: the coefficients of a FIR filter.       *)
CalcDelay == IF stage_type = "FIR_TYPE" THEN nc ELSE 0

(* A decimation adds to the channel's delays: its own estimate and          *)
(* correction, and for a FIR filter the one computed from nc.              *)
Decimation ==
  /\ AtBlkt({"DECIMATION"})
  /\ stage_type # "UNDEF_STAGE"
  /\ delays' = Append(delays, [deci |-> blkt_ptr, calc |-> CalcDelay])
  /\ deci_blkt' = blkt_ptr
  /\ deci_flag' = TRUE
  /\ blkt_ptr' = next[blkt_ptr]
  /\ UNCHANGED <<chan, stage_no, lists, allocated, stage_type, filt_blkt, gain_blkt, ref_blkt,
                 gain_flag, ref_flag, nc, prev_stage, sensit, status>>

Reference ==
  /\ AtBlkt({"REFERENCE"})
  /\ ref_flag' = TRUE
  /\ ref_blkt' = blkt_ptr
  /\ blkt_ptr' = next[blkt_ptr]
  /\ UNCHANGED <<chan, stage_no, lists, allocated, stage_type, filt_blkt, deci_blkt, gain_blkt,
                 gain_flag, deci_flag, nc, prev_stage, totals, status>>

(* A list in company is an error, found when it is merged already.          *)
BadList ==
  /\ AtBlkt({"LIST"})
  /\ ListMixed
  /\ Merge
  /\ status' = "VAL"
  /\ UNCHANGED <<chan, stage_no, blkt_ptr, first_blkt, allocated, stage_type, roles, flags,
                 nc, prev_stage, totals>>

(* So is everything else about a blockette: a second filter, a continuation *)
(* where none is supported, a decimation that comes first, a type that is   *)
(* not known.                                                               *)
BadBlkt ==
  /\ \/ AtBlkt({"PZ", "IIR_PZ", "GENERIC", "IIR_COEFFS"} \cup FirTypes) /\ HasFilter
     \/ AtBlkt({"GENERIC", "IIR_COEFFS"}) /\ ~HasFilter /\ Continued
     \/ AtBlkt({"DECIMATION"}) /\ stage_type = "UNDEF_STAGE"
     \/ AtBlkt({"UNDEF", "FIR_COEFFS"})
  /\ Reject

-----------------------------------------------------------------------------
(* The end of a stage.                                                     *)
AtStageEnd == status = "RUN" /\ blkt_ptr = NULL

UnitsUndefined ==
  stage_type # "GAIN_TYPE" /\ UNDEF_UNITS \in {chan[stage_no].in, chan[stage_no].out}

(* Mutant of UnitsMismatch: FIR stages are not compared.                    *)
UnitsMismatchButFir ==
  /\ stage_type \in {"PZ_TYPE", "IIR_TYPE", "IIR_COEFFS_TYPE", "LIST_TYPE"}
  /\ prev_stage # 0
  /\ chan[prev_stage].out # chan[stage_no].in

UnitsMismatch ==
  /\ stage_type \in {"PZ_TYPE", "FIR_TYPE", "IIR_TYPE", "IIR_COEFFS_TYPE", "LIST_TYPE"}
  /\ prev_stage # 0
  /\ chan[prev_stage].out # chan[stage_no].in

(* Mutant of DecimationMissing: a FIR stage needs none.                     *)
DecimationMissingButFir == stage_type \in {"IIR_TYPE", "IIR_COEFFS_TYPE"} /\ ~deci_flag

DecimationMissing ==
  stage_type \in {"IIR_TYPE", "FIR_TYPE", "IIR_COEFFS_TYPE"} /\ ~deci_flag

(* Mutants of Order: the role decides, not the flag of this stage; the gain *)
(* comes before the decimation.                                             *)
OrderByRole(gain) ==
  LET rest == IF deci_blkt # NULL THEN <<filt_blkt, deci_blkt, gain>> ELSE <<filt_blkt, gain>>
  IN  IF ref_flag THEN <<ref_blkt>> \o rest ELSE rest
OrderGainFirst(gain) ==
  LET rest == IF deci_flag THEN <<filt_blkt, gain, deci_blkt>> ELSE <<filt_blkt, gain>>
  IN  IF ref_flag THEN <<ref_blkt>> \o rest ELSE rest

(* The roles in the order they are to be linked in; gain stands for the     *)
(* stage's gain or the one just allocated.  Nothing is relinked when the    *)
(* filter came alone.                                                       *)
Order(gain) ==
  LET rest == IF deci_flag THEN <<filt_blkt, deci_blkt, gain>> ELSE <<filt_blkt, gain>>
  IN  IF ref_flag THEN <<ref_blkt>> \o rest ELSE rest

Relink(order) ==
  /\ first_blkt' = [first_blkt EXCEPT ![stage_no] = order[1]]
  /\ next' = [b \in DOMAIN next |->
                IF b \in Range(order)
                  THEN LET q == CHOOSE q \in DOMAIN order : order[q] = b
                       IN  IF q = Len(order) THEN NULL ELSE order[q + 1]
                  ELSE next[b]]

(* A gain for a stage that has none, and the relinking.                     *)
LinkStage ==
  LET gainOnly == stage_type = "GAIN_TYPE"
      newGain == ~gainOnly /\ gain_blkt = NULL
  IN  /\ allocated' = IF newGain THEN allocated \cup {stage_no} ELSE allocated
      /\ IF ~gainOnly /\ (ref_flag \/ deci_flag \/ gain_flag)
           THEN Relink(Order(IF newGain THEN <<stage_no, 0>> ELSE gain_blkt))
           ELSE UNCHANGED <<first_blkt, next>>

EndStage ==
  /\ AtStageEnd
  /\ ~UnitsUndefined
  /\ ~UnitsMismatch
  /\ ~DecimationMissing
  /\ LinkStage
  /\ prev_stage' = IF stage_type # "GAIN_TYPE" /\ chan[stage_no].seq # 0
                     THEN stage_no ELSE prev_stage
  /\ stage_no' = stage_no + 1
  /\ status' = IF stage_no = Len(chan) THEN "OK" ELSE "RUN"
  /\ blkt_ptr' = FirstOf(chan, stage_no + 1)
  /\ stage_type' = "UNDEF_STAGE"
  /\ gain_flag' = FALSE /\ deci_flag' = FALSE /\ ref_flag' = FALSE
  /\ gain_blkt' = NULL
  /\ UNCHANGED <<chan, coeffs, freed, filt_blkt, deci_blkt, ref_blkt, nc, totals>>

BadUnits ==
  /\ AtStageEnd
  /\ UnitsUndefined
  /\ Reject

(* By now the stage is relinked.                                           *)
BadStage ==
  /\ AtStageEnd
  /\ ~UnitsUndefined
  /\ UnitsMismatch \/ DecimationMissing
  /\ LinkStage
  /\ status' = "VAL"
  /\ UNCHANGED <<chan, stage_no, blkt_ptr, coeffs, freed, stage_type, roles, flags, nc,
                 prev_stage, totals>>

Next ==
  \/ Polynomial \/ PoleZero \/ List \/ Generic \/ Fir \/ IirCoeffs
  \/ Gain \/ Decimation \/ Reference
  \/ BadBlkt \/ BadList
  \/ EndStage \/ BadUnits \/ BadStage

Spec == Init /\ [][Next]_vars

-----------------------------------------------------------------------------
BlktOrNull == Blkts(chan) \cup {NULL}

TypeOK ==
  /\ chan \in Channels
  /\ stage_no \in 1..(Len(chan) + 1)
  /\ {blkt_ptr, filt_blkt, deci_blkt, gain_blkt, ref_blkt, sensit} \subseteq BlktOrNull
  /\ first_blkt \in [DOMAIN chan -> BlktOrNull]
  /\ next \in [Blkts(chan) -> BlktOrNull]
  /\ coeffs \in [Blkts(chan) -> Seq(Blkts(chan))]
  /\ freed \subseteq Blkts(chan)
  /\ allocated \subseteq DOMAIN chan
  /\ stage_type \in StageTypes
  /\ {gain_flag, deci_flag, ref_flag} \subseteq BOOLEAN
  /\ nc \in Nat
  /\ prev_stage \in 0..Len(chan)
  /\ delays \in Seq([deci : Blkts(chan), calc : Nat])
  /\ status \in {"RUN", "OK", "VAL"}

(* The blockettes of stage s, following its pointers.                      *)
Further(path) ==
  IF next[Last(path)] = NULL THEN path ELSE Append(path, next[Last(path)])

ChainOf(s) ==
  LET path[q \in 0..(Len(chan[s].blkts) + 1)] ==
        IF q = 0 THEN <<first_blkt[s]>> ELSE Further(path[q - 1])
  IN  IF first_blkt[s] = NULL THEN <<>> ELSE path[Len(chan[s].blkts) + 1]

(* The roles are noted in variables that outlive the stage they were set    *)
(* in: no relinking ever borrows a blockette of another stage, follows one  *)
(* that was merged away, or ties a stage into a ring.                       *)
StagesStayApart ==
  \A s \in DOMAIN chan :
    /\ IsInjective(ChainOf(s))
    /\ \A b \in Range(ChainOf(s)) : b[1] = s /\ b \notin freed

(* An accepted stage that has a filter and anything else is in the          *)
(* documented order: (REF ->) FILT -> (DECI ->) GAIN.                       *)
Rank(t) == CASE t = "REFERENCE" -> 1 [] t \in Filters -> 2 [] t = "DECIMATION" -> 3
             [] t = "GAIN" -> 4
InOrder(s) ==
  LET chain == ChainOf(s)
  IN  /\ \A p, q \in DOMAIN chain : p < q => Rank(Type(chain[p])) < Rank(Type(chain[q]))
      /\ Type(Last(chain)) = "GAIN"

Accepted(s) == s < stage_no /\ s \in DOMAIN chan

HoldsFilter(s) == \E p \in DOMAIN chan[s].blkts : chan[s].blkts[p] \in Filters

StageInOrder ==
  \A s \in DOMAIN chan :
    /\ Accepted(s)
    /\ HoldsFilter(s)
    /\ \E p \in DOMAIN chan[s].blkts : chan[s].blkts[p] \notin Filters
    => InOrder(s)

(* A digital filter that is accepted keeps all its coefficients, in the     *)
(* order they were read, and a decimation of its own stage.                 *)
Positions(s, types) ==
  FlattenSeq([p \in DOMAIN chan[s].blkts |->
                IF Type(<<s, p>>) \in types THEN << <<s, p>> >> ELSE <<>>])

DigitalStagesComplete ==
  \A s \in DOMAIN chan :
    /\ Accepted(s)
    /\ Positions(s, FirTypes) # <<>>
    /\ Positions(s, Filters \ FirTypes) = <<>>
    => /\ \E b \in Range(ChainOf(s)) : coeffs[b] = Positions(s, FirTypes)
       /\ \E b \in Range(ChainOf(s)) : Type(b) = "DECIMATION"

(* An accepted stage has all it needs, in the order in which it is used.    *)
StagesComplete == StageInOrder /\ DigitalStagesComplete

(* In an accepted channel the signal's units are continuous: leaving out    *)
(* stages without units, and stage 0, every stage takes in what the one     *)
(* before it puts out - unless it is a GENERIC or POLYNOMIAL stage, which   *)
(* are not compared.                                                        *)
LinearFilters == Filters \ {"GENERIC", "POLYNOMIAL"}

Compared(s) == Range(chan[s].blkts) \cap Filters # {}
                 /\ Range(chan[s].blkts) \cap Filters \subseteq LinearFilters

UnitsContinuous ==
  status = "OK" =>
    \A s, r \in DOMAIN chan :
      /\ r < s
      /\ HoldsFilter(r) /\ chan[r].seq # 0
      /\ Compared(s)
      /\ \A q \in (r + 1)..(s - 1) : ~HoldsFilter(q) \/ chan[q].seq = 0
      => chan[r].out = chan[s].in

(* Each decimation of an accepted channel is counted once in its delays,    *)
(* and what it adds for a FIR filter is computed from all the coefficients  *)
(* of its own stage: nc outlives the stage it was set in.                   *)
FirTaps(s) ==
  LET fir == Positions(s, FirTypes) IN Taps(Type(fir[1]), Len(fir))

DelaysCountedOnce ==
  status = "OK" =>
    /\ [q \in DOMAIN delays |-> delays[q].deci]
         = FlattenSeq([s \in DOMAIN chan |-> Positions(s, {"DECIMATION"})])
    /\ \A q \in DOMAIN delays :
         LET s == delays[q].deci[1]
         IN  delays[q].calc # 0 => Positions(s, FirTypes) # <<>> /\ delays[q].calc = FirTaps(s)

(* "Any break in the sequence is considered to be an error ... filter       *)
(* sequences with out of order stages are rejected" (evalresp.1 136).       *)
SequenceBreakRejected ==
  status = "OK" =>
    \A s \in 2..Len(chan) : chan[s].seq # 0 => chan[s].seq = chan[s - 1].seq + 1

(* "Missing gain in stage %d - using unit gain at 1Hz" (resp_fctns.c 556):  *)
(* the gain that is allocated for a stage is on its list afterwards.        *)
AllocatedGainLinked ==
  \A s \in allocated : <<s, 0>> \in Range(ChainOf(s))
=============================================================================
