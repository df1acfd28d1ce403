--------------------------- MODULE StageAssembly ---------------------------
(***************************************************************************)
(* read_channel_data of input.c (with read_ref): the blockettes that       *)
(* follow a channel header are read one by one and linked, through next    *)
(* pointers, into a list of stages that each hold a list of blockettes.    *)
(* Blockettes of equal stage number that follow each other share a stage;  *)
(* a reference blockette [60] brings a chain of stages of its own.         *)
(*                                                                         *)
(* The unit strings of a filter blockette are allocated by its reader into *)
(* a scratch stage (tmp_stage) and handed to the stage being built; they   *)
(* are what this module says most about.                                   *)
(*                                                                         *)
(* A blockette is named <<position, stage, response>>: stage and response  *)
(* are 0 but for those nested in a [60].  The pair of unit strings a       *)
(* filter allocates is named after it.  Fields of a blockette that decide  *)
(* nothing here are left out, and so are the three ways its reader ends:   *)
(* complete, at the end of the text, or with an error (CutAt, ReadBad).    *)
(***************************************************************************)
EXTENDS Integers, SequencesExt

CONSTANTS
  Texts,    \* the channels a behaviour may start from: sequences of blockettes
  SeqNos    \* stage sequence numbers

(* filter: [53] [54] [55] [56] [61] [62];  plain: [57] [58], which have no  *)
(* units;  ref: [60];  other: a line of a blockette nobody reads.           *)
Response == {"filter", "plain"}

RefStage == [seq : SeqNos, resps : Seq(Response)]

Blockette ==
  [kind : Response, seq : SeqNos]
    \cup [kind : {"ref"}, stages : Seq(RefStage) \ {<<>>}]
    \cup [kind : {"other"}]

ASSUME TextAssumption ==
  /\ 0 \in SeqNos
  /\ SeqNos \subseteq Nat
  /\ Texts \subseteq Seq(Blockette)

NullBlkt == <<0, 0, 0>>
NullStage == 0

VARIABLES
  text,        \* the blockettes of the channel
  ending,      \* what follows them: "B050", the next channel, or "EOF"
  k,           \* the next position to read
  pc,
  stage,       \* heap of stages, in order of allocation
  next_blkt,   \* blockette -> its next_blkt
  first_stage, this_stage, last_stage, last_blkt,
  tmp_seq,     \* tmp_stage->sequence_no
  tmp_units,   \* the unit strings tmp_stage points to
  nstages,
  read_blkt,   \* some blockette was linked
  no_units,
  last_seq_no,
  unit_frees,  \* filter -> how often its unit strings were freed
  cut          \* a reader met the end of the text and its blockette was kept

vars == <<text, ending, k, pc, stage, next_blkt, first_stage, this_stage, last_stage,
          last_blkt, tmp_seq, tmp_units, nstages, read_blkt, no_units, last_seq_no,
          unit_frees, cut>>

list == <<stage, next_blkt, first_stage, this_stage, last_stage, last_blkt, nstages,
          read_blkt, no_units, last_seq_no>>

Blkts(t) ==
  {<<p, 0, 0>> : p \in DOMAIN t}
    \cup UNION {UNION {{<<p, s, r>> : r \in 0..Len(t[p].stages[s].resps)} :
                         s \in DOMAIN t[p].stages} :
                  p \in {q \in DOMAIN t : t[q].kind = "ref"}}

NewStage(seq, first, units) ==
  [seq |-> seq, first |-> first, units |-> units, next |-> NullStage]

-----------------------------------------------------------------------------
Init ==
  /\ text \in Texts
  /\ ending \in {"B050", "EOF"}
  /\ k = 1
  /\ pc = "read_line"
  /\ stage = <<NewStage(0, NullBlkt, NullBlkt)>>
  /\ next_blkt = [b \in Blkts(text) |-> NullBlkt]
  /\ first_stage = 1
  /\ this_stage = 1
  /\ last_stage = NullStage
  /\ last_blkt = NullBlkt
  /\ tmp_seq = 0
  /\ tmp_units = NullBlkt
  /\ nstages = 1
  /\ read_blkt = FALSE
  /\ no_units = FALSE
  /\ last_seq_no = 0
  /\ unit_frees = [b \in Blkts(text) |-> 0]
  /\ cut = FALSE

AtBlockette(kinds) == pc = "read_line" /\ k <= Len(text) /\ text[k].kind \in kinds

(* A line of a blockette that is not known is skipped; tmp_stage has       *)
(* forgotten its strings all the same.                                     *)
SkipOther ==
  /\ AtBlockette({"other"})
  /\ tmp_units' = NullBlkt
  /\ k' = k + 1
  /\ UNCHANGED <<text, ending, pc, list, tmp_seq, unit_frees, cut>>

(* Mutant of Unitless: only a stage still open for units takes them.       *)
UnitlessOnlyIfMarked(sameStage) == no_units

(* Does the stage lack units when the blockette arrives?                   *)
Unitless(sameStage) == no_units \/ ~sameStage

(* Hang blockette b of stage number seq at the end of the list; a filter   *)
(* that is the first of its stage gives the stage its units.               *)
LinkBlockette(b, seq, isFilter, units) ==
  LET newStage == read_blkt /\ last_seq_no # seq
      sameStage == read_blkt /\ last_seq_no = seq
      target == IF newStage THEN Len(stage) + 1 ELSE this_stage
      linked == IF newStage
                  THEN Append([stage EXCEPT ![this_stage].next = target],
                              NewStage(seq, b, NullBlkt))
                ELSE IF sameStage THEN stage
                ELSE [stage EXCEPT ![this_stage].first = b, ![this_stage].seq = seq]
  IN  /\ stage' = IF Unitless(sameStage) /\ isFilter
                    THEN [linked EXCEPT ![target].units = units]
                    ELSE linked
      /\ no_units' = (Unitless(sameStage) /\ ~isFilter)
      /\ next_blkt' = IF sameStage THEN [next_blkt EXCEPT ![last_blkt] = b] ELSE next_blkt
      /\ this_stage' = target
      /\ last_stage' = IF sameStage THEN last_stage ELSE target
      /\ nstages' = IF newStage THEN nstages + 1 ELSE nstages
      /\ read_blkt' = TRUE
      /\ last_blkt' = b
      /\ last_seq_no' = seq
      /\ UNCHANGED first_stage

ReadFilter ==
  /\ AtBlockette({"filter"})
  /\ tmp_seq' = text[k].seq
  /\ tmp_units' = <<k, 0, 0>>
  /\ LinkBlockette(<<k, 0, 0>>, text[k].seq, TRUE, <<k, 0, 0>>)
  /\ k' = k + 1
  /\ UNCHANGED <<text, ending, pc, unit_frees, cut>>

(* [57] and [58] write their stage number to curr_seq_no, not to tmp_stage. *)
ReadPlain ==
  /\ AtBlockette({"plain"})
  /\ tmp_units' = NullBlkt
  /\ LinkBlockette(<<k, 0, 0>>, text[k].seq, FALSE, NullBlkt)
  /\ k' = k + 1
  /\ UNCHANGED <<text, ending, pc, tmp_seq, unit_frees, cut>>

-----------------------------------------------------------------------------
(* read_ref: the chain of stages of a [60], each opening with a REFERENCE   *)
(* blockette; a nested filter writes its units to its stage, over those of  *)
(* the one before it.                                                       *)
LastFilter(resps) ==
  LET F == {r \in DOMAIN resps : resps[r] = "filter"}
  IN  IF F = {} THEN 0 ELSE CHOOSE r \in F : \A q \in F : q <= r

Chain(p, stages, base) ==
  [s \in DOMAIN stages |->
     LET f == LastFilter(stages[s].resps)
     IN  [seq |-> stages[s].seq, first |-> <<p, s, 0>>,
          units |-> IF f = 0 THEN NullBlkt ELSE <<p, s, f>>,
          next |-> IF s = Len(stages) THEN NullStage ELSE base + s + 1]]

(* Mutant of ChainLinks: the last response of a stage is not linked.       *)
ChainLinksShort(p, stages) ==
  [b \in DOMAIN next_blkt |->
     IF b[1] = p /\ b[2] \in DOMAIN stages /\ b[3] + 1 < Len(stages[b[2]].resps)
       THEN <<p, b[2], b[3] + 1>>
       ELSE next_blkt[b]]

(* next_blkt once the responses of the chain are linked.                    *)
ChainLinks(p, stages) ==
  [b \in DOMAIN next_blkt |->
     IF b[1] = p /\ b[2] \in DOMAIN stages /\ b[3] < Len(stages[b[2]].resps)
       THEN <<p, b[2], b[3] + 1>>
       ELSE next_blkt[b]]

(* Mutant of ChainAdds: the first stage of the chain is not counted.       *)
ChainAddsRest(m, newStage) == m - 1

(* Stages a chain of m adds to the list.                                    *)
ChainAdds(m, newStage) == (m - 1) + (IF newStage THEN 1 ELSE 0)

(* A [60] as first blockette replaces the empty stage the channel began     *)
(* with; with a new stage number its chain follows the last stage; with the *)
(* number of the current stage, its first stage's blockettes continue that  *)
(* stage and only the rest of the chain follows.  tmp_stage is not used,    *)
(* and no_units is left alone.                                              *)
LinkChain(p, stages) ==
  LET base == Len(stage)
      m == Len(stages)
      chained == stage \o Chain(p, stages, base)
      links == ChainLinks(p, stages)
      sameStage == read_blkt /\ last_seq_no = stages[1].seq
      newStage == read_blkt /\ ~sameStage
  IN  /\ stage' = IF newStage THEN [chained EXCEPT ![last_stage].next = base + 1]
                  ELSE IF sameStage /\ m > 1 THEN [chained EXCEPT ![this_stage].next = base + 2]
                  ELSE chained
      /\ next_blkt' = IF sameStage THEN [links EXCEPT ![last_blkt] = <<p, 1, 0>>] ELSE links
      /\ first_stage' = IF read_blkt THEN first_stage ELSE base + 1
      /\ this_stage' = IF sameStage /\ m = 1 THEN this_stage ELSE base + m
      /\ last_stage' = this_stage'
      /\ nstages' = nstages + ChainAdds(m, newStage)
      /\ last_blkt' = <<p, m, Len(stages[m].resps)>>
      /\ last_seq_no' = IF sameStage /\ m = 1 THEN stage[this_stage].seq ELSE stages[m].seq
      /\ read_blkt' = TRUE
      /\ UNCHANGED no_units

ReadRef ==
  /\ AtBlockette({"ref"})
  /\ tmp_units' = NullBlkt
  /\ LinkChain(k, text[k].stages)
  /\ k' = k + 1
  /\ UNCHANGED <<text, ending, pc, tmp_seq, unit_frees, cut>>

-----------------------------------------------------------------------------
(* A reader that misses a field reads on to the end of the text, and its   *)
(* EVALRESP_EOF is not an error: what it has read of the blockette is      *)
(* linked, and everything after it in the text is gone.  Before its stage  *)
(* number is read, a filter is filed under the number tmp_stage still has; *)
(* before its units are, it gives its stage none.                          *)
CutAt(got) ==
  /\ AtBlockette(Response)
  /\ LET isFilter == text[k].kind = "filter"
         seq == IF isFilter /\ got = "type" THEN tmp_seq ELSE text[k].seq
         units == IF isFilter /\ got = "units" THEN <<k, 0, 0>> ELSE NullBlkt
     IN  /\ tmp_seq' = IF isFilter THEN seq ELSE tmp_seq
         /\ tmp_units' = units
         /\ LinkBlockette(<<k, 0, 0>>, seq, isFilter, units)
  /\ k' = Len(text) + 1
  /\ ending' = "EOF"
  /\ cut' = TRUE
  /\ UNCHANGED <<text, pc, unit_frees>>

(* The same in a [60]: a shorter chain is linked.  The text is cut between  *)
(* two stages only: what read_ref leaves when it ends in the middle of one, *)
(* a last stage without some of its responses, perhaps with the units of    *)
(* one that was not linked or without its number, is left out.              *)
CutRef(m) ==
  /\ AtBlockette({"ref"})
  /\ tmp_units' = NullBlkt
  /\ LinkChain(k, SubSeq(text[k].stages, 1, m))
  /\ k' = Len(text) + 1
  /\ ending' = "EOF"
  /\ cut' = TRUE
  /\ UNCHANGED <<text, pc, tmp_seq, unit_frees>>

(* A field that does not parse: the channel built so far is freed by        *)
(* collect_channels (FreeChannel below), the scratch stage is not, nor the  *)
(* unit strings it may have taken from the blockette.                       *)
ReadBad ==
  /\ AtBlockette(Response \cup {"ref"})
  /\ tmp_units' \in {NullBlkt} \cup (IF text[k].kind = "filter" THEN {<<k, 0, 0>>} ELSE {})
  /\ pc' = "failed"
  /\ UNCHANGED <<text, ending, k, list, tmp_seq, unit_frees, cut>>

(* free_stages (tmp_stage): the strings it points to go with it.            *)
FreeScratch ==
  unit_frees' = [b \in DOMAIN unit_frees |->
                   IF b = tmp_units THEN unit_frees[b] + 1 ELSE unit_frees[b]]

(* A line without prefix or value, wherever it stands.                      *)
BadLine ==
  /\ pc = "read_line"
  /\ FreeScratch
  /\ pc' = "failed"
  /\ UNCHANGED <<text, ending, k, list, tmp_seq, tmp_units, cut>>

(* The next channel or the end of the text.  When nothing at all followed  *)
(* the header, the verdict hangs on first_field, which was never set.       *)
LeaveLoop ==
  /\ pc = "read_line"
  /\ k > Len(text)
  /\ FreeScratch
  /\ pc' \in IF text = <<>> /\ ending = "EOF" THEN {"channel", "failed"} ELSE {"channel"}
  /\ UNCHANGED <<text, ending, k, list, tmp_seq, tmp_units, cut>>

-----------------------------------------------------------------------------
(* Following the pointers from a first element: at most max steps, so that  *)
(* a cycle would show as a path that is too long.                           *)
Path(from, null, next, max) ==
  LET path[n \in 0..max] ==
        IF n = 0 THEN <<from>>
        ELSE LET sofar == path[n - 1]
                 after == next[Last(sofar)]
             IN  IF after = null THEN sofar ELSE Append(sofar, after)
  IN  path[max]

StageList ==
  Path(first_stage, NullStage, [s \in DOMAIN stage |-> stage[s].next], Len(stage))

BlktsFrom(b) ==
  IF b = NullBlkt THEN <<>> ELSE Path(b, NullBlkt, next_blkt, Cardinality(DOMAIN next_blkt))

(* Mutant of FreeChannel: the reader and its caller both free the channel.  *)
FreeChannelTwice ==
  /\ pc \in {"channel", "failed", "freed"}
  /\ unit_frees' = [b \in DOMAIN unit_frees |->
                      unit_frees[b]
                        + Cardinality({s \in Range(StageList) : stage[s].units = b})]
  /\ pc' = "freed"
  /\ UNCHANGED <<text, ending, k, list, tmp_seq, tmp_units, cut>>

(* free_stages on the channel, after its use or after a failure.           *)
FreeChannel ==
  /\ pc \in {"channel", "failed"}
  /\ unit_frees' = [b \in DOMAIN unit_frees |->
                      unit_frees[b]
                        + Cardinality({s \in Range(StageList) : stage[s].units = b})]
  /\ pc' = "freed"
  /\ UNCHANGED <<text, ending, k, list, tmp_seq, tmp_units, cut>>

Next ==
  \/ SkipOther \/ ReadFilter \/ ReadPlain \/ ReadRef
  \/ \E got \in {"type", "seq", "units"} : CutAt(got)
  \/ AtBlockette({"ref"}) /\ \E m \in DOMAIN text[k].stages : CutRef(m)
  \/ ReadBad \/ BadLine \/ LeaveLoop \/ FreeChannel

Spec == Init /\ [][Next]_vars

-----------------------------------------------------------------------------
TypeOK ==
  /\ text \in Texts
  /\ ending \in {"B050", "EOF"}
  /\ k \in 1..(Len(text) + 1)
  /\ pc \in {"read_line", "channel", "failed", "freed"}
  /\ stage \in Seq([seq : SeqNos, first : Blkts(text) \cup {NullBlkt},
                    units : Blkts(text) \cup {NullBlkt}, next : 0..Len(stage)])
  /\ next_blkt \in [Blkts(text) -> Blkts(text) \cup {NullBlkt}]
  /\ first_stage \in DOMAIN stage
  /\ this_stage \in DOMAIN stage
  /\ last_stage \in 0..Len(stage)
  /\ last_blkt \in Blkts(text) \cup {NullBlkt}
  /\ tmp_seq \in SeqNos
  /\ tmp_units \in Blkts(text) \cup {NullBlkt}
  /\ nstages \in Nat
  /\ read_blkt \in BOOLEAN
  /\ no_units \in BOOLEAN
  /\ last_seq_no \in SeqNos
  /\ unit_frees \in [Blkts(text) -> Nat]
  /\ cut \in BOOLEAN

(* What the list should be, straight from the text: runs of equal stage    *)
(* numbers, a [60] continuing the run of its first stage's number.         *)
Extend(groups, g) ==
  IF groups # <<>> /\ Last(groups).seq = g.seq
    THEN Front(groups) \o <<[seq |-> g.seq, blkts |-> Last(groups).blkts \o g.blkts]>>
    ELSE Append(groups, g)

RefGroups(t, p) ==
  [s \in DOMAIN t[p].stages |->
     [seq |-> t[p].stages[s].seq,
      blkts |-> [r \in 1..(Len(t[p].stages[s].resps) + 1) |-> <<p, s, r - 1>>]]]

AddToGroups(t, groups, p) ==
  CASE t[p].kind = "other" -> groups
    [] t[p].kind = "ref" -> Extend(groups, RefGroups(t, p)[1]) \o Tail(RefGroups(t, p))
    [] OTHER -> Extend(groups, [seq |-> t[p].seq, blkts |-> <<<<p, 0, 0>>>>])

Groups(t, upto) ==
  LET groups[n \in 0..upto] == IF n = 0 THEN <<>> ELSE AddToGroups(t, groups[n - 1], n)
  IN  groups[upto]

(* Whatever the mix of blockettes, the pointers spell the stages of the     *)
(* file: nothing is lost, repeated or reordered, and the stage boundaries   *)
(* are where the stage number changes.                                      *)
ListIsFaithful ==
  read_blkt /\ ~cut =>
    [s \in DOMAIN StageList |->
       [seq |-> stage[StageList[s]].seq, blkts |-> BlktsFrom(stage[StageList[s]].first)]]
      = Groups(text, k - 1)

(* nstages, which sizes the later loops, counts the stages of the list.     *)
CountIsLength == nstages = Len(StageList)

IsFilter(t, b) ==
  IF b[3] = 0 THEN b[2] = 0 /\ t[b[1]].kind = "filter"
              ELSE t[b[1]].stages[b[2]].resps[b[3]] = "filter"

(* A stage that holds a filter has the units of one of its own filters, and *)
(* no two stages own the same strings.  Stages that blockettes from inside  *)
(* and outside a [60] share are excepted: there the units can be lost.      *)
Home(b) == IF b[2] > 0 THEN <<b[1], b[2]>> ELSE <<0, 0>>

Unmixed(blkts) == \A b, c \in blkts : Home(b) = Home(c)

UnitsFromOwnFilter ==
  ~cut =>
    \A s \in Range(StageList) :
      LET blkts == Range(BlktsFrom(stage[s].first))
          own == {b \in blkts : IsFilter(text, b)}
      IN  Unmixed(blkts) =>
            stage[s].units \in IF own = {} THEN {NullBlkt} ELSE own

(* No unit string is freed twice, and none is freed while its channel is in *)
(* use (ChangeLog 12, "Avoid double-free in free_stages()").                *)
UnitsOwnedOnce ==
  /\ \A b \in DOMAIN unit_frees : unit_frees[b] <= 1
  /\ pc = "channel" => \A s \in Range(StageList) :
       stage[s].units # NullBlkt => unit_frees[stage[s].units] = 0

(* The same, when the last line read before the end was not a filter's.     *)
UnitsOwnedOnceUnlessFilterLast == tmp_units = NullBlkt => UnitsOwnedOnce

(* The list spells the stages of the file, and nstages is its length.      *)
ListKept == ListIsFaithful /\ CountIsLength

(* Each stage owns the unit strings of its own filter, and alone.           *)
UnitsOwned == UnitsFromOwnFilter /\ UnitsOwnedOnceUnlessFilterLast
=============================================================================
