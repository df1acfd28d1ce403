----------------------------- MODULE RespReader ----------------------------
(***************************************************************************)
(* collect_channels of input.c and everything it reads a RESP text with:   *)
(* read_line, find_line, the header and the readers of the blockettes.     *)
(*                                                                         *)
(* A reader is the sequence of the fields it asks for.  Each is searched   *)
(* from where the reader stands, so a field that is missing is found in a  *)
(* later blockette, stage or channel, or ends the text; a count read on    *)
(* the way decides how many rows are asked for.                            *)
(***************************************************************************)
EXTENDS RespText

CONSTANTS
  Sources,   \* texts as they should be: channels of blockettes of lines, the
             \* first blockette of a channel being its header
  Harms      \* what may have happened to one line of a text

ASSUME SourcesAssumption ==
  /\ Sources \subseteq Seq(Seq(Seq(Line)))
  /\ Harms \subseteq {"lost", "bad", "empty", "prefix", "fewer", "more"}

VARIABLES
  source,
  harm,         \* [at, how]: the line that was harmed, or at = 0
  text,         \* the lines that are read
  pos,          \* the next position to read (seed)
  pc,
  first_line,   \* the position of the line that ended the last channel, or 0
  first_field,  \* field number of the last line read by the data loop, or Unset
  todo,         \* the fields the current reader still asks for
  cur,          \* what the current reader has read
  format,       \* read_list: 1 if the rows are numbered
  tmp_seq,      \* tmp_stage->sequence_no
  blkts,        \* the blockettes of the current channel
  channels

vars == <<source, harm, text, pos, pc, first_line, first_field, todo, cur, format, tmp_seq,
          blkts, channels>>

input == <<source, harm, text>>

Unset == -1
Known == {53, 54, 55, 56, 57, 58, 60, 61, 62}
Plain == {57, 58}

-----------------------------------------------------------------------------
(* The fields a reader asks for.  A role says what is made of the field; a  *)
(* row is asked for as often as the count of its group says.                *)
Role == {"letter", "word", "line", "number", "seq", "count", "no_count", "some_count",
         "each", "each_line", "row", "columns", "each_list", "list_row",
         "nstages", "ref_seq", "responses", "again", "response", "location"}

Item(b, f, role, g) == [blkt |-> b, fld |-> f, role |-> role, group |-> g]

(* Fields f0, f0 + 1, ... in these roles.                                   *)
Run(b, f0, roles) == [i \in DOMAIN roles |-> Item(b, f0 + i - 1, roles[i], 0)]

(* read_units: the units of input and output.                              *)
Units(b, f) == Run(b, f, <<"line", "line">>)

Header ==
  <<Item(50, 3, "word", 0), Item(50, 16, "word", 0), Item(52, 3, "location", 0),
    Item(52, 22, "line", 0), Item(52, 23, "line", 0)>>

(* In the readers below b is the number of the blockette they look for and  *)
(* f the first field they ask for behind letter and stage number.           *)

(* Opens with a letter; from F03 the stage number follows.                  *)
LetterFirst(five, b) ==
  IF five THEN <<Item(b, 5, "letter", 0)>> ELSE Run(b, 3, <<"letter", "seq">>)

(* Opens with the stage number, which is not there from F05.                *)
SeqFirst(five, b) == IF five THEN <<>> ELSE <<Item(b, 3, "seq", 0)>>

(* read_pz: the poles are counted before the zeros are listed.              *)
PoleZero(b, f) ==
  Units(b, f) \o Run(b, f + 2, <<"number", "number">>)
    \o <<Item(b, f + 4, "count", 1), Item(b, f + 9, "count", 2),
         Item(b, f + 5, "each", 1), Item(b, f + 10, "each", 2)>>

(* read_iir_coeff *)
IirCoeff(b, f) ==
  Units(b, f)
    \o <<Item(b, f + 2, "count", 1), Item(b, f + 5, "some_count", 2),
         Item(b, f + 3, "each", 1), Item(b, f + 6, "each", 2)>>

(* read_coeff: no denominators.                                            *)
Coeff(b, f) ==
  Units(b, f)
    \o <<Item(b, f + 2, "count", 1), Item(b, f + 5, "no_count", 2), Item(b, f + 3, "each", 1)>>

(* read_list: whether the rows of a [55] are numbered is looked up first.   *)
ResponseList(b, f) ==
  Units(b, f) \o <<Item(b, f + 2, "count", 1)>>
    \o (IF b = 55 THEN <<Item(b, f + 3, "columns", 0)>> ELSE <<>>)
    \o <<Item(b, f + 3, "each_list", 1)>>

(* read_generic *)
Generic(b, f) ==
  Units(b, f) \o <<Item(b, f + 2, "count", 1), Item(b, f + 3, "each", 1)>>

(* read_deci *)
Decimation(b, f) == Run(b, f, <<"number", "number", "number", "number", "number">>)

(* read_gain: the history is counted and passed over.                       *)
Gain(b, f) ==
  Run(b, f, <<"number", "number">>) \o <<Item(b, f + 2, "count", 1), Item(b, f + 3, "each_line", 1)>>

(* Mutant of Fir: a reader that goes on at the name of the filter.          *)
FirByName(b, f) ==
  <<Item(b, f - 1, "letter", 0)>> \o Units(b, f)
    \o <<Item(b, f + 2, "count", 1), Item(b, f + 3, "each", 1)>>

(* read_fir: the name of the filter is not read; f is its symmetry.         *)
Fir(b, f) ==
  <<Item(b, f, "letter", 0)>> \o Units(b, f + 1)
    \o <<Item(b, f + 3, "count", 1), Item(b, f + 4, "each", 1)>>

(* read_polynomial *)
Polynomial(b, f) ==
  Units(b, f)
    \o Run(b, f + 2, <<"word", "word", "number", "number", "number", "number", "number">>)
    \o <<Item(b, f + 9, "count", 1), Item(b, f + 10, "each", 1)>>

(* read_ref: the stages, each with its responses, once their number is known.*)
Reference == <<Item(60, 3, "nstages", 0)>>

RefStages(n) ==
  FlattenSeq([i \in 1..n |->
    Run(60, 4, <<"ref_seq", "responses">>)
      \o (IF i < n THEN <<Item(60, 3, "again", n)>> ELSE <<>>)])

(* The reader of blockette k.  One that begins with F05 is taken for nested  *)
(* in a [60]: it has no stage number, and its lines are those of a [4x].     *)
(* iir: what is_iir_coeffs says; it is not asked in a [60].                  *)
Reader(k, five, iir) ==
  LET b == IF ~five THEN k ELSE IF k = 61 THEN 41 ELSE IF k = 62 THEN 42 ELSE k - 10
      f == IF five THEN 6 ELSE 5
      s == IF five THEN 5 ELSE 4
  IN  CASE k = 53 -> LetterFirst(five, b) \o PoleZero(b, f)
        [] k = 54 -> LetterFirst(five, b) \o (IF iir THEN IirCoeff(b, f) ELSE Coeff(b, f))
        [] k = 55 -> SeqFirst(five, b) \o ResponseList(b, s)
        [] k = 56 -> SeqFirst(five, b) \o Generic(b, s)
        [] k = 57 -> SeqFirst(five, b) \o Decimation(b, s)
        [] k = 58 -> SeqFirst(five, b) \o Gain(b, s)
        [] k = 60 -> Reference
        [] k = 61 -> SeqFirst(five, b) \o Fir(b, 5)
        [] k = 62 -> LetterFirst(five, b) \o Polynomial(b, f)

(* The blockette a response of a [60] is read as: [43] as [53], [41] as [61].*)
BaseOf(b) == IF b = 41 THEN 61 ELSE b + 10

-----------------------------------------------------------------------------
Flat(src) == FlattenSeq([i \in DOMAIN src |-> FlattenSeq(src[i])])

(* A line is lost, garbled or miscounted by one.                           *)
Harmed(l, how) ==
  CASE how = "lost" -> CommentLine
    [] how = "bad" -> [l EXCEPT !.form = "bad"]
    [] how = "empty" -> [l EXCEPT !.form = "empty"]
    [] how = "prefix" -> [l EXCEPT !.blkt = BadPrefix]
    [] how = "fewer" -> [l EXCEPT !.val = @ - 1]
    [] how = "more" -> [l EXCEPT !.val = @ + 1]

(* The fields that count rows.                                              *)
Counts == {<<53, 9>>, <<53, 14>>, <<54, 7>>, <<54, 10>>, <<55, 6>>, <<56, 6>>, <<58, 6>>,
           <<61, 8>>, <<62, 14>>}

MayBe(l, how) ==
  /\ l.blkt # Comment
  /\ how \in {"fewer", "more"} => <<l.blkt, l.fld>> \in Counts
  /\ how = "fewer" => l.val > 0

Init ==
  /\ source \in Sources
  /\ \/ harm = [at |-> 0, how |-> "none"] /\ text = Flat(source)
     \/ \E at \in DOMAIN Flat(source), how \in Harms :
          /\ MayBe(Flat(source)[at], how)
          /\ harm = [at |-> at, how |-> how]
          /\ text = [Flat(source) EXCEPT ![at] = Harmed(@, how)]
  /\ pos = 1
  /\ pc = "channels"
  /\ first_line = 0
  /\ first_field = Unset
  /\ todo = <<>>
  /\ cur = [blkt |-> 0, seqs |-> <<>>, lines |-> <<>>, complete |-> TRUE]
  /\ format = 0
  /\ tmp_seq = 0
  /\ blkts = <<>>
  /\ channels = <<>>

Fail ==
  /\ pc' = "failed"
  /\ UNCHANGED <<input, pos, first_line, first_field, todo, cur, format, tmp_seq, blkts, channels>>

(* collect_channels: as long as there is text, and be it comments, another  *)
(* channel is read; its station may have been read with the last one.       *)
BeginChannel ==
  /\ pc = "channels"
  /\ pos <= Len(text)
  /\ pc' = "header"
  /\ todo' = IF first_line = 0 THEN Header ELSE Tail(Header)
  /\ cur' = [blkt |-> 50, seqs |-> <<>>,
             lines |-> IF first_line = 0 THEN <<>> ELSE <<first_line>>, complete |-> TRUE]
  /\ UNCHANGED <<input, pos, first_line, first_field, format, tmp_seq, blkts, channels>>

AllRead ==
  /\ pc = "channels"
  /\ pos > Len(text)
  /\ pc' = "done"
  /\ UNCHANGED <<input, pos, first_line, first_field, todo, cur, format, tmp_seq, blkts, channels>>

-----------------------------------------------------------------------------
(* Can line l be taken in this role?                                        *)
Typed == {"letter", "number", "seq", "count", "no_count", "some_count", "each", "row",
          "nstages", "ref_seq", "responses", "again"}

(* Mutant of Acceptable: nobody asks is_real or is_int.                     *)
AcceptableText(l, item) == l.blkt # BadPrefix /\ l.form # "empty"

Acceptable(l, item) ==
  /\ l.blkt # BadPrefix
  /\ l.form # "empty"
  /\ item.role \in Typed => l.form = "good"
  /\ item.role = "no_count" => l.val = 0
  /\ item.role = "some_count" => l.val # 0
  /\ item.role = "again" => l.val = item.group
  /\ item.role = "columns" => l.val - 5 <= 1
  /\ item.role = "list_row" => l.form = "good" /\ 3 + format < l.val

(* Ask n times for the rows of group g.                                     *)
AskRows(items, g, n) ==
  FlattenSeq([i \in DOMAIN items |->
    IF items[i].group # g THEN <<items[i]>>
    ELSE LET role == CASE items[i].role = "each" -> "row"
                       [] items[i].role = "each_line" -> "line"
                       [] items[i].role = "each_list" -> "list_row"
                       [] OTHER -> items[i].role
         IN  IF role = items[i].role THEN <<items[i]>>
             ELSE [j \in 1..n |-> [items[i] EXCEPT !.role = role]]])

(* What is asked for once line l was taken for the first field of items.    *)
Rest(items, l) ==
  LET rest == Tail(items)
  IN  CASE items[1].role \in {"count", "some_count"} -> AskRows(rest, items[1].group, l.val)
        [] items[1].role = "nstages" -> RefStages(l.val)
        [] items[1].role = "responses" ->
             [i \in 1..l.val |-> Item(0, 0, "response", 0)] \o rest
        [] OTHER -> rest

(* The stage numbers known once line l was read in this role.               *)
Numbered(seqs, role, l) ==
  CASE role = "seq" -> [seqs EXCEPT ![Len(seqs)] = l.val]
    [] role = "ref_seq" -> Append(seqs, l.val)
    [] OTHER -> seqs

Looking == pc \in {"header", "reading"} /\ todo # <<>>

Sought == FindLine(text, pos, todo[1].blkt, todo[1].fld)

(* find_line and find_field with what the reader does of the line found.    *)
ReadField ==
  /\ Looking
  /\ todo[1].role \notin {"columns", "location", "response"}
  /\ Sought # 0
  /\ Acceptable(text[Sought], todo[1])
  /\ pos' = Sought + 1
  /\ todo' = Rest(todo, text[Sought])
  /\ cur' = [cur EXCEPT !.seqs = Numbered(@, todo[1].role, text[Sought]),
                        !.lines = Append(@, Sought)]
  /\ UNCHANGED <<input, pc, first_line, first_field, format, tmp_seq, blkts, channels>>

(* read_list looks at the first row without reading it.                     *)
Columns ==
  /\ Looking
  /\ todo[1].role = "columns"
  /\ Sought # 0
  /\ Acceptable(text[Sought], todo[1])
  /\ format' = text[Sought].val - 5
  /\ todo' = Tail(todo)
  /\ UNCHANGED <<input, pos, pc, first_line, first_field, cur, tmp_seq, blkts, channels>>

BadField ==
  /\ Looking
  /\ todo[1].role \notin {"location", "response"}
  /\ Sought # 0
  /\ ~Acceptable(text[Sought], todo[1])
  /\ Fail

(* Mutant of NoField: the channel starts again without its blockettes.      *)
NoFieldForgets ==
  /\ Looking
  /\ todo[1].role \notin {"location", "response"}
  /\ Sought = 0
  /\ IF pc = "header" THEN Fail
     ELSE /\ todo' = <<>>
          /\ cur' = [cur EXCEPT !.complete = FALSE]
          /\ pos' = Len(text) + 1
          /\ blkts' = <<>>
          /\ UNCHANGED <<input, pc, first_line, first_field, format, tmp_seq, channels>>

(* The field is not in the rest of the text.  In a blockette that is not an *)
(* error: what was read of it is kept.  Only looking at the rows of a list  *)
(* leaves the text where it is.                                             *)
NoField ==
  /\ Looking
  /\ todo[1].role \notin {"location", "response"}
  /\ Sought = 0
  /\ IF pc = "header" THEN Fail
     ELSE /\ todo' = <<>>
          /\ cur' = [cur EXCEPT !.complete = FALSE]
          /\ pos' = IF todo[1].role = "columns" THEN pos ELSE Len(text) + 1
          /\ UNCHANGED <<input, pc, first_line, first_field, format, tmp_seq, blkts, channels>>

-----------------------------------------------------------------------------
(* The location may be empty, or missing: then the line is the channel's.   *)
(* On a line without prefix the numbers compared were never set.            *)
Location ==
  /\ pc = "header"
  /\ todo # <<>>
  /\ todo[1].role = "location"
  /\ LET p == NextLine(text, pos)
         l == text[p]
         found(f) == IF l.blkt = BadPrefix THEN TRUE ELSE l.blkt = 52 /\ l.fld = f
         take(rest) == /\ pos' = p + 1
                       /\ todo' = rest
                       /\ cur' = [cur EXCEPT !.lines = Append(@, p)]
                       /\ UNCHANGED <<input, pc, first_line, first_field, format, tmp_seq,
                                      blkts, channels>>
     IN  \/ p # 0 /\ found(3) /\ take(<<Item(52, 4, "word", 0)>> \o Tail(todo))
         \/ p # 0 /\ found(4) /\ take(Tail(todo))
         \/ (p = 0 \/ ~(l.blkt = 52 /\ l.fld \in {3, 4})) /\ Fail

HeaderRead ==
  /\ pc = "header"
  /\ todo = <<>>
  /\ pc' = "data"
  /\ first_field' = Unset
  /\ tmp_seq' = 0
  /\ blkts' = <<cur>>
  /\ UNCHANGED <<input, pos, first_line, todo, cur, format, channels>>

-----------------------------------------------------------------------------
(* read_channel_data: the line decides the reader and is its first field.   *)
AtLine(p) == pc = "data" /\ p # 0 /\ text[p].blkt # BadPrefix /\ text[p].form # "empty"

StartBlockette ==
  LET p == NextLine(text, pos)
      l == text[p]
      items == Reader(l.blkt, l.fld = 5, l.blkt = 54 /\ IsIirCoeffs(text, p + 1))
      seqs == IF l.blkt = 60 THEN <<>> ELSE <<IF l.blkt \in Plain THEN 0 ELSE tmp_seq>>
  IN  /\ AtLine(p)
      /\ l.blkt \in Known
      /\ IF l.fld \in (IF l.blkt = 60 THEN {3} ELSE {3, 5}) /\ Acceptable(l, items[1])
           THEN /\ pc' = "reading"
                /\ pos' = p + 1
                /\ first_field' = l.fld
                /\ todo' = Rest(items, l)
                /\ cur' = [blkt |-> l.blkt, seqs |-> Numbered(seqs, items[1].role, l),
                           lines |-> <<p>>, complete |-> TRUE]
                /\ format' = 0
                /\ UNCHANGED <<input, first_line, tmp_seq, blkts, channels>>
           ELSE Fail

(* Mutant of SkipUnknown: the line is looked at again.                      *)
SkipUnknownNever ==
  LET p == NextLine(text, pos)
  IN  /\ AtLine(p)
      /\ text[p].blkt \notin Known \cup {50}
      /\ pos' = p
      /\ first_field' = text[p].fld
      /\ UNCHANGED <<input, pc, first_line, todo, cur, format, tmp_seq, blkts, channels>>

SkipUnknown ==
  LET p == NextLine(text, pos)
  IN  /\ AtLine(p)
      /\ text[p].blkt \notin Known \cup {50}
      /\ pos' = p + 1
      /\ first_field' = text[p].fld
      /\ UNCHANGED <<input, pc, first_line, todo, cur, format, tmp_seq, blkts, channels>>

(* read_ref: the next line, whatever it is, opens a response.               *)
Response ==
  /\ Looking
  /\ todo[1].role = "response"
  /\ LET p == NextLine(text, pos)
         l == text[p]
         k == BaseOf(l.blkt)
         items == Reader(k, l.fld = 5, FALSE)
         first == IF k \in Plain /\ l.fld = 3 THEN Item(l.blkt, 3, "line", 0) ELSE items[1]
     IN  CASE p = 0 ->
                /\ todo' = <<>>
                /\ cur' = [cur EXCEPT !.complete = FALSE]
                /\ pos' = Len(text) + 1
                /\ UNCHANGED <<input, pc, first_line, first_field, format, tmp_seq, blkts, channels>>
           [] p # 0 /\ l.blkt \in {41} \cup 43..48 /\ l.fld \in {3, 5} /\ Acceptable(l, first) ->
                /\ pos' = p + 1
                /\ todo' = Rest(<<first>> \o Tail(items), l) \o Tail(todo)
                /\ cur' = [cur EXCEPT !.seqs = Numbered(@, first.role, l), !.lines = Append(@, p)]
                /\ format' = 0
                /\ UNCHANGED <<input, pc, first_line, first_field, tmp_seq, blkts, channels>>
           [] OTHER -> Fail

(* The blockette goes to the channel, complete or not.  [57] and [58] keep  *)
(* their stage number to themselves, and a [60] its own.                    *)
Deliver ==
  /\ pc = "reading"
  /\ todo = <<>>
  /\ pc' = "data"
  /\ blkts' = Append(blkts, cur)
  /\ tmp_seq' = IF cur.blkt \in Plain \cup {60} THEN tmp_seq ELSE cur.seqs[1]
  /\ UNCHANGED <<input, pos, first_line, first_field, todo, cur, format, channels>>

BadLine ==
  LET p == NextLine(text, pos)
  IN  /\ pc = "data"
      /\ p # 0
      /\ text[p].blkt = BadPrefix \/ text[p].form = "empty"
      /\ Fail

(* Mutant of ChannelDone: the line that is kept is not passed over.         *)
ChannelDoneKeeping ==
  LET p == NextLine(text, pos)
      fld == IF p = 0 THEN first_field ELSE text[p].fld
  IN  /\ pc = "data"
      /\ p # 0 => AtLine(p) /\ text[p].blkt = 50
      /\ \/ /\ fld # 0
            /\ pc' = "channels"
            /\ pos' = IF p = 0 THEN Len(text) + 1 ELSE p
            /\ first_line' = p
            /\ channels' = Append(channels, blkts)
            /\ blkts' = <<>>
            /\ UNCHANGED <<input, first_field, todo, cur, format, tmp_seq>>
         \/ fld \in {0, Unset} /\ Fail

(* Blockette 50, whatever its field, is kept for the next channel.  At the   *)
(* end of the text the verdict hangs on the field number read last, or on   *)
(* one never set.                                                           *)
ChannelDone ==
  LET p == NextLine(text, pos)
      fld == IF p = 0 THEN first_field ELSE text[p].fld
  IN  /\ pc = "data"
      /\ p # 0 => AtLine(p) /\ text[p].blkt = 50
      /\ \/ /\ fld # 0
            /\ pc' = "channels"
            /\ pos' = IF p = 0 THEN Len(text) + 1 ELSE p + 1
            /\ first_line' = p
            /\ channels' = Append(channels, blkts)
            /\ blkts' = <<>>
            /\ UNCHANGED <<input, first_field, todo, cur, format, tmp_seq>>
         \/ fld \in {0, Unset} /\ Fail

Next ==
  \/ BeginChannel \/ AllRead \/ ReadField \/ Columns \/ BadField \/ NoField \/ Location
  \/ HeaderRead \/ StartBlockette \/ SkipUnknown \/ Response \/ Deliver \/ BadLine
  \/ ChannelDone

(* One thread reads and never waits: it goes on as long as there is a step.  *)
Spec == Init /\ [][Next]_vars /\ WF_vars(Next)

-----------------------------------------------------------------------------
(* What a text says, straight from its lines.                              *)
Finished == pc \in {"done", "failed"}

StageField(b) == IF b \in {53, 54, 60, 62} THEN 4 ELSE 3

Before(i, j) == Len(Flat(SubSeq(source, 1, i - 1))) + Len(FlattenSeq(SubSeq(source[i], 1, j - 1)))

(* The positions of the j-th blockette of channel i; the name of a filter   *)
(* is not read.                                                             *)
Span(i, j) == Before(i, j) + 1 .. Before(i, j) + Len(source[i][j])

IsRead(l) == l.blkt \in 41..62 \ {59} /\ ~(l.blkt = 61 /\ l.fld = 4)

Meaning(i, j) ==
  LET blk == source[i][j]
      base == Before(i, j)
      read == SelectSeq([p \in DOMAIN blk |-> p], LAMBDA p : IsRead(blk[p]))
      b == blk[read[1]].blkt
      stages == SelectSeq(blk, LAMBDA l : l.blkt = b /\ l.fld = StageField(b))
  IN  [blkt |-> b,
       seqs |-> IF b = 50 THEN <<>> ELSE [s \in DOMAIN stages |-> stages[s].val],
       lines |-> [n \in DOMAIN read |-> base + read[n]]]

Reading(r) == [blkt |-> r.blkt, seqs |-> r.seqs, lines |-> r.lines]

Intended == [i \in DOMAIN source |-> [j \in DOMAIN source[i] |-> Meaning(i, j)]]

(* All that has been read so far.                                           *)
Got == IF blkts = <<>> THEN channels ELSE Append(channels, blkts)

-----------------------------------------------------------------------------
TypeOK ==
  /\ source \in Sources
  /\ harm.at \in 0..Len(text)
  /\ text \in Seq(Line)
  /\ pos \in 1..(Len(text) + 1)
  /\ pc \in {"channels", "header", "data", "reading", "done", "failed"}
  /\ first_line \in 0..Len(text)
  /\ first_field \in 0..23 \cup {Unset}
  /\ todo \in Seq([blkt : {0} \cup 41..62, fld : 0..23, role : Role, group : Nat])
  /\ cur.seqs \in Seq(Nat)
  /\ cur.lines \in Seq(DOMAIN text)
  /\ format \in Int
  /\ tmp_seq \in Nat

(* A text nothing has happened to is accepted, and every blockette is read  *)
(* from its own lines, all of them, under its own stage number: the order   *)
(* in which the readers ask for fields is one in which they stand.          *)
WholeTextRead ==
  Finished /\ harm.at = 0
    => pc = "done" /\ [i \in DOMAIN channels |-> [j \in DOMAIN channels[i] |->
                         Reading(channels[i][j])]] = Intended

(* Whatever happens to a line, the blockettes before its own were read from *)
(* their own lines, and are still there at the end.                         *)
EarlierUnharmed ==
  pc \in {"data", "done"} /\ harm.at # 0 =>
    \A i \in DOMAIN source : \A j \in DOMAIN source[i] :
      /\ pc = "done" \/ (i = Len(Got) /\ j = Len(Got[i]))
      /\ harm.at > Before(i, j) + Len(source[i][j])
      => /\ i \in DOMAIN Got /\ j \in DOMAIN Got[i]
         /\ Reading(Got[i][j]) = Meaning(i, j)

(* A reader that misses a line reads on, into other blockettes or to the    *)
(* end of the text, and neither is an error.                                *)
Incomplete == \E i \in DOMAIN channels : \E r \in Range(channels[i]) : ~r.complete

Borrowed ==
  \E i \in DOMAIN channels : \E r \in Range(channels[i]) :
    \A k \in DOMAIN source : \A j \in DOMAIN source[k] : ~(Range(r.lines) \subseteq Span(k, j))

(* Fields that are kept as text.                                            *)
TextFields ==
  ({50} \X {3, 16}) \cup ({52} \X {3, 4, 22, 23})
    \cup ({53, 54} \X {5, 6}) \cup ({55, 56} \X {4, 5}) \cup {<<58, 7>>} \cup ({61} \X {6, 7})
    \cup ({62} \X {5, 6, 7, 8}) \cup ({41, 43, 44} \X {6, 7}) \cup ({45, 46} \X {5, 6})

(* What cannot be noticed: harm to a line nobody reads, text for text, a    *)
(* line of location (or, without one, of the channel) that is empty or has  *)
(* no prefix, a missing location, and a list of zeros or      *)
(* numerators said to be shorter than it is, when the search for the list   *)
(* behind it passes over the rest.                                          *)
Lenient(l, how) ==
  \/ ~IsRead(l)
  \/ how = "bad" /\ <<l.blkt, l.fld>> \in TextFields
  \/ how \in {"lost", "empty", "prefix"} /\ l.blkt = 52 /\ l.fld = 3
  \/ how \in {"empty", "prefix"} /\ l.blkt = 52 /\ l.fld = 4
  \/ how = "fewer" /\ <<l.blkt, l.fld>> \in {<<53, 9>>, <<54, 7>>}

(* No harm goes unnoticed: the text is refused, or a blockette ends early,  *)
(* or holds lines of two, or a channel is missing.                          *)
HarmNoticed ==
  pc = "done" /\ harm.at # 0 /\ ~Lenient(Flat(source)[harm.at], harm.how)
    => Incomplete \/ Borrowed \/ Len(channels) < Len(source)

(* The blockettes read so far, of all channels, in the order of reading.    *)
Blockettes == FlattenSeq(Got)

Ascending(ps) == \A i, j \in DOMAIN ps : i < j => ps[i] < ps[j]

(* The numbers the lines of a blockette b may bear: its own, or, when it    *)
(* began as if nested in a [60], that of the nested one; in a [60], those   *)
(* of its responses, nested or not.  In a header a line without prefix      *)
(* passes for that of the location.                                         *)
Bears(b) ==
  CASE b = 50 -> {50, 52, BadPrefix}
    [] b = 60 -> {41} \cup 43..48 \cup 53..58 \cup {60, 61}
    [] b = 61 -> {61, 41}
    [] b = 62 -> {62, 42}
    [] OTHER -> {b, b - 10}

(* Whatever the text is and whatever is missing in it, no line is read      *)
(* twice: the lines of a blockette follow one another and all that was read *)
(* before, from the channels before it too, and each bears its number.      *)
LinesInOrder ==
  \A n \in DOMAIN Blockettes :
    LET r == Blockettes[n]
    IN  /\ Ascending(r.lines)
        /\ \A i \in DOMAIN r.lines : text[r.lines[i]].blkt \in Bears(r.blkt)
        /\ \A m \in 1..(n - 1) : \A p \in Range(Blockettes[m].lines), q \in Range(r.lines) : p < q

(* What is still to be done where the reader stands.                        *)
Ahead ==
  CASE pc = "channels" -> IF pos <= Len(text) THEN 4 ELSE 1
    [] pc \in {"header", "reading"} -> 3
    [] pc = "data" -> 2
    [] OTHER -> 0

(* No text holds the reader up: each step takes it on in the text or, where *)
(* it stands, nearer to its next line.                                      *)
Advances ==
  \/ pos < pos' /\ pos' <= Len(text) + 1
  \/ pos' = pos /\ (Ahead' < Ahead \/ (Ahead' = Ahead /\ Len(todo') < Len(todo)))

ReadingAdvances == [][Advances]_vars

(* Reading ends, whatever the text.                                         *)
Termination == <>Finished

(* The harm a line suffers stays where it is, and shows.                     *)
HarmContained == EarlierUnharmed /\ HarmNoticed
=============================================================================
