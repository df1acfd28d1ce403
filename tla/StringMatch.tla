---------------------------- MODULE StringMatch ----------------------------
(***************************************************************************)
(* What input.c uses regular expressions for: reg_string_match, is_int,    *)
(* is_real and parse_units; and what an expression means.                  *)
(***************************************************************************)
EXTENDS Question, RegExp

LOCAL INSTANCE SequencesExt

CONSTANTS Expressions,  \* regular expressions
          Patterns,     \* other patterns, many of which are none
          Strings,      \* what is compared with them
          Numbers,      \* what is_int and is_real are asked of
          UnitFields    \* lines with units

-----------------------------------------------------------------------------
(* What a regular expression means, by its structure, and how it is written *)
(* as a pattern: RegExp is compared with it.                                *)
OneOf(set) == [kind |-> "chars", set |-> set, but |-> FALSE]
NoneOf(set) == [kind |-> "chars", set |-> set, but |-> TRUE]
AnyChar == NoneOf({})
AtBegin == [kind |-> "begin"]
AtEnd == [kind |-> "end"]
Then(e, f) == [kind |-> "both", left |-> e, right |-> f]
Either(e, f) == [kind |-> "either", left |-> e, right |-> f]
Repeat(e, op) == [kind |-> "times", of |-> e, op |-> op]

-----------------------------------------------------------------------------
(* Where a match of e that begins at i can end.                             *)
RECURSIVE MatchEnds(_, _, _), MatchEndsFrom(_, _, _)
MatchEnds(e, s, i) ==
  CASE e.kind = "chars" -> IF i <= Len(s) /\ (s[i] \in e.set) # e.but THEN {i + 1} ELSE {}
    [] e.kind = "begin" -> IF i = 1 THEN {i} ELSE {}
    [] e.kind = "end" -> IF i = Len(s) + 1 THEN {i} ELSE {}
    [] e.kind = "both" -> UNION {MatchEnds(e.right, s, j) : j \in MatchEnds(e.left, s, i)}
    [] e.kind = "either" -> MatchEnds(e.left, s, i) \cup MatchEnds(e.right, s, i)
    [] e.kind = "times" ->
         CASE e.op = "?" -> {i} \cup MatchEnds(e.of, s, i)
           [] e.op = "*" -> MatchEndsFrom(e.of, s, {i})
           [] e.op = "+" -> MatchEndsFrom(e.of, s, MatchEnds(e.of, s, i))

MatchEndsFrom(e, s, from) ==
  LET more == from \cup UNION {MatchEnds(e, s, j) : j \in from}
  IN  IF more = from THEN from ELSE MatchEndsFrom(e, s, more)

(* Somewhere in s, as long as nothing holds it to an end of s.              *)
Occurs(e, s) == \E i \in 1..(Len(s) + 1) : MatchEnds(e, s, i) # {}

-----------------------------------------------------------------------------
RECURSIVE HasWidth(_), Repeatable(_), ClassesIn(_)

(* Every match has a character, as far as can be told from its parts.       *)
HasWidth(e) ==
  CASE e.kind = "chars" -> TRUE
    [] e.kind \in {"begin", "end"} -> FALSE
    [] e.kind = "both" -> HasWidth(e.left) \/ HasWidth(e.right)
    [] e.kind = "either" -> HasWidth(e.left) /\ HasWidth(e.right)
    [] e.kind = "times" -> e.op = "+" /\ HasWidth(e.of)

(* Nothing is repeated that could be empty.                                 *)
Repeatable(e) ==
  CASE e.kind \in {"chars", "begin", "end"} -> TRUE
    [] e.kind \in {"both", "either"} -> Repeatable(e.left) /\ Repeatable(e.right)
    [] e.kind = "times" -> Repeatable(e.of) /\ (e.op = "?" \/ HasWidth(e.of))

IsClass(e) == e.kind = "chars" /\ ~e.but /\ Cardinality(e.set) > 1

ClassesIn(e) ==
  CASE e.kind \in {"chars", "begin", "end"} -> IF IsClass(e) THEN {e} ELSE {}
    [] e.kind \in {"both", "either"} -> ClassesIn(e.left) \cup ClassesIn(e.right)
    [] e.kind = "times" -> ClassesIn(e.of)

-----------------------------------------------------------------------------
InParens(pattern) == <<"(">> \o pattern \o <<")">>

RECURSIVE PatternOf(_)
PatternOf(e) ==
  CASE e.kind = "begin" -> <<"^">>
    [] e.kind = "end" -> <<"$">>
    [] e.kind = "chars" ->
         IF e = AnyChar THEN <<".">>
         ELSE IF e.but THEN <<"[", "^">> \o SetToSeq(e.set) \o <<"]">>
         ELSE IF Cardinality(e.set) = 1 THEN SetToSeq(e.set)
         ELSE <<"[">> \o SetToSeq(e.set) \o <<"]">>
    [] e.kind = "both" ->
         LET part(f) == IF f.kind = "either" THEN InParens(PatternOf(f)) ELSE PatternOf(f)
         IN  part(e.left) \o part(e.right)
    [] e.kind = "either" -> PatternOf(e.left) \o <<"|">> \o PatternOf(e.right)
    [] e.kind = "times" ->
         (IF e.of.kind = "chars" THEN PatternOf(e.of) ELSE InParens(PatternOf(e.of))) \o <<e.op>>

-----------------------------------------------------------------------------
Digits == <<"[", "0", "-", "9", "]">>
Sign == <<"[", "-", "+", "]", "?">>
Exponent == <<"[", "E", "e", "]">> \o Sign \o Digits \o <<"+", "$">>
Leading == <<"^">> \o Sign \o Digits \o <<"+", "\\", ".", "?">> \o Digits \o <<"*">>
Trailing == <<"^">> \o Sign \o Digits \o <<"*", "\\", ".">> \o Digits \o <<"+">>

(* Mutant of is_int: the end of the line is not asked for.                  *)
is_int_prefix(test) == RegStringMatch(test, <<"^">> \o Sign \o Digits \o <<"+">>, "-r")

is_int(test) == RegStringMatch(test, <<"^">> \o Sign \o Digits \o <<"+", "$">>, "-r")

is_real(test) ==
  RegStringMatch(test, Leading \o Exponent \o <<"|">> \o Trailing \o Exponent \o <<"|">>
                         \o Leading \o <<"$", "|">> \o Trailing \o <<"$">>, "-r")

-----------------------------------------------------------------------------
Metre == <<"^", "[", "C", "N", "M", "]", "?", "M">>
PerSecond == Metre \o <<"/", "S">>
Squared == <<"\\", "*", "\\", "*", "2">>
BehindWord == <<"[", "^", "A", "-", "Z", "]", "?">>

AsWord(w) == <<"^">> \o w \o BehindWord

BeginsWith(line, part) == IsAt(part, line, 1)

(* Mutant of Scale: the prefix is told by its letter alone.                 *)
ScaleByLetter(line) ==
  CASE BeginsWith(line, <<"N">>) -> "1e9"
    [] BeginsWith(line, <<"M">>) -> "1e3"
    [] BeginsWith(line, <<"C">>) -> "1e2"
    [] OTHER -> "1"

Scale(line) ==
  CASE BeginsWith(line, <<"N", "M">>) -> "1e9"
    [] BeginsWith(line, <<"M", "M">>) -> "1e3"
    [] BeginsWith(line, <<"C", "M">>) -> "1e2"
    [] OTHER -> "1"

FoundIn(line, expr) == RegStringMatch(line, expr, "-r")

(* What parse_units looks for, in this order.                               *)
UnitPatterns ==
  <<[code |-> "ACC",
     expr |-> PerSecond \o Squared \o <<"|">> \o PerSecond \o <<"E", "C">> \o Squared],
    [code |-> "VEL", expr |-> PerSecond \o <<"|">> \o PerSecond \o <<"E", "C">>],
    [code |-> "DIS", expr |-> Metre \o <<"[", "^", "A", "-", "Z", "/", "]", "?">>],
    [code |-> "COUNTS", expr |-> AsWord(<<"C", "O", "U", "N", "T", "S", "?">>)],
    [code |-> "COUNTS", expr |-> AsWord(<<"D", "I", "G", "I", "T", "A", "L">>)],
    [code |-> "VOLTS", expr |-> AsWord(<<"V">>)],
    [code |-> "VOLTS", expr |-> AsWord(<<"V", "O", "L", "T", "S">>)]>>

FirstUnit(found) ==
  IF found = {} THEN "UNDEF_UNITS" ELSE UnitPatterns[CHOOSE i \in found : \A j \in found : i <= j].code

UnitCode(line) ==
  IF BeginsWith(line, <<"P", "A">>) \/ BeginsWith(line, <<"K", "P">>) THEN "PRESSURE"
  ELSE IF BeginsWith(line, <<"T", " ", "-">>) \/ BeginsWith(line, <<"N", "T", " ", "-">>) THEN "TESLA"
  ELSE IF BeginsWith(line, <<"C", " ", "-">>) THEN "CENTIGRADE"
  ELSE FirstUnit({i \in DOMAIN UnitPatterns : FoundIn(line, UnitPatterns[i].expr)})

(* The scale is that of the first unit of a channel if it is a length, but  *)
(* of any unit if it is the tesla.                                          *)
UnitScale(line, code, first) ==
  CASE BeginsWith(line, <<"N", "T", " ", "-">>) -> "1e9"
    [] code \in {"ACC", "VEL", "DIS"} /\ first -> Scale(line)
    [] OTHER -> "1"

UnitOf(line, code) == [of |-> "unit", units |-> code, scale |-> UnitScale(line, code, TRUE)]

-----------------------------------------------------------------------------
MatchInit ==
  /\ question \in [of : {"expression"}, text : Expressions]
             \cup [of : {"pattern"}, text : Patterns]
             \cup [of : {"number"}, text : Numbers]
             \cup [of : {"unit"}, text : UnitFields]
  /\ answer = Unanswered

(* evr_regcomp alone                                                        *)
Compile ==
  /\ Asked("pattern")
  /\ Answer([of |-> "pattern", sized |-> Sized(question.text), emitted |-> Emitted(question.text)])

(* evr_regcomp once, evr_regexec on one string after the other              *)
Matched(prog) ==
  [of |-> "expression", ok |-> prog.ok, matched |-> {s \in Strings : Finds(prog, s)}]

MatchStrings ==
  /\ Asked("expression")
  /\ Answer(Matched(Compiled(PatternOf(question.text))))

IsNumber ==
  /\ Asked("number")
  /\ Answer([of |-> "number", int |-> is_int(question.text), real |-> is_real(question.text)])

ParseUnits ==
  /\ Asked("unit")
  /\ Answer(UnitOf(question.text.line, UnitCode(question.text.line)))

MatchNext == Compile \/ MatchStrings \/ IsNumber \/ ParseUnits

-----------------------------------------------------------------------------
SizeOf(code) == FoldLeft(LAMBDA sum, node : sum + Bytes(node.op, node.opnd), 0, code)

(* The program is allocated with the size the first pass counted and filled *)
(* by the second: both must refuse the same patterns, and emit what was     *)
(* counted.                                                                 *)
PassesAgree ==
  answer.of = "pattern" =>
    /\ answer.sized.ok <=> answer.emitted.ok
    /\ answer.sized.ok => answer.sized.regsize = SizeOf(answer.emitted.regcode)

(* The links of a program, set while it is still being moved about, and the *)
(* shortcuts taken from it find a pattern in a string if and only if it     *)
(* occurs there; a repeated part that could be empty is refused, as running *)
(* it would not end.  Only with a class of characters, which the end of     *)
(* every string belongs to, more is found.                                  *)
MatchIsLanguage ==
  answer.of = "expression" =>
    LET meant == {s \in Strings : Occurs(question.text, s)}
    IN  /\ answer.ok <=> Repeatable(question.text)
        /\ answer.ok => meant \subseteq answer.matched
        /\ answer.ok /\ ClassesIn(question.text) = {} => answer.matched = meant

Unsigned(s) == IF s # <<>> /\ s[1] \in {"+", "-"} THEN Tail(s) ELSE s

Decimal(s) == s # <<>> /\ ToSet(s) \subseteq {"0", "1", "9"}

Fixed(s) ==
  LET rest == SelectSeq(Unsigned(s), LAMBDA c : c # ".")
  IN  Decimal(rest) /\ Len(rest) + 1 >= Len(Unsigned(s))

(* is_int and is_real accept the numbers strtol and strtod read to the end, *)
(* and nothing else, though their classes contain the end of the string.    *)
NumbersRecognised ==
  answer.of = "number" =>
    LET s == question.text
    IN  /\ answer.int <=> Decimal(Unsigned(s))
        /\ answer.real <=>
             \/ Fixed(s)
             \/ \E i \in DOMAIN s : /\ s[i] \in {"E", "e"}
                                    /\ Fixed(SubSeq(s, 1, i - 1))
                                    /\ Decimal(Unsigned(SubSeq(s, i + 1, Len(s))))

(* Each unit of motion, in each of its spellings and with each prefix, has  *)
(* its own code and scale, whatever explanation follows it: a pattern that  *)
(* is looked for earlier must not find a unit of a later one.               *)
UnitsRecognised ==
  answer.of = "unit" =>
    answer.units = question.text.units /\ answer.scale = question.text.scale

(* A pattern is compiled into the room counted for it, and finds what it    *)
(* means; numbers and units in fields are told for what they are.           *)
TextRecognised == PassesAgree /\ MatchIsLanguage /\ NumbersRecognised /\ UnitsRecognised
=============================================================================
