------------------------------- MODULE RegExp -------------------------------
(***************************************************************************)
(* regexp.c: evr_regcomp, which compiles a pattern twice, once to count    *)
(* and once to emit, and evr_regexec, which runs the program with          *)
(* backtracking; and reg_string_match of input.c.                          *)
(*                                                                         *)
(* Patterns and strings are sequences of characters.  A program is a       *)
(* sequence of nodes; the string that is the operand of some stands in the *)
(* node, other operands begin at the next one.  Links are offsets, as in   *)
(* the code.  The places of parentheses are left out: nobody reads them.   *)
(*                                                                         *)
(* The memory behind a string holds zeros, as in reg_string_match.         *)
(***************************************************************************)
EXTENDS Integers, Sequences, FiniteSets

LOCAL INSTANCE SequencesExt

CONSTANTS Alphabet,    \* the characters, in the order of their codes
          NSUBEXP      \* bound on parentheses, and one

NUL == "NUL"

At(string, i) == IF i <= Len(string) THEN string[i] ELSE NUL

Code(c) == CHOOSE i \in DOMAIN Alphabet : Alphabet[i] = c

ISMULT == {"*", "+", "?"}

META == ISMULT \cup {"^", "$", ".", "[", "(", ")", "|", "\\"}

-----------------------------------------------------------------------------
(* Nodes of the program.                                                    *)
WithString == {"EXACTLY", "ANYOF", "ANYBUT"}

Bytes(op, opnd) == 3 + IF op \in WithString THEN Len(opnd) + 1 ELSE 0

(* Where a compilation stands: what remains of the pattern, the program or  *)
(* its size, whether it failed, and what the last function returned.        *)
NONE == 0
DUMMY == -1

Start(exp, emits) ==
  [exp |-> exp, regparse |-> 1, regnpar |-> 1, emits |-> emits, regcode |-> <<>>,
   regsize |-> 0, ok |-> TRUE, ret |-> NONE, flags |-> {}]

Here(s) == At(s.exp, s.regparse)

Fail(s) == [s EXCEPT !.ok = FALSE]

(* regnode, and regc for each character of the operand                      *)
RegNode(s, op, opnd) ==
  IF s.emits
    THEN [s EXCEPT !.regcode = Append(@, [op |-> op, next |-> 0, opnd |-> opnd]),
                   !.ret = Len(s.regcode) + 1]
    ELSE [s EXCEPT !.regsize = @ + Bytes(op, opnd), !.ret = DUMMY]

Plain(s, op) == RegNode(s, op, <<>>)

(* Mutant of RegInsert: the first pass does not count the node.                *)
RegInsertUncounted(s, op, place) ==
  IF s.emits THEN [s EXCEPT !.regcode = InsertAt(@, place, [op |-> op, next |-> 0, opnd |-> <<>>])]
  ELSE s

(* reginsert                                                                *)
RegInsert(s, op, place) ==
  IF s.emits THEN [s EXCEPT !.regcode = InsertAt(@, place, [op |-> op, next |-> 0, opnd |-> <<>>])]
  ELSE [s EXCEPT !.regsize = @ + 3]

(* regnext                                                                  *)
RegNext(code, p) ==
  IF code[p].next = 0 THEN NONE
  ELSE IF code[p].op = "BACK" THEN p - code[p].next ELSE p + code[p].next

RECURSIVE LastOf(_, _)
LastOf(code, p) == IF RegNext(code, p) = NONE THEN p ELSE LastOf(code, RegNext(code, p))

(* regtail: the last node of the chain leads to val.                        *)
RegTail(s, p, val) ==
  IF ~s.emits THEN s
  ELSE LET last == LastOf(s.regcode, p)
       IN  [s EXCEPT !.regcode[last].next =
              IF s.regcode[last].op = "BACK" THEN last - val ELSE val - last]

(* regoptail: the same for the operand of a branch.                         *)
RegOpTail(s, p, val) ==
  IF ~s.emits THEN s
  ELSE IF s.regcode[p].op # "BRANCH" THEN s ELSE RegTail(s, p + 1, val)

(* A chain is led to the node that was emitted last.                        *)
LeadHere(s, p) == RegTail(s, p, s.ret)

-----------------------------------------------------------------------------
(* The characters of a class, from position i on.                           *)
RECURSIVE Class(_, _, _)
Class(exp, i, chars) ==
  CASE At(exp, i) \in {NUL, "]"} -> [ok |-> At(exp, i) = "]", at |-> i + 1, chars |-> chars]
    [] At(exp, i) = "-" /\ At(exp, i + 1) \in {NUL, "]"} -> Class(exp, i + 1, Append(chars, "-"))
    [] At(exp, i) = "-" /\ At(exp, i + 1) \notin {NUL, "]"} ->
         IF Code(At(exp, i - 1)) > Code(At(exp, i + 1))
           THEN [ok |-> FALSE, at |-> i, chars |-> chars]
           ELSE Class(exp, i + 2,
                      chars \o SubSeq(Alphabet, Code(At(exp, i - 1)) + 1, Code(At(exp, i + 1))))
    [] OTHER -> Class(exp, i + 1, Append(chars, At(exp, i)))

(* A ] or - in front stands for itself.                                     *)
ClassAtom(s) ==
  LET but == Here(s) = "^"
      begin == IF but THEN s.regparse + 1 ELSE s.regparse
      literal == At(s.exp, begin) \in {"]", "-"}
      class == Class(s.exp, IF literal THEN begin + 1 ELSE begin,
                     IF literal THEN <<s.exp[begin]>> ELSE <<>>)
  IN  IF class.ok
        THEN RegNode([s EXCEPT !.regparse = class.at, !.flags = {"HASWIDTH", "SIMPLE"}],
                  IF but THEN "ANYBUT" ELSE "ANYOF", class.chars)
        ELSE Fail(s)

(* Mutant of LiteralAtom: the last character before * + ? is not left to it.*)
LiteralAtomWhole(s) ==
  LET ends == {i \in s.regparse..(Len(s.exp) + 1) : At(s.exp, i) \in META \cup {NUL}}
      end == CHOOSE i \in ends : \A j \in ends : i <= j
  IN  RegNode([s EXCEPT !.regparse = end, !.flags = {"HASWIDTH", "SIMPLE"}],
           "EXACTLY", SubSeq(s.exp, s.regparse, end - 1))

(* As many ordinary characters as there are; if the last is to be repeated  *)
(* it is an atom of its own.                                                *)
LiteralAtom(s) ==
  LET ends == {i \in s.regparse..(Len(s.exp) + 1) : At(s.exp, i) \in META \cup {NUL}}
      end == CHOOSE i \in ends : \A j \in ends : i <= j
      len == end - s.regparse
      taken == IF len > 1 /\ At(s.exp, end) \in ISMULT THEN len - 1 ELSE len
  IN  RegNode([s EXCEPT !.regparse = @ + taken,
                     !.flags = {"HASWIDTH"} \cup (IF taken = 1 THEN {"SIMPLE"} ELSE {})],
           "EXACTLY", SubSeq(s.exp, s.regparse, s.regparse + taken - 1))

(* What repeats a piece x that begins at x.ret.                             *)
Repeated(s, op) ==
  LET x == s.ret IN
  CASE op = "*" /\ "SIMPLE" \in s.flags -> RegInsert(s, "STAR", x)
    [] op = "+" /\ "SIMPLE" \in s.flags -> RegInsert(s, "PLUS", x)
    [] op = "*" /\ "SIMPLE" \notin s.flags ->
         LET back == Plain(RegInsert(s, "BRANCH", x), "BACK")
             looped == RegOpTail(RegOpTail(back, x, back.ret), x, x)
         IN  LeadHere(Plain(LeadHere(Plain(looped, "BRANCH"), x), "NOTHING"), x)
    [] op = "+" /\ "SIMPLE" \notin s.flags ->
         LET either == LeadHere(Plain(s, "BRANCH"), x)
             back == Plain(either, "BACK")
             or == Plain(RegTail(back, back.ret, x), "BRANCH")
         IN  LeadHere(Plain(LeadHere(or, either.ret), "NOTHING"), x)
    [] op = "?" ->
         LET null == Plain(LeadHere(Plain(RegInsert(s, "BRANCH", x), "BRANCH"), x), "NOTHING")
         IN  RegOpTail(LeadHere(null, x), x, null.ret)

RECURSIVE Reg(_, _)

(* regatom                                                                  *)
RegAtom(s0) ==
  LET s == [s0 EXCEPT !.regparse = @ + 1, !.flags = {}]
      c == Here(s0)
  IN  CASE c = "^" -> Plain(s, "BOL")
        [] c = "$" -> Plain(s, "EOL")
        [] c = "." -> Plain([s EXCEPT !.flags = {"HASWIDTH", "SIMPLE"}], "ANY")
        [] c = "[" -> ClassAtom(s)
        [] c = "(" -> LET r == Reg(s, TRUE) IN [r EXCEPT !.flags = @ \cap {"HASWIDTH", "SPSTART"}]
        [] c \in ISMULT -> Fail(s)
        [] c = "\\" ->
             IF Here(s) = NUL THEN Fail(s)
             ELSE RegNode([s EXCEPT !.regparse = @ + 1, !.flags = {"HASWIDTH", "SIMPLE"}],
                       "EXACTLY", <<Here(s)>>)
        [] OTHER -> LiteralAtom(s0)

(* regpiece: what is repeated must not be empty.                            *)
Piece(x) ==
  LET op == Here(x)
  IN  IF ~x.ok \/ op \notin ISMULT THEN x
      ELSE IF ("HASWIDTH" \notin x.flags /\ op # "?") \/ At(x.exp, x.regparse + 1) \in ISMULT
        THEN Fail(x)
      ELSE [Repeated(x, op) EXCEPT !.regparse = x.regparse + 1, !.ret = x.ret,
                                   !.flags = IF op = "+" THEN {"HASWIDTH"} ELSE {"SPSTART"}]

RegPiece(s) == Piece(RegAtom(s))

(* regbranch: its pieces, each led to by the one before.                    *)
RECURSIVE Pieces(_, _, _)
PiecesFrom(latest, chain, flags) ==
  LET first == chain = NONE
  IN  Pieces(IF first \/ ~latest.ok THEN latest ELSE LeadHere(latest, chain), latest.ret,
             flags \cup (latest.flags \cap IF first THEN {"HASWIDTH", "SPSTART"} ELSE {"HASWIDTH"}))

Pieces(s, chain, flags) ==
  IF ~s.ok THEN s
  ELSE IF Here(s) \in {NUL, "|", ")"}
    THEN [(IF chain = NONE THEN Plain(s, "NOTHING") ELSE s) EXCEPT !.flags = flags]
  ELSE PiecesFrom(RegPiece(s), chain, flags)

RegBranch(s) ==
  LET branch == Plain(s, "BRANCH")
  IN  [Pieces(branch, NONE, {}) EXCEPT !.ret = branch.ret]

(* reg: branches, the closing node, and the links to it.                    *)
BothFlags(f, g) == (f \cap g \cap {"HASWIDTH"}) \cup ((f \cup g) \cap {"SPSTART"})

RECURSIVE Branches(_, _)
BranchesAfter(more, flags, head) ==
  IF ~more.ok THEN more
  ELSE Branches([LeadHere(more, head) EXCEPT !.flags = BothFlags(flags, more.flags)], head)

Branches(s, head) ==
  IF ~s.ok \/ Here(s) # "|" THEN s
  ELSE BranchesAfter(RegBranch([s EXCEPT !.regparse = @ + 1]), s.flags, head)

RECURSIVE HookedFrom(_, _, _)
HookedFrom(s, p, ender) ==
  IF ~s.emits THEN s
  ELSE LET hooked == RegOpTail(s, p, ender)
       IN  IF RegNext(hooked.regcode, p) = NONE THEN hooked
           ELSE HookedFrom(hooked, RegNext(hooked.regcode, p), ender)

Hooked(ender, head) ==
  [HookedFrom(LeadHere(ender, head), head, ender.ret) EXCEPT !.ret = head]

Closed(all, head, paren) ==
  IF ~all.ok THEN all
  ELSE LET closed == Hooked(Plain(all, IF paren THEN "CLOSE" ELSE "END"), head)
       IN  IF Here(closed) # (IF paren THEN ")" ELSE NUL) THEN Fail(closed)
           ELSE IF paren THEN [closed EXCEPT !.regparse = @ + 1] ELSE closed

AllBranches(first, head, paren) ==
  Closed(Branches(IF paren /\ first.ok THEN LeadHere(first, head) ELSE first, head), head, paren)

Opened(s, paren) ==
  IF ~paren THEN LET first == RegBranch(s) IN AllBranches(first, first.ret, FALSE)
  ELSE AllBranches(RegBranch(s), s.ret, TRUE)

Reg(s, paren) ==
  IF paren /\ s.regnpar >= NSUBEXP THEN Fail(s)
  ELSE Opened(IF paren THEN Plain([s EXCEPT !.regnpar = @ + 1], "OPEN") ELSE s, paren)

-----------------------------------------------------------------------------
(* The longest string on the chain from a node, the last of equal ones.     *)
RECURSIVE Longest(_, _, _)
Longest(code, p, best) ==
  IF p = NONE THEN best
  ELSE Longest(code, RegNext(code, p),
               IF code[p].op = "EXACTLY" /\ Len(code[p].opnd) >= Len(best) THEN code[p].opnd ELSE best)

(* evr_regcomp                                                              *)
Sized(exp) == Reg(Start(exp, FALSE), FALSE)
Emitted(exp) == Reg(Start(exp, TRUE), FALSE)

Program(pass) ==
  LET code == pass.regcode
      single == code[RegNext(code, 1)].op = "END"
  IN  [ok |-> TRUE, code |-> code,
       regstart |-> IF single /\ code[2].op = "EXACTLY" THEN code[2].opnd[1] ELSE NUL,
       reganch |-> single /\ code[2].op = "BOL",
       regmust |-> IF single /\ "SPSTART" \in pass.flags THEN Longest(code, 2, <<>>) ELSE <<>>]

Compiled(exp) == IF Sized(exp).ok THEN Program(Emitted(exp)) ELSE [ok |-> FALSE]

-----------------------------------------------------------------------------
IsAt(part, string, i) == \A k \in DOMAIN part : At(string, i + k - 1) = part[k]

(* regrepeat                                                                *)
RECURSIVE Count(_, _, _)
Count(node, string, i) ==
  LET c == At(string, i)
      one == CASE node.op = "ANY" -> c # NUL
               [] node.op = "EXACTLY" -> c = node.opnd[1]
               [] node.op = "ANYOF" -> c # NUL /\ c \in ToSet(node.opnd)
               [] node.op = "ANYBUT" -> c # NUL /\ c \notin ToSet(node.opnd)
  IN  IF one THEN 1 + Count(node, string, i + 1) ELSE 0

(* The branches of a choice.                                                *)
RECURSIVE BranchesFrom(_, _)
BranchesFrom(code, p) ==
  IF p = NONE THEN {}
  ELSE IF code[p].op # "BRANCH" THEN {} ELSE {p} \cup BranchesFrom(code, RegNext(code, p))

(* regmatch: does what the program has from node p on match from i on?  The *)
(* end of a string is in every class, as strchr finds it, and in no         *)
(* complement of one.                                                       *)
RECURSIVE Matches(_, _, _, _)
Matches(code, p, string, i) ==
  IF p = NONE THEN FALSE
  ELSE LET node == code[p]
           c == At(string, i)
           next == RegNext(code, p)
           on(j) == Matches(code, next, string, j)
       IN  CASE node.op = "END" -> TRUE
             [] node.op \in {"NOTHING", "BACK", "OPEN", "CLOSE"} -> on(i)
             [] node.op = "BOL" -> i = 1 /\ on(i)
             [] node.op = "EOL" -> c = NUL /\ on(i)
             [] node.op = "ANY" -> c # NUL /\ on(i + 1)
             [] node.op = "EXACTLY" -> IsAt(node.opnd, string, i) /\ on(i + Len(node.opnd))
             [] node.op = "ANYOF" -> c \in ToSet(node.opnd) \cup {NUL} /\ on(i + 1)
             [] node.op = "ANYBUT" -> c \notin ToSet(node.opnd) \cup {NUL} /\ on(i + 1)
             [] node.op = "BRANCH" ->
                  IF code[next].op # "BRANCH" THEN Matches(code, p + 1, string, i)
                  ELSE \E b \in BranchesFrom(code, p) : Matches(code, b + 1, string, i)
             [] node.op \in {"STAR", "PLUS"} ->
                  \E k \in (IF node.op = "STAR" THEN 0 ELSE 1)..Count(code[p + 1], string, i) :
                     /\ code[next].op = "EXACTLY" => At(string, i + k) = code[next].opnd[1]
                     /\ on(i + k)

(* evr_regexec                                                              *)
Execute(prog, string) ==
  /\ prog.regmust # <<>> => \E i \in DOMAIN string : IsAt(prog.regmust, string, i)
  /\ \E i \in (IF prog.reganch THEN {1} ELSE 1..(Len(string) + 1)) :
       /\ prog.regstart # NUL => At(string, i) = prog.regstart
       /\ Matches(prog.code, 1, string, i)

-----------------------------------------------------------------------------
(* "-g": ? and * are translated.                                            *)
FromGlob(glob) ==
  FlattenSeq([i \in DOMAIN glob |-> CASE glob[i] = "?" -> <<".">>
                                      [] glob[i] = "*" -> <<".", "*">>
                                      [] OTHER -> <<glob[i]>>])

(* Found anywhere in the string; a pattern that is refused is not found.    *)
Finds(prog, string) == prog.ok /\ Execute(prog, string)

RegStringMatch(string, expr, type_flag) ==
  Finds(Compiled(IF type_flag = "-g" THEN FromGlob(expr) ELSE expr), string)
=============================================================================
