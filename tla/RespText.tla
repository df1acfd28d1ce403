----------------------------- MODULE RespText ------------------------------
(***************************************************************************)
(* The lines of a RESP text, as far as input.c tells them apart and        *)
(* dom_to_seed.c writes them: a blockette number, a field number, whether  *)
(* what follows the separator can be parsed as the field asks, and the     *)
(* number it holds (a count, a stage number, the columns of a list row).   *)
(***************************************************************************)
EXTENDS Integers, SequencesExt

(* good: parses as the field asks;  bad: some other text;  empty: nothing   *)
(* after the separator.                                                     *)
Form == {"good", "bad", "empty"}

Comment == 0      \* a comment or a blank line
BadPrefix == -1   \* a line that starts with neither # nor Bnnn

Line == [blkt : {Comment, BadPrefix} \cup 41..62, fld : 0..23, form : Form, val : Nat]

Ln(b, f, v) == [blkt |-> b, fld |-> f, form |-> "good", val |-> v]

CommentLine == Ln(Comment, 0, 0)

(* v equal lines of a repeated field; a row's number is its columns.        *)
Rows(n, b, f, v) == [i \in 1..n |-> Ln(b, f, v)]

(* The fields of blockette b in this order, with these numbers.             *)
Fields(b, fs, vs) == [i \in DOMAIN fs |-> Ln(b, fs[i], vs[i])]

(* drop_comments_and_blank_lines: the next line at or behind pos that is    *)
(* read, 0 at the end of the text.                                          *)
NextLine(text, pos) == SelectInSubSeq(text, pos, Len(text), LAMBDA l : l.blkt # Comment)

(* find_line: the first line at or behind pos that is the wanted one, or    *)
(* whose prefix cannot be read; every other line is passed over.            *)
FindLine(text, pos, b, f) ==
  SelectInSubSeq(text, pos, Len(text),
                 LAMBDA l : l.blkt = BadPrefix \/ (l.blkt = b /\ l.fld = f))

(* is_iir_coeffs: the first B054F10 anywhere in the rest of the text, be it *)
(* a field of this blockette, of a later one or of a comment.               *)
IsIirCoeffs(text, pos) ==
  LET p == SelectInSubSeq(text, pos, Len(text),
                          LAMBDA l : l.fld = 10 /\ l.blkt \in {54, Comment})
  IN  p # 0 /\ text[p].form = "good" /\ text[p].val # 0
=============================================================================
