------------------------------ MODULE XmlChars ------------------------------
(***************************************************************************)
(* mxml-file.c: how bytes become characters, in mxml_file_getc for a file, *)
(* mxml_fd_getc for a file that is read through a buffer and               *)
(* mxml_string_getc for a string, and bytes again in mxml_add_char, which  *)
(* appends to a buffer that grows.                                         *)
(*                                                                         *)
(* Bytes and characters are numbers.  A string is followed by zeros, two   *)
(* of them if it is UTF-16.                                                *)
(***************************************************************************)
EXTENDS Question, Integers, Sequences

LOCAL INSTANCE SequencesExt

CONSTANTS CharTexts,    \* characters that are written
          ByteTexts,    \* bytes, whatever they mean
          ReadSizes,    \* how many bytes a read returns at most
          FirstSize,    \* the size of a new buffer, 64 in the code
          GrowsBy       \* 1024 in the code

EOF == -1

(* A source: its bytes as reads deliver them, those of the first in the     *)
(* buffer; and how it is read.  mxml_fd_read, where that is by buffer.      *)
Source(reader, bytes, size) ==
  LET reads == IF reader # "fd" THEN <<bytes>>
               ELSE [k \in 1..((Len(bytes) + size - 1) \div size) |->
                       SubSeq(bytes, size * (k - 1) + 1, IF size * k < Len(bytes) THEN size * k ELSE Len(bytes))]
  IN  [reader |-> reader, buffer |-> <<>>, reads |-> reads, encoding |-> "UTF8"]

NextByte(src) ==
  LET refilled == src.buffer = <<>> /\ src.reads # <<>>
      buffer == IF refilled THEN Head(src.reads) ELSE src.buffer
  IN  [byte |-> IF buffer # <<>> THEN Head(buffer) ELSE IF src.reader = "string" THEN 0 ELSE EOF,
       src |-> [src EXCEPT !.buffer = IF buffer = <<>> THEN <<>> ELSE Tail(buffer),
                           !.reads = IF refilled THEN Tail(@) ELSE @]]

Got(ch, src) == [ch |-> ch, src |-> src]

mxml_bad_char(ch) == ch < 32 /\ ch \notin {9, 10, 13}

Checked(got) == IF mxml_bad_char(got.ch) THEN Got(EOF, got.src) ELSE got

-----------------------------------------------------------------------------
(* How many bytes follow the first one of a character, and the least        *)
(* character they are needed for.                                           *)
Following(first) ==
  CASE first \div 32 = 6 -> 1
    [] first \div 16 = 14 -> 2
    [] first \div 8 = 30 -> 3
    [] OTHER -> 0

Least == <<128, 2048, 65536>>

(* Mutant of Continued: what follows need not be marked as following.       *)
ContinuedByAny(got, n) ==
  LET one(g, k) == LET next == NextByte(g.src)
                   IN  IF g.ch = EOF \/ next.byte \in {0, EOF} THEN Got(EOF, next.src)
                       ELSE Got(g.ch * 64 + (next.byte % 64), next.src)
  IN  FoldLeft(one, got, [k \in 1..n |-> k])

Continued(got, n) ==
  LET one(g, k) == LET next == NextByte(g.src)
                   IN  IF g.ch = EOF \/ next.byte \div 64 # 2 THEN Got(EOF, next.src)
                       ELSE Got(g.ch * 64 + (next.byte % 64), next.src)
  IN  FoldLeft(one, got, [k \in 1..n |-> k])

(* A character and not a shorter one written long.                          *)
Utf8(first, src) ==
  LET n == Following(first)
      got == Continued(Got(first % (CASE n = 1 -> 32 [] n = 2 -> 16 [] OTHER -> 8), src), n)
  IN  IF n = 0 \/ got.ch < Least[n] THEN Got(EOF, got.src) ELSE got

(* Two bytes in the order of the encoding.                                  *)
Word16(byte, src) ==
  LET next == NextByte(src)
  IN  IF byte = EOF \/ next.byte = EOF THEN Got(EOF, next.src)
      ELSE Got(IF src.encoding = "UTF16BE" THEN byte * 256 + next.byte ELSE byte + next.byte * 256,
               next.src)

(* Of the second words of a pair the last is not accepted.                  *)
Utf16(byte, src) ==
  LET first == Checked(Word16(byte, src))
      low == NextByte(first.src)
      second == Word16(low.byte, low.src)
  IN  IF first.ch \notin 55296..56319 THEN first
      ELSE IF second.ch \notin 56320..57342 THEN Got(EOF, second.src)
      ELSE Got((first.ch % 1024) * 1024 + (second.ch % 1024) + 65536, second.src)

(* mxml_file_getc, mxml_fd_getc and mxml_string_getc.  Byte order marks     *)
(* change the encoding or are passed over, wherever they stand.  A string   *)
(* ends at a zero, unless it is the first byte of two, in little-endian.    *)
RECURSIVE GetC(_)
GetC(src) ==
  LET next == NextByte(src)
      first == next.byte
      second == NextByte(next.src)
      got == Utf8(first, next.src)
  IN  CASE first = EOF -> Got(EOF, next.src)
        [] src.reader = "string" /\ first = 0 /\ src.encoding # "UTF16LE" -> Got(EOF, next.src)
        [] src.encoding # "UTF8" -> Utf16(first, next.src)
        [] first < 128 -> Checked(Got(first, next.src))
        [] first \in {254, 255} ->
             IF second.byte # 509 - first THEN Got(EOF, second.src)
             ELSE GetC([second.src EXCEPT !.encoding = IF first = 254 THEN "UTF16BE" ELSE "UTF16LE"])
        [] OTHER -> IF got.ch = 65279 THEN GetC(got.src) ELSE got

(* The characters until there is no more.                                   *)
RECURSIVE Chars(_)
Chars(src) ==
  LET got == GetC(src)
  IN  IF got.ch = EOF THEN <<>> ELSE <<got.ch>> \o Chars(got.src)

Read(reader, bytes, size) == Chars(Source(reader, bytes, size))

-----------------------------------------------------------------------------
Six(ch, k) == 128 + ((ch \div 64^k) % 64)

BytesOf(ch) ==
  CASE ch < 128 -> <<ch>>
    [] ch \in 128..2047 -> <<192 + ch \div 64, Six(ch, 0)>>
    [] ch \in 2048..65535 -> <<224 + ch \div 4096, Six(ch, 1), Six(ch, 0)>>
    [] OTHER -> <<240 + ch \div 262144, Six(ch, 2), Six(ch, 1), Six(ch, 0)>>

(* Mutant of AddChar: room for a character, not for the zero behind it.     *)
AddCharTight(buffer, ch) ==
  [bytes |-> buffer.bytes \o BytesOf(ch),
   size |-> IF Len(buffer.bytes) <= buffer.size - 4 THEN buffer.size
            ELSE IF buffer.size < GrowsBy THEN 2 * buffer.size ELSE buffer.size + GrowsBy]

(* mxml_add_char                                                            *)
AddChar(buffer, ch) ==
  [bytes |-> buffer.bytes \o BytesOf(ch),
   size |-> IF Len(buffer.bytes) < buffer.size - 4 THEN buffer.size
            ELSE IF buffer.size < GrowsBy THEN 2 * buffer.size ELSE buffer.size + GrowsBy]

Buffers(chars) ==
  [k \in 0..Len(chars) |->
     FoldLeft(AddChar, [bytes |-> <<>>, size |-> FirstSize], SubSeq(chars, 1, k))]

-----------------------------------------------------------------------------
(* The encodings, as they are defined.                                      *)
Bytes16(ch, encoding) ==
  LET word(w) == IF encoding = "UTF16BE" THEN <<w \div 256, w % 256>> ELSE <<w % 256, w \div 256>>
      over == ch - 65536
  IN  IF ch < 65536 THEN word(ch) ELSE word(55296 + over \div 1024) \o word(56320 + (over % 1024))

Encoded(text, encoding) ==
  CASE encoding = "UTF8" -> FlattenSeq([i \in DOMAIN text |-> BytesOf(text[i])])
    [] encoding = "UTF16BE" -> <<254, 255>> \o FlattenSeq([i \in DOMAIN text |-> Bytes16(text[i], "UTF16BE")])
    [] encoding = "UTF16LE" -> <<255, 254>> \o FlattenSeq([i \in DOMAIN text |-> Bytes16(text[i], "UTF16LE")])

Encodings == {"UTF8", "UTF16BE", "UTF16LE"}

CharsInit ==
  /\ question \in [of : {"chars"}, text : CharTexts, encoding : Encodings, size : ReadSizes]
              \cup [of : {"bytes"}, text : ByteTexts, size : ReadSizes]
  /\ answer = Unanswered

ReadBy(bytes) ==
  [reader \in {"file", "fd", "string"} |-> Read(reader, bytes, question.size)]

ReadEncoded ==
  /\ Asked("chars")
  /\ LET read == ReadBy(Encoded(question.text, question.encoding))
     IN  Answer([of |-> "chars", read |-> read, buffers |-> Buffers(read["file"])])

ReadAny ==
  /\ Asked("bytes")
  /\ Answer([of |-> "bytes", read |-> ReadBy(question.text)])

CharsNext == ReadEncoded \/ ReadAny

-----------------------------------------------------------------------------
(* The text as far as characters go that satisfy the condition.             *)
UpTo(text, Condition(_)) ==
  LET bad == {i \in DOMAIN text : ~Condition(text[i])}
  IN  IF bad = {} THEN text ELSE SubSeq(text, 1, (CHOOSE i \in bad : \A j \in bad : i <= j) - 1)

LastOfPair(ch) == ch >= 65536 /\ ch % 1024 = 1023

(* What is written in an encoding is read as it was, in files and           *)
(* descriptors, whatever the pieces in which the bytes arrive, and what is  *)
(* stored of it is UTF-8 in a buffer that always has room for the zero at   *)
(* its end.  In UTF-16 reading ends at a character whose second word is the *)
(* last there is, and a big-endian string at one of the first 256           *)
(* characters; in UTF-8 a byte order mark is no character.                  *)
ReadAsEncoded ==
  answer.of = "chars" =>
    LET e == question.encoding
        expected == IF e = "UTF8" THEN SelectSeq(question.text, LAMBDA ch : ch # 65279)
                    ELSE UpTo(question.text, LAMBDA ch : ~LastOfPair(ch))
    IN  /\ answer.read["file"] = expected
        /\ answer.read["fd"] = expected
        /\ answer.read["string"] = IF e = "UTF16BE" THEN UpTo(expected, LAMBDA ch : ch > 255) ELSE expected
        /\ \A k \in DOMAIN answer.buffers :
             /\ answer.buffers[k].bytes = Encoded(SubSeq(expected, 1, k), "UTF8")
             /\ Len(answer.buffers[k].bytes) < answer.buffers[k].size

(* Of bytes that are no text, a file and a descriptor give the same         *)
(* characters, a string too as long as it is UTF-8, and none that is not    *)
(* there (239 begins the mark that is passed over).                         *)
NothingReadIn ==
  answer.of = "bytes" =>
    LET bytes == ToSet(question.text)
        read == answer.read
    IN  /\ read["fd"] = read["file"]
        /\ bytes \cap {254, 255} = {} => read["string"] = read["file"]
        /\ bytes \cap {239, 254, 255} = {} => IsPrefix(Encoded(read["file"], "UTF8"), question.text)

(* Text is read as it was written, and nothing else is read as text.        *)
TextRead == ReadAsEncoded /\ NothingReadIn
=============================================================================
