----------------------------- MODULE XmlElement -----------------------------
(***************************************************************************)
(* The attributes of an element: mxml-attr.c keeps them, mxml_write_node   *)
(* of mxml-file.c writes them into a start tag, and mxml_parse_element     *)
(* reads them from what stands behind the name of one; mxml-entity.c       *)
(* translates what cannot stand for itself; mxml-index.c finds elements by *)
(* name and attribute.                                                     *)
(*                                                                         *)
(* Text is a sequence of characters, in which one letter is the name of an *)
(* entity (A for amp).                                                     *)
(***************************************************************************)
EXTENDS Question, Integers, Sequences

LOCAL INSTANCE SequencesExt

CONSTANTS Changes,    \* calls of mxmlElementSetAttr and mxmlElementDeleteAttr
          TagTexts,   \* characters behind the name of an element
          Entities,   \* what a name between & and ; stands for
          Wraps,      \* where lines are wrapped, 0 if they are not
          NameCounts, \* sizes of the table of entities
          Elements,   \* documents to be indexed
          Criteria,   \* element and attribute of an index
          Searches,   \* element and value looked for
          NoKey,      \* NULL for an element or value
          NoValue     \* an attribute that is not there

END == "END"

CharAt(s, i) == IF i <= Len(s) THEN s[i] ELSE END

Spaces == {" ", "newline"}

-----------------------------------------------------------------------------
(* mxmlElementGetAttr                                                       *)
Place(attrs, name) == {i \in DOMAIN attrs : attrs[i].name = name}

(* mxml_set_attr                                                            *)
WithAttr(attrs, name, value) ==
  IF Place(attrs, name) = {} THEN Append(attrs, [name |-> name, value |-> value])
  ELSE [i \in DOMAIN attrs |-> IF i \in Place(attrs, name) THEN [attrs[i] EXCEPT !.value = value]
                               ELSE attrs[i]]

(* mxmlElementDeleteAttr                                                    *)
WithoutAttr(attrs, name) ==
  IF Place(attrs, name) = {} THEN attrs
  ELSE RemoveAt(attrs, CHOOSE i \in Place(attrs, name) : TRUE)

Changed(attrs, change) ==
  IF change.call = "set" THEN WithAttr(attrs, change.name, change.value)
  ELSE WithoutAttr(attrs, change.name)

AttrsAfter(changes) == FoldLeft(Changed, <<>>, changes)

-----------------------------------------------------------------------------
(* mxmlEntityGetName                                                        *)
EntityName(ch) == CASE ch = "&" -> "A" [] ch = "<" -> "L" [] ch = ">" -> "G" [] ch = "\"" -> "Q"

(* Mutant of Escaped: quotes stand for themselves.                          *)
EscapedButQuotes(value) ==
  FlattenSeq([i \in DOMAIN value |->
    IF value[i] \in {"&", "<", ">"} THEN <<"&", EntityName(value[i]), ";">> ELSE <<value[i]>>])

(* mxml_write_string                                                        *)
Escaped(value) ==
  FlattenSeq([i \in DOMAIN value |->
    IF value[i] \in {"&", "<", ">", "\""} THEN <<"&", EntityName(value[i]), ";">> ELSE <<value[i]>>])

(* mxml_write_name: names are not translated, quoted ones within.           *)
WrittenName(name) ==
  IF CharAt(name, 1) \notin {"\"", "'"} THEN name
  ELSE LET ends == {i \in 2..Len(name) : name[i] = name[1]}
           end == IF ends = {} THEN Len(name) + 1 ELSE CHOOSE i \in ends : \A j \in ends : i <= j
       IN  <<name[1]>> \o Escaped(SubSeq(name, 2, end - 1)) \o <<name[1]>>

(* One attribute; where the line becomes too long it begins a new one.      *)
WriteAttr(wrap, out, attr) ==
  LET width == Len(attr.name) + Len(attr.value) + 3
      breaks == wrap > 0 /\ out.col + width > wrap
  IN  [text |-> out.text \o <<IF breaks THEN "newline" ELSE " ">> \o WrittenName(attr.name)
                  \o <<"=", "\"">> \o Escaped(attr.value) \o <<"\"">>,
       col |-> (IF breaks THEN 0 ELSE out.col + 1) + width]

(* mxml_write_node: the tag behind its name.                                *)
WrittenTag(attrs, wrap, empty) ==
  LET write(out, attr) == WriteAttr(wrap, out, attr)
  IN  FoldLeft(write, [text |-> <<>>, col |-> 2], attrs).text
        \o (IF empty THEN <<" ", "/", ">">> ELSE <<">">>)

-----------------------------------------------------------------------------
(* mxml_get_entity, behind an &: a name, and a semicolon behind it.         *)
EntityAt(s, i) ==
  LET ends == {j \in i..(Len(s) + 1) : CharAt(s, j) \in {END, ";", "&", "<", ">", "=", "/", "?", "\"", "'"} \cup Spaces}
      end == CHOOSE j \in ends : \A k \in ends : j <= k
      name == SubSeq(s, i, end - 1)
  IN  [ch |-> IF CharAt(s, end) = ";" /\ name \in DOMAIN Entities THEN Entities[name] ELSE END,
       at |-> end + 1]

(* Characters from i on until one of stops, which was read too; the end of  *)
(* the text is a stop.  A word in which an entity is refused is not ok.     *)
RECURSIVE Word(_, _, _, _)
Word(s, i, stops, text) ==
  LET ch == CharAt(s, i)
      entity == EntityAt(s, i + 1)
  IN  IF ch \in stops \cup {END} THEN [ok |-> TRUE, text |-> text, stop |-> ch, at |-> i + 1]
      ELSE IF ch # "&" THEN Word(s, i + 1, stops, Append(text, ch))
      ELSE IF entity.ch = END THEN [ok |-> FALSE]
      ELSE Word(s, entity.at, stops, Append(text, entity.ch))

RECURSIVE SkipSpaces(_, _)
SkipSpaces(s, i) == IF CharAt(s, i) \in Spaces THEN SkipSpaces(s, i + 1) ELSE i

(* Mutant of ValueAt: the closing quote may be of the other kind.           *)
ValueAtAnyQuote(s, i) ==
  IF CharAt(s, i) \in {"\"", "'"} THEN Word(s, i + 1, {"\"", "'"}, <<>>)
  ELSE Word(s, i + 1, Spaces \cup {"=", "/", ">"}, <<s[i]>>)

(* A value with quotes or without, whose first character may be any then.   *)
ValueAt(s, i) ==
  IF CharAt(s, i) \in {"\"", "'"} THEN Word(s, i + 1, {CharAt(s, i)}, <<>>)
  ELSE Word(s, i + 1, Spaces \cup {"=", "/", ">"}, <<s[i]>>)

Tag(ok, end, attrs) == [ok |-> ok, end |-> end, attrs |-> attrs]

(* The end of the tag: > or two characters.                                 *)
TagEnd(s, i, attrs) ==
  IF CharAt(s, i) = ">" \/ CharAt(s, i + 1) = ">" THEN Tag(TRUE, CharAt(s, i), attrs)
  ELSE Tag(FALSE, END, attrs)

(* mxml_parse_element.  A quoted name is always refused: what stands behind *)
(* the quote is not looked at.                                              *)
RECURSIVE TagFrom(_, _, _)
TagFrom(s, start, attrs) ==
  LET i == SkipSpaces(s, start)
      name == Word(s, i + 1, Spaces \cup {"=", "/", ">", "?"}, <<CharAt(s, i)>>)
      equals == IF name.stop \in Spaces THEN SkipSpaces(s, name.at) ELSE name.at - 1
      first == SkipSpaces(s, equals + 1)
      value == ValueAt(s, first)
      all == WithAttr(attrs, name.text, value.text)
  IN  CASE CharAt(s, i) \in {"/", "?", ">"} -> TagEnd(s, i, attrs)
        [] CharAt(s, i) \in {END, "<", "\"", "'"} -> Tag(FALSE, END, attrs)
        [] OTHER ->
             IF ~name.ok THEN Tag(FALSE, END, attrs)
             ELSE IF Place(attrs, name.text) # {} \/ CharAt(s, equals) # "=" \/ CharAt(s, first) = END
               THEN Tag(FALSE, END, attrs)
             ELSE IF ~value.ok THEN Tag(FALSE, END, attrs)
             ELSE IF CharAt(s, first) \in {"\"", "'"} \/ value.stop \in Spaces \cup {"=", END}
               THEN TagFrom(s, value.at, all)
             ELSE TagEnd(s, value.at - 1, all)

ParsedTag(s) == TagFrom(s, 1, <<>>)

-----------------------------------------------------------------------------
(* _mxml_entity_cb: the place of a name in a table of count sorted names,   *)
(* here the even numbers, counted from 0; or -1.                            *)
NameAt(i) == 2 * i

RECURSIVE Narrowed(_, _, _)
Narrowed(name, first, last) ==
  LET current == (first + last) \div 2
  IN  IF last - first <= 1 THEN <<first, last>>
      ELSE IF name = NameAt(current) THEN <<current, current>>
      ELSE IF name < NameAt(current) THEN Narrowed(name, first, current)
      ELSE Narrowed(name, current, last)

Lookup(name, count) ==
  LET range == Narrowed(name, 0, count - 1)
  IN  IF name = NameAt(range[1]) THEN range[1]
      ELSE IF name = NameAt(range[2]) THEN range[2] ELSE -1

-----------------------------------------------------------------------------
ElementInit ==
  /\ question \in [of : {"attrs"}, changes : Changes, wrap : Wraps, empty : BOOLEAN]
             \cup [of : {"tag"}, text : TagTexts, wrap : Wraps]
             \cup [of : {"names"}, count : NameCounts]
  /\ answer = Unanswered

(* What was set and is written comes back.                                  *)
SaveAndLoad ==
  /\ Asked("attrs")
  /\ LET attrs == AttrsAfter(question.changes)
     IN  Answer([of |-> "attrs", attrs |-> attrs,
                 tag |-> ParsedTag(WrittenTag(attrs, question.wrap, question.empty))])

LoadSaveLoad ==
  /\ Asked("tag")
  /\ LET tag == ParsedTag(question.text)
     IN  Answer([of |-> "tag", tag |-> tag,
                 again |-> ParsedTag(WrittenTag(tag.attrs, question.wrap, FALSE))])

LookUp ==
  /\ Asked("names")
  /\ Answer([of |-> "names",
             found |-> [name \in -1..(2 * question.count) |-> Lookup(name, question.count)]])

ElementNext == SaveAndLoad \/ LoadSaveLoad \/ LookUp

-----------------------------------------------------------------------------
(* The last value an attribute was given, if it was not deleted since.      *)
Value(changes, name) ==
  LET about == {i \in DOMAIN changes : changes[i].name = name}
      last == changes[CHOOSE i \in about : \A j \in about : j <= i]
  IN  IF about = {} THEN {} ELSE IF last.call = "set" THEN {last.value} ELSE {}

(* Attributes that are set, deleted and set again are written and read back *)
(* as they are: each once, with its last value, whatever characters are in  *)
(* it and wherever lines are wrapped.                                       *)
SavedIsLoaded ==
  answer.of = "attrs" =>
    LET named == {question.changes[i].name : i \in DOMAIN question.changes}
    IN  /\ answer.tag = Tag(TRUE, IF question.empty THEN "/" ELSE ">", answer.attrs)
        /\ \A name \in named :
             {answer.tag.attrs[i].value : i \in Place(answer.tag.attrs, name)}
               = Value(question.changes, name)
        /\ \A i, j \in DOMAIN answer.tag.attrs :
             answer.tag.attrs[i].name = answer.tag.attrs[j].name => i = j

PlainName(name) == name # <<>> /\ ToSet(name) \cap (Spaces \cup {"&", "=", "/", ">", "?"}) = {}

(* A tag that was accepted, however badly it was written, is accepted with  *)
(* the same attributes when it has been saved, if there is nothing in their *)
(* names that names cannot hold: mxml_parse_element takes what it should    *)
(* not as a part of a value or name.                                        *)
LoadedIsSaved ==
  answer.of = "tag" /\ answer.tag.ok =>
    \/ answer.again = [answer.tag EXCEPT !.end = ">"]
    \/ \E i \in DOMAIN answer.tag.attrs : ~PlainName(answer.tag.attrs[i].name)

(* Every entity is found at its place in the table, and no other name.      *)
EntitiesFound ==
  answer.of = "names" =>
    \A name \in DOMAIN answer.found :
      answer.found[name] = IF name % 2 = 0 /\ name \div 2 \in 0..(question.count - 1)
                             THEN name \div 2 ELSE -1

(* Attributes survive saving and loading, and loading and saving.           *)
AttributesKept == SavedIsLoaded /\ LoadedIsSaved /\ EntitiesFound

-----------------------------------------------------------------------------
(* An index of nodes, sorted in place, and the search in it, which goes on  *)
(* where the last one ended.  A document is the sequence of its elements in *)
(* document order, the first of them on top.  Names and values are numbers, *)
(* which compare like the strings they stand for.                           *)

(* mxmlIndexNew: the top itself is in the index of everything only.         *)
Indexed(elements, criteria) ==
  LET chosen(n) == /\ criteria.element \in {NoKey, n.name}
                   /\ criteria.attr => n.value # NoValue
  IN  IF criteria.element = NoKey /\ ~criteria.attr THEN elements
      ELSE SelectSeq(Tail(elements), chosen)

(* index_compare                                                            *)
Above(attr, n, m) == n.name > m.name \/ (n.name = m.name /\ attr /\ n.value > m.value)

Swapped(nodes, i, j) == [nodes EXCEPT ![i] = nodes[j], ![j] = nodes[i]]

(* The loop of index_sort that parts the nodes from left to right.          *)
RECURSIVE Parted(_, _, _, _, _, _, _)
Parted(attr, nodes, pivot, left, right, templ, tempr) ==
  IF templ >= tempr THEN [nodes |-> nodes, at |-> tempr]
  ELSE LET ls == {l \in templ..right : l = right \/ Above(attr, nodes[l], pivot)}
           rs == {r \in left..tempr : r = left \/ ~Above(attr, nodes[r], pivot)}
           l == CHOOSE x \in ls : \A y \in ls : x <= y
           r == CHOOSE x \in rs : \A y \in rs : x >= y
       IN  Parted(attr, IF l < r THEN Swapped(nodes, l, r) ELSE nodes, pivot, left, right, l, r)

(* Mutant of Sorted: the pivot is not brought to its place.                 *)
RECURSIVE SortedAsParted(_, _, _, _)
SortedAsParted(attr, nodes, left, right) ==
  LET parted == Parted(attr, nodes, nodes[left], left, right, left, right)
      at == parted.at
      front == IF left < at - 1 THEN SortedAsParted(attr, parted.nodes, left, at - 1) ELSE parted.nodes
  IN  IF right > at + 1 THEN SortedAsParted(attr, front, at + 1, right) ELSE front

(* index_sort                                                               *)
RECURSIVE Sorted(_, _, _, _)
Sorted(attr, nodes, left, right) ==
  LET pivot == nodes[left]
      parted == Parted(attr, nodes, pivot, left, right, left, right)
      at == parted.at
      placed == IF Above(attr, pivot, parted.nodes[at])
                  THEN [parted.nodes EXCEPT ![left] = parted.nodes[at], ![at] = pivot]
                  ELSE parted.nodes
      front == IF left < at - 1 THEN Sorted(attr, placed, left, at - 1) ELSE placed
  IN  IF right > at + 1 THEN Sorted(attr, front, at + 1, right) ELSE front

IndexNew(elements, criteria) ==
  LET nodes == Indexed(elements, criteria)
  IN  [attr |-> criteria.attr, cur_node |-> 1,
       nodes |-> IF Len(nodes) > 1 THEN Sorted(criteria.attr, nodes, 1, Len(nodes)) ELSE nodes]

(* index_find: what is looked for is below, at or above a node.             *)
Below(search, node) ==
  \/ search.element # NoKey /\ search.element < node.name
  \/ search.value # NoKey /\ search.element \in {NoKey, node.name} /\ search.value < node.value

Fits(search, node) == search.element \in {NoKey, node.name} /\ search.value \in {NoKey, node.value}

(* The binary search; a node that fits is followed back to the first.       *)
RECURSIVE FirstFit(_, _, _, _)
FirstFit(nodes, search, first, last) ==
  LET current == (first + last) \div 2
      run == {i \in 1..current : \A j \in i..current : Fits(search, nodes[j])}
      rest == {i \in first..last : Fits(search, nodes[i])}
  IN  IF last - first <= 1
        THEN IF rest = {} THEN 0 ELSE CHOOSE i \in rest : \A j \in rest : i <= j
      ELSE IF Fits(search, nodes[current]) THEN CHOOSE i \in run : \A j \in run : i <= j
      ELSE IF Below(search, nodes[current]) THEN FirstFit(nodes, search, first, current)
      ELSE FirstFit(nodes, search, current, last)

NoSearch == [element |-> NoKey, value |-> NoKey]

(* mxmlIndexFind: the place of the node, or 0; cur_node is behind it.       *)
IndexFind(index, search) ==
  LET n == Len(index.nodes)
      refused == ~index.attr /\ search.value # NoKey
      at == CASE refused -> 0
              [] ~refused /\ search = NoSearch ->
                   IF index.cur_node <= n THEN index.cur_node ELSE 0
              [] ~refused /\ search # NoSearch /\ n > 0 /\ index.cur_node = 1 ->
                   FirstFit(index.nodes, search, 1, n)
              [] OTHER ->
                   IF index.cur_node > n THEN 0
                   ELSE IF Fits(search, index.nodes[index.cur_node]) THEN index.cur_node ELSE 0
  IN  [at |-> at,
       index |-> [index EXCEPT !.cur_node = IF refused THEN @ ELSE IF at = 0 THEN n + 1 ELSE at + 1]]

(* Calls until one finds nothing.                                           *)
RECURSIVE FoundFrom(_, _)
FoundFrom(index, search) ==
  LET call == IndexFind(index, search)
  IN  IF call.at = 0 THEN <<>>
      ELSE <<index.nodes[call.at]>> \o FoundFrom(call.index, search)

IndexInit ==
  /\ question \in [of : {"index"}, elements : Elements, criteria : Criteria]
  /\ answer = Unanswered

FindInIndex ==
  /\ Asked("index")
  /\ LET index == IndexNew(question.elements, question.criteria)
     IN  Answer([of |-> "index", nodes |-> index.nodes,
                 found |-> [search \in Searches |-> FoundFrom(index, search)]])

IndexNext == FindInIndex

-----------------------------------------------------------------------------
CountIn(s, n) == Len(SelectSeq(s, LAMBDA m : m = n))

(* Whatever is indexed, in whatever order it stands in the document, all    *)
(* that fits and nothing else is found, one call after the other: the sort  *)
(* loses nothing and orders what the binary search relies on.  Nothing is   *)
(* promised of a value alone where elements differ: they come first in the  *)
(* order.                                                                   *)
IndexFindsAll ==
  answer.of = "index" =>
    LET chosen == Indexed(question.elements, question.criteria)
    IN  \A search \in Searches :
          \/ search.element = NoKey /\ search.value # NoKey
             /\ \E i, j \in DOMAIN chosen : chosen[i].name # chosen[j].name
          \/ ~question.criteria.attr /\ search.value # NoKey
          \/ \A i \in DOMAIN chosen :
               CountIn(answer.found[search], chosen[i])
                 = IF Fits(search, chosen[i]) THEN CountIn(chosen, chosen[i]) ELSE 0
=============================================================================
