------------------------------ MODULE MxmlLoad ------------------------------
(***************************************************************************)
(* mxml_load_data of mxml-file.c, as x2r_station_service_load calls it: no *)
(* tree to start from, text kept as it is (MXML_OPAQUE), no SAX; then the  *)
(* search for the root, the list of its networks, and mxmlDelete.          *)
(*                                                                         *)
(* A text is a sequence of pieces: tags, comments, runs of characters.     *)
(* It may end inside its last piece; a character that cannot be decoded    *)
(* ends it as well, but for one behind the name of an end tag, where the    *)
(* code reads on in the middle of the tag (left out).  A piece with an     *)
(* attribute, a name or an entity that is refused is marked "bad".         *)
(***************************************************************************)
EXTENDS MxmlTree, FiniteSets, SequencesExt

CONSTANTS Trees,       \* what documents are made of: see Tags
          Documents,   \* what is written: see Text
          Harms        \* what happens to it: see Harmed

VARIABLES source,   \* the document
          harm,
          text,     \* the pieces that are left of it
          pos,      \* the piece that is read next
          name,     \* the names of elements; values are #text and #space
          parent,   \* the element that is open, as the code calls it
          first,    \* the first node there was
          type,     \* what becomes of characters: "ignore" or "opaque"
          buffer,   \* what characters wait for the next tag
          doc,      \* what mxml_load_data returned
          read,     \* the children of the root the converter found
          pc

load_vars == <<source, harm, text, pos, name, parent, first, type, buffer, doc, read, pc>>
input == <<source, harm, text>>
all_vars == <<vars, load_vars>>

(* form: "whole", or where the text ends: in the name, right behind it, in   *)
(* the rest of the tag; or "bad".                                           *)
Piece(kind, label) == [kind |-> kind, name |-> label, form |-> "whole"]

Space == Piece("space", "none")
Comment == Piece("comment", "comment")
Declaration == Piece("instruction", "?xml")
DocumentType == Piece("declaration", "!DOCTYPE")
Data == Piece("cdata", "![CDATA[")

-----------------------------------------------------------------------------
(* A document: what stands before and after the root, the networks in it,   *)
(* each an element with its children, and whether its tags are set apart.   *)
Element(label, children) == [name |-> label, children |-> children]

Root(d) == Element("FDSNStationXML", d.networks)

Tags(root, gap) ==
  LET tags[tree \in Trees] ==
        CASE tree.name = "#text" -> <<Piece("chars", "none")>>
          [] tree.name = "comment" -> <<Comment>> \o gap
          [] tree.name \notin {"#text", "comment"} /\ tree.children = <<>> ->
               <<Piece("empty", tree.name)>> \o gap
          [] OTHER ->
               <<Piece("open", tree.name)>>
                 \o (IF tree.children[1].name = "#text" THEN <<>> ELSE gap)
                 \o FlattenSeq([i \in DOMAIN tree.children |-> tags[tree.children[i]]])
                 \o <<Piece("close", tree.name)>> \o gap
  IN  tags[root]

Text(d) == d.before \o Tags(Root(d), IF d.spaced THEN <<Space>> ELSE <<>>) \o d.after

(* Elements hold elements and text, to some depth, and text is in one piece. *)
ASSUME TreesAssumption ==
  /\ \A tree \in Trees :
       /\ tree \in [name : STRING, children : Seq(Trees)]
       /\ tree.name \notin {Declaration.name, DocumentType.name, Data.name, "#space"}
       /\ tree.name \in {"#text", "comment"} => tree.children = <<>>
       /\ \A i \in 1..(Len(tree.children) - 1) :
            tree.children[i].name # "#text" \/ tree.children[i + 1].name # "#text"
  /\ \A S \in SUBSET Trees :
       S # {} => \E tree \in S : \A i \in DOMAIN tree.children : tree.children[i] \notin S

Beside == {Space, Comment, Declaration, DocumentType, Data}

ASSUME DocumentsAssumption ==
  \A d \in Documents :
    /\ d \in [before : Seq(Beside), networks : Seq(Trees), after : Seq(Beside), spaced : BOOLEAN]
    /\ Root(d) \in Trees

(* The text may end inside a piece or between two, a piece may be unreadable *)
(* or, if it is an end tag, have the name of another.                       *)
NoHarm == [at |-> 0, form |-> "whole"]

Harmed(t, h) ==
  CASE h.at = 0 -> t
    [] h.at # 0 /\ h.form \in {"bad", "other"} ->
         IF h.form = "other" THEN [t EXCEPT ![h.at].name = "other"]
         ELSE [t EXCEPT ![h.at].form = "bad"]
    [] OTHER -> [SubSeq(t, 1, h.at) EXCEPT ![h.at].form = h.form]

ASSUME HarmsAssumption ==
  \A h \in Harms : h \in [at : Nat, form : {"whole", "in_name", "behind_name", "in_rest", "bad", "other"}]

(* The harms that a text can come to.                                       *)
CanHarm(t, h) ==
  \/ h = NoHarm
  \/ /\ h.at \in DOMAIN t
     /\ h.form = "other" => t[h.at].kind = "close"
     /\ h.form = "whole" => h.at < Len(t)
     /\ h.form \notin {"whole", "bad"} => t[h.at].kind \notin {"chars", "space"}
     /\ h.form = "bad" => t[h.at].kind \in {"chars", "open", "empty"}

-----------------------------------------------------------------------------
LoadInit ==
  /\ Init
  /\ source \in Documents
  /\ harm \in {h \in Harms : CanHarm(Text(source), h)}
  /\ text = Harmed(Text(source), harm)
  /\ pos = 1
  /\ name = [n \in Node |-> "none"]
  /\ parent = NULL
  /\ first = NULL
  /\ type = "ignore"
  /\ buffer = "empty"
  /\ doc = NULL
  /\ read = <<>>
  /\ pc = "reading"

Here == text[pos]

Reading == pc = "reading" /\ Idle /\ pos <= Len(text)

(* Characters collect in the buffer, spaces only where they count.          *)
Characters ==
  /\ Reading
  /\ Here.kind \in {"chars", "space"}
  /\ Here.form # "bad"
  /\ buffer' = IF Here.kind = "chars" THEN "#text"
               ELSE IF type = "opaque" /\ buffer = "empty" THEN "#space" ELSE buffer
  /\ pos' = pos + 1
  /\ UNCHANGED <<vars, input, name, parent, first, type, doc, read, pc>>

(* The address the next node gets, of which there are always more.          *)
Fresh == CHOOSE n \in Node : n \notin live

NewNode(label) ==
  /\ Fresh \in Node
  /\ New(Fresh, parent)
  /\ name' = [name EXCEPT ![Fresh] = label]

(* A tag ends them: they become a value of the open element, or of none.    *)
Flush ==
  /\ Reading
  /\ Here.kind \notin {"chars", "space"}
  /\ buffer # "empty"
  /\ buffer' = "empty"
  /\ IF type = "ignore" THEN UNCHANGED <<vars, name, first>>
     ELSE /\ NewNode(buffer)
          /\ first' = IF first = NULL THEN Fresh ELSE first
  /\ UNCHANGED <<input, pos, parent, type, doc, read, pc>>

(* Mutant of Error: what there is is left to whoever holds it.              *)
ErrorKeeping ==
  /\ pc' = "refused"
  /\ UNCHANGED <<vars, input, pos, name, parent, first, type, buffer, doc, read>>

(* The label error: what hangs from the first node is deleted.              *)
Error ==
  /\ IF first = NULL THEN UNCHANGED vars ELSE Delete(first)
  /\ pc' = "refused"
  /\ UNCHANGED <<input, pos, name, parent, first, type, buffer, doc, read>>

AtTag == Reading /\ buffer = "empty"

(* There can be one root only, which may be a comment.                      *)
SecondRoot == parent = NULL /\ first # NULL

(* An element under the open one, and the first of all if there is none.    *)
NewElement ==
  /\ NewNode(Here.name)
  /\ first' = IF first = NULL THEN Fresh ELSE first
  /\ pos' = pos + 1

(* Comments and CDATA are elements without content.                         *)
Aside ==
  /\ AtTag
  /\ Here.kind \in {"comment", "cdata"}
  /\ Here.form = "whole"
  /\ ~SecondRoot
  /\ NewElement
  /\ UNCHANGED <<input, parent, type, buffer, doc, read, pc>>

(* Instructions and declarations become the parent of what follows if they  *)
(* come first.                                                              *)
Prolog ==
  /\ AtTag
  /\ Here.kind \in {"instruction", "declaration"}
  /\ Here.form = "whole"
  /\ ~SecondRoot
  /\ NewElement
  /\ parent' = IF parent = NULL THEN Fresh ELSE parent
  /\ type' = "opaque"
  /\ UNCHANGED <<input, buffer, doc, read, pc>>

(* Mutant of Open: an element is open until its end tag, empty or not.      *)
OpenAlways ==
  /\ AtTag
  /\ Here.kind \in {"open", "empty"}
  /\ Here.form = "whole"
  /\ ~SecondRoot
  /\ NewElement
  /\ parent' = Fresh
  /\ type' = "opaque"
  /\ UNCHANGED <<input, buffer, doc, read, pc>>

Open ==
  /\ AtTag
  /\ Here.kind \in {"open", "empty"}
  /\ Here.form = "whole"
  /\ ~SecondRoot
  /\ NewElement
  /\ IF Here.kind = "open" THEN parent' = Fresh /\ type' = "opaque"
     ELSE UNCHANGED <<parent, type>>
  /\ UNCHANGED <<input, buffer, doc, read, pc>>

(* The text ends in or right behind the name of the tag, of which there may *)
(* be nothing yet: an element of that name is there all the same, and the   *)
(* loop is left.                                                            *)
OpenCut ==
  /\ AtTag
  /\ Here.kind \in {"open", "empty"}
  /\ Here.form \in {"in_name", "behind_name"}
  /\ ~SecondRoot
  /\ NewNode(IF Here.form = "in_name" THEN "part" ELSE Here.name)
  /\ first' = IF first = NULL THEN Fresh ELSE first
  /\ pos' = pos + 1
  /\ UNCHANGED <<input, parent, type, buffer, doc, read, pc>>

(* Attributes that cannot be read, or end: the element is in the tree, but  *)
(* not the first node yet.                                                  *)
OpenBad ==
  /\ AtTag
  /\ \/ Here.kind \in {"open", "empty"} /\ Here.form = "bad"
     \/ Here.kind = "open" /\ Here.form = "in_rest"
  /\ ~SecondRoot
  /\ NewNode(Here.name)
  /\ pos' = pos + 1
  /\ pc' = "failing"
  /\ UNCHANGED <<input, parent, first, type, buffer, doc, read>>

(* <name/ and no >: the element is deleted before all others.  It is new    *)
(* and has no children: it comes and goes.                                  *)
EmptyCut ==
  /\ AtTag
  /\ Here.kind = "empty"
  /\ Here.form = "in_rest"
  /\ ~SecondRoot
  /\ pos' = pos + 1
  /\ pc' = "failing"
  /\ UNCHANGED <<vars, input, name, parent, first, type, buffer, doc, read>>

(* The end tag of the open element; the text may end before its >, whatever *)
(* character it is that is missed.                                          *)
Close ==
  /\ AtTag
  /\ Here.kind = "close"
  /\ Here.form \in {"whole", "behind_name", "in_rest"}
  /\ parent # NULL
  /\ name[parent] = Here.name
  /\ parent' = links.parent[parent]
  /\ pos' = pos + 1
  /\ UNCHANGED <<vars, input, name, first, type, buffer, doc, read, pc>>

(* Everything else is refused.                                              *)
Refuse ==
  /\ \/ pc = "failing"
     \/ Reading /\ Here.kind \in {"chars", "space"} /\ Here.form = "bad"
     \/ /\ AtTag
        /\ \/ Here.kind \in {"comment", "cdata", "instruction", "declaration"}
              /\ (Here.form # "whole" \/ SecondRoot)
           \/ Here.kind \in {"open", "empty"} /\ SecondRoot
           \/ Here.kind = "close"
              /\ \/ Here.form \in {"in_name", "bad"}
                 \/ parent = NULL
                 \/ name[parent] # Here.name
  /\ Error

-----------------------------------------------------------------------------
Outermost == CHOOSE r \in UpFrom(links, parent) : links.parent[r] = NULL

(* Mutant of TextEnds: the root is climbed to, but not compared.            *)
TextEndsAnywhere ==
  /\ pc = "reading"
  /\ pos > Len(text)
  /\ doc' = IF parent = NULL THEN first ELSE Outermost
  /\ pc' = IF doc' = NULL THEN "refused" ELSE "loaded"
  /\ UNCHANGED <<vars, input, pos, name, parent, first, type, buffer, read>>

(* At the end the open element must be the outermost: a declaration, but    *)
(* also a root that was not closed.                                         *)
TextEnds ==
  /\ pc = "reading"
  /\ pos > Len(text)
  /\ IF parent # NULL /\ parent # Outermost THEN Error
     ELSE /\ doc' = IF parent = NULL THEN first ELSE parent
          /\ pc' = IF doc' = NULL THEN "refused" ELSE "loaded"
          /\ UNCHANGED <<vars, input, pos, name, parent, first, type, buffer, read>>

(* mxmlFindElement with MXML_DESCEND_FIRST: the children, one after another.*)
ChildrenOf(n) ==
  LET from[m \in Node] == <<m>> \o IF links.next[m] = NULL THEN <<>> ELSE from[links.next[m]]
  IN  IF links.child[n] = NULL THEN <<>> ELSE from[links.child[n]]

Named(n, label) == SelectSeq(ChildrenOf(n), LAMBDA c : name[c] = label)

FdsnStationXml ==
  IF name[doc] = "FDSNStationXML" THEN doc
  ELSE IF Named(doc, "FDSNStationXML") # <<>> THEN Named(doc, "FDSNStationXML")[1]
  ELSE NULL

(* What is below a node, as the converter sees it: elements and text.       *)
TreeOf(n) ==
  LET seen(m) == SelectSeq(ChildrenOf(m), LAMBDA c : name[c] \notin {"#space", "comment"})
      tree[m \in Node] == [name |-> name[m],
                           children |-> [i \in DOMAIN seen(m) |-> tree[seen(m)[i]]]]
  IN  tree[n]

(* x2r_parse_fdsn_station_xml as far as its networks; then the document is  *)
(* deleted, whatever came of it.                                            *)
Convert ==
  /\ pc = "loaded"
  /\ IF FdsnStationXml = NULL THEN pc' = "refused" /\ UNCHANGED read
     ELSE LET networks == Named(FdsnStationXml, "Network")
          IN  /\ read' = [i \in DOMAIN networks |-> TreeOf(networks[i])]
              /\ pc' = "converted"
  /\ Delete(doc)
  /\ UNCHANGED <<input, pos, name, parent, first, type, buffer, doc>>

Freeing == DeleteLoop /\ UNCHANGED load_vars

LoadNext ==
  \/ Characters \/ Flush \/ Aside \/ Prolog \/ Open \/ OpenCut \/ OpenBad \/ EmptyCut
  \/ Close \/ Refuse \/ TextEnds \/ Convert \/ Freeing

LoadSpec == LoadInit /\ [][LoadNext]_all_vars

-----------------------------------------------------------------------------
Finished == pc \in {"converted", "refused"} /\ Idle

LoadTypeOK ==
  /\ TypeOK
  /\ pos \in 1..(Len(text) + 1)
  /\ parent \in Node \cup {NULL}
  /\ first \in Node \cup {NULL}
  /\ doc \in Node \cup {NULL}
  /\ type \in {"ignore", "opaque"}
  /\ buffer \in {"empty", "#text", "#space"}
  /\ pc \in {"reading", "failing", "loaded", "converted", "refused"}

Declared == source.before # <<>> /\ source.before[1].kind \in {"instruction", "declaration"}

Asides(pieces) == \E i \in DOMAIN pieces : pieces[i].kind \notin {"space", "chars"}

WithoutComments(root) ==
  LET without[tree \in Trees] ==
        LET kept == SelectSeq(tree.children, LAMBDA c : c.name # "comment")
        IN  Element(tree.name, [i \in DOMAIN kept |-> without[kept[i]]])
  IN  without[root]

(* The networks as they were written.                                       *)
NetworksWritten ==
  SelectSeq(WithoutComments(Root(source)).children, LAMBDA c : c.name = "Network")

(* A document nothing has happened to is loaded, and its networks are read  *)
(* with all that is in them, in their order, whatever spaces and comments   *)
(* are between: mxml_load_data keeps the open element in step with the tags.*)
(* A document without declaration must have nothing beside its root.        *)
LoadedAsWritten ==
  Finished /\ harm = NoHarm /\ (Declared \/ ~Asides(source.before \o source.after)) =>
    pc = "converted" /\ read = NetworksWritten

(* The place of the root's start tag in the text.                           *)
RootAt == CHOOSE i \in DOMAIN text : text[i].name \in {"FDSNStationXML", "part"}

(* A document that lost its end, or holds what cannot be read, is refused   *)
(* unless all of its networks are there.  Where it loses its end directly   *)
(* below a root that no declaration precedes, or in the root's start tag,   *)
(* that goes unnoticed: the networks before are read, and the name of one   *)
(* may be there already.                                                    *)
HarmRefused ==
  pc = "converted" /\ harm # NoHarm =>
    \/ read = NetworksWritten
    \/ /\ ~Declared \/ harm.at = RootAt
       /\ \/ IsPrefix(read, NetworksWritten)
          \/ /\ IsPrefix(Front(read), NetworksWritten)
             /\ Last(read) = Element("Network", <<>>)

(* However loading and conversion end, every node is freed, and none while  *)
(* the loop is still at it, except for one of two: the root, if its own     *)
(* start tag is refused, and text between the end of a root without         *)
(* declaration and a further tag.                                           *)
DocumentFreed ==
  /\ CurrentIsLive
  /\ Finished /\ live # {} =>
       /\ ~Declared
       /\ pc = "refused"
       /\ Cardinality(live) = 1
       /\ \A n \in live : name[n] \in {"FDSNStationXML", "#space", "#text"}
=============================================================================
