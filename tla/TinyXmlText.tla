----------------------------- MODULE TinyXmlText -----------------------------
(***************************************************************************)
(* How TinyXML prints a document and parses a text                         *)
(* (libsouth_interface/tinyxml.cpp and tinyxmlparser.cpp), with white      *)
(* space condensed, the default.                                           *)
(*                                                                         *)
(* A text is a sequence of characters and of character runs that the       *)
(* parser always takes together: a name, the digits of a character         *)
(* reference, a named entity, "!--" and the like.  All white space is " ", *)
(* so indentation and line breaks are one " ".  A position p is 0 for the  *)
(* null pointer and Len + 1 for the terminating zero.  An encoding changes *)
(* which bytes make up a character, not how characters are parsed.         *)
(*                                                                         *)
(* A document is the sequence of its nodes.                                *)
(***************************************************************************)
EXTENDS Naturals, Sequences, SequencesExt

CONSTANT Names      \* runs of letters a name is made of

Digits == {"41", "26"}
FieldOrder == <<"version", "encoding", "standalone">>
Fields == ToSet(FieldOrder)
Words == Names \cup Fields

Element(n, as, ks) == [type |-> "element", value |-> n, attrs |-> as, kids |-> ks]
Leaf(t, v) == [type |-> t, value |-> v, attrs |-> <<>>, kids |-> <<>>]
Declaration(Value(_)) ==
  [type |-> "declaration", value |-> <<>>, kids |-> <<>>,
   attrs |-> [i \in 1..3 |-> [name |-> FieldOrder[i], value |-> Value(FieldOrder[i])]]]
IsText(n) == n.type \in {"text", "cdata"}
Has(s, x) == x \in ToSet(s)

-----------------------------------------------------------------------------
(* Printing.                                                               *)

\* mutant: the ampersand is not escaped
EntityOfMarkup(c) == CASE c = "<" -> "&lt;" [] c = ">" -> "&gt;" [] c = "\"" -> "&quot;"
                       [] c = "'" -> "&apos;" [] OTHER -> c
Entity(c) == CASE c = "&" -> "&amp;" [] c = "<" -> "&lt;" [] c = ">" -> "&gt;"
               [] c = "\"" -> "&quot;" [] c = "'" -> "&apos;" [] OTHER -> c

(* TiXmlBase::EncodeString: a hexadecimal reference is passed through, up to *)
(* its semicolon or to the last character.                                   *)
EncodeString(v) ==
  LET from[i \in 1..(Len(v) + 1)] ==
        IF i > Len(v) THEN <<>>
        ELSE IF v[i] # "&#x" THEN <<Entity(v[i])>> \o from[i + 1]
        ELSE LET stops == {j \in i + 1 .. Len(v) : v[j] = ";" \/ j = Len(v)}
                 stop == IF stops = {} THEN i + 1
                         ELSE CHOOSE j \in stops : \A k \in stops : j <= k
             IN SubSeq(v, i, stop - 1) \o from[stop]
  IN from[1]

(* TiXmlAttribute::Print. *)
Quote(v) == IF Has(v, "\"") THEN "'" ELSE "\""
PrintAttribute(a) ==
  <<" ", a.name, "=", Quote(a.value)>> \o EncodeString(a.value) \o <<Quote(a.value)>>

(* What a loop over the attributes meets: TiXmlAttribute::Next takes one     *)
(* with an empty name and an empty value for the end.                        *)
Empty(a) == a.name = "" /\ a.value = <<>>
Attributes(as) ==
  LET ends == {i \in 2..Len(as) : Empty(as[i])}
  IN IF ends = {} THEN as ELSE SubSeq(as, 1, (CHOOSE i \in ends : \A j \in ends : i <= j) - 1)

Concat(s, Op(_)) == FoldLeft(LAMBDA t, x : t \o Op(x), <<>>, s)

(* TiXmlDeclaration::Print: a field that is empty is left out. *)
PrintDeclaration(n) ==
  <<"<", "?xml", " ">>
    \o Concat(n.attrs, LAMBDA a : IF a.value = <<>> THEN <<>>
                                  ELSE <<a.name, "=", "\"">> \o a.value \o <<"\"", " ">>)
    \o <<"?", ">">>

PrintLeaf(n) ==
  CASE n.type = "declaration" -> PrintDeclaration(n)
    [] n.type = "comment" -> <<" ", "<", "!--">> \o n.value \o <<"--", ">">>
    [] n.type = "unknown" -> <<" ", "<">> \o n.value \o <<">">>
    [] n.type = "cdata" -> <<" ", "<", "![CDATA[">> \o n.value \o <<"]]", ">", " ">>
    [] n.type = "text" -> EncodeString(n.value)

StartTag(n) == <<"<", n.value>> \o Concat(Attributes(n.attrs), PrintAttribute)
EndTag(n) == <<"<", "/", n.value, ">">>
OnlyChild(n) == Len(n.kids) = 1 /\ IsText(n.kids[1])

(* Print to a file: TiXmlElement::Print. *)
RECURSIVE PrintNode(_)
PrintNode(n) ==
  IF n.type # "element" THEN PrintLeaf(n)
  ELSE <<" ">> \o StartTag(n) \o
       IF n.kids = <<>> THEN <<" ", "/", ">">>
       ELSE IF OnlyChild(n) THEN <<">">> \o PrintNode(n.kids[1]) \o EndTag(n)
       ELSE <<">">> \o Concat(n.kids, LAMBDA c : (IF IsText(c) THEN <<>> ELSE <<" ">>)
                                                   \o PrintNode(c))
              \o <<" ">> \o EndTag(n)

DocumentPrint(doc) == Concat(doc, LAMBDA n : PrintNode(n) \o <<" ">>)

(* Print to a string: TiXmlPrinter puts every node on a line of its own but  *)
(* a text that is an element's only child.                                   *)
RECURSIVE VisitNode(_)
VisitNode(n) ==
  IF n.type # "element" THEN <<" ">> \o PrintLeaf(n) \o <<" ">>
  ELSE <<" ">> \o StartTag(n) \o
       IF n.kids = <<>> THEN <<" ", "/", ">", " ">>
       ELSE IF OnlyChild(n) /\ n.kids[1].type = "text"
              THEN <<">">> \o PrintLeaf(n.kids[1]) \o EndTag(n) \o <<" ">>
       ELSE <<">", " ">> \o Concat(n.kids, VisitNode) \o <<" ">> \o EndTag(n) \o <<" ">>

DocumentPrintS(doc) == Concat(doc, VisitNode)

-----------------------------------------------------------------------------
(* Scanning.                                                               *)

At(T, p) == IF p \in DOMAIN T THEN T[p] ELSE "end"
Ends(T, p) == p = 0 \/ p = Len(T) + 1                        \* !p || !*p
Least(S, default) == IF S = {} THEN default ELSE CHOOSE i \in S : \A j \in S : i <= j

(* TiXmlBase::SkipWhiteSpace, null at the end of the text. *)
Skip(T, p) == IF Ends(T, p) THEN 0
              ELSE Least({i \in p..Len(T) : T[i] # " "}, Len(T) + 1)

(* The position after the name that begins at p, or null: ReadName. *)
ReadName(T, p) == IF At(T, p) \in Words THEN p + 1 ELSE 0

(* TiXmlBase::GetEntity and GetChar: where the character ends, null if a     *)
(* reference is wrong, and what it stands for.                               *)
Decoded(c) == CASE c = "41" -> "A" [] c = "26" -> "&"
GetChar(T, p) ==
  LET c == T[p]
      semicolon == Least({i \in p..Len(T) : T[i] = ";"}, 0)
  IN CASE c = "&#x" -> IF semicolon = p + 2 /\ T[p + 1] \in Digits
                         THEN [p |-> semicolon + 1, char |-> <<Decoded(T[p + 1])>>]
                         ELSE [p |-> 0, char |-> <<>>]
       [] c = "&" -> [p |-> p + 1, char |-> <<>>]
       [] c = "&amp;" -> [p |-> p + 1, char |-> <<"&">>]
       [] c = "&lt;" -> [p |-> p + 1, char |-> <<"<">>]
       [] c = "&gt;" -> [p |-> p + 1, char |-> <<">">>]
       [] c = "&quot;" -> [p |-> p + 1, char |-> <<"\"">>]
       [] c = "&apos;" -> [p |-> p + 1, char |-> <<"'">>]
       [] OTHER -> [p |-> p + 1, char |-> <<c>>]

PastEnd(T, r) == [r EXCEPT !.p = IF @ + 1 > Len(T) \/ @ = 0 THEN 0 ELSE @ + 1]

(* TiXmlBase::ReadText: up to the character end, which it skips; null if     *)
(* nothing follows it.  trim drops white space at both ends and leaves one   *)
(* space for any other.                                                      *)
ReadText(T, start, trim, end) ==
  LET read[p \in 0..(Len(T) + 1)] ==
        IF Ends(T, p) \/ At(T, p) = end THEN [p |-> p, text |-> <<>>]
        ELSE IF trim /\ T[p] = " "
          THEN LET q == Skip(T, p)
                   rest == read[q]
               IN [rest EXCEPT !.text = IF Ends(T, q) \/ At(T, q) = end THEN @ ELSE <<" ">> \o @]
        ELSE LET c == GetChar(T, p)
                 rest == read[c.p]
             IN [rest EXCEPT !.text = c.char \o @]
  IN PastEnd(T, read[IF trim THEN Skip(T, start) ELSE start])

-----------------------------------------------------------------------------
(* Parsing: each function returns the position after what it read, null if   *)
(* it failed, what it has built even then, and the error it reports.         *)

None == "none"
First(e1, e2) == IF e1 # None THEN e1 ELSE e2                \* SetError keeps the first
Read(p, v, e) == [p |-> p, got |-> v, err |-> e]

Until(T, p, Stop(_)) == Least({i \in p..Len(T) : Stop(i)}, Len(T) + 1)

ParseComment(T, p) ==
  LET stop == Until(T, p + 2, LAMBDA i : T[i] = "--" /\ At(T, i + 1) = ">")
  IN Read(IF Ends(T, stop) THEN stop ELSE stop + 2,
          Leaf("comment", SubSeq(T, p + 2, stop - 1)), None)

ParseUnknown(T, p) ==
  LET stop == Until(T, p + 1, LAMBDA i : T[i] = ">")
  IN Read(IF Ends(T, stop) THEN stop ELSE stop + 1,
          Leaf("unknown", SubSeq(T, p + 1, stop - 1)), None)

(* The text after "]]>" is skipped by ReadText, so null at the end. *)
ParseCData(T, p) ==
  LET stop == Until(T, p + 2, LAMBDA i : T[i] = "]]" /\ At(T, i + 1) = ">")
  IN Read(IF Ends(T, stop) \/ Ends(T, stop + 2) THEN 0 ELSE stop + 2,
          Leaf("cdata", SubSeq(T, p + 2, stop - 1)), None)

(* TiXmlText::Parse gives the < back. *)
ParseText(T, p) ==
  LET r == ReadText(T, p, TRUE, "<")
  IN Read(IF Ends(T, r.p) THEN 0 ELSE r.p - 1, Leaf("text", r.text), None)

(* TiXmlAttribute::Parse: the name at p, the = and the value.                *)
NoValue(T, p) == Read(0, [name |-> T[p], value |-> <<>>], "reading attributes")
Quoted(T, p, r) == Read(r.p, [name |-> T[p], value |-> r.text], None)
Unquoted(T, p, value, stop) ==
  IF At(T, stop) \in {"'", "\""} THEN NoValue(T, p)
  ELSE Read(stop, [name |-> T[p], value |-> SubSeq(T, value, stop - 1)], None)

ParseValue(T, p, value) ==
  IF Ends(T, value) THEN NoValue(T, p)
  ELSE IF T[value] \in {"'", "\""}
    THEN Quoted(T, p, ReadText(T, value + 1, FALSE, T[value]))
  ELSE Unquoted(T, p, value, Until(T, value, LAMBDA i : T[i] \in {" ", "/", ">", "'", "\""}))

ParseEquals(T, p, equals) ==
  IF At(T, equals) = "=" THEN ParseValue(T, p, Skip(T, equals + 1)) ELSE NoValue(T, p)

AttributeFrom(T, p) ==
  IF Ends(T, p) THEN Read(0, [name |-> "", value |-> <<>>], None)
  ELSE ParseEquals(T, p, Skip(T, ReadName(T, p)))

ParseAttribute(T, start) == AttributeFrom(T, Skip(T, start))

(* TiXmlDeclaration::Parse: other words are read over, and an attribute in   *)
(* it has no document to report an error to.                                 *)
DeclarationPart(T, q) ==
  IF Ends(T, q) THEN Read(0, <<>>, None)
  ELSE IF T[q] \in Fields THEN LET a == ParseAttribute(T, q) IN Read(a.p, <<a.got>>, None)
  ELSE Read(Until(T, IF T[q] = ">" THEN q ELSE q + 1, LAMBDA i : T[i] \in {">", " "}),
            <<>>, None)

DeclarationOf(r) ==
  LET Value(f) == LET given == SelectSeq(r.got, LAMBDA a : a.name = f)
                  IN IF given = <<>> THEN <<>> ELSE Last(given).value
  IN Read(r.p, Declaration(Value), None)

ParseDeclaration(T, start) ==
  LET from[p \in 0..(Len(T) + 1)] ==
        IF Ends(T, p) THEN Read(0, <<>>, None)
        ELSE IF T[p] = ">" THEN Read(p + 1, <<>>, None)
        ELSE LET part == DeclarationPart(T, Skip(T, p))
             IN [from[part.p] EXCEPT !.got = part.got \o @]
  IN DeclarationOf(from[start + 2])

(* TiXmlNode::Identify: what begins at the <. *)
Identify(T, p) ==
  LET c == At(T, p + 1)
  IN CASE c = "?xml" -> "declaration" [] c = "!--" -> "comment"
       [] c = "![CDATA[" -> "cdata" [] c \in Words -> "element" [] OTHER -> "unknown"

(* The attributes from start on, up to / or > or the end; a name given twice *)
(* is an error.                                                              *)
RECURSIVE ReadAttributes(_, _, _)
AttributesAfter(T, a, as) ==
  IF Ends(T, a.p) \/ (\E b \in ToSet(as) : b.name = a.got.name)
    THEN Read(0, as, First(a.err, "parsing element"))
  ELSE ReadAttributes(T, a.p, Append(as, a.got))

ReadAttributes(T, start, as) ==
  IF At(T, Skip(T, start)) \in {"/", ">", "end"} THEN Read(start, as, None)
  ELSE AttributesAfter(T, ParseAttribute(T, start), as)

(* TiXmlElement::Parse and ReadValue; the error of an inner node comes first. *)
RECURSIVE ParseElement(_, _), ReadValue(_, _)

ParseNode(T, p) ==
  LET type == Identify(T, p)
  IN CASE type = "declaration" -> ParseDeclaration(T, p)
       [] type = "comment" -> ParseComment(T, p)
       [] type = "cdata" -> ParseCData(T, p)
       [] type = "element" -> ParseElement(T, p)
       [] type = "unknown" -> ParseUnknown(T, p)

(* At the end tag, which closes at "close"; v is what ReadValue has read.    *)
ParseEndTag(T, name, as, v, close) ==
  IF Ends(T, v.p) THEN Read(0, Element(name, as, v.got), First(v.err, "reading end tag"))
  ELSE IF At(T, v.p + 2) # name \/ At(T, close) # ">"
    THEN Read(0, Element(name, as, v.got), "reading end tag")
  ELSE Read(close + 1, Element(name, as, v.got), None)

ParseContent(T, name, as, v) == ParseEndTag(T, name, as, v, Skip(T, v.p + 3))

(* At q, after the attributes. *)
ParseTagEnd(T, name, r, q) ==
  IF r.err # None THEN Read(0, Element(name, r.got, <<>>), r.err)
  ELSE IF Ends(T, q) THEN Read(0, Element(name, r.got, <<>>), "reading attributes")
  ELSE IF T[q] = ">" THEN ParseContent(T, name, r.got, ReadValue(T, q + 1))
  ELSE IF At(T, q + 1) = ">" THEN Read(q + 2, Element(name, r.got, <<>>), None)
  ELSE Read(0, Element(name, r.got, <<>>), "parsing empty")

ParseAfterAttributes(T, name, r) == ParseTagEnd(T, name, r, Skip(T, r.p))

ParseElement(T, start) ==
  IF Ends(T, start + 2)
    THEN Read(0, Element(T[start + 1], <<>>, <<>>), "failed to read element name")
  ELSE ParseAfterAttributes(T, T[start + 1], ReadAttributes(T, start + 2, <<>>))

Blank(n) == n.type = "text" /\ \A c \in ToSet(n.value) : c = " "

(* A node and those after it, as one result. *)
Before(node, rest) ==
  Read(rest.p, <<node.got>> \o rest.got, First(node.err, rest.err))

Kids(T, node) ==
  LET rest == ReadValue(T, node.p)
  IN IF Blank(node.got) THEN rest ELSE Before(node, rest)

KidsFrom(T, p) ==
  IF p = 0 THEN Read(0, <<>>, "reading element value")
  ELSE IF Ends(T, p) \/ (T[p] = "<" /\ At(T, p + 1) = "/") THEN Read(p, <<>>, None)
  ELSE Kids(T, IF T[p] = "<" THEN ParseNode(T, p) ELSE ParseText(T, p))

ReadValue(T, start) == KidsFrom(T, Skip(T, start))

(* TiXmlDocument::Parse: anything but a node ends it, silently. *)
Parse(T) ==
  LET from[p \in 0..(Len(T) + 1)] ==
        IF At(T, p) # "<" THEN Read(p, <<>>, None)
        ELSE LET node == ParseNode(T, p) IN Before(node, from[Skip(T, node.p)])
      r == from[Skip(T, 1)]
  IN [nodes |-> r.got, err |-> r.err]
=============================================================================
