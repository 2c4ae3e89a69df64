--------------------------- MODULE TinyXmlDocument ---------------------------
(***************************************************************************)
(* A TiXmlDocument and the file it is saved to and loaded from             *)
(* (libsouth_interface/tinyxml.cpp), with the printing and the parsing of  *)
(* TinyXmlText.  Saving truncates the file first, so that a full disk or a *)
(* crash leaves the beginning of what was printed; what does not fit may   *)
(* be noticed only by fclose, whose result is ignored.                     *)
(***************************************************************************)
EXTENDS TinyXmlText, FiniteSets

CONSTANTS
  Documents,      \* documents a caller builds
  Inputs,         \* texts it parses
  AttributeNames, AttributeValues,
  Null, MaxNodes

VARIABLES
  doc,            \* the nodes of the document
  error,          \* its error
  file,           \* the text in the file, or Null
  saved,          \* the document the file was written from, or Null
  loaded          \* doc is what LoadFile made of the file

docVars == <<doc, error, file, saved, loaded>>

Whole == file = DocumentPrint(saved)

DocInit ==
  /\ doc = <<>> /\ error = None
  /\ file = Null /\ saved = Null
  /\ loaded = FALSE

-----------------------------------------------------------------------------
(* A caller builds a new document, and goes on with it while it has no error *)
(* and the file, if there is one, holds what was saved.                      *)
Usable == error = None /\ (file # Null => Whole)

Build(d) ==
  /\ doc = <<>> /\ file = Null /\ Usable
  /\ doc' = d
  /\ loaded' = FALSE
  /\ UNCHANGED <<error, file, saved>>

(* The first element of the document, TiXmlDocument::RootElement. *)
Roots == {i \in DOMAIN doc : doc[i].type = "element"}
Root == CHOOSE i \in Roots : \A j \in Roots : i <= j

\* mutant: the attribute is added also when there is one
AddAttribute(as, n, v) == Append(as, [name |-> n, value |-> v])
(* TiXmlAttributeSet::FindOrCreate and SetValue; attributes are changed, and *)
(* texts parsed, before the document is first saved.                         *)
FindOrCreate(as, n, v) ==
  LET found == {i \in DOMAIN as : as[i].name = n}
  IN IF found = {} THEN Append(as, [name |-> n, value |-> v])
     ELSE [as EXCEPT ![CHOOSE i \in found : TRUE].value = v]

ChangeAttributes(as) ==
  /\ doc' = [doc EXCEPT ![Root].attrs = as]
  /\ loaded' = FALSE
  /\ UNCHANGED <<error, file, saved>>

SetAttribute(n, v) ==
  Usable /\ file = Null /\ Roots # {} /\ ChangeAttributes(FindOrCreate(doc[Root].attrs, n, v))
RemoveAttribute(n) ==
  Usable /\ file = Null /\ Roots # {} /\ ChangeAttributes(SelectSeq(doc[Root].attrs, LAMBDA a : a.name # n))

Saved(text) == text
SaveFile ==
  /\ Usable
  /\ file' = Saved(DocumentPrint(doc))
  /\ saved' = doc
  /\ loaded' = FALSE
  /\ UNCHANGED <<doc, error>>

(* Only the first n characters of what was written are in the file, and who  *)
(* wrote it is gone.                                                         *)
LoseTail(n) ==
  /\ file' = SubSeq(file, 1, n)
  /\ doc' = <<>> /\ error' = None /\ loaded' = FALSE
  /\ UNCHANGED saved

\* mutant: an error inside a node is forgotten
OutcomeIfEmpty(nodes, err) == IF nodes = <<>> THEN "document empty" ELSE None
(* SetError keeps an error there is; Parse forgets it first. *)
Outcome(nodes, err) == IF nodes = <<>> THEN First(err, "document empty") ELSE err

LoadFile ==
  /\ IF file = Null
       THEN doc' = doc /\ error' = First(error, "opening file") /\ loaded' = FALSE
       ELSE loaded' = TRUE /\
            IF file = <<>>
              THEN doc' = <<>> /\ error' = First(error, "document empty")
              ELSE \E r \in {Parse(file)} :
                     doc' = r.nodes /\ error' = Outcome(r.nodes, r.err)
  /\ UNCHANGED <<file, saved>>

(* Parse adds to the nodes there are. *)
ParseInput(T) ==
  \E r \in {Parse(T)} :
    /\ Usable /\ file = Null /\ Len(doc) < MaxNodes
    /\ doc' = doc \o r.nodes
    /\ error' = IF T = <<>> THEN "document empty" ELSE Outcome(doc', r.err)
    /\ loaded' = FALSE
    /\ UNCHANGED <<file, saved>>

Edit ==
  \/ \E d \in Documents : Build(d)
  \/ \E n \in AttributeNames, v \in AttributeValues : SetAttribute(n, v)
  \/ \E n \in AttributeNames : RemoveAttribute(n)
  \/ SaveFile
  \/ \E T \in Inputs : ParseInput(T)

Reread ==
  \/ file # Null /\ Whole /\ \E n \in 0..Len(file) - 1 : LoseTail(n)
  \/ LoadFile

-----------------------------------------------------------------------------
(* The documents that can be written at all: no value has what EncodeString  *)
(* passes through, a declaration's values have no quote, no comment, CDATA   *)
(* section or unknown node holds its own end, text is neither next to text   *)
(* nor begins or ends with white space nor has two spaces together.          *)
Trimmed(v) == /\ v # <<>> /\ v[1] # " " /\ Last(v) # " "
              /\ \A i \in 2..Len(v) : ~(v[i] = " " /\ v[i - 1] = " ")

EndMark == [comment |-> <<"--", ">">>, cdata |-> <<"]]", ">">>, unknown |-> <<">">>]
HoldsOwnEnd(n) ==
  \E i \in DOMAIN n.value : IsPrefix(EndMark[n.type], SubSeq(n.value, i, Len(n.value)))

RECURSIVE Printable(_)
Printable(n) ==
  /\ n.type \in DOMAIN EndMark => ~HoldsOwnEnd(n)
  /\ n.type = "text" => Trimmed(n.value) /\ ~Has(n.value, "&#x")
  /\ \A a \in ToSet(n.attrs) : ~Has(a.value, IF n.type = "declaration" THEN "\"" ELSE "&#x")
  /\ \A i \in DOMAIN n.kids :
       /\ Printable(n.kids[i])
       /\ i > 1 /\ n.kids[i].type = "text" => n.kids[i - 1].type # "text"

AllPrintable(d) == \A i \in DOMAIN d : d[i].type # "text" /\ Printable(d[i])
Elements(d) == SelectSeq(d, LAMBDA n : n.type = "element")

=============================================================================
