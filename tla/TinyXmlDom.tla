------------------------------ MODULE TinyXmlDom ------------------------------
(***************************************************************************)
(* The document object model of TinyXML (libsouth_interface/tinyxml.cpp):  *)
(* nodes that point at their parent, their first and last child and the    *)
(* siblings before and after them, changed by the operations of TiXmlNode, *)
(* TiXmlElement and TiXmlDocument and by the parser, which links a node    *)
(* only after it has parsed what is inside it.                             *)
(*                                                                         *)
(* The pointers are the record "dom"; each operation that relinks nodes is *)
(* an operator on it, so that one that clones a node and then links the    *)
(* clone is the composition of the two.  A call is one step: nothing here  *)
(* runs concurrently.  Comments, unknowns and declarations are leaves like *)
(* text.  Assertions are those of a release build, which has none.         *)
(***************************************************************************)
EXTENDS Naturals, Sequences, SequencesExt, FiniteSetsExt

CONSTANTS
  Node,           \* the places in memory a node may have
  Null

ASSUME NullAssumption == Null \notin Node
ASSUME NodeAssumption == IsFiniteSet(Node)

VARIABLES
  dom,            \* type, parent, prev, next, firstChild and lastChild of each node
  error,          \* each document's error, the first since the last ClearError
  parsing         \* the nodes whose Parse is running, the document first

vars == <<dom, error, parsing>>

Types == {"document", "element", "text"}
Containers == {"document", "element"}
Errors == {"document top only", "document empty", "parsing"}
Pointer == Node \cup {Null}

Live(h) == {n \in Node : h.type[n] # "free"}
Unused(h) == Node \ Live(h)
Clean == [n \in Node |-> Null]

-----------------------------------------------------------------------------
(* TiXmlNode::TiXmlNode.                                                   *)
New(h, n, t, p) ==
  [type |-> [h.type EXCEPT ![n] = t], parent |-> [h.parent EXCEPT ![n] = p],
   prev |-> [h.prev EXCEPT ![n] = Null], next |-> [h.next EXCEPT ![n] = Null],
   firstChild |-> [h.firstChild EXCEPT ![n] = Null],
   lastChild |-> [h.lastChild EXCEPT ![n] = Null]]

(* What ~TiXmlNode of n deletes: n and, from each node, its first child and *)
(* the siblings that follow that child.                                     *)
Subtree(h, n) ==
  {m \in Node : \A S \in SUBSET Node :
     /\ n \in S
     /\ \A x \in S : /\ h.firstChild[x] \in S \cup {Null}
                     /\ x = n \/ h.next[x] \in S \cup {Null}
     => m \in S}

Delete(h, D) ==
  [type |-> [x \in Node |-> IF x \in D THEN "free" ELSE h.type[x]],
   parent |-> [x \in Node |-> IF x \in D THEN Null ELSE h.parent[x]],
   prev |-> [x \in Node |-> IF x \in D THEN Null ELSE h.prev[x]],
   next |-> [x \in Node |-> IF x \in D THEN Null ELSE h.next[x]],
   firstChild |-> [x \in Node |-> IF x \in D THEN Null ELSE h.firstChild[x]],
   lastChild |-> [x \in Node |-> IF x \in D THEN Null ELSE h.lastChild[x]]]

(* The pointer field f with each pair of changes made to it in order. *)
Set(f, n, v) == IF n = Null THEN f ELSE [f EXCEPT ![n] = v]

(* TiXmlNode::LinkEndChild, of a node that is not a document. *)
LinkEnd(h, p, n) ==
  LET tail == h.lastChild[p] IN
    [h EXCEPT !.parent[n] = p, !.prev[n] = tail,
              !.next = Set([@ EXCEPT ![n] = Null], tail, n),
              !.firstChild[p] = IF tail = Null THEN n ELSE @, !.lastChild[p] = n]

(* The linking in TiXmlNode::InsertBeforeChild and InsertAfterChild. *)
LinkBefore(h, p, b, n) ==
  LET before == h.prev[b] IN
    [h EXCEPT !.parent[n] = p, !.next = Set([@ EXCEPT ![n] = b], before, n),
              !.prev = [@ EXCEPT ![n] = before, ![b] = n],
              !.firstChild[p] = IF before = Null THEN n ELSE @]

\* mutant: the last child is forgotten
LinkAfterNotLast(h, p, a, n) ==
  LET after == h.next[a] IN
    [h EXCEPT !.parent[n] = p, !.prev = Set([@ EXCEPT ![n] = a], after, n),
              !.next = [@ EXCEPT ![n] = after, ![a] = n]]

LinkAfter(h, p, a, n) ==
  LET after == h.next[a] IN
    [h EXCEPT !.parent[n] = p, !.prev = Set([@ EXCEPT ![n] = a], after, n),
              !.next = [@ EXCEPT ![n] = after, ![a] = n],
              !.lastChild[p] = IF after = Null THEN n ELSE @]

(* In TiXmlNode::ReplaceChild n takes the place of r, which is deleted. *)
LinkInstead(h, p, r, n) ==
  LET before == h.prev[r]
      after == h.next[r]
      linked == [h EXCEPT !.parent[n] = p,
                   !.next = Set([@ EXCEPT ![n] = after], before, n),
                   !.prev = Set([@ EXCEPT ![n] = before], after, n),
                   !.firstChild[p] = IF before = Null THEN n ELSE @,
                   !.lastChild[p] = IF after = Null THEN n ELSE @]
  IN Delete(linked, Subtree(linked, r))

\* mutant: only the forward links are mended
RemovedOneWay(h, p, r) ==
  LET before == h.prev[r]
      after == h.next[r]
      unlinked == [h EXCEPT !.next = Set(@, before, after),
                     !.firstChild[p] = IF before = Null THEN after ELSE @,
                     !.lastChild[p] = IF after = Null THEN before ELSE @]
  IN Delete(unlinked, Subtree(unlinked, r))

(* TiXmlNode::RemoveChild. *)
Removed(h, p, r) ==
  LET before == h.prev[r]
      after == h.next[r]
      unlinked == [h EXCEPT !.prev = Set(@, after, before),
                     !.next = Set(@, before, after),
                     !.firstChild[p] = IF before = Null THEN after ELSE @,
                     !.lastChild[p] = IF after = Null THEN before ELSE @]
  IN Delete(unlinked, Subtree(unlinked, r))

(* TiXmlNode::Clear deletes the children and forgets them. *)
Cleared(h, p) ==
  LET emptied == Delete(h, Subtree(h, p) \ {p}) IN
    [emptied EXCEPT !.firstChild[p] = Null, !.lastChild[p] = Null]

(* CopyTo clones the children of s, in order, under n, one place f[x] for   *)
(* each node x below s.                                                     *)
Copied(f, v) == IF v = Null THEN Null ELSE f[v]

CopyTo(h, s, n, f) ==
  LET g == [y \in DOMAIN f \cup {s} |-> IF y = s THEN n ELSE f[y]]
      Original(x) == CHOOSE y \in DOMAIN f : f[y] = x
      Copy(field) == [x \in Node |-> IF \E y \in DOMAIN f : f[y] = x
                                       THEN Copied(g, field[Original(x)]) ELSE field[x]]
  IN [type |-> [x \in Node |-> IF \E y \in DOMAIN f : f[y] = x
                                 THEN h.type[Original(x)] ELSE h.type[x]],
      parent |-> Copy(h.parent), prev |-> Copy(h.prev), next |-> Copy(h.next),
      firstChild |-> [Copy(h.firstChild) EXCEPT ![n] = Copied(f, h.firstChild[s])],
      lastChild |-> [Copy(h.lastChild) EXCEPT ![n] = Copied(f, h.lastChild[s])]]

(* The places new may give a clone of s, and the clone at n. *)
ClonePlaces(h, s, n) ==
  {f \in [Subtree(h, s) \ {s} -> Unused(h) \ {n}] : IsInjective(f)}
Cloned(h, s, n, f) == CopyTo(New(h, n, h.type[s], Null), s, n, f)

-----------------------------------------------------------------------------
(* TiXmlNode::GetDocument. *)
Ancestors(h, n) ==
  {m \in Node : \A S \in SUBSET Node :
     n \in S /\ (\A x \in S : h.parent[x] \in S \cup {Null}) => m \in S}
GetDocument(h, n) == {d \in Ancestors(h, n) : h.type[d] = "document"}

(* TiXmlDocument::SetError keeps the first error. *)
SetError(ds, e) ==
  error' = [d \in Node |-> IF d \in ds /\ error[d] = Null THEN e ELSE error[d]]

Linked(h, n) == /\ h.parent[n] # Null
                /\ h.firstChild[h.parent[n]] = n \/ h.prev[n] # Null
Root(n) == n \in Live(dom) /\ dom.parent[n] = Null
Container(p) == dom.type[p] \in Containers
Children(p) == {c \in Node : Linked(dom, c) /\ dom.parent[c] = p}
Parser == Last(parsing)
Calls(step) == parsing = <<>> /\ step /\ UNCHANGED parsing

Init ==
  /\ dom = [type |-> [n \in Node |-> "free"], parent |-> Clean, prev |-> Clean,
            next |-> Clean, firstChild |-> Clean, lastChild |-> Clean]
  /\ error = Clean
  /\ parsing = <<>>

(* The caller makes a node, or deletes one that belongs to no other. *)
Create(n, t) == Calls(
  /\ n \in Unused(dom)
  /\ dom' = New(dom, n, t, Null)
  /\ UNCHANGED error)

Destroy(n) == Calls(
  /\ Root(n)
  /\ dom' = Delete(dom, Subtree(dom, n))
  /\ error' = [x \in Node |-> IF x \in Subtree(dom, n) THEN Null ELSE error[x]])

LinkEndChild(p, n) == Calls(
  /\ Container(p) /\ Root(n) /\ p \notin Subtree(dom, n)
  /\ \/ /\ dom.type[n] # "document"
        /\ dom' = LinkEnd(dom, p, n)
        /\ UNCHANGED error
     \/ /\ dom.type[n] = "document"
        /\ dom' = Delete(dom, Subtree(dom, n))
        /\ error' = [x \in Node |-> IF x = n THEN Null
                       ELSE IF x \in GetDocument(dom, p) /\ error[x] = Null
                              THEN "document top only" ELSE error[x]])

(* What InsertEndChild, InsertBeforeChild, InsertAfterChild and ReplaceChild *)
(* have in common: a document is refused, another node is cloned and the     *)
(* clone takes its place, given by Place.                                    *)
Insert(p, s, Place(_, _)) == Calls(
  /\ Container(p) /\ s \in Live(dom)
  /\ \/ /\ dom.type[s] = "document"
        /\ SetError(GetDocument(dom, p), "document top only")
        /\ UNCHANGED dom
     \/ /\ dom.type[s] # "document"
        /\ \E n \in Unused(dom) : \E f \in ClonePlaces(dom, s, n) :
             dom' = Place(Cloned(dom, s, n, f), n)
        /\ UNCHANGED error)

InsertEndChild(p, s) == Insert(p, s, LAMBDA h, n : LinkEnd(h, p, n))
InsertBeforeChild(p, b, s) ==
  b \in Children(p) /\ Insert(p, s, LAMBDA h, n : LinkBefore(h, p, b, n))
InsertAfterChild(p, a, s) ==
  a \in Children(p) /\ Insert(p, s, LAMBDA h, n : LinkAfter(h, p, a, n))
ReplaceChild(p, r, s) ==
  r \in Children(p) /\ Insert(p, s, LAMBDA h, n : LinkInstead(h, p, r, n))

RemoveChild(p, r) == Calls(
  /\ r \in Children(p)
  /\ dom' = Removed(dom, p, r)
  /\ UNCHANGED error)

Clear(p) == Calls(
  /\ Container(p)
  /\ dom' = Cleared(dom, p)
  /\ UNCHANGED error)

Clone(s, n) == Calls(
  /\ s \in Live(dom) /\ n \in Unused(dom)
  /\ \E f \in ClonePlaces(dom, s, n) : dom' = Cloned(dom, s, n, f)
  /\ error' = [error EXCEPT ![n] = error[s]])

(* The assignment of TiXmlElement and TiXmlDocument empties its left side    *)
(* first, so assigned to itself a node loses its children.  Neither side is  *)
(* inside the other: what it then reads has been deleted.                    *)
Assign(n, s) == Calls(
  LET h == Cleared(dom, n) IN
    /\ Container(n) /\ dom.type[n] = dom.type[s]
    /\ n = s \/ (n \notin Subtree(dom, s) /\ s \notin Subtree(dom, n))
    /\ \E f \in ClonePlaces(h, s, n) : dom' = CopyTo(h, s, n, f)
    /\ error' = [error EXCEPT ![n] = error[s]])

-----------------------------------------------------------------------------
(* TiXmlDocument::Parse, which adds to what the document holds, and LoadFile *)
(* which clears it first; nothing to parse is an error.                      *)
Parse(d) ==
  /\ parsing = <<>> /\ dom.type[d] = "document"
  /\ \/ /\ parsing' = <<d>>
        /\ error' = [error EXCEPT ![d] = Null]
     \/ /\ error' = [error EXCEPT ![d] = "document empty"]
        /\ UNCHANGED parsing
  /\ UNCHANGED dom

LoadFile(d) ==
  /\ parsing = <<>> /\ dom.type[d] = "document"
  /\ dom' = Cleared(dom, d)
  /\ \/ /\ parsing' = <<d>>
        /\ error' = [error EXCEPT ![d] = Null]
     \/ /\ SetError({d}, "document empty")
        /\ UNCHANGED parsing

Parses == parsing # <<>> /\ dom.type[Parser] \in Containers /\ error[parsing[1]] = Null

\* mutant: the parent pointer is set only by the linking
IdentifyOrphan(n, t) ==
  /\ Parses /\ n \in Unused(dom) /\ t # "document"
  /\ dom' = New(dom, n, t, Null)
  /\ parsing' = Append(parsing, n)
  /\ UNCHANGED error

(* A node is identified, with its parent set, and its Parse begins. *)
Identify(n, t) ==
  /\ Parses /\ n \in Unused(dom) /\ t # "document"
  /\ dom' = New(dom, n, t, Parser)
  /\ parsing' = Append(parsing, n)
  /\ UNCHANGED error

(* Plain text is linked once it is read; it may end the input. *)
ReadText(n) ==
  /\ Parses /\ dom.type[Parser] = "element" /\ n \in Unused(dom)
  /\ dom' = LinkEnd(New(dom, n, "text", Null), Parser, n)
  /\ \/ UNCHANGED error
     \/ SetError(GetDocument(dom, Parser), "parsing")
  /\ UNCHANGED parsing

(* The Parse of a node returns, with or without an error, and it is linked. *)
Parsed ==
  LET n == Parser
      p == parsing[Len(parsing) - 1]
  IN /\ Len(parsing) > 1
     /\ dom' = LinkEnd(dom, p, n)
     /\ \/ UNCHANGED error
        \/ SetError(GetDocument(dom, n), "parsing")
     /\ parsing' = Front(parsing)

ParseReturns ==
  /\ Len(parsing) = 1
  /\ parsing' = <<>>
  /\ IF dom.firstChild[Parser] = Null THEN SetError({Parser}, "document empty")
                                      ELSE UNCHANGED error
  /\ UNCHANGED dom

Next ==
  \/ \E n \in Node, t \in Types : Create(n, t) \/ Identify(n, t)
  \/ \E n \in Node : \/ Destroy(n) \/ Clear(n) \/ ReadText(n)
                     \/ Parse(n) \/ LoadFile(n)
  \/ \E p, n \in Node : \/ LinkEndChild(p, n) \/ InsertEndChild(p, n) \/ RemoveChild(p, n)
                        \/ Clone(p, n) \/ Assign(p, n)
  \/ \E p, c, s \in Node : \/ InsertBeforeChild(p, c, s) \/ InsertAfterChild(p, c, s)
                           \/ ReplaceChild(p, c, s)
  \/ Parsed \/ ParseReturns

Spec == Init /\ [][Next]_vars

-----------------------------------------------------------------------------
(* Walking: TiXmlNode::NextSibling and PreviousSibling from a node on, in at *)
(* most as many steps as there are nodes.                                    *)
Along(next, start) ==
  LET at[i \in 1..Cardinality(Node)] ==
        IF i = 1 THEN start
        ELSE LET previous == at[i - 1]
             IN  IF previous = Null THEN Null ELSE next[previous]
      length == Cardinality({i \in 1..Cardinality(Node) : at[i] # Null})
  IN  [i \in 1..length |-> at[i]]

Kids(p) == Along(dom.next, dom.firstChild[p])

(* FirstChildElement and NextSiblingElement: the first element from n on. *)
Elements(walk) == {i \in DOMAIN walk : dom.type[walk[i]] = "element"}
ElementFrom(n) ==
  LET walk == Along(dom.next, n)
  IN  IF Elements(walk) = {} THEN Null ELSE walk[Min(Elements(walk))]

(* TiXmlHandle::ChildElement. *)
ChildElement(p, i) ==
  LET child[k \in 0..i] ==
        IF k = 0 THEN ElementFrom(dom.firstChild[p])
        ELSE LET previous == child[k - 1]
             IN  IF previous = Null THEN Null ELSE ElementFrom(dom.next[previous])
  IN child[i]

-----------------------------------------------------------------------------
(* The pointers agree: a node is the previous of its next, its parent's     *)
(* first child if nothing is before it and last if nothing is after it,     *)
(* siblings have one parent, and nothing live points at deleted memory.     *)
(* Each operation of tinyxml.cpp sets four or five of these pointers, and   *)
(* one set wrongly is noticed only by a later walk from the other side.     *)
SiblingsAgree(h) ==
  \A n \in Node :
    /\ h.next[n] # Null => /\ h.prev[h.next[n]] = n
                           /\ h.parent[h.next[n]] = h.parent[n] /\ h.parent[n] # Null
    /\ h.prev[n] # Null => h.next[h.prev[n]] = n

EndsAgree(h) ==
  \A p \in Node :
    /\ h.firstChild[p] # Null => h.parent[h.firstChild[p]] = p /\ h.prev[h.firstChild[p]] = Null
    /\ h.lastChild[p] # Null => h.parent[h.lastChild[p]] = p /\ h.next[h.lastChild[p]] = Null
    /\ h.firstChild[p] = Null <=> h.lastChild[p] = Null

ParentsAgree(h) ==
  \A n \in Node :
    h.parent[n] # Null /\ Linked(h, n) =>
      /\ h.prev[n] = Null => h.firstChild[h.parent[n]] = n
      /\ h.next[n] = Null => h.lastChild[h.parent[n]] = n

NothingDangles(h) ==
  \A n \in Node :
    /\ n \in Live(h) => {h.parent[n], h.prev[n], h.next[n], h.firstChild[n], h.lastChild[n]}
                          \subseteq Live(h) \cup {Null}
    /\ n \in Unused(h) => h.parent[n] = Null /\ h.prev[n] = Null /\ h.next[n] = Null
                            /\ h.firstChild[n] = Null /\ h.lastChild[n] = Null

(* Only the nodes being parsed have a parent that does not list them. *)
ParserAgrees(h) ==
  \A n \in Node :
    h.parent[n] # Null /\ ~Linked(h, n) =>
      \E i \in 2..Len(parsing) : parsing[i] = n /\ parsing[i - 1] = h.parent[n]

LinksAgree == /\ SiblingsAgree(dom) /\ EndsAgree(dom) /\ ParentsAgree(dom)
              /\ NothingDangles(dom) /\ ParserAgrees(dom)

(* A walk backwards, or over elements only as TiXmlHandle does, meets the   *)
(* children a walk forwards meets.                                          *)
WalksAgree ==
  \A p \in Live(dom) :
    /\ Along(dom.prev, dom.lastChild[p]) = Reverse(Kids(p))
    /\ \A j \in Elements(Kids(p)) :
         ChildElement(p, Cardinality({k \in Elements(Kids(p)) : k < j})) = Kids(p)[j]
    /\ ChildElement(p, Cardinality(Elements(Kids(p)))) = Null

(* A node that is being parsed can report its errors: its parent leads to   *)
(* the document (Identify sets it for that, tinyxmlparser.cpp:896).         *)
ErrorsReachDocument ==
  \A i \in DOMAIN parsing : GetDocument(dom, parsing[i]) = {parsing[1]}

(* The document object model implements the ordered trees of XmlForest.     *)
Forest == INSTANCE XmlForest
  WITH kind <- dom.type, kids <- [p \in Node |-> Kids(p)], errors <- error
ImplementsForest == Forest!ForestSpec
=============================================================================
