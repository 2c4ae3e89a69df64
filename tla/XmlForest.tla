------------------------------ MODULE XmlForest ------------------------------
(***************************************************************************)
(* What tinyxml.h promises of its document object model: nodes that form   *)
(* ordered trees.  A node has at most one place, a document is never a     *)
(* child, a copy is made of a whole tree, a node that is removed or        *)
(* replaced is gone with everything below it, and a document remembers the *)
(* first error it was told of.                                             *)
(***************************************************************************)
EXTENDS Naturals, Sequences, SequencesExt

CONSTANTS
  Node,           \* the places in memory a node may have
  Null            \* no error

VARIABLES
  kind,           \* each place: "free" or the type of the node there
  kids,           \* its children in order
  errors          \* the errors of a document

forestVars == <<kind, kids, errors>>

Types == {"document", "element", "text"}
Containers == {"document", "element"}

ForestInit ==
  /\ kind = [n \in Node |-> "free"]
  /\ kids = [n \in Node |-> <<>>]
  /\ errors = [n \in Node |-> Null]

Free == {n \in Node : kind[n] = "free"}
Children(p) == LET list == kids[p] IN {list[i] : i \in DOMAIN list}

Listed == UNION {Children(p) : p \in Node}

(* A node with everything below it. *)
Tree(n) ==
  LET lists == {<<p, Children(p)>> : p \in Node}
      closed == {S \in SUBSET Node : n \in S /\ \A e \in lists : e[1] \in S => e[2] \subseteq S}
  IN  {m \in Node : \A S \in closed : m \in S}

(* The document at the root of a tree, if it has one. *)
DocumentsOver(n) == {d \in Node : kind[d] = "document" /\ n \in Tree(d)}

(* A document keeps the first error. *)
Told(ds, e) == [d \in Node |-> IF d \in ds /\ errors[d] = Null THEN e ELSE errors[d]]

Unlisted(n) == kind[n] # "free" /\ n \notin Listed
At(p, c) == CHOOSE i \in DOMAIN kids[p] : kids[p][i] = c

(* What is left when the nodes in T, which no other node has, are gone.     *)
KindWithout(T) == [x \in Node |-> IF x \in T THEN "free" ELSE kind[x]]
KidsWithout(T) == [x \in Node |-> IF x \in T THEN <<>> ELSE kids[x]]
ErrorsWithout(T) == [x \in Node |-> IF x \in T THEN Null ELSE errors[x]]

(* A copy of the tree of s in places that were free: f says where. *)
Copies(s) == {f \in [Tree(s) -> Free] : IsInjective(f)}
Source(f, x) == {y \in DOMAIN f : f[y] = x}
KindWith(f, k) == [x \in Node |-> IF Source(f, x) = {} THEN k[x]
                                  ELSE kind[CHOOSE y \in Source(f, x) : TRUE]]
KidsWith(f, k) ==
  [x \in Node |-> IF Source(f, x) = {} THEN k[x]
                  ELSE LET old == kids[CHOOSE y \in Source(f, x) : TRUE]
                       IN [i \in DOMAIN old |-> f[old[i]]]]

-----------------------------------------------------------------------------
Create(n, t) ==
  /\ n \in Free
  /\ kind' = [kind EXCEPT ![n] = t]
  /\ UNCHANGED <<kids, errors>>

(* A node of its own is linked; a document is deleted instead and the       *)
(* document it should have been linked in is told.                          *)
Link(p, n) ==
  /\ kind[n] \notin {"free", "document"}
  /\ UNCHANGED <<kind, errors>>
  /\ kids' = [kids EXCEPT ![p] = Append(@, n)]
  /\ Unlisted(n) /\ p \notin Tree(n)

LinkDocument(p, n) ==
  /\ kind[n] = "document" /\ p \notin Tree(n)
  /\ kind' = KindWithout(Tree(n))
  /\ kids' = KidsWithout(Tree(n))
  /\ errors' = [Told(DocumentsOver(p), "document top only") EXCEPT ![n] = Null]
  /\ Unlisted(n)

Refuse(p) ==
  /\ UNCHANGED <<kind, kids>>
  /\ errors' = Told(DocumentsOver(p), "document top only")

(* A copy of s becomes a child of p, in any place. *)
InsertCopy(p, s) ==
  \E f \in Copies(s) :
    /\ kind' = KindWith(f, kind)
    /\ \E i \in 1..(Len(kids[p]) + 1) :
         kids' = KidsWith(f, [kids EXCEPT ![p] = InsertAt(@, i, f[s])])
    /\ UNCHANGED errors

ReplaceByCopy(p, r, s) ==
  LET old == Tree(r) IN
  \E f \in Copies(s) :
    /\ kind' = KindWith(f, KindWithout(old))
    /\ kids' = KidsWith(f, [KidsWithout(old) EXCEPT ![p] = ReplaceAt(kids[p], At(p, r), f[s])])
    /\ UNCHANGED errors

Delete(n) ==
  /\ Unlisted(n)
  /\ kind' = KindWithout(Tree(n))
  /\ kids' = KidsWithout(Tree(n))
  /\ errors' = ErrorsWithout(Tree(n))

RemoveTree(p, c) ==
  /\ kind' = KindWithout(Tree(c))
  /\ kids' = [KidsWithout(Tree(c)) EXCEPT ![p] = RemoveAt(@, At(p, c))]
  /\ UNCHANGED errors

Clear(p) ==
  /\ kind' = KindWithout(Tree(p) \ {p})
  /\ kids' = [KidsWithout(Tree(p) \ {p}) EXCEPT ![p] = <<>>]

Clone(s) ==
  \E f \in Copies(s) :
    /\ kind' = KindWith(f, kind)
    /\ kids' = KidsWith(f, kids)
    /\ errors' = [errors EXCEPT ![f[s]] = errors[s]]

(* p gets copies of the children of s instead of its own; of itself, none. *)
Assign(p, s) ==
  /\ kind[p] = kind[s]
  /\ IF p = s THEN Clear(p) /\ UNCHANGED errors
     ELSE LET old == Tree(p) IN
          \E f \in {g \in [Tree(s) -> Free \cup old] : IsInjective(g) /\ g[s] = p} :
            /\ kind' = KindWith(f, KindWithout(old))
            /\ kids' = KidsWith(f, KidsWithout(old))
            /\ errors' = [errors EXCEPT ![p] = errors[s]]

(* A parser forgets the error of the last parse, adds nodes it has found    *)
(* and tells the document of its first error.                               *)
Start(d) ==
  /\ errors' \in {[errors EXCEPT ![d] = e] : e \in {Null, "document empty"}}
  /\ \/ UNCHANGED <<kind, kids>>
     \/ Clear(d)

Fail(d, e) ==
  /\ errors' = Told({d}, e)
  /\ \/ UNCHANGED <<kind, kids>>
     \/ Clear(d)

Parsed(p, n) ==
  /\ kind' = IF kind[n] = "free" THEN [kind EXCEPT ![n] = "text"] ELSE kind
  /\ kids' = [kids EXCEPT ![p] = Append(@, n)]
  /\ n \notin Listed /\ p \notin Tree(n)
  /\ \/ UNCHANGED errors
     \/ \E d \in Node : kind[d] = "document" /\ errors' = Told({d}, "parsing")

ForestNext ==
  \/ \E n \in Node, t \in Types : Create(n, t)
  \/ \E n \in Node : Delete(n)
  \/ \E p \in Node : \E c \in Children(p) : RemoveTree(p, c)
  \/ \E p \in Node : kind[p] \in Containers /\
       \/ Clear(p) /\ UNCHANGED errors
       \/ Refuse(p)
       \/ \E s \in Node : Assign(p, s)
       \/ \E n \in Node : Link(p, n) \/ LinkDocument(p, n) \/ Parsed(p, n)
       \/ \E s \in Node : kind[s] \notin {"free", "document"} /\
            \/ InsertCopy(p, s)
            \/ \E r \in Children(p) : ReplaceByCopy(p, r, s)
  \/ \E s \in Node : kind[s] # "free" /\ Clone(s)
  \/ \E d \in Node : kind[d] = "document" /\ (Start(d) \/ Fail(d, "document empty"))

ForestSpec == ForestInit /\ [][ForestNext]_forestVars

=============================================================================
