---------------------------- MODULE TinyXmlDomProof ----------------------------
(***************************************************************************)
(* Proofs about TinyXmlDom, for any number of nodes.                       *)
(***************************************************************************)
EXTENDS TinyXmlDom, FiniteSetTheorems, WellFoundedInduction, TLAPS

Fields(h) ==
  h \in [type : [Node -> Types \cup {"free"}], parent : [Node -> Pointer],
         prev : [Node -> Pointer], next : [Node -> Pointer],
         firstChild : [Node -> Pointer], lastChild : [Node -> Pointer]]

(* Only a node among the children of its parent has siblings. *)
Loose(h) ==
  \A n \in Node : ~Linked(h, n) =>
    h.next[n] = Null /\ \A p \in Node : h.lastChild[p] # n

(* A node is deeper than its parent, and behind the siblings before it: no  *)
(* node is below itself, and no siblings go round in a ring.                *)
Ranked(h, rank) ==
  /\ rank \in [Node -> Nat]
  /\ \A n \in Node : h.parent[n] # Null =>
       rank[h.parent[n]] < rank[n] /\ h.type[n] # "document"

Placed(h, pos) ==
  /\ pos \in [Node -> Nat]
  /\ \A n \in Node : h.next[n] # Null => pos[n] < pos[h.next[n]]

Formed(h, rank, pos) ==
  /\ Fields(h)
  /\ SiblingsAgree(h) /\ EndsAgree(h) /\ ParentsAgree(h) /\ NothingDangles(h)
  /\ Loose(h) /\ Ranked(h, rank) /\ Placed(h, pos)

(* Every node with a parent is among its children. *)
Settled(h) == \A n \in Node : h.parent[n] # Null => Linked(h, n)

-----------------------------------------------------------------------------
(* A set of natural numbers has a least one. *)
LEMMA LeastNatural ==
  ASSUME NEW T \in SUBSET Nat, T # {}
  PROVE  \E m \in T : \A k \in T : m <= k
<1> DEFINE R == OpToRel(<, Nat)
<1>1. \A x, y \in Nat : <<x, y>> \in R <=> x < y
  BY DEF OpToRel
<1>2. IsWellFoundedOn(R, Nat)
  BY NatLessThanWellFounded
<1> HIDE DEF R
<1>3. PICK x \in T : \A y \in T : <<y, x>> \notin R
  BY <1>2, WFMin, Zenon
<1>4. \A y \in T : x <= y
  <2> TAKE y \in T
  <2>1. x \in Nat /\ y \in Nat
    OBVIOUS
  <2>2. <<y, x>> \notin R
    BY <1>3
  <2>3. ~ (y < x)
    BY <1>1, <2>1, <2>2, Zenon
  <2> QED
    BY <2>1, <2>3
<1> QED
  BY <1>4

(* A set of nodes is closed from n on if it holds what ~TiXmlNode goes to. *)
Closed(h, n, S) ==
  \A x \in S : /\ h.firstChild[x] \in S \cup {Null}
               /\ x = n \/ h.next[x] \in S \cup {Null}

LEMMA SubtreeClosed ==
  ASSUME NEW h, Fields(h), NEW n \in Node
  PROVE  /\ n \in Subtree(h, n) /\ Subtree(h, n) \subseteq Node
         /\ Closed(h, n, Subtree(h, n))
<1> DEFINE D == Subtree(h, n)
<1>1. n \in D /\ D \subseteq Node
  BY DEF Subtree
<1>2. ASSUME NEW x \in D, h.firstChild[x] # Null PROVE h.firstChild[x] \in D
  BY <1>1, <1>2 DEF Subtree, Fields, Pointer
<1>3. ASSUME NEW x \in D, x # n, h.next[x] # Null PROVE h.next[x] \in D
  BY <1>1, <1>3 DEF Subtree, Fields, Pointer
<1> QED
  BY <1>1, <1>2, <1>3 DEF Closed

LEMMA SubtreeLeast ==
  ASSUME NEW h, NEW n \in Node, NEW S \in SUBSET Node, n \in S, Closed(h, n, S)
  PROVE  Subtree(h, n) \subseteq S
  BY DEF Subtree, Closed

(* Siblings have the same parent, and each has a place among its children. *)
LEMMA Siblings ==
  ASSUME NEW h, NEW rank, NEW pos, Formed(h, rank, pos), NEW n \in Node
  PROVE  /\ h.next[n] # Null => /\ h.next[n] \in Node /\ h.prev[h.next[n]] = n
                                /\ h.parent[n] # Null /\ h.parent[h.next[n]] = h.parent[n]
                                /\ Linked(h, n) /\ Linked(h, h.next[n])
                                /\ pos[n] < pos[h.next[n]]
         /\ h.prev[n] # Null => /\ h.prev[n] \in Node /\ h.next[h.prev[n]] = n
                                /\ h.parent[n] # Null /\ h.parent[h.prev[n]] = h.parent[n]
                                /\ Linked(h, n) /\ Linked(h, h.prev[n])
                                /\ pos[h.prev[n]] < pos[n]
<1>1. ASSUME NEW x \in Node, h.next[x] # Null
      PROVE  /\ h.next[x] \in Node /\ h.prev[h.next[x]] = x
             /\ h.parent[x] # Null /\ h.parent[h.next[x]] = h.parent[x]
             /\ Linked(h, x) /\ Linked(h, h.next[x])
             /\ pos[x] < pos[h.next[x]]
  <2>1. h.next[x] \in Node /\ x # Null
    BY <1>1, NullAssumption DEF Formed, Fields, Pointer
  <2>2. /\ h.prev[h.next[x]] = x /\ h.parent[x] # Null /\ h.parent[h.next[x]] = h.parent[x]
    BY <1>1 DEF Formed, SiblingsAgree
  <2>3. Linked(h, x)
    BY <1>1 DEF Formed, Loose
  <2>4. Linked(h, h.next[x])
    BY <2>1, <2>2 DEF Linked
  <2> QED
    BY <1>1, <2>1, <2>2, <2>3, <2>4 DEF Formed, Placed
<1>2. ASSUME h.prev[n] # Null PROVE h.prev[n] \in Node /\ h.next[h.prev[n]] = n /\ n # Null
  BY <1>2, NullAssumption DEF Formed, Fields, Pointer, SiblingsAgree
<1> QED
  BY <1>1, <1>2

(* Below a node: everything but the node itself is listed, and comes with   *)
(* its parent and the siblings before it.                                   *)
LEMMA SubtreeUp ==
  ASSUME NEW h, NEW rank, NEW pos, Formed(h, rank, pos), NEW n \in Node,
         NEW m \in Subtree(h, n), m # n
  PROVE  /\ m \in Node /\ Linked(h, m)
         /\ h.parent[m] \in Subtree(h, n) /\ rank[n] < rank[m]
         /\ h.prev[m] # Null => h.prev[m] \in Subtree(h, n) \ {n}
<1> DEFINE D == Subtree(h, n)
           S == {x \in D : x = n \/ /\ Linked(h, x) /\ h.parent[x] \in D
                                    /\ rank[n] <= rank[h.parent[x]]
                                    /\ h.prev[x] # Null => h.prev[x] \in D \ {n}}
<1>1. n \in D /\ D \subseteq Node /\ Closed(h, n, D)
  BY SubtreeClosed DEF Formed
<1> HIDE DEF D
<1>2. ASSUME NEW x \in S, h.firstChild[x] # Null PROVE h.firstChild[x] \in S
  <2> DEFINE c == h.firstChild[x]
  <2>1. c \in D /\ c \in Node /\ x \in D /\ x \in Node
    BY <1>1, <1>2 DEF Closed
  <2>2. h.parent[c] = x /\ h.prev[c] = Null
    BY <1>2, <2>1 DEF Formed, EndsAgree
  <2>3. x # Null
    BY <2>1, NullAssumption
  <2>4. Linked(h, c)
    BY <2>1, <2>2, <2>3 DEF Linked
  <2>5. rank[n] <= rank[x]
    <3>1. CASE x = n
      BY <3>1 DEF Formed, Ranked
    <3>2. CASE x # n
      <4>1. rank[n] <= rank[h.parent[x]] /\ h.parent[x] \in Node /\ h.parent[x] # Null
        BY <1>1, <3>2, NullAssumption
      <4> QED
        BY <2>1, <4>1 DEF Formed, Ranked
    <3> QED
      BY <3>1, <3>2
  <2> QED
    BY <2>1, <2>2, <2>4, <2>5
<1>3. ASSUME NEW x \in S, x # n, h.next[x] # Null PROVE h.next[x] \in S
  <2> DEFINE c == h.next[x]
  <2>1. c \in D /\ c \in Node /\ x \in D /\ x \in Node
    BY <1>1, <1>3 DEF Closed
  <2>2. h.parent[c] = h.parent[x] /\ h.prev[c] = x /\ Linked(h, c) /\ h.parent[x] # Null
    BY <1>3, <2>1, Siblings
  <2>3. h.parent[x] \in D /\ rank[n] <= rank[h.parent[x]]
    BY <1>3
  <2> QED
    BY <1>3, <2>1, <2>2, <2>3
<1>4. D \subseteq S
  <2>1. S \subseteq Node /\ n \in S
    BY <1>1
  <2>2. Closed(h, n, S)
    <3> HIDE DEF S
    <3> QED
      BY <1>2, <1>3 DEF Closed
  <2> HIDE DEF S
  <2> QED
    BY <2>1, <2>2, SubtreeLeast DEF D
<1>5. m \in D
  BY DEF D
<1>6. /\ m \in Node /\ Linked(h, m) /\ h.parent[m] \in D /\ rank[n] <= rank[h.parent[m]]
      /\ h.prev[m] # Null => h.prev[m] \in D \ {n}
  BY <1>1, <1>4, <1>5
<1>7. rank[n] < rank[m]
  <2>1. h.parent[m] \in Node /\ h.parent[m] # Null
    BY <1>1, <1>6, NullAssumption
  <2> QED
    BY <1>6, <2>1 DEF Formed, Ranked
<1> QED
  BY <1>6, <1>7 DEF D

(* A node comes with all its children: the first of them that did not would *)
(* follow one that did.                                                     *)
LEMMA SubtreeDown ==
  ASSUME NEW h, NEW rank, NEW pos, Formed(h, rank, pos), NEW n \in Node,
         NEW p \in Subtree(h, n), NEW c \in Node, h.parent[c] = p, Linked(h, c)
  PROVE  c \in Subtree(h, n) /\ c # n
<1> DEFINE D == Subtree(h, n)
           Missing == {x \in Node : x \notin D /\ h.parent[x] = p /\ Linked(h, x)}
           T == {pos[x] : x \in Missing}
<1>1. n \in D /\ D \subseteq Node /\ Closed(h, n, D) /\ p \in D /\ p \in Node /\ p # Null
  BY SubtreeClosed, NullAssumption DEF Formed
<1>2. rank[n] <= rank[p] /\ rank[n] \in Nat /\ rank[p] \in Nat
  <2>1. p = n \/ rank[n] < rank[p]
    BY SubtreeUp
  <2>2. rank[n] \in Nat /\ rank[p] \in Nat
    BY <1>1 DEF Formed, Ranked
  <2> QED
    BY <2>1, <2>2
<1>3. ASSUME NEW x \in Node, h.parent[x] = p PROVE x # n
  <2>1. rank[p] < rank[x]
    BY <1>1, <1>3 DEF Formed, Ranked
  <2> QED
    BY <1>2, <2>1
<1> HIDE DEF D
<1>4. ASSUME Missing # {} PROVE FALSE
  <2>1. T \in SUBSET Nat /\ T # {}
    BY <1>4 DEF Formed, Placed
  <2>2. PICK k \in T : \A l \in T : k <= l
    <3> HIDE DEF T
    <3> QED
      BY <2>1, LeastNatural
  <2>3. PICK x \in Missing : pos[x] = k
    BY <2>2
  <2>4. x \in Node /\ x \notin D /\ h.parent[x] = p /\ Linked(h, x)
    OBVIOUS
  <2>5. CASE h.prev[x] = Null
    <3>1. h.firstChild[p] = x
      BY <1>1, <2>4, <2>5 DEF Linked
    <3>2. x # Null
      BY <2>4, NullAssumption
    <3> QED
      BY <1>1, <2>4, <3>1, <3>2 DEF Closed
  <2>6. CASE h.prev[x] # Null
    <3> DEFINE y == h.prev[x]
    <3>1. /\ y \in Node /\ h.next[y] = x /\ h.parent[y] = p /\ Linked(h, y)
          /\ pos[y] < pos[x]
      BY <2>4, <2>6, Siblings
    <3>2. x # Null
      BY <2>4, NullAssumption
    <3> HIDE DEF y
    <3>3. CASE y \in D
      BY <1>1, <1>3, <2>4, <3>1, <3>2, <3>3 DEF Closed
    <3>4. CASE y \notin D
      <4>1. pos[y] \in T /\ pos[y] \in Nat /\ k \in Nat
        BY <2>1, <2>2, <3>1, <3>4
      <4> QED
        BY <2>2, <2>3, <3>1, <4>1
    <3> QED
      BY <3>3, <3>4
  <2> QED
    BY <2>5, <2>6
<1> QED
  BY <1>3, <1>4 DEF D

(* So the last child, too. *)
LEMMA SubtreeLast ==
  ASSUME NEW h, NEW rank, NEW pos, Formed(h, rank, pos), NEW n \in Node,
         NEW p \in Subtree(h, n), h.lastChild[p] # Null
  PROVE  h.lastChild[p] \in Subtree(h, n) /\ h.lastChild[p] # n
<1>1. p \in Node
  BY SubtreeClosed DEF Formed
<1>2. h.lastChild[p] \in Node /\ h.parent[h.lastChild[p]] = p /\ Linked(h, h.lastChild[p])
  BY <1>1 DEF Formed, Fields, Pointer, EndsAgree, Loose
<1> QED
  BY <1>2, SubtreeDown

-----------------------------------------------------------------------------
(* Deletion.                                                               *)

(* What is left of a pointer field when the nodes in D are gone. *)
Without(f, D) == [x \in Node |-> IF x \in D \/ f[x] \in D THEN Null ELSE f[x]]

Pruned(h, D) ==
  [type |-> [x \in Node |-> IF x \in D THEN "free" ELSE h.type[x]],
   parent |-> Without(h.parent, D), prev |-> Without(h.prev, D),
   next |-> Without(h.next, D),
   firstChild |-> Without(h.firstChild, D), lastChild |-> Without(h.lastChild, D)]

(* Nothing outside of D points into it, unless all of its children are in D. *)
Apart(h, D) ==
  \A x \in Node \ D :
    /\ h.parent[x] \notin D /\ h.prev[x] \notin D /\ h.next[x] \notin D
    /\ h.firstChild[x] \in D <=> h.lastChild[x] \in D

LEMMA PrunedFormed ==
  ASSUME NEW h, NEW rank, NEW pos, Formed(h, rank, pos),
         NEW D \in SUBSET Node, Apart(h, D)
  PROVE  /\ Formed(Pruned(h, D), rank, pos)
         /\ Settled(h) => Settled(Pruned(h, D))
         /\ \A x \in Node \ D : Linked(Pruned(h, D), x) <=> Linked(h, x)
<1> DEFINE k == Pruned(h, D)
<1>1. Fields(h) /\ Null \notin Node
  BY NullAssumption DEF Formed
<1>2. Fields(k)
  BY <1>1 DEF Pruned, Without, Fields, Pointer
<1>3. \A x \in D : /\ k.type[x] = "free" /\ k.parent[x] = Null /\ k.prev[x] = Null /\ k.next[x] = Null
                   /\ k.firstChild[x] = Null /\ k.lastChild[x] = Null
  BY DEF Pruned, Without
<1>4. \A x \in Node \ D :
        /\ k.type[x] = h.type[x] /\ k.parent[x] = h.parent[x]
        /\ k.prev[x] = h.prev[x] /\ k.next[x] = h.next[x]
        /\ k.parent[x] \notin D /\ k.prev[x] \notin D /\ k.next[x] \notin D
        /\ k.firstChild[x] = IF h.firstChild[x] \in D THEN Null ELSE h.firstChild[x]
        /\ k.lastChild[x] = IF h.lastChild[x] \in D THEN Null ELSE h.lastChild[x]
        /\ h.firstChild[x] \in D <=> h.lastChild[x] \in D
  BY DEF Pruned, Without, Apart
<1> HIDE DEF k
<1>5. \A x \in D : ~Linked(k, x)
  BY <1>3 DEF Linked
<1>6. \A x \in Node \ D : Linked(k, x) <=> Linked(h, x)
  <2> TAKE x \in Node \ D
  <2>1. CASE h.parent[x] = Null
    BY <1>4, <2>1 DEF Linked
  <2>2. CASE h.parent[x] # Null
    <3>1. h.parent[x] \in Node \ D
      BY <1>1, <1>4, <2>2 DEF Fields, Pointer
    <3>2. k.firstChild[h.parent[x]] = x <=> h.firstChild[h.parent[x]] = x
      BY <1>1, <1>4, <3>1
    <3> QED
      BY <1>4, <3>2 DEF Linked
  <2> QED
    BY <2>1, <2>2
<1>7. SiblingsAgree(k)
  BY <1>1, <1>3, <1>4 DEF SiblingsAgree, Formed, Fields, Pointer
<1>8. EndsAgree(k)
  BY <1>1, <1>3, <1>4 DEF EndsAgree, Formed, Fields, Pointer
<1>9. ParentsAgree(k)
  <2> SUFFICES ASSUME NEW x \in Node, k.parent[x] # Null, Linked(k, x)
               PROVE  /\ k.prev[x] = Null => k.firstChild[k.parent[x]] = x
                      /\ k.next[x] = Null => k.lastChild[k.parent[x]] = x
    BY DEF ParentsAgree
  <2>1. x \notin D /\ Linked(h, x)
    BY <1>5, <1>6
  <2>2. h.parent[x] \in Node \ D
    BY <1>1, <1>4, <2>1 DEF Fields, Pointer
  <2>3. /\ h.prev[x] = Null => h.firstChild[h.parent[x]] = x
        /\ h.next[x] = Null => h.lastChild[h.parent[x]] = x
    BY <1>1, <2>1, <2>2 DEF Formed, ParentsAgree
  <2> QED
    BY <1>4, <2>1, <2>2, <2>3
<1>10. NothingDangles(k)
  <2>1. Live(k) = Live(h) \ D
    BY <1>3, <1>4 DEF Live
  <2> SUFFICES ASSUME NEW x \in Node
               PROVE  /\ x \in Live(k) => {k.parent[x], k.prev[x], k.next[x], k.firstChild[x],
                                           k.lastChild[x]} \subseteq Live(k) \cup {Null}
                      /\ x \in Unused(k) => k.parent[x] = Null /\ k.prev[x] = Null /\ k.next[x] = Null
                                              /\ k.firstChild[x] = Null /\ k.lastChild[x] = Null
    BY DEF NothingDangles
  <2>2. CASE x \in D
    BY <1>3, <2>1, <2>2
  <2>3. CASE x \notin D
    BY <1>4, <2>1, <2>3 DEF Formed, NothingDangles, Unused
  <2> QED
    BY <2>2, <2>3
<1>11. Loose(k)
  <2> SUFFICES ASSUME NEW x \in Node, ~Linked(k, x)
               PROVE  k.next[x] = Null /\ \A p \in Node : k.lastChild[p] # x
    BY DEF Loose
  <2>1. CASE x \in D
    BY <1>1, <1>3, <1>4, <2>1
  <2>2. CASE x \notin D
    BY <1>1, <1>3, <1>4, <1>6, <2>2 DEF Formed, Loose
  <2> QED
    BY <2>1, <2>2
<1>12. Ranked(k, rank) /\ Placed(k, pos)
  BY <1>3, <1>4 DEF Formed, Ranked, Placed
<1>13. Settled(h) => Settled(k)
  BY <1>3, <1>4, <1>6 DEF Settled
<1> QED
  BY <1>2, <1>6, <1>7, <1>8, <1>9, <1>10, <1>11, <1>12, <1>13 DEF Formed, k

(* A tree without a parent is apart from the other nodes. *)
LEMMA RootApart ==
  ASSUME NEW h, NEW rank, NEW pos, Formed(h, rank, pos), Settled(h),
         NEW n \in Node, h.parent[n] = Null
  PROVE  LET D == Subtree(h, n) IN
           /\ D \subseteq Node /\ n \in D /\ Apart(h, D) /\ Delete(h, D) = Pruned(h, D)
           /\ \A x \in Node \ D : h.firstChild[x] \notin D
<1> DEFINE D == Subtree(h, n)
<1>1. n \in D /\ D \subseteq Node /\ Closed(h, n, D) /\ Null \notin Node
  BY SubtreeClosed, NullAssumption DEF Formed
<1>2. ~Linked(h, n) /\ h.next[n] = Null
  BY DEF Linked, Formed, Loose
<1>3. ASSUME NEW y \in D, h.parent[y] # Null
      PROVE  h.parent[y] \in D /\ h.prev[y] \in D \cup {Null}
  BY <1>3, SubtreeUp
<1> HIDE DEF D
<1>4. ASSUME NEW x \in Node \ D
      PROVE  /\ h.parent[x] \notin D /\ h.prev[x] \notin D /\ h.next[x] \notin D
             /\ h.firstChild[x] \notin D /\ h.lastChild[x] \notin D
  <2>1. x \in Node /\ x # Null
    BY <1>1
  <2>2. h.parent[x] \notin D
    <3> SUFFICES ASSUME h.parent[x] \in D PROVE FALSE
      OBVIOUS
    <3>1. Linked(h, x)
      BY <1>1, <2>1 DEF Settled
    <3> QED
      BY <1>4, <3>1, SubtreeDown DEF D
  <2>3. h.prev[x] \notin D
    <3> SUFFICES ASSUME h.prev[x] \in D PROVE FALSE
      OBVIOUS
    <3>1. h.next[h.prev[x]] = x
      BY <1>1, <2>1, Siblings
    <3> QED
      BY <1>1, <1>2, <2>1, <3>1, <1>4 DEF Closed
  <2>4. h.next[x] \notin D
    <3> SUFFICES ASSUME h.next[x] \in D PROVE FALSE
      OBVIOUS
    <3>1. h.prev[h.next[x]] = x /\ h.parent[h.next[x]] # Null
      BY <1>1, <2>1, Siblings
    <3> QED
      BY <1>3, <1>4, <2>1, <3>1
  <2>5. h.firstChild[x] \notin D /\ h.lastChild[x] \notin D
    <3>1. /\ h.firstChild[x] # Null => h.parent[h.firstChild[x]] = x
          /\ h.lastChild[x] # Null => h.parent[h.lastChild[x]] = x
      BY <2>1 DEF Formed, EndsAgree
    <3> QED
      BY <1>1, <1>3, <1>4, <2>1, <3>1
  <2> QED
    BY <2>2, <2>3, <2>4, <2>5
<1>5. Apart(h, D)
  BY <1>4 DEF Apart
<1>6. Delete(h, D) = Pruned(h, D)
  BY <1>4 DEF Delete, Pruned, Without
<1> QED
  BY <1>1, <1>4, <1>5, <1>6 DEF D

(* So it goes as a whole. *)
LEMMA RootDeleted ==
  ASSUME NEW h, NEW rank, NEW pos, Formed(h, rank, pos), Settled(h),
         NEW n \in Node, h.parent[n] = Null
  PROVE  /\ Formed(Delete(h, Subtree(h, n)), rank, pos)
         /\ Settled(Delete(h, Subtree(h, n)))
  BY RootApart, PrunedFormed

(* And so do the children of a node. *)
LEMMA ClearedFormed ==
  ASSUME NEW h, NEW rank, NEW pos, Formed(h, rank, pos), Settled(h), NEW p \in Node
  PROVE  /\ Formed(Cleared(h, p), rank, pos) /\ Settled(Cleared(h, p))
         /\ Cleared(h, p) = Pruned(h, Subtree(h, p) \ {p})
         /\ Apart(h, Subtree(h, p) \ {p})
         /\ \A x \in Node \ Subtree(h, p) : h.firstChild[x] \notin Subtree(h, p) \ {p}
         /\ Cleared(h, p).firstChild[p] = Null /\ Cleared(h, p).lastChild[p] = Null
<1> DEFINE E == Subtree(h, p)
           D == E \ {p}
           e == Delete(h, D)
<1>1. p \in E /\ E \subseteq Node /\ Closed(h, p, E) /\ Null \notin Node /\ Fields(h)
  BY SubtreeClosed, NullAssumption DEF Formed
<1>2. ASSUME NEW y \in D
      PROVE  /\ y \in Node /\ Linked(h, y) /\ h.parent[y] \in E /\ rank[p] < rank[y]
             /\ h.prev[y] \in D \cup {Null} /\ h.parent[y] # Null
  BY <1>1, SubtreeUp
<1>3. ASSUME NEW c \in Node, h.parent[c] \in E, Linked(h, c) PROVE c \in D
  BY <1>3, SubtreeDown
<1>4. \A x \in E : h.lastChild[x] \in D \cup {Null}
  BY SubtreeLast
<1> HIDE DEF E
<1>5. ASSUME NEW x \in Node, x \notin D
      PROVE  /\ h.parent[x] \notin D /\ h.prev[x] \notin D /\ h.next[x] \notin D
             /\ x # p => h.firstChild[x] \notin D /\ h.lastChild[x] \notin D
  <2>1. x # Null
    BY <1>1
  <2>2. h.parent[x] \notin D
    <3> SUFFICES ASSUME h.parent[x] \in D PROVE FALSE
      OBVIOUS
    <3>1. Linked(h, x)
      BY <1>1 DEF Settled
    <3> QED
      BY <1>3, <1>5, <3>1
  <2>3. ASSUME NEW y \in Node, h.parent[y] = h.parent[x], h.parent[x] # Null
        PROVE  y \notin D
    <3> SUFFICES ASSUME y \in D PROVE FALSE
      OBVIOUS
    <3>1. h.parent[x] \in E
      BY <1>2, <2>3
    <3>2. Linked(h, x)
      BY <2>3 DEF Settled
    <3> QED
      BY <1>3, <1>5, <3>1, <3>2
  <2>4. h.prev[x] \notin D /\ h.next[x] \notin D
    BY <1>1, <2>3, Siblings
  <2>5. ASSUME x # p PROVE h.firstChild[x] \notin D /\ h.lastChild[x] \notin D
    <3>1. /\ h.firstChild[x] # Null => h.parent[h.firstChild[x]] = x
          /\ h.lastChild[x] # Null => h.parent[h.lastChild[x]] = x
      BY DEF Formed, EndsAgree
    <3> QED
      BY <1>1, <1>2, <1>5, <2>5, <3>1
  <2> QED
    BY <2>2, <2>4, <2>5
<1>6. /\ h.firstChild[p] \in D \cup {Null} /\ h.lastChild[p] \in D \cup {Null}
      /\ h.firstChild[p] \in D <=> h.lastChild[p] \in D
  <2>1. h.firstChild[p] # Null => h.parent[h.firstChild[p]] = p /\ h.firstChild[p] \in Node
    BY <1>1 DEF Formed, EndsAgree, Fields, Pointer
  <2>2. h.firstChild[p] # Null => h.firstChild[p] \in D
    <3> SUFFICES ASSUME h.firstChild[p] # Null PROVE h.firstChild[p] \in D
      OBVIOUS
    <3>1. Linked(h, h.firstChild[p])
      BY <1>1, <2>1 DEF Linked
    <3> QED
      BY <1>1, <1>3, <2>1, <3>1
  <2>3. h.firstChild[p] = Null <=> h.lastChild[p] = Null
    BY DEF Formed, EndsAgree
  <2> QED
    BY <1>1, <1>4, <2>2, <2>3
<1>7. Apart(h, D) /\ D \in SUBSET Node
  BY <1>1, <1>5, <1>6 DEF Apart
<1>8. Cleared(h, p) = Pruned(h, D)
  <2> DEFINE q == Pruned(h, D)
             c == Cleared(h, p)
  <2>1. c = [Delete(h, D) EXCEPT !.firstChild[p] = Null, !.lastChild[p] = Null]
    BY DEF Cleared, E
  <2>2. e.type = q.type /\ e.parent = q.parent /\ e.prev = q.prev /\ e.next = q.next
    <3> HIDE DEF D
    <3> QED
      BY <1>5 DEF Delete, Pruned, Without
  <2>3. [e.firstChild EXCEPT ![p] = Null] = q.firstChild /\ [e.lastChild EXCEPT ![p] = Null] = q.lastChild
    <3>1. \A x \in Node \ D : x # p => h.firstChild[x] \notin D /\ h.lastChild[x] \notin D
      BY <1>5
    <3> HIDE DEF D
    <3> QED
      BY <1>1, <1>6, <3>1 DEF Delete, Pruned, Without
  <2>4. c = [type |-> e.type, parent |-> e.parent, prev |-> e.prev, next |-> e.next,
             firstChild |-> [e.firstChild EXCEPT ![p] = Null],
             lastChild |-> [e.lastChild EXCEPT ![p] = Null]]
    <3> HIDE DEF D
    <3> QED
      BY <2>1 DEF Delete
  <2> HIDE DEF D, e, c
  <2> QED
    BY <2>2, <2>3, <2>4 DEF Pruned, c
<1>9. Pruned(h, D).firstChild[p] = Null /\ Pruned(h, D).lastChild[p] = Null
  <2> HIDE DEF D
  <2> QED
    BY <1>6 DEF Pruned, Without
<1>10. Formed(Pruned(h, D), rank, pos) /\ Settled(Pruned(h, D))
  <2> HIDE DEF D
  <2> QED
    BY <1>7, PrunedFormed
<1> QED
  BY <1>1, <1>5, <1>7, <1>8, <1>9, <1>10 DEF E

-----------------------------------------------------------------------------
(* Unlinking.                                                              *)

(* What a node leads to depends on the first children and on the siblings  *)
(* that follow, not on those that follow the node itself.                  *)
LEMMA SubtreeSame ==
  ASSUME NEW h, NEW k, NEW n \in Node, k.firstChild = h.firstChild,
         \A x \in Node : x # n => k.next[x] = h.next[x]
  PROVE  Subtree(k, n) = Subtree(h, n)
<1>1. \A S \in SUBSET Node : Closed(k, n, S) <=> Closed(h, n, S)
  BY DEF Closed
<1> QED
  BY <1>1 DEF Subtree, Closed

(* r is taken out from between its siblings and forgets its place.         *)
Detached(h, r) ==
  [type |-> h.type, parent |-> [h.parent EXCEPT ![r] = Null],
   prev |-> [x \in Node |-> IF x = r THEN Null
                            ELSE IF x = h.next[r] THEN h.prev[r] ELSE h.prev[x]],
   next |-> [x \in Node |-> IF x = r THEN Null
                            ELSE IF x = h.prev[r] THEN h.next[r] ELSE h.next[x]],
   firstChild |-> [x \in Node |-> IF h.firstChild[x] = r THEN h.next[r] ELSE h.firstChild[x]],
   lastChild |-> [x \in Node |-> IF h.lastChild[x] = r THEN h.prev[r] ELSE h.lastChild[x]]]

(* The place of r among the children of its parent. *)
LEMMA Neighbours ==
  ASSUME NEW h, NEW rank, NEW pos, Formed(h, rank, pos), NEW r \in Node, Linked(h, r),
         NEW p, NEW a, NEW b, p = h.parent[r], a = h.prev[r], b = h.next[r]
  PROVE  /\ p \in Node /\ a \in Pointer /\ b \in Pointer
         /\ a # r /\ b # r /\ p # r
         /\ a # Null => /\ h.next[a] = r /\ h.parent[a] = p /\ Linked(h, a) /\ pos[a] < pos[r]
         /\ b # Null => /\ h.prev[b] = r /\ h.parent[b] = p /\ Linked(h, b) /\ pos[r] < pos[b]
         /\ a = Null => h.firstChild[p] = r
         /\ b = Null => h.lastChild[p] = r
         /\ a = b => a = Null
         /\ \A x \in Node :
              /\ h.next[x] = r => x = a
              /\ h.prev[x] = r => x = b
              /\ h.firstChild[x] = r => x = p /\ a = Null
              /\ h.lastChild[x] = r => x = p /\ b = Null
<1>1. Fields(h) /\ Null \notin Node
  BY NullAssumption DEF Formed
<1>2. /\ p \in Node /\ a \in Pointer /\ b \in Pointer
      /\ a # r /\ b # r /\ p # r
      /\ a # Null => /\ h.next[a] = r /\ h.parent[a] = p /\ Linked(h, a) /\ pos[a] < pos[r]
      /\ b # Null => /\ h.prev[b] = r /\ h.parent[b] = p /\ Linked(h, b) /\ pos[r] < pos[b]
      /\ a = Null => h.firstChild[p] = r
      /\ b = Null => h.lastChild[p] = r
      /\ a = b => a = Null
  <2>1. p \in Node /\ a \in Pointer /\ b \in Pointer
    BY <1>1 DEF Linked, Fields, Pointer
  <2>2. /\ a # Null => /\ h.next[a] = r /\ h.parent[a] = p /\ Linked(h, a) /\ pos[a] < pos[r]
        /\ b # Null => /\ h.prev[b] = r /\ h.parent[b] = p /\ Linked(h, b) /\ pos[r] < pos[b]
    BY Siblings
  <2>3. /\ a = Null => h.firstChild[p] = r
        /\ b = Null => h.lastChild[p] = r
    BY <1>1, <2>1 DEF Formed, ParentsAgree
  <2>4. rank[p] < rank[r] /\ rank[r] \in Nat
    BY <1>1, <2>1 DEF Formed, Ranked
  <2>5. \A x \in Node : pos[x] \in Nat
    BY DEF Formed, Placed
  <2>6. a # r /\ b # r /\ p # r
    BY <1>1, <2>1, <2>2, <2>4, <2>5 DEF Pointer
  <2>7. a = b => a = Null
    BY <1>1, <2>1, <2>2, <2>5 DEF Pointer
  <2> QED
    BY <2>1, <2>2, <2>3, <2>6, <2>7
<1>3. \A x \in Node :
        /\ h.next[x] = r => x = a
        /\ h.prev[x] = r => x = b
        /\ h.firstChild[x] = r => x = p /\ a = Null
        /\ h.lastChild[x] = r => x = p /\ b = Null
  BY <1>1 DEF Formed, SiblingsAgree, EndsAgree
<1> QED
  BY <1>2, <1>3

LEMMA DetachedFormed ==
  ASSUME NEW h, NEW rank, NEW pos, Formed(h, rank, pos), NEW r \in Node, Linked(h, r)
  PROVE  /\ Formed(Detached(h, r), rank, pos)
         /\ Settled(h) => Settled(Detached(h, r))
         /\ ~Linked(Detached(h, r), r) /\ Detached(h, r).parent[r] = Null
         /\ \A x \in Node \ {r} : Linked(Detached(h, r), x) <=> Linked(h, x)
<1> DEFINE k == Detached(h, r)
           p == h.parent[r]
           a == h.prev[r]
           b == h.next[r]
<1>1. Fields(h) /\ Null \notin Node
  BY NullAssumption DEF Formed
<1>2. /\ p \in Node /\ a \in Pointer /\ b \in Pointer
      /\ a # r /\ b # r /\ p # r
      /\ a # Null => /\ h.next[a] = r /\ h.parent[a] = p /\ Linked(h, a) /\ pos[a] < pos[r]
      /\ b # Null => /\ h.prev[b] = r /\ h.parent[b] = p /\ Linked(h, b) /\ pos[r] < pos[b]
      /\ a = Null => h.firstChild[p] = r
      /\ b = Null => h.lastChild[p] = r
      /\ a = b => a = Null
  BY Neighbours
<1>3. \A x \in Node :
        /\ h.next[x] = r => x = a
        /\ h.prev[x] = r => x = b
        /\ h.firstChild[x] = r => x = p /\ a = Null
        /\ h.lastChild[x] = r => x = p /\ b = Null
  BY Neighbours
<1>4. /\ k.type = h.type
      /\ k.parent[r] = Null /\ k.prev[r] = Null /\ k.next[r] = Null
      /\ \A x \in Node \ {r} :
           /\ k.parent[x] = h.parent[x]
           /\ k.prev[x] = IF x = b THEN a ELSE h.prev[x]
           /\ k.next[x] = IF x = a THEN b ELSE h.next[x]
      /\ \A x \in Node :
           /\ k.firstChild[x] = IF x = p /\ a = Null THEN b ELSE h.firstChild[x]
           /\ k.lastChild[x] = IF x = p /\ b = Null THEN a ELSE h.lastChild[x]
  BY <1>1, <1>2, <1>3 DEF Detached, Fields
<1>5. Fields(k)
  BY <1>1, <1>2 DEF Detached, Fields, Pointer
<1> HIDE DEF k, p, a, b
<1>6. ~Linked(k, r) /\ \A x \in Node : k.next[x] # r /\ k.prev[x] # r /\ k.firstChild[x] # r /\ k.lastChild[x] # r
  BY <1>1, <1>2, <1>3, <1>4 DEF Linked
<1>7. \A x \in Node \ {r} : Linked(k, x) <=> Linked(h, x)
  <2> TAKE x \in Node \ {r}
  <2>1. CASE h.parent[x] = Null
    BY <1>4, <2>1 DEF Linked
  <2>2. CASE h.parent[x] # Null
    <3>1. h.parent[x] \in Node
      BY <1>1, <2>2 DEF Fields, Pointer
    <3>2. CASE x = b
      <4>1. Linked(h, x)
        BY <1>1, <1>2, <3>2
      <4>2. Linked(k, x)
        <5>1. k.parent[x] = p /\ k.prev[x] = a /\ (a = Null => k.firstChild[p] = x)
          BY <1>1, <1>2, <1>4, <3>2
        <5> QED
          BY <1>1, <1>2, <5>1 DEF Linked
      <4> QED
        BY <4>1, <4>2
    <3>3. CASE x # b
      <4>1. k.prev[x] = h.prev[x] /\ k.parent[x] = h.parent[x]
        BY <1>4, <3>3
      <4>2. k.firstChild[h.parent[x]] = x <=> h.firstChild[h.parent[x]] = x
        BY <1>2, <1>4, <3>1, <3>3
      <4> QED
        BY <4>1, <4>2 DEF Linked
    <3> QED
      BY <3>2, <3>3
  <2> QED
    BY <2>1, <2>2
<1>8. SiblingsAgree(k)
  <2> SUFFICES ASSUME NEW x \in Node
               PROVE  /\ k.next[x] # Null => /\ k.prev[k.next[x]] = x
                           /\ k.parent[k.next[x]] = k.parent[x] /\ k.parent[x] # Null
                      /\ k.prev[x] # Null => k.next[k.prev[x]] = x
    BY DEF SiblingsAgree
  <2>1. CASE x = r
    BY <1>4, <2>1
  <2>2. CASE x # r /\ x = a
    BY <1>1, <1>2, <1>3, <1>4, <2>2 DEF Formed, SiblingsAgree, Fields, Pointer
  <2>3. CASE x # r /\ x = b
    BY <1>1, <1>2, <1>3, <1>4, <2>3 DEF Formed, SiblingsAgree, Fields, Pointer
  <2>4. CASE x # r /\ x # a /\ x # b
    BY <1>1, <1>2, <1>3, <1>4, <2>4 DEF Formed, SiblingsAgree, Fields, Pointer
  <2> QED
    BY <2>1, <2>2, <2>3, <2>4
<1>9. EndsAgree(k)
  <2> SUFFICES ASSUME NEW x \in Node
               PROVE  /\ k.firstChild[x] # Null => k.parent[k.firstChild[x]] = x /\ k.prev[k.firstChild[x]] = Null
                      /\ k.lastChild[x] # Null => k.parent[k.lastChild[x]] = x /\ k.next[k.lastChild[x]] = Null
                      /\ k.firstChild[x] = Null <=> k.lastChild[x] = Null
    BY DEF EndsAgree
  <2>1. /\ h.firstChild[x] # Null => h.parent[h.firstChild[x]] = x /\ h.prev[h.firstChild[x]] = Null
        /\ h.lastChild[x] # Null => h.parent[h.lastChild[x]] = x /\ h.next[h.lastChild[x]] = Null
        /\ h.firstChild[x] = Null <=> h.lastChild[x] = Null
        /\ h.firstChild[x] \in Pointer /\ h.lastChild[x] \in Pointer
    BY <1>1 DEF Formed, EndsAgree, Fields
  <2>2. CASE x # p
    BY <1>1, <1>2, <1>3, <1>4, <2>1, <2>2 DEF Pointer
  <2>3. CASE x = p
    BY <1>1, <1>2, <1>3, <1>4, <2>1, <2>3 DEF Pointer
  <2> QED
    BY <2>2, <2>3
<1>10. ParentsAgree(k)
  <2> SUFFICES ASSUME NEW x \in Node, k.parent[x] # Null, Linked(k, x)
               PROVE  /\ k.prev[x] = Null => k.firstChild[k.parent[x]] = x
                      /\ k.next[x] = Null => k.lastChild[k.parent[x]] = x
    BY DEF ParentsAgree
  <2>1. x # r /\ Linked(h, x) /\ h.parent[x] = k.parent[x] /\ h.parent[x] \in Node
    BY <1>1, <1>4, <1>6, <1>7 DEF Fields, Pointer
  <2>2. /\ h.prev[x] = Null => h.firstChild[h.parent[x]] = x
        /\ h.next[x] = Null => h.lastChild[h.parent[x]] = x
    BY <1>1, <2>1 DEF Formed, ParentsAgree
  <2> QED
    BY <1>1, <1>2, <1>3, <1>4, <2>1, <2>2
<1>11. NothingDangles(k)
  <2>1. Live(k) = Live(h) /\ Unused(k) = Unused(h)
    BY <1>4 DEF Live, Unused
  <2>2. \A x \in Node :
          /\ x \in Live(h) => {h.parent[x], h.prev[x], h.next[x], h.firstChild[x], h.lastChild[x]}
                                \subseteq Live(h) \cup {Null}
          /\ x \in Unused(h) => h.parent[x] = Null /\ h.prev[x] = Null /\ h.next[x] = Null
                                  /\ h.firstChild[x] = Null /\ h.lastChild[x] = Null
    BY DEF Formed, NothingDangles
  <2>3. r \in Live(h) /\ p \in Live(h) /\ {a, b} \subseteq Live(h) \cup {Null}
    <3>1. h.parent[r] # Null
      BY DEF Linked
    <3>2. r \in Live(h)
      BY <2>2, <3>1 DEF Unused
    <3> QED
      BY <1>1, <1>2, <2>2, <3>2, <3>1 DEF p, a, b
  <2>4. ASSUME NEW x \in Live(h)
        PROVE  {k.parent[x], k.prev[x], k.next[x], k.firstChild[x], k.lastChild[x]}
                  \subseteq Live(h) \cup {Null}
    <3>1. x \in Node
      BY DEF Live
    <3>2. CASE x = r
      BY <1>4, <2>2, <2>3, <3>1, <3>2
    <3>3. CASE x # r
      BY <1>4, <2>2, <2>3, <3>1, <3>3
    <3> QED
      BY <3>2, <3>3
  <2>5. ASSUME NEW x \in Unused(h)
        PROVE  k.parent[x] = Null /\ k.prev[x] = Null /\ k.next[x] = Null
                 /\ k.firstChild[x] = Null /\ k.lastChild[x] = Null
    <3>1. x \in Node /\ x \notin Live(h) /\ x # Null
      BY <1>1 DEF Unused
    <3>2. x # r /\ x # p /\ x # a /\ x # b
      BY <2>3, <3>1
    <3> QED
      BY <1>4, <2>2, <3>1, <3>2
  <2> QED
    BY <2>1, <2>4, <2>5 DEF NothingDangles
<1>12. Loose(k)
  <2> SUFFICES ASSUME NEW x \in Node, ~Linked(k, x)
               PROVE  k.next[x] = Null /\ \A q \in Node : k.lastChild[q] # x
    BY DEF Loose
  <2>1. CASE x = r
    BY <1>4, <1>6, <2>1
  <2>2. CASE x # r
    <3>1. ~Linked(h, x) /\ h.next[x] = Null /\ \A q \in Node : h.lastChild[q] # x
      BY <1>7, <2>2 DEF Formed, Loose
    <3>2. x # a
      BY <1>1, <1>2, <3>1
    <3> QED
      BY <1>4, <2>2, <3>1, <3>2
  <2> QED
    BY <2>1, <2>2
<1>13. Ranked(k, rank)
  BY <1>1, <1>4 DEF Formed, Ranked
<1>14. Placed(k, pos)
  <2>1. pos \in [Node -> Nat] /\ \A x \in Node : h.next[x] # Null => pos[x] < pos[h.next[x]]
    BY DEF Formed, Placed
  <2> SUFFICES ASSUME NEW x \in Node, k.next[x] # Null PROVE pos[x] < pos[k.next[x]]
    BY <2>1 DEF Placed
  <2>2. x # r
    BY <1>4
  <2>3. CASE x = a
    <3>1. b \in Node /\ k.next[x] = b /\ pos[a] < pos[r] /\ pos[r] < pos[b]
      BY <1>1, <1>2, <1>4, <2>2, <2>3 DEF Pointer
    <3> QED
      BY <2>1, <2>3, <3>1
  <2>4. CASE x # a
    BY <1>4, <2>1, <2>2, <2>4
  <2> QED
    BY <2>3, <2>4
<1>15. Settled(h) => Settled(k)
  BY <1>4, <1>7 DEF Settled
<1> QED
  BY <1>4, <1>5, <1>6, <1>7, <1>8, <1>9, <1>10, <1>11, <1>12, <1>13, <1>14, <1>15 DEF Formed, k

LEMMA RemovedFormed ==
  ASSUME NEW h, NEW rank, NEW pos, Formed(h, rank, pos), Settled(h),
         NEW p \in Node, NEW r \in Node, Linked(h, r), h.parent[r] = p
  PROVE  /\ Formed(Removed(h, p, r), rank, pos) /\ Settled(Removed(h, p, r))
         /\ Removed(h, p, r) = Delete(Detached(h, r), Subtree(Detached(h, r), r))
<1> DEFINE a == h.prev[r]
           b == h.next[r]
           u == [h EXCEPT !.prev = Set(@, b, a), !.next = Set(@, a, b),
                     !.firstChild[p] = IF a = Null THEN b ELSE @,
                     !.lastChild[p] = IF b = Null THEN a ELSE @]
           k == Detached(h, r)
<1>1. Fields(h) /\ Null \notin Node
  BY NullAssumption DEF Formed
<1>2. /\ p \in Node /\ a \in Pointer /\ b \in Pointer
      /\ a # r /\ b # r /\ p # r
      /\ a = Null => h.firstChild[p] = r
      /\ b = Null => h.lastChild[p] = r
      /\ a = b => a = Null
      /\ \A x \in Node : /\ h.firstChild[x] = r => x = p /\ a = Null
                         /\ h.lastChild[x] = r => x = p /\ b = Null
  BY Neighbours
<1>3. u.type = k.type /\ u.firstChild = k.firstChild /\ u.lastChild = k.lastChild
  <2>1. /\ u.firstChild = [h.firstChild EXCEPT ![p] = IF a = Null THEN b ELSE @]
        /\ u.lastChild = [h.lastChild EXCEPT ![p] = IF b = Null THEN a ELSE @]
        /\ u.type = h.type
    BY <1>1 DEF Fields
  <2>2. h.firstChild \in [Node -> Pointer] /\ h.lastChild \in [Node -> Pointer]
    BY <1>1 DEF Fields
  <2> HIDE DEF u, k
  <2>4. /\ k.firstChild = [x \in Node |-> IF h.firstChild[x] = r THEN b ELSE h.firstChild[x]]
        /\ k.lastChild = [x \in Node |-> IF h.lastChild[x] = r THEN a ELSE h.lastChild[x]]
        /\ k.type = h.type
    BY DEF Detached, k
  <2> HIDE DEF a, b
  <2>3. \A x \in Node : /\ (h.firstChild[x] = r) <=> (x = p /\ a = Null)
                        /\ (h.lastChild[x] = r) <=> (x = p /\ b = Null)
    BY <1>2
  <2>5. u.firstChild = k.firstChild
    BY <1>2, <2>1, <2>2, <2>3, <2>4
  <2>6. u.lastChild = k.lastChild
    BY <1>2, <2>1, <2>2, <2>3, <2>4
  <2> QED
    BY <2>1, <2>4, <2>5, <2>6
<1>4. \A x \in Node : x # r => u.prev[x] = k.prev[x] /\ u.next[x] = k.next[x] /\ u.parent[x] = k.parent[x]
  <2>1. u.prev = Set(h.prev, b, a) /\ u.next = Set(h.next, a, b) /\ u.parent = h.parent
    BY <1>1 DEF Fields
  <2>2. h.prev \in [Node -> Pointer] /\ h.next \in [Node -> Pointer] /\ h.parent \in [Node -> Pointer]
    BY <1>1 DEF Fields
  <2> HIDE DEF u, k
  <2>3. \A x \in Node : x # r => u.prev[x] = k.prev[x]
    BY <1>1, <1>2, <2>1, <2>2 DEF Set, Pointer, Detached, k
  <2>4. \A x \in Node : x # r => u.next[x] = k.next[x]
    BY <1>1, <1>2, <2>1, <2>2 DEF Set, Pointer, Detached, k
  <2>5. \A x \in Node : x # r => u.parent[x] = k.parent[x]
    BY <2>1, <2>2 DEF Detached, k
  <2> QED
    BY <2>3, <2>4, <2>5
<1>5. Removed(h, p, r) = Delete(u, Subtree(u, r))
  BY DEF Removed
<1>6. Formed(k, rank, pos) /\ Settled(k) /\ k.parent[r] = Null
  BY DetachedFormed
<1> HIDE DEF u, k, a, b
<1>7. Subtree(u, r) = Subtree(k, r)
  BY <1>3, <1>4, SubtreeSame
<1>8. r \in Subtree(k, r)
  BY <1>6, SubtreeClosed DEF Formed
<1>9. Delete(u, Subtree(k, r)) = Delete(k, Subtree(k, r))
  <2> DEFINE D == Subtree(k, r)
  <2>1. r \in D
    BY <1>8
  <2> HIDE DEF D
  <2>2. \A x \in Node \ D : x # r
    BY <2>1
  <2> QED
    BY <1>3, <1>4, <2>2 DEF Delete, D
<1> QED
  BY <1>5, <1>6, <1>7, <1>9, RootDeleted DEF k

-----------------------------------------------------------------------------
(* Linking.                                                                *)

(* n becomes a child of p, between its children a and b, one of them Null   *)
(* at an end of the list.                                                   *)
Spliced(h, p, a, b, n) ==
  [type |-> h.type, parent |-> [h.parent EXCEPT ![n] = p],
   prev |-> [x \in Node |-> IF x = n THEN a ELSE IF x = b THEN n ELSE h.prev[x]],
   next |-> [x \in Node |-> IF x = n THEN b ELSE IF x = a THEN n ELSE h.next[x]],
   firstChild |-> [x \in Node |-> IF x = p /\ a = Null THEN n ELSE h.firstChild[x]],
   lastChild |-> [x \in Node |-> IF x = p /\ b = Null THEN n ELSE h.lastChild[x]]]

Between(h, p, a, b) ==
  /\ IF a = Null THEN h.firstChild[p] = b
     ELSE a \in Node /\ h.parent[a] = p /\ Linked(h, a) /\ h.next[a] = b
  /\ IF b = Null THEN h.lastChild[p] = a
     ELSE b \in Node /\ h.parent[b] = p /\ Linked(h, b) /\ h.prev[b] = a

(* n may become a child of p: it is none of any node, and what is below it, *)
(* held by some D, does not include p.                                      *)
Fits(h, p, n) ==
  /\ n \in Live(h) /\ p \in Live(h) /\ h.type[n] # "document" /\ ~Linked(h, n)
  /\ \/ h.parent[n] = p
     \/ /\ h.parent[n] = Null
        /\ \E D \in SUBSET Node : /\ n \in D /\ p \notin D
                                  /\ \A x \in Node : h.parent[x] \in D => x \in D

LEMMA SplicedFormed ==
  ASSUME NEW h, NEW rank, NEW pos, Formed(h, rank, pos),
         NEW p \in Node, NEW n \in Node, Fits(h, p, n), NEW a, NEW b, Between(h, p, a, b)
  PROVE  /\ \E r, s : Formed(Spliced(h, p, a, b, n), r, s)
         /\ Linked(Spliced(h, p, a, b, n), n)
         /\ \A x \in Node \ {n} : Linked(Spliced(h, p, a, b, n), x) <=> Linked(h, x)
<1> DEFINE k == Spliced(h, p, a, b, n)
<1>1. Fields(h) /\ Null \notin Node
  BY NullAssumption DEF Formed
<1>2. /\ p # n /\ ~Linked(h, n) /\ h.type[n] # "document"
      /\ h.next[n] = Null /\ h.prev[n] = Null
      /\ \A x \in Node : h.next[x] # n /\ h.prev[x] # n /\ h.firstChild[x] # n /\ h.lastChild[x] # n
  <2>1. p # n
    BY <1>1 DEF Fits, Formed, Ranked
  <2>2. h.next[n] = Null /\ h.prev[n] = Null
    BY <1>1, Siblings DEF Fits, Formed, Loose
  <2>3. \A x \in Node : h.firstChild[x] # n /\ h.lastChild[x] # n
    BY <1>1 DEF Fits, Formed, Loose, EndsAgree, Linked
  <2>4. \A x \in Node : h.next[x] # n /\ h.prev[x] # n
    BY <1>1, <2>2 DEF Formed, SiblingsAgree
  <2> QED
    BY <2>1, <2>2, <2>3, <2>4 DEF Fits
<1>3. /\ a \in Pointer /\ b \in Pointer /\ a # n /\ b # n
      /\ a = b => a = Null
      /\ a # Null => a \in Node /\ h.next[a] = b /\ h.parent[a] = p /\ Linked(h, a)
      /\ b # Null => b \in Node /\ h.prev[b] = a /\ h.parent[b] = p /\ Linked(h, b)
      /\ a = Null => h.firstChild[p] = b
      /\ b = Null => h.lastChild[p] = a
      /\ a # Null /\ b # Null => pos[a] < pos[b]
  <2>1. /\ a # Null => a \in Node /\ h.next[a] = b /\ h.parent[a] = p /\ Linked(h, a)
        /\ b # Null => b \in Node /\ h.prev[b] = a /\ h.parent[b] = p /\ Linked(h, b)
        /\ a = Null => h.firstChild[p] = b
        /\ b = Null => h.lastChild[p] = a
    BY DEF Between
  <2>2. a \in Pointer /\ b \in Pointer /\ a # n /\ b # n
    BY <1>1, <1>2, <2>1 DEF Pointer
  <2>3. a # Null /\ b # Null => pos[a] < pos[b] /\ pos[a] \in Nat
    BY <2>1 DEF Formed, Placed
  <2> QED
    BY <2>1, <2>2, <2>3
<1>4. /\ k.type = h.type
      /\ k.parent[n] = p /\ k.prev[n] = a /\ k.next[n] = b
      /\ \A x \in Node \ {n} :
           /\ k.parent[x] = h.parent[x]
           /\ k.prev[x] = IF x = b THEN n ELSE h.prev[x]
           /\ k.next[x] = IF x = a THEN n ELSE h.next[x]
      /\ \A x \in Node :
           /\ k.firstChild[x] = IF x = p /\ a = Null THEN n ELSE h.firstChild[x]
           /\ k.lastChild[x] = IF x = p /\ b = Null THEN n ELSE h.lastChild[x]
  BY <1>1 DEF Spliced, Fields
<1>5. Fields(k)
  BY <1>1, <1>3 DEF Spliced, Fields, Pointer
<1>6. \A x \in Node :
        /\ h.next[x] # Null /\ h.next[x] = b => x = a
        /\ h.prev[x] # Null /\ h.prev[x] = a => x = b
        /\ h.firstChild[x] # Null /\ h.firstChild[x] = b => x = p
        /\ h.lastChild[x] # Null /\ h.lastChild[x] = a => x = p
  BY <1>1, <1>3 DEF Formed, SiblingsAgree, EndsAgree
<1> HIDE DEF k
<1>7. Linked(k, n)
  BY <1>1, <1>4 DEF Linked
<1>8. \A x \in Node \ {n} : Linked(k, x) <=> Linked(h, x)
  <2> TAKE x \in Node \ {n}
  <2>1. CASE h.parent[x] = Null
    BY <1>4, <2>1 DEF Linked
  <2>2. CASE h.parent[x] # Null
    <3>1. h.parent[x] \in Node
      BY <1>1, <2>2 DEF Fields, Pointer
    <3>2. CASE x = b
      <4>1. Linked(h, x)
        BY <1>1, <1>3, <3>2
      <4>2. Linked(k, x)
        BY <1>1, <1>4, <2>2, <3>2 DEF Linked
      <4> QED
        BY <4>1, <4>2
    <3>3. CASE x # b
      <4>1. k.prev[x] = h.prev[x] /\ k.parent[x] = h.parent[x]
        BY <1>4, <3>3
      <4>2. k.firstChild[h.parent[x]] = x <=> h.firstChild[h.parent[x]] = x
        BY <1>3, <1>4, <3>1, <3>3
      <4> QED
        BY <4>1, <4>2 DEF Linked
    <3> QED
      BY <3>2, <3>3
  <2> QED
    BY <2>1, <2>2
<1>9. SiblingsAgree(k)
  <2> SUFFICES ASSUME NEW x \in Node
               PROVE  /\ k.next[x] # Null => /\ k.prev[k.next[x]] = x
                           /\ k.parent[k.next[x]] = k.parent[x] /\ k.parent[x] # Null
                      /\ k.prev[x] # Null => k.next[k.prev[x]] = x
    BY DEF SiblingsAgree
  <2>1. CASE x = n
    BY <1>1, <1>2, <1>3, <1>4, <2>1
  <2>2. CASE x # n /\ x = a
    BY <1>1, <1>2, <1>3, <1>4, <1>6, <2>2 DEF Formed, SiblingsAgree, Fields, Pointer
  <2>3. CASE x # n /\ x = b
    BY <1>1, <1>2, <1>3, <1>4, <1>6, <2>3 DEF Formed, SiblingsAgree, Fields, Pointer
  <2>4. CASE x # n /\ x # a /\ x # b
    BY <1>1, <1>2, <1>3, <1>4, <1>6, <2>4 DEF Formed, SiblingsAgree, Fields, Pointer
  <2> QED
    BY <2>1, <2>2, <2>3, <2>4
<1>10. EndsAgree(k)
  <2> SUFFICES ASSUME NEW x \in Node
               PROVE  /\ k.firstChild[x] # Null => k.parent[k.firstChild[x]] = x /\ k.prev[k.firstChild[x]] = Null
                      /\ k.lastChild[x] # Null => k.parent[k.lastChild[x]] = x /\ k.next[k.lastChild[x]] = Null
                      /\ k.firstChild[x] = Null <=> k.lastChild[x] = Null
    BY DEF EndsAgree
  <2>1. /\ h.firstChild[x] # Null => h.parent[h.firstChild[x]] = x /\ h.prev[h.firstChild[x]] = Null
        /\ h.lastChild[x] # Null => h.parent[h.lastChild[x]] = x /\ h.next[h.lastChild[x]] = Null
        /\ h.firstChild[x] = Null <=> h.lastChild[x] = Null
        /\ h.firstChild[x] \in Pointer /\ h.lastChild[x] \in Pointer
        /\ h.firstChild[x] # n /\ h.lastChild[x] # n
    BY <1>1, <1>2 DEF Formed, EndsAgree, Fields
  <2>2. CASE x # p
    BY <1>1, <1>2, <1>3, <1>4, <1>6, <2>1, <2>2 DEF Pointer
  <2>3. CASE x = p
    BY <1>1, <1>2, <1>3, <1>4, <2>1, <2>3 DEF Pointer
  <2> QED
    BY <2>2, <2>3
<1>11. ParentsAgree(k)
  <2> SUFFICES ASSUME NEW x \in Node, k.parent[x] # Null, Linked(k, x)
               PROVE  /\ k.prev[x] = Null => k.firstChild[k.parent[x]] = x
                      /\ k.next[x] = Null => k.lastChild[k.parent[x]] = x
    BY DEF ParentsAgree
  <2>1. CASE x = n
    BY <1>4, <2>1
  <2>2. CASE x # n
    <3>1. Linked(h, x) /\ h.parent[x] = k.parent[x] /\ h.parent[x] \in Node
      BY <1>1, <1>4, <1>8, <2>2 DEF Fields, Pointer
    <3>2. /\ h.prev[x] = Null => h.firstChild[h.parent[x]] = x
          /\ h.next[x] = Null => h.lastChild[h.parent[x]] = x
      BY <1>1, <3>1 DEF Formed, ParentsAgree
    <3> QED
      BY <1>1, <1>3, <1>4, <2>2, <3>1, <3>2
  <2> QED
    BY <2>1, <2>2
<1>12. NothingDangles(k)
  <2>1. Live(k) = Live(h) /\ Unused(k) = Unused(h)
    BY <1>4 DEF Live, Unused
  <2>2. \A x \in Node :
          /\ x \in Live(h) => {h.parent[x], h.prev[x], h.next[x], h.firstChild[x], h.lastChild[x]}
                                \subseteq Live(h) \cup {Null}
          /\ x \in Unused(h) => h.parent[x] = Null /\ h.prev[x] = Null /\ h.next[x] = Null
                                  /\ h.firstChild[x] = Null /\ h.lastChild[x] = Null
    BY DEF Formed, NothingDangles
  <2>3. n \in Live(h) /\ p \in Live(h) /\ {a, b} \subseteq Live(h) \cup {Null}
    <3>1. n \in Live(h) /\ p \in Live(h)
      BY DEF Fits
    <3>2. a # Null => a \in Live(h)
      <4> SUFFICES ASSUME a # Null PROVE a \in Live(h)
        OBVIOUS
      <4>1. a \in Node /\ h.parent[a] # Null
        BY <1>1, <1>3
      <4> QED
        BY <2>2, <4>1 DEF Unused
    <3>3. b # Null => b \in Live(h)
      <4> SUFFICES ASSUME b # Null PROVE b \in Live(h)
        OBVIOUS
      <4>1. b \in Node /\ h.parent[b] # Null
        BY <1>1, <1>3
      <4> QED
        BY <2>2, <4>1 DEF Unused
    <3> QED
      BY <3>1, <3>2, <3>3
  <2>4. ASSUME NEW x \in Live(h)
        PROVE  {k.parent[x], k.prev[x], k.next[x], k.firstChild[x], k.lastChild[x]}
                  \subseteq Live(h) \cup {Null}
    <3>1. x \in Node
      BY DEF Live
    <3>2. CASE x = n
      BY <1>4, <2>2, <2>3, <3>1, <3>2
    <3>3. CASE x # n
      BY <1>4, <2>2, <2>3, <3>1, <3>3
    <3> QED
      BY <3>2, <3>3
  <2>5. ASSUME NEW x \in Unused(h)
        PROVE  k.parent[x] = Null /\ k.prev[x] = Null /\ k.next[x] = Null
                 /\ k.firstChild[x] = Null /\ k.lastChild[x] = Null
    <3>1. x \in Node /\ x \notin Live(h) /\ x # Null
      BY <1>1 DEF Unused
    <3>2. x # n /\ x # p /\ x # a /\ x # b
      BY <2>3, <3>1
    <3> QED
      BY <1>4, <2>2, <3>1, <3>2
  <2> QED
    BY <2>1, <2>4, <2>5 DEF NothingDangles
<1>13. Loose(k)
  <2> SUFFICES ASSUME NEW x \in Node, ~Linked(k, x)
               PROVE  k.next[x] = Null /\ \A q \in Node : k.lastChild[q] # x
    BY DEF Loose
  <2>1. x # n /\ ~Linked(h, x) /\ h.next[x] = Null /\ \A q \in Node : h.lastChild[q] # x
    BY <1>7, <1>8 DEF Formed, Loose
  <2>2. x # a
    BY <1>1, <1>3, <2>1
  <2> QED
    BY <1>4, <2>1, <2>2
<1>14. \E r : Ranked(k, r)
  <2>1. /\ rank \in [Node -> Nat]
        /\ \A x \in Node : h.parent[x] # Null => rank[h.parent[x]] < rank[x] /\ h.type[x] # "document"
    BY DEF Formed, Ranked
  <2>2. CASE h.parent[n] = p
    BY <1>4, <2>1, <2>2 DEF Ranked
  <2>3. CASE h.parent[n] # p
    <3>1. PICK D \in SUBSET Node : /\ n \in D /\ p \notin D
                                   /\ \A x \in Node : h.parent[x] \in D => x \in D
      BY <2>3 DEF Fits
    <3> DEFINE r == [x \in Node |-> IF x \in D THEN rank[x] + rank[p] + 1 ELSE rank[x]]
    <3>2. r \in [Node -> Nat]
      BY <2>1
    <3>3. ASSUME NEW x \in Node, k.parent[x] # Null
          PROVE  r[k.parent[x]] < r[x] /\ k.type[x] # "document"
      <4>1. CASE x = n
        BY <1>2, <1>4, <2>1, <3>1, <4>1
      <4>2. CASE x # n
        <5>1. k.parent[x] = h.parent[x] /\ h.parent[x] \in Node
          BY <1>1, <1>4, <3>3, <4>2 DEF Fields, Pointer
        <5>2. rank[h.parent[x]] < rank[x] /\ h.type[x] # "document"
          BY <2>1, <3>3, <5>1
        <5>3. /\ r[x] = IF x \in D THEN rank[x] + rank[p] + 1 ELSE rank[x]
              /\ r[h.parent[x]] = IF h.parent[x] \in D THEN rank[h.parent[x]] + rank[p] + 1
                                                       ELSE rank[h.parent[x]]
          BY <5>1
        <5>4. h.parent[x] \in D => x \in D
          BY <3>1
        <5>5. rank[x] \in Nat /\ rank[p] \in Nat /\ rank[h.parent[x]] \in Nat
          BY <2>1, <5>1
        <5> HIDE DEF r
        <5> QED
          BY <1>4, <5>1, <5>2, <5>3, <5>4, <5>5
      <4> QED
        BY <4>1, <4>2
    <3> QED
      BY <3>2, <3>3 DEF Ranked
  <2> QED
    BY <2>2, <2>3
<1>15. \E s : Placed(k, s)
  <2>1. pos \in [Node -> Nat] /\ \A x \in Node : h.next[x] # Null => pos[x] < pos[h.next[x]]
    BY DEF Formed, Placed
  <2> DEFINE s == [x \in Node |-> IF x = n THEN IF a = Null THEN 0 ELSE 2 * pos[a] + 3
                                           ELSE 2 * pos[x] + 2]
  <2>2. s \in [Node -> Nat]
    BY <1>3, <2>1
  <2>3. ASSUME NEW x \in Node, k.next[x] # Null PROVE s[x] < s[k.next[x]]
    <3>1. CASE x = n
      <4>1. k.next[x] = b /\ b \in Node /\ b # n
        BY <1>3, <1>4, <2>3, <3>1
      <4>2. s[b] = 2 * pos[b] + 2 /\ s[n] = IF a = Null THEN 0 ELSE 2 * pos[a] + 3
        BY <4>1
      <4>3. a # Null => pos[a] < pos[b] /\ pos[a] \in Nat
        BY <1>3, <2>1, <4>1, <1>1
      <4>4. pos[b] \in Nat
        BY <2>1, <4>1
      <4> HIDE DEF s
      <4> QED
        BY <3>1, <4>1, <4>2, <4>3, <4>4
    <3>2. CASE x # n /\ x = a
      <4>1. s[x] = 2 * pos[a] + 2 /\ s[k.next[x]] = 2 * pos[a] + 3 /\ pos[a] \in Nat
        BY <1>1, <1>4, <2>1, <3>2
      <4> QED
        BY <4>1
    <3>3. CASE x # n /\ x # a
      <4>1. k.next[x] = h.next[x] /\ h.next[x] \in Node /\ h.next[x] # n
        BY <1>1, <1>2, <1>4, <2>3, <3>3 DEF Fields, Pointer
      <4>2. s[x] = 2 * pos[x] + 2 /\ s[h.next[x]] = 2 * pos[h.next[x]] + 2
        BY <3>3, <4>1
      <4>3. pos[x] < pos[h.next[x]] /\ pos[x] \in Nat /\ pos[h.next[x]] \in Nat
        BY <1>1, <2>1, <4>1
      <4> HIDE DEF s
      <4> QED
        BY <4>1, <4>2, <4>3
    <3> QED
      BY <3>1, <3>2, <3>3
  <2> QED
    BY <2>2, <2>3 DEF Placed
<1> QED
  BY <1>5, <1>7, <1>8, <1>9, <1>10, <1>11, <1>12, <1>13, <1>14, <1>15 DEF Formed, k

(* Each linking puts the node between two neighbours.                      *)
LEMMA LinkEndSplices ==
  ASSUME NEW h, NEW rank, NEW pos, Formed(h, rank, pos),
         NEW p \in Node, NEW n \in Node, ~Linked(h, n)
  PROVE  /\ Between(h, p, h.lastChild[p], Null)
         /\ LinkEnd(h, p, n) = Spliced(h, p, h.lastChild[p], Null, n)
<1> DEFINE a == h.lastChild[p]
           u == LinkEnd(h, p, n)
<1>1. Fields(h) /\ Null \notin Node
  BY NullAssumption DEF Formed
<1>2. /\ a \in Pointer /\ a # n
      /\ a = Null <=> h.firstChild[p] = Null
      /\ a # Null => h.parent[a] = p /\ h.next[a] = Null /\ Linked(h, a)
  BY <1>1 DEF Formed, Fields, EndsAgree, Loose, Pointer
<1>3. Between(h, p, a, Null)
  BY <1>2 DEF Between, Pointer
<1>4. u = [type |-> h.type, parent |-> [h.parent EXCEPT ![n] = p],
           prev |-> [h.prev EXCEPT ![n] = a],
           next |-> Set([h.next EXCEPT ![n] = Null], a, n),
           firstChild |-> [h.firstChild EXCEPT ![p] = IF a = Null THEN n ELSE h.firstChild[p]],
           lastChild |-> [h.lastChild EXCEPT ![p] = n]]
  <2> DEFINE pa == [h.parent EXCEPT ![n] = p]
             pr == [h.prev EXCEPT ![n] = a]
             ne == Set([h.next EXCEPT ![n] = Null], a, n)
             fc == [h.firstChild EXCEPT ![p] = IF a = Null THEN n ELSE h.firstChild[p]]
             lc == [h.lastChild EXCEPT ![p] = n]
             u1 == [h EXCEPT !.parent = pa]
             u2 == [u1 EXCEPT !.prev = pr]
             u3 == [u2 EXCEPT !.next = ne]
             u4 == [u3 EXCEPT !.firstChild = fc]
             u5 == [u4 EXCEPT !.lastChild = lc]
  <2>1. u = u5
    BY <1>1 DEF LinkEnd, Fields
  <2> HIDE DEF pa, pr, ne, fc, lc
  <2>2. u1 = [type |-> h.type, parent |-> pa, prev |-> h.prev, next |-> h.next,
              firstChild |-> h.firstChild, lastChild |-> h.lastChild]
    BY <1>1 DEF Fields
  <2> HIDE DEF u1
  <2>3. u2 = [type |-> h.type, parent |-> pa, prev |-> pr, next |-> h.next,
              firstChild |-> h.firstChild, lastChild |-> h.lastChild]
    BY <2>2
  <2> HIDE DEF u2
  <2>4. u3 = [type |-> h.type, parent |-> pa, prev |-> pr, next |-> ne,
              firstChild |-> h.firstChild, lastChild |-> h.lastChild]
    BY <2>3
  <2> HIDE DEF u3
  <2>5. u4 = [type |-> h.type, parent |-> pa, prev |-> pr, next |-> ne,
              firstChild |-> fc, lastChild |-> h.lastChild]
    BY <2>4
  <2> HIDE DEF u4
  <2>6. u5 = [type |-> h.type, parent |-> pa, prev |-> pr, next |-> ne,
              firstChild |-> fc, lastChild |-> lc]
    BY <2>5
  <2> QED
    BY <2>1, <2>6 DEF pa, pr, ne, fc, lc
<1>5. /\ h.prev \in [Node -> Pointer] /\ h.next \in [Node -> Pointer]
      /\ h.firstChild \in [Node -> Pointer] /\ h.lastChild \in [Node -> Pointer]
  BY <1>1 DEF Fields
<1> HIDE DEF u, a
<1>6. u.prev = [x \in Node |-> IF x = n THEN a ELSE IF x = Null THEN n ELSE h.prev[x]]
  BY <1>1, <1>4, <1>5
<1>7. u.next = [x \in Node |-> IF x = n THEN Null ELSE IF x = a THEN n ELSE h.next[x]]
  BY <1>1, <1>2, <1>4, <1>5 DEF Set, Pointer
<1>8. u.firstChild = [x \in Node |-> IF x = p /\ a = Null THEN n ELSE h.firstChild[x]]
  BY <1>4, <1>5
<1>9. u.lastChild = [x \in Node |-> IF x = p /\ Null = Null THEN n ELSE h.lastChild[x]]
  BY <1>4, <1>5
<1> QED
  BY <1>3, <1>4, <1>6, <1>7, <1>8, <1>9 DEF Spliced, u, a

LEMMA LinkBeforeSplices ==
  ASSUME NEW h, NEW rank, NEW pos, Formed(h, rank, pos),
         NEW p \in Node, NEW n \in Node, ~Linked(h, n),
         NEW b \in Node, Linked(h, b), h.parent[b] = p
  PROVE  /\ Between(h, p, h.prev[b], b)
         /\ LinkBefore(h, p, b, n) = Spliced(h, p, h.prev[b], b, n)
<1> DEFINE a == h.prev[b]
           u == LinkBefore(h, p, b, n)
<1>1. Fields(h) /\ Null \notin Node
  BY NullAssumption DEF Formed
<1>2. /\ a \in Pointer /\ a # n /\ a # b /\ b # Null /\ b # n
      /\ a # Null => h.parent[a] = p /\ h.next[a] = b /\ Linked(h, a)
      /\ a = Null => h.firstChild[p] = b
  BY <1>1, Neighbours
<1>3. Between(h, p, a, b)
  BY <1>2 DEF Between, Pointer
<1>4. u = [type |-> h.type, parent |-> [h.parent EXCEPT ![n] = p],
           prev |-> [h.prev EXCEPT ![n] = a, ![b] = n],
           next |-> Set([h.next EXCEPT ![n] = b], a, n),
           firstChild |-> [h.firstChild EXCEPT ![p] = IF a = Null THEN n ELSE h.firstChild[p]],
           lastChild |-> h.lastChild]
  <2> DEFINE pa == [h.parent EXCEPT ![n] = p]
             pr == [h.prev EXCEPT ![n] = a, ![b] = n]
             ne == Set([h.next EXCEPT ![n] = b], a, n)
             fc == [h.firstChild EXCEPT ![p] = IF a = Null THEN n ELSE h.firstChild[p]]
             lc == h.lastChild
             u1 == [h EXCEPT !.parent = pa]
             u2 == [u1 EXCEPT !.prev = pr]
             u3 == [u2 EXCEPT !.next = ne]
             u4 == [u3 EXCEPT !.firstChild = fc]
             u5 == [u4 EXCEPT !.lastChild = lc]
  <2>1. u = u5
    BY <1>1 DEF LinkBefore, Fields
  <2> HIDE DEF pa, pr, ne, fc, lc
  <2>2. u1 = [type |-> h.type, parent |-> pa, prev |-> h.prev, next |-> h.next,
              firstChild |-> h.firstChild, lastChild |-> h.lastChild]
    BY <1>1 DEF Fields
  <2> HIDE DEF u1
  <2>3. u2 = [type |-> h.type, parent |-> pa, prev |-> pr, next |-> h.next,
              firstChild |-> h.firstChild, lastChild |-> h.lastChild]
    BY <2>2
  <2> HIDE DEF u2
  <2>4. u3 = [type |-> h.type, parent |-> pa, prev |-> pr, next |-> ne,
              firstChild |-> h.firstChild, lastChild |-> h.lastChild]
    BY <2>3
  <2> HIDE DEF u3
  <2>5. u4 = [type |-> h.type, parent |-> pa, prev |-> pr, next |-> ne,
              firstChild |-> fc, lastChild |-> h.lastChild]
    BY <2>4
  <2> HIDE DEF u4
  <2>6. u5 = [type |-> h.type, parent |-> pa, prev |-> pr, next |-> ne,
              firstChild |-> fc, lastChild |-> lc]
    BY <2>5
  <2> QED
    BY <2>1, <2>6 DEF pa, pr, ne, fc, lc
<1>5. /\ h.prev \in [Node -> Pointer] /\ h.next \in [Node -> Pointer]
      /\ h.firstChild \in [Node -> Pointer] /\ h.lastChild \in [Node -> Pointer]
  BY <1>1 DEF Fields
<1> HIDE DEF u, a
<1>6. u.prev = [x \in Node |-> IF x = n THEN a ELSE IF x = b THEN n ELSE h.prev[x]]
  BY <1>2, <1>4, <1>5
<1>7. u.next = [x \in Node |-> IF x = n THEN b ELSE IF x = a THEN n ELSE h.next[x]]
  BY <1>1, <1>2, <1>4, <1>5 DEF Set, Pointer
<1>8. u.firstChild = [x \in Node |-> IF x = p /\ a = Null THEN n ELSE h.firstChild[x]]
  BY <1>4, <1>5
<1>9. u.lastChild = [x \in Node |-> IF x = p /\ b = Null THEN n ELSE h.lastChild[x]]
  BY <1>2, <1>4, <1>5
<1> QED
  BY <1>3, <1>4, <1>6, <1>7, <1>8, <1>9 DEF Spliced, u, a

LEMMA LinkAfterSplices ==
  ASSUME NEW h, NEW rank, NEW pos, Formed(h, rank, pos),
         NEW p \in Node, NEW n \in Node, ~Linked(h, n),
         NEW a \in Node, Linked(h, a), h.parent[a] = p
  PROVE  /\ Between(h, p, a, h.next[a])
         /\ LinkAfter(h, p, a, n) = Spliced(h, p, a, h.next[a], n)
<1> DEFINE b == h.next[a]
           u == LinkAfter(h, p, a, n)
<1>1. Fields(h) /\ Null \notin Node
  BY NullAssumption DEF Formed
<1>2. /\ b \in Pointer /\ b # n /\ a # b /\ a # Null /\ a # n
      /\ b # Null => h.parent[b] = p /\ h.prev[b] = a /\ Linked(h, b)
      /\ b = Null => h.lastChild[p] = a
  BY <1>1, Neighbours
<1>3. Between(h, p, a, b)
  BY <1>2 DEF Between, Pointer
<1>4. u = [type |-> h.type, parent |-> [h.parent EXCEPT ![n] = p],
           prev |-> Set([h.prev EXCEPT ![n] = a], b, n),
           next |-> [h.next EXCEPT ![n] = b, ![a] = n],
           firstChild |-> h.firstChild,
           lastChild |-> [h.lastChild EXCEPT ![p] = IF b = Null THEN n ELSE h.lastChild[p]]]
  <2> DEFINE pa == [h.parent EXCEPT ![n] = p]
             pr == Set([h.prev EXCEPT ![n] = a], b, n)
             ne == [h.next EXCEPT ![n] = b, ![a] = n]
             fc == h.firstChild
             lc == [h.lastChild EXCEPT ![p] = IF b = Null THEN n ELSE h.lastChild[p]]
             u1 == [h EXCEPT !.parent = pa]
             u2 == [u1 EXCEPT !.prev = pr]
             u3 == [u2 EXCEPT !.next = ne]
             u4 == [u3 EXCEPT !.firstChild = fc]
             u5 == [u4 EXCEPT !.lastChild = lc]
  <2>1. u = u5
    BY <1>1 DEF LinkAfter, Fields
  <2> HIDE DEF pa, pr, ne, fc, lc
  <2>2. u1 = [type |-> h.type, parent |-> pa, prev |-> h.prev, next |-> h.next,
              firstChild |-> h.firstChild, lastChild |-> h.lastChild]
    BY <1>1 DEF Fields
  <2> HIDE DEF u1
  <2>3. u2 = [type |-> h.type, parent |-> pa, prev |-> pr, next |-> h.next,
              firstChild |-> h.firstChild, lastChild |-> h.lastChild]
    BY <2>2
  <2> HIDE DEF u2
  <2>4. u3 = [type |-> h.type, parent |-> pa, prev |-> pr, next |-> ne,
              firstChild |-> h.firstChild, lastChild |-> h.lastChild]
    BY <2>3
  <2> HIDE DEF u3
  <2>5. u4 = [type |-> h.type, parent |-> pa, prev |-> pr, next |-> ne,
              firstChild |-> fc, lastChild |-> h.lastChild]
    BY <2>4
  <2> HIDE DEF u4
  <2>6. u5 = [type |-> h.type, parent |-> pa, prev |-> pr, next |-> ne,
              firstChild |-> fc, lastChild |-> lc]
    BY <2>5
  <2> QED
    BY <2>1, <2>6 DEF pa, pr, ne, fc, lc
<1>5. /\ h.prev \in [Node -> Pointer] /\ h.next \in [Node -> Pointer]
      /\ h.firstChild \in [Node -> Pointer] /\ h.lastChild \in [Node -> Pointer]
  BY <1>1 DEF Fields
<1> HIDE DEF u, b
<1>6. u.prev = [x \in Node |-> IF x = n THEN a ELSE IF x = b THEN n ELSE h.prev[x]]
  BY <1>1, <1>2, <1>4, <1>5 DEF Set, Pointer
<1>7. u.next = [x \in Node |-> IF x = n THEN b ELSE IF x = a THEN n ELSE h.next[x]]
  BY <1>2, <1>4, <1>5
<1>8. u.firstChild = [x \in Node |-> IF x = p /\ a = Null THEN n ELSE h.firstChild[x]]
  BY <1>2, <1>4, <1>5
<1>9. u.lastChild = [x \in Node |-> IF x = p /\ b = Null THEN n ELSE h.lastChild[x]]
  BY <1>4, <1>5
<1> QED
  BY <1>3, <1>4, <1>6, <1>7, <1>8, <1>9 DEF Spliced, u, b

(* In the place of a child that is deleted. *)
(* n takes the place of r, whose tree is then on its own and deleted.       *)
Replaced(h, p, r, n) == Spliced(Detached(h, r), p, h.prev[r], h.next[r], n)

LEMMA LinkInsteadDeletes ==
  ASSUME NEW h, NEW rank, NEW pos, Formed(h, rank, pos), Settled(h),
         NEW p \in Node, NEW n \in Node, Fits(h, p, n),
         NEW r \in Node, Linked(h, r), h.parent[r] = p
  PROVE  LET k == Detached(h, r)
             j == Replaced(h, p, r, n)
         IN  /\ Between(k, p, h.prev[r], h.next[r]) /\ Fits(k, p, n)
             /\ (\E l, s : Formed(j, l, s)) /\ Settled(j) /\ j.parent[r] = Null
             /\ LinkInstead(h, p, r, n) = Delete(j, Subtree(j, r))
<1> DEFINE a == h.prev[r]
           b == h.next[r]
           k == Detached(h, r)
           j == Spliced(k, p, a, b, n)
           u == [h EXCEPT !.parent[n] = p,
                   !.next = Set([@ EXCEPT ![n] = b], a, n),
                   !.prev = Set([@ EXCEPT ![n] = a], b, n),
                   !.firstChild[p] = IF a = Null THEN n ELSE @,
                   !.lastChild[p] = IF b = Null THEN n ELSE @]
<1>1. Fields(h) /\ Null \notin Node
  BY NullAssumption DEF Formed
<1>2. /\ a \in Pointer /\ b \in Pointer
      /\ a # r /\ b # r /\ p # r
      /\ a # Null => /\ h.parent[a] = p /\ Linked(h, a)
      /\ b # Null => /\ h.parent[b] = p /\ Linked(h, b)
      /\ a = Null => h.firstChild[p] = r
      /\ b = Null => h.lastChild[p] = r
      /\ a = b => a = Null
      /\ \A x \in Node :
           /\ h.firstChild[x] = r => x = p /\ a = Null
           /\ h.lastChild[x] = r => x = p /\ b = Null
  BY Neighbours
<1>3. n # r /\ a # n /\ b # n /\ ~Linked(h, n)
  BY <1>2, <1>1 DEF Fits
<1>4. /\ Formed(k, rank, pos) /\ Settled(k)
      /\ ~Linked(k, r) /\ k.parent[r] = Null
      /\ \A x \in Node \ {r} : Linked(k, x) <=> Linked(h, x)
  BY DetachedFormed
<1>5. /\ k.type = h.type /\ \A x \in Node \ {r} : k.parent[x] = h.parent[x]
      /\ k.next \in [Node -> Pointer] /\ k.prev \in [Node -> Pointer]
      /\ \A x \in Node : /\ k.prev[x] = IF x = r THEN Null ELSE IF x = b THEN a ELSE h.prev[x]
                         /\ k.next[x] = IF x = r THEN Null ELSE IF x = a THEN b ELSE h.next[x]
                         /\ k.firstChild[x] = IF h.firstChild[x] = r THEN b ELSE h.firstChild[x]
                         /\ k.lastChild[x] = IF h.lastChild[x] = r THEN a ELSE h.lastChild[x]
  BY <1>1, <1>2 DEF Detached, Fields, Pointer
<1>6. Between(k, p, a, b)
  <2> HIDE DEF k, a, b
  <2> QED
    BY <1>1, <1>2, <1>4, <1>5 DEF Between, Pointer
<1>7. Fits(k, p, n)
  <2>1. Live(k) = Live(h)
    BY <1>5 DEF Live
  <2>2. k.parent[n] = h.parent[n]
    BY <1>3, <1>5
  <2> HIDE DEF k
  <2> QED
    BY <1>1, <1>3, <1>4, <1>5, <2>1, <2>2 DEF Fits
<1>8. /\ \E l, s : Formed(j, l, s)
      /\ Linked(j, n) /\ \A x \in Node \ {n} : Linked(j, x) <=> Linked(k, x)
  <2> HIDE DEF k, a, b
  <2> QED
    BY <1>4, <1>6, <1>7, SplicedFormed
<1>9. Settled(j)
  <2> HIDE DEF k
  <2>1. \A x \in Node \ {n} : j.parent[x] = k.parent[x]
    BY <1>4 DEF Spliced, Formed, Fields
  <2> QED
    BY <1>4, <1>8, <2>1 DEF Settled
<1>10. /\ u.type = h.type /\ u.parent = [h.parent EXCEPT ![n] = p]
       /\ u.prev = Set([h.prev EXCEPT ![n] = a], b, n)
       /\ u.next = Set([h.next EXCEPT ![n] = b], a, n)
       /\ u.firstChild = [h.firstChild EXCEPT ![p] = IF a = Null THEN n ELSE @]
       /\ u.lastChild = [h.lastChild EXCEPT ![p] = IF b = Null THEN n ELSE @]
  BY <1>1 DEF Fields
<1>11. /\ h.prev \in [Node -> Pointer] /\ h.next \in [Node -> Pointer] /\ h.parent \in [Node -> Pointer]
       /\ h.firstChild \in [Node -> Pointer] /\ h.lastChild \in [Node -> Pointer]
  BY <1>1 DEF Fields
<1>12. /\ j.type = k.type
       /\ j.parent = [k.parent EXCEPT ![n] = p] /\ k.parent = [h.parent EXCEPT ![r] = Null]
       /\ j.prev = [x \in Node |-> IF x = n THEN a ELSE IF x = b THEN n ELSE k.prev[x]]
       /\ j.next = [x \in Node |-> IF x = n THEN b ELSE IF x = a THEN n ELSE k.next[x]]
       /\ j.firstChild = [x \in Node |-> IF x = p /\ a = Null THEN n ELSE k.firstChild[x]]
       /\ j.lastChild = [x \in Node |-> IF x = p /\ b = Null THEN n ELSE k.lastChild[x]]
  BY DEF Spliced, Detached
<1>13. LinkInstead(h, p, r, n) = Delete(u, Subtree(u, r))
  BY DEF LinkInstead
<1> HIDE DEF u, j, k, a, b
<1>14. u.type = j.type /\ u.firstChild = j.firstChild /\ u.lastChild = j.lastChild
  <2>1. u.firstChild = j.firstChild
    BY <1>2, <1>5, <1>10, <1>11, <1>12
  <2>2. u.lastChild = j.lastChild
    BY <1>2, <1>5, <1>10, <1>11, <1>12
  <2> QED
    BY <1>5, <1>10, <1>12, <2>1, <2>2
<1>15. \A x \in Node : x # r => u.prev[x] = j.prev[x]
  BY <1>1, <1>2, <1>3, <1>5, <1>10, <1>11, <1>12 DEF Set, Pointer
<1>16. \A x \in Node : x # r => u.next[x] = j.next[x]
  BY <1>1, <1>2, <1>3, <1>5, <1>10, <1>11, <1>12 DEF Set, Pointer
<1>17. \A x \in Node : x # r => u.parent[x] = j.parent[x]
  BY <1>10, <1>11, <1>12
<1>18. Subtree(u, r) = Subtree(j, r) /\ r \in Subtree(j, r)
  BY <1>8, <1>14, <1>16, SubtreeSame, SubtreeClosed DEF Formed
<1>19. Delete(u, Subtree(j, r)) = Delete(j, Subtree(j, r))
  <2> DEFINE D == Subtree(j, r)
  <2>1. r \in D
    BY <1>18
  <2> HIDE DEF D
  <2>2. \A x \in Node \ D : x # r
    BY <2>1
  <2> QED
    BY <1>14, <1>15, <1>16, <1>17, <2>2 DEF Delete, D
<1>20. j.parent[r] = Null
  BY <1>3, <1>4, <1>11, <1>12
<1> QED
  BY <1>6, <1>7, <1>8, <1>9, <1>13, <1>18, <1>19, <1>20 DEF Replaced, j, k, a, b

LEMMA LinkInsteadFormed ==
  ASSUME NEW h, NEW rank, NEW pos, Formed(h, rank, pos), Settled(h),
         NEW p \in Node, NEW n \in Node, Fits(h, p, n),
         NEW r \in Node, Linked(h, r), h.parent[r] = p
  PROVE  /\ \E l, s : Formed(LinkInstead(h, p, r, n), l, s)
         /\ Settled(LinkInstead(h, p, r, n))
<1> DEFINE j == Replaced(h, p, r, n)
<1>1. /\ \E l, s : Formed(j, l, s)
      /\ Settled(j) /\ j.parent[r] = Null
      /\ LinkInstead(h, p, r, n) = Delete(j, Subtree(j, r))
  BY LinkInsteadDeletes
<1> HIDE DEF j
<1> QED
  BY <1>1, RootDeleted

-----------------------------------------------------------------------------
(* New nodes and copies.                                                   *)

(* Nothing points at a place that is free. *)
LEMMA UnusedUnknown ==
  ASSUME NEW h, NEW rank, NEW pos, Formed(h, rank, pos), NEW n \in Unused(h)
  PROVE  /\ n \in Node /\ ~Linked(h, n) /\ h.parent[n] = Null
         /\ h.prev[n] = Null /\ h.next[n] = Null
         /\ h.firstChild[n] = Null /\ h.lastChild[n] = Null
         /\ \A x \in Node : /\ h.parent[x] # n /\ h.prev[x] # n /\ h.next[x] # n
                            /\ h.firstChild[x] # n /\ h.lastChild[x] # n
<1>1. n \in Node /\ n \notin Live(h) /\ n # Null
  BY NullAssumption DEF Unused
<1>2. ASSUME NEW x \in Node
      PROVE  /\ h.parent[x] # n /\ h.prev[x] # n /\ h.next[x] # n
             /\ h.firstChild[x] # n /\ h.lastChild[x] # n
  <2>1. CASE x \in Live(h)
    BY <1>1, <2>1 DEF Formed, NothingDangles
  <2>2. CASE x \notin Live(h)
    BY <1>1, <2>2 DEF Formed, NothingDangles, Unused
  <2> QED
    BY <2>1, <2>2
<1> QED
  BY <1>1, <1>2 DEF Formed, NothingDangles, Linked

LEMMA NewFormed ==
  ASSUME NEW h, NEW rank, NEW pos, Formed(h, rank, pos), NEW n \in Unused(h), NEW t \in Types,
         NEW p, p = Null \/ (p \in Live(h) /\ t # "document")
  PROVE  /\ \E r : Formed(New(h, n, t, p), r, pos)
         /\ ~Linked(New(h, n, t, p), n)
         /\ \A x \in Node \ {n} : Linked(New(h, n, t, p), x) <=> Linked(h, x)
         /\ \A x \in Node : New(h, n, t, p).parent[x] # n
<1> DEFINE k == New(h, n, t, p)
<1>1. Fields(h) /\ Null \notin Node
  BY NullAssumption DEF Formed
<1>2. /\ n \in Node /\ ~Linked(h, n) /\ h.parent[n] = Null
      /\ h.prev[n] = Null /\ h.next[n] = Null
      /\ h.firstChild[n] = Null /\ h.lastChild[n] = Null
      /\ \A x \in Node : /\ h.parent[x] # n /\ h.prev[x] # n /\ h.next[x] # n
                         /\ h.firstChild[x] # n /\ h.lastChild[x] # n
      /\ n \notin Live(h)
  BY UnusedUnknown DEF Unused
<1>3. p # n /\ p \in Pointer
  BY <1>1, <1>2 DEF Live, Pointer
<1>4. /\ k.type[n] = t /\ k.parent[n] = p
      /\ k.prev = h.prev /\ k.next = h.next
      /\ k.firstChild = h.firstChild /\ k.lastChild = h.lastChild
      /\ \A x \in Node \ {n} : k.type[x] = h.type[x] /\ k.parent[x] = h.parent[x]
  BY <1>1, <1>2 DEF New, Fields
<1>5. Fields(k)
  BY <1>1, <1>2, <1>3 DEF New, Fields, Pointer
<1> HIDE DEF k
<1>6. ~Linked(k, n) /\ \A x \in Node \ {n} : Linked(k, x) <=> Linked(h, x)
  BY <1>1, <1>2, <1>3, <1>4 DEF Linked, Fields, Pointer
<1>7. SiblingsAgree(k)
  BY <1>1, <1>2, <1>3, <1>4 DEF Formed, SiblingsAgree, Fields, Pointer
<1>8. EndsAgree(k)
  BY <1>1, <1>2, <1>3, <1>4 DEF Formed, EndsAgree, Fields, Pointer
<1>9. ParentsAgree(k)
  BY <1>1, <1>2, <1>4, <1>6 DEF Formed, ParentsAgree
<1>10. NothingDangles(k)
  <2>1. Live(k) = Live(h) \cup {n}
    BY <1>2, <1>4 DEF Live, Types
  <2>2. ASSUME NEW x \in Live(k)
        PROVE  {k.parent[x], k.prev[x], k.next[x], k.firstChild[x], k.lastChild[x]}
                  \subseteq Live(k) \cup {Null}
    <3>1. CASE x = n
      BY <1>2, <1>4, <2>1, <3>1
    <3>2. CASE x # n
      <4>1. x \in Live(h) /\ x \in Node
        BY <2>1, <3>2 DEF Live
      <4> QED
        BY <1>4, <2>1, <3>2, <4>1 DEF Formed, NothingDangles
    <3> QED
      BY <3>1, <3>2
  <2>3. ASSUME NEW x \in Unused(k)
        PROVE  k.parent[x] = Null /\ k.prev[x] = Null /\ k.next[x] = Null
                 /\ k.firstChild[x] = Null /\ k.lastChild[x] = Null
    <3>1. x # n /\ x \in Unused(h) /\ x \in Node
      BY <2>1 DEF Unused
    <3> QED
      BY <1>4, <3>1 DEF Formed, NothingDangles
  <2> QED
    BY <2>2, <2>3 DEF NothingDangles
<1>11. Loose(k)
  BY <1>2, <1>4, <1>6 DEF Formed, Loose
<1>12. Placed(k, pos)
  BY <1>4 DEF Formed, Placed
<1>13. \E r : Ranked(k, r)
  <2>1. /\ rank \in [Node -> Nat]
        /\ \A x \in Node : h.parent[x] # Null => rank[h.parent[x]] < rank[x] /\ h.type[x] # "document"
    BY DEF Formed, Ranked
  <2> DEFINE r == [rank EXCEPT ![n] = IF p = Null THEN 0 ELSE rank[p] + 1]
  <2>2. (IF p = Null THEN 0 ELSE rank[p] + 1) \in Nat
    BY <1>3, <2>1 DEF Pointer
  <2>3. r \in [Node -> Nat]
    BY <2>1, <2>2
  <2>4. ASSUME NEW x \in Node, k.parent[x] # Null
        PROVE  r[k.parent[x]] < r[x] /\ k.type[x] # "document"
    <3>1. CASE x = n
      BY <1>1, <1>2, <1>3, <1>4, <2>1, <2>4, <3>1 DEF Pointer
    <3>2. CASE x # n
      <4>1. k.parent[x] = h.parent[x] /\ h.parent[x] \in Node /\ h.parent[x] # n /\ k.type[x] = h.type[x]
        BY <1>1, <1>2, <1>4, <2>4, <3>2 DEF Fields, Pointer
      <4> QED
        BY <2>1, <2>4, <3>2, <4>1
    <3> QED
      BY <3>1, <3>2
  <2> QED
    BY <2>3, <2>4 DEF Ranked
<1>14. \A x \in Node : k.parent[x] # n
  BY <1>2, <1>3, <1>4
<1> QED
  BY <1>5, <1>6, <1>7, <1>8, <1>9, <1>10, <1>11, <1>12, <1>13, <1>14 DEF Formed, k

(* What the nodes below s point at is below s as well. *)
LEMMA BelowPoints ==
  ASSUME NEW h, NEW rank, NEW pos, Formed(h, rank, pos), NEW s \in Node, NEW D,
         D = Subtree(h, s) \ {s}
  PROVE  /\ D \subseteq Node /\ s \notin D
         /\ h.firstChild[s] \in D \cup {Null} /\ h.lastChild[s] \in D \cup {Null}
         /\ \A y \in D : /\ Linked(h, y) /\ h.type[y] \in Types \ {"document"}
                         /\ h.parent[y] \in D \cup {s}
                         /\ h.prev[y] \in D \cup {Null} /\ h.next[y] \in D \cup {Null}
                         /\ h.firstChild[y] \in D \cup {Null}
                         /\ h.lastChild[y] \in D \cup {Null}
<1> DEFINE E == Subtree(h, s)
<1>1. s \in E /\ E \subseteq Node /\ Closed(h, s, E) /\ Null \notin Node /\ Fields(h)
  BY SubtreeClosed, NullAssumption DEF Formed
<1>2. \A y \in D : /\ y \in Node /\ Linked(h, y) /\ h.parent[y] \in E
                   /\ h.prev[y] \in D \cup {Null}
  BY SubtreeUp
<1>3. ASSUME NEW c \in Node, h.parent[c] \in E, Linked(h, c) PROVE c \in D
  BY <1>3, SubtreeDown
<1>4. \A x \in E : h.lastChild[x] \in D \cup {Null}
  BY SubtreeLast
<1>5. D = E \ {s}
  OBVIOUS
<1> HIDE DEF E
<1>6. ASSUME NEW x \in E PROVE h.firstChild[x] \in D \cup {Null}
  <2> SUFFICES ASSUME h.firstChild[x] # Null PROVE h.firstChild[x] \in D
    OBVIOUS
  <2>1. x \in Node /\ x # Null /\ h.firstChild[x] \in Node /\ h.parent[h.firstChild[x]] = x
    BY <1>1 DEF Formed, EndsAgree, Fields, Pointer
  <2>2. Linked(h, h.firstChild[x])
    BY <2>1 DEF Linked
  <2> QED
    BY <1>3, <2>1, <2>2
<1>7. ASSUME NEW y \in D PROVE h.next[y] \in D \cup {Null}
  <2> SUFFICES ASSUME h.next[y] # Null PROVE h.next[y] \in D
    OBVIOUS
  <2>1. /\ y \in Node /\ h.next[y] \in Node /\ h.parent[h.next[y]] = h.parent[y]
        /\ Linked(h, h.next[y])
    BY <1>2, Siblings
  <2> QED
    BY <1>2, <1>3, <2>1
<1>8. ASSUME NEW y \in D PROVE h.type[y] \in Types \ {"document"}
  <2>1. y \in Node /\ h.parent[y] # Null
    BY <1>1, <1>2
  <2>2. h.type[y] # "document"
    BY <2>1 DEF Formed, Ranked
  <2>3. y \in Live(h)
    BY <2>1 DEF Formed, NothingDangles, Unused
  <2>4. h.type[y] \in Types \cup {"free"} /\ h.type[y] # "free"
    BY <1>1, <2>1, <2>3 DEF Fields, Live
  <2> QED
    BY <2>2, <2>4
<1> QED
  BY <1>1, <1>2, <1>4, <1>5, <1>6, <1>7, <1>8

(* What CopyTo writes: the nodes in D, below s, come out below n.           *)
Copies(h, k, D, s, n, f) ==
  /\ \A y \in D :
       /\ k.type[f[y]] = h.type[y]
       /\ k.parent[f[y]] = IF h.parent[y] = s THEN n ELSE f[h.parent[y]]
       /\ k.prev[f[y]] = IF h.prev[y] = Null THEN Null ELSE f[h.prev[y]]
       /\ k.next[f[y]] = IF h.next[y] = Null THEN Null ELSE f[h.next[y]]
       /\ k.firstChild[f[y]] = IF h.firstChild[y] = Null THEN Null ELSE f[h.firstChild[y]]
       /\ k.lastChild[f[y]] = IF h.lastChild[y] = Null THEN Null ELSE f[h.lastChild[y]]
  /\ \A x \in Node \ {f[y] : y \in D} :
       /\ k.type[x] = h.type[x] /\ k.parent[x] = h.parent[x]
       /\ k.prev[x] = h.prev[x] /\ k.next[x] = h.next[x]
       /\ x # n => k.firstChild[x] = h.firstChild[x] /\ k.lastChild[x] = h.lastChild[x]
  /\ k.firstChild[n] = IF h.firstChild[s] = Null THEN Null ELSE f[h.firstChild[s]]
  /\ k.lastChild[n] = IF h.lastChild[s] = Null THEN Null ELSE f[h.lastChild[s]]

LEMMA CopyFields ==
  ASSUME NEW h, NEW rank, NEW pos, Formed(h, rank, pos), NEW s \in Node, NEW D,
         D = Subtree(h, s) \ {s},
         NEW n \in Live(h), NEW f \in [D -> Unused(h)], IsInjective(f),
         NEW k, k = CopyTo(h, s, n, f)
  PROVE  Fields(k) /\ Copies(h, k, D, s, n, f)
<1> DEFINE R == {f[y] : y \in D}
           g == [y \in DOMAIN f \cup {s} |-> IF y = s THEN n ELSE f[y]]
           Original(x) == CHOOSE y \in DOMAIN f : f[y] = x
           Copy(field) == [x \in Node |-> IF \E y \in DOMAIN f : f[y] = x
                                            THEN Copied(g, field[Original(x)]) ELSE field[x]]
<1>1. /\ Fields(h) /\ Null \notin Node /\ n \in Node /\ n \notin R
      /\ DOMAIN f = D /\ R \subseteq Node /\ \A y \in D : f[y] \in R
  BY NullAssumption DEF Formed, Live, Unused
<1>2. /\ D \subseteq Node /\ s \notin D
      /\ h.firstChild[s] \in D \cup {Null} /\ h.lastChild[s] \in D \cup {Null}
      /\ \A y \in D : /\ h.type[y] \in Types \ {"document"}
                      /\ h.parent[y] \in D \cup {s}
                      /\ h.prev[y] \in D \cup {Null} /\ h.next[y] \in D \cup {Null}
                      /\ h.firstChild[y] \in D \cup {Null}
                      /\ h.lastChild[y] \in D \cup {Null}
  BY BelowPoints
<1>3. \A y \in D : Original(f[y]) = y
  BY <1>1 DEF IsInjective
<1>4. \A z \in D \cup {s} : g[z] = IF z = s THEN n ELSE f[z]
  BY <1>1
<1>5. k = [type |-> [x \in Node |-> IF \E y \in DOMAIN f : f[y] = x
                                      THEN h.type[Original(x)] ELSE h.type[x]],
           parent |-> Copy(h.parent), prev |-> Copy(h.prev), next |-> Copy(h.next),
           firstChild |-> [Copy(h.firstChild) EXCEPT ![n] = Copied(f, h.firstChild[s])],
           lastChild |-> [Copy(h.lastChild) EXCEPT ![n] = Copied(f, h.lastChild[s])]]
  BY DEF CopyTo
<1> HIDE DEF g, Original
<1>6. ASSUME NEW field \in [Node -> Pointer]
      PROVE  /\ \A y \in D : Copy(field)[f[y]] = Copied(g, field[y])
             /\ \A x \in Node \ R : Copy(field)[x] = field[x]
             /\ Copy(field) = [x \in Node |-> Copy(field)[x]]
  BY <1>1, <1>3
<1>7. /\ h.parent \in [Node -> Pointer] /\ h.prev \in [Node -> Pointer] /\ h.next \in [Node -> Pointer]
      /\ h.firstChild \in [Node -> Pointer] /\ h.lastChild \in [Node -> Pointer]
      /\ h.type \in [Node -> Types \cup {"free"}]
  BY <1>1 DEF Fields
<1>8. /\ \A y \in D : k.type[f[y]] = h.type[y]
      /\ \A x \in Node \ R : k.type[x] = h.type[x]
      /\ k.type = [x \in Node |-> k.type[x]]
  BY <1>1, <1>3, <1>5
<1> HIDE DEF Copy
<1>9. /\ k.parent = Copy(h.parent) /\ k.prev = Copy(h.prev) /\ k.next = Copy(h.next)
      /\ k.firstChild = [Copy(h.firstChild) EXCEPT ![n] = Copied(f, h.firstChild[s])]
      /\ k.lastChild = [Copy(h.lastChild) EXCEPT ![n] = Copied(f, h.lastChild[s])]
  BY <1>5
<1>10. \A z \in D \cup {Null} : Copied(g, z) = IF z = Null THEN Null ELSE f[z]
  BY <1>1, <1>2, <1>4 DEF Copied
<1>11. \A z \in D \cup {s} : Copied(g, z) = IF z = s THEN n ELSE f[z]
  BY <1>1, <1>2, <1>4 DEF Copied
<1>12. \A y \in D :
         /\ k.parent[f[y]] = IF h.parent[y] = s THEN n ELSE f[h.parent[y]]
         /\ k.prev[f[y]] = IF h.prev[y] = Null THEN Null ELSE f[h.prev[y]]
         /\ k.next[f[y]] = IF h.next[y] = Null THEN Null ELSE f[h.next[y]]
  BY <1>2, <1>6, <1>7, <1>9, <1>10, <1>11
<1>13. \A y \in D :
         /\ k.firstChild[f[y]] = IF h.firstChild[y] = Null THEN Null ELSE f[h.firstChild[y]]
         /\ k.lastChild[f[y]] = IF h.lastChild[y] = Null THEN Null ELSE f[h.lastChild[y]]
  BY <1>1, <1>2, <1>6, <1>7, <1>9, <1>10
<1>14. \A x \in Node \ R :
         /\ k.parent[x] = h.parent[x] /\ k.prev[x] = h.prev[x] /\ k.next[x] = h.next[x]
         /\ x # n => k.firstChild[x] = h.firstChild[x] /\ k.lastChild[x] = h.lastChild[x]
  BY <1>1, <1>6, <1>7, <1>9
<1>15. /\ k.firstChild[n] = IF h.firstChild[s] = Null THEN Null ELSE f[h.firstChild[s]]
       /\ k.lastChild[n] = IF h.lastChild[s] = Null THEN Null ELSE f[h.lastChild[s]]
  BY <1>1, <1>6, <1>7, <1>9 DEF Copied
<1>16. Fields(k)
  <2>1. \A x \in Node : x \in R => \E y \in D : x = f[y]
    OBVIOUS
  <2>2. ASSUME NEW x \in Node
        PROVE  /\ k.type[x] \in Types \cup {"free"}
               /\ k.parent[x] \in Pointer /\ k.prev[x] \in Pointer /\ k.next[x] \in Pointer
               /\ k.firstChild[x] \in Pointer /\ k.lastChild[x] \in Pointer
    <3>1. CASE x \in R
      <4>1. PICK y \in D : x = f[y]
        BY <2>1, <3>1
      <4>2. \A z \in D : f[z] \in Pointer
        BY <1>1 DEF Pointer
      <4>3. n \in Pointer /\ Null \in Pointer
        BY <1>1 DEF Pointer
      <4>4. k.type[x] \in Types \cup {"free"}
        BY <1>2, <1>8, <4>1
      <4>5. k.parent[x] \in Pointer /\ k.prev[x] \in Pointer /\ k.next[x] \in Pointer
        BY <1>2, <1>12, <4>1, <4>2, <4>3
      <4>6. k.firstChild[x] \in Pointer /\ k.lastChild[x] \in Pointer
        BY <1>2, <1>13, <4>1, <4>2, <4>3
      <4> QED
        BY <4>4, <4>5, <4>6
    <3>2. CASE x \notin R /\ x # n
      BY <1>7, <1>8, <1>14, <3>2
    <3>3. CASE x = n
      BY <1>1, <1>2, <1>7, <1>8, <1>14, <1>15, <3>3 DEF Pointer
    <3> QED
      BY <3>1, <3>2, <3>3
  <2>3. /\ k.parent = [x \in Node |-> k.parent[x]] /\ k.prev = [x \in Node |-> k.prev[x]]
        /\ k.next = [x \in Node |-> k.next[x]]
    BY <1>6, <1>7, <1>9
  <2>6. /\ k.firstChild = [x \in Node |-> k.firstChild[x]]
        /\ k.lastChild = [x \in Node |-> k.lastChild[x]]
    BY <1>6, <1>7, <1>9
  <2>4. k = [type |-> k.type, parent |-> k.parent, prev |-> k.prev, next |-> k.next,
             firstChild |-> k.firstChild, lastChild |-> k.lastChild]
    BY <1>5
  <2>5. /\ k.type \in [Node -> Types \cup {"free"}]
        /\ k.parent \in [Node -> Pointer] /\ k.prev \in [Node -> Pointer]
        /\ k.next \in [Node -> Pointer]
        /\ k.firstChild \in [Node -> Pointer] /\ k.lastChild \in [Node -> Pointer]
    BY <1>8, <2>2, <2>3, <2>6
  <2> QED
    BY <2>4, <2>5 DEF Fields
<1> QED
  BY <1>8, <1>12, <1>13, <1>14, <1>15, <1>16 DEF Copies

(* A copy below n in the places R leaves everything else as it was.         *)
CopyKeeps(h, k, n, R) ==
  /\ \E r, t : Formed(k, r, t)
  /\ Settled(h) => Settled(k)
  /\ R \subseteq Unused(h) /\ n \notin R
  /\ \A x \in Node \ R : /\ Linked(k, x) <=> Linked(h, x)
                         /\ k.parent[x] = h.parent[x] /\ k.type[x] = h.type[x]
  /\ (\A x \in Node : h.parent[x] # n)
       => \A x \in Node : k.parent[x] \in R \cup {n} => x \in R

LEMMA CopyFormed ==
  ASSUME NEW h, NEW rank, NEW pos, Formed(h, rank, pos), NEW s \in Node, NEW D,
         D = Subtree(h, s) \ {s}, NEW n \in Live(h),
         h.firstChild[n] = Null, h.lastChild[n] = Null,
         NEW f \in [D -> Unused(h)], IsInjective(f), NEW R, R = {f[y] : y \in D},
         NEW k, k = CopyTo(h, s, n, f)
  PROVE  CopyKeeps(h, k, n, R)
<1>0. Fields(k) /\ Copies(h, k, D, s, n, f)
  BY CopyFields
<1>1. /\ Fields(h) /\ Null \notin Node /\ n \in Node /\ n \notin R
      /\ DOMAIN f = D /\ R \subseteq Node /\ R \subseteq Unused(h)
      /\ \A y \in D : f[y] \in R /\ f[y] \in Node /\ f[y] # n /\ f[y] # Null
      /\ \A x \in Node : x \in R => \E y \in D : x = f[y]
  BY NullAssumption DEF Formed, Live, Unused
<1>2. /\ D \subseteq Node /\ s \notin D
      /\ h.firstChild[s] \in D \cup {Null} /\ h.lastChild[s] \in D \cup {Null}
      /\ \A y \in D : /\ Linked(h, y) /\ h.type[y] \in Types \ {"document"}
                      /\ h.parent[y] \in D \cup {s}
                      /\ h.prev[y] \in D \cup {Null} /\ h.next[y] \in D \cup {Null}
                      /\ h.firstChild[y] \in D \cup {Null}
                      /\ h.lastChild[y] \in D \cup {Null}
  BY BelowPoints
<1>3. \A y, z \in D : f[y] = f[z] => y = z
  BY <1>1 DEF IsInjective
<1>4. \A y \in D :
        /\ k.type[f[y]] = h.type[y]
        /\ k.parent[f[y]] = IF h.parent[y] = s THEN n ELSE f[h.parent[y]]
        /\ k.prev[f[y]] = IF h.prev[y] = Null THEN Null ELSE f[h.prev[y]]
        /\ k.next[f[y]] = IF h.next[y] = Null THEN Null ELSE f[h.next[y]]
        /\ k.firstChild[f[y]] = IF h.firstChild[y] = Null THEN Null ELSE f[h.firstChild[y]]
        /\ k.lastChild[f[y]] = IF h.lastChild[y] = Null THEN Null ELSE f[h.lastChild[y]]
  BY <1>0 DEF Copies
<1>5. /\ \A x \in Node \ R :
           /\ k.type[x] = h.type[x] /\ k.parent[x] = h.parent[x]
           /\ k.prev[x] = h.prev[x] /\ k.next[x] = h.next[x]
           /\ x # n => k.firstChild[x] = h.firstChild[x] /\ k.lastChild[x] = h.lastChild[x]
      /\ k.firstChild[n] = IF h.firstChild[s] = Null THEN Null ELSE f[h.firstChild[s]]
      /\ k.lastChild[n] = IF h.lastChild[s] = Null THEN Null ELSE f[h.lastChild[s]]
  BY <1>0 DEF Copies
<1>6. Fields(k)
  BY <1>0
<1>7. \A x \in Node :
        /\ h.parent[x] \notin R /\ h.prev[x] \notin R /\ h.next[x] \notin R
        /\ h.firstChild[x] \notin R /\ h.lastChild[x] \notin R
  BY <1>1, UnusedUnknown
<1>8. \A y \in D : /\ h.parent[y] # Null
                   /\ h.prev[y] = Null => h.firstChild[h.parent[y]] = y
                   /\ h.next[y] = Null => h.lastChild[h.parent[y]] = y
  <2> TAKE y \in D
  <2>1. Linked(h, y) /\ h.parent[y] # Null /\ y \in Node
    BY <1>2 DEF Linked
  <2> QED
    BY <2>1 DEF Formed, ParentsAgree
<1>9. ASSUME NEW y \in D
      PROVE  /\ Linked(k, f[y]) /\ k.parent[f[y]] # Null
             /\ k.prev[f[y]] = Null => k.firstChild[k.parent[f[y]]] = f[y]
             /\ k.next[f[y]] = Null => k.lastChild[k.parent[f[y]]] = f[y]
  <2>1. k.parent[f[y]] # Null
    BY <1>1, <1>2, <1>4
  <2>2. k.prev[f[y]] = Null => h.prev[y] = Null
    BY <1>1, <1>2, <1>4
  <2>3. k.next[f[y]] = Null => h.next[y] = Null
    BY <1>1, <1>2, <1>4
  <2>4. y # Null /\ f[y] # Null /\ y \in Node
    BY <1>1, <1>2
  <2>5. CASE h.parent[y] = s
    <3>1. k.parent[f[y]] = n
      BY <1>4, <2>5
    <3>2. /\ h.prev[y] = Null => k.firstChild[n] = f[y]
          /\ h.next[y] = Null => k.lastChild[n] = f[y]
      BY <1>5, <1>8, <2>4, <2>5
    <3> QED
      BY <2>1, <2>2, <2>3, <3>1, <3>2 DEF Linked
  <2>6. CASE h.parent[y] # s
    <3>1. h.parent[y] \in D /\ k.parent[f[y]] = f[h.parent[y]]
      BY <1>2, <1>4, <2>6
    <3>2. /\ h.prev[y] = Null => k.firstChild[f[h.parent[y]]] = f[y]
          /\ h.next[y] = Null => k.lastChild[f[h.parent[y]]] = f[y]
      BY <1>4, <1>8, <2>4, <3>1
    <3> QED
      BY <2>1, <2>2, <2>3, <3>1, <3>2 DEF Linked
  <2> QED
    BY <2>5, <2>6
<1>10. ASSUME NEW x \in Node \ R PROVE Linked(k, x) <=> Linked(h, x)
  <2>1. k.parent[x] = h.parent[x] /\ k.prev[x] = h.prev[x]
    BY <1>5
  <2>2. CASE h.parent[x] = Null
    BY <2>1, <2>2 DEF Linked
  <2>3. CASE h.parent[x] # Null
    <3>1. h.parent[x] \in Node /\ h.parent[x] \notin R /\ x # Null
      BY <1>1, <1>7, <2>3 DEF Fields, Pointer
    <3>2. CASE h.parent[x] # n
      BY <1>5, <2>1, <3>1, <3>2 DEF Linked
    <3>3. CASE h.parent[x] = n
      <4>1. k.firstChild[n] # x
        BY <1>1, <1>2, <1>5, <3>1
      <4> QED
        BY <2>1, <3>1, <3>3, <4>1 DEF Linked
    <3> QED
      BY <3>2, <3>3
  <2> QED
    BY <2>2, <2>3
<1>11. SiblingsAgree(k)
  <2> SUFFICES ASSUME NEW x \in Node
               PROVE  /\ k.next[x] # Null => /\ k.prev[k.next[x]] = x
                           /\ k.parent[k.next[x]] = k.parent[x] /\ k.parent[x] # Null
                      /\ k.prev[x] # Null => k.next[k.prev[x]] = x
    BY DEF SiblingsAgree
  <2>1. CASE x \in R
    <3>1. PICK y \in D : x = f[y]
      BY <1>1, <2>1
    <3>2. y \in Node
      BY <1>2
    <3>3. ASSUME k.next[x] # Null
          PROVE  /\ k.prev[k.next[x]] = x
                 /\ k.parent[k.next[x]] = k.parent[x] /\ k.parent[x] # Null
      <4>1. h.next[y] \in D /\ h.next[y] # Null /\ k.next[x] = f[h.next[y]]
        BY <1>2, <1>4, <3>1, <3>3
      <4>2. h.prev[h.next[y]] = y /\ h.parent[h.next[y]] = h.parent[y] /\ y # Null
        BY <1>1, <3>2, <4>1 DEF Formed, SiblingsAgree
      <4> QED
        BY <1>4, <1>9, <3>1, <4>1, <4>2
    <3>4. ASSUME k.prev[x] # Null PROVE k.next[k.prev[x]] = x
      <4>1. h.prev[y] \in D /\ h.prev[y] # Null /\ k.prev[x] = f[h.prev[y]]
        BY <1>2, <1>4, <3>1, <3>4
      <4>2. h.next[h.prev[y]] = y /\ y # Null
        BY <1>1, <3>2, <4>1 DEF Formed, SiblingsAgree
      <4> QED
        BY <1>4, <3>1, <4>1, <4>2
    <3> QED
      BY <3>3, <3>4
  <2>2. CASE x \notin R
    <3>1. k.next[x] = h.next[x] /\ k.prev[x] = h.prev[x] /\ k.parent[x] = h.parent[x]
      BY <1>5, <2>2
    <3>2. /\ h.next[x] # Null => h.next[x] \in Node \ R
          /\ h.prev[x] # Null => h.prev[x] \in Node \ R
      BY <1>1, <1>7 DEF Fields, Pointer
    <3> QED
      BY <1>5, <3>1, <3>2 DEF Formed, SiblingsAgree
  <2> QED
    BY <2>1, <2>2
<1>12. EndsAgree(k)
  <2>1. \A x \in Node : /\ h.firstChild[x] # Null => h.parent[h.firstChild[x]] = x /\ h.prev[h.firstChild[x]] = Null
                        /\ h.lastChild[x] # Null => h.parent[h.lastChild[x]] = x /\ h.next[h.lastChild[x]] = Null
                        /\ h.firstChild[x] = Null <=> h.lastChild[x] = Null
    BY DEF Formed, EndsAgree
  <2> SUFFICES ASSUME NEW x \in Node
               PROVE  /\ k.firstChild[x] # Null => k.parent[k.firstChild[x]] = x /\ k.prev[k.firstChild[x]] = Null
                      /\ k.lastChild[x] # Null => k.parent[k.lastChild[x]] = x /\ k.next[k.lastChild[x]] = Null
                      /\ k.firstChild[x] = Null <=> k.lastChild[x] = Null
    BY DEF EndsAgree
  <2>2. CASE x \in R
    <3>1. PICK y \in D : x = f[y]
      BY <1>1, <2>2
    <3>2. y \in Node /\ y # s
      BY <1>2
    <3>3. k.firstChild[x] # Null => k.parent[k.firstChild[x]] = x /\ k.prev[k.firstChild[x]] = Null
      BY <1>2, <1>4, <2>1, <3>1, <3>2
    <3>4. k.lastChild[x] # Null => k.parent[k.lastChild[x]] = x /\ k.next[k.lastChild[x]] = Null
      BY <1>2, <1>4, <2>1, <3>1, <3>2
    <3>5. k.firstChild[x] = Null <=> k.lastChild[x] = Null
      BY <1>1, <1>2, <1>4, <2>1, <3>1, <3>2
    <3> QED
      BY <3>3, <3>4, <3>5
  <2>3. CASE x = n
    <3>1. k.firstChild[n] # Null => k.parent[k.firstChild[n]] = n /\ k.prev[k.firstChild[n]] = Null
      BY <1>2, <1>4, <1>5, <2>1
    <3>2. k.lastChild[n] # Null => k.parent[k.lastChild[n]] = n /\ k.next[k.lastChild[n]] = Null
      BY <1>2, <1>4, <1>5, <2>1
    <3>3. k.firstChild[n] = Null <=> k.lastChild[n] = Null
      BY <1>1, <1>2, <1>5, <2>1
    <3> QED
      BY <2>3, <3>1, <3>2, <3>3
  <2>4. CASE x \notin R /\ x # n
    <3>1. k.firstChild[x] = h.firstChild[x] /\ k.lastChild[x] = h.lastChild[x]
      BY <1>5, <2>4
    <3>2. /\ h.firstChild[x] # Null => h.firstChild[x] \in Node \ R
          /\ h.lastChild[x] # Null => h.lastChild[x] \in Node \ R
      BY <1>1, <1>7 DEF Fields, Pointer
    <3> QED
      BY <1>5, <2>1, <3>1, <3>2
  <2> QED
    BY <2>2, <2>3, <2>4
<1>13. ParentsAgree(k)
  <2> SUFFICES ASSUME NEW x \in Node, k.parent[x] # Null, Linked(k, x)
               PROVE  /\ k.prev[x] = Null => k.firstChild[k.parent[x]] = x
                      /\ k.next[x] = Null => k.lastChild[k.parent[x]] = x
    BY DEF ParentsAgree
  <2>1. CASE x \in R
    BY <1>1, <1>9, <2>1
  <2>2. CASE x \notin R
    <3>1. /\ Linked(h, x) /\ h.parent[x] = k.parent[x] /\ h.prev[x] = k.prev[x]
          /\ h.next[x] = k.next[x] /\ h.parent[x] \in Node /\ h.parent[x] \notin R
          /\ x # Null
      BY <1>1, <1>5, <1>7, <1>10, <2>2 DEF Fields, Pointer
    <3>2. /\ h.prev[x] = Null => h.firstChild[h.parent[x]] = x
          /\ h.next[x] = Null => h.lastChild[h.parent[x]] = x
      BY <1>1, <3>1 DEF Formed, ParentsAgree
    <3> QED
      BY <1>5, <3>1, <3>2
  <2> QED
    BY <2>1, <2>2
<1>14. NothingDangles(k)
  <2>1. Live(k) = Live(h) \cup R
    <3>1. ASSUME NEW x \in R PROVE k.type[x] # "free"
      <4>1. PICK y \in D : x = f[y]
        BY <1>1
      <4>2. k.type[x] \in Types
        BY <1>2, <1>4, <4>1
      <4> QED
        BY <4>2 DEF Types
    <3>2. \A x \in Node \ R : k.type[x] = h.type[x]
      BY <1>5
    <3> QED
      BY <1>1, <3>1, <3>2 DEF Live
  <2>2. ASSUME NEW x \in Live(k)
        PROVE  {k.parent[x], k.prev[x], k.next[x], k.firstChild[x], k.lastChild[x]}
                  \subseteq Live(k) \cup {Null}
    <3>1. CASE x \in R
      <4>1. PICK y \in D : x = f[y]
        BY <1>1, <3>1
      <4>2. \A z \in D : f[z] \in Live(k)
        BY <1>1, <2>1
      <4>3. n \in Live(k)
        BY <2>1
      <4>4. {k.parent[x], k.prev[x], k.next[x]} \subseteq Live(k) \cup {Null}
        BY <1>2, <1>4, <4>1, <4>2, <4>3
      <4>5. {k.firstChild[x], k.lastChild[x]} \subseteq Live(k) \cup {Null}
        BY <1>2, <1>4, <4>1, <4>2
      <4> QED
        BY <4>4, <4>5
    <3>2. CASE x \notin R
      <4>1. x \in Live(h) /\ x \in Node
        BY <2>1, <3>2 DEF Live
      <4>2. {h.parent[x], h.prev[x], h.next[x], h.firstChild[x], h.lastChild[x]} \subseteq Live(h) \cup {Null}
        BY <4>1 DEF Formed, NothingDangles
      <4>3. {k.parent[x], k.prev[x], k.next[x]} \subseteq Live(k) \cup {Null}
        BY <1>5, <2>1, <3>2, <4>1, <4>2
      <4>4. {k.firstChild[x], k.lastChild[x]} \subseteq Live(k) \cup {Null}
        BY <1>1, <1>2, <1>5, <2>1, <3>2, <4>1, <4>2
      <4> QED
        BY <4>3, <4>4
    <3> QED
      BY <3>1, <3>2
  <2>3. ASSUME NEW x \in Unused(k)
        PROVE  k.parent[x] = Null /\ k.prev[x] = Null /\ k.next[x] = Null
                 /\ k.firstChild[x] = Null /\ k.lastChild[x] = Null
    <3>1. x \notin R /\ x # n /\ x \in Unused(h) /\ x \in Node
      BY <2>1 DEF Unused
    <3> QED
      BY <1>5, <3>1 DEF Formed, NothingDangles
  <2> QED
    BY <2>2, <2>3 DEF NothingDangles
<1>15. Loose(k)
  <2> SUFFICES ASSUME NEW x \in Node, ~Linked(k, x)
               PROVE  k.next[x] = Null /\ \A q \in Node : k.lastChild[q] # x
    BY DEF Loose
  <2>1. x \notin R
    BY <1>1, <1>9
  <2>2. ~Linked(h, x) /\ h.next[x] = Null /\ \A q \in Node : h.lastChild[q] # x
    BY <1>10, <2>1 DEF Formed, Loose
  <2>3. ASSUME NEW q \in Node PROVE k.lastChild[q] # x
    <3>1. CASE q \in R
      <4>1. PICK y \in D : q = f[y]
        BY <1>1, <3>1
      <4>2. x # Null
        BY <1>1
      <4> QED
        BY <1>1, <1>2, <1>4, <2>1, <4>1, <4>2
    <3>2. CASE q \notin R
      <4>1. x # Null
        BY <1>1
      <4> QED
        BY <1>1, <1>2, <1>5, <2>1, <2>2, <3>2, <4>1
    <3> QED
      BY <3>1, <3>2
  <2> QED
    BY <1>5, <2>1, <2>2, <2>3
<1>16. \E r : Ranked(k, r)
  <2>1. /\ rank \in [Node -> Nat]
        /\ \A x \in Node : h.parent[x] # Null => rank[h.parent[x]] < rank[x] /\ h.type[x] # "document"
    BY DEF Formed, Ranked
  <2> DEFINE of(x) == CHOOSE y \in D : f[y] = x
             r == [x \in Node |-> IF x \in R THEN rank[of(x)] + rank[n] + 1 ELSE rank[x]]
  <2>2. \A y \in D : of(f[y]) = y
    BY <1>3
  <2> HIDE DEF of
  <2>3. \A y \in D : r[f[y]] = rank[y] + rank[n] + 1 /\ rank[y] \in Nat
    BY <1>1, <1>2, <2>1, <2>2
  <2>4. \A x \in Node \ R : r[x] = rank[x] /\ rank[x] \in Nat
    BY <2>1
  <2>5. r \in [Node -> Nat]
    <3>1. \A x \in R : rank[of(x)] + rank[n] + 1 \in Nat
      BY <1>1, <1>2, <2>1, <2>2
    <3> QED
      BY <2>1, <3>1
  <2> HIDE DEF r
  <2>6. ASSUME NEW x \in Node, k.parent[x] # Null
        PROVE  r[k.parent[x]] < r[x] /\ k.type[x] # "document"
    <3>1. CASE x \in R
      <4>1. PICK y \in D : x = f[y]
        BY <1>1, <3>1
      <4>2. k.type[x] # "document"
        BY <1>2, <1>4, <4>1
      <4>3. CASE h.parent[y] = s
        <5>1. k.parent[x] = n
          BY <1>4, <4>1, <4>3
        <5>2. r[n] = rank[n] /\ rank[n] \in Nat
          BY <1>1, <2>4
        <5>3. r[x] = rank[y] + rank[n] + 1 /\ rank[y] \in Nat
          BY <2>3, <4>1
        <5> QED
          BY <4>2, <5>1, <5>2, <5>3
      <4>4. CASE h.parent[y] # s
        <5>1. h.parent[y] \in D /\ k.parent[x] = f[h.parent[y]]
          BY <1>2, <1>4, <4>1, <4>4
        <5>2. rank[h.parent[y]] < rank[y]
          BY <1>2, <1>8, <2>1
        <5>3. r[x] = rank[y] + rank[n] + 1 /\ rank[y] \in Nat
          BY <2>3, <4>1
        <5>4. r[k.parent[x]] = rank[h.parent[y]] + rank[n] + 1 /\ rank[h.parent[y]] \in Nat
          BY <2>3, <5>1
        <5>5. rank[n] \in Nat
          BY <1>1, <2>1
        <5> QED
          BY <4>2, <5>2, <5>3, <5>4, <5>5
      <4> QED
        BY <4>3, <4>4
    <3>2. CASE x \notin R
      <4>1. k.parent[x] = h.parent[x] /\ k.type[x] = h.type[x] /\ h.parent[x] \in Node \ R
        BY <1>1, <1>5, <1>7, <2>6, <3>2 DEF Fields, Pointer
      <4> QED
        BY <2>1, <2>4, <2>6, <3>2, <4>1
    <3> QED
      BY <3>1, <3>2
  <2> QED
    BY <2>5, <2>6 DEF Ranked
<1>17. \E t : Placed(k, t)
  <2>1. pos \in [Node -> Nat] /\ \A x \in Node : h.next[x] # Null => pos[x] < pos[h.next[x]]
    BY DEF Formed, Placed
  <2> DEFINE of(x) == CHOOSE y \in D : f[y] = x
             t == [x \in Node |-> IF x \in R THEN pos[of(x)] ELSE pos[x]]
  <2>2. \A y \in D : of(f[y]) = y
    BY <1>3
  <2> HIDE DEF of
  <2>3. \A y \in D : t[f[y]] = pos[y]
    BY <1>1, <2>2
  <2>4. \A x \in Node \ R : t[x] = pos[x]
    OBVIOUS
  <2>5. t \in [Node -> Nat]
    <3>1. \A x \in R : pos[of(x)] \in Nat
      BY <1>1, <1>2, <2>1, <2>2
    <3> QED
      BY <2>1, <3>1
  <2> HIDE DEF t
  <2>6. ASSUME NEW x \in Node, k.next[x] # Null PROVE t[x] < t[k.next[x]]
    <3>1. CASE x \in R
      <4>1. PICK y \in D : x = f[y]
        BY <1>1, <3>1
      <4>2. h.next[y] \in D /\ h.next[y] # Null /\ k.next[x] = f[h.next[y]]
        BY <1>2, <1>4, <2>6, <4>1
      <4>3. pos[y] < pos[h.next[y]]
        BY <1>2, <2>1, <4>2
      <4> QED
        BY <2>3, <4>1, <4>2, <4>3
    <3>2. CASE x \notin R
      <4>1. k.next[x] = h.next[x] /\ h.next[x] \in Node \ R
        BY <1>1, <1>5, <1>7, <2>6, <3>2 DEF Fields, Pointer
      <4> QED
        BY <2>1, <2>4, <2>6, <3>2, <4>1
    <3> QED
      BY <3>1, <3>2
  <2> QED
    BY <2>5, <2>6 DEF Placed
<1>18. Settled(h) => Settled(k)
  <2> SUFFICES ASSUME Settled(h), NEW x \in Node, k.parent[x] # Null PROVE Linked(k, x)
    BY DEF Settled
  <2>1. CASE x \in R
    BY <1>1, <1>9, <2>1
  <2>2. CASE x \notin R
    BY <1>5, <1>10, <2>2 DEF Settled
  <2> QED
    BY <2>1, <2>2
<1>19. ASSUME \A x \in Node : h.parent[x] # n, NEW x \in Node, k.parent[x] \in R \cup {n}
       PROVE  x \in R
  BY <1>5, <1>7, <1>19
<1> QED
  BY <1>1, <1>5, <1>6, <1>10, <1>11, <1>12, <1>13, <1>14, <1>15, <1>16, <1>17, <1>18, <1>19
     DEF Formed, CopyKeeps

-----------------------------------------------------------------------------
(* The operations of a caller, between two of which every node with a       *)
(* parent is among its children.                                           *)
Sound(h) == /\ \E rank, pos : Formed(h, rank, pos)
            /\ Settled(h)

LEMMA SoundNew ==
  ASSUME NEW h, Sound(h), NEW n \in Unused(h), NEW t \in Types
  PROVE  Sound(New(h, n, t, Null))
<1> DEFINE k == New(h, n, t, Null)
<1>1. PICK rank, pos : Formed(h, rank, pos)
  BY DEF Sound
<1>2. /\ \E r : Formed(k, r, pos)
      /\ \A x \in Node \ {n} : Linked(k, x) <=> Linked(h, x)
  BY <1>1, NewFormed
<1>3. k.parent[n] = Null /\ \A x \in Node \ {n} : k.parent[x] = h.parent[x]
  BY <1>1 DEF New, Formed, Fields, Unused
<1> QED
  BY <1>2, <1>3 DEF Sound, Settled

LEMMA SoundDeleted ==
  ASSUME NEW h, Sound(h), NEW n \in Node, h.parent[n] = Null
  PROVE  Sound(Delete(h, Subtree(h, n)))
  BY RootDeleted DEF Sound

LEMMA SoundRemoved ==
  ASSUME NEW h, Sound(h), NEW p \in Node, NEW r \in Node, Linked(h, r), h.parent[r] = p
  PROVE  Sound(Removed(h, p, r))
  BY RemovedFormed DEF Sound

LEMMA SoundCleared ==
  ASSUME NEW h, Sound(h), NEW p \in Node
  PROVE  /\ Sound(Cleared(h, p))
         /\ Cleared(h, p).firstChild[p] = Null /\ Cleared(h, p).lastChild[p] = Null
         /\ Cleared(h, p).type[p] = h.type[p]
<1>1. PICK rank, pos : Formed(h, rank, pos)
  BY DEF Sound
<1>2. /\ Formed(Cleared(h, p), rank, pos) /\ Settled(Cleared(h, p))
      /\ Cleared(h, p) = Pruned(h, Subtree(h, p) \ {p})
      /\ Cleared(h, p).firstChild[p] = Null /\ Cleared(h, p).lastChild[p] = Null
  BY <1>1, ClearedFormed DEF Sound
<1>3. Pruned(h, Subtree(h, p) \ {p}).type[p] = h.type[p]
  BY DEF Pruned
<1> QED
  BY <1>2, <1>3 DEF Sound

(* A root fits under any node that is not below it. *)
LEMMA RootFits ==
  ASSUME NEW h, Sound(h), NEW p \in Live(h), NEW n \in Live(h), h.parent[n] = Null,
         h.type[n] # "document", p \notin Subtree(h, n)
  PROVE  Fits(h, p, n)
<1>1. PICK rank, pos : Formed(h, rank, pos)
  BY DEF Sound
<1>2. n \in Node
  BY DEF Live
<1>3. n \in Subtree(h, n) /\ Subtree(h, n) \in SUBSET Node
  BY <1>1, <1>2, SubtreeClosed DEF Formed
<1>4. ASSUME NEW x \in Node, h.parent[x] \in Subtree(h, n) PROVE x \in Subtree(h, n)
  <2>1. h.parent[x] # Null
    BY <1>3, <1>4, NullAssumption
  <2>2. Linked(h, x)
    BY <2>1 DEF Sound, Settled
  <2> QED
    BY <1>1, <1>2, <1>4, <2>2, SubtreeDown
<1>5. ~Linked(h, n)
  BY DEF Linked
<1> QED
  BY <1>3, <1>4, <1>5 DEF Fits

LEMMA SplicedSettled ==
  ASSUME NEW h, Fields(h), Settled(h), NEW p \in Node, NEW n \in Node, NEW a, NEW b,
         Linked(Spliced(h, p, a, b, n), n),
         \A x \in Node \ {n} : Linked(Spliced(h, p, a, b, n), x) <=> Linked(h, x)
  PROVE  Settled(Spliced(h, p, a, b, n))
<1>1. \A x \in Node \ {n} : Spliced(h, p, a, b, n).parent[x] = h.parent[x]
  BY DEF Spliced, Fields
<1> QED
  BY <1>1 DEF Settled

LEMMA SoundLinked ==
  ASSUME NEW h, Sound(h), NEW p \in Node, NEW n \in Node, Fits(h, p, n)
  PROVE  /\ Sound(LinkEnd(h, p, n))
         /\ \A c \in Node : Linked(h, c) /\ h.parent[c] = p
              => /\ Sound(LinkBefore(h, p, c, n)) /\ Sound(LinkAfter(h, p, c, n))
                 /\ Sound(LinkInstead(h, p, c, n))
<1>1. PICK rank, pos : Formed(h, rank, pos)
  BY DEF Sound
<1>2. Fields(h) /\ Settled(h) /\ ~Linked(h, n)
  BY <1>1 DEF Formed, Sound, Fits
<1>3. \A a, b : Between(h, p, a, b) => Sound(Spliced(h, p, a, b, n))
  <2> SUFFICES ASSUME NEW a, NEW b, Between(h, p, a, b) PROVE Sound(Spliced(h, p, a, b, n))
    OBVIOUS
  <2>1. /\ \E r, s : Formed(Spliced(h, p, a, b, n), r, s)
        /\ Linked(Spliced(h, p, a, b, n), n)
        /\ \A x \in Node \ {n} : Linked(Spliced(h, p, a, b, n), x) <=> Linked(h, x)
    BY <1>1, SplicedFormed
  <2>2. Settled(Spliced(h, p, a, b, n))
    BY <1>2, <2>1, SplicedSettled
  <2> QED
    BY <2>1, <2>2 DEF Sound
<1>4. Sound(LinkEnd(h, p, n))
  BY <1>1, <1>2, <1>3, LinkEndSplices
<1>5. ASSUME NEW c \in Node, Linked(h, c), h.parent[c] = p
      PROVE  /\ Sound(LinkBefore(h, p, c, n)) /\ Sound(LinkAfter(h, p, c, n))
             /\ Sound(LinkInstead(h, p, c, n))
  <2>1. Sound(LinkBefore(h, p, c, n))
    BY <1>1, <1>2, <1>3, <1>5, LinkBeforeSplices
  <2>2. Sound(LinkAfter(h, p, c, n))
    BY <1>1, <1>2, <1>3, <1>5, LinkAfterSplices
  <2>3. Sound(LinkInstead(h, p, c, n))
    BY <1>1, <1>2, <1>5, LinkInsteadFormed DEF Sound
  <2> QED
    BY <2>1, <2>2, <2>3
<1> QED
  BY <1>4, <1>5

(* A clone fits under any node, and leaves the other nodes as they are.     *)
LEMMA SoundCloned ==
  ASSUME NEW h, Sound(h), NEW s \in Live(h), NEW n \in Unused(h), NEW f \in ClonePlaces(h, s, n),
         NEW k, k = Cloned(h, s, n, f)
  PROVE  /\ Sound(k)
         /\ h.type[s] # "document" => \A p \in Live(h) : Fits(k, p, n)
         /\ \A c \in Node : Linked(h, c) => Linked(k, c) /\ k.parent[c] = h.parent[c]
<1> DEFINE h1 == New(h, n, h.type[s], Null)
           D == Subtree(h1, s) \ {s}
           R == {f[y] : y \in D}
<1>1. PICK rank, pos : Formed(h, rank, pos)
  BY DEF Sound
<1>2. Fields(h) /\ Null \notin Node /\ s \in Node /\ n \in Node /\ s # n
  BY <1>1, NullAssumption DEF Formed, Live, Unused
<1>3. h.type[s] \in Types
  BY <1>2 DEF Fields, Live
<1>4. /\ h.parent[n] = Null /\ h.next[n] = Null /\ h.firstChild[n] = Null /\ h.lastChild[n] = Null
      /\ ~Linked(h, n) /\ \A x \in Node : h.parent[x] # n
  BY <1>1, UnusedUnknown
<1>5. /\ \E r : Formed(h1, r, pos)
      /\ \A x \in Node \ {n} : Linked(h1, x) <=> Linked(h, x)
      /\ \A x \in Node : h1.parent[x] # n
      /\ ~Linked(h1, n)
  BY <1>1, <1>3, NewFormed
<1>6. Sound(h1)
  BY <1>3, SoundNew
<1>7. /\ h1.firstChild = h.firstChild /\ h1.next = h.next
      /\ h1.type[n] = h.type[s] /\ h1.parent[n] = Null
      /\ h1.firstChild[n] = Null /\ h1.lastChild[n] = Null
      /\ \A x \in Node \ {n} : h1.type[x] = h.type[x] /\ h1.parent[x] = h.parent[x]
  BY <1>2, <1>4 DEF New, Fields
<1>8. Live(h1) = Live(h) \cup {n} /\ Unused(h1) = Unused(h) \ {n}
  BY <1>2, <1>3, <1>7 DEF Live, Unused, Types
<1> HIDE DEF h1
<1>9. Subtree(h1, s) = Subtree(h, s)
  BY <1>2, <1>7, SubtreeSame
<1>10. f \in [D -> Unused(h1)] /\ IsInjective(f)
  BY <1>8, <1>9 DEF ClonePlaces
<1>11. k = CopyTo(h1, s, n, f) /\ n \in Live(h1)
  BY <1>8 DEF Cloned, h1
<1> HIDE DEF D
<1>12. /\ \E r, t : Formed(k, r, t)
       /\ Settled(h1) => Settled(k)
       /\ R \subseteq Unused(h1) /\ n \notin R
       /\ \A x \in Node \ R : /\ Linked(k, x) <=> Linked(h1, x)
                              /\ k.parent[x] = h1.parent[x] /\ k.type[x] = h1.type[x]
       /\ (\A x \in Node : h1.parent[x] # n)
            => \A x \in Node : k.parent[x] \in R \cup {n} => x \in R
  <2>1. PICK r : Formed(h1, r, pos)
    BY <1>5
  <2>2. D = Subtree(h1, s) \ {s} /\ R = {f[y] : y \in D}
    BY DEF D
  <2>3. CopyKeeps(h1, k, n, R)
    <3> HIDE DEF R
    <3> QED
      BY <1>2, <1>7, <1>10, <1>11, <2>1, <2>2, CopyFormed, Zenon
  <2> QED
    BY <2>3 DEF CopyKeeps
<1> HIDE DEF R
<1>13. Sound(k)
  BY <1>6, <1>12 DEF Sound
<1>14. \A c \in Node : Linked(h, c) => Linked(k, c) /\ k.parent[c] = h.parent[c]
  <2> SUFFICES ASSUME NEW c \in Node, Linked(h, c) PROVE Linked(k, c) /\ k.parent[c] = h.parent[c]
    OBVIOUS
  <2>1. c # n
    BY <1>4
  <2>2. c \in Live(h)
    BY <1>1 DEF Linked, Formed, NothingDangles, Unused
  <2>3. c \notin R
    BY <1>8, <1>12, <2>2 DEF Unused
  <2> QED
    BY <1>5, <1>7, <1>12, <2>1, <2>3
<1>15. ASSUME h.type[s] # "document", NEW p \in Live(h) PROVE Fits(k, p, n)
  <2>1. p \in Node /\ p # n /\ p \notin R
    BY <1>8, <1>12 DEF Live, Unused
  <2>2. k.type[n] = h.type[s] /\ k.parent[n] = Null /\ ~Linked(k, n)
    BY <1>2, <1>5, <1>7, <1>12
  <2>3. k.type[p] = h.type[p]
    BY <1>7, <1>12, <2>1
  <2>4. n \in Live(k) /\ p \in Live(k)
    BY <1>2, <1>3, <2>1, <2>2, <2>3 DEF Live, Types
  <2>5. R \cup {n} \in SUBSET Node /\ p \notin R \cup {n} /\ n \in R \cup {n}
        /\ \A x \in Node : k.parent[x] \in R \cup {n} => x \in R \cup {n}
    BY <1>2, <1>5, <1>12, <2>1 DEF Unused
  <2> QED
    BY <1>15, <2>2, <2>4, <2>5 DEF Fits
<1> QED
  BY <1>13, <1>14, <1>15

LEMMA SoundAssigned ==
  ASSUME NEW h, Sound(h), NEW n \in Live(h), NEW s \in Node,
         NEW f \in ClonePlaces(Cleared(h, n), s, n)
  PROVE  Sound(CopyTo(Cleared(h, n), s, n, f))
<1> DEFINE c == Cleared(h, n)
           D == Subtree(c, s) \ {s}
<1>1. n \in Node /\ h.type[n] # "free"
  BY DEF Live
<1>2. Sound(c) /\ c.firstChild[n] = Null /\ c.lastChild[n] = Null /\ c.type[n] = h.type[n]
  BY <1>1, SoundCleared
<1> HIDE DEF c
<1>3. n \in Live(c)
  BY <1>1, <1>2 DEF Live
<1>4. f \in [D -> Unused(c)] /\ IsInjective(f)
  BY DEF ClonePlaces, c
<1>5. PICK rank, pos : Formed(c, rank, pos)
  BY <1>2 DEF Sound
<1> HIDE DEF D
<1>6. (\E r, t : Formed(CopyTo(c, s, n, f), r, t)) /\ (Settled(c) => Settled(CopyTo(c, s, n, f)))
  <2> DEFINE R == {f[y] : y \in D}
             k == CopyTo(c, s, n, f)
  <2>1. D = Subtree(c, s) \ {s} /\ R = {f[y] : y \in D} /\ k = CopyTo(c, s, n, f)
    BY DEF D
  <2>2. CopyKeeps(c, k, n, R)
    <3> HIDE DEF R, k
    <3> QED
      BY <1>2, <1>3, <1>4, <1>5, <2>1, CopyFormed, Zenon
  <2> QED
    BY <2>2 DEF CopyKeeps
<1> QED
  BY <1>2, <1>6 DEF Sound, c

-----------------------------------------------------------------------------
(* The invariant.                                                          *)

(* The nodes being parsed, each of which knows the one around it but is not *)
(* yet among its children.                                                 *)
StackAgrees ==
  /\ parsing \in Seq(Node)
  /\ \A i \in 1..Len(parsing) : parsing[i] \in Live(dom)
  /\ \A i, j \in 1..Len(parsing) : parsing[i] = parsing[j] => i = j
  /\ parsing # <<>> => dom.type[parsing[1]] = "document"
  /\ \A i \in 2..Len(parsing) : /\ dom.parent[parsing[i]] = parsing[i - 1]
                                /\ ~Linked(dom, parsing[i])

TreeInv ==
  /\ \E rank, pos : Formed(dom, rank, pos)
  /\ StackAgrees /\ ParserAgrees(dom)

LEMMA Unlisted ==
  ASSUME TreeInv, NEW n \in Node, dom.parent[n] # Null, ~Linked(dom, n)
  PROVE  \E i \in 2..Len(parsing) : parsing[i] = n /\ parsing[i - 1] = dom.parent[n]
  BY DEF TreeInv, ParserAgrees

LEMMA Idle ==
  ASSUME TreeInv, Len(parsing) < 2
  PROVE  Sound(dom)
<1>1. parsing \in Seq(Node)
  BY DEF TreeInv, StackAgrees
<1>2. \A i \in 2..Len(parsing) : FALSE
  BY <1>1
<1>3. Settled(dom)
  BY <1>2, Unlisted DEF Settled
<1> QED
  BY <1>3 DEF TreeInv, Sound

LEMMA IdleAgain ==
  ASSUME Sound(dom'), parsing' \in Seq(Node), Len(parsing') < 2,
         parsing' # <<>> => dom'.type[parsing'[1]] = "document"
  PROVE  TreeInv'
<1>1. \A i \in 2..Len(parsing') : FALSE
  OBVIOUS
<1>2. ParserAgrees(dom)'
  BY DEF ParserAgrees, Sound, Settled
<1>3. \A i \in 1..Len(parsing') : parsing'[i] \in Live(dom')
  <2> SUFFICES ASSUME NEW i \in 1..Len(parsing') PROVE parsing'[i] \in Live(dom')
    OBVIOUS
  <2>1. i = 1 /\ parsing' # <<>> /\ parsing'[i] \in Node
    OBVIOUS
  <2> QED
    BY <2>1 DEF Live
<1>4. StackAgrees'
  BY <1>1, <1>3 DEF StackAgrees
<1> QED
  BY <1>2, <1>4 DEF TreeInv, Sound

LEMMA TreeInit ==
  Init => TreeInv
<1> SUFFICES ASSUME Init PROVE TreeInv
  OBVIOUS
<1> DEFINE z == [n \in Node |-> 0]
<1>1. /\ dom.type = [n \in Node |-> "free"]
      /\ dom.parent = Clean /\ dom.prev = Clean /\ dom.next = Clean
      /\ dom.firstChild = Clean /\ dom.lastChild = Clean /\ parsing = <<>>
  BY DEF Init
<1>2. Fields(dom)
  BY DEF Init, Fields, Clean, Pointer
<1>3. \A n \in Node : /\ dom.type[n] = "free" /\ dom.parent[n] = Null /\ dom.prev[n] = Null
                      /\ dom.next[n] = Null /\ dom.firstChild[n] = Null /\ dom.lastChild[n] = Null
                      /\ n # Null
  BY <1>1, NullAssumption DEF Clean
<1>4. Formed(dom, z, z)
  BY <1>2, <1>3 DEF Formed, SiblingsAgree, EndsAgree, ParentsAgree, NothingDangles, Loose, Ranked,
     Placed, Live, Unused
<1>5. StackAgrees /\ ParserAgrees(dom)
  BY <1>1, <1>3 DEF StackAgrees, ParserAgrees
<1> QED
  BY <1>4, <1>5 DEF TreeInv

LEMMA InsertKeeps ==
  ASSUME TreeInv, NEW p \in Node, NEW s \in Live(dom), dom.type[s] # "document",
         NEW n \in Unused(dom), NEW f \in ClonePlaces(dom, s, n), p \in Live(dom), parsing = <<>>
  PROVE  LET k == Cloned(dom, s, n, f) IN
           /\ Sound(LinkEnd(k, p, n))
           /\ \A c \in Children(p) : /\ Sound(LinkBefore(k, p, c, n))
                                     /\ Sound(LinkAfter(k, p, c, n))
                                     /\ Sound(LinkInstead(k, p, c, n))
<1> DEFINE k == Cloned(dom, s, n, f)
<1>1. Sound(dom)
  BY Idle
<1>2. k = Cloned(dom, s, n, f)
  OBVIOUS
<1> HIDE DEF k
<1>3. /\ Sound(k)
      /\ \A q \in Live(dom) : Fits(k, q, n)
      /\ \A c \in Node : Linked(dom, c) => Linked(k, c) /\ k.parent[c] = dom.parent[c]
  BY <1>1, <1>2, SoundCloned
<1>4. Fits(k, p, n) /\ n \in Node
  BY <1>3 DEF Unused
<1>5. Sound(LinkEnd(k, p, n))
  BY <1>3, <1>4, SoundLinked
<1>6. ASSUME NEW c \in Children(p)
      PROVE  /\ Sound(LinkBefore(k, p, c, n)) /\ Sound(LinkAfter(k, p, c, n))
             /\ Sound(LinkInstead(k, p, c, n))
  <2>1. c \in Node /\ Linked(k, c) /\ k.parent[c] = p
    BY <1>3 DEF Children
  <2> QED
    BY <1>3, <1>4, <2>1, SoundLinked
<1> QED
  BY <1>5, <1>6 DEF k

(* A call that changes the tree leaves it sound. *)
LEMMA CallsKeep ==
  ASSUME TreeInv,
         \/ \E n \in Node, t \in Types : Create(n, t)
         \/ \E n \in Node : Destroy(n) \/ Clear(n)
         \/ \E p, n \in Node : \/ LinkEndChild(p, n) \/ InsertEndChild(p, n) \/ RemoveChild(p, n)
                               \/ Clone(p, n) \/ Assign(p, n)
         \/ \E p, c, s \in Node : \/ InsertBeforeChild(p, c, s) \/ InsertAfterChild(p, c, s)
                                  \/ ReplaceChild(p, c, s)
  PROVE  TreeInv'
<1>1. parsing = <<>> /\ parsing' = <<>>
  BY DEF Create, Destroy, Clear, LinkEndChild, InsertEndChild, Insert, RemoveChild, Clone, Assign,
     InsertBeforeChild, InsertAfterChild, ReplaceChild, Calls
<1>2. Sound(dom)
  BY <1>1, Idle
<1>3. Sound(dom') => TreeInv'
  BY <1>1, IdleAgain
<1>4. \A q \in Node : Container(q) => q \in Live(dom)
  BY DEF Container, Containers, Live
<1>5. ASSUME NEW n \in Node, NEW t \in Types, Create(n, t) PROVE Sound(dom')
  BY <1>2, <1>5, SoundNew DEF Create, Calls
<1>6. ASSUME NEW n \in Node, Destroy(n) PROVE Sound(dom')
  BY <1>2, <1>6, SoundDeleted DEF Destroy, Calls, Root
<1>7. ASSUME NEW n \in Node, Clear(n) PROVE Sound(dom')
  BY <1>2, <1>7, SoundCleared DEF Clear, Calls
<1>8. ASSUME NEW p \in Node, NEW n \in Node, LinkEndChild(p, n) PROVE Sound(dom')
  <2>1. /\ Container(p) /\ Root(n) /\ p \notin Subtree(dom, n)
        /\ \/ dom.type[n] # "document" /\ dom' = LinkEnd(dom, p, n)
           \/ dom.type[n] = "document" /\ dom' = Delete(dom, Subtree(dom, n))
    BY <1>8 DEF LinkEndChild, Calls
  <2>2. p \in Live(dom) /\ n \in Live(dom) /\ dom.parent[n] = Null
    BY <1>4, <2>1 DEF Root
  <2>3. CASE dom.type[n] # "document" /\ dom' = LinkEnd(dom, p, n)
    <3>1. Fits(dom, p, n)
      BY <1>2, <2>1, <2>2, <2>3, RootFits
    <3> QED
      BY <1>2, <2>3, <3>1, SoundLinked
  <2>4. CASE dom.type[n] = "document" /\ dom' = Delete(dom, Subtree(dom, n))
    BY <1>2, <2>2, <2>4, SoundDeleted
  <2> QED
    BY <2>1, <2>3, <2>4
<1>9. ASSUME NEW p \in Node, NEW r \in Node, RemoveChild(p, r) PROVE Sound(dom')
  BY <1>2, <1>9, SoundRemoved DEF RemoveChild, Calls, Children
<1>10. ASSUME NEW s \in Node, NEW n \in Node, Clone(s, n) PROVE Sound(dom')
  <2>1. PICK f \in ClonePlaces(dom, s, n) : s \in Live(dom) /\ n \in Unused(dom) /\ dom' = Cloned(dom, s, n, f)
    BY <1>10 DEF Clone, Calls
  <2> QED
    BY <1>2, <2>1, SoundCloned
<1>11. ASSUME NEW n \in Node, NEW s \in Node, Assign(n, s) PROVE Sound(dom')
  <2>1. PICK f \in ClonePlaces(Cleared(dom, n), s, n) :
          Container(n) /\ dom' = CopyTo(Cleared(dom, n), s, n, f)
    BY <1>11 DEF Assign, Calls
  <2> QED
    BY <1>2, <1>4, <2>1, SoundAssigned
<1>12. ASSUME NEW p \in Node, NEW s \in Node, InsertEndChild(p, s) PROVE Sound(dom')
  <2>1. /\ Container(p) /\ s \in Live(dom)
        /\ \/ dom' = dom
           \/ /\ dom.type[s] # "document"
              /\ \E n \in Unused(dom) : \E f \in ClonePlaces(dom, s, n) :
                   dom' = LinkEnd(Cloned(dom, s, n, f), p, n)
    BY <1>12 DEF InsertEndChild, Insert, Calls
  <2> QED
    BY <1>1, <1>2, <1>4, <2>1, InsertKeeps
<1>13. ASSUME NEW p \in Node, NEW b \in Node, NEW s \in Node, InsertBeforeChild(p, b, s) PROVE Sound(dom')
  <2>1. /\ b \in Children(p) /\ Container(p) /\ s \in Live(dom)
        /\ \/ dom' = dom
           \/ /\ dom.type[s] # "document"
              /\ \E n \in Unused(dom) : \E f \in ClonePlaces(dom, s, n) :
                   dom' = LinkBefore(Cloned(dom, s, n, f), p, b, n)
    BY <1>13 DEF InsertBeforeChild, Insert, Calls
  <2> QED
    BY <1>1, <1>2, <1>4, <2>1, InsertKeeps
<1>14. ASSUME NEW p \in Node, NEW a \in Node, NEW s \in Node, InsertAfterChild(p, a, s) PROVE Sound(dom')
  <2>1. /\ a \in Children(p) /\ Container(p) /\ s \in Live(dom)
        /\ \/ dom' = dom
           \/ /\ dom.type[s] # "document"
              /\ \E n \in Unused(dom) : \E f \in ClonePlaces(dom, s, n) :
                   dom' = LinkAfter(Cloned(dom, s, n, f), p, a, n)
    BY <1>14 DEF InsertAfterChild, Insert, Calls
  <2> QED
    BY <1>1, <1>2, <1>4, <2>1, InsertKeeps
<1>15. ASSUME NEW p \in Node, NEW r \in Node, NEW s \in Node, ReplaceChild(p, r, s) PROVE Sound(dom')
  <2>1. /\ r \in Children(p) /\ Container(p) /\ s \in Live(dom)
        /\ \/ dom' = dom
           \/ /\ dom.type[s] # "document"
              /\ \E n \in Unused(dom) : \E f \in ClonePlaces(dom, s, n) :
                   dom' = LinkInstead(Cloned(dom, s, n, f), p, r, n)
    BY <1>15 DEF ReplaceChild, Insert, Calls
  <2> QED
    BY <1>1, <1>2, <1>4, <2>1, InsertKeeps
<1> QED
  BY <1>3, <1>5, <1>6, <1>7, <1>8, <1>9, <1>10, <1>11, <1>12, <1>13, <1>14, <1>15

(* The parser begins, reads a document's text and ends. *)
LEMMA ParseKeeps ==
  ASSUME TreeInv, NEW d \in Node, Parse(d) \/ LoadFile(d)
  PROVE  TreeInv'
<1>1. /\ parsing = <<>> /\ dom.type[d] = "document" /\ parsing' \in {<<>>, <<d>>}
      /\ dom' = dom \/ dom' = Cleared(dom, d)
  BY DEF Parse, LoadFile
<1>2. Sound(dom)
  BY <1>1, Idle
<1>3. Sound(dom') /\ dom'.type[d] = "document"
  BY <1>1, <1>2, SoundCleared
<1>4. /\ parsing' \in Seq(Node) /\ Len(parsing') < 2
      /\ parsing' # <<>> => dom'.type[parsing'[1]] = "document"
  <2>1. CASE parsing' = <<>>
    BY <2>1
  <2>2. CASE parsing' = <<d>>
    BY <1>3, <2>2
  <2> QED
    BY <1>1, <2>1, <2>2
<1> QED
  BY <1>3, <1>4, IdleAgain

LEMMA ParseReturnsKeeps ==
  ASSUME TreeInv, ParseReturns
  PROVE  TreeInv'
<1>1. Len(parsing) = 1 /\ parsing' = <<>> /\ dom' = dom
  BY DEF ParseReturns
<1>2. Sound(dom)
  BY <1>1, Idle
<1> QED
  BY <1>1, <1>2, IdleAgain

LEMMA IdentifyKeeps ==
  ASSUME TreeInv, NEW n \in Node, NEW t \in Types, Identify(n, t)
  PROVE  TreeInv'
<1> DEFINE p == Last(parsing)
           m == Len(parsing)
<1>1. /\ parsing # <<>> /\ n \in Unused(dom) /\ t # "document"
      /\ dom' = New(dom, n, t, p) /\ parsing' = Append(parsing, n)
  BY DEF Identify, Parses, Parser
<1>2. /\ parsing \in Seq(Node) /\ m \in Nat /\ m > 0 /\ p = parsing[m] /\ p \in Live(dom)
  BY <1>1 DEF TreeInv, StackAgrees, Last
<1>3. PICK rank, pos : Formed(dom, rank, pos)
  BY DEF TreeInv
<1>4. /\ \E r : Formed(dom', r, pos)
      /\ ~Linked(dom', n)
      /\ \A x \in Node \ {n} : Linked(dom', x) <=> Linked(dom, x)
  BY <1>1, <1>2, <1>3, NewFormed
<1>5. /\ dom'.type[n] = t /\ dom'.parent[n] = p
      /\ \A x \in Node \ {n} : dom'.type[x] = dom.type[x] /\ dom'.parent[x] = dom.parent[x]
  BY <1>1, <1>3 DEF New, Formed, Fields
<1>6. /\ parsing' \in Seq(Node) /\ Len(parsing') = m + 1 /\ parsing'[m + 1] = n
      /\ \A i \in 1..m : parsing'[i] = parsing[i]
  BY <1>1, <1>2
<1>7. \A i \in 1..m : parsing[i] \in Node /\ parsing[i] # n
  BY <1>1 DEF TreeInv, StackAgrees, Live, Unused
<1> HIDE DEF m, p
<1>8. StackAgrees'
  <2>1. ASSUME NEW i \in 1..(m + 1) PROVE parsing'[i] \in Live(dom')
    <3>1. CASE i = m + 1
      BY <1>5, <1>6, <3>1 DEF Live, Types
    <3>2. CASE i # m + 1
      <4>1. i \in 1..m
        BY <1>2, <3>2
      <4> QED
        BY <1>5, <1>6, <1>7, <4>1 DEF TreeInv, StackAgrees, Live, m
    <3> QED
      BY <3>1, <3>2
  <2>2. ASSUME NEW i \in 1..(m + 1), NEW j \in 1..(m + 1), parsing'[i] = parsing'[j] PROVE i = j
    <3>1. CASE i \in 1..m /\ j \in 1..m
      BY <1>6, <2>2, <3>1 DEF TreeInv, StackAgrees, m
    <3>2. CASE i = m + 1 \/ j = m + 1
      BY <1>2, <1>6, <1>7, <2>2, <3>2
    <3> QED
      BY <1>2, <3>1, <3>2
  <2>3. dom'.type[parsing'[1]] = "document"
    <3>1. 1 \in 1..m
      BY <1>2
    <3> QED
      BY <1>1, <1>5, <1>6, <1>7, <3>1 DEF TreeInv, StackAgrees
  <2>4. ASSUME NEW i \in 2..(m + 1)
        PROVE  dom'.parent[parsing'[i]] = parsing'[i - 1] /\ ~Linked(dom', parsing'[i])
    <3>1. CASE i = m + 1
      <4>1. i - 1 = m /\ m \in 1..m
        BY <1>2, <3>1
      <4> QED
        BY <1>2, <1>4, <1>5, <1>6, <3>1, <4>1
    <3>2. CASE i # m + 1
      <4>1. i \in 2..m /\ i \in 1..m /\ i - 1 \in 1..m
        BY <1>2, <3>2
      <4>2. dom.parent[parsing[i]] = parsing[i - 1] /\ ~Linked(dom, parsing[i])
        BY <4>1 DEF TreeInv, StackAgrees, m
      <4> QED
        BY <1>4, <1>5, <1>6, <1>7, <4>1, <4>2
    <3> QED
      BY <3>1, <3>2
  <2> QED
    BY <1>6, <2>1, <2>2, <2>3, <2>4 DEF StackAgrees
<1>9. ParserAgrees(dom)'
  <2> SUFFICES ASSUME NEW x \in Node, dom'.parent[x] # Null, ~Linked(dom', x)
               PROVE  \E i \in 2..(m + 1) : parsing'[i] = x /\ parsing'[i - 1] = dom'.parent[x]
    BY <1>6 DEF ParserAgrees
  <2>1. CASE x = n
    <3>1. m + 1 \in 2..(m + 1) /\ (m + 1) - 1 = m /\ m \in 1..m
      BY <1>2
    <3> QED
      BY <1>2, <1>5, <1>6, <2>1, <3>1
  <2>2. CASE x # n
    <3>1. dom.parent[x] # Null /\ ~Linked(dom, x) /\ dom'.parent[x] = dom.parent[x]
      BY <1>4, <1>5, <2>2
    <3>2. PICK i \in 2..m : parsing[i] = x /\ parsing[i - 1] = dom.parent[x]
      BY <3>1, Unlisted DEF m
    <3>3. i \in 2..(m + 1) /\ i \in 1..m /\ i - 1 \in 1..m
      BY <1>2
    <3> QED
      BY <1>6, <3>1, <3>2, <3>3
  <2> QED
    BY <2>1, <2>2
<1> QED
  BY <1>4, <1>8, <1>9 DEF TreeInv

(* Linking a node that is not, or no longer, being parsed. *)
LEMMA ReadTextKeeps ==
  ASSUME TreeInv, NEW n \in Node, ReadText(n)
  PROVE  TreeInv'
<1> DEFINE p == Last(parsing)
           k == New(dom, n, "text", Null)
           m == Len(parsing)
<1>1. /\ parsing # <<>> /\ n \in Unused(dom)
      /\ dom' = LinkEnd(k, p, n) /\ parsing' = parsing
  BY DEF ReadText, Parses, Parser
<1>2. /\ parsing \in Seq(Node) /\ m \in Nat /\ p \in Live(dom) /\ p \in Node
  BY <1>1 DEF TreeInv, StackAgrees, Last, Live
<1>3. PICK rank, pos : Formed(dom, rank, pos)
  BY DEF TreeInv
<1>4. /\ \E r : Formed(k, r, pos)
      /\ ~Linked(k, n)
      /\ \A x \in Node \ {n} : Linked(k, x) <=> Linked(dom, x)
      /\ \A x \in Node : k.parent[x] # n
  BY <1>1, <1>3, NewFormed DEF Types
<1>5. /\ k.type[n] = "text" /\ k.parent[n] = Null
      /\ \A x \in Node \ {n} : k.type[x] = dom.type[x] /\ k.parent[x] = dom.parent[x]
  BY <1>3 DEF New, Formed, Fields
<1> HIDE DEF k, p
<1>6. p # n /\ p \in Live(k) /\ n \in Live(k)
  BY <1>1, <1>2, <1>5 DEF Live, Unused
<1>7. Fits(k, p, n)
  <2>1. {n} \in SUBSET Node /\ n \in {n} /\ p \notin {n} /\ \A x \in Node : k.parent[x] \in {n} => x \in {n}
    BY <1>4, <1>6
  <2> QED
    BY <1>4, <1>5, <1>6, <2>1 DEF Fits
<1>8. PICK r : Formed(k, r, pos)
  BY <1>4
<1> DEFINE a == k.lastChild[p]
<1>9. Between(k, p, a, Null) /\ dom' = Spliced(k, p, a, Null, n)
  BY <1>1, <1>2, <1>4, <1>8, LinkEndSplices
<1> HIDE DEF a
<1>10. /\ \E r1, s : Formed(dom', r1, s)
       /\ Linked(dom', n)
       /\ \A x \in Node \ {n} : Linked(dom', x) <=> Linked(k, x)
  BY <1>2, <1>7, <1>8, <1>9, SplicedFormed
<1>11. \A x \in Node \ {n} : dom'.type[x] = k.type[x] /\ dom'.parent[x] = k.parent[x]
  BY <1>8, <1>9 DEF Spliced, Formed, Fields
<1>12. \A i \in 1..m : parsing[i] \in Node \ {n}
  BY <1>1 DEF TreeInv, StackAgrees, Live, Unused
<1>13. StackAgrees'
  <2>1. \A i \in 1..m : parsing[i] \in Live(dom')
    BY <1>5, <1>11, <1>12 DEF TreeInv, StackAgrees, Live
  <2>2. dom'.type[parsing[1]] = "document"
    <3>1. 1 \in 1..m
      BY <1>1, <1>2
    <3> QED
      BY <1>1, <1>5, <1>11, <1>12, <3>1 DEF TreeInv, StackAgrees
  <2>3. ASSUME NEW i \in 2..m
        PROVE  dom'.parent[parsing[i]] = parsing[i - 1] /\ ~Linked(dom', parsing[i])
    <3>1. i \in 1..m
      BY <1>2
    <3>2. dom.parent[parsing[i]] = parsing[i - 1] /\ ~Linked(dom, parsing[i])
      BY DEF TreeInv, StackAgrees
    <3> QED
      BY <1>4, <1>5, <1>10, <1>11, <1>12, <3>1, <3>2
  <2> QED
    BY <1>1, <2>1, <2>2, <2>3 DEF TreeInv, StackAgrees
<1>14. ParserAgrees(dom)'
  <2> SUFFICES ASSUME NEW x \in Node, dom'.parent[x] # Null, ~Linked(dom', x)
               PROVE  \E i \in 2..m : parsing[i] = x /\ parsing[i - 1] = dom'.parent[x]
    BY <1>1 DEF ParserAgrees
  <2>1. x # n
    BY <1>10
  <2>2. dom.parent[x] # Null /\ ~Linked(dom, x) /\ dom'.parent[x] = dom.parent[x]
    BY <1>4, <1>5, <1>10, <1>11, <2>1
  <2> QED
    BY <2>2, Unlisted
<1> QED
  BY <1>10, <1>13, <1>14 DEF TreeInv

LEMMA ParsedKeeps ==
  ASSUME TreeInv, Parsed
  PROVE  TreeInv'
<1> DEFINE m == Len(parsing)
           n == parsing[m]
           p == parsing[m - 1]
<1>1. m > 1 /\ dom' = LinkEnd(dom, p, n) /\ parsing' = Front(parsing)
  BY DEF Parsed, Parser, Last
<1>2. /\ parsing \in Seq(Node) /\ m \in Nat /\ m \in 2..m /\ m \in 1..m /\ m - 1 \in 1..m
      /\ n \in Live(dom) /\ p \in Live(dom) /\ n \in Node /\ p \in Node
  BY <1>1 DEF TreeInv, StackAgrees, Live
<1>3. dom.parent[n] = p /\ ~Linked(dom, n)
  BY <1>2 DEF TreeInv, StackAgrees
<1>4. PICK rank, pos : Formed(dom, rank, pos)
  BY DEF TreeInv
<1>5. dom.type[n] # "document"
  BY <1>2, <1>3, <1>4, NullAssumption DEF Formed, Ranked
<1> HIDE DEF n, p
<1>6. Fits(dom, p, n)
  BY <1>2, <1>3, <1>5 DEF Fits
<1> DEFINE a == dom.lastChild[p]
<1>7. Between(dom, p, a, Null) /\ dom' = Spliced(dom, p, a, Null, n)
  BY <1>1, <1>2, <1>3, <1>4, LinkEndSplices
<1> HIDE DEF a
<1>8. /\ \E r1, s : Formed(dom', r1, s)
      /\ Linked(dom', n)
      /\ \A x \in Node \ {n} : Linked(dom', x) <=> Linked(dom, x)
  BY <1>2, <1>4, <1>6, <1>7, SplicedFormed
<1>9. \A x \in Node : dom'.type[x] = dom.type[x] /\ dom'.parent[x] = dom.parent[x]
  BY <1>3, <1>4, <1>7 DEF Spliced, Formed, Fields
<1>10. /\ parsing' \in Seq(Node) /\ Len(parsing') = m - 1
       /\ \A i \in 1..(m - 1) : parsing'[i] = parsing[i]
  BY <1>1, <1>2 DEF Front
<1>11. \A i \in 1..(m - 1) : parsing[i] \in Node \ {n} /\ i \in 1..m
  BY <1>2 DEF TreeInv, StackAgrees, n
<1>12. StackAgrees'
  <2>1. \A i \in 1..(m - 1) : parsing[i] \in Live(dom')
    BY <1>9, <1>11 DEF TreeInv, StackAgrees, Live
  <2>2. \A i, j \in 1..(m - 1) : parsing[i] = parsing[j] => i = j
    BY <1>11 DEF TreeInv, StackAgrees
  <2>3. dom'.type[parsing'[1]] = "document"
    <3>1. 1 \in 1..(m - 1) /\ parsing # <<>>
      BY <1>1, <1>2
    <3> QED
      BY <1>9, <1>10, <1>11, <3>1 DEF TreeInv, StackAgrees
  <2>4. ASSUME NEW i \in 2..(m - 1)
        PROVE  dom'.parent[parsing'[i]] = parsing'[i - 1] /\ ~Linked(dom', parsing'[i])
    <3>1. i \in 2..m /\ i \in 1..(m - 1) /\ i - 1 \in 1..(m - 1)
      BY <1>2
    <3>2. dom.parent[parsing[i]] = parsing[i - 1] /\ ~Linked(dom, parsing[i])
      BY <3>1 DEF TreeInv, StackAgrees
    <3> QED
      BY <1>8, <1>9, <1>10, <1>11, <3>1, <3>2
  <2> HIDE DEF m
  <2> QED
    BY <1>10, <2>1, <2>2, <2>3, <2>4 DEF StackAgrees
<1>13. ParserAgrees(dom)'
  <2> SUFFICES ASSUME NEW x \in Node, dom'.parent[x] # Null, ~Linked(dom', x)
               PROVE  \E i \in 2..(m - 1) : parsing'[i] = x /\ parsing'[i - 1] = dom'.parent[x]
    BY <1>10 DEF ParserAgrees
  <2>1. x # n /\ dom.parent[x] # Null /\ ~Linked(dom, x) /\ dom'.parent[x] = dom.parent[x]
    BY <1>8, <1>9
  <2>2. PICK i \in 2..m : parsing[i] = x /\ parsing[i - 1] = dom.parent[x]
    BY <2>1, Unlisted
  <2>3. i # m
    BY <2>1, <2>2 DEF n
  <2>4. i \in 2..(m - 1) /\ i \in 1..(m - 1) /\ i - 1 \in 1..(m - 1)
    BY <1>2, <2>3
  <2> QED
    BY <1>10, <2>1, <2>2, <2>4
<1> QED
  BY <1>8, <1>12, <1>13 DEF TreeInv

LEMMA TreeNext ==
  TreeInv /\ [Next]_vars => TreeInv'
<1> SUFFICES ASSUME TreeInv, [Next]_vars PROVE TreeInv'
  OBVIOUS
<1>1. CASE UNCHANGED vars
  BY <1>1 DEF vars, TreeInv, StackAgrees, ParserAgrees
<1>2. CASE Next
  <2>1. ASSUME NEW n \in Node, Parse(n) \/ LoadFile(n) PROVE TreeInv'
    BY <2>1, ParseKeeps
  <2>2. ASSUME NEW n \in Node, NEW t \in Types, Identify(n, t) PROVE TreeInv'
    BY <2>2, IdentifyKeeps
  <2>3. ASSUME NEW n \in Node, ReadText(n) PROVE TreeInv'
    BY <2>3, ReadTextKeeps
  <2>4. CASE Parsed
    BY <2>4, ParsedKeeps
  <2>5. CASE ParseReturns
    BY <2>5, ParseReturnsKeeps
  <2> QED
    BY <1>2, <2>1, <2>2, <2>3, <2>4, <2>5, CallsKeep DEF Next
<1> QED
  BY <1>1, <1>2

(* After any calls of TiXmlNode, TiXmlElement and TiXmlDocument and any     *)
(* parsing, the nodes form trees: there is a depth that grows from a parent *)
(* to its children, a position that grows from a sibling to the next, and   *)
(* the five pointers of each node agree with those of its neighbours.       *)
THEOREM TreesStaySound ==
  Spec => []TreeInv
  BY TreeInit, TreeNext, PTL DEF Spec

(* The pointers that each operation of tinyxml.cpp sets, four or five of    *)
(* them, agree, and nothing live points at a deleted node.                  *)
THEOREM LinksStayInAgreement ==
  Spec => []LinksAgree
<1>1. TreeInv => LinksAgree
  BY DEF TreeInv, LinksAgree, Formed
<1> QED
  BY <1>1, TreesStaySound, PTL

(* From a node being parsed the parents lead through the nodes around it to *)
(* the document, and to no other document.                                 *)
LEMMA ParentsReachDocument ==
  ASSUME TreeInv, NEW i \in 1..Len(parsing)
  PROVE  GetDocument(dom, parsing[i]) = {parsing[1]}
<1> DEFINE n == parsing[i]
           A == Ancestors(dom, n)
           Around == {parsing[j] : j \in 1..i}
<1>1. /\ parsing \in Seq(Node) /\ Len(parsing) \in Nat /\ i \in Nat /\ 1 \in 1..i /\ i \in 1..i
      /\ \A j \in 1..i : j \in 1..Len(parsing) /\ parsing[j] \in Node
      /\ dom.type[parsing[1]] = "document"
      /\ \A j \in 2..i : j \in 1..i /\ j - 1 \in 1..i /\ dom.parent[parsing[j]] = parsing[j - 1]
  BY DEF TreeInv, StackAgrees
<1>2. PICK rank, pos : Formed(dom, rank, pos)
  BY DEF TreeInv
<1>3. \A j \in 2..i : dom.type[parsing[j]] # "document"
  <2> TAKE j \in 2..i
  <2>1. dom.parent[parsing[j]] # Null /\ parsing[j] \in Node
    BY <1>1, NullAssumption
  <2> QED
    BY <1>2, <2>1 DEF Formed, Ranked
<1>4. dom.parent[parsing[1]] = Null
  BY <1>1, <1>2 DEF Formed, Ranked
<1>5. A \subseteq Around
  <2>1. Around \in SUBSET Node /\ n \in Around
    BY <1>1
  <2>2. ASSUME NEW x \in Around PROVE dom.parent[x] \in Around \cup {Null}
    <3>1. PICK j \in 1..i : x = parsing[j]
      OBVIOUS
    <3>2. CASE j = 1
      BY <1>4, <3>1, <3>2
    <3>3. CASE j # 1
      <4>1. j \in 2..i
        BY <1>1, <3>3
      <4> QED
        BY <1>1, <3>1, <4>1
    <3> QED
      BY <3>2, <3>3
  <2> HIDE DEF Around, n
  <2> QED
    BY <2>1, <2>2 DEF Ancestors
<1>6. parsing[1] \in A
  <2> SUFFICES ASSUME NEW S \in SUBSET Node, n \in S, \A x \in S : dom.parent[x] \in S \cup {Null}
               PROVE  parsing[1] \in S
    BY <1>1 DEF Ancestors
  <2> DEFINE T == {j \in 1..i : parsing[j] \in S}
  <2>1. T \in SUBSET Nat /\ T # {}
    BY <1>1
  <2> HIDE DEF T
  <2>2. PICK j \in T : \A l \in T : j <= l
    BY <2>1, LeastNatural
  <2>3. j \in 1..i /\ parsing[j] \in S
    BY DEF T
  <2>4. CASE j = 1
    BY <2>3, <2>4
  <2>5. CASE j # 1
    <3>1. j \in 2..i
      BY <1>1, <2>3, <2>5
    <3>2. j - 1 \in 1..i /\ dom.parent[parsing[j]] = parsing[j - 1] /\ parsing[j - 1] # Null
      BY <1>1, <3>1, NullAssumption
    <3>3. j - 1 \in T
      BY <2>3, <3>2 DEF T
    <3> QED
      BY <2>2, <2>3, <3>3
  <2> QED
    BY <2>4, <2>5
<1>7. \A x \in Around : dom.type[x] = "document" => x = parsing[1]
  <2> SUFFICES ASSUME NEW j \in 1..i, dom.type[parsing[j]] = "document" PROVE parsing[j] = parsing[1]
    OBVIOUS
  <2>1. j \notin 2..i
    BY <1>3
  <2>2. j = 1
    BY <1>1, <2>1
  <2> QED
    BY <2>2
<1> HIDE DEF A, Around
<1>8. {d \in A : dom.type[d] = "document"} = {parsing[1]}
  BY <1>1, <1>5, <1>6, <1>7
<1> QED
  BY <1>8 DEF GetDocument, A, n

(* A node that is being parsed reports its errors to the document it is a   *)
(* part of: its parent, set when it is identified, leads there.             *)
THEOREM ErrorsAlwaysReachDocument ==
  Spec => []ErrorsReachDocument
<1>1. TreeInv => ErrorsReachDocument
  <2> SUFFICES ASSUME TreeInv, NEW i \in DOMAIN parsing
               PROVE  GetDocument(dom, parsing[i]) = {parsing[1]}
    BY DEF ErrorsReachDocument
  <2>1. i \in 1..Len(parsing)
    BY DEF TreeInv, StackAgrees
  <2> QED
    BY <2>1, ParentsReachDocument
<1> QED
  BY <1>1, TreesStaySound, PTL
-----------------------------------------------------------------------------
(* Walks.                                                                  *)

(* s is what is met from start along next, up to the end. *)
Chain(next, start, s) ==
  /\ s \in Seq(Node)
  /\ start = IF s = <<>> THEN Null ELSE s[1]
  /\ \A i \in 1..Len(s) : next[s[i]] = IF i = Len(s) THEN Null ELSE s[i + 1]
  /\ \A i, j \in 1..Len(s) : s[i] = s[j] => i = j

LEMMA NodesCounted == Cardinality(Node) \in Nat
  BY NodeAssumption, FS_CardinalityType

LEMMA IntervalSize ==
  ASSUME NEW n \in Nat
  PROVE  IsFiniteSet(1..n) /\ Cardinality(1..n) = n
  BY FS_Interval

(* A walk that meets no node twice meets no more than there are. *)
LEMMA ShortEnough ==
  ASSUME NEW s \in Seq(Node), \A i, j \in 1..Len(s) : s[i] = s[j] => i = j
  PROVE  Len(s) <= Cardinality(Node)
<1> DEFINE I == 1..Len(s)
<1>1. Len(s) \in Nat /\ s \in [I -> Node]
  OBVIOUS
<1>2. IsFiniteSet(I) /\ Cardinality(I) = Len(s)
  BY ONLY <1>1, IntervalSize
<1>3. s \in Injection(I, Node)
  BY <1>1 DEF Injection, IsInjective
<1>4. Cardinality(I) <= Cardinality(Node)
  BY <1>2, <1>3, NodeAssumption, FS_Injection
<1> QED
  BY <1>2, <1>4

LEMMA AlongIsChain ==
  ASSUME NEW next, NEW start, NEW s, Chain(next, start, s)
  PROVE  Along(next, start) = s
<1> DEFINE n == Cardinality(Node)
           step(at) == [i \in 1..n |->
                         IF i = 1 THEN start
                         ELSE LET previous == at[i - 1]
                              IN  IF previous = Null THEN Null ELSE next[previous]]
           found == CHOOSE at : at = step(at)
           walk == [i \in 1..n |-> IF i <= Len(s) THEN s[i] ELSE Null]
           length == Cardinality({i \in 1..n : found[i] # Null})
<1>1. /\ s \in Seq(Node) /\ Len(s) \in Nat
      /\ \A i \in 1..Len(s) : s[i] \in Node /\ s[i] # Null
      /\ n \in Nat /\ Len(s) <= n
  BY NodesCounted, ShortEnough, NullAssumption DEF Chain
<1> HIDE DEF n
<1>2. walk = step(walk)
  <2>1. ASSUME NEW i \in 1..n PROVE walk[i] = step(walk)[i]
    <3>1. CASE i = 1
      BY <1>1, <3>1 DEF Chain
    <3>2. CASE i # 1 /\ i <= Len(s)
      BY <1>1, <3>2 DEF Chain
    <3>3. CASE i # 1 /\ ~(i <= Len(s))
      <4>1. CASE i - 1 <= Len(s)
        BY <1>1, <3>3, <4>1 DEF Chain
      <4>2. CASE ~(i - 1 <= Len(s))
        BY <1>1, <3>3, <4>2
      <4> QED
        BY <4>1, <4>2
    <3> QED
      BY <3>1, <3>2, <3>3
  <2> QED
    BY <2>1
<1>3. found = step(found)
  BY <1>2, Zenon
<1> HIDE DEF found
<1>4. ASSUME NEW i \in 1..n, found[i] # walk[i]
      PROVE  FALSE
  <2> DEFINE A == {k \in 1..n : found[k] # walk[k]}
  <2>1. A \in SUBSET Nat /\ A # {}
    <3>1. A \in SUBSET (1..n) /\ i \in A
      BY <1>4, Zenon
    <3>2. 1..n \subseteq Nat
      BY <1>1
    <3> QED
      BY <3>1, <3>2, Zenon
  <2>2. PICK m \in A : \A k \in A : m <= k
    BY <2>1, LeastNatural
  <2>3. m = 1 \/ (m > 1 /\ found[m - 1] = walk[m - 1])
    BY <1>1, <2>2
  <2>4. found[m] = step(found)[m] /\ walk[m] = step(walk)[m]
    BY <1>2, <1>3
  <2> QED
    BY <2>2, <2>3, <2>4
<1>5. \A i \in 1..n : found[i] = walk[i]
  BY <1>4
<1>6. {i \in 1..n : found[i] # Null} = 1..Len(s)
  BY <1>1, <1>5
<1>7. length = Len(s)
  <2>1. Cardinality(1..Len(s)) = Len(s)
    BY <1>1, IntervalSize, Zenon
  <2> QED
    BY <1>6, <2>1
<1>8. [i \in 1..length |-> found[i]] = s
  <2>1. \A i \in 1..Len(s) : found[i] = s[i]
    BY <1>1, <1>5
  <2>2. s = [i \in 1..Len(s) |-> s[i]]
    BY <1>1
  <2>3. [i \in 1..Len(s) |-> found[i]] = s
    BY <2>1, <2>2, Zenon
  <2> QED
    BY <1>7, <2>3
<1>9. Along(next, start) = [i \in 1..length |-> found[i]]
  BY Zenon DEF Along, found, n
<1> QED
  BY <1>8, <1>9

(* Where the position grows from each node to the next every walk ends. *)
Begins(next, pos, start, s) ==
  /\ s \in Seq(Node) /\ s # <<>> /\ s[1] = start
  /\ \A i \in 1..Len(s) - 1 : next[s[i]] = s[i + 1]
  /\ \A i, j \in 1..Len(s) : i < j => pos[s[i]] < pos[s[j]]

LEMMA BeginsNoRing ==
  ASSUME NEW next, NEW pos \in [Node -> Nat], NEW start, NEW s, Begins(next, pos, start, s)
  PROVE  \A i, j \in 1..Len(s) : s[i] = s[j] => i = j
<1> SUFFICES ASSUME NEW i \in 1..Len(s), NEW j \in 1..Len(s), s[i] = s[j], i < j
             PROVE  FALSE
  <2>1. Len(s) \in Nat
    BY DEF Begins
  <2> QED
    BY <2>1
<1>1. pos[s[i]] < pos[s[j]] /\ s[i] \in Node
  BY DEF Begins
<1>2. pos[s[i]] \in Nat
  BY <1>1
<1> QED
  BY <1>1, <1>2

LEMMA BeginsFurther ==
  ASSUME NEW next, NEW pos \in [Node -> Nat], NEW start, NEW s, Begins(next, pos, start, s),
         NEW n \in Node, next[s[Len(s)]] = n, pos[s[Len(s)]] < pos[n]
  PROVE  Begins(next, pos, start, Append(s, n)) /\ Len(Append(s, n)) = Len(s) + 1
<1> DEFINE a == Append(s, n)
<1>1. /\ s \in Seq(Node) /\ Len(s) \in Nat \ {0} /\ s[1] = start
      /\ \A i \in 1..Len(s) - 1 : next[s[i]] = s[i + 1]
      /\ \A i, j \in 1..Len(s) : i < j => pos[s[i]] < pos[s[j]]
  BY DEF Begins
<1>2. /\ a \in Seq(Node) /\ Len(a) = Len(s) + 1 /\ a[Len(s) + 1] = n /\ a # <<>>
      /\ \A i \in 1..Len(s) : a[i] = s[i]
  BY <1>1
<1> HIDE DEF a
<1>3. \A i \in 1..Len(a) - 1 : next[a[i]] = a[i + 1]
  <2> SUFFICES ASSUME NEW i \in 1..Len(a) - 1 PROVE next[a[i]] = a[i + 1]
    OBVIOUS
  <2>1. CASE i = Len(s)
    BY <1>1, <1>2, <2>1
  <2>2. CASE i # Len(s)
    <3>1. i \in 1..Len(s) - 1 /\ i \in 1..Len(s) /\ i + 1 \in 1..Len(s)
      BY <1>1, <1>2, <2>2
    <3> QED
      BY <1>1, <1>2, <3>1
  <2> QED
    BY <2>1, <2>2
<1>4. ASSUME NEW i \in 1..Len(a), NEW j \in 1..Len(a), i < j
      PROVE  pos[a[i]] < pos[a[j]]
  <2>1. CASE j # Len(s) + 1
    <3>1. i \in 1..Len(s) /\ j \in 1..Len(s)
      <4>1. Len(a) = Len(s) + 1 /\ Len(s) \in Nat
        BY <1>1, <1>2
      <4> QED
        BY <1>4, <2>1, <4>1
    <3> QED
      BY <1>1, <1>2, <1>4, <3>1
  <2>2. CASE j = Len(s) + 1 /\ i = Len(s)
    BY <1>1, <1>2, <2>2
  <2>3. CASE j = Len(s) + 1 /\ i # Len(s)
    <3>1. i \in 1..Len(s) /\ Len(s) \in 1..Len(s) /\ i < Len(s) /\ a[i] = s[i] /\ a[j] = n
      BY <1>1, <1>2, <1>4, <2>3
    <3>2. pos[s[i]] < pos[s[Len(s)]]
      BY <1>1, <3>1
    <3>3. pos[s[i]] \in Nat /\ pos[s[Len(s)]] \in Nat /\ pos[n] \in Nat
      BY <1>1, <3>1
    <3> QED
      BY <3>1, <3>2, <3>3
  <2> QED
    BY <1>1, <1>2, <1>4, <2>1, <2>2, <2>3
<1>5. a[1] = start
  <2>1. 1 \in 1..Len(s)
    BY <1>1
  <2> QED
    BY <1>1, <1>2, <2>1, Zenon
<1>6. \A i, j \in 1..Len(a) : i < j => pos[a[i]] < pos[a[j]]
  BY <1>4
<1>7. Begins(next, pos, start, a)
  BY <1>2, <1>3, <1>5, <1>6, Zenon DEF Begins
<1> QED
  BY <1>2, <1>7 DEF a

LEMMA ChainFound ==
  ASSUME NEW next \in [Node -> Pointer], NEW pos \in [Node -> Nat],
         \A n \in Node : next[n] # Null => pos[n] < pos[next[n]],
         NEW start \in Pointer
  PROVE  \E s : Chain(next, start, s)
<1>1. CASE start = Null
  <2>1. Chain(next, start, <<>>)
    BY <1>1 DEF Chain
  <2> QED
    BY <2>1
<1>2. CASE start # Null
  <2> DEFINE B(k) == \E s : Begins(next, pos, start, s) /\ Len(s) = k
             T == {k \in Nat : k >= 1 /\ ~B(k)}
             most == Cardinality(Node) + 1
  <2>1. most \in T
    <3>1. ASSUME NEW s, Begins(next, pos, start, s) PROVE Len(s) # most
      <4>1. Len(s) <= Cardinality(Node)
        <5>1. s \in Seq(Node) /\ \A i, j \in 1..Len(s) : s[i] = s[j] => i = j
          BY <3>1, BeginsNoRing DEF Begins
        <5> QED
          BY <5>1, ShortEnough
      <4> QED
        BY <4>1, NodesCounted
    <3> QED
      BY <3>1, NodesCounted
  <2>2. PICK m \in T : \A k \in T : m <= k
    <3>1. T \in SUBSET Nat /\ T # {}
      BY <2>1
    <3> HIDE DEF T
    <3> QED
      BY <3>1, LeastNatural
  <2>3. m \in Nat /\ m >= 1 /\ ~B(m)
    BY <2>2
  <2>4. m # 1
    <3>1. start \in Node
      BY <1>2 DEF Pointer
    <3>2. /\ <<start>> \in Seq(Node) /\ Len(<<start>>) = 1 /\ <<start>> # <<>>
          /\ <<start>>[1] = start
      BY <3>1
    <3>3. Begins(next, pos, start, <<start>>)
      BY <3>2 DEF Begins
    <3> QED
      BY <2>3, <3>2, <3>3
  <2>5. B(m - 1)
    <3>1. m - 1 \in Nat /\ m - 1 >= 1 /\ ~(m <= m - 1)
      BY <2>3, <2>4
    <3> HIDE DEF B
    <3> QED
      BY <2>2, <3>1
  <2>6. PICK s : Begins(next, pos, start, s) /\ Len(s) = m - 1
    BY <2>5
  <2>7. s \in Seq(Node) /\ s # <<>> /\ Len(s) \in Nat \ {0} /\ s[Len(s)] \in Node
    BY <2>6 DEF Begins
  <2>8. next[s[Len(s)]] = Null
    <3> SUFFICES ASSUME next[s[Len(s)]] # Null PROVE FALSE
      OBVIOUS
    <3>1. next[s[Len(s)]] \in Node /\ pos[s[Len(s)]] < pos[next[s[Len(s)]]]
      BY <2>7 DEF Pointer
    <3>2. \E a : Begins(next, pos, start, a) /\ Len(a) = Len(s) + 1
      BY <2>6, <3>1, BeginsFurther
    <3> QED
      BY <2>3, <2>6, <3>2
  <2>9. Chain(next, start, s)
    <3>1. \A i, j \in 1..Len(s) : s[i] = s[j] => i = j
      BY <2>6, BeginsNoRing
    <3>2. \A i \in 1..Len(s) : next[s[i]] = IF i = Len(s) THEN Null ELSE s[i + 1]
      BY <2>6, <2>7, <2>8 DEF Begins
    <3> QED
      BY <2>6, <2>7, <3>1, <3>2 DEF Chain, Begins
  <2> QED
    BY <2>9
<1> QED
  BY <1>1, <1>2
(* The walk from any node that a walk meets. *)
After(s, j) == IF j = Len(s) THEN Null ELSE s[j + 1]
Rest(s, j) == [i \in 1..Len(s) - j |-> s[i + j]]

LEMMA ChainRest ==
  ASSUME NEW next, NEW start, NEW s, Chain(next, start, s), NEW j \in 0..Len(s)
  PROVE  /\ Chain(next, After(s, j), Rest(s, j))
         /\ Rest(s, j) \in Seq(Node) /\ Len(Rest(s, j)) = Len(s) - j
         /\ \A i \in 1..Len(s) - j : Rest(s, j)[i] = s[i + j]
<1> DEFINE t == Rest(s, j)
<1>1. /\ s \in Seq(Node) /\ Len(s) \in Nat /\ j \in Nat /\ Len(s) - j \in Nat
      /\ \A i \in 1..Len(s) : next[s[i]] = IF i = Len(s) THEN Null ELSE s[i + 1]
      /\ \A i, k \in 1..Len(s) : s[i] = s[k] => i = k
  BY DEF Chain
<1>2. \A i \in 1..Len(s) - j : i + j \in 1..Len(s) /\ s[i + j] \in Node
  BY <1>1
<1>3. /\ t \in Seq(Node) /\ Len(t) = Len(s) - j
      /\ \A i \in 1..Len(s) - j : t[i] = s[i + j]
  BY <1>1, <1>2 DEF Rest
<1> HIDE DEF t
<1>4. After(s, j) = IF t = <<>> THEN Null ELSE t[1]
  <2>1. t = <<>> <=> j = Len(s)
    BY <1>1, <1>3
  <2>2. j # Len(s) => t[1] = s[j + 1]
    BY <1>1, <1>3
  <2> QED
    BY <2>1, <2>2 DEF After
<1>5. ASSUME NEW i \in 1..Len(t) PROVE next[t[i]] = IF i = Len(t) THEN Null ELSE t[i + 1]
  <2>1. i \in 1..Len(s) - j /\ i + j \in 1..Len(s) /\ t[i] = s[i + j]
    BY <1>1, <1>2, <1>3
  <2>2. next[t[i]] = IF i + j = Len(s) THEN Null ELSE s[(i + j) + 1]
    BY <1>1, <2>1
  <2>3. CASE i = Len(t)
    <3>1. i + j = Len(s)
      BY <1>1, <1>3, <2>3
    <3> QED
      BY <2>2, <2>3, <3>1
  <2>4. CASE i # Len(t)
    <3>1. i # Len(s) - j
      BY <1>3, <2>4
    <3>2. i + j # Len(s) /\ i + 1 \in 1..Len(s) - j /\ (i + j) + 1 = (i + 1) + j
      BY <1>1, <2>1, <3>1
    <3> QED
      BY <1>3, <2>2, <2>4, <3>2
  <2> QED
    BY <2>3, <2>4
<1>6. ASSUME NEW i \in 1..Len(t), NEW k \in 1..Len(t), t[i] = t[k] PROVE i = k
  <2>1. /\ i + j \in 1..Len(s) /\ k + j \in 1..Len(s) /\ t[i] = s[i + j] /\ t[k] = s[k + j]
    BY <1>2, <1>3
  <2>2. i + j = k + j
    BY <1>1, <1>6, <2>1
  <2> QED
    BY <1>1, <2>2
<1> QED
  BY <1>3, <1>4, <1>5, <1>6 DEF Chain, t

(* The children of a node, forwards and backwards. *)
LEMMA SameParent ==
  ASSUME NEW h, NEW rank, NEW pos, Formed(h, rank, pos), NEW p \in Node,
         NEW s, Chain(h.next, h.firstChild[p], s)
  PROVE  \A i \in 1..Len(s) : h.parent[s[i]] = p
<1> DEFINE T == {i \in 1..Len(s) : h.parent[s[i]] # p}
<1>1. s \in Seq(Node) /\ Len(s) \in Nat /\ T \in SUBSET Nat
  BY DEF Chain
<1>2. ASSUME T # {} PROVE FALSE
  <2>1. PICK m \in T : \A k \in T : m <= k
    <3> HIDE DEF T
    <3> QED
      BY <1>1, <1>2, LeastNatural
  <2>2. m \in 1..Len(s) /\ h.parent[s[m]] # p /\ s[m] \in Node /\ s[m] # Null
    BY <1>1, <2>1, NullAssumption
  <2>3. CASE m = 1
    <3>1. h.firstChild[p] = s[1]
      BY <1>1, <2>2 DEF Chain
    <3> QED
      BY <2>2, <2>3, <3>1 DEF Formed, EndsAgree
  <2>4. CASE m # 1
    <3>1. m - 1 \in 1..Len(s) /\ m - 1 # Len(s) /\ (m - 1) + 1 = m /\ ~(m <= m - 1)
      BY <1>1, <2>2, <2>4
    <3>2. h.parent[s[m - 1]] = p
      BY <2>1, <3>1
    <3>3. h.next[s[m - 1]] = s[m] /\ s[m - 1] \in Node
      BY <1>1, <3>1 DEF Chain
    <3> QED
      BY <2>2, <3>2, <3>3 DEF Formed, SiblingsAgree
  <2> QED
    BY <2>3, <2>4
<1> QED
  BY <1>2

LEMMA ReverseOf ==
  ASSUME NEW s \in Seq(Node)
  PROVE  /\ Reverse(s) \in Seq(Node) /\ Len(Reverse(s)) = Len(s)
         /\ \A i \in 1..Len(s) : Reverse(s)[i] = s[(Len(s) - i) + 1]
<1>1. /\ Len(s) \in Nat
      /\ \A i \in 1..Len(s) : (Len(s) - i) + 1 \in 1..Len(s) /\ s[(Len(s) - i) + 1] \in Node
  OBVIOUS
<1> QED
  BY <1>1 DEF Reverse

LEMMA OneLess ==
  ASSUME NEW n \in Nat, 1 <= n, n # 1
  PROVE  n - 1 \in 1..n
  OBVIOUS

LEMMA PreviousOf ==
  ASSUME NEW h, NEW rank, NEW pos, Formed(h, rank, pos), NEW p \in Node,
         NEW s, Chain(h.next, h.firstChild[p], s)
  PROVE  \A i \in 1..Len(s) : h.prev[s[i]] = IF i = 1 THEN Null ELSE s[i - 1]
<1>1. /\ s \in Seq(Node) /\ Len(s) \in Nat
      /\ \A i \in 1..Len(s) : h.next[s[i]] = IF i = Len(s) THEN Null ELSE s[i + 1]
      /\ h.firstChild[p] = IF s = <<>> THEN Null ELSE s[1]
      /\ \A i \in 1..Len(s) : s[i] \in Node /\ s[i] # Null
  BY NullAssumption DEF Chain
<1> SUFFICES ASSUME NEW i \in 1..Len(s) PROVE h.prev[s[i]] = IF i = 1 THEN Null ELSE s[i - 1]
  OBVIOUS
<1>2. CASE i = 1
  <2>1. h.firstChild[p] = s[1] /\ s[1] # Null
    BY <1>1, <1>2
  <2> QED
    BY <1>2, <2>1 DEF Formed, EndsAgree
<1>3. CASE i # 1
  <2>1. i - 1 \in 1..Len(s) /\ i - 1 # Len(s) /\ (i - 1) + 1 = i
    BY <1>1, <1>3
  <2>2. h.next[s[i - 1]] = s[i] /\ s[i] # Null /\ s[i - 1] \in Node
    BY <1>1, <2>1
  <2> QED
    BY <1>3, <2>2 DEF Formed, SiblingsAgree
<1> QED
  BY <1>2, <1>3

LEMMA ChainBackwards ==
  ASSUME NEW h, NEW rank, NEW pos, Formed(h, rank, pos), NEW p \in Node,
         NEW s, Chain(h.next, h.firstChild[p], s)
  PROVE  Chain(h.prev, h.lastChild[p], Reverse(s))
<1> DEFINE t == Reverse(s)
<1>1. /\ s \in Seq(Node) /\ Len(s) \in Nat
      /\ \A i \in 1..Len(s) : h.next[s[i]] = IF i = Len(s) THEN Null ELSE s[i + 1]
      /\ \A i, k \in 1..Len(s) : s[i] = s[k] => i = k
      /\ h.firstChild[p] = IF s = <<>> THEN Null ELSE s[1]
      /\ \A i \in 1..Len(s) : s[i] \in Node /\ s[i] # Null
  BY NullAssumption DEF Chain
<1>2. /\ t \in Seq(Node) /\ Len(t) = Len(s)
      /\ \A i \in 1..Len(s) : t[i] = s[(Len(s) - i) + 1] /\ (Len(s) - i) + 1 \in 1..Len(s)
  BY <1>1, ReverseOf
<1> HIDE DEF t
<1>3. \A i \in 1..Len(s) : h.parent[s[i]] = p
  BY SameParent
<1>4. \A i \in 1..Len(s) : h.prev[s[i]] = IF i = 1 THEN Null ELSE s[i - 1]
  BY PreviousOf
<1>5. h.lastChild[p] = IF t = <<>> THEN Null ELSE t[1]
  <2>1. CASE s = <<>>
    <3>1. h.firstChild[p] = Null /\ t = <<>>
      BY <1>1, <1>2, <2>1
    <3> QED
      BY <3>1 DEF Formed, EndsAgree
  <2>2. CASE s # <<>>
    <3> DEFINE c == s[Len(s)]
    <3>1. Len(s) \in 1..Len(s) /\ t # <<>> /\ t[1] = c
      BY <1>1, <1>2, <2>2
    <3>2. c \in Node /\ h.parent[c] = p /\ h.next[c] = Null
      BY <1>1, <1>3, <3>1
    <3>3. Linked(h, c)
      <4>1. CASE Len(s) = 1
        BY <1>1, <2>2, <3>2, <4>1, NullAssumption DEF Linked
      <4>2. CASE Len(s) # 1
        <5>1. Len(s) - 1 \in 1..Len(s)
          <6>1. Len(s) \in Nat /\ 1 <= Len(s)
            BY <1>1, <3>1
          <6> QED
            BY <4>2, <6>1, OneLess, Zenon
        <5>2. h.prev[c] # Null
          BY <1>1, <1>4, <3>1, <4>2, <5>1
        <5> QED
          BY <3>2, <5>2, NullAssumption DEF Linked
      <4> QED
        BY <4>1, <4>2
    <3> HIDE DEF c
    <3>4. h.lastChild[p] = c
      BY <3>2, <3>3, NullAssumption DEF Formed, ParentsAgree
    <3> QED
      BY <3>1, <3>4
  <2> QED
    BY <2>1, <2>2
<1>6. ASSUME NEW i \in 1..Len(t) PROVE h.prev[t[i]] = IF i = Len(t) THEN Null ELSE t[i + 1]
  <2> DEFINE k == (Len(s) - i) + 1
  <2>1. /\ k \in 1..Len(s) /\ t[i] = s[k] /\ k - 1 = (Len(s) - (i + 1)) + 1
        /\ (i = Len(t) <=> k = 1)
    BY <1>1, <1>2
  <2>2. i # Len(t) => i + 1 \in 1..Len(s)
    BY <1>1, <1>2
  <2> HIDE DEF k
  <2>3. h.prev[t[i]] = IF k = 1 THEN Null ELSE s[k - 1]
    BY <1>4, <2>1
  <2>4. i # Len(t) => t[i + 1] = s[k - 1]
    BY <1>2, <2>1, <2>2
  <2> QED
    BY <2>1, <2>3, <2>4
<1>7. ASSUME NEW i \in 1..Len(t), NEW k \in 1..Len(t), t[i] = t[k] PROVE i = k
  <2>1. (Len(s) - i) + 1 = (Len(s) - k) + 1
    <3>1. /\ (Len(s) - i) + 1 \in 1..Len(s) /\ (Len(s) - k) + 1 \in 1..Len(s)
          /\ s[(Len(s) - i) + 1] = s[(Len(s) - k) + 1]
      BY <1>2, <1>7
    <3> QED
      BY <1>1, <3>1, Zenon
  <2> QED
    BY <1>1, <1>2, <2>1
<1> QED
  BY <1>2, <1>5, <1>6, <1>7 DEF Chain, t
-----------------------------------------------------------------------------
(* The elements a walk meets, and their numbers.                           *)
Before(E, j) == Cardinality({k \in E : k < j})

LEMMA NumberOf ==
  ASSUME NEW E, IsFiniteSet(E), E \subseteq Nat
  PROVE  /\ Cardinality(E) \in Nat
         /\ \A j \in E : Before(E, j) \in Nat /\ Before(E, j) < Cardinality(E)
         /\ \A i, j \in E : i < j => Before(E, i) < Before(E, j)
         /\ \A j \in E : (\A k \in E : j <= k) => Before(E, j) = 0
         /\ \A i, j \in E : i < j /\ (\A k \in E : k > i => j <= k)
              => Before(E, j) = Before(E, i) + 1
         /\ \A j \in E : (\A k \in E : k <= j) => Cardinality(E) = Before(E, j) + 1
<1> DEFINE P(j) == {k \in E : k < j}
<1>1. ASSUME NEW j
      PROVE  IsFiniteSet(P(j)) /\ Cardinality(P(j)) \in Nat /\ Before(E, j) = Cardinality(P(j))
  <2>1. P(j) \subseteq E
    OBVIOUS
  <2>2. IsFiniteSet(P(j))
    BY <2>1, FS_Subset
  <2> QED
    BY <2>2, FS_CardinalityType DEF Before
<1>2. ASSUME NEW j \in E
      PROVE  /\ IsFiniteSet(P(j) \cup {j}) /\ Cardinality(P(j) \cup {j}) = Before(E, j) + 1
             /\ Cardinality(P(j) \cup {j}) \in Nat
  <2>1. j \notin P(j)
    OBVIOUS
  <2> HIDE DEF P
  <2> QED
    BY <1>1, <2>1, FS_AddElement
<1>3. ASSUME NEW j \in E PROVE Before(E, j) < Cardinality(E)
  <2>1. P(j) \cup {j} \subseteq E
    OBVIOUS
  <2> HIDE DEF P
  <2>2. Cardinality(P(j) \cup {j}) <= Cardinality(E) /\ Cardinality(E) \in Nat
    BY <2>1, FS_Subset, FS_CardinalityType
  <2>3. Before(E, j) \in Nat
    BY <1>1, Zenon
  <2>4. Cardinality(P(j) \cup {j}) = Before(E, j) + 1
    BY <1>2, Zenon
  <2>5. Before(E, j) + 1 <= Cardinality(E)
    BY <2>2, <2>4, Zenon
  <2> QED
    BY <2>2, <2>3, <2>5
<1>4. ASSUME NEW i \in E, NEW j \in E, i < j PROVE Before(E, i) < Before(E, j)
  <2>1. P(i) \cup {i} \subseteq P(j)
    <3> SUFFICES ASSUME NEW k \in E, k < i \/ k = i PROVE k < j
      OBVIOUS
    <3>1. i \in Nat /\ j \in Nat /\ k \in Nat
      OBVIOUS
    <3> QED
      BY <1>4, <3>1
  <2> HIDE DEF P
  <2>2. Cardinality(P(i) \cup {i}) <= Cardinality(P(j))
    BY <1>1, <2>1, FS_Subset
  <2>3. Before(E, i) \in Nat /\ Before(E, j) \in Nat
    BY <1>1, Zenon
  <2>4. Cardinality(P(i) \cup {i}) = Before(E, i) + 1
    BY <1>2, Zenon
  <2>5. Before(E, i) + 1 <= Before(E, j)
    BY <1>1, <2>2, <2>4, Zenon
  <2> QED
    BY <2>3, <2>5
<1>5. ASSUME NEW j \in E, \A k \in E : j <= k PROVE Before(E, j) = 0
  <2>1. P(j) = {}
    <3> SUFFICES ASSUME NEW k \in E, k < j PROVE FALSE
      OBVIOUS
    <3>1. j \in Nat /\ k \in Nat /\ j <= k
      BY <1>5
    <3> QED
      BY <3>1
  <2> HIDE DEF P
  <2> QED
    BY <1>1, <2>1, FS_EmptySet
<1>6. ASSUME NEW i \in E, NEW j \in E, i < j, \A k \in E : k > i => j <= k
      PROVE  Before(E, j) = Before(E, i) + 1
  <2>1. P(j) = P(i) \cup {i}
    <3>1. ASSUME NEW k \in E PROVE k < j <=> k < i \/ k = i
      <4>1. i \in Nat /\ j \in Nat /\ k \in Nat /\ (k > i => j <= k)
        BY <1>6
      <4> QED
        BY <1>6, <4>1
    <3> QED
      BY <3>1
  <2> HIDE DEF P
  <2> QED
    BY <1>1, <1>2, <2>1
<1>7. ASSUME NEW j \in E, \A k \in E : k <= j PROVE Cardinality(E) = Before(E, j) + 1
  <2>1. E = P(j) \cup {j}
    <3>1. ASSUME NEW k \in E PROVE k < j \/ k = j
      <4>1. j \in Nat /\ k \in Nat /\ k <= j
        BY <1>7
      <4> QED
        BY <4>1
    <3> QED
      BY <3>1
  <2> HIDE DEF P
  <2> QED
    BY <1>2, <2>1
<1>8. Cardinality(E) \in Nat /\ \A j \in E : Before(E, j) \in Nat
  BY <1>1, FS_CardinalityType
<1> QED
  BY <1>3, <1>4, <1>5, <1>6, <1>7, <1>8

LEMMA ElementsOf ==
  ASSUME NEW s \in Seq(Node)
  PROVE  /\ Elements(s) \subseteq 1..Len(s) /\ Elements(s) \subseteq Nat
         /\ IsFiniteSet(Elements(s)) /\ Len(s) \in Nat
         /\ \A i \in 1..Len(s) : i \in Elements(s) <=> dom.type[s[i]] = "element"
<1>1. /\ Elements(s) \subseteq 1..Len(s) /\ Len(s) \in Nat
      /\ \A i \in 1..Len(s) : i \in Elements(s) <=> dom.type[s[i]] = "element"
  BY DEF Elements
<1>2. IsFiniteSet(1..Len(s)) /\ 1..Len(s) \subseteq Nat
  BY <1>1, IntervalSize
<1> QED
  BY <1>1, <1>2, FS_Subset

LEMMA LeastOf ==
  ASSUME NEW A \in SUBSET Nat, NEW m \in A, \A k \in A : m <= k
  PROVE  Min(A) = m
<1>1. Min(A) \in A /\ \A k \in A : Min(A) <= k
  BY DEF Min
<1>2. Min(A) \in Nat /\ m \in Nat /\ Min(A) <= m /\ m <= Min(A)
  BY <1>1
<1> QED
  BY <1>2

(* NextSiblingElement from number j on is the next element of the walk. *)
LEMMA ElementAfter ==
  ASSUME NEW start, NEW s, Chain(dom.next, start, s), NEW j \in 0..Len(s)
  PROVE  /\ (\A i \in Elements(s) : i <= j) => ElementFrom(After(s, j)) = Null
         /\ \A i \in Elements(s) : i > j /\ (\A k \in Elements(s) : k > j => i <= k)
              => ElementFrom(After(s, j)) = s[i]
<1> DEFINE r == Rest(s, j)
           R == Elements(r)
           E == Elements(s)
<1>1. /\ s \in Seq(Node) /\ Len(s) \in Nat /\ j \in Nat /\ j <= Len(s)
      /\ r \in Seq(Node) /\ Len(r) = Len(s) - j /\ Along(dom.next, After(s, j)) = r
      /\ \A i \in 1..Len(s) - j : r[i] = s[i + j]
  <2>1. /\ Chain(dom.next, After(s, j), r)
        /\ r \in Seq(Node) /\ Len(r) = Len(s) - j
        /\ \A i \in 1..Len(s) - j : r[i] = s[i + j]
    BY ChainRest
  <2>2. Along(dom.next, After(s, j)) = r
    BY <2>1, AlongIsChain, Zenon
  <2>3. s \in Seq(Node)
    BY DEF Chain
  <2>4. Len(s) \in Nat /\ j \in Nat /\ j <= Len(s)
    BY <2>3
  <2> HIDE DEF r
  <2> QED
    BY <2>1, <2>2, <2>3, <2>4
<1>2. ElementFrom(After(s, j)) = IF R = {} THEN Null ELSE r[Min(R)]
  BY <1>1 DEF ElementFrom
<1> HIDE DEF r
<1>3. /\ R \subseteq 1..Len(r) /\ R \subseteq Nat /\ E \subseteq 1..Len(s)
      /\ \A i \in 1..Len(r) : i \in R <=> dom.type[r[i]] = "element"
      /\ \A i \in 1..Len(s) : i \in E <=> dom.type[s[i]] = "element"
  BY <1>1, ElementsOf
<1> HIDE DEF R, E
<1>4. \A i \in 1..Len(s) - j : (i \in R <=> i + j \in E) /\ i + j \in 1..Len(s)
  <2> TAKE i \in 1..Len(s) - j
  <2>1. i + j \in 1..Len(s) /\ i \in 1..Len(r)
    BY <1>1
  <2> QED
    BY <1>1, <1>3, <2>1
<1>5. ASSUME \A i \in E : i <= j PROVE R = {}
  <2> SUFFICES ASSUME NEW i \in R PROVE FALSE
    OBVIOUS
  <2>1. i \in 1..Len(s) - j /\ i + j \in E
    BY <1>1, <1>3, <1>4
  <2>2. i + j <= j /\ i \in Nat /\ i >= 1
    BY <1>1, <1>5, <2>1
  <2> QED
    BY <1>1, <2>2
<1>6. ASSUME NEW i \in E, i > j, \A k \in E : k > j => i <= k
      PROVE  R # {} /\ r[Min(R)] = s[i]
  <2>1. i \in 1..Len(s) /\ i - j \in 1..Len(s) - j /\ (i - j) + j = i
    BY <1>1, <1>3, <1>6
  <2>2. i - j \in R /\ r[i - j] = s[i]
    BY <1>1, <1>4, <2>1
  <2>3. \A k \in R : i - j <= k
    <3> SUFFICES ASSUME NEW k \in R PROVE i - j <= k
      OBVIOUS
    <3>1. k \in 1..Len(s) - j /\ k + j \in E
      BY <1>1, <1>3, <1>4
    <3>2. k + j > j
      BY <1>1, <3>1
    <3>3. i <= k + j
      BY <1>6, <3>1, <3>2
    <3> QED
      BY <1>1, <2>1, <3>1, <3>3
  <2>4. Min(R) = i - j
    BY <1>3, <2>2, <2>3, LeastOf
  <2> QED
    BY <2>2, <2>4
<1> QED
  BY <1>2, <1>5, <1>6 DEF E
(* The element a walk meets with number k. *)
Numbered(E, s, k) ==
  IF \E j \in E : Before(E, j) = k THEN s[CHOOSE j \in E : Before(E, j) = k] ELSE Null

LEMMA NumberedOnce ==
  ASSUME NEW E, IsFiniteSet(E), E \subseteq Nat, NEW s, NEW j \in E
  PROVE  Numbered(E, s, Before(E, j)) = s[j]
<1> DEFINE c == CHOOSE x \in E : Before(E, x) = Before(E, j)
<1>1. c \in E /\ Before(E, c) = Before(E, j)
  OBVIOUS
<1>2. Numbered(E, s, Before(E, j)) = s[c]
  BY DEF Numbered
<1> HIDE DEF c
<1>3. Before(E, c) \in Nat /\ Before(E, j) \in Nat /\ c \in Nat /\ j \in Nat
  BY <1>1, NumberOf
<1>4. ~(c < j) /\ ~(j < c)
  <2>1. /\ c < j => Before(E, c) < Before(E, j)
        /\ j < c => Before(E, j) < Before(E, c)
    BY <1>1, NumberOf
  <2> QED
    BY <1>1, <1>3, <2>1
<1>5. c = j
  BY <1>3, <1>4
<1> QED
  BY <1>2, <1>5

LEMMA PreviousNumber ==
  ASSUME NEW E, IsFiniteSet(E), E \subseteq Nat, NEW j \in E, NEW k \in Nat,
         Before(E, j) = k + 1
  PROVE  \E i \in E : Before(E, i) = k
<1> DEFINE D == {j - i : i \in {i \in E : i < j}}
<1>1. j \in Nat /\ \A i \in E : i \in Nat
  OBVIOUS
<1>2. D \in SUBSET Nat
  <2> SUFFICES ASSUME NEW i \in E, i < j PROVE j - i \in Nat
    OBVIOUS
  <2>1. i \in Nat /\ j \in Nat
    BY <1>1
  <2> QED
    BY <2>1
<1>3. D # {}
  <2> SUFFICES ASSUME \A i \in E : ~(i < j) PROVE FALSE
    OBVIOUS
  <2>1. \A i \in E : j <= i
    BY <1>1
  <2>2. Before(E, j) = 0
    BY <2>1, NumberOf
  <2> QED
    BY <2>2
<1>4. PICK d \in D : \A e \in D : d <= e
  <2> HIDE DEF D
  <2> QED
    BY <1>2, <1>3, LeastNatural
<1>5. PICK i \in E : i < j /\ d = j - i
  BY <1>4
<1>6. \A x \in E : x > i => j <= x
  <2> SUFFICES ASSUME NEW x \in E, x > i, ~(j <= x) PROVE FALSE
    OBVIOUS
  <2>1. x \in Nat /\ i \in Nat /\ j \in Nat
    BY <1>1
  <2>2. j - x \in D
    BY <2>1
  <2>3. j - i <= j - x
    BY <1>4, <1>5, <2>2
  <2> QED
    BY <2>1, <2>3
<1>7. Before(E, j) = Before(E, i) + 1 /\ Before(E, i) \in Nat
  BY <1>5, <1>6, NumberOf
<1> QED
  BY <1>7

LEMMA NumberedSteps ==
  ASSUME NEW start, NEW s, Chain(dom.next, start, s), NEW k \in Nat
  PROVE  /\ Numbered(Elements(s), s, 0) = ElementFrom(start)
         /\ Numbered(Elements(s), s, k + 1)
              = IF Numbered(Elements(s), s, k) = Null THEN Null
                ELSE ElementFrom(dom.next[Numbered(Elements(s), s, k)])
<1> DEFINE E == Elements(s)
<1>1. /\ s \in Seq(Node) /\ Len(s) \in Nat
      /\ \A i \in 1..Len(s) : /\ dom.next[s[i]] = After(s, i)
                              /\ s[i] # Null
  BY NullAssumption DEF Chain, After
<1>2. IsFiniteSet(E) /\ E \subseteq Nat /\ E \subseteq 1..Len(s)
  BY <1>1, ElementsOf
<1>3. \A i \in E : i \in Nat /\ i \in 1..Len(s) /\ i > 0
  BY <1>1, <1>2
<1>4. start = After(s, 0)
  <2>1. s = <<>> <=> 0 = Len(s)
    BY <1>1
  <2> QED
    BY <2>1 DEF Chain, After
<1>5. ASSUME NEW j \in 0..Len(s)
      PROVE  /\ (\A i \in E : i <= j) => ElementFrom(After(s, j)) = Null
             /\ \A i \in E : i > j /\ (\A x \in E : x > j => i <= x)
                  => ElementFrom(After(s, j)) = s[i]
  BY ElementAfter
<1> HIDE DEF E
<1>6. ASSUME NEW j \in 0..Len(s), ~\A i \in E : i <= j
      PROVE  \E i \in E : i > j /\ \A x \in E : x > j => i <= x
  <2> DEFINE A == {x \in E : x > j}
  <2>1. A \in SUBSET Nat /\ A # {}
    BY <1>1, <1>3, <1>6
  <2>2. PICK i \in A : \A x \in A : i <= x
    <3> HIDE DEF A
    <3> QED
      BY <2>1, LeastNatural
  <2> QED
    BY <2>2
<1>7. Numbered(E, s, 0) = ElementFrom(start)
  <2>1. 0 \in 0..Len(s)
    BY <1>1
  <2>2. CASE \A i \in E : i <= 0
    <3>1. E = {}
      BY <1>3, <2>2
    <3> QED
      BY <1>4, <1>5, <2>1, <3>1 DEF Numbered
  <2>3. CASE ~\A i \in E : i <= 0
    <3>1. PICK i \in E : i > 0 /\ \A x \in E : x > 0 => i <= x
      BY <1>6, <2>1, <2>3
    <3>2. ElementFrom(start) = s[i]
      BY <1>4, <1>5, <2>1, <3>1
    <3>3. Before(E, i) = 0
      BY <1>2, <1>3, <3>1, NumberOf
    <3> QED
      BY <1>2, <3>2, <3>3, NumberedOnce
  <2> QED
    BY <2>2, <2>3
<1>8. CASE ~\E i \in E : Before(E, i) = k
  <2>1. ~\E j \in E : Before(E, j) = k + 1
    BY <1>2, <1>8, PreviousNumber
  <2>2. Numbered(E, s, k) = Null /\ Numbered(E, s, k + 1) = Null
    BY <1>8, <2>1 DEF Numbered
  <2> QED
    BY <1>7, <2>2 DEF E
<1>9. CASE \E i \in E : Before(E, i) = k
  <2>1. PICK i \in E : Before(E, i) = k
    BY <1>9
  <2>2. Numbered(E, s, k) = s[i] /\ s[i] # Null /\ dom.next[s[i]] = After(s, i)
    BY <1>1, <1>2, <1>3, <2>1, NumberedOnce
  <2>3. i \in 0..Len(s)
    BY <1>1, <1>3
  <2>4. Numbered(E, s, k + 1) = ElementFrom(After(s, i))
    <3>1. CASE \A x \in E : x <= i
      <4>1. Cardinality(E) = k + 1
        BY <1>2, <2>1, <3>1, NumberOf
      <4>2. ASSUME NEW j \in E, Before(E, j) = k + 1 PROVE FALSE
        <5>1. Before(E, j) < Cardinality(E)
          BY <1>2, NumberOf
        <5> QED
          BY <4>1, <4>2, <5>1
      <4> QED
        BY <1>5, <2>3, <3>1, <4>2 DEF Numbered
    <3>2. CASE ~\A x \in E : x <= i
      <4>1. PICK j \in E : j > i /\ \A x \in E : x > i => j <= x
        BY <1>6, <2>3, <3>2
      <4>2. ElementFrom(After(s, i)) = s[j]
        BY <1>5, <2>3, <4>1
      <4>3. Before(E, j) = k + 1
        <5>1. i < j
          BY <1>3, <4>1
        <5> QED
          BY <1>2, <2>1, <4>1, <5>1, NumberOf
      <4> QED
        BY <1>2, <4>2, <4>3, NumberedOnce
    <3> QED
      BY <3>1, <3>2
  <2> QED
    BY <1>7, <2>2, <2>4 DEF E
<1> QED
  BY <1>8, <1>9
LEMMA ChildElementIs ==
  ASSUME NEW p, NEW s, Chain(dom.next, dom.firstChild[p], s), NEW n \in Nat
  PROVE  ChildElement(p, n) = Numbered(Elements(s), s, n)
<1> DEFINE first == ElementFrom(dom.firstChild[p])
           step(child) == [k \in 0..n |->
                            IF k = 0 THEN first
                            ELSE LET previous == child[k - 1]
                                 IN  IF previous = Null THEN Null
                                     ELSE ElementFrom(dom.next[previous])]
           found == CHOOSE child : child = step(child)
           number(k) == Numbered(Elements(s), s, k)
           numbers == [k \in 0..n |-> number(k)]
<1>1. ChildElement(p, n) = found[n]
  BY Zenon DEF ChildElement
<1>2. ASSUME NEW k \in Nat
      PROVE  /\ number(0) = first
             /\ number(k + 1) = IF number(k) = Null THEN Null
                                ELSE ElementFrom(dom.next[number(k)])
  BY NumberedSteps
<1> HIDE DEF number, first
<1>3. numbers = step(numbers)
  <2>1. ASSUME NEW k \in 0..n PROVE numbers[k] = step(numbers)[k]
    <3>1. CASE k = 0
      BY <1>2, <3>1
    <3>2. CASE k # 0
      <4>1. k - 1 \in Nat /\ k - 1 \in 0..n /\ (k - 1) + 1 = k
        BY <3>2
      <4>2. number((k - 1) + 1) = IF number(k - 1) = Null THEN Null
                                  ELSE ElementFrom(dom.next[number(k - 1)])
        BY <1>2, <4>1
      <4> QED
        BY <3>2, <4>1, <4>2
    <3> QED
      BY <3>1, <3>2
  <2> QED
    BY <2>1
<1>4. found = step(found)
  BY <1>3, Zenon
<1> HIDE DEF found
<1>5. ASSUME NEW k \in 0..n, found[k] # numbers[k]
      PROVE  FALSE
  <2> DEFINE A == {i \in 0..n : found[i] # numbers[i]}
  <2>1. A \in SUBSET Nat /\ A # {}
    <3>1. A \in SUBSET (0..n) /\ k \in A
      BY <1>5, Zenon
    <3>2. 0..n \subseteq Nat
      OBVIOUS
    <3> QED
      BY <3>1, <3>2, Zenon
  <2>2. PICK m \in A : \A i \in A : m <= i
    BY <2>1, LeastNatural
  <2>3. m = 0 \/ (m # 0 /\ found[m - 1] = numbers[m - 1])
    BY <2>2
  <2>4. found[m] = step(found)[m] /\ numbers[m] = step(numbers)[m]
    BY <1>3, <1>4
  <2> QED
    BY <2>2, <2>3, <2>4
<1>6. found[n] = number(n)
  BY <1>5
<1> QED
  BY <1>1, <1>6 DEF number

LEMMA WalksOf ==
  ASSUME TreeInv, NEW p \in Node
  PROVE  /\ Along(dom.prev, dom.lastChild[p]) = Reverse(Kids(p))
         /\ \A j \in Elements(Kids(p)) :
              ChildElement(p, Cardinality({k \in Elements(Kids(p)) : k < j})) = Kids(p)[j]
         /\ ChildElement(p, Cardinality(Elements(Kids(p)))) = Null
<1>1. PICK rank, pos : Formed(dom, rank, pos)
  BY DEF TreeInv
<1>2. PICK s : Chain(dom.next, dom.firstChild[p], s)
  <2>1. /\ dom.next \in [Node -> Pointer] /\ dom.firstChild[p] \in Pointer
        /\ pos \in [Node -> Nat]
        /\ \A n \in Node : dom.next[n] # Null => pos[n] < pos[dom.next[n]]
    BY <1>1 DEF Formed, Fields, Placed
  <2> QED
    BY <2>1, ChainFound
<1>3. Kids(p) = s
  BY <1>2, AlongIsChain DEF Kids
<1>4. Along(dom.prev, dom.lastChild[p]) = Reverse(s)
  BY <1>1, <1>2, ChainBackwards, AlongIsChain
<1> DEFINE E == Elements(s)
<1>5. IsFiniteSet(E) /\ E \subseteq Nat
  BY <1>2, ElementsOf DEF Chain
<1>6. \A n \in Nat : ChildElement(p, n) = Numbered(E, s, n)
  BY <1>2, ChildElementIs
<1> HIDE DEF E
<1>7. ASSUME NEW j \in E PROVE ChildElement(p, Before(E, j)) = s[j]
  <2>1. Before(E, j) \in Nat
    BY <1>5, NumberOf
  <2> QED
    BY <1>5, <1>6, <2>1, NumberedOnce
<1>8. ChildElement(p, Cardinality(E)) = Null
  <2>1. /\ Cardinality(E) \in Nat
        /\ \A j \in E : Before(E, j) \in Nat /\ Before(E, j) < Cardinality(E)
    BY <1>5, NumberOf
  <2>2. ~\E j \in E : Before(E, j) = Cardinality(E)
    BY <2>1
  <2> QED
    BY <1>6, <2>1, <2>2 DEF Numbered
<1> QED
  BY <1>3, <1>4, <1>7, <1>8 DEF E, Before

(* A walk backwards, or over elements only as TiXmlHandle does, meets the   *)
(* children a walk forwards meets, in their order.                          *)
THEOREM ChildrenAlwaysWalked ==
  Spec => []WalksAgree
<1>1. TreeInv => WalksAgree
  BY WalksOf DEF WalksAgree, Live
<1> QED
  BY <1>1, TreesStaySound, PTL

-----------------------------------------------------------------------------
(* The children of each node as lists.                                     *)

(* L[p] is what the walk over the children of p meets. *)
ListsOf(h, L) ==
  /\ DOMAIN L = Node /\ L = [p \in Node |-> L[p]]
  /\ \A p \in Node : Chain(h.next, h.firstChild[p], L[p])

LEMMA ListsFound ==
  ASSUME NEW h, NEW rank, NEW pos, Formed(h, rank, pos)
  PROVE  \E L : ListsOf(h, L)
<1> DEFINE C(p) == CHOOSE s : Chain(h.next, h.firstChild[p], s)
           L == [p \in Node |-> C(p)]
<1>1. ASSUME NEW p \in Node PROVE Chain(h.next, h.firstChild[p], C(p))
  <2>1. \E s : Chain(h.next, h.firstChild[p], s)
    <3>1. /\ h.next \in [Node -> Pointer] /\ h.firstChild[p] \in Pointer /\ pos \in [Node -> Nat]
          /\ \A n \in Node : h.next[n] # Null => pos[n] < pos[h.next[n]]
      BY DEF Formed, Fields, Placed
    <3> QED
      BY <3>1, ChainFound
  <2> QED
    BY <2>1, Zenon
<1> HIDE DEF C
<1>2. ListsOf(h, L)
  BY <1>1 DEF ListsOf
<1> QED
  BY <1>2, Zenon

LEMMA ListsAre ==
  ASSUME NEW h, NEW L, ListsOf(h, L)
  PROVE  [p \in Node |-> Along(h.next, h.firstChild[p])] = L
<1>1. \A p \in Node : Along(h.next, h.firstChild[p]) = L[p]
  BY AlongIsChain DEF ListsOf
<1>2. L = [p \in Node |-> L[p]]
  BY DEF ListsOf
<1> QED
  BY <1>1, <1>2, Zenon

LEMMA ListsShape ==
  ASSUME NEW h, NEW L, ListsOf(h, L), NEW p \in Node
  PROVE  /\ L[p] \in Seq(Node) /\ Len(L[p]) \in Nat /\ DOMAIN L[p] = 1..Len(L[p])
         /\ \A i \in 1..Len(L[p]) : L[p][i] \in Node /\ L[p][i] # Null
         /\ \A i, j \in 1..Len(L[p]) : L[p][i] = L[p][j] => i = j
<1>1. L[p] \in Seq(Node) /\ \A i, j \in 1..Len(L[p]) : L[p][i] = L[p][j] => i = j
  BY DEF ListsOf, Chain
<1> QED
  BY <1>1, NullAssumption

LEMMA ListEmpty ==
  ASSUME NEW h, NEW L, ListsOf(h, L), NEW p \in Node, h.firstChild[p] = Null
  PROVE  L[p] = <<>>
<1>1. Chain(h.next, h.firstChild[p], L[p])
  BY DEF ListsOf
<1>2. L[p] \in Seq(Node) /\ \A i \in 1..Len(L[p]) : L[p][i] # Null
  BY ListsShape
<1>3. L[p] # <<>> => 1 \in 1..Len(L[p])
  BY <1>2
<1> QED
  BY <1>1, <1>2, <1>3 DEF Chain

(* The list of p holds the nodes among the children of p. *)
LEMMA ListsMeet ==
  ASSUME NEW h, NEW rank, NEW pos, Formed(h, rank, pos), NEW L, ListsOf(h, L), NEW p \in Node
  PROVE  {L[p][i] : i \in 1..Len(L[p])} = {c \in Node : Linked(h, c) /\ h.parent[c] = p}
<1> DEFINE s == L[p]
           M == {s[i] : i \in 1..Len(s)}
           Missing == {c \in Node : Linked(h, c) /\ h.parent[c] = p /\ c \notin M}
           T == {pos[c] : c \in Missing}
<1>1. /\ s \in Seq(Node) /\ Len(s) \in Nat
      /\ \A i \in 1..Len(s) : s[i] \in Node /\ s[i] # Null
  BY ListsShape
<1>2. Chain(h.next, h.firstChild[p], s)
  BY DEF ListsOf
<1> HIDE DEF s
<1>3. /\ h.firstChild[p] = IF s = <<>> THEN Null ELSE s[1]
      /\ \A i \in 1..Len(s) : h.next[s[i]] = IF i = Len(s) THEN Null ELSE s[i + 1]
  BY <1>2 DEF Chain
<1>4. \A i \in 1..Len(s) : h.parent[s[i]] = p
  BY <1>2, SameParent
<1>5. \A i \in 1..Len(s) : h.prev[s[i]] = IF i = 1 THEN Null ELSE s[i - 1]
  BY <1>2, PreviousOf
<1>6. ASSUME NEW i \in 1..Len(s) PROVE Linked(h, s[i])
  <2>1. CASE i = 1
    <3>1. h.firstChild[p] = s[1]
      BY <1>1, <1>3, <2>1
    <3> QED
      BY <1>4, <2>1, <3>1, NullAssumption DEF Linked
  <2>2. CASE i # 1
    <3>1. i - 1 \in 1..Len(s)
      BY <1>1, <2>2
    <3> QED
      BY <1>1, <1>4, <1>5, <2>2, <3>1, NullAssumption DEF Linked
  <2> QED
    BY <2>1, <2>2
<1>7. ASSUME Missing # {} PROVE FALSE
  <2>1. T \in SUBSET Nat /\ T # {}
    BY <1>7 DEF Formed, Placed
  <2>2. PICK k \in T : \A l \in T : k <= l
    <3> HIDE DEF T
    <3> QED
      BY <2>1, LeastNatural
  <2>3. PICK c \in Missing : pos[c] = k
    BY <2>2
  <2>4. c \in Node /\ Linked(h, c) /\ h.parent[c] = p /\ c \notin M /\ c # Null /\ p # Null
    BY NullAssumption
  <2>5. CASE h.prev[c] = Null
    <3>1. h.firstChild[p] = c
      BY <2>4, <2>5 DEF Linked
    <3>2. s # <<>> /\ s[1] = c
      BY <1>3, <2>4, <3>1
    <3>3. 1 \in 1..Len(s)
      BY <1>1, <3>2
    <3> QED
      BY <2>4, <3>2, <3>3
  <2>6. CASE h.prev[c] # Null
    <3> DEFINE b == h.prev[c]
    <3>1. /\ b \in Node /\ h.next[b] = c /\ h.parent[b] = p /\ Linked(h, b)
          /\ pos[b] < pos[c]
      BY <2>4, <2>6, Siblings
    <3> HIDE DEF b
    <3>2. CASE b \in M
      <4>1. PICK i \in 1..Len(s) : b = s[i]
        BY <3>2
      <4>2. i # Len(s) /\ s[i + 1] = c
        BY <1>3, <2>4, <3>1, <4>1
      <4>3. i + 1 \in 1..Len(s)
        BY <1>1, <4>2
      <4> QED
        BY <2>4, <4>2, <4>3
    <3>3. CASE b \notin M
      <4>1. pos[b] \in T /\ pos[b] \in Nat /\ k \in Nat
        BY <2>1, <2>2, <3>1, <3>3
      <4>2. k <= pos[b] /\ pos[b] < k
        BY <2>2, <2>3, <3>1, <4>1, Zenon
      <4> QED
        BY <4>1, <4>2
    <3> QED
      BY <3>2, <3>3
  <2> QED
    BY <2>5, <2>6
<1>8. ASSUME NEW c \in Node, Linked(h, c), h.parent[c] = p PROVE c \in M
  BY <1>7, <1>8
<1>9. ASSUME NEW c \in M PROVE c \in Node /\ Linked(h, c) /\ h.parent[c] = p
  BY <1>1, <1>4, <1>6
<1> HIDE DEF M
<1>10. M = {c \in Node : Linked(h, c) /\ h.parent[c] = p}
  BY <1>8, <1>9
<1> QED
  BY <1>10 DEF M, s

-----------------------------------------------------------------------------
(* What is below a node, by the lists.                                     *)
Holds(L, n, S) == n \in S /\ \A p \in S : {L[p][i] : i \in 1..Len(L[p])} \subseteq S
Below(L, n) == {m \in Node : \A S \in SUBSET Node : Holds(L, n, S) => m \in S}

LEMMA BelowHolds ==
  ASSUME NEW h, NEW L, ListsOf(h, L), NEW n \in Node
  PROVE  Holds(L, n, Below(L, n)) /\ Below(L, n) \subseteq Node
<1>1. \A p \in Node : {L[p][i] : i \in 1..Len(L[p])} \subseteq Node
  BY ListsShape
<1>2. n \in Below(L, n) /\ Below(L, n) \subseteq Node
  BY DEF Below, Holds
<1>3. ASSUME NEW p \in Below(L, n), NEW c \in {L[p][i] : i \in 1..Len(L[p])}
      PROVE  c \in Below(L, n)
  <2>1. c \in Node /\ p \in Node
    BY <1>1, <1>2
  <2>2. \A S \in SUBSET Node : Holds(L, n, S) => p \in S
    BY DEF Below
  <2>3. \A S \in SUBSET Node : Holds(L, n, S) => c \in S
    BY <2>2 DEF Holds
  <2> QED
    BY <2>1, <2>3 DEF Below
<1> QED
  BY <1>2, <1>3 DEF Holds

LEMMA BelowLeast ==
  ASSUME NEW L, NEW n, NEW S \in SUBSET Node, Holds(L, n, S)
  PROVE  Below(L, n) \subseteq S
  BY DEF Below

(* It is what the destructor reaches. *)
LEMMA BelowIsSubtree ==
  ASSUME NEW h, NEW rank, NEW pos, Formed(h, rank, pos), NEW L, ListsOf(h, L), NEW n \in Node
  PROVE  Below(L, n) = Subtree(h, n)
<1> DEFINE D == Subtree(h, n)
           B == Below(L, n)
<1>1. n \in D /\ D \subseteq Node
  BY SubtreeClosed DEF Formed
<1>2. n \in B /\ B \subseteq Node /\ \A p \in B : {L[p][i] : i \in 1..Len(L[p])} \subseteq B
  BY BelowHolds DEF Holds
<1>3. \A p \in Node : {L[p][i] : i \in 1..Len(L[p])} = {c \in Node : Linked(h, c) /\ h.parent[c] = p}
  BY ListsMeet
<1>4. B \subseteq D
  <2>1. ASSUME NEW p \in D, NEW c \in Node, Linked(h, c), h.parent[c] = p PROVE c \in D
    BY <2>1, SubtreeDown
  <2> HIDE DEF D
  <2>2. Holds(L, n, D)
    BY <1>1, <1>3, <2>1 DEF Holds
  <2> QED
    BY <1>1, <2>2, BelowLeast
<1>5. D \subseteq B
  <2> DEFINE Missing == D \ B
             T == {rank[m] : m \in Missing}
  <2> SUFFICES ASSUME Missing # {} PROVE FALSE
    OBVIOUS
  <2>1. T \in SUBSET Nat /\ T # {}
    BY <1>1 DEF Formed, Ranked
  <2>2. PICK k \in T : \A l \in T : k <= l
    <3> HIDE DEF T
    <3> QED
      BY <2>1, LeastNatural
  <2>3. PICK m \in Missing : rank[m] = k
    BY <2>2
  <2>4. m \in D /\ m \in Node /\ m \notin B /\ m # n
    BY <1>1, <1>2
  <2>5. Linked(h, m) /\ h.parent[m] \in D
    BY <2>4, SubtreeUp
  <2>6. h.parent[m] \in Node /\ rank[h.parent[m]] < rank[m] /\ rank \in [Node -> Nat]
    BY <1>1, <2>4, <2>5, NullAssumption DEF Formed, Ranked
  <2>7. h.parent[m] \in B
    <3> SUFFICES ASSUME h.parent[m] \notin B PROVE FALSE
      OBVIOUS
    <3>1. h.parent[m] \in Missing
      BY <2>5
    <3>2. rank[h.parent[m]] \in T
      BY <3>1
    <3>3. k <= rank[h.parent[m]] /\ rank[h.parent[m]] < k
      BY <2>2, <2>3, <2>6, <3>2, Zenon
    <3>4. k \in Nat /\ rank[h.parent[m]] \in Nat
      BY <2>1, <2>2, <2>6
    <3> QED
      BY <3>3, <3>4
  <2> HIDE DEF D, B
  <2> QED
    BY <1>2, <1>3, <2>4, <2>5, <2>7
<1> QED
  BY <1>4, <1>5

LEMMA NothingBelow ==
  ASSUME NEW h, NEW rank, NEW pos, Formed(h, rank, pos), NEW L, ListsOf(h, L), NEW n \in Node,
         L[n] = <<>>
  PROVE  Subtree(h, n) = {n}
<1>1. Subtree(h, n) = Below(L, n) /\ n \in Subtree(h, n)
  BY BelowIsSubtree, SubtreeClosed DEF Formed
<1>2. Holds(L, n, {n})
  BY DEF Holds
<1>3. Below(L, n) \subseteq {n}
  BY <1>2, BelowLeast
<1> QED
  BY <1>1, <1>3

(* It depends on the lists below the node only. *)
LEMMA BelowSame ==
  ASSUME NEW h, NEW L, ListsOf(h, L), NEW k, NEW M, ListsOf(k, M), NEW n \in Node,
         \A p \in Below(L, n) : M[p] = L[p]
  PROVE  Below(M, n) = Below(L, n)
<1>1. Holds(L, n, Below(L, n)) /\ Below(L, n) \subseteq Node
  BY BelowHolds
<1>2. Holds(M, n, Below(M, n)) /\ Below(M, n) \subseteq Node
  BY BelowHolds
<1>3. Holds(M, n, Below(L, n))
  BY <1>1 DEF Holds
<1>4. Below(M, n) \subseteq Below(L, n)
  BY <1>1, <1>3, BelowLeast
<1>5. Holds(L, n, Below(M, n))
  BY <1>2, <1>4 DEF Holds
<1> QED
  BY <1>2, <1>4, <1>5, BelowLeast

-----------------------------------------------------------------------------
(* The lists after deleting, unlinking, linking and making a node.         *)
LEMMA ListsPruned ==
  ASSUME NEW h, NEW rank, NEW pos, Formed(h, rank, pos), NEW L, ListsOf(h, L),
         NEW D \in SUBSET Node, Apart(h, D)
  PROVE  ListsOf(Pruned(h, D), [x \in Node |-> IF x \in D \/ h.firstChild[x] \in D THEN <<>> ELSE L[x]])
<1> DEFINE k == Pruned(h, D)
           M == [x \in Node |-> IF x \in D \/ h.firstChild[x] \in D THEN <<>> ELSE L[x]]
<1>1. /\ k.next = Without(h.next, D) /\ k.firstChild = Without(h.firstChild, D)
  BY DEF Pruned
<1>2. \A x \in Node \ D : h.next[x] \notin D
  BY DEF Apart
<1> HIDE DEF k
<1>3. ASSUME NEW x \in Node, x \in D \/ h.firstChild[x] \in D
      PROVE  Chain(k.next, k.firstChild[x], <<>>)
  BY <1>1, <1>3 DEF Chain, Without
<1>4. ASSUME NEW x \in Node, x \notin D, h.firstChild[x] \notin D
      PROVE  Chain(k.next, k.firstChild[x], L[x])
  <2> DEFINE s == L[x]
             T == {i \in 1..Len(s) : s[i] \in D}
  <2>1. Chain(h.next, h.firstChild[x], s)
    BY DEF ListsOf
  <2>2. s \in Seq(Node) /\ Len(s) \in Nat /\ \A i \in 1..Len(s) : s[i] \in Node
    BY ListsShape
  <2> HIDE DEF s
  <2>3. ASSUME T # {} PROVE FALSE
    <3>1. T \in SUBSET Nat
      BY <2>2
    <3>2. PICK m \in T : \A i \in T : m <= i
      <4> HIDE DEF T
      <4> QED
        BY <2>3, <3>1, LeastNatural
    <3>3. m \in 1..Len(s) /\ s[m] \in D
      OBVIOUS
    <3>4. m # 1
      <4>1. s # <<>> => h.firstChild[x] = s[1]
        BY <2>1 DEF Chain
      <4>2. s # <<>>
        BY <2>2, <3>3
      <4> QED
        BY <1>4, <3>3, <4>1, <4>2
    <3>5. m - 1 \in 1..Len(s) /\ m - 1 # Len(s) /\ (m - 1) + 1 = m /\ ~(m <= m - 1)
      BY <2>2, <3>3, <3>4
    <3>6. s[m - 1] \in D
      BY <1>2, <2>1, <2>2, <3>3, <3>5 DEF Chain
    <3> QED
      BY <3>2, <3>5, <3>6
  <2>4. \A i \in 1..Len(s) : s[i] \in Node \ D
    BY <2>2, <2>3
  <2>5. k.firstChild[x] = h.firstChild[x]
    BY <1>1, <1>4 DEF Without
  <2>6. \A i \in 1..Len(s) : k.next[s[i]] = h.next[s[i]]
    BY <1>1, <1>2, <2>4 DEF Without
  <2>7. Chain(k.next, k.firstChild[x], s)
    BY <2>1, <2>5, <2>6 DEF Chain
  <2> QED
    BY <2>7 DEF s
<1>5. ListsOf(k, M)
  BY <1>3, <1>4 DEF ListsOf
<1> QED
  BY <1>5 DEF k

LEMMA Joined ==
  ASSUME NEW a \in Seq(Node), NEW b \in Seq(Node)
  PROVE  /\ a \o b \in Seq(Node) /\ Len(a \o b) = Len(a) + Len(b)
         /\ \A j \in 1..Len(a) + Len(b) : (a \o b)[j] = IF j <= Len(a) THEN a[j] ELSE b[j - Len(a)]
  OBVIOUS

LEMMA Parts ==
  ASSUME NEW s \in Seq(Node), NEW i \in 1..Len(s) + 1, NEW m \in i - 1..Len(s)
  PROVE  /\ SubSeq(s, i, m) \in Seq(Node) /\ Len(SubSeq(s, i, m)) = (m - i) + 1
         /\ \A j \in 1..(m - i) + 1 : SubSeq(s, i, m)[j] = s[(j + i) - 1]
  OBVIOUS

LEMMA RemoveAtIs ==
  ASSUME NEW s \in Seq(Node), NEW i \in 1..Len(s)
  PROVE  /\ RemoveAt(s, i) \in Seq(Node) /\ Len(RemoveAt(s, i)) = Len(s) - 1
         /\ \A j \in 1..Len(s) - 1 : RemoveAt(s, i)[j] = IF j < i THEN s[j] ELSE s[j + 1]
<1> DEFINE a == SubSeq(s, 1, i - 1)
           b == SubSeq(s, i + 1, Len(s))
<1>1. Len(s) \in Nat /\ i \in Nat /\ 1 <= i /\ i <= Len(s)
  OBVIOUS
<1>2. /\ a \in Seq(Node) /\ Len(a) = i - 1
      /\ \A j \in 1..i - 1 : a[j] = s[j]
  <2>1. 1 \in 1..Len(s) + 1 /\ i - 1 \in 1 - 1..Len(s) /\ ((i - 1) - 1) + 1 = i - 1
    BY <1>1
  <2>2. \A j \in 1..i - 1 : (j + 1) - 1 = j
    OBVIOUS
  <2>3. /\ a \in Seq(Node) /\ Len(a) = ((i - 1) - 1) + 1
        /\ \A j \in 1..((i - 1) - 1) + 1 : a[j] = s[(j + 1) - 1]
    BY <2>1, Parts
  <2> HIDE DEF a
  <2> QED
    BY <2>1, <2>2, <2>3, Zenon
<1>3. /\ b \in Seq(Node) /\ Len(b) = Len(s) - i
      /\ \A j \in 1..Len(s) - i : b[j] = s[j + i]
  <2>1. /\ i + 1 \in 1..Len(s) + 1 /\ Len(s) \in (i + 1) - 1..Len(s)
        /\ (Len(s) - (i + 1)) + 1 = Len(s) - i
    BY ONLY <1>1
  <2>2. \A j \in 1..Len(s) - i : (j + (i + 1)) - 1 = j + i
    <3> TAKE j \in 1..Len(s) - i
    <3>1. j \in Int
      OBVIOUS
    <3>2. i \in Nat
      BY <1>1, Zenon
    <3> QED
      BY ONLY <3>1, <3>2
  <2>3. /\ b \in Seq(Node) /\ Len(b) = (Len(s) - (i + 1)) + 1
        /\ \A j \in 1..(Len(s) - (i + 1)) + 1 : b[j] = s[(j + (i + 1)) - 1]
    BY <2>1, Parts
  <2> QED
    BY <2>1, <2>2, <2>3, Zenon
<1> HIDE DEF a, b
<1>4. /\ a \o b \in Seq(Node) /\ Len(a \o b) = Len(a) + Len(b)
      /\ \A j \in 1..Len(a) + Len(b) : (a \o b)[j] = IF j <= Len(a) THEN a[j] ELSE b[j - Len(a)]
  BY <1>2, <1>3, Joined
<1>5. RemoveAt(s, i) = a \o b
  BY DEF RemoveAt, a, b
<1>6. Len(a) + Len(b) = Len(s) - 1
  BY <1>1, <1>2, <1>3
<1>7. ASSUME NEW j \in 1..Len(s) - 1 PROVE (a \o b)[j] = IF j < i THEN s[j] ELSE s[j + 1]
  <2>1. (a \o b)[j] = IF j <= i - 1 THEN a[j] ELSE b[j - (i - 1)]
    BY <1>2, <1>4, <1>6, Zenon
  <2>2. CASE j < i
    <3>1. j <= i - 1 /\ j \in 1..i - 1
      BY <1>1, <2>2
    <3> QED
      BY <1>2, <2>1, <2>2, <3>1, Zenon
  <2>3. CASE ~(j < i)
    <3>1. ~(j <= i - 1) /\ j - (i - 1) \in 1..Len(s) - i /\ (j - (i - 1)) + i = j + 1
      BY <1>1, <2>3
    <3> QED
      BY <1>3, <2>1, <2>3, <3>1, Zenon
  <2> QED
    BY <2>2, <2>3
<1> QED
  BY <1>4, <1>5, <1>6, <1>7, Zenon

(* The sequence t is s with n put in the i-th place. *)
Inserts(t, s, i, n) ==
  /\ t \in Seq(Node) /\ Len(t) = Len(s) + 1
  /\ \A j \in 1..Len(s) + 1 : t[j] = IF j < i THEN s[j] ELSE IF j = i THEN n ELSE s[j - 1]

LEMMA InsertAtIs ==
  ASSUME NEW s \in Seq(Node), NEW i \in 1..Len(s) + 1, NEW n \in Node
  PROVE  Inserts(InsertAt(s, i, n), s, i, n)
<1> DEFINE a == SubSeq(s, 1, i - 1)
           b == SubSeq(s, i, Len(s))
           c == a \o <<n>>
<1>1. Len(s) \in Nat /\ i \in Nat /\ 1 <= i /\ i <= Len(s) + 1
  OBVIOUS
<1>2. /\ a \in Seq(Node) /\ Len(a) = i - 1
      /\ \A j \in 1..i - 1 : a[j] = s[j]
  <2>1. 1 \in 1..Len(s) + 1 /\ i - 1 \in 1 - 1..Len(s) /\ ((i - 1) - 1) + 1 = i - 1
    BY <1>1
  <2>2. \A j \in 1..i - 1 : (j + 1) - 1 = j
    OBVIOUS
  <2>3. /\ a \in Seq(Node) /\ Len(a) = ((i - 1) - 1) + 1
        /\ \A j \in 1..((i - 1) - 1) + 1 : a[j] = s[(j + 1) - 1]
    BY <2>1, Parts
  <2> HIDE DEF a
  <2> QED
    BY <2>1, <2>2, <2>3, Zenon
<1>3. /\ b \in Seq(Node) /\ Len(b) = (Len(s) - i) + 1
      /\ \A j \in 1..(Len(s) - i) + 1 : b[j] = s[(j + i) - 1]
  <2>1. Len(s) \in i - 1..Len(s)
    BY <1>1
  <2> QED
    BY <2>1, Parts
<1> HIDE DEF a, b
<1>4. /\ c \in Seq(Node) /\ Len(c) = i /\ c[i] = n
      /\ \A j \in 1..i - 1 : c[j] = s[j]
  <2>1. <<n>> \in Seq(Node) /\ Len(<<n>>) = 1 /\ <<n>>[1] = n
    OBVIOUS
  <2>2. /\ c \in Seq(Node) /\ Len(c) = Len(a) + 1
        /\ \A j \in 1..Len(a) + 1 : c[j] = IF j <= Len(a) THEN a[j] ELSE <<n>>[j - Len(a)]
    BY <1>2, <2>1, Joined
  <2>3. Len(a) + 1 = i /\ i \in 1..Len(a) + 1 /\ ~(i <= Len(a)) /\ i - Len(a) = 1
    BY <1>1, <1>2
  <2>4. c[i] = n
    BY <2>1, <2>2, <2>3, Zenon
  <2>5. \A j \in 1..i - 1 : j \in 1..Len(a) + 1 /\ j <= Len(a)
    BY <1>1, <1>2
  <2>6. \A j \in 1..i - 1 : c[j] = s[j]
    BY <1>2, <2>2, <2>5, Zenon
  <2> QED
    BY <2>2, <2>3, <2>4, <2>6
<1> HIDE DEF c
<1>5. /\ c \o b \in Seq(Node) /\ Len(c \o b) = Len(c) + Len(b)
      /\ \A j \in 1..Len(c) + Len(b) : (c \o b)[j] = IF j <= Len(c) THEN c[j] ELSE b[j - Len(c)]
  BY <1>3, <1>4, Joined
<1>6. InsertAt(s, i, n) = c \o b
  BY DEF InsertAt, a, b, c
<1>7. Len(c) + Len(b) = Len(s) + 1
  BY <1>1, <1>3, <1>4
<1>8. ASSUME NEW j \in 1..Len(s) + 1
      PROVE  (c \o b)[j] = IF j < i THEN s[j] ELSE IF j = i THEN n ELSE s[j - 1]
  <2>1. (c \o b)[j] = IF j <= i THEN c[j] ELSE b[j - i]
    BY <1>4, <1>5, <1>7, Zenon
  <2>2. CASE j < i
    <3>1. j <= i /\ j \in 1..i - 1
      BY <1>1, <2>2
    <3> QED
      BY <1>4, <2>1, <2>2, <3>1, Zenon
  <2>3. CASE j = i
    <3>1. j <= i /\ ~(j < i)
      BY <1>1, <2>3
    <3> QED
      BY <1>4, <2>1, <2>3, <3>1, Zenon
  <2>4. CASE ~(j < i) /\ j # i
    <3>1. ~(j <= i) /\ j - i \in 1..(Len(s) - i) + 1 /\ ((j - i) + i) - 1 = j - 1
      BY <1>1, <2>4
    <3> QED
      BY <1>3, <2>1, <2>4, <3>1, Zenon
  <2> QED
    BY <2>2, <2>3, <2>4
<1> QED
  BY <1>5, <1>6, <1>7, <1>8, Zenon DEF Inserts

LEMMA AnotherOne ==
  ASSUME NEW n \in Nat, 1 <= n, n # 1
  PROVE  1 \in 1..n - 1
  OBVIOUS

(* r leaves the list of its parent. *)
LEMMA ListsDetached ==
  ASSUME NEW h, NEW rank, NEW pos, Formed(h, rank, pos), NEW L, ListsOf(h, L),
         NEW p \in Node, NEW i \in 1..Len(L[p])
  PROVE  ListsOf(Detached(h, L[p][i]), [L EXCEPT ![p] = RemoveAt(L[p], i)])
<1> DEFINE r == L[p][i]
           a == h.prev[r]
           b == h.next[r]
           k == Detached(h, r)
           s == L[p]
           t == RemoveAt(s, i)
           M == [L EXCEPT ![p] = t]
<1>1. /\ s \in Seq(Node) /\ Len(s) \in Nat /\ r = s[i]
      /\ \A j \in 1..Len(s) : s[j] \in Node /\ s[j] # Null
      /\ \A j, l \in 1..Len(s) : s[j] = s[l] => j = l
  BY ListsShape
<1>2. r \in Node /\ Linked(h, r) /\ h.parent[r] = p
  <2>1. r \in {L[p][j] : j \in 1..Len(L[p])}
    OBVIOUS
  <2> HIDE DEF r
  <2> QED
    BY <2>1, ListsMeet
<1>3. Chain(h.next, h.firstChild[p], s)
  BY DEF ListsOf
<1>4. h.prev[s[i]] = IF i = 1 THEN Null ELSE s[i - 1]
  BY <1>3, PreviousOf
<1>5. /\ t \in Seq(Node) /\ Len(t) = Len(s) - 1
      /\ \A j \in 1..Len(s) - 1 : t[j] = IF j < i THEN s[j] ELSE s[j + 1]
  BY <1>1, RemoveAtIs
<1>6. /\ k.next = [x \in Node |-> IF x = r THEN Null ELSE IF x = a THEN b ELSE h.next[x]]
      /\ k.firstChild = [x \in Node |-> IF h.firstChild[x] = r THEN b ELSE h.firstChild[x]]
  BY DEF Detached
<1>7. /\ a # r /\ b # r
      /\ a # Null => a \in Node /\ h.parent[a] = p
      /\ \A x \in Node : h.firstChild[x] = r => x = p /\ a = Null
  BY <1>2, Neighbours DEF Pointer
<1> HIDE DEF k, s, t, r, a, b
<1>8. Chain(k.next, k.firstChild[p], t)
  <2>1. /\ h.firstChild[p] = IF s = <<>> THEN Null ELSE s[1]
        /\ \A j \in 1..Len(s) : h.next[s[j]] = IF j = Len(s) THEN Null ELSE s[j + 1]
    BY <1>3 DEF Chain
  <2>2. /\ i \in 1..Len(s) /\ r = s[i] /\ b = IF i = Len(s) THEN Null ELSE s[i + 1]
        /\ a = IF i = 1 THEN Null ELSE s[i - 1]
    BY <1>1, <1>4, <2>1 DEF b, a, s
  <2>3. k.firstChild[p] = IF t = <<>> THEN Null ELSE t[1]
    <3>1. s # <<>> /\ h.firstChild[p] = s[1] /\ 1 \in 1..Len(s)
      BY <1>1, <2>1, <2>2
    <3>2. t = <<>> <=> Len(s) = 1
      BY <1>1, <1>5, <2>2
    <3>3. CASE i = 1
      <4>1. k.firstChild[p] = b
        BY <1>6, <2>2, <3>1, <3>3
      <4>2. Len(s) # 1 => t[1] = s[2] /\ 1 + 1 = 2
        <5> SUFFICES ASSUME Len(s) # 1 PROVE t[1] = s[2]
          OBVIOUS
        <5>1. Len(s) \in Nat /\ 1 <= Len(s) /\ Len(s) # 1
          BY <1>1, <3>1
        <5>2. 1 \in 1..Len(s) - 1
          BY <5>1, AnotherOne, Zenon
        <5>3. ~(1 < i) /\ 1 + 1 = 2
          BY <3>3
        <5> QED
          BY <1>5, <5>2, <5>3
      <4> QED
        BY <2>2, <3>2, <3>3, <4>1, <4>2
    <3>4. CASE i # 1
      <4>1. s[1] # r
        BY <1>1, <2>2, <3>1, <3>4
      <4>2. k.firstChild[p] = s[1]
        BY <1>6, <3>1, <4>1
      <4>3. Len(s) # 1 /\ 1 \in 1..Len(s) - 1 /\ 1 < i
        BY <1>1, <2>2, <3>4
      <4>4. t[1] = s[1]
        BY <1>5, <4>3
      <4> QED
        BY <3>2, <4>2, <4>3, <4>4
    <3> QED
      BY <3>3, <3>4
  <2>4. ASSUME NEW j \in 1..Len(t)
        PROVE  k.next[t[j]] = IF j = Len(t) THEN Null ELSE t[j + 1]
    <3>1. j \in 1..Len(s) - 1 /\ j \in 1..Len(s) /\ j + 1 \in 1..Len(s) /\ j # Len(s)
      BY <1>1, <1>5
    <3>2. CASE j < i - 1
      <4>1. /\ j < i /\ j + 1 < i /\ j # i /\ j + 1 # i /\ j + 1 \in 1..Len(s) - 1 /\ j # Len(t)
            /\ i # 1 /\ i - 1 \in 1..Len(s) /\ j # i - 1
        BY <1>1, <1>5, <2>2, <3>1, <3>2
      <4>2. t[j] = s[j] /\ t[j + 1] = s[j + 1] /\ s[j] # r /\ s[j] # a /\ s[j] \in Node
        BY <1>1, <1>5, <2>2, <3>1, <4>1
      <4> QED
        BY <1>6, <2>1, <3>1, <4>1, <4>2
    <3>3. CASE j = i - 1
      <4>1. /\ j < i /\ j # i /\ i # 1 /\ (j = Len(t) <=> i = Len(s))
        BY <1>1, <1>5, <2>2, <3>1, <3>3
      <4>2. t[j] = a /\ a \in Node /\ a # r
        BY <1>1, <1>5, <2>2, <3>1, <3>3, <4>1
      <4>3. k.next[t[j]] = b
        BY <1>6, <4>2
      <4>4. j # Len(t) => t[j + 1] = s[i + 1]
        <5> SUFFICES ASSUME j # Len(t) PROVE t[j + 1] = s[i + 1]
          OBVIOUS
        <5>1. j + 1 \in 1..Len(s) - 1 /\ ~(j + 1 < i) /\ (j + 1) + 1 = i + 1
          BY <1>1, <1>5, <2>2, <3>1, <3>3
        <5> QED
          BY <1>5, <5>1
      <4> QED
        BY <2>2, <4>1, <4>3, <4>4
    <3>4. CASE j > i - 1
      <4>1. /\ ~(j < i) /\ j + 1 # i /\ (j = Len(t) <=> j + 1 = Len(s))
            /\ i # 1 => i - 1 \in 1..Len(s) /\ j + 1 # i - 1
        BY <1>1, <1>5, <2>2, <3>1, <3>4
      <4>2. t[j] = s[j + 1] /\ s[j + 1] # r /\ s[j + 1] # a /\ s[j + 1] \in Node
        BY <1>1, <1>5, <2>2, <3>1, <4>1
      <4>3. j # Len(t) => t[j + 1] = s[(j + 1) + 1]
        <5> SUFFICES ASSUME j # Len(t) PROVE t[j + 1] = s[(j + 1) + 1]
          OBVIOUS
        <5>1. j + 1 \in 1..Len(s) - 1 /\ ~(j + 1 < i)
          BY <1>1, <1>5, <2>2, <3>1, <3>4
        <5> QED
          BY <1>5, <5>1
      <4> QED
        BY <1>6, <2>1, <3>1, <4>1, <4>2, <4>3
    <3> QED
      BY <2>2, <3>1, <3>2, <3>3, <3>4
  <2>5. ASSUME NEW j \in 1..Len(t), NEW l \in 1..Len(t), t[j] = t[l] PROVE j = l
    <3> DEFINE at(x) == IF x < i THEN x ELSE x + 1
    <3>1. at(j) \in 1..Len(s) /\ at(l) \in 1..Len(s) /\ (at(j) = at(l) => j = l)
      BY <1>1, <1>5, <2>2
    <3>2. t[j] = s[at(j)] /\ t[l] = s[at(l)]
      BY <1>5
    <3> HIDE DEF at
    <3>3. s[at(j)] = s[at(l)]
      BY <2>5, <3>2, Zenon
    <3>4. at(j) = at(l)
      BY <1>1, <3>1, <3>3, Zenon
    <3> QED
      BY <3>1, <3>4, Zenon
  <2> QED
    BY <1>5, <2>3, <2>4, <2>5 DEF Chain
<1>9. ASSUME NEW q \in Node, q # p PROVE Chain(k.next, k.firstChild[q], L[q])
  <2> DEFINE u == L[q]
  <2>1. Chain(h.next, h.firstChild[q], u)
    BY DEF ListsOf
  <2>2. \A j \in 1..Len(u) : u[j] \in Node /\ h.parent[u[j]] = q
    BY <2>1, ListsShape, SameParent
  <2> HIDE DEF u
  <2>3. \A j \in 1..Len(u) : u[j] # r /\ u[j] # a
    BY <1>2, <1>7, <1>9, <2>2, NullAssumption
  <2>4. \A j \in 1..Len(u) : k.next[u[j]] = h.next[u[j]]
    BY <1>6, <2>2, <2>3
  <2>5. k.firstChild[q] = h.firstChild[q]
    BY <1>6, <1>7, <1>9
  <2>6. Chain(k.next, k.firstChild[q], u)
    BY <2>1, <2>4, <2>5 DEF Chain
  <2> QED
    BY <2>6 DEF u
<1>10. DOMAIN L = Node /\ DOMAIN M = Node /\ M = [x \in Node |-> M[x]]
       /\ M[p] = t /\ \A q \in Node : q # p => M[q] = L[q]
  BY DEF ListsOf
<1> HIDE DEF M
<1>11. ListsOf(k, M)
  BY <1>8, <1>9, <1>10 DEF ListsOf
<1> QED
  BY <1>11 DEF k, M, t, s, r

(* The neighbours of the place i in a list. *)
Left(s, i) == IF i = 1 THEN Null ELSE s[i - 1]
Right(s, i) == IF i = Len(s) + 1 THEN Null ELSE s[i]

(* n enters the list of p. *)
LEMMA ListsSpliced ==
  ASSUME NEW h, NEW rank, NEW pos, Formed(h, rank, pos), NEW L, ListsOf(h, L),
         NEW p \in Node, NEW n \in Node, ~Linked(h, n), NEW i \in 1..Len(L[p]) + 1
  PROVE  ListsOf(Spliced(h, p, Left(L[p], i), Right(L[p], i), n), [L EXCEPT ![p] = InsertAt(L[p], i, n)])
<1> DEFINE s == L[p]
           a == Left(s, i)
           b == Right(s, i)
           k == Spliced(h, p, a, b, n)
           t == InsertAt(s, i, n)
           M == [L EXCEPT ![p] = t]
<1>1. /\ s \in Seq(Node) /\ Len(s) \in Nat
      /\ \A j \in 1..Len(s) : s[j] \in Node /\ s[j] # Null
      /\ \A j, l \in 1..Len(s) : s[j] = s[l] => j = l
  BY ListsShape
<1>2. ASSUME NEW q \in Node
      PROVE  \A j \in 1..Len(L[q]) : L[q][j] \in Node /\ L[q][j] # n /\ h.parent[L[q][j]] = q
  <2>1. {L[q][j] : j \in 1..Len(L[q])} = {c \in Node : Linked(h, c) /\ h.parent[c] = q}
    BY ListsMeet
  <2> QED
    BY <2>1
<1>3. Chain(h.next, h.firstChild[p], s)
  BY DEF ListsOf
<1>4. /\ t \in Seq(Node) /\ Len(t) = Len(s) + 1
      /\ \A j \in 1..Len(s) + 1 : t[j] = IF j < i THEN s[j] ELSE IF j = i THEN n ELSE s[j - 1]
  <2>1. i \in 1..Len(s) + 1
    OBVIOUS
  <2> HIDE DEF s
  <2>2. Inserts(t, s, i, n)
    BY <1>1, <2>1, InsertAtIs
  <2> QED
    BY <2>2, Zenon DEF Inserts
<1>5. /\ k.next = [x \in Node |-> IF x = n THEN b ELSE IF x = a THEN n ELSE h.next[x]]
      /\ k.firstChild = [x \in Node |-> IF x = p /\ a = Null THEN n ELSE h.firstChild[x]]
  BY DEF Spliced
<1>6. /\ a = IF i = 1 THEN Null ELSE s[i - 1]
      /\ b = IF i = Len(s) + 1 THEN Null ELSE s[i]
      /\ i \in 1..Len(s) + 1
      /\ i # 1 => i - 1 \in 1..Len(s)
  <2>1. i # 1 => i - 1 \in 1..Len(s)
    BY <1>1
  <2> QED
    BY <2>1 DEF Left, Right
<1>7. \A j \in 1..Len(s) : s[j] # n
  BY <1>2
<1>8. a # Null => a \in Node /\ a # n /\ h.parent[a] = p
  <2> SUFFICES ASSUME a # Null PROVE a \in Node /\ a # n /\ h.parent[a] = p
    OBVIOUS
  <2>1. a = s[i - 1] /\ i - 1 \in 1..Len(s)
    BY <1>6
  <2> QED
    BY <1>2, <2>1
<1> HIDE DEF k, s, t, a, b
<1>9. Chain(k.next, k.firstChild[p], t)
  <2>1. /\ h.firstChild[p] = IF s = <<>> THEN Null ELSE s[1]
        /\ \A j \in 1..Len(s) : h.next[s[j]] = IF j = Len(s) THEN Null ELSE s[j + 1]
    BY <1>3 DEF Chain
  <2>2. k.firstChild[p] = IF t = <<>> THEN Null ELSE t[1]
    <3>1. t # <<>> /\ 1 \in 1..Len(s) + 1
      BY <1>1, <1>4
    <3>2. CASE i = 1
      <4>1. t[1] = n
        BY <1>4, <3>1, <3>2
      <4> QED
        BY <1>5, <1>6, <3>1, <3>2, <4>1
    <3>3. CASE i # 1
      <4>1. i - 1 \in 1..Len(s) /\ a # Null
        BY <1>1, <1>6, <3>3
      <4>2. s # <<>> /\ 1 < i
        BY <1>1, <4>1
      <4> QED
        BY <1>4, <1>5, <2>1, <3>1, <4>1, <4>2
    <3> QED
      BY <3>2, <3>3
  <2>3. ASSUME NEW j \in 1..Len(t)
        PROVE  k.next[t[j]] = IF j = Len(t) THEN Null ELSE t[j + 1]
    <3>1. j \in 1..Len(s) + 1 /\ (j # Len(t) => j + 1 \in 1..Len(s) + 1)
      BY <1>1, <1>4
    <3>2. CASE j < i - 1
      <4>1. /\ j < i /\ j + 1 < i /\ j # Len(t) /\ j \in 1..Len(s) /\ j # Len(s)
            /\ i # 1 /\ i - 1 \in 1..Len(s) /\ j # i - 1
        BY <1>1, <1>4, <1>6, <3>1, <3>2
      <4>2. t[j] = s[j] /\ t[j + 1] = s[j + 1] /\ s[j] # n /\ s[j] # a /\ s[j] \in Node
        BY <1>1, <1>4, <1>6, <1>7, <3>1, <4>1
      <4>3. k.next[t[j]] = h.next[s[j]]
        BY <1>5, <4>2
      <4>4. h.next[s[j]] = s[j + 1]
        BY <2>1, <4>1
      <4> QED
        BY <4>1, <4>2, <4>3, <4>4
    <3>3. CASE j = i - 1
      <4>1. /\ j < i /\ j + 1 = i /\ ~(j + 1 < i) /\ i # 1 /\ j # Len(t) /\ j \in 1..Len(s)
        BY <1>1, <1>4, <1>6, <3>1, <3>3
      <4>2. t[j] = a /\ t[j + 1] = n /\ a \in Node /\ a # n
        BY <1>1, <1>4, <1>6, <1>7, <3>1, <3>3, <4>1
      <4> QED
        BY <1>5, <4>1, <4>2
    <3>4. CASE j = i
      <4>1. t[j] = n /\ k.next[n] = b
        BY <1>4, <1>5, <3>4
      <4>2. i # Len(t) => t[i + 1] = s[i]
        <5> SUFFICES ASSUME i # Len(t) PROVE t[i + 1] = s[i]
          OBVIOUS
        <5>1. i + 1 \in 1..Len(s) + 1 /\ ~(i + 1 < i) /\ i + 1 # i /\ (i + 1) - 1 = i
          BY <1>1, <1>4, <1>6
        <5> QED
          BY <1>4, <5>1
      <4> QED
        BY <1>4, <1>6, <3>4, <4>1, <4>2
    <3>5. CASE j > i
      <4>1. /\ ~(j < i) /\ j # i /\ j - 1 \in 1..Len(s) /\ (j - 1 = Len(s) <=> j = Len(t))
            /\ i # 1 => i - 1 \in 1..Len(s) /\ j - 1 # i - 1
        BY <1>1, <1>4, <1>6, <3>1, <3>5
      <4>2. t[j] = s[j - 1] /\ s[j - 1] # n /\ s[j - 1] # a /\ s[j - 1] \in Node
        BY <1>1, <1>4, <1>6, <1>7, <3>1, <4>1
      <4>3. j # Len(t) => t[j + 1] = s[(j - 1) + 1]
        <5> SUFFICES ASSUME j # Len(t) PROVE t[j + 1] = s[(j - 1) + 1]
          OBVIOUS
        <5>1. ~(j + 1 < i) /\ j + 1 # i /\ (j + 1) - 1 = (j - 1) + 1
          BY <1>6, <3>1, <3>5
        <5> QED
          BY <1>4, <3>1, <5>1
      <4>4. k.next[t[j]] = h.next[s[j - 1]]
        BY <1>5, <4>2
      <4>5. h.next[s[j - 1]] = IF j - 1 = Len(s) THEN Null ELSE s[(j - 1) + 1]
        BY <2>1, <4>1
      <4> QED
        BY <4>1, <4>3, <4>4, <4>5
    <3> QED
      BY <1>1, <1>6, <3>1, <3>2, <3>3, <3>4, <3>5
  <2>4. ASSUME NEW j \in 1..Len(t), NEW l \in 1..Len(t), t[j] = t[l] PROVE j = l
    <3>1. ASSUME NEW x \in 1..Len(t), x # i
          PROVE  \E y \in 1..Len(s) : t[x] = s[y] /\ y = IF x < i THEN x ELSE x - 1
      <4> DEFINE y == IF x < i THEN x ELSE x - 1
      <4>1. y \in 1..Len(s) /\ x \in 1..Len(s) + 1
        BY <1>1, <1>4, <1>6, <3>1
      <4>2. t[x] = s[y]
        BY <1>4, <3>1, <4>1
      <4> QED
        BY <4>1, <4>2
    <3>2. t[i] = n
      BY <1>4, <1>6
    <3>3. CASE j = i \/ l = i
      BY <1>7, <2>4, <3>1, <3>2, <3>3
    <3>4. CASE j # i /\ l # i
      <4>1. PICK y \in 1..Len(s) : t[j] = s[y] /\ y = IF j < i THEN j ELSE j - 1
        BY <3>1, <3>4
      <4>2. PICK z \in 1..Len(s) : t[l] = s[z] /\ z = IF l < i THEN l ELSE l - 1
        BY <3>1, <3>4
      <4>3. y = z
        BY <1>1, <2>4, <4>1, <4>2
      <4>4. Len(t) \in Nat /\ i \in Nat
        BY <1>1, <1>4, <1>6
      <4> QED
        BY <3>4, <4>1, <4>2, <4>3, <4>4
    <3> QED
      BY <3>3, <3>4
  <2> QED
    BY <1>4, <2>2, <2>3, <2>4 DEF Chain
<1>10. ASSUME NEW q \in Node, q # p PROVE Chain(k.next, k.firstChild[q], L[q])
  <2> DEFINE u == L[q]
  <2>1. Chain(h.next, h.firstChild[q], u)
    BY DEF ListsOf
  <2>2. \A j \in 1..Len(u) : u[j] \in Node /\ u[j] # n /\ h.parent[u[j]] = q
    BY <1>2
  <2> HIDE DEF u
  <2>3. \A j \in 1..Len(u) : u[j] # a
    BY <1>8, <1>10, <2>2, NullAssumption
  <2>4. \A j \in 1..Len(u) : k.next[u[j]] = h.next[u[j]]
    BY <1>5, <2>2, <2>3
  <2>5. k.firstChild[q] = h.firstChild[q]
    BY <1>5, <1>10
  <2>6. Chain(k.next, k.firstChild[q], u)
    BY <2>1, <2>4, <2>5 DEF Chain
  <2> QED
    BY <2>6 DEF u
<1>11. DOMAIN L = Node /\ DOMAIN M = Node /\ M = [x \in Node |-> M[x]]
       /\ M[p] = t /\ \A q \in Node : q # p => M[q] = L[q]
  BY DEF ListsOf
<1> HIDE DEF M
<1>12. ListsOf(k, M)
  BY <1>9, <1>10, <1>11 DEF ListsOf
<1> QED
  BY <1>12 DEF k, M, t, s, a, b

(* Two neighbours in the list of p, or an end of it, are a place there.     *)
LEMMA BetweenIs ==
  ASSUME NEW h, NEW rank, NEW pos, Formed(h, rank, pos), NEW L, ListsOf(h, L),
         NEW p \in Node, NEW a, NEW b, Between(h, p, a, b)
  PROVE  \E i \in 1..Len(L[p]) + 1 :
           a = Left(L[p], i) /\ b = Right(L[p], i) /\ (b = Null <=> i = Len(L[p]) + 1)
<1> DEFINE s == L[p]
<1>1. /\ s \in Seq(Node) /\ Len(s) \in Nat
      /\ \A j \in 1..Len(s) : s[j] \in Node /\ s[j] # Null
  BY ListsShape
<1>2. Chain(h.next, h.firstChild[p], s)
  BY DEF ListsOf
<1>3. {s[j] : j \in 1..Len(s)} = {c \in Node : Linked(h, c) /\ h.parent[c] = p}
  BY ListsMeet
<1> HIDE DEF s
<1>4. /\ h.firstChild[p] = IF s = <<>> THEN Null ELSE s[1]
      /\ \A j \in 1..Len(s) : h.next[s[j]] = IF j = Len(s) THEN Null ELSE s[j + 1]
  BY <1>2 DEF Chain
<1>5. CASE a = Null
  <2>1. h.firstChild[p] = b
    BY <1>5 DEF Between
  <2>2. CASE s = <<>>
    <3>1. Len(s) + 1 = 1 /\ 1 \in 1..Len(s) + 1
      BY <1>1, <2>2
    <3>2. b = Null
      BY <1>4, <2>1, <2>2
    <3>3. a = Left(s, 1) /\ b = Right(s, 1)
      BY <1>5, <3>1, <3>2 DEF Left, Right
    <3> QED
      BY <3>1, <3>2, <3>3 DEF s
  <2>3. CASE s # <<>>
    <3>1. Len(s) + 1 # 1 /\ 1 \in 1..Len(s) + 1 /\ 1 \in 1..Len(s)
      BY <1>1, <2>3
    <3>2. b = s[1] /\ b # Null
      BY <1>1, <1>4, <2>1, <2>3, <3>1
    <3>3. a = Left(s, 1) /\ b = Right(s, 1)
      BY <1>5, <3>1, <3>2 DEF Left, Right
    <3> QED
      BY <3>1, <3>2, <3>3 DEF s
  <2> QED
    BY <2>2, <2>3
<1>6. CASE a # Null
  <2>1. a \in Node /\ h.parent[a] = p /\ Linked(h, a) /\ h.next[a] = b
    BY <1>6 DEF Between
  <2>2. PICK j \in 1..Len(s) : a = s[j]
    BY <1>3, <2>1
  <2>3. j + 1 \in 1..Len(s) + 1 /\ (j + 1) - 1 = j /\ j + 1 # 1 /\ (j + 1 = Len(s) + 1 <=> j = Len(s))
    BY <1>1
  <2>4. b = IF j = Len(s) THEN Null ELSE s[j + 1]
    BY <1>4, <2>1, <2>2
  <2>5. b = Null <=> j = Len(s)
    <3>1. j # Len(s) => j + 1 \in 1..Len(s)
      BY <1>1
    <3> QED
      BY <1>1, <2>4, <3>1
  <2>6. a = Left(s, j + 1) /\ b = Right(s, j + 1)
    BY <2>2, <2>3, <2>4 DEF Left, Right
  <2>7. b = Null <=> j + 1 = Len(s) + 1
    BY <2>3, <2>5
  <2> QED
    BY <2>3, <2>6, <2>7 DEF s
<1> QED
  BY <1>5, <1>6

LEMMA AppendIs ==
  ASSUME NEW s \in Seq(Node), NEW n \in Node
  PROVE  Append(s, n) = InsertAt(s, Len(s) + 1, n)
<1> DEFINE t == InsertAt(s, Len(s) + 1, n)
           u == Append(s, n)
<1>1. Len(s) \in Nat /\ Len(s) + 1 \in 1..Len(s) + 1
  OBVIOUS
<1>2. /\ t \in Seq(Node) /\ Len(t) = Len(s) + 1
      /\ \A j \in 1..Len(s) + 1 : t[j] = IF j < Len(s) + 1 THEN s[j]
                                         ELSE IF j = Len(s) + 1 THEN n ELSE s[j - 1]
  <2>1. Inserts(t, s, Len(s) + 1, n)
    BY <1>1, InsertAtIs
  <2> QED
    BY <2>1, Zenon DEF Inserts
<1>3. /\ u \in Seq(Node) /\ Len(u) = Len(s) + 1
      /\ \A j \in 1..Len(s) + 1 : u[j] = IF j < Len(s) + 1 THEN s[j] ELSE n
  OBVIOUS
<1> HIDE DEF t, u
<1>4. ASSUME NEW j \in 1..Len(s) + 1 PROVE u[j] = t[j]
  <2>1. j < Len(s) + 1 \/ j = Len(s) + 1
    BY <1>1
  <2> QED
    BY <1>2, <1>3, <2>1
<1>5. u = [j \in 1..Len(s) + 1 |-> u[j]] /\ t = [j \in 1..Len(s) + 1 |-> t[j]]
  BY <1>2, <1>3
<1>6. u = t
  BY <1>4, <1>5, Zenon
<1> QED
  BY <1>6 DEF t, u

LEMMA ReplaceAtIs ==
  ASSUME NEW s \in Seq(Node), NEW i \in 1..Len(s), NEW n \in Node
  PROVE  /\ ReplaceAt(s, i, n) = InsertAt(RemoveAt(s, i), i, n)
         /\ RemoveAt(s, i) \in Seq(Node) /\ i \in 1..Len(RemoveAt(s, i)) + 1
         /\ Left(RemoveAt(s, i), i) = Left(s, i)
         /\ Right(RemoveAt(s, i), i) = IF i = Len(s) THEN Null ELSE s[i + 1]
<1> DEFINE r == RemoveAt(s, i)
           t == InsertAt(r, i, n)
           u == ReplaceAt(s, i, n)
<1>1. Len(s) \in Nat /\ i \in 1..Len(s)
  OBVIOUS
<1>2. /\ r \in Seq(Node) /\ Len(r) = Len(s) - 1
      /\ \A j \in 1..Len(s) - 1 : r[j] = IF j < i THEN s[j] ELSE s[j + 1]
  BY RemoveAtIs
<1> HIDE DEF r
<1>3. Len(r) + 1 = Len(s) /\ i \in 1..Len(r) + 1
  BY <1>1, <1>2
<1>4. /\ t \in Seq(Node) /\ Len(t) = Len(r) + 1
      /\ \A j \in 1..Len(r) + 1 : t[j] = IF j < i THEN r[j] ELSE IF j = i THEN n ELSE r[j - 1]
  <2>1. Inserts(t, r, i, n)
    BY <1>2, <1>3, InsertAtIs
  <2> QED
    BY <2>1, Zenon DEF Inserts
<1>5. u = [j \in 1..Len(s) |-> IF j = i THEN n ELSE s[j]]
  BY DEF ReplaceAt
<1> HIDE DEF t, u
<1>6. ASSUME NEW j \in 1..Len(s) PROVE t[j] = IF j = i THEN n ELSE s[j]
  <2>1. j \in 1..Len(r) + 1
    BY <1>3
  <2>2. t[j] = IF j < i THEN r[j] ELSE IF j = i THEN n ELSE r[j - 1]
    BY <1>4, <2>1
  <2>3. CASE j < i
    <3>1. j \in 1..Len(s) - 1 /\ j # i
      BY <1>1, <2>3
    <3> QED
      BY <1>2, <2>2, <2>3, <3>1
  <2>4. CASE j = i
    <3>1. ~(j < i)
      BY <1>1, <2>4
    <3> QED
      BY <2>2, <2>4, <3>1
  <2>5. CASE ~(j < i) /\ j # i
    <3>1. j - 1 \in 1..Len(s) - 1 /\ ~(j - 1 < i) /\ (j - 1) + 1 = j
      BY <1>1, <2>5
    <3> QED
      BY <1>2, <2>2, <2>5, <3>1
  <2> QED
    BY <2>3, <2>4, <2>5
<1>7. t = [j \in 1..Len(s) |-> t[j]]
  BY <1>3, <1>4
<1>8. u = t
  BY <1>5, <1>6, <1>7, Zenon
<1>9. Left(r, i) = Left(s, i)
  <2>1. i # 1 => i - 1 \in 1..Len(s) - 1 /\ i - 1 < i
    BY <1>1
  <2> QED
    BY <1>2, <2>1 DEF Left
<1>10. Right(r, i) = IF i = Len(s) THEN Null ELSE s[i + 1]
  <2>1. i # Len(s) => i \in 1..Len(s) - 1 /\ ~(i < i)
    BY <1>1
  <2> QED
    BY <1>2, <1>3, <2>1 DEF Right
<1> QED
  BY <1>2, <1>3, <1>8, <1>9, <1>10 DEF r, t, u

(* n takes the place of r. *)
LEMMA ListsReplaced ==
  ASSUME NEW h, NEW rank, NEW pos, Formed(h, rank, pos), NEW L, ListsOf(h, L),
         NEW p \in Node, NEW n \in Node, ~Linked(h, n), NEW i \in 1..Len(L[p])
  PROVE  ListsOf(Replaced(h, p, L[p][i], n), [L EXCEPT ![p] = ReplaceAt(L[p], i, n)])
<1> DEFINE s == L[p]
           r == s[i]
           k == Detached(h, r)
           t == RemoveAt(s, i)
           M == [L EXCEPT ![p] = t]
<1>1. s \in Seq(Node) /\ \A j \in 1..Len(s) : s[j] \in Node
  BY ListsShape
<1>2. r \in Node /\ Linked(h, r) /\ r # n
  <2>1. r \in {L[p][j] : j \in 1..Len(L[p])}
    OBVIOUS
  <2> HIDE DEF r
  <2> QED
    BY <2>1, ListsMeet
<1>3. ListsOf(k, M)
  BY ListsDetached
<1>4. Formed(k, rank, pos) /\ ~Linked(k, n)
  <2> HIDE DEF r
  <2> QED
    BY <1>2, DetachedFormed
<1>5. Chain(h.next, h.firstChild[p], s)
  BY DEF ListsOf
<1>6. h.prev[r] = Left(s, i)
  BY <1>5, PreviousOf DEF Left
<1>7. h.next[r] = IF i = Len(s) THEN Null ELSE s[i + 1]
  BY <1>5 DEF Chain
<1>8. /\ ReplaceAt(s, i, n) = InsertAt(t, i, n)
      /\ t \in Seq(Node) /\ i \in 1..Len(t) + 1
      /\ Left(t, i) = Left(s, i)
      /\ Right(t, i) = IF i = Len(s) THEN Null ELSE s[i + 1]
  <2>1. i \in 1..Len(s)
    OBVIOUS
  <2> HIDE DEF s
  <2> QED
    BY <1>1, <2>1, ReplaceAtIs
<1>9. M[p] = t /\ \A v : [M EXCEPT ![p] = v] = [L EXCEPT ![p] = v]
  <2>1. L = [x \in Node |-> L[x]]
    BY DEF ListsOf
  <2> HIDE DEF t
  <2> QED
    BY <2>1
<1>10. Replaced(h, p, r, n) = Spliced(k, p, Left(t, i), Right(t, i), n)
  BY <1>6, <1>7, <1>8 DEF Replaced
<1> HIDE DEF k, t, M, r, s
<1>11. ListsOf(Spliced(k, p, Left(M[p], i), Right(M[p], i), n), [M EXCEPT ![p] = InsertAt(M[p], i, n)])
  <2>1. i \in 1..Len(M[p]) + 1
    BY <1>8, <1>9
  <2> QED
    BY <1>3, <1>4, <2>1, ListsSpliced
<1>12. ListsOf(Spliced(k, p, Left(t, i), Right(t, i), n), [L EXCEPT ![p] = InsertAt(t, i, n)])
  BY <1>9, <1>11
<1> QED
  BY <1>8, <1>10, <1>12 DEF r, s

(* A new node has no children, and is no child. *)
LEMMA ListsNew ==
  ASSUME NEW h, NEW rank, NEW pos, Formed(h, rank, pos), NEW L, ListsOf(h, L),
         NEW n \in Unused(h), NEW t, NEW p
  PROVE  ListsOf(New(h, n, t, p), L) /\ L[n] = <<>>
<1> DEFINE k == New(h, n, t, p)
<1>1. /\ n \in Node /\ h.next[n] = Null /\ h.firstChild[n] = Null
  BY UnusedUnknown
<1>2. k.next = h.next /\ k.firstChild = h.firstChild
  BY <1>1 DEF New, Formed, Fields
<1>3. L[n] = <<>>
  BY <1>1, ListEmpty
<1> HIDE DEF k
<1> QED
  BY <1>2, <1>3 DEF ListsOf, k

(* The copy of a list. *)
Mapped(f, u) == [i \in 1..Len(u) |-> f[u[i]]]

LEMMA ChainMapped ==
  ASSUME NEW next, NEW start, NEW u, Chain(next, start, u),
         NEW D, NEW f \in [D -> Node], \A y, z \in D : f[y] = f[z] => y = z,
         \A i \in 1..Len(u) : u[i] \in D,
         NEW copied, \A y \in D : copied[f[y]] = IF next[y] = Null THEN Null ELSE f[next[y]],
         NEW first, first = IF start = Null THEN Null ELSE f[start]
  PROVE  Chain(copied, first, Mapped(f, u))
<1> DEFINE v == Mapped(f, u)
<1>1. /\ u \in Seq(Node) /\ Len(u) \in Nat
      /\ start = IF u = <<>> THEN Null ELSE u[1]
      /\ \A i \in 1..Len(u) : next[u[i]] = IF i = Len(u) THEN Null ELSE u[i + 1]
      /\ \A i, j \in 1..Len(u) : u[i] = u[j] => i = j
      /\ \A i \in 1..Len(u) : u[i] # Null
  BY NullAssumption DEF Chain
<1>2. v \in Seq(Node) /\ Len(v) = Len(u) /\ \A i \in 1..Len(u) : v[i] = f[u[i]]
  <2>1. v = [i \in 1..Len(u) |-> f[u[i]]] /\ \A i \in 1..Len(u) : f[u[i]] \in Node
    BY DEF Mapped
  <2> QED
    BY <1>1, <2>1
<1> HIDE DEF v
<1>3. first = IF v = <<>> THEN Null ELSE v[1]
  <2>1. CASE u = <<>>
    <3>1. v = <<>>
      BY <1>2, <2>1
    <3> QED
      BY <1>1, <2>1, <3>1
  <2>2. CASE u # <<>>
    <3>1. v # <<>> /\ 1 \in 1..Len(u)
      BY <1>1, <1>2, <2>2
    <3> QED
      BY <1>1, <1>2, <2>2, <3>1
  <2> QED
    BY <2>1, <2>2
<1>4. ASSUME NEW i \in 1..Len(u) PROVE copied[v[i]] = IF i = Len(u) THEN Null ELSE v[i + 1]
  <2>1. i # Len(u) => i + 1 \in 1..Len(u)
    BY <1>1
  <2>2. copied[f[u[i]]] = IF next[u[i]] = Null THEN Null ELSE f[next[u[i]]]
    OBVIOUS
  <2> QED
    BY <1>1, <1>2, <2>1, <2>2
<1>5. \A i, j \in 1..Len(u) : v[i] = v[j] => i = j
  BY <1>1, <1>2
<1>6. Chain(copied, first, v)
  BY <1>2, <1>3, <1>4, <1>5 DEF Chain
<1> QED
  BY <1>6 DEF v

(* M holds the lists L with those below s copied: f says where, n for s. *)
CopiedLists(L, M, D, s, n, f) ==
  /\ DOMAIN M = Node /\ M = [x \in Node |-> M[x]]
  /\ M[n] = Mapped(f, L[s])
  /\ \A y \in D : M[f[y]] = Mapped(f, L[y])
  /\ \A x \in Node \ ({f[y] : y \in D} \cup {n}) : M[x] = L[x]

LEMMA ListsCopied ==
  ASSUME NEW h, NEW rank, NEW pos, Formed(h, rank, pos), NEW L, ListsOf(h, L),
         NEW s \in Node, NEW D, D = Subtree(h, s) \ {s}, NEW n \in Live(h),
         NEW f \in [D -> Unused(h)], IsInjective(f),
         NEW k, k = CopyTo(h, s, n, f), NEW M, CopiedLists(L, M, D, s, n, f)
  PROVE  ListsOf(k, M)
<1> DEFINE R == {f[y] : y \in D}
<1>1. Copies(h, k, D, s, n, f)
  BY CopyFields
<1>2. /\ D \subseteq Node /\ f \in [D -> Node] /\ \A y, z \in D : f[y] = f[z] => y = z
      /\ n \in Node
  BY SubtreeClosed DEF Formed, Unused, IsInjective, Live
<1>3. ASSUME NEW y \in D \cup {s} PROVE \A i \in 1..Len(L[y]) : L[y][i] \in D
  <2>1. y \in Subtree(h, s) /\ y \in Node
    BY <1>2, <1>3, SubtreeClosed DEF Formed
  <2>2. {L[y][i] : i \in 1..Len(L[y])} = {c \in Node : Linked(h, c) /\ h.parent[c] = y}
    BY <2>1, ListsMeet
  <2>3. \A c \in Node : Linked(h, c) /\ h.parent[c] = y => c \in D
    BY <2>1, SubtreeDown
  <2> QED
    BY <2>2, <2>3
<1>4. \A y \in D : k.next[f[y]] = IF h.next[y] = Null THEN Null ELSE f[h.next[y]]
  BY <1>1 DEF Copies
<1>5. ASSUME NEW y \in D PROVE Chain(k.next, k.firstChild[f[y]], M[f[y]])
  <2>1. Chain(h.next, h.firstChild[y], L[y])
    BY <1>2 DEF ListsOf
  <2>2. k.firstChild[f[y]] = IF h.firstChild[y] = Null THEN Null ELSE f[h.firstChild[y]]
    BY <1>1 DEF Copies
  <2>3. Chain(k.next, k.firstChild[f[y]], Mapped(f, L[y]))
    BY <1>2, <1>3, <1>4, <2>1, <2>2, ChainMapped
  <2> QED
    BY <2>3 DEF CopiedLists
<1>6. Chain(k.next, k.firstChild[n], M[n])
  <2>1. Chain(h.next, h.firstChild[s], L[s])
    BY DEF ListsOf
  <2>2. k.firstChild[n] = IF h.firstChild[s] = Null THEN Null ELSE f[h.firstChild[s]]
    BY <1>1 DEF Copies
  <2>3. Chain(k.next, k.firstChild[n], Mapped(f, L[s]))
    BY <1>2, <1>3, <1>4, <2>1, <2>2, ChainMapped
  <2> QED
    BY <2>3 DEF CopiedLists
<1>7. ASSUME NEW x \in Node, x \notin R, x # n PROVE Chain(k.next, k.firstChild[x], M[x])
  <2> DEFINE u == L[x]
  <2>1. Chain(h.next, h.firstChild[x], u)
    BY DEF ListsOf
  <2>2. M[x] = u
    BY <1>7 DEF CopiedLists
  <2>3. k.firstChild[x] = h.firstChild[x]
    BY <1>1, <1>7 DEF Copies
  <2>4. \A i \in 1..Len(u) : u[i] \in Node \ R
    <3>1. {L[x][i] : i \in 1..Len(L[x])} = {c \in Node : Linked(h, c) /\ h.parent[c] = x}
      BY ListsMeet
    <3>2. \A c \in R : ~Linked(h, c)
      BY UnusedUnknown
    <3> QED
      BY <3>1, <3>2
  <2> HIDE DEF u, R
  <2>5. \A z \in Node \ R : k.next[z] = h.next[z]
    BY <1>1 DEF Copies, R
  <2>6. \A i \in 1..Len(u) : k.next[u[i]] = h.next[u[i]]
    BY <2>4, <2>5
  <2> QED
    BY <2>1, <2>2, <2>3, <2>6 DEF Chain
<1>8. ASSUME NEW x \in Node PROVE Chain(k.next, k.firstChild[x], M[x])
  BY <1>5, <1>6, <1>7
<1> QED
  BY <1>8 DEF ListsOf, CopiedLists

-----------------------------------------------------------------------------
(* What the ordered trees of XmlForest are here.                           *)
Lists == [p \in Node |-> Kids(p)]

LEMMA ListsHere ==
  ASSUME NEW L, ListsOf(dom, L)
  PROVE  Lists = L
  BY ListsAre DEF Lists, Kids

(* The operators of XmlForest in terms of the pointers. *)
ForestRead(L) ==
  /\ \A n \in Node : Forest!Tree(n) = Subtree(dom, n)
  /\ \A p \in Node : Forest!Children(p) = Children(p)
  /\ Forest!Listed = {c \in Node : Linked(dom, c)}
  /\ \A p \in Node : \A i \in 1..Len(L[p]) : Forest!At(p, L[p][i]) = i

LEMMA ForestIsRead ==
  ASSUME NEW rank, NEW pos, Formed(dom, rank, pos), NEW L, ListsOf(dom, L)
  PROVE  ForestRead(L)
<1>1. [p \in Node |-> Kids(p)] = L
  BY ListsHere DEF Lists
<1>2. \A p \in Node : /\ Len(L[p]) \in Nat /\ DOMAIN L[p] = 1..Len(L[p])
                      /\ \A i, j \in 1..Len(L[p]) : L[p][i] = L[p][j] => i = j
  BY ListsShape
<1>3. \A p \in Node : {L[p][i] : i \in 1..Len(L[p])} = {c \in Node : Linked(dom, c) /\ dom.parent[c] = p}
  BY ListsMeet
<1>4. \A p \in Node : Forest!Children(p) = {L[p][i] : i \in 1..Len(L[p])}
  <2> TAKE p \in Node
  <2>1. Forest!Children(p) = {L[p][i] : i \in DOMAIN L[p]}
    BY <1>1 DEF Forest!Children
  <2> QED
    BY <1>2, <2>1
<1>5. \A p \in Node : Forest!Children(p) = Children(p)
  BY <1>3, <1>4 DEF Children
<1>6. Forest!Listed = {c \in Node : Linked(dom, c)}
  <2>1. \A c \in Node : Linked(dom, c) => dom.parent[c] \in Node
    BY DEF Linked, Formed, Fields, Pointer
  <2> QED
    BY <1>3, <1>4, <2>1 DEF Forest!Listed
<1>7. ASSUME NEW n \in Node PROVE Forest!Tree(n) = Subtree(dom, n)
  <2> DEFINE pairs == {<<p, Forest!Children(p)>> : p \in Node}
             closed == {S \in SUBSET Node : n \in S /\ \A e \in pairs : e[1] \in S => e[2] \subseteq S}
  <2>1. Forest!Tree(n) = {m \in Node : \A S \in closed : m \in S}
    BY DEF Forest!Tree
  <2>2. ASSUME NEW S \in SUBSET Node PROVE S \in closed <=> Holds(L, n, S)
    <3>1. (\A e \in pairs : e[1] \in S => e[2] \subseteq S)
            <=> \A p \in Node : p \in S => Forest!Children(p) \subseteq S
      <4>1. ASSUME NEW p \in Node
            PROVE  /\ <<p, Forest!Children(p)>> \in pairs
                   /\ <<p, Forest!Children(p)>>[1] = p
                   /\ <<p, Forest!Children(p)>>[2] = Forest!Children(p)
        OBVIOUS
      <4>2. \A e \in pairs : \E p \in Node : e = <<p, Forest!Children(p)>>
        OBVIOUS
      <4> HIDE DEF pairs
      <4>3. ASSUME \A e \in pairs : e[1] \in S => e[2] \subseteq S, NEW p \in Node, p \in S
            PROVE  Forest!Children(p) \subseteq S
        <5> DEFINE e == <<p, Forest!Children(p)>>
        <5>1. e \in pairs /\ e[1] = p /\ e[2] = Forest!Children(p)
          BY <4>1
        <5> HIDE DEF e
        <5>2. e[1] \in S => e[2] \subseteq S
          BY <4>3, <5>1, Zenon
        <5> QED
          BY <4>3, <5>1, <5>2
      <4>4. ASSUME \A p \in Node : p \in S => Forest!Children(p) \subseteq S,
                   NEW e \in pairs, e[1] \in S
            PROVE  e[2] \subseteq S
        <5>1. PICK p \in Node : e = <<p, Forest!Children(p)>>
          BY <4>2
        <5>2. e[1] = p /\ e[2] = Forest!Children(p)
          BY <5>1
        <5> QED
          BY <4>4, <5>2, Zenon
      <4> QED
        BY <4>3, <4>4, Zenon
    <3> HIDE DEF pairs
    <3>2. S \in closed <=> n \in S /\ \A p \in Node : p \in S => Forest!Children(p) \subseteq S
      BY <3>1
    <3> HIDE DEF closed
    <3> QED
      BY <1>4, <3>2 DEF Holds
  <2>3. closed \subseteq SUBSET Node
    OBVIOUS
  <2> HIDE DEF closed
  <2>4. Forest!Tree(n) = Below(L, n)
    BY <2>1, <2>2, <2>3 DEF Below
  <2> QED
    BY <2>4, BelowIsSubtree
<1>8. ASSUME NEW p \in Node, NEW i \in 1..Len(L[p]) PROVE Forest!At(p, L[p][i]) = i
  <2>1. Forest!At(p, L[p][i]) = CHOOSE j \in DOMAIN L[p] : L[p][j] = L[p][i]
    BY <1>1 DEF Forest!At
  <2>2. \A j \in DOMAIN L[p] : L[p][j] = L[p][i] <=> j = i
    BY <1>2
  <2>3. i \in DOMAIN L[p]
    BY <1>2
  <2> QED
    BY <2>1, <2>2, <2>3
<1> QED
  BY <1>5, <1>6, <1>7, <1>8 DEF ForestRead

LEMMA SubtreeTransitive ==
  ASSUME NEW h, NEW rank, NEW pos, Formed(h, rank, pos), NEW q \in Node, NEW x \in Subtree(h, q)
  PROVE  Subtree(h, x) \subseteq Subtree(h, q)
<1>1. PICK L : ListsOf(h, L)
  BY ListsFound
<1>2. x \in Node /\ Subtree(h, q) \subseteq Node
  BY SubtreeClosed DEF Formed
<1>3. Below(L, q) = Subtree(h, q) /\ Below(L, x) = Subtree(h, x)
  BY <1>1, <1>2, BelowIsSubtree
<1>4. Holds(L, q, Below(L, q))
  BY <1>1, BelowHolds
<1>5. Holds(L, x, Below(L, q))
  BY <1>3, <1>4 DEF Holds
<1>6. Below(L, x) \subseteq Below(L, q)
  <2>1. Below(L, q) \in SUBSET Node
    BY <1>2, <1>3
  <2> QED
    BY <1>5, <2>1, BelowLeast
<1> QED
  BY <1>3, <1>6

(* GetDocument goes up, DocumentsOver looks down. *)
LEMMA DocumentOver ==
  ASSUME NEW h, Sound(h), NEW p \in Node
  PROVE  GetDocument(h, p) = {d \in Node : h.type[d] = "document" /\ p \in Subtree(h, d)}
<1>1. PICK rank, pos : Formed(h, rank, pos)
  BY DEF Sound
<1>2. \A x \in Node : x \in Subtree(h, x) /\ Subtree(h, x) \subseteq Node
  BY <1>1, SubtreeClosed DEF Formed
<1>3. ASSUME NEW d \in Node, p \in Subtree(h, d) PROVE d \in Ancestors(h, p)
  <2> SUFFICES ASSUME NEW S \in SUBSET Node, p \in S, \A x \in S : h.parent[x] \in S \cup {Null}
               PROVE  d \in S
    BY DEF Ancestors
  <2> DEFINE Inside == S \cap Subtree(h, d)
             T == {rank[x] : x \in Inside}
  <2>1. T \in SUBSET Nat /\ T # {}
    BY <1>1, <1>3 DEF Formed, Ranked
  <2>2. PICK m \in T : \A i \in T : m <= i
    <3> HIDE DEF T
    <3> QED
      BY <2>1, LeastNatural
  <2>3. PICK x \in Inside : rank[x] = m
    BY <2>2
  <2>4. CASE x = d
    BY <2>4
  <2>5. CASE x # d
    <3>1. x \in Node /\ Linked(h, x) /\ h.parent[x] \in Subtree(h, d)
      BY <1>1, <2>5, SubtreeUp
    <3>2. h.parent[x] \in Node /\ h.parent[x] \in S
      BY <1>2, <3>1, NullAssumption
    <3>3. rank[h.parent[x]] < rank[x] /\ rank \in [Node -> Nat]
      BY <1>1, <3>1, <3>2, NullAssumption DEF Formed, Ranked
    <3>4. rank[h.parent[x]] \in T
      BY <3>1, <3>2
    <3>5. m <= rank[h.parent[x]] /\ rank[h.parent[x]] < m
      BY <2>2, <2>3, <3>3, <3>4, Zenon
    <3>6. m \in Nat /\ rank[h.parent[x]] \in Nat
      BY <2>1, <2>2, <3>2, <3>3
    <3> QED
      BY <3>5, <3>6
  <2> QED
    BY <2>4, <2>5
<1>4. ASSUME NEW d \in Ancestors(h, p) PROVE d \in Node /\ p \in Subtree(h, d)
  <2> DEFINE S == {x \in Node : p \in Subtree(h, x)}
  <2>1. p \in S /\ S \in SUBSET Node
    BY <1>2
  <2>2. ASSUME NEW x \in S, h.parent[x] # Null PROVE h.parent[x] \in S
    <3>1. x \in Node /\ h.parent[x] \in Node /\ Linked(h, x)
      BY <1>1, <2>2 DEF Formed, Fields, Pointer, Sound, Settled
    <3>2. x \in Subtree(h, h.parent[x])
      BY <1>1, <1>2, <3>1, SubtreeDown
    <3>3. Subtree(h, x) \subseteq Subtree(h, h.parent[x])
      BY <1>1, <3>1, <3>2, SubtreeTransitive
    <3> QED
      BY <3>1, <3>3
  <2> HIDE DEF S
  <2>3. d \in S
    BY <2>1, <2>2 DEF Ancestors
  <2> QED
    BY <2>3 DEF S
<1>5. Ancestors(h, p) = {d \in Node : p \in Subtree(h, d)}
  BY <1>3, <1>4
<1> QED
  BY <1>5 DEF GetDocument

(* Nodes of which neither is inside the other have nothing in common. *)
LEMMA SubtreesApart ==
  ASSUME NEW h, NEW rank, NEW pos, Formed(h, rank, pos), NEW n \in Node, NEW s \in Node,
         n \notin Subtree(h, s), s \notin Subtree(h, n)
  PROVE  Subtree(h, n) \cap Subtree(h, s) = {}
<1> DEFINE Common == Subtree(h, n) \cap Subtree(h, s)
           T == {rank[x] : x \in Common}
<1> SUFFICES ASSUME Common # {} PROVE FALSE
  OBVIOUS
<1>1. Common \subseteq Node
  BY SubtreeClosed DEF Formed
<1>2. T \in SUBSET Nat /\ T # {}
  BY <1>1 DEF Formed, Ranked
<1>3. PICK m \in T : \A i \in T : m <= i
  <2> HIDE DEF T
  <2> QED
    BY <1>2, LeastNatural
<1>4. PICK x \in Common : rank[x] = m
  BY <1>3
<1>5. x # n /\ x # s
  OBVIOUS
<1>6. Linked(h, x) /\ h.parent[x] \in Common
  BY <1>5, SubtreeUp
<1>7. h.parent[x] \in Node /\ rank[h.parent[x]] < rank[x] /\ rank \in [Node -> Nat]
  BY <1>1, <1>6, NullAssumption DEF Formed, Ranked
<1>8. rank[h.parent[x]] \in T
  BY <1>6
<1>9. m <= rank[h.parent[x]] /\ rank[h.parent[x]] < m
  BY <1>3, <1>4, <1>7, <1>8, Zenon
<1>10. m \in Nat /\ rank[h.parent[x]] \in Nat
  BY <1>2, <1>3, <1>7
<1> QED
  BY <1>9, <1>10

-----------------------------------------------------------------------------
(* Each step is a step of the ordered trees.                               *)

LEMMA ListsThere ==
  ASSUME NEW M, ListsOf(dom', M)
  PROVE  Lists' = M
<1>1. [p \in Node |-> Along(dom'.next, dom'.firstChild[p])] = M
  BY ListsAre
<1> QED
  BY <1>1 DEF Lists, Kids

LEMMA CreateMaps ==
  ASSUME TreeInv, NEW n \in Node, NEW t \in Types, Create(n, t) \/ Identify(n, t)
  PROVE  Forest!Create(n, t)
<1>1. PICK rank, pos : Formed(dom, rank, pos)
  BY DEF TreeInv
<1>2. PICK p : n \in Unused(dom) /\ dom' = New(dom, n, t, p) /\ UNCHANGED error
  BY DEF Create, Identify, Calls
<1>3. PICK L : ListsOf(dom, L)
  BY <1>1, ListsFound
<1>4. ListsOf(dom', L)
  BY <1>1, <1>2, <1>3, ListsNew
<1>5. Lists = L /\ Lists' = L
  BY <1>3, <1>4, ListsHere, ListsThere
<1>6. dom'.type = [dom.type EXCEPT ![n] = t] /\ dom.type[n] = "free" /\ n \in Node
  BY <1>1, <1>2, UnusedUnknown DEF New, Unused, Live
<1> QED
  BY <1>2, <1>5, <1>6 DEF Forest!Create, Forest!Free, Lists

LEMMA PrunedLists ==
  ASSUME NEW h, NEW rank, NEW pos, Formed(h, rank, pos), NEW L, ListsOf(h, L),
         NEW D \in SUBSET Node, Apart(h, D), dom' = Pruned(h, D)
  PROVE  /\ Lists' = [x \in Node |-> IF x \in D \/ h.firstChild[x] \in D THEN <<>> ELSE L[x]]
         /\ dom'.type = [x \in Node |-> IF x \in D THEN "free" ELSE h.type[x]]
<1> DEFINE M == [x \in Node |-> IF x \in D \/ h.firstChild[x] \in D THEN <<>> ELSE L[x]]
<1>1. ListsOf(Pruned(h, D), M)
  BY ListsPruned
<1>2. dom'.type = [x \in Node |-> IF x \in D THEN "free" ELSE h.type[x]]
  BY DEF Pruned
<1> HIDE DEF M
<1>3. Lists' = M
  BY <1>1, ListsThere
<1> QED
  BY <1>2, <1>3 DEF M

LEMMA Resting ==
  ASSUME TreeInv, parsing = <<>>
  PROVE  Sound(dom)
<1>1. Len(parsing) < 2
  OBVIOUS
<1> QED
  BY <1>1, Idle

LEMMA DestroyMaps ==
  ASSUME TreeInv, NEW n \in Node, Destroy(n)
  PROVE  Forest!Delete(n)
<1> DEFINE D == Subtree(dom, n)
<1>1. /\ parsing = <<>> /\ Root(n) /\ dom' = Delete(dom, D)
      /\ error' = [x \in Node |-> IF x \in D THEN Null ELSE error[x]]
  BY DEF Destroy, Calls
<1>2. Sound(dom)
  BY <1>1, Idle
<1>3. PICK rank, pos : Formed(dom, rank, pos)
  BY DEF TreeInv
<1>4. PICK L : ListsOf(dom, L)
  BY <1>3, ListsFound
<1>5. dom.parent[n] = Null /\ dom.type[n] # "free" /\ ~Linked(dom, n)
  BY <1>1 DEF Root, Live, Linked
<1>6. /\ D \in SUBSET Node /\ Apart(dom, D) /\ Delete(dom, D) = Pruned(dom, D)
      /\ \A x \in Node \ D : dom.firstChild[x] \notin D
  BY <1>2, <1>3, <1>5, RootApart DEF Sound
<1>7. ForestRead(L) /\ Lists = L
  BY <1>3, <1>4, ForestIsRead, ListsHere
<1>8. Forest!Tree(n) = D
  BY <1>7 DEF ForestRead
<1>9. Forest!Unlisted(n)
  BY <1>5, <1>7 DEF ForestRead, Forest!Unlisted
<1> HIDE DEF D
<1>10. /\ Lists' = [x \in Node |-> IF x \in D \/ dom.firstChild[x] \in D THEN <<>> ELSE L[x]]
       /\ dom'.type = [x \in Node |-> IF x \in D THEN "free" ELSE dom.type[x]]
  BY <1>1, <1>3, <1>4, <1>6, PrunedLists
<1>11. Lists' = [x \in Node |-> IF x \in D THEN <<>> ELSE L[x]]
  BY <1>6, <1>10
<1> QED
  BY <1>1, <1>7, <1>8, <1>9, <1>10, <1>11
     DEF Forest!Delete, Forest!KindWithout, Forest!KidsWithout, Forest!ErrorsWithout, Lists

(* A node that is cleared has no children, and those it had are gone. *)
LEMMA ClearedLists ==
  ASSUME NEW h, Sound(h), NEW L, ListsOf(h, L), NEW p \in Node
  PROVE  /\ ListsOf(Cleared(h, p), [x \in Node |-> IF x \in Subtree(h, p) THEN <<>> ELSE L[x]])
         /\ Cleared(h, p).type = [x \in Node |-> IF x \in Subtree(h, p) \ {p} THEN "free" ELSE h.type[x]]
<1> DEFINE D == Subtree(h, p) \ {p}
           k == Cleared(h, p)
           S == Subtree(h, p)
<1>1. PICK rank, pos : Formed(h, rank, pos)
  BY DEF Sound
<1>2. /\ k = Pruned(h, D) /\ Apart(h, D) /\ k.firstChild[p] = Null
      /\ \A x \in Node \ S : h.firstChild[x] \notin D
  BY <1>1, ClearedFormed DEF Sound
<1>3. p \in S /\ D \in SUBSET Node /\ p \notin D /\ S = D \cup {p}
  BY <1>1, SubtreeClosed DEF Formed
<1> HIDE DEF D, k, S
<1>4. ListsOf(k, [x \in Node |-> IF x \in D \/ h.firstChild[x] \in D THEN <<>> ELSE L[x]])
  BY <1>1, <1>2, <1>3, ListsPruned
<1>5. h.firstChild[p] \in D \/ L[p] = <<>>
  <2> SUFFICES ASSUME h.firstChild[p] \notin D PROVE L[p] = <<>>
    OBVIOUS
  <2>1. k.firstChild[p] = h.firstChild[p]
    BY <1>2, <1>3 DEF Pruned, Without
  <2>2. h.firstChild[p] = Null
    BY <1>2, <2>1
  <2> QED
    BY <2>2, ListEmpty
<1>6. [x \in Node |-> IF x \in D \/ h.firstChild[x] \in D THEN <<>> ELSE L[x]]
        = [x \in Node |-> IF x \in S THEN <<>> ELSE L[x]]
  BY <1>2, <1>3, <1>5
<1>7. k.type = [x \in Node |-> IF x \in D THEN "free" ELSE h.type[x]]
  BY <1>2 DEF Pruned
<1> QED
  BY <1>4, <1>6, <1>7 DEF D, k, S

(* Clear, alone or at the start of a LoadFile. *)
LEMMA ClearMaps ==
  ASSUME TreeInv, parsing = <<>>, NEW p \in Node, dom' = Cleared(dom, p)
  PROVE  Forest!Clear(p)
<1> DEFINE S == Subtree(dom, p)
<1>1. Sound(dom)
  BY Resting
<1>2. PICK rank, pos : Formed(dom, rank, pos)
  BY DEF TreeInv
<1>3. PICK L : ListsOf(dom, L)
  BY <1>2, ListsFound
<1>4. ForestRead(L) /\ Lists = L
  BY <1>2, <1>3, ForestIsRead, ListsHere
<1>5. Forest!Tree(p) = S /\ p \in S
  BY <1>2, <1>4, SubtreeClosed DEF ForestRead, Formed
<1>6. /\ Lists' = [x \in Node |-> IF x \in S THEN <<>> ELSE L[x]]
      /\ dom'.type = [x \in Node |-> IF x \in S \ {p} THEN "free" ELSE dom.type[x]]
  <2> DEFINE M == [x \in Node |-> IF x \in S THEN <<>> ELSE L[x]]
  <2>1. /\ ListsOf(Cleared(dom, p), M)
        /\ Cleared(dom, p).type = [x \in Node |-> IF x \in S \ {p} THEN "free" ELSE dom.type[x]]
    BY <1>1, <1>3, ClearedLists
  <2> HIDE DEF M
  <2>2. ListsOf(dom', M)
    BY <2>1
  <2> QED
    BY <2>1, <2>2, ListsThere DEF M
<1> HIDE DEF S
<1>7. Lists' = [[x \in Node |-> IF x \in S \ {p} THEN <<>> ELSE L[x]] EXCEPT ![p] = <<>>]
  BY <1>5, <1>6
<1> QED
  BY <1>4, <1>5, <1>6, <1>7
     DEF Forest!Clear, Forest!KindWithout, Forest!KidsWithout, Lists

(* No node is below its children. *)
LEMMA ParentAbove ==
  ASSUME NEW h, NEW rank, NEW pos, Formed(h, rank, pos), NEW c \in Node,
         NEW p \in Node, h.parent[c] = p
  PROVE  p \notin Subtree(h, c)
<1>1. rank[p] < rank[c] /\ rank[p] \in Nat /\ rank[c] \in Nat
  BY NullAssumption DEF Formed, Ranked
<1> SUFFICES ASSUME p \in Subtree(h, c) PROVE FALSE
  OBVIOUS
<1>2. CASE p = c
  BY <1>1, <1>2
<1>3. CASE p # c
  <2>1. rank[c] < rank[p]
    BY <1>3, SubtreeUp
  <2> QED
    BY <1>1, <2>1
<1> QED
  BY <1>2, <1>3

(* Lists that differ only at a node outside have the same trees inside. *)
LEMMA SubtreeKept ==
  ASSUME NEW h, NEW rank, NEW pos, Formed(h, rank, pos), NEW L, ListsOf(h, L),
         NEW k, NEW r2, NEW p2, Formed(k, r2, p2), NEW M, ListsOf(k, M), NEW n \in Node,
         \A x \in Subtree(h, n) : M[x] = L[x]
  PROVE  Subtree(k, n) = Subtree(h, n)
<1>1. Below(L, n) = Subtree(h, n) /\ Below(M, n) = Subtree(k, n)
  BY BelowIsSubtree
<1>2. Below(M, n) = Below(L, n)
  BY <1>1, BelowSame
<1> QED
  BY <1>1, <1>2

LEMMA RemoveMaps ==
  ASSUME TreeInv, NEW p \in Node, NEW r \in Node, RemoveChild(p, r)
  PROVE  r \in Forest!Children(p) /\ Forest!RemoveTree(p, r)
<1> DEFINE k == Detached(dom, r)
           D == Subtree(dom, r)
<1>1. /\ parsing = <<>> /\ r \in Children(p) /\ Linked(dom, r) /\ dom.parent[r] = p
      /\ dom' = Removed(dom, p, r) /\ error' = error
  BY DEF RemoveChild, Calls, Children
<1>2. Sound(dom)
  BY <1>1, Idle
<1>3. PICK rank, pos : Formed(dom, rank, pos)
  BY DEF TreeInv
<1>4. PICK L : ListsOf(dom, L)
  BY <1>3, ListsFound
<1>5. ForestRead(L) /\ Lists = L
  BY <1>3, <1>4, ForestIsRead, ListsHere
<1>6. PICK i \in 1..Len(L[p]) : r = L[p][i]
  <2>1. {L[p][i] : i \in 1..Len(L[p])} = {c \in Node : Linked(dom, c) /\ dom.parent[c] = p}
    BY <1>3, <1>4, ListsMeet
  <2>2. r \in {L[p][i] : i \in 1..Len(L[p])}
    BY <1>1, <2>1
  <2> QED
    BY <2>2
<1> DEFINE M == [L EXCEPT ![p] = RemoveAt(L[p], i)]
<1>7. ListsOf(k, M)
  BY <1>3, <1>4, <1>6, ListsDetached
<1>8. /\ Formed(k, rank, pos) /\ Settled(k) /\ k.parent[r] = Null
      /\ dom' = Delete(k, Subtree(k, r))
  <2>1. Formed(k, rank, pos) /\ Settled(k) /\ k.parent[r] = Null
    BY <1>1, <1>2, <1>3, DetachedFormed DEF Sound
  <2>2. dom' = Delete(k, Subtree(k, r))
    BY <1>1, <1>2, <1>3, RemovedFormed DEF Sound
  <2> QED
    BY <2>1, <2>2
<1>9. k.type = dom.type
  BY DEF Detached
<1>10. p \notin D /\ D \in SUBSET Node
  BY <1>1, <1>3, ParentAbove, SubtreeClosed DEF Formed
<1>11. DOMAIN L = Node /\ M[p] = RemoveAt(L[p], i) /\ \A x \in Node : x # p => M[x] = L[x]
  BY <1>4 DEF ListsOf
<1> HIDE DEF k, D, M
<1>12. Subtree(k, r) = D
  <2>1. \A x \in Subtree(dom, r) : M[x] = L[x]
    BY <1>10, <1>11 DEF D
  <2> QED
    BY <1>3, <1>4, <1>7, <1>8, <2>1, SubtreeKept DEF D
<1>13. /\ Apart(k, D) /\ Delete(k, D) = Pruned(k, D)
       /\ \A x \in Node \ D : k.firstChild[x] \notin D
  BY <1>8, <1>12, RootApart
<1>14. /\ Lists' = [x \in Node |-> IF x \in D \/ k.firstChild[x] \in D THEN <<>> ELSE M[x]]
       /\ dom'.type = [x \in Node |-> IF x \in D THEN "free" ELSE k.type[x]]
  <2>1. dom' = Pruned(k, D)
    BY <1>8, <1>12, <1>13
  <2> QED
    BY <1>7, <1>8, <1>10, <1>13, <2>1, PrunedLists
<1>15. Lists' = [[x \in Node |-> IF x \in D THEN <<>> ELSE L[x]] EXCEPT ![p] = RemoveAt(L[p], i)]
  <2>1. Lists' = [x \in Node |-> IF x \in D THEN <<>> ELSE M[x]]
    BY <1>13, <1>14
  <2> QED
    BY <1>10, <1>11, <2>1
<1>16. Forest!Tree(r) = D /\ Forest!At(p, r) = i /\ r \in Forest!Children(p)
  BY <1>1, <1>5, <1>6 DEF ForestRead, D
<1>17. [x \in Node |-> IF x \in D THEN <<>> ELSE L[x]][p] = L[p]
  BY <1>10
<1>18. Forest!KidsWithout(D) = [x \in Node |-> IF x \in D THEN <<>> ELSE L[x]]
  BY <1>5 DEF Forest!KidsWithout, Lists
<1>19. Forest!KindWithout(D) = dom'.type
  BY <1>9, <1>14 DEF Forest!KindWithout
<1>20. Forest!RemoveAt(L[p], i) = RemoveAt(L[p], i)
  BY DEF RemoveAt, Forest!RemoveAt
<1>21. Lists' = [Forest!KidsWithout(D) EXCEPT ![p] = Forest!RemoveAt(@, i)]
  BY <1>15, <1>17, <1>18, <1>20
<1> QED
  BY <1>1, <1>16, <1>19, <1>21 DEF Forest!RemoveTree, Lists

(* n comes last among the children of p. *)
LEMMA EndLinked ==
  ASSUME NEW h, NEW rank, NEW pos, Formed(h, rank, pos), NEW L, ListsOf(h, L),
         NEW p \in Node, NEW n \in Node, ~Linked(h, n), dom' = LinkEnd(h, p, n)
  PROVE  Lists' = [L EXCEPT ![p] = Append(L[p], n)] /\ dom'.type = h.type
<1> DEFINE a == h.lastChild[p]
           i == Len(L[p]) + 1
<1>1. Between(h, p, a, Null) /\ dom' = Spliced(h, p, a, Null, n)
  BY LinkEndSplices
<1> HIDE DEF a
<1>2. PICK j \in 1..Len(L[p]) + 1 :
        a = Left(L[p], j) /\ Null = Right(L[p], j) /\ (Null = Null <=> j = Len(L[p]) + 1)
  <2> DEFINE b == Null
  <2>1. Between(h, p, a, b)
    BY <1>1
  <2> HIDE DEF b
  <2>2. \E j \in 1..Len(L[p]) + 1 :
          a = Left(L[p], j) /\ b = Right(L[p], j) /\ (b = Null <=> j = Len(L[p]) + 1)
    BY <2>1, BetweenIs
  <2> QED
    BY <2>2 DEF b
<1>3. j = i
  BY <1>2
<1>4. ListsOf(dom', [L EXCEPT ![p] = InsertAt(L[p], i, n)])
  <2>1. ListsOf(Spliced(h, p, Left(L[p], j), Right(L[p], j), n), [L EXCEPT ![p] = InsertAt(L[p], j, n)])
    BY ListsSpliced
  <2> HIDE DEF i
  <2> QED
    BY <1>1, <1>2, <1>3, <2>1, Zenon
<1>5. L[p] \in Seq(Node)
  BY ListsShape
<1>6. InsertAt(L[p], i, n) = Append(L[p], n)
  BY <1>5, AppendIs
<1>7. dom'.type = h.type
  BY <1>1 DEF Spliced
<1> QED
  BY <1>4, <1>6, <1>7, ListsThere

(* SetError tells the documents that the parents of p lead to. *)
LEMMA DocumentsAre ==
  ASSUME NEW L, ForestRead(L), Sound(dom), NEW p \in Node
  PROVE  Forest!DocumentsOver(p) = GetDocument(dom, p)
<1>1. GetDocument(dom, p) = {d \in Node : dom.type[d] = "document" /\ p \in Subtree(dom, d)}
  BY DocumentOver
<1>2. \A d \in Node : Forest!Tree(d) = Subtree(dom, d)
  BY DEF ForestRead
<1> QED
  BY <1>1, <1>2 DEF Forest!DocumentsOver

LEMMA LinkMaps ==
  ASSUME TreeInv, NEW p \in Node, NEW n \in Node, LinkEndChild(p, n)
  PROVE  dom.type[p] \in Containers /\ (Forest!Link(p, n) \/ Forest!LinkDocument(p, n))
<1> DEFINE D == Subtree(dom, n)
           told == [x \in Node |-> IF x = n THEN Null
                       ELSE IF x \in GetDocument(dom, p) /\ error[x] = Null
                              THEN "document top only" ELSE error[x]]
<1>1. /\ parsing = <<>> /\ dom.type[p] \in Containers /\ Root(n) /\ p \notin D
      /\ \/ dom.type[n] # "document" /\ dom' = LinkEnd(dom, p, n) /\ error' = error
         \/ dom.type[n] = "document" /\ dom' = Delete(dom, D) /\ error' = told
  BY DEF LinkEndChild, Calls, Container
<1>2. Sound(dom)
  BY <1>1, Resting
<1>3. PICK rank, pos : Formed(dom, rank, pos)
  BY DEF TreeInv
<1>4. PICK L : ListsOf(dom, L)
  BY <1>3, ListsFound
<1>5. ForestRead(L) /\ Lists = L
  BY <1>3, <1>4, ForestIsRead, ListsHere
<1>6. dom.parent[n] = Null /\ dom.type[n] # "free" /\ ~Linked(dom, n)
  BY <1>1 DEF Root, Live, Linked
<1>7. Forest!Tree(n) = D /\ Forest!Unlisted(n)
  BY <1>5, <1>6 DEF ForestRead, Forest!Unlisted
<1>8. CASE dom.type[n] # "document" /\ dom' = LinkEnd(dom, p, n) /\ error' = error
  <2>1. Lists' = [L EXCEPT ![p] = Append(L[p], n)] /\ dom'.type = dom.type
    BY <1>3, <1>4, <1>6, <1>8, EndLinked
  <2>2. Lists' = [Lists EXCEPT ![p] = Append(@, n)]
    BY <1>5, <2>1
  <2> HIDE DEF D
  <2>3. Forest!Link(p, n)
    BY <1>1, <1>6, <1>7, <1>8, <2>1, <2>2 DEF Forest!Link, Lists
  <2> QED
    BY <1>1, <2>3
<1>9. CASE dom.type[n] = "document" /\ dom' = Delete(dom, D) /\ error' = told
  <2>1. /\ D \in SUBSET Node /\ Apart(dom, D) /\ Delete(dom, D) = Pruned(dom, D)
        /\ \A x \in Node \ D : dom.firstChild[x] \notin D
    BY <1>2, <1>3, <1>6, RootApart DEF Sound
  <2> HIDE DEF D, told
  <2>2. /\ Lists' = [x \in Node |-> IF x \in D \/ dom.firstChild[x] \in D THEN <<>> ELSE L[x]]
        /\ dom'.type = [x \in Node |-> IF x \in D THEN "free" ELSE dom.type[x]]
    <3>1. dom' = Pruned(dom, D)
      BY <1>9, <2>1
    <3> QED
      BY <1>3, <1>4, <2>1, <3>1, PrunedLists
  <2>3. Lists' = [x \in Node |-> IF x \in D THEN <<>> ELSE Lists[x]]
    BY <1>5, <2>1, <2>2
  <2>4. Forest!DocumentsOver(p) = GetDocument(dom, p)
    BY <1>2, <1>5, DocumentsAre
  <2>5. error' = [Forest!Told(Forest!DocumentsOver(p), "document top only") EXCEPT ![n] = Null]
    <3>1. Forest!Told(Forest!DocumentsOver(p), "document top only")
            = [x \in Node |-> IF x \in GetDocument(dom, p) /\ error[x] = Null
                                THEN "document top only" ELSE error[x]]
      BY <2>4 DEF Forest!Told
    <3> QED
      BY <1>9, <3>1 DEF told
  <2>6. Forest!KidsWithout(D) = [x \in Node |-> IF x \in D THEN <<>> ELSE Lists[x]]
    BY DEF Forest!KidsWithout, Lists
  <2>7. Forest!KindWithout(D) = dom'.type
    BY <2>2 DEF Forest!KindWithout
  <2>8. Forest!LinkDocument(p, n)
    BY <1>1, <1>7, <1>9, <2>3, <2>5, <2>6, <2>7 DEF Forest!LinkDocument, Lists
  <2> QED
    BY <1>1, <2>8
<1> QED
  BY <1>1, <1>8, <1>9

(* A document that should be inserted is refused. *)
LEMMA RefuseMaps ==
  ASSUME TreeInv, parsing = <<>>, NEW p \in Node, UNCHANGED dom,
         SetError(GetDocument(dom, p), "document top only")
  PROVE  Forest!Refuse(p)
<1>1. Sound(dom)
  BY Resting
<1>2. PICK rank, pos : Formed(dom, rank, pos)
  BY DEF TreeInv
<1>3. PICK L : ListsOf(dom, L)
  BY <1>2, ListsFound
<1>4. Forest!DocumentsOver(p) = GetDocument(dom, p)
  BY <1>1, <1>2, <1>3, ForestIsRead, DocumentsAre
<1>5. Lists' = Lists
  BY DEF Lists, Kids
<1> QED
  BY <1>4, <1>5 DEF Forest!Refuse, Forest!Told, SetError, Lists

-----------------------------------------------------------------------------
(* Copies.                                                                 *)

(* XmlForest's record of what is where after a copy, by the places of it.   *)
KindCopied(E, g, k, M) ==
  /\ g \in [E -> Node] /\ IsInjective(g) /\ M = [x \in Node |-> M[x]]
  /\ \A y \in E : M[g[y]] = dom.type[y]
  /\ \A x \in Node : (\A y \in E : g[y] # x) => M[x] = k[x]

LEMMA KindIsWith ==
  ASSUME NEW E, NEW g, NEW k, NEW M, KindCopied(E, g, k, M)
  PROVE  M = Forest!KindWith(g, k)
<1> DEFINE W(x) == IF Forest!Source(g, x) = {} THEN k[x]
                   ELSE dom.type[CHOOSE y \in Forest!Source(g, x) : TRUE]
<1>1. \A x : Forest!Source(g, x) = {y \in E : g[y] = x}
  BY DEF Forest!Source, KindCopied
<1>2. ASSUME NEW x \in Node PROVE M[x] = W(x)
  <2>1. CASE \A y \in E : g[y] # x
    BY <1>1, <2>1 DEF KindCopied
  <2>2. CASE \E y \in E : g[y] = x
    <3> DEFINE c == CHOOSE y \in Forest!Source(g, x) : TRUE
    <3>1. Forest!Source(g, x) # {}
      BY <1>1, <2>2
    <3>2. c \in Forest!Source(g, x)
      BY <3>1
    <3>3. c \in E /\ g[c] = x
      BY <1>1, <3>2
    <3> QED
      BY <3>1, <3>3 DEF KindCopied
  <2> QED
    BY <2>1, <2>2
<1>3. Forest!KindWith(g, k) = [x \in Node |-> W(x)]
  BY DEF Forest!KindWith
<1>4. M = [x \in Node |-> M[x]]
  BY DEF KindCopied
<1> HIDE DEF W
<1> QED
  BY <1>2, <1>3, <1>4, Zenon

KidsCopied(L, E, g, k, M) ==
  /\ ListsOf(dom, L) /\ E \in SUBSET Node /\ g \in [E -> Node] /\ IsInjective(g)
  /\ M = [x \in Node |-> M[x]]
  /\ \A y \in E : M[g[y]] = Mapped(g, L[y])
  /\ \A x \in Node : (\A y \in E : g[y] # x) => M[x] = k[x]

LEMMA KidsIsWith ==
  ASSUME NEW L, NEW E, NEW g, NEW k, NEW M, KidsCopied(L, E, g, k, M)
  PROVE  M = Forest!KidsWith(g, k)
<1> DEFINE C(x) == CHOOSE y \in Forest!Source(g, x) : TRUE
           W(x) == IF Forest!Source(g, x) = {} THEN k[x]
                   ELSE [i \in DOMAIN Lists[C(x)] |-> g[Lists[C(x)][i]]]
<1>1. \A x : Forest!Source(g, x) = {y \in E : g[y] = x}
  BY DEF Forest!Source, KidsCopied
<1>2. ASSUME NEW x \in Node PROVE M[x] = W(x)
  <2>1. CASE \A y \in E : g[y] # x
    <3>1. Forest!Source(g, x) = {}
      BY <1>1, <2>1
    <3> QED
      BY <2>1, <3>1 DEF KidsCopied
  <2>2. CASE \E y \in E : g[y] = x
    <3> DEFINE c == C(x)
    <3>1. Forest!Source(g, x) # {}
      BY <1>1, <2>2
    <3>2. c \in Forest!Source(g, x)
      BY <3>1
    <3>3. c \in E /\ g[c] = x /\ c \in Node
      BY <1>1, <3>2 DEF KidsCopied
    <3>4. Lists[c] = L[c] /\ DOMAIN L[c] = 1..Len(L[c])
      BY <3>3, ListsHere, ListsShape DEF KidsCopied
    <3> HIDE DEF C
    <3>5. M[x] = Mapped(g, L[c])
      BY <3>3 DEF KidsCopied
    <3>6. Mapped(g, L[c]) = [i \in 1..Len(L[c]) |-> g[L[c][i]]]
      BY DEF Mapped
    <3>7. W(x) = [i \in DOMAIN Lists[c] |-> g[Lists[c][i]]]
      BY <3>1
    <3> QED
      BY <3>4, <3>5, <3>6, <3>7
  <2> QED
    BY <2>1, <2>2
<1>3. Forest!KidsWith(g, k) = [x \in Node |-> W(x)]
  BY DEF Forest!KidsWith, Lists
<1> HIDE DEF W
<1>4. M = [x \in Node |-> M[x]]
  BY DEF KidsCopied
<1> QED
  BY <1>2, <1>3, <1>4, Zenon

(* k is h with the tree of s copied: g says where, n for s. *)
Grown(h, L, k, M, s, n, g) ==
  /\ ListsOf(k, M) /\ k.type = [x \in Node |-> k.type[x]]
  /\ g \in [Subtree(h, s) -> Unused(h) \cup {n}] /\ IsInjective(g) /\ g[s] = n
  /\ \A y \in Subtree(h, s) : M[g[y]] = Mapped(g, L[y]) /\ k.type[g[y]] = h.type[y]
  /\ \A x \in Node : (\A y \in Subtree(h, s) : g[y] # x) => M[x] = L[x] /\ k.type[x] = h.type[x]

LEMMA CopyGrows ==
  ASSUME NEW h, NEW rank, NEW pos, Formed(h, rank, pos), NEW L, ListsOf(h, L),
         NEW s \in Node, NEW D, D = Subtree(h, s) \ {s}, NEW n \in Live(h), h.type[n] = h.type[s],
         NEW f \in [D -> Unused(h)], IsInjective(f), NEW k, k = CopyTo(h, s, n, f)
  PROVE  \E g, M : Grown(h, L, k, M, s, n, g)
<1> DEFINE g == [y \in Subtree(h, s) |-> IF y = s THEN n ELSE f[y]]
           R == {f[y] : y \in D}
           O(x) == CHOOSE y \in D : f[y] = x
           M == [x \in Node |-> IF x = n THEN Mapped(f, L[s])
                                ELSE IF x \in R THEN Mapped(f, L[O(x)]) ELSE L[x]]
<1>1. /\ s \in Subtree(h, s) /\ Subtree(h, s) \subseteq Node /\ n \in Node /\ n \notin Unused(h)
      /\ Subtree(h, s) = D \cup {s} /\ s \notin D
  BY SubtreeClosed DEF Formed, Live, Unused
<1>2. \A y, z \in D : f[y] = f[z] => y = z
  BY DEF IsInjective
<1>3. \A y \in D : f[y] \in Unused(h) /\ f[y] # n /\ f[y] \in Node
  BY <1>1 DEF Unused
<1>4. \A y \in D : O(f[y]) = y
  BY <1>2
<1>5. /\ M[n] = Mapped(f, L[s])
      /\ \A y \in D : M[f[y]] = Mapped(f, L[y])
      /\ \A x \in Node \ (R \cup {n}) : M[x] = L[x]
  BY <1>1, <1>3, <1>4
<1> HIDE DEF O
<1>6. DOMAIN M = Node /\ M = [x \in Node |-> M[x]]
  OBVIOUS
<1> HIDE DEF M
<1>7. CopiedLists(L, M, D, s, n, f)
  BY <1>5, <1>6 DEF CopiedLists
<1>8. ListsOf(k, M)
  BY <1>7, ListsCopied, Zenon
<1>9. Fields(k) /\ Copies(h, k, D, s, n, f)
  BY CopyFields
<1>10. k.type = [x \in Node |-> k.type[x]]
  BY <1>9 DEF Fields
<1>11. /\ \A y \in D : k.type[f[y]] = h.type[y]
       /\ \A x \in Node \ R : k.type[x] = h.type[x]
  BY <1>9 DEF Copies
<1>12. n \notin R
  BY <1>3
<1>13. /\ g \in [Subtree(h, s) -> Unused(h) \cup {n}] /\ g[s] = n
       /\ \A y \in D : g[y] = f[y]
  BY <1>1, <1>3
<1> HIDE DEF g
<1>14. \A y, z \in Subtree(h, s) : g[y] = g[z] => y = z
  BY <1>1, <1>2, <1>3, <1>13
<1>15. IsInjective(g)
  BY <1>13, <1>14 DEF IsInjective
<1>16. ASSUME NEW y \in Subtree(h, s) PROVE Mapped(g, L[y]) = Mapped(f, L[y])
  <2>1. {L[y][i] : i \in 1..Len(L[y])} = {c \in Node : Linked(h, c) /\ h.parent[c] = y}
    BY <1>1, ListsMeet
  <2>2. \A c \in Node : Linked(h, c) /\ h.parent[c] = y => c \in D
    BY SubtreeDown
  <2>3. \A i \in 1..Len(L[y]) : L[y][i] \in D
    BY <2>1, <2>2
  <2>4. \A i \in 1..Len(L[y]) : g[L[y][i]] = f[L[y][i]]
    BY <1>13, <2>3
  <2> QED
    BY <2>4 DEF Mapped
<1>17. ASSUME NEW y \in Subtree(h, s) PROVE M[g[y]] = Mapped(g, L[y]) /\ k.type[g[y]] = h.type[y]
  <2>1. CASE y = s
    BY <1>1, <1>5, <1>11, <1>12, <1>13, <1>16, <2>1
  <2>2. CASE y # s
    <3>1. y \in D /\ g[y] = f[y]
      BY <1>1, <1>13, <2>2
    <3> QED
      BY <1>5, <1>11, <1>16, <3>1
  <2> QED
    BY <2>1, <2>2
<1>18. ASSUME NEW x \in Node, \A y \in Subtree(h, s) : g[y] # x
       PROVE  M[x] = L[x] /\ k.type[x] = h.type[x]
  <2>1. x # n /\ x \notin R
    BY <1>1, <1>13, <1>18
  <2> QED
    BY <1>5, <1>11, <2>1
<1> HIDE DEF R
<1>19. Grown(h, L, k, M, s, n, g)
  BY <1>8, <1>10, <1>13, <1>15, <1>17, <1>18 DEF Grown
<1> QED
  BY <1>19

(* A clone in places that were free. *)
LEMMA CloneGrows ==
  ASSUME NEW h, Sound(h), NEW L, ListsOf(h, L),
         NEW s \in Live(h), NEW n \in Unused(h), NEW f \in ClonePlaces(h, s, n),
         NEW k, k = Cloned(h, s, n, f)
  PROVE  \E g, M : Grown(h, L, k, M, s, n, g)
<1> DEFINE j == New(h, n, h.type[s], Null)
           D == Subtree(j, s) \ {s}
<1>1. PICK rank, pos : Formed(h, rank, pos)
  BY DEF Sound
<1>2. Fields(h) /\ s \in Node /\ n \in Node /\ s # n /\ h.type[s] \in Types
  BY <1>1 DEF Formed, Fields, Live, Unused
<1>3. h.firstChild[n] = Null /\ h.next[n] = Null /\ ~Linked(h, n)
  BY <1>1, UnusedUnknown
<1>4. PICK r : Formed(j, r, pos)
  BY <1>1, <1>2, NewFormed
<1>5. /\ j.firstChild = h.firstChild /\ j.next = h.next
      /\ j.type[n] = h.type[s] /\ \A x \in Node \ {n} : j.type[x] = h.type[x]
  BY <1>2, <1>3 DEF New, Fields
<1>6. ListsOf(j, L)
  BY <1>1, ListsNew
<1>7. k = CopyTo(j, s, n, f)
  BY DEF Cloned
<1> HIDE DEF j
<1>8. n \in Live(j) /\ Unused(j) = Unused(h) \ {n} /\ j.type[n] = j.type[s]
  BY <1>2, <1>5 DEF Live, Unused, Types
<1>9. Subtree(j, s) = Subtree(h, s)
  BY <1>2, <1>5, SubtreeSame
<1>10. f \in [D -> Unused(j)] /\ IsInjective(f)
  BY <1>8, <1>9 DEF ClonePlaces
<1>11. PICK g, M : Grown(j, L, k, M, s, n, g)
  <2>1. D = Subtree(j, s) \ {s}
    OBVIOUS
  <2> HIDE DEF D
  <2> QED
    BY <1>2, <1>4, <1>6, <1>7, <1>8, <1>10, <2>1, CopyGrows
<1>12. Unused(j) \cup {n} = Unused(h) \cup {n}
  BY <1>8
<1>13. s \in Subtree(h, s) /\ \A y \in Subtree(h, s) : y \in Node \ {n}
  <2>1. s \in Subtree(h, s) /\ \A y \in Subtree(h, s) : y # s => y \in Node /\ Linked(h, y)
    BY <1>1, <1>2, SubtreeUp, SubtreeClosed
  <2> QED
    BY <1>2, <1>3, <2>1
<1>14. g[s] = n
  BY <1>11 DEF Grown
<1>15. Grown(h, L, k, M, s, n, g)
  BY <1>5, <1>9, <1>11, <1>12, <1>13, <1>14 DEF Grown
<1> QED
  BY <1>15

LEMMA GrownIsCopy ==
  ASSUME NEW rank, NEW pos, Formed(dom, rank, pos), NEW L, ListsOf(dom, L),
         NEW s \in Node, NEW n \in Unused(dom),
         NEW k, NEW M, NEW g, Grown(dom, L, k, M, s, n, g)
  PROVE  /\ g \in Forest!Copies(s) /\ g[s] = n /\ s \in Subtree(dom, s) /\ n \in Node
         /\ g \in [Subtree(dom, s) -> Node] /\ IsInjective(g) /\ Subtree(dom, s) \in SUBSET Node
         /\ \A y \in Subtree(dom, s) : g[y] \in Unused(dom)
         /\ k.type = Forest!KindWith(g, dom.type)
<1>1. ForestRead(L)
  BY ForestIsRead
<1>2. /\ Forest!Tree(s) = Subtree(dom, s) /\ Unused(dom) \cup {n} = Unused(dom)
      /\ Unused(dom) \subseteq Node
  BY <1>1 DEF ForestRead, Unused
<1>3. Forest!Free = Unused(dom)
  BY DEF Forest!Free, Unused, Live
<1>4. s \in Subtree(dom, s) /\ Subtree(dom, s) \in SUBSET Node
  BY SubtreeClosed DEF Formed
<1>5. g \in [Subtree(dom, s) -> Unused(dom)] /\ IsInjective(g) /\ g[s] = n
  BY <1>2 DEF Grown
<1>6. g \in [Subtree(dom, s) -> Node] /\ \A y \in Subtree(dom, s) : g[y] \in Unused(dom)
  BY <1>2, <1>5
<1>7. g \in Forest!Copies(s)
  BY <1>2, <1>3, <1>5 DEF Forest!Copies, Forest!IsInjective, IsInjective
<1>8. k.type = Forest!KindWith(g, dom.type)
  <2> DEFINE t == dom.type
             u == k.type
  <2>1. /\ u = [x \in Node |-> u[x]] /\ \A y \in Subtree(dom, s) : u[g[y]] = dom.type[y]
        /\ \A x \in Node : (\A y \in Subtree(dom, s) : g[y] # x) => u[x] = t[x]
    BY DEF Grown
  <2> HIDE DEF t, u
  <2>2. KindCopied(Subtree(dom, s), g, t, u)
    BY <1>5, <1>6, <2>1 DEF KindCopied
  <2>3. u = Forest!KindWith(g, t)
    BY <2>2, KindIsWith
  <2> QED
    BY <2>3 DEF t, u
<1> QED
  BY <1>2, <1>4, <1>5, <1>6, <1>7, <1>8

LEMMA CloneMaps ==
  ASSUME TreeInv, NEW s \in Node, NEW n \in Node, Clone(s, n)
  PROVE  dom.type[s] # "free" /\ Forest!Clone(s)
<1>1. /\ parsing = <<>> /\ s \in Live(dom) /\ n \in Unused(dom)
      /\ error' = [error EXCEPT ![n] = error[s]]
  BY DEF Clone, Calls
<1>2. PICK f \in ClonePlaces(dom, s, n) : dom' = Cloned(dom, s, n, f)
  BY DEF Clone, Calls
<1>3. Sound(dom)
  BY <1>1, Resting
<1>4. PICK rank, pos : Formed(dom, rank, pos)
  BY DEF TreeInv
<1>5. PICK L : ListsOf(dom, L)
  BY <1>4, ListsFound
<1>6. PICK g, M : Grown(dom, L, dom', M, s, n, g)
  BY <1>1, <1>2, <1>3, <1>5, CloneGrows
<1>7. /\ g \in Forest!Copies(s) /\ g[s] = n
      /\ g \in [Subtree(dom, s) -> Node] /\ IsInjective(g) /\ Subtree(dom, s) \in SUBSET Node
      /\ dom'.type = Forest!KindWith(g, dom.type)
  BY <1>1, <1>4, <1>5, <1>6, GrownIsCopy
<1>8. Lists = L /\ Lists' = M
  BY <1>5, <1>6, ListsHere, ListsThere DEF Grown
<1>9. M = Forest!KidsWith(g, L)
  <2>1. KidsCopied(L, Subtree(dom, s), g, L, M)
    BY <1>5, <1>6, <1>7 DEF Grown, ListsOf, KidsCopied
  <2> QED
    BY <2>1, KidsIsWith
<1>10. dom.type[s] # "free"
  BY <1>1 DEF Live
<1>11. Lists' = Forest!KidsWith(g, Lists)
  BY <1>8, <1>9
<1> QED
  BY <1>1, <1>7, <1>10, <1>11 DEF Forest!Clone, Lists

(* A clone is linked between two children of p, or at an end.               *)
LEMMA InsertedCopy ==
  ASSUME TreeInv, parsing = <<>>, NEW p \in Live(dom), NEW s \in Live(dom), dom.type[s] # "document",
         NEW n \in Unused(dom), NEW f \in ClonePlaces(dom, s, n), NEW k, k = Cloned(dom, s, n, f),
         NEW a, NEW b, Between(k, p, a, b), dom' = Spliced(k, p, a, b, n), UNCHANGED error
  PROVE  Forest!InsertCopy(p, s)
<1>1. Sound(dom) /\ p \in Node /\ s \in Node /\ n \in Node /\ p \notin Unused(dom)
  BY Resting DEF Live, Unused
<1>2. PICK rank, pos : Formed(dom, rank, pos)
  BY DEF TreeInv
<1>3. PICK L : ListsOf(dom, L)
  BY <1>2, ListsFound
<1>4. PICK g, M : Grown(dom, L, k, M, s, n, g)
  BY <1>1, <1>3, CloneGrows
<1>5. /\ g \in Forest!Copies(s) /\ g[s] = n
      /\ g \in [Subtree(dom, s) -> Node] /\ IsInjective(g) /\ Subtree(dom, s) \in SUBSET Node
      /\ \A y \in Subtree(dom, s) : g[y] \in Unused(dom)
      /\ k.type = Forest!KindWith(g, dom.type)
  BY <1>1, <1>2, <1>3, <1>4, GrownIsCopy
<1>6. Sound(k) /\ ~Linked(k, n)
  BY <1>1, SoundCloned DEF Fits
<1>7. PICK r, t : Formed(k, r, t)
  BY <1>6 DEF Sound
<1>8. /\ ListsOf(k, M) /\ M = [x \in Node |-> M[x]]
      /\ \A y \in Subtree(dom, s) : M[g[y]] = Mapped(g, L[y])
      /\ \A x \in Node : (\A y \in Subtree(dom, s) : g[y] # x) => M[x] = L[x]
  BY <1>4 DEF Grown, ListsOf
<1>9. M[p] = L[p] /\ \A y \in Subtree(dom, s) : g[y] # p
  BY <1>1, <1>5, <1>8
<1>10. PICK i \in 1..Len(M[p]) + 1 : a = Left(M[p], i) /\ b = Right(M[p], i)
  BY <1>1, <1>7, <1>8, BetweenIs
<1> DEFINE v == InsertAt(L[p], i, n)
           N == [M EXCEPT ![p] = v]
           K == [L EXCEPT ![p] = v]
<1>11. ListsOf(dom', N)
  BY <1>1, <1>6, <1>7, <1>8, <1>9, <1>10, ListsSpliced
<1>12. Lists = L /\ Lists' = N
  BY <1>3, <1>11, ListsHere, ListsThere
<1> HIDE DEF v
<1>13. DOMAIN M = Node /\ DOMAIN L = Node
  BY <1>3, <1>8 DEF ListsOf
<1>14. N = Forest!KidsWith(g, K)
  <2>1. N = [x \in Node |-> N[x]]
    BY <1>8
  <2>2. \A y \in Subtree(dom, s) : N[g[y]] = Mapped(g, L[y])
    BY <1>5, <1>8, <1>9, <1>13
  <2>3. \A x \in Node : (\A y \in Subtree(dom, s) : g[y] # x) => N[x] = K[x]
    BY <1>8, <1>13
  <2> DEFINE E == Subtree(dom, s)
  <2>4. E \in SUBSET Node /\ g \in [E -> Node] /\ IsInjective(g)
    BY <1>5
  <2> HIDE DEF N, K
  <2>5. KidsCopied(L, E, g, K, N)
    BY <1>3, <2>1, <2>2, <2>3, <2>4 DEF KidsCopied
  <2> QED
    BY <2>5, KidsIsWith
<1>15. dom'.type = Forest!KindWith(g, dom.type)
  BY <1>5 DEF Spliced
<1>16. Forest!InsertAt(L[p], i, n) = v
  BY DEF v, InsertAt, Forest!InsertAt
<1>17. Lists' = Forest!KidsWith(g, [Lists EXCEPT ![p] = Forest!InsertAt(@, i, g[s])]) /\ i \in 1..Len(Lists[p]) + 1
  BY <1>5, <1>9, <1>12, <1>14, <1>16
<1> QED
  BY <1>5, <1>15, <1>17 DEF Forest!InsertCopy, Lists

LEMMA InsertMaps ==
  ASSUME TreeInv, NEW p \in Node, NEW s \in Node,
         \/ InsertEndChild(p, s)
         \/ \E c \in Node : InsertBeforeChild(p, c, s) \/ InsertAfterChild(p, c, s)
  PROVE  /\ dom.type[p] \in Containers
         /\ \/ Forest!Refuse(p)
            \/ dom.type[s] \notin {"free", "document"} /\ Forest!InsertCopy(p, s)
<1>1. parsing = <<>> /\ dom.type[p] \in Containers /\ s \in Live(dom)
  BY DEF InsertEndChild, InsertBeforeChild, InsertAfterChild, Insert, Calls, Container
<1>2. p \in Live(dom) /\ dom.type[s] # "free"
  BY <1>1 DEF Live, Containers
<1>3. CASE dom.type[s] = "document"
  <2>1. UNCHANGED dom /\ SetError(GetDocument(dom, p), "document top only")
    BY <1>3 DEF InsertEndChild, InsertBeforeChild, InsertAfterChild, Insert, Calls
  <2> QED
    BY <1>1, <2>1, RefuseMaps
<1>4. CASE dom.type[s] # "document"
  <2>1. /\ UNCHANGED error
        /\ \E n \in Unused(dom) : \E f \in ClonePlaces(dom, s, n) :
             \/ dom' = LinkEnd(Cloned(dom, s, n, f), p, n)
             \/ \E c \in Children(p) : \/ dom' = LinkBefore(Cloned(dom, s, n, f), p, c, n)
                                       \/ dom' = LinkAfter(Cloned(dom, s, n, f), p, c, n)
    BY <1>4 DEF InsertEndChild, InsertBeforeChild, InsertAfterChild, Insert, Calls
  <2>2. PICK n \in Unused(dom) : \E f \in ClonePlaces(dom, s, n) :
             \/ dom' = LinkEnd(Cloned(dom, s, n, f), p, n)
             \/ \E c \in Children(p) : \/ dom' = LinkBefore(Cloned(dom, s, n, f), p, c, n)
                                       \/ dom' = LinkAfter(Cloned(dom, s, n, f), p, c, n)
    BY <2>1
  <2>3. PICK f \in ClonePlaces(dom, s, n) :
             \/ dom' = LinkEnd(Cloned(dom, s, n, f), p, n)
             \/ \E c \in Children(p) : \/ dom' = LinkBefore(Cloned(dom, s, n, f), p, c, n)
                                       \/ dom' = LinkAfter(Cloned(dom, s, n, f), p, c, n)
    BY <2>2
  <2> DEFINE k == Cloned(dom, s, n, f)
  <2>4. k = Cloned(dom, s, n, f)
    OBVIOUS
  <2>5. \/ dom' = LinkEnd(k, p, n)
        \/ \E c \in Children(p) : dom' = LinkBefore(k, p, c, n) \/ dom' = LinkAfter(k, p, c, n)
    BY <2>3
  <2> HIDE DEF k
  <2>6. Sound(dom) /\ n \in Node
    BY <1>1, Resting DEF Unused
  <2>7. /\ Sound(k) /\ ~Linked(k, n)
        /\ \A c \in Node : Linked(dom, c) => Linked(k, c) /\ k.parent[c] = dom.parent[c]
    BY <1>1, <1>2, <1>4, <2>4, <2>6, SoundCloned DEF Fits
  <2>8. PICK r, t : Formed(k, r, t)
    BY <2>7 DEF Sound
  <2>9. \E a, b : Between(k, p, a, b) /\ dom' = Spliced(k, p, a, b, n)
    <3>1. CASE dom' = LinkEnd(k, p, n)
      BY <2>6, <2>7, <2>8, <3>1, LinkEndSplices
    <3>2. ASSUME NEW c \in Children(p), dom' = LinkBefore(k, p, c, n) \/ dom' = LinkAfter(k, p, c, n)
          PROVE  \E a, b : Between(k, p, a, b) /\ dom' = Spliced(k, p, a, b, n)
      <4>1. c \in Node /\ Linked(k, c) /\ k.parent[c] = p
        BY <2>7 DEF Children
      <4>2. CASE dom' = LinkBefore(k, p, c, n)
        BY <2>6, <2>7, <2>8, <4>1, <4>2, LinkBeforeSplices
      <4>3. CASE dom' = LinkAfter(k, p, c, n)
        BY <2>6, <2>7, <2>8, <4>1, <4>3, LinkAfterSplices
      <4> QED
        BY <3>2, <4>2, <4>3
    <3> QED
      BY <2>5, <3>1, <3>2
  <2>10. Forest!InsertCopy(p, s)
    BY <1>1, <1>2, <1>4, <2>1, <2>4, <2>9, InsertedCopy
  <2> QED
    BY <1>1, <1>2, <1>4, <2>10
<1> QED
  BY <1>3, <1>4

(* A listed node and what is below it are in use. *)
LEMMA ListedInUse ==
  ASSUME NEW h, NEW rank, NEW pos, Formed(h, rank, pos), NEW r \in Node, Linked(h, r)
  PROVE  \A x \in Subtree(h, r) : x \notin Unused(h)
<1>1. \A x \in Subtree(h, r) : Linked(h, x)
  BY SubtreeUp
<1> QED
  BY <1>1, UnusedUnknown

(* A clone takes the place of r. *)
LEMMA ReplacedByCopy ==
  ASSUME TreeInv, parsing = <<>>, NEW p \in Live(dom), NEW r \in Children(p),
         NEW s \in Live(dom), dom.type[s] # "document",
         NEW n \in Unused(dom), NEW f \in ClonePlaces(dom, s, n), NEW k, k = Cloned(dom, s, n, f),
         dom' = LinkInstead(k, p, r, n), UNCHANGED error
  PROVE  Forest!ReplaceByCopy(p, r, s)
<1> DEFINE j == Replaced(k, p, r, n)
           D == Subtree(dom, r)
           E == Subtree(dom, s)
<1>1. /\ Sound(dom) /\ p \in Node /\ s \in Node /\ n \in Node /\ p \notin Unused(dom)
      /\ r \in Node /\ Linked(dom, r) /\ dom.parent[r] = p
  BY Resting DEF Live, Unused, Children
<1>2. PICK rank, pos : Formed(dom, rank, pos)
  BY DEF TreeInv
<1>3. PICK L : ListsOf(dom, L)
  BY <1>2, ListsFound
<1>4. PICK g, M : Grown(dom, L, k, M, s, n, g)
  BY <1>1, <1>3, CloneGrows
<1>5. /\ g \in Forest!Copies(s) /\ g[s] = n
      /\ g \in [E -> Node] /\ IsInjective(g) /\ E \in SUBSET Node
      /\ \A y \in E : g[y] \in Unused(dom)
  BY <1>1, <1>2, <1>3, <1>4, GrownIsCopy
<1>6. /\ Sound(k) /\ Fits(k, p, n) /\ ~Linked(k, n) /\ Linked(k, r) /\ k.parent[r] = p
  BY <1>1, SoundCloned DEF Fits
<1>7. PICK r1, p1 : Formed(k, r1, p1)
  BY <1>6 DEF Sound
<1>8. /\ ListsOf(k, M) /\ M = [x \in Node |-> M[x]] /\ DOMAIN M = Node
      /\ \A y \in E : M[g[y]] = Mapped(g, L[y]) /\ k.type[g[y]] = dom.type[y]
      /\ \A x \in Node : (\A y \in E : g[y] # x) => M[x] = L[x] /\ k.type[x] = dom.type[x]
  BY <1>4 DEF Grown, ListsOf
<1>9. M[p] = L[p] /\ \A y \in E : g[y] # p
  BY <1>1, <1>5, <1>8
<1>10. PICK i \in 1..Len(L[p]) : r = L[p][i]
  <2>1. {L[p][i] : i \in 1..Len(L[p])} = {c \in Node : Linked(dom, c) /\ dom.parent[c] = p}
    BY <1>1, <1>2, <1>3, ListsMeet
  <2>2. r \in {L[p][i] : i \in 1..Len(L[p])}
    BY <1>1, <2>1
  <2> QED
    BY <2>2
<1> DEFINE v == ReplaceAt(L[p], i, n)
           N == [M EXCEPT ![p] = v]
<1>11. /\ (\E l, t : Formed(j, l, t)) /\ Settled(j) /\ j.parent[r] = Null
       /\ dom' = Delete(j, Subtree(j, r))
  BY <1>1, <1>6, <1>7, LinkInsteadDeletes DEF Sound
<1>12. ListsOf(j, N)
  <2>1. \A l \in 1..Len(M[p]) : ListsOf(Replaced(k, p, M[p][l], n), [M EXCEPT ![p] = ReplaceAt(M[p], l, n)])
    BY <1>1, <1>6, <1>7, <1>8, ListsReplaced
  <2> QED
    BY <1>9, <1>10, <2>1
<1>13. j.type = k.type
  BY DEF Replaced, Spliced, Detached
<1>14. PICK r2, p2 : Formed(j, r2, p2)
  BY <1>11
<1>15. p \notin D /\ D \in SUBSET Node /\ \A y \in E : g[y] \notin D
  BY <1>1, <1>2, <1>5, ParentAbove, SubtreeClosed, ListedInUse DEF Formed
<1> HIDE DEF j, v
<1>16. N[p] = v /\ \A x \in Node : x # p => N[x] = M[x]
  BY <1>1, <1>8
<1> HIDE DEF N, E
<1>17. Subtree(j, r) = D
  <2>1. \A x \in D : N[x] = L[x]
    BY <1>8, <1>15, <1>16
  <2> QED
    BY <1>1, <1>2, <1>3, <1>12, <1>14, <2>1, SubtreeKept
<1> HIDE DEF D
<1>18. /\ Apart(j, D) /\ Delete(j, D) = Pruned(j, D)
       /\ \A x \in Node \ D : j.firstChild[x] \notin D
  BY <1>1, <1>11, <1>14, <1>17, RootApart
<1>19. /\ Lists' = [x \in Node |-> IF x \in D \/ j.firstChild[x] \in D THEN <<>> ELSE N[x]]
       /\ dom'.type = [x \in Node |-> IF x \in D THEN "free" ELSE j.type[x]]
  <2>1. dom' = Pruned(j, D)
    BY <1>11, <1>17, <1>18
  <2> QED
    BY <1>12, <1>14, <1>15, <1>18, <2>1, PrunedLists
<1> DEFINE N2 == [x \in Node |-> IF x \in D THEN <<>> ELSE N[x]]
           K == [[x \in Node |-> IF x \in D THEN <<>> ELSE L[x]] EXCEPT ![p] = v]
           T == [x \in Node |-> IF x \in D THEN "free" ELSE k.type[x]]
           U == [x \in Node |-> IF x \in D THEN "free" ELSE dom.type[x]]
<1>20. Lists' = N2 /\ dom'.type = T /\ Lists = L
  BY <1>3, <1>13, <1>18, <1>19, ListsHere
<1>21. N2 = Forest!KidsWith(g, K)
  <2>1. N2 = [x \in Node |-> N2[x]]
    OBVIOUS
  <2>2. \A y \in E : N2[g[y]] = Mapped(g, L[y])
    BY <1>5, <1>8, <1>9, <1>15, <1>16
  <2>3. \A x \in Node : (\A y \in E : g[y] # x) => N2[x] = K[x]
    BY <1>1, <1>8, <1>15, <1>16
  <2> HIDE DEF N2, K
  <2>4. KidsCopied(L, E, g, K, N2)
    BY <1>3, <1>5, <2>1, <2>2, <2>3 DEF KidsCopied
  <2> QED
    BY <2>4, KidsIsWith
<1>22. T = Forest!KindWith(g, U)
  <2>1. T = [x \in Node |-> T[x]]
    OBVIOUS
  <2>2. \A y \in E : T[g[y]] = dom.type[y]
    BY <1>5, <1>8, <1>15
  <2>3. \A x \in Node : (\A y \in E : g[y] # x) => T[x] = U[x]
    BY <1>8
  <2> HIDE DEF T, U
  <2>4. KindCopied(E, g, U, T)
    BY <1>5, <2>1, <2>2, <2>3 DEF KindCopied
  <2> QED
    BY <2>4, KindIsWith
<1>23. ForestRead(L)
  BY <1>2, <1>3, ForestIsRead
<1>24. Forest!Tree(r) = D /\ Forest!At(p, r) = i
  BY <1>1, <1>10, <1>23 DEF ForestRead, D
<1>25. Forest!KindWithout(D) = U /\ Forest!ReplaceAt(L[p], i, n) = v
  BY DEF Forest!KindWithout, ReplaceAt, Forest!ReplaceAt, v
<1>26. [Forest!KidsWithout(D) EXCEPT ![p] = v] = K
  BY <1>20 DEF Forest!KidsWithout, Lists
<1> HIDE DEF T, U, K, N2
<1>27. dom'.type = Forest!KindWith(g, Forest!KindWithout(D))
  BY <1>20, <1>22, <1>25
<1>28. Lists' = Forest!KidsWith(g, [Forest!KidsWithout(D) EXCEPT
                                      ![p] = Forest!ReplaceAt(Lists[p], Forest!At(p, r), g[s])])
  BY <1>5, <1>20, <1>21, <1>24, <1>25, <1>26
<1> QED
  BY <1>5, <1>24, <1>27, <1>28 DEF Forest!ReplaceByCopy, Lists

LEMMA ReplaceMaps ==
  ASSUME TreeInv, NEW p \in Node, NEW r \in Node, NEW s \in Node, ReplaceChild(p, r, s)
  PROVE  /\ dom.type[p] \in Containers
         /\ \/ Forest!Refuse(p)
            \/ /\ dom.type[s] \notin {"free", "document"} /\ r \in Forest!Children(p)
               /\ Forest!ReplaceByCopy(p, r, s)
<1>1. parsing = <<>> /\ dom.type[p] \in Containers /\ s \in Live(dom) /\ r \in Children(p)
  BY DEF ReplaceChild, Insert, Calls, Container
<1>2. p \in Live(dom) /\ dom.type[s] # "free"
  BY <1>1 DEF Live, Containers
<1>3. CASE dom.type[s] = "document"
  <2>1. UNCHANGED dom /\ SetError(GetDocument(dom, p), "document top only")
    BY <1>3 DEF ReplaceChild, Insert, Calls
  <2> QED
    BY <1>1, <2>1, RefuseMaps
<1>4. CASE dom.type[s] # "document"
  <2>1. /\ UNCHANGED error
        /\ \E n \in Unused(dom) : \E f \in ClonePlaces(dom, s, n) :
             dom' = LinkInstead(Cloned(dom, s, n, f), p, r, n)
    BY <1>4 DEF ReplaceChild, Insert, Calls
  <2>2. Forest!ReplaceByCopy(p, r, s)
    BY <1>1, <1>2, <1>4, <2>1, ReplacedByCopy
  <2>3. r \in Forest!Children(p)
    <3>1. PICK rank, pos : Formed(dom, rank, pos)
      BY DEF TreeInv
    <3>2. PICK L : ListsOf(dom, L)
      BY <3>1, ListsFound
    <3>3. ForestRead(L)
      BY <3>1, <3>2, ForestIsRead
    <3> QED
      BY <1>1, <3>3 DEF ForestRead
  <2> QED
    BY <1>1, <1>2, <1>4, <2>2, <2>3
<1> QED
  BY <1>3, <1>4

(* No error belongs to anything but a place. *)
ErrorsPlaced == error = [x \in Node |-> error[x]]

LEMMA AssignedItself ==
  ASSUME TreeInv, ErrorsPlaced, NEW n \in Node, Assign(n, n)
  PROVE  Forest!Clear(n) /\ UNCHANGED error
<1> DEFINE h == Cleared(dom, n)
           S == Subtree(dom, n)
           M == [x \in Node |-> IF x \in S THEN <<>> ELSE Lists[x]]
<1>1. parsing = <<>> /\ dom.type[n] \in Containers /\ error' = [error EXCEPT ![n] = error[n]]
  BY DEF Assign, Calls, Container
<1>2. PICK f \in ClonePlaces(h, n, n) : dom' = CopyTo(h, n, n, f)
  BY DEF Assign, Calls
<1>3. error' = error
  BY <1>1 DEF ErrorsPlaced
<1>4. Sound(dom)
  BY <1>1, Resting
<1>5. PICK L : ListsOf(dom, L)
  BY <1>4, ListsFound DEF Sound
<1>6. Lists = L
  BY <1>5, ListsHere
<1>7. ListsOf(h, M) /\ h.type = [x \in Node |-> IF x \in S \ {n} THEN "free" ELSE dom.type[x]]
  BY <1>4, <1>5, <1>6, ClearedLists
<1>8. Sound(h) /\ h.type[n] = dom.type[n]
  BY <1>4, SoundCleared
<1>9. PICK rank, pos : Formed(h, rank, pos)
  BY <1>8 DEF Sound
<1>10. n \in S
  BY <1>4, SubtreeClosed DEF Sound, Formed
<1>11. M[n] = <<>> /\ n \in Live(h)
  BY <1>1, <1>8, <1>10 DEF Live, Containers
<1> DEFINE D == Subtree(h, n) \ {n}
<1>12. f \in [D -> Unused(h)] /\ IsInjective(f)
  <2>1. n \notin Unused(h)
    BY <1>11 DEF Unused
  <2> QED
    BY <2>1 DEF ClonePlaces
<1> HIDE DEF h, M
<1>13. PICK g, N : Grown(h, M, dom', N, n, n, g)
  <2>1. D = Subtree(h, n) \ {n}
    OBVIOUS
  <2> HIDE DEF D
  <2> QED
    BY <1>2, <1>7, <1>9, <1>11, <1>12, <2>1, CopyGrows
<1>14. Subtree(h, n) = {n}
  BY <1>7, <1>9, <1>11, NothingBelow
<1>15. /\ ListsOf(dom', N) /\ dom'.type = [x \in Node |-> dom'.type[x]]
       /\ g[n] = n /\ N[n] = Mapped(g, M[n]) /\ dom'.type[n] = h.type[n]
       /\ \A x \in Node : x # n => N[x] = M[x] /\ dom'.type[x] = h.type[x]
  BY <1>13, <1>14 DEF Grown
<1>16. N[n] = <<>>
  <2>1. Mapped(g, <<>>) = <<>>
    BY DEF Mapped
  <2> QED
    BY <1>11, <1>15, <2>1
<1>17. N = [x \in Node |-> N[x]] /\ M = [x \in Node |-> M[x]] /\ h.type = [x \in Node |-> h.type[x]]
  BY <1>7, <1>15 DEF ListsOf
<1>18. N = M
  <2>1. \A x \in Node : N[x] = M[x]
    BY <1>11, <1>15, <1>16
  <2> QED
    BY <1>17, <2>1, Zenon
<1>19. dom'.type = h.type
  <2>1. \A x \in Node : dom'.type[x] = h.type[x]
    BY <1>15
  <2> DEFINE u == dom'.type
             t == h.type
  <2>2. u = [x \in Node |-> u[x]] /\ t = [x \in Node |-> t[x]] /\ \A x \in Node : u[x] = t[x]
    BY <1>15, <1>17, <2>1
  <2> HIDE DEF u, t
  <2>3. u = t
    BY <2>2, Zenon
  <2> QED
    BY <2>3 DEF u, t
<1>20. Lists' = M
  BY <1>15, <1>18, ListsThere
<1>21. ForestRead(L)
  BY <1>4, <1>5, ForestIsRead DEF Sound
<1>22. Forest!Tree(n) = S
  BY <1>21 DEF ForestRead
<1> HIDE DEF S
<1>23. Lists' = [[x \in Node |-> IF x \in S \ {n} THEN <<>> ELSE Lists[x]] EXCEPT ![n] = <<>>]
  BY <1>10, <1>20 DEF M
<1>24. Forest!Clear(n)
  BY <1>7, <1>19, <1>22, <1>23
     DEF Forest!Clear, Forest!KindWithout, Forest!KidsWithout, Lists
<1> QED
  BY <1>3, <1>24

LEMMA AssignMaps ==
  ASSUME TreeInv, ErrorsPlaced, NEW n \in Node, NEW s \in Node, Assign(n, s)
  PROVE  dom.type[n] \in Containers /\ Forest!Assign(n, s)
<1>1. CASE n = s
  <2>1. dom.type[n] \in Containers
    BY DEF Assign, Calls, Container
  <2>2. Forest!Clear(n) /\ UNCHANGED error
    BY <1>1, AssignedItself
  <2> QED
    BY <1>1, <2>1, <2>2 DEF Forest!Assign
<1>2. CASE n # s
  <2> DEFINE h == Cleared(dom, n)
             S == Subtree(dom, n)
             E == Subtree(dom, s)
  <2>1. /\ parsing = <<>> /\ dom.type[n] \in Containers /\ dom.type[n] = dom.type[s]
        /\ n \notin E /\ s \notin S /\ error' = [error EXCEPT ![n] = error[s]]
    BY <1>2 DEF Assign, Calls, Container
  <2>2. PICK f \in ClonePlaces(h, s, n) : dom' = CopyTo(h, s, n, f)
    BY DEF Assign, Calls
  <2>3. Sound(dom)
    BY <2>1, Resting
  <2>4. PICK rank, pos : Formed(dom, rank, pos)
    BY <2>3 DEF Sound
  <2>5. PICK L : ListsOf(dom, L)
    BY <2>4, ListsFound
  <2> DEFINE M == [x \in Node |-> IF x \in S THEN <<>> ELSE L[x]]
  <2>6. /\ ListsOf(h, M)
        /\ h.type = [x \in Node |-> IF x \in S \ {n} THEN "free" ELSE dom.type[x]]
    BY <2>3, <2>5, ClearedLists
  <2>7. Sound(h) /\ h.type[n] = dom.type[n]
    BY <2>3, SoundCleared
  <2>8. PICK rank2, pos2 : Formed(h, rank2, pos2)
    BY <2>7 DEF Sound
  <2>9. S \cap E = {} /\ n \in S /\ s \in E /\ S \subseteq Node /\ E \in SUBSET Node
    BY <2>1, <2>4, SubtreesApart, SubtreeClosed DEF Formed
  <2>10. Subtree(h, s) = E
    <3>1. \A x \in E : M[x] = L[x]
      BY <2>9
    <3> HIDE DEF h, M
    <3> QED
      BY <2>4, <2>5, <2>6, <2>8, <3>1, SubtreeKept
  <2>11. /\ n \in Live(h) /\ n \notin Unused(h) /\ h.type[n] = h.type[s]
         /\ Unused(h) \cup {n} = Unused(dom) \cup S
    <3>1. n \in Live(h) /\ n \notin Unused(h)
      BY <2>1, <2>7 DEF Live, Unused, Containers
    <3>2. h.type[n] = h.type[s]
      BY <2>1, <2>6, <2>7, <2>9
    <3>3. Unused(h) = Unused(dom) \cup (S \ {n})
      <4> HIDE DEF h, S
      <4> QED
        BY <2>6, <2>9 DEF Unused, Live
    <3> HIDE DEF h, S
    <3> QED
      BY <2>9, <3>1, <3>2, <3>3
  <2> DEFINE D == E \ {s}
  <2>12. f \in [D -> Unused(h)] /\ IsInjective(f)
    BY <2>10, <2>11 DEF ClonePlaces
  <2> HIDE DEF h, M, S, E
  <2>13. PICK g, N : Grown(h, M, dom', N, s, n, g)
    <3>1. D = Subtree(h, s) \ {s}
      BY <2>10
    <3> HIDE DEF D
    <3> QED
      BY <2>2, <2>6, <2>8, <2>11, <2>12, <3>1, CopyGrows
  <2>14. /\ ListsOf(dom', N) /\ N = [x \in Node |-> N[x]] /\ dom'.type = [x \in Node |-> dom'.type[x]]
         /\ g \in [E -> Unused(dom) \cup S] /\ IsInjective(g) /\ g[s] = n
         /\ \A y \in E : N[g[y]] = Mapped(g, M[y]) /\ dom'.type[g[y]] = h.type[y]
         /\ \A x \in Node : (\A y \in E : g[y] # x) => N[x] = M[x] /\ dom'.type[x] = h.type[x]
    BY <2>10, <2>11, <2>13 DEF Grown, ListsOf
  <2>15. g \in [E -> Node]
    BY <2>9, <2>14 DEF Unused
  <2>16. \A y \in E : M[y] = L[y] /\ h.type[y] = dom.type[y]
    BY <2>6, <2>9 DEF M
  <2>17. N = Forest!KidsWith(g, M)
    <3>1. KidsCopied(L, E, g, M, N)
      BY <2>5, <2>9, <2>14, <2>15, <2>16 DEF KidsCopied
    <3> QED
      BY <3>1, KidsIsWith
  <2> DEFINE U == [x \in Node |-> IF x \in S THEN "free" ELSE dom.type[x]]
             u == dom'.type
  <2>18. u = Forest!KindWith(g, U)
    <3>1. u = [x \in Node |-> u[x]] /\ \A y \in E : u[g[y]] = dom.type[y]
      BY <2>14, <2>16
    <3>2. ASSUME NEW x \in Node, \A y \in E : g[y] # x PROVE u[x] = U[x]
      <4>1. x # n /\ u[x] = h.type[x]
        BY <2>9, <2>14, <3>2
      <4> QED
        BY <2>6, <4>1
    <3> HIDE DEF u, U
    <3>3. KindCopied(E, g, U, u)
      BY <2>14, <2>15, <3>1, <3>2 DEF KindCopied
    <3> QED
      BY <3>3, KindIsWith
  <2>19. ForestRead(L) /\ Lists = L /\ Lists' = N
    BY <2>4, <2>5, <2>14, ForestIsRead, ListsHere, ListsThere
  <2>20. Forest!Tree(n) = S /\ Forest!Tree(s) = E
    BY <2>19 DEF ForestRead, S, E
  <2>21. Forest!Free = Unused(dom)
    BY DEF Forest!Free, Unused, Live
  <2>22. g \in {v \in [Forest!Tree(s) -> Forest!Free \cup Forest!Tree(n)] :
                  Forest!IsInjective(v) /\ v[s] = n}
    BY <2>14, <2>20, <2>21 DEF IsInjective, Forest!IsInjective
  <2>23. Forest!KindWithout(S) = U /\ Forest!KidsWithout(S) = M
    BY <2>19 DEF Forest!KindWithout, Forest!KidsWithout, Lists, M
  <2> HIDE DEF U
  <2>24. /\ dom'.type = Forest!KindWith(g, Forest!KindWithout(Forest!Tree(n)))
         /\ Lists' = Forest!KidsWith(g, Forest!KidsWithout(Forest!Tree(n)))
    BY <2>17, <2>18, <2>19, <2>20, <2>23
  <2>25. Forest!Assign(n, s)
    BY <1>2, <2>1, <2>22, <2>24 DEF Forest!Assign, Lists
  <2> QED
    BY <2>1, <2>25
<1> QED
  BY <1>1, <1>2

-----------------------------------------------------------------------------
(* Parsing.                                                                *)

(* Only the innermost of the nodes being parsed may be a leaf. *)
ContainersAround ==
  \A i \in 1..Len(parsing) : i # Len(parsing) => dom.type[parsing[i]] \in Containers

LEMMA StartMaps ==
  ASSUME TreeInv, NEW d \in Node, Parse(d) \/ LoadFile(d)
  PROVE  /\ dom.type[d] = "document"
         /\ Forest!Start(d) \/ Forest!Fail(d, "document empty")
<1>1. parsing = <<>> /\ dom.type[d] = "document"
  BY DEF Parse, LoadFile
<1>2. CASE Parse(d)
  <2>1. dom' = dom /\ \E e \in {Null, "document empty"} : error' = [error EXCEPT ![d] = e]
    BY <1>2 DEF Parse
  <2>2. Lists' = Lists
    BY <2>1 DEF Lists, Kids
  <2>3. Forest!Start(d)
    BY <2>1, <2>2 DEF Forest!Start, Lists
  <2> QED
    BY <1>1, <2>3
<1>3. CASE LoadFile(d)
  <2>1. /\ dom' = Cleared(dom, d)
        /\ error' = [error EXCEPT ![d] = Null] \/ SetError({d}, "document empty")
    BY <1>3 DEF LoadFile
  <2>2. Forest!Clear(d)
    BY <1>1, <2>1, ClearMaps
  <2>3. CASE error' = [error EXCEPT ![d] = Null]
    BY <1>1, <2>2, <2>3 DEF Forest!Start
  <2>4. CASE SetError({d}, "document empty")
    BY <1>1, <2>2, <2>4 DEF Forest!Fail, Forest!Told, SetError
  <2> QED
    BY <2>1, <2>3, <2>4
<1> QED
  BY <1>2, <1>3

(* The errors of a node that is being parsed go to one document. *)
LEMMA ParserTells ==
  ASSUME TreeInv, NEW i \in 1..Len(parsing),
         UNCHANGED error \/ SetError(GetDocument(dom, parsing[i]), "parsing")
  PROVE  \/ UNCHANGED error
         \/ \E d \in Node : dom.type[d] = "document" /\ error' = Forest!Told({d}, "parsing")
<1>1. parsing[1] \in Node /\ dom.type[parsing[1]] = "document"
  BY DEF TreeInv, StackAgrees
<1>2. GetDocument(dom, parsing[i]) = {parsing[1]}
  BY ParentsReachDocument
<1>3. SetError({parsing[1]}, "parsing") => error' = Forest!Told({parsing[1]}, "parsing")
  BY DEF SetError, Forest!Told
<1> QED
  BY <1>1, <1>2, <1>3

LEMMA ReadTextMaps ==
  ASSUME TreeInv, NEW n \in Node, ReadText(n)
  PROVE  Parser \in Node /\ dom.type[Parser] \in Containers /\ Forest!Parsed(Parser, n)
<1> DEFINE p == parsing[Len(parsing)]
           h == New(dom, n, "text", Null)
<1>1. /\ parsing # <<>> /\ dom.type[p] = "element" /\ n \in Unused(dom) /\ dom' = LinkEnd(h, p, n)
      /\ UNCHANGED error \/ SetError(GetDocument(dom, p), "parsing")
      /\ Parser = p
  BY DEF ReadText, Parses, Parser, Last
<1>2. Len(parsing) \in 1..Len(parsing) /\ p \in Node
  BY <1>1 DEF TreeInv, StackAgrees
<1>3. PICK rank, pos : Formed(dom, rank, pos)
  BY DEF TreeInv
<1>4. PICK L : ListsOf(dom, L)
  BY <1>3, ListsFound
<1>5. ListsOf(h, L) /\ L[n] = <<>>
  BY <1>1, <1>3, <1>4, ListsNew
<1>6. (\E r : Formed(h, r, pos)) /\ ~Linked(h, n)
  BY <1>1, <1>3, NewFormed DEF Types
<1>7. PICK r : Formed(h, r, pos)
  BY <1>6
<1>8. h.type = [dom.type EXCEPT ![n] = "text"]
  BY DEF New
<1>9. \/ UNCHANGED error
      \/ \E d \in Node : dom.type[d] = "document" /\ error' = Forest!Told({d}, "parsing")
  BY <1>1, <1>2, ParserTells
<1> HIDE DEF h, p
<1>10. Lists' = [L EXCEPT ![p] = Append(L[p], n)] /\ dom'.type = [dom.type EXCEPT ![n] = "text"]
  BY <1>1, <1>2, <1>5, <1>6, <1>7, <1>8, EndLinked
<1>11. ForestRead(L) /\ Lists = L
  BY <1>3, <1>4, ForestIsRead, ListsHere
<1>12. n \notin Forest!Listed
  BY <1>1, <1>3, <1>11, UnusedUnknown DEF ForestRead
<1>13. p \notin Forest!Tree(n)
  <2>1. Forest!Tree(n) = {n}
    BY <1>3, <1>4, <1>5, <1>11, NothingBelow DEF ForestRead
  <2>2. p # n
    BY <1>1 DEF Unused, Live
  <2> QED
    BY <2>1, <2>2
<1>14. dom.type[n] = "free"
  BY <1>1 DEF Unused, Live
<1>15. Lists' = [Lists EXCEPT ![p] = Append(@, n)]
  BY <1>10, <1>11
<1>16. Forest!Parsed(p, n)
  BY <1>9, <1>10, <1>12, <1>13, <1>14, <1>15 DEF Forest!Parsed, Lists
<1> QED
  BY <1>1, <1>2, <1>16 DEF Containers

LEMMA ParsedMaps ==
  ASSUME TreeInv, ContainersAround, Parsed
  PROVE  \E p, n \in Node : dom.type[p] \in Containers /\ Forest!Parsed(p, n)
<1> DEFINE m == Len(parsing)
           n == parsing[m]
           p == parsing[m - 1]
<1>1. /\ m > 1 /\ dom' = LinkEnd(dom, p, n)
      /\ UNCHANGED error \/ SetError(GetDocument(dom, n), "parsing")
  BY DEF Parsed, Parser, Last
<1>2. /\ m \in Nat /\ m \in 2..m /\ m \in 1..m /\ m - 1 \in 1..m /\ m - 1 # m
      /\ n \in Live(dom) /\ p \in Live(dom) /\ n \in Node /\ p \in Node
  BY <1>1 DEF TreeInv, StackAgrees, Live
<1>3. dom.parent[n] = p /\ ~Linked(dom, n)
  BY <1>2 DEF TreeInv, StackAgrees
<1>4. dom.type[p] \in Containers
  BY <1>2 DEF ContainersAround
<1>5. PICK rank, pos : Formed(dom, rank, pos)
  BY DEF TreeInv
<1>6. PICK L : ListsOf(dom, L)
  BY <1>5, ListsFound
<1>7. \/ UNCHANGED error
      \/ \E d \in Node : dom.type[d] = "document" /\ error' = Forest!Told({d}, "parsing")
  BY <1>1, <1>2, ParserTells
<1> HIDE DEF n, p
<1>8. Lists' = [L EXCEPT ![p] = Append(L[p], n)] /\ dom'.type = dom.type
  BY <1>1, <1>2, <1>3, <1>5, <1>6, EndLinked
<1>9. ForestRead(L) /\ Lists = L
  BY <1>5, <1>6, ForestIsRead, ListsHere
<1>10. n \notin Forest!Listed
  BY <1>3, <1>9 DEF ForestRead
<1>11. p \notin Forest!Tree(n)
  BY <1>2, <1>3, <1>5, <1>9, ParentAbove DEF ForestRead
<1>12. dom.type[n] # "free"
  BY <1>2 DEF Live
<1>13. Lists' = [Lists EXCEPT ![p] = Append(@, n)]
  BY <1>8, <1>9
<1>14. Forest!Parsed(p, n)
  BY <1>7, <1>8, <1>10, <1>11, <1>12, <1>13 DEF Forest!Parsed, Lists
<1> QED
  BY <1>2, <1>4, <1>14

LEMMA ParseReturnsMaps ==
  ASSUME TreeInv, ParseReturns
  PROVE  \/ UNCHANGED <<dom, error>>
         \/ \E d \in Node : dom.type[d] = "document" /\ Forest!Fail(d, "document empty")
<1> DEFINE d == parsing[1]
<1>1. /\ Len(parsing) = 1 /\ dom' = dom /\ Parser = d
      /\ UNCHANGED error \/ SetError({d}, "document empty")
  BY DEF ParseReturns, Parser, Last
<1>2. d \in Node /\ dom.type[d] = "document"
  <2>1. parsing \in Seq(Node) /\ (parsing # <<>> => dom.type[d] = "document")
    BY DEF TreeInv, StackAgrees
  <2>2. Len(parsing) = 1 /\ parsing \in Seq(Node)
    BY <1>1, <2>1
  <2>3. parsing # <<>> /\ d \in Node
    BY <2>2
  <2> QED
    BY <2>1, <2>3
<1> HIDE DEF d
<1>3. Lists' = Lists
  BY <1>1 DEF Lists, Kids
<1>4. SetError({d}, "document empty") => Forest!Fail(d, "document empty")
  BY <1>1, <1>3 DEF Forest!Fail, Forest!Told, SetError, Lists
<1> QED
  BY <1>1, <1>2, <1>4

-----------------------------------------------------------------------------
(* The refinement.                                                         *)
ForestInv == TreeInv /\ ErrorsPlaced /\ ContainersAround

(* A call of the user's, with nothing being parsed. *)
Called ==
  \/ \E n \in Node, t \in Types : Create(n, t)
  \/ \E n \in Node : Destroy(n) \/ Clear(n)
  \/ \E p, n \in Node : \/ LinkEndChild(p, n) \/ InsertEndChild(p, n) \/ RemoveChild(p, n)
                        \/ Clone(p, n) \/ Assign(p, n)
  \/ \E p, c, s \in Node : \/ InsertBeforeChild(p, c, s) \/ InsertAfterChild(p, c, s)
                           \/ ReplaceChild(p, c, s)

LEMMA CalledIdle ==
  ASSUME Called
  PROVE  parsing = <<>> /\ parsing' = <<>>
  BY DEF Called, Create, Destroy, Clear, LinkEndChild, InsertEndChild, Insert, RemoveChild, Clone,
     Assign, InsertBeforeChild, InsertAfterChild, ReplaceChild, Calls

LEMMA ErrorsStayPlaced ==
  ASSUME ErrorsPlaced, [Next]_vars
  PROVE  ErrorsPlaced'
<1>1. CASE UNCHANGED error
  BY <1>1 DEF ErrorsPlaced
<1>2. ASSUME NEW ds, NEW e, SetError(ds, e) PROVE ErrorsPlaced'
  BY <1>2 DEF SetError, ErrorsPlaced
<1>3. ASSUME NEW n, NEW e, error' = [error EXCEPT ![n] = e] PROVE ErrorsPlaced'
  BY <1>3 DEF ErrorsPlaced
<1>4. ASSUME NEW n \in Node, Destroy(n) PROVE ErrorsPlaced'
  BY <1>4 DEF Destroy, Calls, ErrorsPlaced
<1>5. ASSUME NEW p \in Node, NEW n \in Node, LinkEndChild(p, n) PROVE ErrorsPlaced'
  BY <1>5 DEF LinkEndChild, Calls, ErrorsPlaced
<1>6. ASSUME NEW p \in Node, NEW s \in Node,
             \/ InsertEndChild(p, s)
             \/ \E c \in Node : \/ InsertBeforeChild(p, c, s) \/ InsertAfterChild(p, c, s)
                                \/ ReplaceChild(p, c, s)
      PROVE  ErrorsPlaced'
  <2>1. UNCHANGED error \/ SetError(GetDocument(dom, p), "document top only")
    BY <1>6 DEF InsertEndChild, InsertBeforeChild, InsertAfterChild, ReplaceChild, Insert, Calls
  <2> QED
    BY <1>1, <1>2, <2>1
<1>7. ASSUME NEW n \in Node, NEW s \in Node, Clone(s, n) \/ Assign(n, s) PROVE ErrorsPlaced'
  <2>1. error' = [error EXCEPT ![n] = error[s]]
    BY <1>7 DEF Clone, Assign, Calls
  <2> QED
    BY <1>3, <2>1
<1>8. ASSUME NEW d \in Node, Parse(d) \/ LoadFile(d) PROVE ErrorsPlaced'
  <2>1. (\E e : error' = [error EXCEPT ![d] = e]) \/ SetError({d}, "document empty")
    BY <1>8 DEF Parse, LoadFile
  <2> QED
    BY <1>2, <1>3, <2>1
<1>9. ASSUME NEW n \in Node, ReadText(n) PROVE ErrorsPlaced'
  <2>1. UNCHANGED error \/ SetError(GetDocument(dom, Parser), "parsing")
    BY <1>9 DEF ReadText
  <2> QED
    BY <1>1, <1>2, <2>1
<1>10. CASE Parsed
  <2>1. UNCHANGED error \/ SetError(GetDocument(dom, Parser), "parsing")
    BY <1>10 DEF Parsed
  <2> QED
    BY <1>1, <1>2, <2>1
<1>11. CASE ParseReturns
  <2>1. UNCHANGED error \/ SetError({Parser}, "document empty")
    BY <1>11 DEF ParseReturns
  <2> QED
    BY <1>1, <1>2, <2>1
<1>12. ASSUME NEW n \in Node, NEW t \in Types, Create(n, t) \/ Identify(n, t) PROVE ErrorsPlaced'
  BY <1>1, <1>12 DEF Create, Identify, Calls
<1>13. ASSUME NEW p \in Node, NEW r \in Node, Clear(p) \/ RemoveChild(p, r) PROVE ErrorsPlaced'
  BY <1>1, <1>13 DEF Clear, RemoveChild, Calls
<1>14. CASE UNCHANGED vars
  BY <1>1, <1>14 DEF vars
<1> QED
  BY <1>4, <1>5, <1>6, <1>7, <1>8, <1>9, <1>10, <1>11, <1>12, <1>13, <1>14 DEF Next

LEMMA ContainersStayAround ==
  ASSUME TreeInv, ContainersAround, [Next]_vars
  PROVE  ContainersAround'
<1> DEFINE m == Len(parsing)
<1>1. /\ parsing \in Seq(Node) /\ m \in Nat
      /\ \A i \in 1..m : parsing[i] \in Node /\ parsing[i] \notin Unused(dom)
  BY DEF TreeInv, StackAgrees, Live, Unused
<1>2. CASE parsing' = <<>>
  BY <1>2 DEF ContainersAround
<1>3. CASE Called
  BY <1>2, <1>3, CalledIdle
<1>4. ASSUME NEW d \in Node, Parse(d) \/ LoadFile(d) PROVE ContainersAround'
  <2>1. parsing' = <<d>> \/ parsing' = <<>>
    BY <1>4 DEF Parse, LoadFile
  <2>2. parsing' = <<d>> => Len(parsing') = 1 /\ \A i \in 1..1 : i = 1
    OBVIOUS
  <2>3. CASE parsing' = <<d>>
    BY <2>2, <2>3 DEF ContainersAround
  <2> QED
    BY <1>2, <2>1, <2>3
<1>5. ASSUME NEW n \in Node, NEW t \in Types, Identify(n, t) PROVE ContainersAround'
  <2>1. /\ parsing # <<>> /\ dom.type[parsing[m]] \in Containers /\ n \in Unused(dom)
        /\ dom'.type = [dom.type EXCEPT ![n] = t] /\ parsing' = Append(parsing, n)
    BY <1>5 DEF Identify, Parses, Parser, Last, New
  <2>2. Len(parsing') = m + 1 /\ \A i \in 1..m : parsing'[i] = parsing[i]
    BY <1>1, <2>1
  <2>3. \A i \in 1..m : dom.type[parsing[i]] \in Containers
    BY <2>1 DEF ContainersAround
  <2>4. \A i \in 1..m : dom'.type[parsing'[i]] = dom.type[parsing[i]]
    BY <1>1, <2>1, <2>2
  <2>5. \A i \in 1..m + 1 : i # m + 1 => i \in 1..m
    BY <1>1
  <2> QED
    BY <2>2, <2>3, <2>4, <2>5 DEF ContainersAround
<1>6. ASSUME NEW n \in Node, ReadText(n) PROVE ContainersAround'
  <2>1. n \in Unused(dom) /\ dom'.type = [dom.type EXCEPT ![n] = "text"] /\ parsing' = parsing
    BY <1>6 DEF ReadText, New, LinkEnd
  <2>2. \A i \in 1..m : dom'.type[parsing'[i]] = dom.type[parsing[i]]
    BY <1>1, <2>1
  <2> QED
    BY <2>1, <2>2 DEF ContainersAround
<1>7. CASE Parsed
  <2>1. m > 1 /\ dom'.type = dom.type /\ parsing' = Front(parsing)
    BY <1>7 DEF Parsed, LinkEnd
  <2>2. Len(parsing') = m - 1 /\ \A i \in 1..m - 1 : parsing'[i] = parsing[i] /\ i \in 1..m /\ i # m
    BY <1>1, <2>1 DEF Front
  <2> HIDE DEF m
  <2>3. \A i \in 1..m - 1 : dom'.type[parsing'[i]] \in Containers
    BY <2>1, <2>2 DEF ContainersAround, m
  <2> QED
    BY <2>2, <2>3 DEF ContainersAround
<1>8. CASE ParseReturns
  BY <1>2, <1>8 DEF ParseReturns
<1>9. CASE UNCHANGED vars
  BY <1>9 DEF vars, ContainersAround
<1> QED
  BY <1>3, <1>4, <1>5, <1>6, <1>7, <1>8, <1>9 DEF Next, Called

LEMMA ForestInvInit ==
  Init => ForestInv
<1> SUFFICES ASSUME Init PROVE ForestInv
  OBVIOUS
<1>1. ErrorsPlaced /\ ContainersAround
  BY DEF Init, Clean, ErrorsPlaced, ContainersAround
<1> QED
  BY <1>1, TreeInit DEF ForestInv

LEMMA ForestInvNext ==
  ForestInv /\ [Next]_vars => ForestInv'
  BY TreeNext, ErrorsStayPlaced, ContainersStayAround DEF ForestInv

(* Nothing is anywhere at first. *)
LEMMA ForestBegins ==
  Init => Forest!ForestInit
<1> SUFFICES ASSUME Init PROVE Forest!ForestInit
  OBVIOUS
<1>1. PICK rank, pos : Formed(dom, rank, pos)
  BY TreeInit DEF TreeInv
<1>2. PICK L : ListsOf(dom, L)
  BY <1>1, ListsFound
<1>3. \A p \in Node : L[p] = <<>>
  <2>1. \A p \in Node : dom.firstChild[p] = Null
    BY DEF Init, Clean
  <2> QED
    BY <1>2, <2>1, ListEmpty
<1>4. Lists = [p \in Node |-> <<>>]
  <2>1. Lists = L /\ L = [p \in Node |-> L[p]]
    BY <1>2, ListsHere DEF ListsOf
  <2> QED
    BY <1>3, <2>1, Zenon
<1>5. dom.type = [n \in Node |-> "free"] /\ error = [n \in Node |-> Null]
  BY DEF Init, Clean
<1> QED
  BY <1>4, <1>5 DEF Forest!ForestInit, Lists

LEMMA ForestSteps ==
  ForestInv /\ [Next]_vars => [Forest!ForestNext]_(Forest!forestVars)
<1> SUFFICES ASSUME ForestInv, [Next]_vars PROVE Forest!ForestNext \/ UNCHANGED Forest!forestVars
  OBVIOUS
<1>1. TreeInv /\ ErrorsPlaced /\ ContainersAround
  BY DEF ForestInv
<1>2. CASE UNCHANGED <<dom, error>>
  <2>1. Lists' = Lists
    BY <1>2 DEF Lists, Kids
  <2> QED
    BY <1>2, <2>1 DEF Forest!forestVars, Lists
<1>3. ASSUME NEW n \in Node, NEW t \in Types, Create(n, t) \/ Identify(n, t) PROVE Forest!ForestNext
  BY <1>1, <1>3, CreateMaps DEF Forest!ForestNext, Types, Forest!Types
<1>4. ASSUME NEW n \in Node, Destroy(n) PROVE Forest!ForestNext
  BY <1>1, <1>4, DestroyMaps DEF Forest!ForestNext
<1>5. ASSUME NEW p \in Node, Clear(p) PROVE Forest!ForestNext
  <2>1. parsing = <<>> /\ dom.type[p] \in Containers /\ dom' = Cleared(dom, p) /\ UNCHANGED error
    BY <1>5 DEF Clear, Calls, Container
  <2>2. Forest!Clear(p)
    BY <1>1, <2>1, ClearMaps
  <2> QED
    BY <2>1, <2>2 DEF Forest!ForestNext, Containers, Forest!Containers
<1>6. ASSUME NEW p \in Node, NEW n \in Node, LinkEndChild(p, n) PROVE Forest!ForestNext
  BY <1>1, <1>6, LinkMaps DEF Forest!ForestNext, Containers, Forest!Containers
<1>7. ASSUME NEW p \in Node, NEW s \in Node,
             \/ InsertEndChild(p, s)
             \/ \E c \in Node : InsertBeforeChild(p, c, s) \/ InsertAfterChild(p, c, s)
      PROVE  Forest!ForestNext
  BY <1>1, <1>7, InsertMaps DEF Forest!ForestNext, Containers, Forest!Containers
<1>8. ASSUME NEW p \in Node, NEW r \in Node, NEW s \in Node, ReplaceChild(p, r, s)
      PROVE  Forest!ForestNext
  BY <1>1, <1>8, ReplaceMaps DEF Forest!ForestNext, Containers, Forest!Containers
<1>9. ASSUME NEW p \in Node, NEW r \in Node, RemoveChild(p, r) PROVE Forest!ForestNext
  BY <1>1, <1>9, RemoveMaps DEF Forest!ForestNext
<1>10. ASSUME NEW s \in Node, NEW n \in Node, Clone(s, n) PROVE Forest!ForestNext
  BY <1>1, <1>10, CloneMaps DEF Forest!ForestNext
<1>11. ASSUME NEW n \in Node, NEW s \in Node, Assign(n, s) PROVE Forest!ForestNext
  BY <1>1, <1>11, AssignMaps DEF Forest!ForestNext, Containers, Forest!Containers
<1>12. ASSUME NEW d \in Node, Parse(d) \/ LoadFile(d) PROVE Forest!ForestNext
  BY <1>1, <1>12, StartMaps DEF Forest!ForestNext
<1>13. ASSUME NEW n \in Node, ReadText(n) PROVE Forest!ForestNext
  BY <1>1, <1>13, ReadTextMaps DEF Forest!ForestNext, Containers, Forest!Containers
<1>14. CASE Parsed
  BY <1>1, <1>14, ParsedMaps DEF Forest!ForestNext, Containers, Forest!Containers
<1>15. CASE ParseReturns
  <2>1. ASSUME NEW d \in Node, dom.type[d] = "document", Forest!Fail(d, "document empty")
        PROVE  Forest!ForestNext
    BY <2>1 DEF Forest!ForestNext
  <2> QED
    BY <1>1, <1>2, <1>15, <2>1, ParseReturnsMaps
<1>16. CASE UNCHANGED vars
  BY <1>2, <1>16 DEF vars
<1> QED
  BY <1>3, <1>4, <1>5, <1>6, <1>7, <1>8, <1>9, <1>10, <1>11, <1>12, <1>13, <1>14, <1>15, <1>16 DEF Next

(* The nodes and their pointers implement the ordered trees of XmlForest:   *)
(* whatever TiXmlNode, TiXmlElement, TiXmlDocument and the parser do to the *)
(* pointers is one operation on trees, or nothing.                         *)
THEOREM ForestImplemented ==
  Spec => ImplementsForest
<1>1. Spec => []ForestInv
  BY ForestInvInit, ForestInvNext, PTL DEF Spec
<1> QED
  BY <1>1, ForestBegins, ForestSteps, PTL DEF Spec, ImplementsForest, Forest!ForestSpec
===============================================================================
