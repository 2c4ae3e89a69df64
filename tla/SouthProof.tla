------------------------------ MODULE SouthProof ------------------------------
(***************************************************************************)
(* Proofs about South.  OneOwner is not inductive: it looks at a list only *)
(* through Path, and says nothing of _cru, _curmon and the counters, on    *)
(* which the next step relies.  The inductive invariant HeapInv says that  *)
(* there are sequences, one of targets for each monitor (lists) and one of *)
(* the device's monitors (order), which the pointers link without a        *)
(* repetition; that each allocated target is in exactly one of them; that  *)
(* the counters are their lengths; and that _cru and _curmon, where they   *)
(* point into their list, point to its last element.  That last clause is  *)
(* all the code keeps: after the last element is deleted they point to     *)
(* freed memory, which the caller's rule AddsAfterTailDeletion = FALSE     *)
(* covers.  Each action comes with the sequences of the next state         *)
(* (Append, RemoveAt, Without), so the same lemmas show which step of      *)
(* SouthLists it is.                                                       *)
(***************************************************************************)
EXTENDS South, FiniteSetTheorems, WellFoundedInduction, TLAPS

(* The linked list that begins at head consists of the elements of s. *)
Listing(s, S, head, cell) ==
  /\ s \in Seq(S)
  /\ \A i, j \in 1 .. Len(s) : s[i] = s[j] => i = j
  /\ head = IF s = <<>> THEN Null ELSE s[1]
  /\ \A i \in 1 .. Len(s) : cell[s[i]]._next = IF i = Len(s) THEN Null ELSE s[i + 1]

-----------------------------------------------------------------------------
LEMMA LeastNatural ==
  ASSUME NEW A \in SUBSET Nat, A # {}
  PROVE  \E m \in A : \A k \in A : m <= k
<1> DEFINE R == OpToRel(<, Nat)
<1>1. \A x, y \in Nat : <<x, y>> \in R <=> x < y
  BY DEF OpToRel
<1>2. IsWellFoundedOn(R, Nat)
  BY NatLessThanWellFounded
<1> HIDE DEF R
<1>3. PICK x \in A : \A y \in A : <<y, x>> \notin R
  BY <1>2, WFMin, Zenon
<1>4. \A y \in A : x <= y
  <2> TAKE y \in A
  <2>1. x \in Nat /\ y \in Nat
    OBVIOUS
  <2>2. <<y, x>> \notin R
    BY <1>3
  <2>3. ~ (y < x)
    BY <1>1, <2>1, <2>2, Zenon
  <2> QED
    BY <2>1, <2>3
<1> QED
  BY <1>4

LEMMA IntervalSize ==
  ASSUME NEW n \in Nat
  PROVE  IsFiniteSet(1 .. n) /\ Cardinality(1 .. n) = n
  BY FS_Interval

(* No list is longer than the memory has cells. *)
LEMMA ShortEnough ==
  ASSUME NEW S, IsFiniteSet(S), NEW s \in Seq(S),
         \A i, j \in 1 .. Len(s) : s[i] = s[j] => i = j
  PROVE  /\ Len(s) <= Cardinality(S) /\ Cardinality(S) \in Nat
<1> DEFINE I == 1 .. Len(s)
<1>1. Len(s) \in Nat /\ s \in [I -> S]
  OBVIOUS
<1>2. IsFiniteSet(I) /\ Cardinality(I) = Len(s)
  BY <1>1, IntervalSize
<1>3. s \in Injection(I, S)
  BY <1>1 DEF Injection, IsInjective
<1>4. Cardinality(I) <= Cardinality(S)
  BY <1>2, <1>3, FS_Injection
<1> QED
  BY <1>2, <1>4, FS_CardinalityType

(* A traversal of a list meets its elements in order. *)
LEMMA PathIsList ==
  ASSUME NEW S, IsFiniteSet(S), Null \notin S, NEW cell, DOMAIN cell = S,
         NEW head, NEW s, Listing(s, S, head, cell)
  PROVE  Path(head, cell) = s
<1> DEFINE n == Cardinality(DOMAIN cell) + 1
           step(at) == [i \in 1 .. n |->
                         IF i = 1 THEN head
                         ELSE LET previous == at[i - 1]
                              IN  IF previous = Null THEN Null ELSE cell[previous]._next]
           found == CHOOSE at : at = step(at)
           walk == [i \in 1 .. n |-> IF i <= Len(s) THEN s[i] ELSE Null]
           length == Cardinality({i \in 1 .. n : found[i] # Null})
<1>1. /\ s \in Seq(S) /\ Len(s) \in Nat /\ \A i \in 1 .. Len(s) : s[i] \in S /\ s[i] # Null
      /\ n \in Nat /\ Len(s) < n
  BY ShortEnough DEF Listing
<1>2. walk = step(walk)
  <2>1. ASSUME NEW i \in 1 .. n PROVE walk[i] = step(walk)[i]
    <3>1. CASE i = 1
      BY <1>1, <3>1 DEF Listing
    <3>2. CASE i # 1 /\ i <= Len(s)
      BY <1>1, <3>2 DEF Listing
    <3>3. CASE i # 1 /\ ~(i <= Len(s))
      <4>1. CASE i - 1 <= Len(s)
        BY <1>1, <3>3, <4>1 DEF Listing
      <4>2. CASE ~(i - 1 <= Len(s))
        BY <1>1, <3>3, <4>2
      <4> QED
        BY <4>1, <4>2
    <3> QED
      BY <3>1, <3>2, <3>3
  <2> QED
    BY <2>1
<1>3. found = step(found)
  BY <1>2, Zenon
<1> HIDE DEF found
<1>4. ASSUME NEW i \in 1 .. n, found[i] # walk[i]
      PROVE  FALSE
  <2> DEFINE A == {k \in 1 .. n : found[k] # walk[k]}
  <2>0. A \in SUBSET Nat /\ A # {}
    <3>1. A \in SUBSET (1 .. n) /\ i \in A
      BY <1>4, Zenon
    <3>2. 1 .. n \subseteq Nat
      BY <1>1
    <3> QED
      BY <3>1, <3>2, Zenon
  <2>1. PICK m \in A : \A k \in A : m <= k
    BY <2>0, LeastNatural
  <2>2. m = 1 \/ (m > 1 /\ found[m - 1] = walk[m - 1])
    BY <2>1, <1>1
  <2>3. found[m] = step(found)[m] /\ walk[m] = step(walk)[m]
    BY <1>2, <1>3
  <2> QED
    BY <2>1, <2>2, <2>3
<1>5. \A i \in 1 .. n : found[i] = walk[i]
  BY <1>4
<1>6. {i \in 1 .. n : found[i] # Null} = 1 .. Len(s)
  BY <1>1, <1>5
<1>7. length = Len(s)
  <2>1. Cardinality(1 .. Len(s)) = Len(s)
    BY <1>1, IntervalSize, Zenon
  <2> QED
    BY <1>6, <2>1
<1>8. [i \in 1 .. length |-> found[i]] = s
  <2>1. \A i \in 1 .. Len(s) : found[i] = s[i]
    BY <1>1, <1>5
  <2>2. s = [i \in 1 .. Len(s) |-> s[i]]
    BY <1>1
  <2>3. [i \in 1 .. Len(s) |-> found[i]] = s
    BY <2>1, <2>2, Zenon
  <2> QED
    BY <1>7, <2>3
<1>9. Path(head, cell) = [i \in 1 .. length |-> found[i]]
  BY Zenon DEF Path, found
<1> QED
  BY <1>8, <1>9

-----------------------------------------------------------------------------
(* Sequences and the lists they stand for.                                 *)

LEMMA MembersOf ==
  ASSUME NEW S, NEW s \in Seq(S)
  PROVE  /\ Len(s) \in Nat /\ (s = <<>> <=> Len(s) = 0)
         /\ \A i \in 1 .. Len(s) : s[i] \in S /\ s[i] \in ToSet(s)
         /\ \A x \in ToSet(s) : x \in S /\ \E i \in 1 .. Len(s) : s[i] = x
  BY DEF ToSet

\* An element that is appended to a sequence, or taken from it.
LEMMA AppendedTo ==
  ASSUME NEW S, NEW s \in Seq(S), NEW x \in S
  PROVE  /\ Append(s, x) \in Seq(S) /\ Len(Append(s, x)) = Len(s) + 1
         /\ Append(s, x)[Len(s) + 1] = x /\ Append(s, x) # <<>>
         /\ \A i \in 1 .. Len(s) : Append(s, x)[i] = s[i]
         /\ ToSet(Append(s, x)) = ToSet(s) \cup {x}
<1> DEFINE a == Append(s, x)
<1>1. /\ a \in Seq(S) /\ Len(a) = Len(s) + 1 /\ Len(s) \in Nat
      /\ a[Len(s) + 1] = x /\ \A i \in 1 .. Len(s) : a[i] = s[i]
  OBVIOUS
<1> HIDE DEF a
<1>2. ASSUME NEW y \in ToSet(a) PROVE y \in ToSet(s) \cup {x}
  <2>1. PICK i \in 1 .. Len(a) : a[i] = y
    BY <1>1, MembersOf
  <2>2. CASE i = Len(s) + 1
    BY <1>1, <2>1, <2>2
  <2>3. CASE i \in 1 .. Len(s)
    BY <1>1, <2>1, <2>3, MembersOf
  <2> QED
    BY <1>1, <2>1, <2>2, <2>3
<1>3. ASSUME NEW y \in ToSet(s) PROVE y \in ToSet(a)
  <2>1. PICK i \in 1 .. Len(s) : s[i] = y
    BY MembersOf
  <2> QED
    BY <1>1, <2>1, MembersOf
<1>4. x \in ToSet(a) /\ a # <<>>
  BY <1>1, MembersOf
<1> QED
  BY <1>1, <1>2, <1>3, <1>4 DEF a

LEMMA JoinedTo ==
  ASSUME NEW S, NEW a \in Seq(S), NEW b \in Seq(S)
  PROVE  a \o b \in Seq(S) /\ Len(a \o b) = Len(a) + Len(b)
  OBVIOUS

LEMMA RemovedFrom ==
  ASSUME NEW S, NEW s \in Seq(S), NEW i \in 1 .. Len(s)
  PROVE  /\ RemoveAt(s, i) \in Seq(S) /\ Len(RemoveAt(s, i)) = Len(s) - 1
         /\ \A j \in 1 .. Len(s) - 1 : RemoveAt(s, i)[j] = IF j < i THEN s[j] ELSE s[j + 1]
         /\ ToSet(s) \ {s[i]} \subseteq ToSet(RemoveAt(s, i))
         /\ ToSet(RemoveAt(s, i)) \subseteq ToSet(s)
<1> DEFINE r == RemoveAt(s, i)
           a == SubSeq(s, 1, i - 1)
           b == SubSeq(s, i + 1, Len(s))
<1>1. Len(s) \in Nat /\ i \in Nat
  OBVIOUS
<1>2. a \in Seq(S) /\ Len(a) = i - 1 /\ \A j \in 1 .. i - 1 : a[j] = s[j]
  BY <1>1
<1>3. b \in Seq(S) /\ Len(b) = Len(s) - i /\ \A j \in 1 .. Len(s) - i : b[j] = s[j + i]
  BY <1>1
<1> HIDE DEF a, b
<1>4. r = a \o b
  BY DEF RemoveAt, a, b
<1> HIDE DEF r
<1>5. r \in Seq(S) /\ Len(r) = Len(s) - 1
  <2>1. a \o b \in Seq(S) /\ Len(a \o b) = Len(a) + Len(b)
    BY <1>2, <1>3, JoinedTo, Zenon
  <2>2. r \in Seq(S)
    BY <1>4, <2>1
  <2> QED
    BY <1>1, <1>2, <1>3, <1>4, <2>1, <2>2
<1>6. ASSUME NEW j \in 1 .. Len(s) - 1 PROVE r[j] = IF j < i THEN s[j] ELSE s[j + 1]
  <2>1. CASE j < i
    BY <1>1, <1>2, <1>3, <1>4, <2>1
  <2>2. CASE ~(j < i)
    <3>1. r[j] = b[j - (i - 1)] /\ j - (i - 1) \in 1 .. Len(s) - i
      BY <1>1, <1>2, <1>3, <1>4, <2>2
    <3> QED
      BY <1>1, <1>3, <2>2, <3>1
  <2> QED
    BY <2>1, <2>2
<1>7. ASSUME NEW x \in ToSet(r) PROVE x \in ToSet(s)
  <2>1. PICK j \in 1 .. Len(r) : r[j] = x
    BY <1>5, MembersOf
  <2>2. j \in 1 .. Len(s) - 1 /\ j \in 1 .. Len(s) /\ j + 1 \in 1 .. Len(s)
    BY <1>1, <1>5
  <2> QED
    BY <1>6, <2>1, <2>2, MembersOf
<1>8. ASSUME NEW x \in ToSet(s) \ {s[i]} PROVE x \in ToSet(r)
  <2>1. PICK j \in 1 .. Len(s) : s[j] = x
    BY MembersOf
  <2>2. CASE j < i
    <3>1. j \in 1 .. Len(s) - 1 /\ r[j] = x
      BY <1>1, <1>6, <2>1, <2>2
    <3> QED
      BY <1>5, <3>1, MembersOf
  <2>3. CASE j > i
    <3>1. j - 1 \in 1 .. Len(s) - 1 /\ r[j - 1] = x
      BY <1>1, <1>6, <2>1, <2>3
    <3> QED
      BY <1>5, <3>1, MembersOf
  <2> QED
    BY <1>1, <2>1, <2>2, <2>3
<1> QED
  BY <1>5, <1>6, <1>7, <1>8 DEF r

\* A pointer to the end of a list, if it points into the list.
EndsAt(s, c) == c \in ToSet(s) => c = s[Len(s)]

\* Writing elsewhere, or other fields, leaves a list as it is.
LEMMA SameListing ==
  ASSUME NEW S, NEW s, NEW head, NEW cell, Listing(s, S, head, cell),
         NEW after, \A x \in ToSet(s) : after[x]._next = cell[x]._next
  PROVE  Listing(s, S, head, after)
  BY MembersOf DEF Listing

\* A list of one element.
LEMMA SingleListing ==
  ASSUME NEW S, NEW x \in S, NEW cell, cell[x]._next = Null
  PROVE  Listing(<<x>>, S, x, cell) /\ ToSet(<<x>>) = {x} /\ <<x>> # <<>>
  BY DEF Listing, ToSet

\* The next pointer of the last element is set to a new one.
LEMMA AppendedListing ==
  ASSUME NEW S, NEW s, NEW head, NEW cell, Listing(s, S, head, cell), s # <<>>,
         NEW x \in S \ ToSet(s), NEW after,
         after[s[Len(s)]]._next = x, after[x]._next = Null,
         \A y \in ToSet(s) : y # s[Len(s)] => after[y]._next = cell[y]._next
  PROVE  Listing(Append(s, x), S, head, after)
<1> DEFINE a == Append(s, x)
<1>1. /\ s \in Seq(S) /\ Len(s) \in Nat \ {0}
      /\ \A i \in 1 .. Len(s) : s[i] \in ToSet(s) /\ s[i] # x
  BY MembersOf DEF Listing
<1>2. /\ a \in Seq(S) /\ Len(a) = Len(s) + 1 /\ a[Len(s) + 1] = x /\ a # <<>>
      /\ \A i \in 1 .. Len(s) : a[i] = s[i]
  BY <1>1, AppendedTo
<1> HIDE DEF a
<1>3. \A i, j \in 1 .. Len(a) : a[i] = a[j] => i = j
  BY <1>1, <1>2 DEF Listing
<1>4. head = IF a = <<>> THEN Null ELSE a[1]
  BY <1>1, <1>2 DEF Listing
<1>5. ASSUME NEW i \in 1 .. Len(a)
      PROVE  after[a[i]]._next = IF i = Len(a) THEN Null ELSE a[i + 1]
  <2>1. CASE i = Len(s) + 1
    BY <1>2, <2>1
  <2>2. CASE i = Len(s)
    BY <1>1, <1>2, <2>2
  <2>3. CASE i \in 1 .. Len(s) - 1
    BY <1>1, <1>2, <2>3 DEF Listing
  <2> QED
    BY <1>1, <1>2, <2>1, <2>2, <2>3
<1> QED
  BY <1>2, <1>3, <1>4, <1>5 DEF Listing, a

\* The i-th element is taken out of a list, the first by changing its head.
Unlinked(s, i, S, top, cell) ==
  /\ Listing(RemoveAt(s, i), S, top, cell)
  /\ ToSet(RemoveAt(s, i)) = ToSet(s) \ {s[i]}
  /\ Len(RemoveAt(s, i)) = Len(s) - 1
  /\ \A c : EndsAt(s, c) => EndsAt(RemoveAt(s, i), c)

\* The writes that do it.
Unlinks(s, i, head, cell, top, after) ==
  /\ i \in 1 .. Len(s)
  /\ top = IF i = 1 THEN cell[s[i]]._next ELSE head
  /\ i > 1 => after[s[i - 1]]._next = cell[s[i]]._next
  /\ \A y \in ToSet(s) : y # s[i] /\ (i > 1 => y # s[i - 1])
                           => after[y]._next = cell[y]._next

LEMMA UnlinkedListing ==
  ASSUME NEW S, NEW s, NEW head, NEW cell, Listing(s, S, head, cell),
         NEW i, NEW top, NEW after, Unlinks(s, i, head, cell, top, after)
  PROVE  Unlinked(s, i, S, top, after)
<1> DEFINE r == RemoveAt(s, i)
<1> USE DEF Unlinks
<1>1. /\ s \in Seq(S) /\ Len(s) \in Nat \ {0} /\ i \in Nat /\ i \in 1 .. Len(s)
      /\ \A j \in 1 .. Len(s) : s[j] \in ToSet(s)
      /\ \A j, k \in 1 .. Len(s) : s[j] = s[k] => j = k
  BY MembersOf DEF Listing
<1>2. /\ r \in Seq(S) /\ Len(r) = Len(s) - 1
      /\ \A j \in 1 .. Len(s) - 1 : r[j] = IF j < i THEN s[j] ELSE s[j + 1]
      /\ ToSet(s) \ {s[i]} \subseteq ToSet(r) /\ ToSet(r) \subseteq ToSet(s)
  BY <1>1, RemovedFrom
<1> HIDE DEF r
<1>3. \A j, k \in 1 .. Len(r) : r[j] = r[k] => j = k
  <2>1. ASSUME NEW j \in 1 .. Len(r)
        PROVE  /\ j < i => r[j] = s[j] /\ j \in 1 .. Len(s)
               /\ ~(j < i) => r[j] = s[j + 1] /\ j + 1 \in 1 .. Len(s)
    BY <1>1, <1>2
  <2> TAKE j, k \in 1 .. Len(r)
  <2>2. j \in Nat /\ k \in Nat
    OBVIOUS
  <2> HAVE r[j] = r[k]
  <2> QED
    BY <1>1, <2>1, <2>2
<1>4. s[i] \notin ToSet(r)
  <2> SUFFICES ASSUME NEW j \in 1 .. Len(r), r[j] = s[i] PROVE FALSE
    BY <1>2, MembersOf
  <2> QED
    BY <1>1, <1>2
<1>5. top = IF r = <<>> THEN Null ELSE r[1]
  <2>1. r = <<>> <=> Len(s) = 1
    BY <1>1, <1>2
  <2>2. CASE i = 1
    BY <1>1, <1>2, <2>1, <2>2 DEF Listing
  <2>3. CASE i # 1
    BY <1>1, <1>2, <2>1, <2>3 DEF Listing
  <2> QED
    BY <2>2, <2>3
<1>6. ASSUME NEW j \in 1 .. Len(r)
      PROVE  after[r[j]]._next = IF j = Len(r) THEN Null ELSE r[j + 1]
  <2>1. CASE j < i - 1
    <3>1. /\ r[j] = s[j] /\ r[j + 1] = s[j + 1] /\ j # Len(r)
          /\ s[j] # s[i] /\ s[j] # s[i - 1] /\ j \in 1 .. Len(s) /\ j # Len(s)
      BY <1>1, <1>2, <2>1
    <3>2. after[s[j]]._next = cell[s[j]]._next
      BY <1>1, <3>1
    <3> QED
      BY <3>1, <3>2 DEF Listing
  <2>2. CASE j = i - 1
    <3>1. /\ i > 1 /\ r[j] = s[i - 1] /\ (j = Len(r) <=> i = Len(s))
          /\ j # Len(r) => r[j + 1] = s[i + 1]
      BY <1>1, <1>2, <2>2
    <3> QED
      BY <3>1 DEF Listing
  <2>3. CASE j >= i
    <3>1. /\ j \in 1 .. Len(s) - 1 /\ j + 1 \in 1 .. Len(s)
          /\ (j = Len(r) <=> j + 1 = Len(s)) /\ ~(j < i) /\ ~(j + 1 < i)
          /\ j # Len(r) => j + 1 \in 1 .. Len(s) - 1 /\ (j + 1) + 1 = j + 2
      BY <1>1, <1>2, <2>3
    <3>2. s[j + 1] # s[i]
      BY <1>1, <2>3, <3>1
    <3>3. i > 1 => s[j + 1] # s[i - 1]
      <4>1. i > 1 => i - 1 \in 1 .. Len(s) /\ i - 1 # j + 1
        BY <1>1, <2>3, <3>1
      <4> QED
        BY <1>1, <3>1, <4>1
    <3>4. /\ r[j] = s[j + 1] /\ j + 1 \in 1 .. Len(s) /\ (j = Len(r) <=> j + 1 = Len(s))
          /\ j # Len(r) => r[j + 1] = s[j + 2]
          /\ s[j + 1] # s[i] /\ (i > 1 => s[j + 1] # s[i - 1])
      BY <1>2, <3>1, <3>2, <3>3
    <3>5. after[s[j + 1]]._next = cell[s[j + 1]]._next
      BY <1>1, <3>4
    <3>6. cell[s[j + 1]]._next = IF j + 1 = Len(s) THEN Null ELSE s[(j + 1) + 1]
      BY <3>4 DEF Listing
    <3> QED
      BY <1>1, <1>2, <3>4, <3>5, <3>6
  <2> QED
    BY <1>1, <1>2, <2>1, <2>2, <2>3
<1>7. ASSUME NEW c, EndsAt(s, c), c \in ToSet(r) PROVE c = r[Len(r)]
  <2>1. c = s[Len(s)] /\ c # s[i] /\ Len(r) \in Nat \ {0}
    BY <1>2, <1>4, <1>7, MembersOf DEF EndsAt
  <2>2. i # Len(s)
    BY <2>1
  <2> QED
    BY <1>1, <1>2, <2>1, <2>2
<1> QED
  BY <1>2, <1>3, <1>4, <1>5, <1>6, <1>7 DEF Unlinked, Listing, EndsAt, r

-----------------------------------------------------------------------------
(* The inductive invariant: each monitor's list and the device's as a      *)
(* sequence.                                                               *)

TargetsHold(lists) ==
  /\ lists \in [M -> Seq(T)]
  /\ \A m \in M : m \in mlive <=> lists[m] # <<>>
  /\ \A m \in mlive :
       /\ Listing(lists[m], T, mon[m]._target, tgt)
       /\ mon[m]._itarget = Len(lists[m])
       /\ EndsAt(lists[m], mon[m]._cru)

OwnersHold(lists) ==
  /\ \A m \in mlive : ToSet(lists[m]) \subseteq tlive
  /\ \A t \in tlive : \E m \in mlive : t \in ToSet(lists[m])
  /\ \A m, o \in mlive : m # o => ToSet(lists[m]) \cap ToSet(lists[o]) = {}

DeviceHolds(order) ==
  /\ order \in Seq(M)
  /\ IF dev = Null THEN order = <<>>
     ELSE /\ Listing(order, M, dev._monitor, mon)
          /\ dev._imonitor = Len(order)
          /\ EndsAt(order, dev._curmon)
  /\ ToSet(order) \subseteq mlive
  /\ \A m \in mlive \ ToSet(order) : mon[m]._next = Null

Holds(lists, order) ==
  TypeOK /\ Defined /\ TargetsHold(lists) /\ OwnersHold(lists) /\ DeviceHolds(order)

HeapInv == \E lists, order : Holds(lists, order)

-----------------------------------------------------------------------------
(* What a traversal finds are these sequences. *)
LEMMA PathsAre ==
  ASSUME NEW lists, NEW order, Holds(lists, order)
  PROVE  /\ \A m \in mlive : TargetsOf(m) = lists[m]
         /\ MonitorsOf = order /\ Listed = ToSet(order)
         /\ \A ms \in SUBSET mlive : OwnTargets(ms) = UNION {ToSet(lists[m]) : m \in ms}
<1>1. DOMAIN tgt = T /\ DOMAIN mon = M /\ Null \notin T /\ Null \notin M
  BY NullAssumption DEF Holds, TypeOK
<1>2. ASSUME NEW m \in mlive PROVE TargetsOf(m) = lists[m]
  <2>1. Listing(lists[m], T, mon[m]._target, tgt)
    BY DEF Holds, TargetsHold
  <2> QED
    BY <1>1, <2>1, MemoryAssumption, PathIsList DEF TargetsOf
<1>3. MonitorsOf = order
  <2>1. CASE dev = Null
    BY <2>1 DEF MonitorsOf, Holds, DeviceHolds
  <2>2. CASE dev # Null
    <3>1. Listing(order, M, dev._monitor, mon)
      BY <2>2 DEF Holds, DeviceHolds
    <3> QED
      BY <1>1, <2>2, <3>1, MemoryAssumption, PathIsList DEF MonitorsOf
  <2> QED
    BY <2>1, <2>2
<1>4. ASSUME NEW ms \in SUBSET mlive
      PROVE  OwnTargets(ms) = UNION {ToSet(lists[m]) : m \in ms}
  <2>1. \A m \in ms : ToSet(TargetsOf(m)) = ToSet(lists[m])
    BY <1>2
  <2> HIDE DEF TargetsOf
  <2> QED
    BY <2>1 DEF OwnTargets
<1> QED
  BY <1>2, <1>3, <1>4 DEF Listed

-----------------------------------------------------------------------------
(* What is allocated has its structure.                                    *)
LEMMA Structures ==
  ASSUME TypeOK
  PROVE  /\ mlive \subseteq M /\ tlive \subseteq T
         /\ \A m \in mlive : mon[m] \in MonitorStructs
         /\ \A t \in tlive : tgt[t] \in TargetStructs
         /\ dev # Null => dev \in DeviceStructs
         /\ \A m \in M : m \notin mlive => mon[m] = Null
         /\ \A t \in T : t \notin tlive => tgt[t] = Null
  BY DEF TypeOK

LEMMA NotNull ==
  /\ \A r \in MonitorStructs \cup TargetStructs \cup DeviceStructs : r # Null
  /\ \A x \in M \cup T : x # Null
  BY NullAssumption

LEMMA OrderKept ==
  ASSUME NEW order, DeviceHolds(order), UNCHANGED <<mlive, dev>>,
         \A x \in mlive : mon'[x]._next = mon[x]._next
  PROVE  DeviceHolds(order)'
<1>1. dev # Null => Listing(order, M, dev._monitor, mon')
  <2>1. \A x \in ToSet(order) : mon'[x]._next = mon[x]._next
    BY DEF DeviceHolds
  <2> QED
    BY <2>1, SameListing DEF DeviceHolds
<1> QED
  BY <1>1 DEF DeviceHolds

\* A new monitor and the target of its status.
LEMMA NewHolds ==
  ASSUME NEW lists, NEW order, Holds(lists, order),
         NEW m \in M, NEW t \in T, NEW n \in Names, NEW s \in Stats,
         monitor_new(m, t, n, s)
  PROVE  Holds([lists EXCEPT ![m] = <<t>>], order)'
<1> DEFINE new == [lists EXCEPT ![m] = <<t>>]
           status == [_label |-> Null, _value |-> s, _next |-> Null]
           monitor == [_label |-> n, _target |-> t, _cru |-> t, _itarget |-> 1, _next |-> Null]
<1>1. /\ m \notin mlive /\ t \notin tlive
      /\ mlive' = mlive \cup {m} /\ tlive' = tlive \cup {t}
      /\ tgt' = [tgt EXCEPT ![t] = status] /\ mon' = [mon EXCEPT ![m] = monitor]
      /\ dev' = dev /\ faults' = faults
  BY DEF monitor_new
<1>2. status \in TargetStructs /\ monitor \in MonitorStructs
  BY DEF TargetStructs, MonitorStructs
<1>3. /\ TypeOK /\ TargetsHold(lists) /\ OwnersHold(lists) /\ DeviceHolds(order)
  BY DEF Holds
<1>4. /\ tgt'[t] = status /\ mon'[m] = monitor
      /\ \A x \in T : x # t => tgt'[x] = tgt[x]
      /\ \A x \in M : x # m => mon'[x] = mon[x]
  BY <1>1, <1>3 DEF TypeOK
<1>5. TypeOK' /\ Defined'
  <2>1. status # Null /\ monitor # Null
    BY <1>2, NotNull
  <2> QED
    BY <1>1, <1>2, <1>3, <2>1 DEF TypeOK, Holds, Defined
<1>6. /\ new \in [M -> Seq(T)] /\ new[m] = <<t>> /\ \A x \in M : x # m => new[x] = lists[x]
      /\ ToSet(<<t>>) = {t} /\ <<t>> # <<>> /\ Len(<<t>>) = 1 /\ <<t>>[1] = t
      /\ Listing(<<t>>, T, t, tgt')
  <2>1. tgt'[t]._next = Null
    BY <1>4
  <2> QED
    BY <1>3, <2>1, SingleListing DEF TargetsHold
<1> HIDE DEF new, status
<1>7. TargetsHold(new)'
  <2>1. ASSUME NEW x \in mlive'
        PROVE  /\ Listing(new[x], T, mon'[x]._target, tgt')
               /\ mon'[x]._itarget = Len(new[x]) /\ EndsAt(new[x], mon'[x]._cru)
    <3>1. CASE x = m
      <4>1. /\ mon'[x]._target = t /\ mon'[x]._itarget = 1 /\ mon'[x]._cru = t
            /\ new[x] = <<t>>
        BY <1>4, <1>6, <3>1
      <4> HIDE DEF monitor
      <4>2. Listing(new[x], T, mon'[x]._target, tgt') /\ Len(new[x]) = 1
        BY <1>6, <4>1
      <4> QED
        BY <1>6, <4>1, <4>2 DEF EndsAt
    <3>2. CASE x # m
      <4>1. x \in mlive /\ new[x] = lists[x] /\ mon'[x] = mon[x] /\ t \notin ToSet(lists[x])
        BY <1>1, <1>3, <1>4, <1>6, <3>2 DEF OwnersHold, TypeOK
      <4>2. \A y \in ToSet(lists[x]) : tgt'[y]._next = tgt[y]._next
        BY <1>1, <1>3, <1>4, <4>1 DEF OwnersHold, TypeOK
      <4> QED
        BY <1>3, <4>1, <4>2, SameListing DEF TargetsHold
    <3> QED
      BY <3>1, <3>2
  <2>2. \A x \in M : x \in mlive' <=> new[x] # <<>>
    BY <1>1, <1>3, <1>6 DEF TargetsHold
  <2> QED
    BY <1>6, <2>1, <2>2 DEF TargetsHold
<1>8. OwnersHold(new)'
  <2>1. /\ mlive \subseteq M /\ \A x \in mlive : new[x] = lists[x] /\ t \notin ToSet(lists[x])
        /\ ToSet(new[m]) = {t}
    BY <1>1, <1>3, <1>6 DEF OwnersHold, TypeOK
  <2> QED
    BY <1>1, <1>3, <2>1 DEF OwnersHold
<1>9. DeviceHolds(order)'
  <2>1. ToSet(order) \subseteq mlive /\ \A x \in mlive : x # m /\ mon'[x] = mon[x]
    BY <1>1, <1>3, <1>4 DEF DeviceHolds, TypeOK
  <2>2. dev # Null => Listing(order, M, dev._monitor, mon')
    BY <1>3, <2>1, SameListing DEF DeviceHolds
  <2>3. mon'[m]._next = Null
    BY <1>4
  <2> QED
    BY <1>1, <1>3, <2>1, <2>2, <2>3 DEF DeviceHolds
<1> QED
  BY <1>5, <1>7, <1>8, <1>9 DEF Holds, new

\* A target added at the end of a list.
LEMMA AddTargetHolds ==
  ASSUME ~AddsAfterTailDeletion, NEW lists, NEW order, Holds(lists, order),
         NEW m \in M, NEW t \in T, NEW l \in Labels, monitor_add_target(m, t, l)
  PROVE  /\ Holds([lists EXCEPT ![m] = Append(@, t)], order)'
         /\ m \in mlive /\ t \notin tlive
         /\ tgt'[t] = [_label |-> l, _value |-> Null, _next |-> Null]
         /\ \A x \in tlive : /\ tgt'[x]._label = tgt[x]._label
                             /\ tgt'[x]._value = tgt[x]._value
         /\ mlive' = mlive /\ \A x \in mlive : mon'[x]._label = mon[x]._label
                                            /\ mon'[x]._target = mon[x]._target
<1> DEFINE last == mon[m]._cru
           fresh == [_label |-> l, _value |-> Null, _next |-> Null]
           new == [tgt EXCEPT ![t] = fresh]
           ls == [lists EXCEPT ![m] = Append(@, t)]
<1>1. TypeOK /\ TargetsHold(lists) /\ OwnersHold(lists) /\ DeviceHolds(order)
  BY DEF Holds
<1>2. m \in mlive /\ t \notin tlive /\ mlive' = mlive /\ dev' = dev
  BY DEF monitor_add_target
<1>3. /\ lists[m] \in Seq(T) /\ lists[m] # <<>> /\ Len(lists[m]) \in Nat \ {0}
      /\ last \in ToSet(lists[m]) /\ last = lists[m][Len(lists[m])]
      /\ last \in tlive /\ last # t /\ t \notin ToSet(lists[m])
  <2>1. lists[m] \in Seq(T) /\ lists[m] # <<>> /\ ToSet(lists[m]) \subseteq tlive
    BY <1>1, <1>2 DEF TargetsHold, OwnersHold
  <2>2. last \in ToSet(lists[m])
    BY <1>2, <2>1, PathsAre DEF monitor_add_target, MayAdd
  <2>3. last = lists[m][Len(lists[m])]
    BY <1>1, <1>2, <2>2 DEF TargetsHold, EndsAt
  <2> QED
    BY <1>2, <2>1, <2>2, <2>3
<1>4. /\ tgt' = [new EXCEPT ![last]._next = t] /\ tlive' = tlive \cup {t}
      /\ mon' = [mon EXCEPT ![m]._cru = t, ![m]._itarget = @ + 1]
      /\ faults' = faults
  BY <1>3 DEF monitor_add_target, AppendPoint
<1>5. fresh \in TargetStructs /\ fresh # Null
  BY NotNull DEF TargetStructs
<1>6. /\ tgt' \in [T -> TargetStructs \cup {Null}]
      /\ tgt'[t] = fresh /\ tgt'[last]._next = t
      /\ \A x \in T : x # t /\ x # last => tgt'[x] = tgt[x]
      /\ \A x \in tlive : /\ tgt'[x] \in TargetStructs
                          /\ tgt'[x]._label = tgt[x]._label /\ tgt'[x]._value = tgt[x]._value
  <2>1. new \in [T -> TargetStructs \cup {Null}] /\ new[last] = tgt[last] /\ last \in T
        /\ tgt[last] \in TargetStructs /\ new[t] = fresh /\ t # last
        /\ \A x \in T : x # t => new[x] = tgt[x]
    BY <1>1, <1>3, <1>5, Structures DEF TypeOK
  <2> HIDE DEF new
  <2>2. /\ tgt' = [new EXCEPT ![last] = [tgt[last] EXCEPT !._next = t]]
        /\ [tgt[last] EXCEPT !._next = t] \in TargetStructs
    BY <1>4, <2>1 DEF TargetStructs
  <2>3. /\ [tgt[last] EXCEPT !._next = t]._next = t
        /\ [tgt[last] EXCEPT !._next = t]._label = tgt[last]._label
        /\ [tgt[last] EXCEPT !._next = t]._value = tgt[last]._value
    BY <2>1 DEF TargetStructs
  <2> QED
    BY <1>1, <1>2, <1>3, <2>1, <2>2, <2>3, Structures
<1>7. /\ mon' \in [M -> MonitorStructs \cup {Null}] /\ mon'[m]._cru = t
      /\ mon'[m]._itarget = mon[m]._itarget + 1
      /\ mon'[m]._label = mon[m]._label /\ mon'[m]._target = mon[m]._target
      /\ mon'[m]._next = mon[m]._next /\ mon'[m] \in MonitorStructs
      /\ \A x \in M : x # m => mon'[x] = mon[x]
  <2>1. mon[m] \in MonitorStructs /\ m \in M
    BY <1>1, <1>2, Structures
  <2> DEFINE r == [mon[m] EXCEPT !._cru = t, !._itarget = @ + 1]
  <2>2. /\ r \in MonitorStructs /\ r._cru = t /\ r._itarget = mon[m]._itarget + 1
        /\ r._label = mon[m]._label /\ r._target = mon[m]._target /\ r._next = mon[m]._next
    <3> DEFINE q == [mon[m] EXCEPT !._cru = t]
    <3>1. /\ q \in MonitorStructs /\ q._cru = t /\ q._itarget = mon[m]._itarget
          /\ q._label = mon[m]._label /\ q._target = mon[m]._target
          /\ q._next = mon[m]._next /\ q._itarget \in Nat
      BY <2>1 DEF MonitorStructs
    <3>2. r = [q EXCEPT !._itarget = mon[m]._itarget + 1]
      BY <3>1
    <3> HIDE DEF q, r
    <3> QED
      BY <3>1, <3>2 DEF MonitorStructs
  <2>3. mon' = [mon EXCEPT ![m] = r]
    BY <1>1, <1>4, <2>1 DEF TypeOK, MonitorStructs
  <2> HIDE DEF r
  <2> QED
    BY <1>1, <2>1, <2>2, <2>3 DEF TypeOK
<1> HIDE DEF fresh, new
<1>8. TypeOK' /\ Defined'
  <2>1. \A x \in M : x \in mlive <=> mon'[x] # Null
    BY <1>1, <1>2, <1>7, NotNull DEF TypeOK
  <2>2. \A x \in T : x \in tlive' <=> tgt'[x] # Null
    BY <1>1, <1>3, <1>4, <1>5, <1>6, NotNull DEF TypeOK
  <2> QED
    BY <1>1, <1>2, <1>4, <1>6, <1>7, <2>1, <2>2 DEF TypeOK, Holds, Defined
<1>9. /\ ls \in [M -> Seq(T)] /\ ls[m] = Append(lists[m], t)
      /\ \A x \in M : x # m => ls[x] = lists[x]
  BY <1>1, <1>3, AppendedTo DEF TargetsHold
<1>10. /\ ls[m] # <<>> /\ Len(ls[m]) = Len(lists[m]) + 1 /\ ls[m][Len(ls[m])] = t
       /\ ToSet(ls[m]) = ToSet(lists[m]) \cup {t}
  BY <1>3, <1>9, AppendedTo
<1> HIDE DEF ls
<1>11. TargetsHold(ls)'
  <2>1. ASSUME NEW x \in mlive'
        PROVE  /\ Listing(ls[x], T, mon'[x]._target, tgt')
               /\ mon'[x]._itarget = Len(ls[x]) /\ EndsAt(ls[x], mon'[x]._cru)
    <3>1. CASE x = m
      <4>1. Listing(lists[m], T, mon[m]._target, tgt)
        BY <1>1, <1>2 DEF TargetsHold
      <4>2. tgt'[t]._next = Null
        BY <1>6 DEF fresh
      <4>3. \A y \in ToSet(lists[m]) : y # last => tgt'[y]._next = tgt[y]._next
        BY <1>3, <1>6, MembersOf
      <4>4. Listing(ls[m], T, mon[m]._target, tgt')
        <5>1. /\ lists[m] # <<>> /\ t \in T \ ToSet(lists[m])
              /\ tgt'[lists[m][Len(lists[m])]]._next = t
              /\ \A y \in ToSet(lists[m]) : y # lists[m][Len(lists[m])]
                                            => tgt'[y]._next = tgt[y]._next
          BY <1>3, <1>6, <4>3
        <5>2. Listing(Append(lists[m], t), T, mon[m]._target, tgt')
          BY ONLY <4>1, <4>2, <5>1, AppendedListing
        <5> QED
          BY <1>9, <5>2
      <4> QED
        BY <1>1, <1>2, <1>7, <1>10, <3>1, <4>4 DEF TargetsHold, EndsAt
    <3>2. CASE x # m
      <4>1. x \in mlive /\ x \in M /\ ls[x] = lists[x] /\ mon'[x] = mon[x]
            /\ t \notin ToSet(lists[x]) /\ last \notin ToSet(lists[x])
            /\ ToSet(lists[x]) \subseteq T
        BY <1>1, <1>2, <1>3, <1>7, <1>9, <3>2, Structures DEF OwnersHold
      <4>2. \A y \in ToSet(lists[x]) : tgt'[y]._next = tgt[y]._next
        BY <1>6, <4>1
      <4> QED
        BY <1>1, <4>1, <4>2, SameListing DEF TargetsHold
    <3> QED
      BY <3>1, <3>2
  <2>2. \A x \in M : x \in mlive' <=> ls[x] # <<>>
    BY <1>1, <1>2, <1>9, <1>10 DEF TargetsHold
  <2> QED
    BY <1>9, <2>1, <2>2 DEF TargetsHold
<1>12. OwnersHold(ls)'
  <2>1. /\ mlive \subseteq M /\ \A x \in mlive : x # m => ls[x] = lists[x]
        /\ \A x \in mlive : t \notin ToSet(lists[x])
    BY <1>1, <1>2, <1>9 DEF OwnersHold, TypeOK
  <2>2. \A x \in mlive : ToSet(ls[x]) = ToSet(lists[x]) \cup (IF x = m THEN {t} ELSE {})
    BY <1>10, <2>1
  <2>3. \A x \in mlive' : ToSet(ls[x]) \subseteq tlive'
    BY <1>1, <1>2, <1>4, <2>2 DEF OwnersHold
  <2>4. \A y \in tlive' : \E x \in mlive' : y \in ToSet(ls[x])
    BY <1>1, <1>2, <1>4, <2>2 DEF OwnersHold
  <2>5. \A x, o \in mlive' : x # o => ToSet(ls[x]) \cap ToSet(ls[o]) = {}
    BY <1>1, <1>2, <2>1, <2>2 DEF OwnersHold
  <2> QED
    BY <2>3, <2>4, <2>5 DEF OwnersHold
<1>13. DeviceHolds(order)'
  <2>1. \A x \in mlive : mon'[x]._next = mon[x]._next
    BY <1>1, <1>7 DEF TypeOK
  <2> QED
    BY <1>1, <1>2, <2>1, OrderKept
<1> QED
  <2>1. \A x \in mlive : mon'[x]._label = mon[x]._label /\ mon'[x]._target = mon[x]._target
    BY <1>1, <1>7 DEF TypeOK
  <2> QED
    BY <1>2, <1>6, <1>8, <1>11, <1>12, <1>13, <2>1 DEF Holds, ls, fresh

\* The i-th target of a monitor is unlinked and freed.
LEMMA DelTargetHolds ==
  ASSUME NEW lists, NEW order, Holds(lists, order), NEW m \in mlive,
         NEW i \in 2 .. Len(lists[m]),
         tgt' = [tgt EXCEPT ![lists[m][i - 1]]._next = tgt[lists[m][i]]._next,
                            ![lists[m][i]] = Null],
         tlive' = tlive \ {lists[m][i]},
         mon' = [mon EXCEPT ![m]._itarget = @ - 1],
         UNCHANGED <<mlive, dev, faults>>
  PROVE  /\ Holds([lists EXCEPT ![m] = RemoveAt(@, i)], order)'
         /\ \A x \in tlive' : tgt'[x]._label = tgt[x]._label /\ tgt'[x]._value = tgt[x]._value
         /\ \A x \in mlive : mon'[x]._label = mon[x]._label /\ mon'[x]._target = mon[x]._target
<1> DEFINE s == lists[m]
           before == s[i - 1]
           gone == s[i]
           new == [tgt EXCEPT ![before]._next = tgt[gone]._next]
           ls == [lists EXCEPT ![m] = RemoveAt(@, i)]
<1>1. /\ TypeOK /\ TargetsHold(lists) /\ OwnersHold(lists) /\ DeviceHolds(order)
      /\ m \in M /\ tgt' = [new EXCEPT ![gone] = Null]
  BY Structures DEF Holds
<1>2. /\ s \in Seq(T) /\ Len(s) \in Nat /\ Len(s) >= 2 /\ i \in 1 .. Len(s) /\ i > 1
      /\ before \in tlive /\ gone \in tlive /\ before # gone
      /\ before \in T /\ gone \in T
      /\ before \in ToSet(s) /\ gone \in ToSet(s) /\ ToSet(s) \subseteq tlive
      /\ Listing(s, T, mon[m]._target, tgt)
      /\ mon[m]._itarget = Len(s) /\ EndsAt(s, mon[m]._cru)
  <2>1. /\ s \in Seq(T) /\ Listing(s, T, mon[m]._target, tgt) /\ ToSet(s) \subseteq tlive
        /\ mon[m]._itarget = Len(s) /\ EndsAt(s, mon[m]._cru)
    BY <1>1 DEF TargetsHold, OwnersHold
  <2>2. /\ Len(s) \in Nat /\ i \in 1 .. Len(s) /\ i - 1 \in 1 .. Len(s) /\ i > 1 /\ i - 1 # i
        /\ Len(s) >= 2
    BY <2>1
  <2>3. before \in ToSet(s) /\ gone \in ToSet(s) /\ before # gone
    BY <2>1, <2>2, MembersOf DEF Listing
  <2> QED
    BY <1>1, <2>1, <2>2, <2>3, Structures
<1> HIDE DEF s, before, gone
<1>3. /\ tgt' \in [T -> TargetStructs \cup {Null}]
      /\ tgt'[gone] = Null /\ tgt'[before]._next = tgt[gone]._next
      /\ \A x \in T : x # gone /\ x # before => tgt'[x] = tgt[x]
      /\ \A x \in tlive : x # gone =>
           /\ tgt'[x] \in TargetStructs
           /\ tgt'[x]._label = tgt[x]._label /\ tgt'[x]._value = tgt[x]._value
  <2>1. tgt[before] \in TargetStructs /\ tgt[gone] \in TargetStructs
    BY <1>1, <1>2, Structures
  <2> DEFINE r == [tgt[before] EXCEPT !._next = tgt[gone]._next]
  <2>2. /\ r \in TargetStructs /\ r._next = tgt[gone]._next
        /\ r._label = tgt[before]._label /\ r._value = tgt[before]._value
    BY <2>1 DEF TargetStructs
  <2>3. new = [tgt EXCEPT ![before] = r]
    OBVIOUS
  <2> HIDE DEF new, r
  <2>4. /\ new \in [T -> TargetStructs \cup {Null}] /\ new[before] = r
        /\ \A x \in T : x # before => new[x] = tgt[x]
    BY <1>1, <1>2, <2>2, <2>3 DEF TypeOK
  <2>5. /\ tgt' \in [T -> TargetStructs \cup {Null}] /\ tgt'[gone] = Null
        /\ \A x \in T : x # gone => tgt'[x] = new[x]
    BY <1>1, <1>2, <2>4
  <2>6. tgt'[before] = r /\ \A x \in T : x # gone /\ x # before => tgt'[x] = tgt[x]
    BY <1>2, <2>4, <2>5
  <2>7. ASSUME NEW x \in tlive, x # gone
        PROVE  /\ tgt'[x] \in TargetStructs
               /\ tgt'[x]._label = tgt[x]._label /\ tgt'[x]._value = tgt[x]._value
    <3>1. x \in T /\ tgt[x] \in TargetStructs
      BY <1>1, Structures
    <3> QED
      BY <2>2, <2>6, <2>7, <3>1
  <2> QED
    BY <2>2, <2>5, <2>6, <2>7
<1>4. /\ mon' \in [M -> MonitorStructs \cup {Null}]
      /\ mon'[m]._itarget = mon[m]._itarget - 1 /\ mon'[m]._cru = mon[m]._cru
      /\ mon'[m]._label = mon[m]._label /\ mon'[m]._target = mon[m]._target
      /\ mon'[m]._next = mon[m]._next /\ mon'[m] \in MonitorStructs
      /\ \A x \in M : x # m => mon'[x] = mon[x]
  <2>1. mon[m] \in MonitorStructs /\ mon[m]._itarget - 1 \in Nat
    BY <1>1, <1>2, Structures
  <2> DEFINE r == [mon[m] EXCEPT !._itarget = mon[m]._itarget - 1]
  <2>2. /\ r \in MonitorStructs /\ r._cru = mon[m]._cru
        /\ r._itarget = mon[m]._itarget - 1 /\ r._label = mon[m]._label
        /\ r._target = mon[m]._target /\ r._next = mon[m]._next
    <3> DEFINE q == mon[m]
               k == q._itarget - 1
    <3>1. q \in MonitorStructs /\ k \in Nat
      BY <2>1
    <3> HIDE DEF q, k
    <3>2. /\ [q EXCEPT !._itarget = k] \in MonitorStructs
          /\ [q EXCEPT !._itarget = k]._cru = q._cru
          /\ [q EXCEPT !._itarget = k]._itarget = k
          /\ [q EXCEPT !._itarget = k]._label = q._label
          /\ [q EXCEPT !._itarget = k]._target = q._target
          /\ [q EXCEPT !._itarget = k]._next = q._next
      BY ONLY <3>1 DEF MonitorStructs
    <3> QED
      BY <3>2, Zenon DEF q, k
  <2>3. mon' = [mon EXCEPT ![m] = r]
    OBVIOUS
  <2> HIDE DEF r
  <2>4. /\ mon' \in [M -> MonitorStructs \cup {Null}] /\ mon'[m] = r
        /\ \A x \in M : x # m => mon'[x] = mon[x]
    <3>1. m \in M /\ mon \in [M -> MonitorStructs \cup {Null}]
      BY <1>1, Zenon DEF TypeOK
    <3>2. r \in MonitorStructs
      BY <2>2, Zenon
    <3> QED
      BY ONLY <2>3, <3>1, <3>2
  <2> QED
    BY <2>2, <2>4
<1> HIDE DEF new
<1>5. TypeOK' /\ Defined'
  <2>1. \A x \in M : x \in mlive <=> mon'[x] # Null
    <3>1. m \in mlive /\ \A x \in M : x \in mlive <=> mon[x] # Null
      BY <1>1, Zenon DEF TypeOK
    <3>2. mon'[m] # Null
      BY <1>4, NotNull, Zenon
    <3>3. \A x \in M : x # m => mon'[x] = mon[x]
      BY <1>4
    <3> QED
      BY ONLY <3>1, <3>2, <3>3
  <2>2. \A x \in T : x \in tlive' <=> tgt'[x] # Null
    BY <1>1, <1>2, <1>3, NotNull DEF TypeOK, s, gone
  <2> QED
    BY <1>1, <1>3, <1>4, <2>1, <2>2 DEF TypeOK, Holds, Defined
<1>6. /\ ls \in [M -> Seq(T)] /\ ls[m] = RemoveAt(s, i)
      /\ \A x \in M : x # m => ls[x] = lists[x]
  BY <1>1, <1>2, RemovedFrom DEF TargetsHold, s
<1>7. /\ Listing(ls[m], T, mon[m]._target, tgt') /\ ToSet(ls[m]) = ToSet(s) \ {gone}
      /\ Len(ls[m]) = Len(s) - 1 /\ EndsAt(ls[m], mon[m]._cru)
  <2>1. \A y \in ToSet(s) : y # gone /\ y # before => tgt'[y]._next = tgt[y]._next
    BY <1>1, <1>2, <1>3, Structures
  <2>2. \A y \in ToSet(s) : y # s[i] /\ (i > 1 => y # s[i - 1])
                           => tgt'[y]._next = tgt[y]._next
    BY <1>2, <2>1, Zenon DEF before, gone
  <2>3. i > 1 => tgt'[s[i - 1]]._next = tgt[s[i]]._next
    BY <1>3, Zenon DEF before, gone
  <2>4. Unlinks(s, i, mon[m]._target, tgt, mon[m]._target, tgt')
    <3>1. mon[m]._target = IF i = 1 THEN tgt[s[i]]._next ELSE mon[m]._target
      BY <1>2
    <3> QED
      BY <1>2, <2>2, <2>3, <3>1, Zenon DEF Unlinks
  <2>5. Unlinked(s, i, T, mon[m]._target, tgt')
    BY <1>2, <2>4, UnlinkedListing
  <2> QED
    BY <1>2, <1>6, <2>5 DEF gone, Unlinked
<1>8. ls[m] # <<>>
  BY <1>2, <1>6, <1>7, MembersOf
<1> HIDE DEF ls
<1>9. TargetsHold(ls)'
  <2>1. ASSUME NEW x \in mlive'
        PROVE  /\ Listing(ls[x], T, mon'[x]._target, tgt')
               /\ mon'[x]._itarget = Len(ls[x]) /\ EndsAt(ls[x], mon'[x]._cru)
    <3>1. CASE x = m
      BY <1>2, <1>4, <1>7, <3>1
    <3>2. CASE x # m
      <4>1. x \in mlive /\ x \in M /\ ls[x] = lists[x] /\ mon'[x] = mon[x]
            /\ gone \notin ToSet(lists[x]) /\ before \notin ToSet(lists[x])
            /\ ToSet(lists[x]) \subseteq T
        BY <1>1, <1>2, <1>4, <1>6, <3>2, Structures DEF OwnersHold, s
      <4>2. \A y \in ToSet(lists[x]) : tgt'[y]._next = tgt[y]._next
        BY <1>3, <4>1
      <4>3. /\ lists[x] \in Seq(T) /\ Listing(lists[x], T, mon[x]._target, tgt)
            /\ mon[x]._itarget = Len(lists[x]) /\ EndsAt(lists[x], mon[x]._cru)
        BY <1>1, <4>1 DEF TargetsHold
      <4>4. Listing(lists[x], T, mon[x]._target, tgt')
        BY <4>2, <4>3, SameListing
      <4> QED
        BY <4>1, <4>3, <4>4
    <3> QED
      BY <3>1, <3>2
  <2>2. \A x \in M : x \in mlive' <=> ls[x] # <<>>
    BY <1>1, <1>6, <1>8 DEF TargetsHold
  <2> QED
    BY <1>6, <2>1, <2>2 DEF TargetsHold
<1>10. OwnersHold(ls)'
  <2>1. /\ mlive \subseteq M /\ mlive' = mlive /\ tlive' = tlive \ {gone}
        /\ \A x \in mlive : x # m => gone \notin ToSet(lists[x])
    BY <1>1, <1>2 DEF OwnersHold, TypeOK, s, gone
  <2>2. \A x \in mlive : ToSet(ls[x]) = ToSet(lists[x]) \ {gone}
    BY <1>6, <1>7, <2>1 DEF s
  <2>3. \A x \in mlive' : ToSet(ls[x]) \subseteq tlive'
    BY <1>1, <2>1, <2>2 DEF OwnersHold
  <2>4. \A y \in tlive' : \E x \in mlive' : y \in ToSet(ls[x])
    BY <1>1, <2>1, <2>2 DEF OwnersHold
  <2>5. \A x, o \in mlive' : x # o => ToSet(ls[x]) \cap ToSet(ls[o]) = {}
    <3> SUFFICES ASSUME NEW x \in mlive', NEW o \in mlive', x # o
                 PROVE  ToSet(ls[x]) \cap ToSet(ls[o]) = {}
      OBVIOUS
    <3>1. x \in mlive /\ o \in mlive
      BY <2>1
    <3>2. ToSet(lists[x]) \cap ToSet(lists[o]) = {}
      BY <1>1, <3>1 DEF OwnersHold
    <3>3. ToSet(ls[x]) \subseteq ToSet(lists[x]) /\ ToSet(ls[o]) \subseteq ToSet(lists[o])
      BY <2>2, <3>1
    <3> QED
      BY <3>2, <3>3
  <2> QED
    BY <2>3, <2>4, <2>5 DEF OwnersHold
<1>11. DeviceHolds(order)'
  <2>1. \A x \in mlive : mon'[x]._next = mon[x]._next
    BY <1>1, <1>4 DEF TypeOK
  <2> QED
    BY <1>1, <2>1, OrderKept
<1> QED
  <2>1. \A x \in mlive : mon'[x]._label = mon[x]._label /\ mon'[x]._target = mon[x]._target
    BY <1>1, <1>4 DEF TypeOK
  <2>2. \A x \in tlive' : tgt'[x]._label = tgt[x]._label /\ tgt'[x]._value = tgt[x]._value
    BY <1>3 DEF gone, s
  <2> QED
    BY <1>5, <1>9, <1>10, <1>11, <2>1, <2>2 DEF Holds, ls

\* The status is written into the first target.
LEMMA SetStatHolds ==
  ASSUME NEW lists, NEW order, Holds(lists, order), NEW m \in M, NEW s \in Stats,
         monitor_set_stat(m, s)
  PROVE  /\ Holds(lists, order)' /\ mon[m]._target \in tlive
         /\ tgt'[mon[m]._target]._value = s
         /\ \A x \in tlive : /\ tgt'[x]._label = tgt[x]._label
                             /\ x # mon[m]._target => tgt'[x] = tgt[x]
<1> DEFINE c == mon[m]._target
           r == [tgt[c] EXCEPT !._value = s]
<1>1. /\ TypeOK /\ TargetsHold(lists) /\ OwnersHold(lists) /\ DeviceHolds(order)
      /\ m \in mlive /\ UNCHANGED <<mon, mlive, tlive, dev, faults>>
      /\ tgt' = [tgt EXCEPT ![c]._value = s]
  BY DEF Holds, monitor_set_stat
<1>2. c \in tlive /\ c \in T /\ tgt[c] \in TargetStructs
  <2>1. /\ lists[m] # <<>> /\ lists[m] \in Seq(T) /\ c = lists[m][1]
        /\ ToSet(lists[m]) \subseteq tlive
    BY <1>1 DEF TargetsHold, OwnersHold, Listing
  <2>2. c \in ToSet(lists[m])
    BY <2>1, MembersOf
  <2> QED
    BY <1>1, <2>1, <2>2, Structures
<1>3. /\ r \in TargetStructs /\ r._value = s /\ r._next = tgt[c]._next
      /\ r._label = tgt[c]._label
  BY <1>2 DEF TargetStructs
<1>4. tgt' = [tgt EXCEPT ![c] = r]
  BY <1>1
<1> HIDE DEF r
<1>5. /\ tgt' \in [T -> TargetStructs \cup {Null}] /\ tgt'[c] = r
      /\ \A x \in T : x # c => tgt'[x] = tgt[x]
  BY <1>1, <1>2, <1>3, <1>4 DEF TypeOK
<1> HIDE DEF c
<1>6. TypeOK' /\ Defined'
  <2>1. \A x \in T : x \in tlive' <=> tgt'[x] # Null
    BY <1>1, <1>2, <1>3, <1>5, NotNull DEF TypeOK
  <2> QED
    BY <1>1, <1>5, <2>1 DEF TypeOK, Holds, Defined
<1>7. \A x \in T : tgt'[x]._next = tgt[x]._next /\ tgt'[x]._label = tgt[x]._label
  BY <1>3, <1>5
<1>8. TargetsHold(lists)'
  <2>1. ASSUME NEW x \in mlive PROVE Listing(lists[x], T, mon[x]._target, tgt')
    <3>1. Listing(lists[x], T, mon[x]._target, tgt) /\ ToSet(lists[x]) \subseteq T
      BY <1>1, Structures DEF TargetsHold, OwnersHold
    <3> QED
      BY <1>7, <3>1, SameListing
  <2> QED
    BY <1>1, <2>1 DEF TargetsHold
<1>9. OwnersHold(lists)' /\ DeviceHolds(order)'
  BY <1>1 DEF OwnersHold, DeviceHolds
<1> QED
  BY <1>1, <1>2, <1>3, <1>5, <1>6, <1>7, <1>8, <1>9 DEF Holds, c, TypeOK

\* What is left when the monitors ms are destroyed with all their targets.
Without(lists, ms) == [x \in M |-> IF x \in ms THEN <<>> ELSE lists[x]]

LEMMA DestroyedHold ==
  ASSUME NEW lists, NEW order, Holds(lists, order), NEW ms \in SUBSET mlive,
         mlive' = mlive \ ms, tlive' = tlive \ OwnTargets(ms),
         tgt' = [t \in T |-> IF t \in OwnTargets(ms) THEN Null ELSE tgt[t]],
         mon' \in [M -> MonitorStructs \cup {Null}],
         \A x \in ms : mon'[x] = Null,
         \A x \in mlive \ ms :
           /\ mon'[x] \in MonitorStructs
           /\ mon'[x]._target = mon[x]._target /\ mon'[x]._cru = mon[x]._cru
           /\ mon'[x]._itarget = mon[x]._itarget,
         \A x \in M \ mlive : mon'[x] = Null,
         dev' \in DeviceStructs \cup {Null}, faults' = faults
  PROVE  /\ TypeOK' /\ Defined'
         /\ TargetsHold(Without(lists, ms))' /\ OwnersHold(Without(lists, ms))'
         /\ \A x \in mlive' : \A t \in ToSet(lists[x]) : tgt'[t] = tgt[t]
<1> DEFINE ls == Without(lists, ms)
<1>1. /\ TypeOK /\ TargetsHold(lists) /\ OwnersHold(lists)
      /\ mlive \subseteq M /\ tlive \subseteq T
      /\ OwnTargets(ms) = UNION {ToSet(lists[m]) : m \in ms}
  BY Structures, PathsAre DEF Holds
<1> HIDE DEF OwnTargets
<1>2. \A x \in mlive \ ms : \A t \in ToSet(lists[x]) : t \notin OwnTargets(ms)
  BY <1>1 DEF OwnersHold
<1>3. \A x \in mlive' : x \in mlive \ ms
                       /\ \A t \in ToSet(lists[x]) : t \in tlive' /\ t \in T /\ tgt'[t] = tgt[t]
  BY <1>1, <1>2 DEF OwnersHold
<1>4. /\ ls \in [M -> Seq(T)] /\ \A x \in mlive' : ls[x] = lists[x]
      /\ \A x \in ms : ls[x] = <<>>
      /\ \A x \in M \ ms : ls[x] = lists[x]
  BY <1>1 DEF TargetsHold, Without
<1> HIDE DEF ls
<1>5. TypeOK' /\ Defined'
  <2>1. \A x \in M : x \in mlive' <=> mon'[x] # Null
    BY <1>1, NotNull
  <2>2. \A x \in T : x \in tlive' <=> tgt'[x] # Null
    BY <1>1 DEF TypeOK
  <2>3. tgt' \in [T -> TargetStructs \cup {Null}]
    BY <1>1 DEF TypeOK
  <2> QED
    BY <1>1, <2>1, <2>2, <2>3 DEF TypeOK, Holds, Defined
<1>6. TargetsHold(ls)'
  <2>1. ASSUME NEW x \in mlive'
        PROVE  /\ Listing(ls[x], T, mon'[x]._target, tgt')
               /\ mon'[x]._itarget = Len(ls[x]) /\ EndsAt(ls[x], mon'[x]._cru)
    <3>1. /\ Listing(lists[x], T, mon[x]._target, tgt)
          /\ mon[x]._itarget = Len(lists[x]) /\ EndsAt(lists[x], mon[x]._cru)
      BY <1>1, <1>3 DEF TargetsHold
    <3>2. \A t \in ToSet(lists[x]) : tgt'[t]._next = tgt[t]._next
      BY <1>3
    <3>3. Listing(lists[x], T, mon[x]._target, tgt')
      BY <3>1, <3>2, SameListing
    <3> QED
      BY <1>3, <1>4, <3>1, <3>3
  <2>2. \A x \in M : x \in mlive' <=> ls[x] # <<>>
    BY <1>1, <1>4 DEF TargetsHold
  <2> QED
    BY <1>4, <2>1, <2>2 DEF TargetsHold
<1>7. OwnersHold(ls)'
  <2>1. \A x \in mlive' : ToSet(ls[x]) \subseteq tlive'
    BY <1>3, <1>4
  <2>2. ASSUME NEW t \in tlive' PROVE \E x \in mlive' : t \in ToSet(ls[x])
    <3>1. PICK x \in mlive : t \in ToSet(lists[x])
      BY <1>1 DEF OwnersHold
    <3>2. x \notin ms
      BY <1>1, <3>1
    <3> QED
      BY <1>4, <3>1, <3>2
  <2>3. \A x, o \in mlive' : x # o => ToSet(ls[x]) \cap ToSet(ls[o]) = {}
    BY <1>1, <1>3, <1>4 DEF OwnersHold
  <2> QED
    BY <2>1, <2>2, <2>3 DEF OwnersHold
<1> QED
  BY <1>3, <1>5, <1>6, <1>7 DEF ls

\* monitor_destory of a monitor that is not in the device.
LEMMA DestroyHolds ==
  ASSUME NEW lists, NEW order, Holds(lists, order), NEW m \in M, monitor_destory(m)
  PROVE  /\ Holds(Without(lists, {m}), order)' /\ m \in mlive /\ m \notin ToSet(order)
         /\ \A x \in mlive' : /\ mon'[x] = mon[x]
                              /\ \A t \in ToSet(lists[x]) : tgt'[t] = tgt[t]
<1>1. /\ m \in mlive /\ m \notin ToSet(order) /\ TypeOK /\ DeviceHolds(order)
      /\ mlive' = mlive \ {m} /\ tlive' = tlive \ OwnTargets({m})
      /\ mon' = [x \in M |-> IF x \in {m} THEN Null ELSE mon[x]]
      /\ tgt' = [t \in T |-> IF t \in OwnTargets({m}) THEN Null ELSE tgt[t]]
      /\ dev' = dev /\ faults' = faults
  BY PathsAre DEF monitor_destory, Free, Holds
<1> HIDE DEF OwnTargets
<1>2. /\ mon' \in [M -> MonitorStructs \cup {Null}] /\ mon'[m] = Null
      /\ \A x \in M : x # m => mon'[x] = mon[x]
      /\ \A x \in mlive \ {m} : mon'[x] \in MonitorStructs
      /\ \A x \in M \ mlive : mon'[x] = Null
      /\ dev' \in DeviceStructs \cup {Null}
  BY <1>1, Structures DEF TypeOK
<1>3. /\ TypeOK' /\ Defined'
      /\ TargetsHold(Without(lists, {m}))' /\ OwnersHold(Without(lists, {m}))'
      /\ \A x \in mlive' : \A t \in ToSet(lists[x]) : tgt'[t] = tgt[t]
  <2>1. /\ {m} \in SUBSET mlive /\ \A x \in {m} : mon'[x] = Null
        /\ \A x \in mlive \ {m} :
             /\ mon'[x] \in MonitorStructs
             /\ mon'[x]._target = mon[x]._target /\ mon'[x]._cru = mon[x]._cru
             /\ mon'[x]._itarget = mon[x]._itarget
    BY <1>1, <1>2, Structures
  <2> QED
    BY <1>1, <1>2, <2>1, DestroyedHold
<1>4. DeviceHolds(order)'
  <2>1. \A x \in ToSet(order) : mon'[x]._next = mon[x]._next
    BY <1>1, <1>2 DEF DeviceHolds, TypeOK
  <2>2. dev # Null => Listing(order, M, dev._monitor, mon')
    BY <1>1, <2>1, SameListing DEF DeviceHolds
  <2>3. \A x \in mlive' \ ToSet(order) : mon'[x]._next = Null
    BY <1>1, <1>2 DEF DeviceHolds, TypeOK
  <2> QED
    BY <1>1, <2>2, <2>3 DEF DeviceHolds
<1> QED
  BY <1>1, <1>2, <1>3, <1>4 DEF Holds, TypeOK

\* A device, with an empty list.
LEMMA DeviceNewHolds ==
  ASSUME NEW lists, NEW order, Holds(lists, order), device_new
  PROVE  Holds(lists, <<>>)' /\ dev = Null /\ dev' # Null /\ order = <<>>
<1> DEFINE d == [_monitor |-> Null, _curmon |-> Null, _imonitor |-> 0]
<1>1. /\ TypeOK /\ TargetsHold(lists) /\ OwnersHold(lists) /\ DeviceHolds(order)
      /\ dev = Null /\ dev' = d /\ UNCHANGED <<mon, mlive, tgt, tlive, faults>>
  BY DEF Holds, device_new
<1>2. d \in DeviceStructs /\ d # Null /\ d._monitor = Null /\ d._imonitor = 0
  BY NotNull DEF DeviceStructs
<1> HIDE DEF d
<1>3. TypeOK' /\ Defined'
  BY <1>1, <1>2 DEF TypeOK, Holds, Defined
<1>4. TargetsHold(lists)' /\ OwnersHold(lists)'
  BY <1>1 DEF TargetsHold, OwnersHold
<1>5. order = <<>> /\ ToSet(order) = {}
  BY <1>1 DEF DeviceHolds, ToSet
<1>6. DeviceHolds(<<>>)'
  BY <1>1, <1>2, <1>5 DEF DeviceHolds, Listing, EndsAt
<1> QED
  BY <1>1, <1>2, <1>3, <1>4, <1>5, <1>6 DEF Holds

\* A monitor added at the end of the device's list.
LEMMA AddMonitorHolds ==
  ASSUME ~AddsAfterTailDeletion, NEW lists, NEW order, Holds(lists, order),
         NEW m \in M, device_add_monitor(m)
  PROVE  /\ Holds(lists, Append(order, m))' /\ m \in mlive /\ m \notin ToSet(order)
         /\ dev # Null /\ dev' # Null /\ UNCHANGED <<mlive, tgt, tlive>>
         /\ \A x \in mlive : mon'[x]._label = mon[x]._label /\ mon'[x]._target = mon[x]._target
<1> DEFINE last == dev._curmon
<1>1. /\ TypeOK /\ TargetsHold(lists) /\ OwnersHold(lists) /\ DeviceHolds(order)
      /\ dev # Null /\ dev \in DeviceStructs /\ mlive \subseteq M
      /\ m \in mlive /\ m \notin ToSet(order) /\ UNCHANGED <<mlive, tgt, tlive>>
      /\ order \in Seq(M) /\ Listing(order, M, dev._monitor, mon)
      /\ dev._imonitor = Len(order) /\ EndsAt(order, last) /\ mon[m]._next = Null
      /\ ToSet(order) \subseteq mlive
  BY Structures, PathsAre DEF Holds, device_add_monitor, DeviceHolds
<1>2. /\ Append(order, m) \in Seq(M) /\ Len(Append(order, m)) = Len(order) + 1
      /\ ToSet(Append(order, m)) = ToSet(order) \cup {m} /\ Append(order, m) # <<>>
      /\ Append(order, m)[Len(Append(order, m))] = m
  BY <1>1, AppendedTo
<1>3. dev._monitor = Null <=> order = <<>>
  BY <1>1, NotNull, MembersOf DEF Listing
<1>4. CASE order = <<>>
  <2> DEFINE d == [dev EXCEPT !._monitor = m, !._curmon = m, !._imonitor = @ + 1]
  <2>1. dev' = d /\ UNCHANGED <<mon, faults>>
    BY <1>3, <1>4 DEF device_add_monitor
  <2>2. /\ d \in DeviceStructs /\ d._monitor = m /\ d._curmon = m
        /\ d._imonitor = dev._imonitor + 1
    <3> DEFINE p == [dev EXCEPT !._monitor = m]
               q == [p EXCEPT !._curmon = m]
    <3>1. p \in DeviceStructs /\ p._monitor = m /\ p._imonitor = dev._imonitor
      BY <1>1 DEF DeviceStructs
    <3> HIDE DEF p
    <3>2. /\ q \in DeviceStructs /\ q._monitor = m /\ q._curmon = m
          /\ q._imonitor = dev._imonitor /\ q._imonitor \in Nat
      BY <1>1, <3>1 DEF DeviceStructs
    <3>3. d = [q EXCEPT !._imonitor = dev._imonitor + 1]
      BY <1>1 DEF DeviceStructs, p
    <3> HIDE DEF q, d
    <3> QED
      BY <3>2, <3>3 DEF DeviceStructs
  <2> HIDE DEF d
  <2>3. d # Null
    BY <2>2, NotNull
  <2>4. TypeOK' /\ Defined' /\ TargetsHold(lists)' /\ OwnersHold(lists)'
    BY <1>1, <2>1, <2>2, <2>3 DEF TypeOK, Holds, Defined, TargetsHold, OwnersHold
  <2>5. Append(order, m) = <<m>> /\ Listing(<<m>>, M, m, mon)
    BY <1>1, <1>4, SingleListing
  <2>6. DeviceHolds(Append(order, m))'
    BY <1>1, <1>2, <2>1, <2>2, <2>3, <2>5 DEF DeviceHolds, EndsAt
  <2> QED
    BY <1>1, <2>1, <2>3, <2>4, <2>6 DEF Holds
<1>5. CASE order # <<>>
  <2>1. last \in ToSet(order) /\ last = order[Len(order)] /\ last \in mlive /\ last # m
    BY <1>1, <1>5, PathsAre DEF device_add_monitor, MayAdd, EndsAt
  <2> DEFINE d == [dev EXCEPT !._curmon = m, !._imonitor = @ + 1]
             r == [mon[last] EXCEPT !._next = m]
  <2>2. dev' = d /\ mon' = [mon EXCEPT ![last]._next = m] /\ faults' = faults
    BY <1>3, <1>5, <2>1 DEF device_add_monitor
  <2>3. /\ d \in DeviceStructs /\ d._monitor = dev._monitor /\ d._curmon = m
        /\ d._imonitor = dev._imonitor + 1
    <3> DEFINE q == [dev EXCEPT !._curmon = m]
    <3>1. /\ q \in DeviceStructs /\ q._monitor = dev._monitor /\ q._curmon = m
          /\ q._imonitor = dev._imonitor /\ q._imonitor \in Nat
      BY <1>1 DEF DeviceStructs
    <3>2. d = [q EXCEPT !._imonitor = dev._imonitor + 1]
      BY <1>1 DEF DeviceStructs
    <3> HIDE DEF q, d
    <3> QED
      BY <3>1, <3>2 DEF DeviceStructs
  <2>4. /\ r \in MonitorStructs /\ r._next = m /\ r._target = mon[last]._target
        /\ r._cru = mon[last]._cru /\ r._itarget = mon[last]._itarget
        /\ r._label = mon[last]._label
    <3>1. mon[last] \in MonitorStructs
      BY <1>1, <2>1, Structures
    <3> QED
      BY <3>1 DEF MonitorStructs
  <2>5. mon' = [mon EXCEPT ![last] = r]
    BY <2>2
  <2> HIDE DEF d, r, last
  <2>6. /\ mon' \in [M -> MonitorStructs \cup {Null}] /\ mon'[last] = r
        /\ \A x \in M : x # last => mon'[x] = mon[x]
    BY <1>1, <2>1, <2>4, <2>5 DEF TypeOK
  <2>7. d # Null /\ r # Null
    BY <2>3, <2>4, NotNull
  <2>8. TypeOK' /\ Defined'
    <3>1. \A x \in M : x \in mlive <=> mon'[x] # Null
      BY <1>1, <2>1, <2>6, <2>7 DEF TypeOK
    <3> QED
      BY <1>1, <2>2, <2>3, <2>6, <3>1 DEF TypeOK, Holds, Defined
  <2>9. \A x \in M : /\ mon'[x]._target = mon[x]._target /\ mon'[x]._cru = mon[x]._cru
                     /\ mon'[x]._itarget = mon[x]._itarget
                     /\ mon'[x]._label = mon[x]._label
    BY <2>4, <2>6
  <2>10. TargetsHold(lists)' /\ OwnersHold(lists)'
    BY <1>1, <2>9 DEF TargetsHold, OwnersHold
  <2>11. Listing(Append(order, m), M, dev._monitor, mon')
    <3>1. mon'[m]._next = Null /\ mon'[order[Len(order)]]._next = m
      BY <1>1, <2>1, <2>4, <2>6
    <3>2. \A y \in ToSet(order) : y # order[Len(order)] => mon'[y]._next = mon[y]._next
      BY <1>1, <2>1, <2>6
    <3>3. m \in M \ ToSet(order)
      BY <1>1
    <3> QED
      BY <1>1, <1>5, <3>1, <3>2, <3>3, AppendedListing, Zenon
  <2>12. \A x \in mlive' \ ToSet(Append(order, m)) : mon'[x]._next = Null
    BY <1>1, <1>2, <2>1, <2>6 DEF DeviceHolds
  <2>13. DeviceHolds(Append(order, m))'
    BY <1>1, <1>2, <2>2, <2>3, <2>7, <2>11, <2>12 DEF DeviceHolds, EndsAt
  <2> QED
    BY <1>1, <2>2, <2>7, <2>8, <2>9, <2>10, <2>13 DEF Holds
<1> QED
  BY <1>4, <1>5

\* The i-th monitor of the device is unlinked and destroyed.
DeletesMonitor(list, i) ==
  LET m == list[i]
      rest == mon[m]._next
  IN  /\ dev' = [dev EXCEPT !._monitor = IF i = 1 THEN rest ELSE @,
                            !._imonitor = @ - 1]
      /\ mlive' = mlive \ {m}
      /\ mon' = IF i = 1 THEN [mon EXCEPT ![m] = Null]
                ELSE [mon EXCEPT ![list[i - 1]]._next = rest, ![m] = Null]
      /\ tlive' = tlive \ OwnTargets({m})
      /\ tgt' = [t \in T |-> IF t \in OwnTargets({m}) THEN Null ELSE tgt[t]]
      /\ faults' = faults

LEMMA DelMonitorHolds ==
  ASSUME NEW lists, NEW order, Holds(lists, order), dev # Null,
         NEW i \in 1 .. Len(order), DeletesMonitor(order, i)
  PROVE  /\ Holds(Without(lists, {order[i]}), RemoveAt(order, i))' /\ dev' # Null
         /\ order[i] \in mlive /\ mlive' = mlive \ {order[i]}
         /\ \A x \in mlive' : /\ mon'[x]._label = mon[x]._label
                              /\ mon'[x]._target = mon[x]._target
                              /\ \A t \in ToSet(lists[x]) : tgt'[t] = tgt[t]
<1> DEFINE m == order[i]
           before == order[i - 1]
           rest == mon[m]._next
           top == IF i = 1 THEN rest ELSE dev._monitor
<1>1. /\ TypeOK /\ TargetsHold(lists) /\ OwnersHold(lists) /\ DeviceHolds(order)
      /\ dev \in DeviceStructs /\ mlive \subseteq M
      /\ order \in Seq(M) /\ Listing(order, M, dev._monitor, mon)
      /\ dev._imonitor = Len(order) /\ EndsAt(order, dev._curmon)
      /\ ToSet(order) \subseteq mlive
  BY Structures DEF Holds, DeviceHolds
<1>2. /\ i \in Nat \ {0} /\ Len(order) \in Nat /\ i <= Len(order)
      /\ m \in ToSet(order) /\ m \in mlive /\ m \in M /\ mon[m] \in MonitorStructs
      /\ i > 1 => /\ before \in ToSet(order) /\ before \in mlive /\ before \in M
                  /\ before # m /\ mon[before] \in MonitorStructs
  <2>1. i \in Nat \ {0} /\ Len(order) \in Nat /\ i <= Len(order)
    BY <1>1
  <2>2. m \in ToSet(order) /\ m \in mlive /\ m \in M /\ mon[m] \in MonitorStructs
    BY <1>1, MembersOf, Structures
  <2>3. ASSUME i > 1
        PROVE  /\ before \in ToSet(order) /\ before \in mlive /\ before \in M
               /\ before # m /\ mon[before] \in MonitorStructs
    <3>1. i - 1 \in 1 .. Len(order) /\ i - 1 # i
      BY <2>1, <2>3
    <3> QED
      BY <1>1, <3>1, MembersOf, Structures DEF Listing
  <2> QED
    BY <2>1, <2>2, <2>3
<1>3. rest \in M \cup {Null} /\ top \in M \cup {Null}
  BY <1>1, <1>2 DEF MonitorStructs, DeviceStructs
<1> HIDE DEF OwnTargets, m, before
<1>4. /\ dev' \in DeviceStructs /\ dev'._monitor = top /\ dev'._curmon = dev._curmon
      /\ dev'._imonitor = dev._imonitor - 1
  <2> DEFINE d == [dev EXCEPT !._monitor = top]
  <2>1. /\ d \in DeviceStructs /\ d._monitor = top /\ d._curmon = dev._curmon
        /\ d._imonitor = dev._imonitor /\ dev._imonitor - 1 \in Nat
    BY <1>1, <1>2, <1>3 DEF DeviceStructs
  <2>2. dev' = [d EXCEPT !._imonitor = dev._imonitor - 1]
    BY <1>1 DEF DeletesMonitor, DeviceStructs, m
  <2> HIDE DEF d
  <2> QED
    BY <2>1, <2>2 DEF DeviceStructs
<1>5. /\ mlive' = mlive \ {m} /\ tlive' = tlive \ OwnTargets({m})
      /\ tgt' = [t \in T |-> IF t \in OwnTargets({m}) THEN Null ELSE tgt[t]]
      /\ mon' = IF i = 1 THEN [mon EXCEPT ![m] = Null]
                ELSE [mon EXCEPT ![before]._next = rest, ![m] = Null]
      /\ faults' = faults
  BY DEF DeletesMonitor, m, before
<1>6. /\ mon' \in [M -> MonitorStructs \cup {Null}] /\ mon'[m] = Null
      /\ i > 1 => mon'[before]._next = rest
      /\ \A x \in M : x # m /\ (i > 1 => x # before) => mon'[x] = mon[x]
      /\ \A x \in mlive \ {m} :
           /\ mon'[x] \in MonitorStructs /\ mon'[x]._label = mon[x]._label
           /\ mon'[x]._target = mon[x]._target /\ mon'[x]._cru = mon[x]._cru
           /\ mon'[x]._itarget = mon[x]._itarget
      /\ \A x \in M \ mlive : mon'[x] = Null
  <2>1. CASE i = 1
    <3>1. mon' = [mon EXCEPT ![m] = Null]
      BY <1>5, <2>1
    <3>2. /\ mon' \in [M -> MonitorStructs \cup {Null}] /\ mon'[m] = Null
          /\ \A x \in M : x # m => mon'[x] = mon[x]
      BY <1>1, <1>2, <3>1 DEF TypeOK
    <3> QED
      BY <1>1, <1>2, <2>1, <3>2, Structures
  <2>2. CASE i > 1
    <3> DEFINE r == [mon[before] EXCEPT !._next = rest]
               new == [mon EXCEPT ![before] = r]
    <3>1. /\ r \in MonitorStructs /\ r._next = rest /\ r._target = mon[before]._target
          /\ r._cru = mon[before]._cru /\ r._itarget = mon[before]._itarget
          /\ r._label = mon[before]._label
      BY <1>2, <1>3, <2>2 DEF MonitorStructs
    <3>2. mon' = [new EXCEPT ![m] = Null]
      BY <1>2, <1>5, <2>2
    <3> HIDE DEF r
    <3>3. /\ new \in [M -> MonitorStructs \cup {Null}] /\ new[before] = r
          /\ \A x \in M : x # before => new[x] = mon[x]
      BY <1>1, <1>2, <2>2, <3>1 DEF TypeOK
    <3> HIDE DEF new
    <3>4. /\ mon' \in [M -> MonitorStructs \cup {Null}] /\ mon'[m] = Null
          /\ \A x \in M : x # m => mon'[x] = new[x]
      BY <1>2, <3>2, <3>3
    <3> QED
      BY <1>1, <1>2, <2>2, <3>1, <3>3, <3>4, Structures
  <2> QED
    BY <1>2, <2>1, <2>2
<1>7. /\ TypeOK' /\ Defined'
      /\ TargetsHold(Without(lists, {m}))' /\ OwnersHold(Without(lists, {m}))'
      /\ \A x \in mlive' : \A t \in ToSet(lists[x]) : tgt'[t] = tgt[t]
  <2>1. /\ {m} \in SUBSET mlive /\ \A x \in {m} : mon'[x] = Null
        /\ \A x \in mlive \ {m} :
             /\ mon'[x] \in MonitorStructs
             /\ mon'[x]._target = mon[x]._target /\ mon'[x]._cru = mon[x]._cru
             /\ mon'[x]._itarget = mon[x]._itarget
        /\ dev' \in DeviceStructs \cup {Null}
    BY <1>2, <1>4, <1>6
  <2> DEFINE ms == {m}
  <2>2. /\ ms \in SUBSET mlive /\ mlive' = mlive \ ms /\ tlive' = tlive \ OwnTargets(ms)
        /\ tgt' = [t \in T |-> IF t \in OwnTargets(ms) THEN Null ELSE tgt[t]]
        /\ \A x \in ms : mon'[x] = Null
        /\ \A x \in mlive \ ms :
             /\ mon'[x] \in MonitorStructs
             /\ mon'[x]._target = mon[x]._target /\ mon'[x]._cru = mon[x]._cru
             /\ mon'[x]._itarget = mon[x]._itarget
    BY <1>5, <2>1
  <2>3. /\ mon' \in [M -> MonitorStructs \cup {Null}] /\ \A x \in M \ mlive : mon'[x] = Null
        /\ dev' \in DeviceStructs \cup {Null} /\ faults' = faults
    BY <1>5, <1>6, <2>1
  <2> HIDE DEF ms
  <2>4. /\ TypeOK' /\ Defined'
        /\ TargetsHold(Without(lists, ms))' /\ OwnersHold(Without(lists, ms))'
        /\ \A x \in mlive' : \A t \in ToSet(lists[x]) : tgt'[t] = tgt[t]
    BY <2>2, <2>3, DestroyedHold
  <2> QED
    BY ONLY <2>4 DEF ms
<1>8. Unlinked(order, i, M, top, mon')
  <2>1. \A y \in ToSet(order) : y # order[i] /\ (i > 1 => y # order[i - 1])
                              => mon'[y]._next = mon[y]._next
    BY <1>1, <1>6 DEF m, before
  <2>2. i > 1 => mon'[order[i - 1]]._next = mon[order[i]]._next
    BY <1>6 DEF m, before
  <2>3. Unlinks(order, i, dev._monitor, mon, top, mon')
    BY <2>1, <2>2 DEF Unlinks, m
  <2> HIDE DEF top
  <2> QED
    BY <1>1, <2>3, UnlinkedListing
<1>9. DeviceHolds(RemoveAt(order, i))'
  <2>1. /\ Listing(RemoveAt(order, i), M, top, mon')
        /\ ToSet(RemoveAt(order, i)) = ToSet(order) \ {m}
        /\ Len(RemoveAt(order, i)) = Len(order) - 1
        /\ EndsAt(RemoveAt(order, i), dev._curmon)
    BY <1>1, <1>8 DEF Unlinked, m
  <2>2. dev' # Null
    BY <1>4, NotNull
  <2>3. \A x \in mlive' \ ToSet(RemoveAt(order, i)) : mon'[x]._next = Null
    <3> SUFFICES ASSUME NEW x \in mlive' \ ToSet(RemoveAt(order, i))
                 PROVE  mon'[x]._next = Null
      OBVIOUS
    <3>1. x \in mlive /\ x \notin ToSet(order) /\ x # m /\ x \in M
      BY <1>1, <1>5, <2>1
    <3>2. mon'[x] = mon[x]
      BY <1>2, <1>6, <3>1
    <3> QED
      BY <1>1, <3>1, <3>2 DEF DeviceHolds
  <2>4. RemoveAt(order, i) \in Seq(M)
    BY <2>1 DEF Listing
  <2>5. ToSet(RemoveAt(order, i)) \subseteq mlive'
    BY <1>1, <1>5, <2>1
  <2> HIDE DEF top
  <2> QED
    BY <1>1, <1>4, <2>1, <2>2, <2>3, <2>4, <2>5 DEF DeviceHolds
<1>10. dev' # Null
  BY <1>4, NotNull
<1> QED
  BY <1>2, <1>5, <1>6, <1>7, <1>9, <1>10 DEF Holds, m

\* The device is destroyed with all its monitors.
LEMMA DeviceDestroyHolds ==
  ASSUME NEW lists, NEW order, Holds(lists, order), device_destory
  PROVE  /\ Holds(Without(lists, ToSet(order)), <<>>)' /\ dev # Null /\ dev' = Null
         /\ mlive' = mlive \ ToSet(order)
         /\ \A x \in mlive' : /\ mon'[x] = mon[x]
                              /\ \A t \in ToSet(lists[x]) : tgt'[t] = tgt[t]
<1> DEFINE ms == ToSet(order)
<1>1. /\ TypeOK /\ DeviceHolds(order) /\ ms \subseteq mlive /\ mlive \subseteq M
      /\ mlive' = mlive \ ms /\ tlive' = tlive \ OwnTargets(ms)
      /\ mon' = [x \in M |-> IF x \in ms THEN Null ELSE mon[x]]
      /\ tgt' = [t \in T |-> IF t \in OwnTargets(ms) THEN Null ELSE tgt[t]]
      /\ dev # Null /\ dev' = Null /\ faults' = faults
  BY Structures, PathsAre DEF device_destory, Free, Holds, DeviceHolds
<1> HIDE DEF OwnTargets, ms
<1>2. /\ mon' \in [M -> MonitorStructs \cup {Null}]
      /\ \A x \in ms : mon'[x] = Null
      /\ \A x \in M : x \notin ms => mon'[x] = mon[x]
      /\ \A x \in mlive \ ms : mon'[x] \in MonitorStructs /\ mon'[x] = mon[x]
      /\ \A x \in M \ mlive : mon'[x] = Null
      /\ dev' \in DeviceStructs \cup {Null}
  BY <1>1, Structures DEF TypeOK
<1>3. /\ TypeOK' /\ Defined'
      /\ TargetsHold(Without(lists, ms))' /\ OwnersHold(Without(lists, ms))'
      /\ \A x \in mlive' : \A t \in ToSet(lists[x]) : tgt'[t] = tgt[t]
  <2>1. /\ ms \in SUBSET mlive
        /\ \A x \in mlive \ ms :
             /\ mon'[x] \in MonitorStructs
             /\ mon'[x]._target = mon[x]._target /\ mon'[x]._cru = mon[x]._cru
             /\ mon'[x]._itarget = mon[x]._itarget
    BY <1>1, <1>2
  <2> QED
    BY <1>1, <1>2, <2>1, DestroyedHold
<1>4. DeviceHolds(<<>>)'
  <2>1. ToSet(<<>>) = {}
    BY DEF ToSet
  <2>2. ASSUME NEW x \in mlive' PROVE mon'[x]._next = Null
    <3>1. x \in mlive /\ x \in M /\ x \notin ToSet(order) /\ mon'[x] = mon[x]
      BY <1>1, <1>2 DEF ms
    <3> QED
      BY <1>1, <3>1 DEF DeviceHolds
  <2>3. <<>> \in Seq(M)
    OBVIOUS
  <2> QED
    BY <1>1, <2>1, <2>2, <2>3 DEF DeviceHolds
<1> QED
  BY <1>1, <1>2, <1>3, <1>4 DEF Holds, ms

-----------------------------------------------------------------------------
(* Every operation of the interface keeps the invariant.                   *)
LEMMA InitHolds == Init => Holds([m \in M |-> <<>>], <<>>)
<1> SUFFICES ASSUME Init PROVE Holds([m \in M |-> <<>>], <<>>)
  OBVIOUS
<1>1. TypeOK /\ Defined
  BY DEF Init, TypeOK, Defined
<1>2. ToSet(<<>>) = {} /\ mlive = {} /\ tlive = {} /\ dev = Null
  BY DEF ToSet, Init
<1>3. TargetsHold([m \in M |-> <<>>]) /\ OwnersHold([m \in M |-> <<>>])
  BY <1>2 DEF TargetsHold, OwnersHold
<1>4. DeviceHolds(<<>>)
  BY <1>2 DEF DeviceHolds
<1> QED
  BY <1>1, <1>3, <1>4 DEF Holds

\* The searches of monitor_del_target and device_del_monitor.
LEMMA DelTargetFinds ==
  ASSUME NEW lists, NEW order, Holds(lists, order), NEW m \in M, NEW l \in Labels,
         monitor_del_target(m, l)
  PROVE  m \in mlive /\ \E i \in 2 .. Len(lists[m]) :
           /\ tgt[lists[m][i]]._label = l
           /\ \A j \in 2 .. i - 1 : tgt[lists[m][j]]._label # l
           /\ tgt' = [tgt EXCEPT ![lists[m][i - 1]]._next = tgt[lists[m][i]]._next,
                                 ![lists[m][i]] = Null]
           /\ tlive' = tlive \ {lists[m][i]}
           /\ mon' = [mon EXCEPT ![m]._itarget = @ - 1]
           /\ UNCHANGED <<mlive, dev, faults>>
<1>1. m \in mlive /\ TargetsOf(m) = lists[m]
  BY PathsAre DEF monitor_del_target
<1> HIDE DEF TargetsOf
<1> QED
  BY <1>1 DEF monitor_del_target, FirstDeletable

LEMMA DelMonitorFinds ==
  ASSUME NEW lists, NEW order, Holds(lists, order), NEW n \in Names, device_del_monitor(n)
  PROVE  dev # Null /\ \E i \in 1 .. Len(order) :
           /\ mon[order[i]]._label = n
           /\ \A j \in 1 .. i - 1 : mon[order[j]]._label # n
           /\ DeletesMonitor(order, i)
<1>1. MonitorsOf = order
  BY PathsAre
<1> HIDE DEF MonitorsOf
<1>2. DOMAIN order = 1 .. Len(order)
  BY DEF Holds, DeviceHolds
<1>3. PICK i \in DOMAIN MonitorsOf :
        /\ mon[MonitorsOf[i]]._label = n
        /\ \A j \in 1 .. i - 1 : mon[MonitorsOf[j]]._label # n
        /\ DeletesMonitor(MonitorsOf, i)
  BY Zenon DEF device_del_monitor, DeletesMonitor
<1>4. dev # Null
  BY DEF device_del_monitor
<1> QED
  BY <1>1, <1>2, <1>3, <1>4, Zenon

LEMMA NextHolds ==
  ASSUME ~AddsAfterTailDeletion, HeapInv, [Next]_vars
  PROVE  HeapInv'
<1>1. PICK lists, order : Holds(lists, order)
  BY DEF HeapInv
<1>2. ASSUME NEW m \in M, NEW t \in T, NEW n \in Names, NEW s \in Stats,
             monitor_new(m, t, n, s)
      PROVE  HeapInv'
  BY <1>1, <1>2, NewHolds DEF HeapInv
<1>3. ASSUME NEW m \in M, NEW t \in T, NEW l \in Labels, monitor_add_target(m, t, l)
      PROVE  HeapInv'
  BY <1>1, <1>3, AddTargetHolds DEF HeapInv
<1>4. ASSUME NEW m \in M, NEW l \in Labels, monitor_del_target(m, l)
      PROVE  HeapInv'
  <2>1. PICK i \in 2 .. Len(lists[m]) :
          /\ tgt' = [tgt EXCEPT ![lists[m][i - 1]]._next = tgt[lists[m][i]]._next,
                                ![lists[m][i]] = Null]
          /\ tlive' = tlive \ {lists[m][i]}
          /\ mon' = [mon EXCEPT ![m]._itarget = @ - 1]
          /\ UNCHANGED <<mlive, dev, faults>>
    BY <1>1, <1>4, DelTargetFinds
  <2>2. m \in mlive
    BY <1>1, <1>4, DelTargetFinds
  <2> QED
    BY <1>1, <2>1, <2>2, DelTargetHolds DEF HeapInv
<1>5. ASSUME NEW m \in M, NEW s \in Stats, monitor_set_stat(m, s)
      PROVE  HeapInv'
  BY <1>1, <1>5, SetStatHolds DEF HeapInv
<1>6. ASSUME NEW m \in M, monitor_destory(m)
      PROVE  HeapInv'
  BY <1>1, <1>6, DestroyHolds DEF HeapInv
<1>7. ASSUME NEW m \in M, device_add_monitor(m)
      PROVE  HeapInv'
  BY <1>1, <1>7, AddMonitorHolds DEF HeapInv
<1>8. CASE device_new
  BY <1>1, <1>8, DeviceNewHolds DEF HeapInv
<1>9. ASSUME NEW n \in Names, device_del_monitor(n)
      PROVE  HeapInv'
  <2>1. dev # Null
    BY <1>1, <1>9, DelMonitorFinds
  <2>2. PICK i \in 1 .. Len(order) : DeletesMonitor(order, i)
    BY <1>1, <1>9, DelMonitorFinds
  <2>3. Holds(Without(lists, {order[i]}), RemoveAt(order, i))'
    BY <1>1, <2>1, <2>2, DelMonitorHolds
  <2> QED
    BY <2>3 DEF HeapInv
<1>10. CASE device_destory
  BY <1>1, <1>10, DeviceDestroyHolds DEF HeapInv
<1>11. CASE UNCHANGED vars
  <2>1. TypeOK' /\ Defined'
    BY <1>1, <1>11 DEF vars, Holds, TypeOK, Defined
  <2>2. TargetsHold(lists)' /\ OwnersHold(lists)' /\ DeviceHolds(order)'
    BY <1>1, <1>11 DEF vars, Holds, TargetsHold, OwnersHold, DeviceHolds
  <2> QED
    BY <2>1, <2>2 DEF HeapInv, Holds
<1> QED
  BY <1>2, <1>3, <1>4, <1>5, <1>6, <1>7, <1>8, <1>9, <1>10, <1>11 DEF Next

-----------------------------------------------------------------------------
LEMMA HeapInvImplies == HeapInv => OneOwner /\ Counts /\ Defined
<1> SUFFICES ASSUME HeapInv PROVE OneOwner /\ Counts /\ Defined
  OBVIOUS
<1>1. PICK lists, order : Holds(lists, order)
  BY DEF HeapInv
<1>2. /\ \A m \in mlive : TargetsOf(m) = lists[m]
      /\ MonitorsOf = order /\ Listed = ToSet(order)
      /\ \A ms \in SUBSET mlive : OwnTargets(ms) = UNION {ToSet(lists[m]) : m \in ms}
  BY <1>1, PathsAre
<1> HIDE DEF TargetsOf, MonitorsOf, OwnTargets, Listed
<1>3. OwnTargets(mlive) = tlive
  BY <1>1, <1>2 DEF Holds, OwnersHold
<1>4. \A m \in mlive : OwnTargets({m}) = ToSet(lists[m])
  BY <1>2
<1>5. \A m, o \in mlive : m # o => OwnTargets({m}) \cap OwnTargets({o}) = {}
  BY <1>1, <1>4 DEF Holds, OwnersHold
<1>6. \A m \in mlive : IsInjective(TargetsOf(m))
  BY <1>1, <1>2 DEF Holds, TargetsHold, Listing, IsInjective
<1>7. IsInjective(MonitorsOf)
  BY <1>1, <1>2 DEF Holds, DeviceHolds, Listing, IsInjective
<1>8. OneOwner
  BY <1>1, <1>2, <1>3, <1>5, <1>6, <1>7 DEF OneOwner, Holds, DeviceHolds
<1>9. Counts
  BY <1>1, <1>2 DEF Counts, Holds, TargetsHold, DeviceHolds
<1> QED
  BY <1>1, <1>8, <1>9 DEF Holds

\* Every allocated target is in one list, once, whatever is added, deleted and
\* destroyed in south.cpp and however malloc reuses the cells, as long as the caller does
\* not add to a list whose last element was deleted; a pointer to freed memory is
\* never followed.
THEOREM OwnersKept ==
  ASSUME ~AddsAfterTailDeletion
  PROVE  Spec => [](OneOwner /\ Defined)
<1>1. Init => HeapInv
  BY InitHolds DEF HeapInv
<1>2. HeapInv /\ [Next]_vars => HeapInv'
  BY NextHolds
<1>3. HeapInv => OneOwner /\ Defined
  BY HeapInvImplies
<1> QED
  BY <1>1, <1>2, <1>3, PTL DEF Spec

\* _itarget and _imonitor are the lengths of the lists.
THEOREM CountsKept ==
  ASSUME ~AddsAfterTailDeletion
  PROVE  Spec => []Counts
<1>1. Init => HeapInv
  BY InitHolds DEF HeapInv
<1>2. HeapInv /\ [Next]_vars => HeapInv'
  BY NextHolds
<1>3. HeapInv => Counts
  BY HeapInvImplies
<1> QED
  BY <1>1, <1>2, <1>3, PTL DEF Spec

-----------------------------------------------------------------------------
(* The refinement of SouthLists: what a reader of the lists sees.          *)

\* The labels of the targets after the first.
LabelsIn(s, cell) == [i \in 1 .. Len(s) - 1 |-> cell[s[i + 1]]._label]

AreLabels(p, s, cell, L) ==
  /\ p \in Seq(L) /\ Len(p) = Len(s) - 1
  /\ \A i \in 1 .. Len(s) - 1 : p[i] = cell[s[i + 1]]._label

Labelled(s, cell, L) == \A x \in ToSet(s) : cell[x]._label \in L
SameLabels(s, cell, after) == \A x \in ToSet(s) : after[x]._label = cell[x]._label

LEMMA LabelsKnown ==
  ASSUME NEW S, NEW s \in Seq(S), s # <<>>, NEW L, NEW cell, Labelled(s, cell, L)
  PROVE  AreLabels(LabelsIn(s, cell), s, cell, L)
<1>1. /\ Len(s) - 1 \in Nat /\ Len(s) \in Nat
      /\ \A i \in 1 .. Len(s) - 1 : i + 1 \in 1 .. Len(s)
  BY MembersOf
<1>2. \A i \in 1 .. Len(s) - 1 : cell[s[i + 1]]._label \in L
  BY <1>1, MembersOf DEF Labelled
<1> QED
  BY <1>1, <1>2 DEF LabelsIn, AreLabels

\* The labels stay as they are.
LEMMA LabelsSame ==
  ASSUME NEW S, NEW s \in Seq(S), NEW cell, NEW after, SameLabels(s, cell, after)
  PROVE  LabelsIn(s, after) = LabelsIn(s, cell)
<1>1. \A i \in 1 .. Len(s) - 1 : i + 1 \in 1 .. Len(s)
  BY MembersOf
<1>2. \A i \in 1 .. Len(s) - 1 : after[s[i + 1]]._label = cell[s[i + 1]]._label
  BY <1>1, MembersOf DEF SameLabels
<1> QED
  BY <1>2 DEF LabelsIn

LEMMA SequencesAgree ==
  ASSUME NEW S, NEW s \in Seq(S), NEW t \in Seq(S), Len(s) = Len(t),
         \A i \in 1 .. Len(s) : s[i] = t[i]
  PROVE  s = t
  OBVIOUS

\* A target is appended.
LEMMA LabelsAppended ==
  ASSUME NEW S, NEW s \in Seq(S), s # <<>>, NEW t \in S, NEW L, NEW cell, NEW after,
         Labelled(s, cell, L), SameLabels(s, cell, after),
         NEW l \in L, after[t]._label = l
  PROVE  LabelsIn(Append(s, t), after) = Append(LabelsIn(s, cell), l)
<1> DEFINE a == Append(s, t)
           old == LabelsIn(s, cell)
           new == LabelsIn(a, after)
<1>1. /\ a \in Seq(S) /\ a # <<>> /\ Len(a) = Len(s) + 1 /\ Len(s) \in Nat \ {0}
      /\ a[Len(s) + 1] = t /\ \A i \in 1 .. Len(s) : a[i] = s[i]
      /\ ToSet(a) = ToSet(s) \cup {t}
  BY AppendedTo, MembersOf
<1> HIDE DEF a
<1>2. AreLabels(old, s, cell, L)
  BY LabelsKnown
<1>3. AreLabels(new, a, after, L)
  <2>1. Labelled(a, after, L)
    BY <1>1 DEF Labelled, SameLabels
  <2> QED
    BY <1>1, <2>1, LabelsKnown
<1> HIDE DEF old, new
<1>4. /\ old \in Seq(L) /\ Len(old) = Len(s) - 1
      /\ \A i \in 1 .. Len(s) - 1 : old[i] = cell[s[i + 1]]._label
      /\ new \in Seq(L) /\ Len(new) = Len(a) - 1
      /\ \A i \in 1 .. Len(a) - 1 : new[i] = after[a[i + 1]]._label
  BY <1>2, <1>3 DEF AreLabels
<1>5. /\ Append(old, l) \in Seq(L) /\ Len(Append(old, l)) = Len(s)
      /\ Append(old, l)[Len(s)] = l
      /\ \A i \in 1 .. Len(s) - 1 : Append(old, l)[i] = old[i]
  BY <1>1, <1>4
<1>6. ASSUME NEW i \in 1 .. Len(s) PROVE new[i] = Append(old, l)[i]
  <2>1. CASE i = Len(s)
    BY <1>1, <1>4, <1>5, <2>1
  <2>2. CASE i # Len(s)
    <3>1. i \in 1 .. Len(s) - 1 /\ i + 1 \in 1 .. Len(s) /\ i \in 1 .. Len(a) - 1
      BY <1>1, <2>2
    <3>2. s[i + 1] \in ToSet(s)
      BY <3>1, MembersOf
    <3> QED
      BY <1>1, <1>4, <1>5, <3>1, <3>2 DEF SameLabels
  <2> QED
    BY <2>1, <2>2
<1>7. Len(new) = Len(s)
  BY <1>1, <1>4
<1>8. new = Append(old, l)
  BY <1>4, <1>5, <1>6, <1>7, SequencesAgree
<1> QED
  BY <1>8 DEF new, old, a

\* A target after the first is taken out.
LEMMA LabelsRemoved ==
  ASSUME NEW S, NEW s \in Seq(S), NEW i \in 2 .. Len(s), NEW L, NEW cell, NEW after,
         Labelled(s, cell, L), SameLabels(RemoveAt(s, i), cell, after)
  PROVE  LabelsIn(RemoveAt(s, i), after) = RemoveAt(LabelsIn(s, cell), i - 1)
<1> DEFINE r == RemoveAt(s, i)
           old == LabelsIn(s, cell)
           new == LabelsIn(r, after)
           rest == RemoveAt(old, i - 1)
<1>1. /\ Len(s) \in Nat /\ Len(s) >= 2 /\ s # <<>> /\ i \in 1 .. Len(s)
      /\ i - 1 \in 1 .. Len(s) - 1
  BY MembersOf
<1>2. /\ r \in Seq(S) /\ Len(r) = Len(s) - 1 /\ ToSet(r) \subseteq ToSet(s)
      /\ \A j \in 1 .. Len(s) - 1 : r[j] = IF j < i THEN s[j] ELSE s[j + 1]
  BY <1>1, RemovedFrom
<1> HIDE DEF r, rest
<1>3. AreLabels(old, s, cell, L)
  BY <1>1, LabelsKnown
<1>4. r # <<>> /\ SameLabels(r, cell, after)
  BY <1>1, <1>2 DEF r
<1>5. AreLabels(new, r, after, L)
  <2>1. Labelled(r, after, L)
    BY <1>2, <1>4 DEF Labelled, SameLabels
  <2> QED
    BY <1>2, <1>4, <2>1, LabelsKnown
<1> HIDE DEF old, new
<1>6. /\ old \in Seq(L) /\ Len(old) = Len(s) - 1
      /\ \A j \in 1 .. Len(s) - 1 : old[j] = cell[s[j + 1]]._label
      /\ new \in Seq(L) /\ Len(new) = Len(r) - 1
      /\ \A j \in 1 .. Len(r) - 1 : new[j] = after[r[j + 1]]._label
  BY <1>3, <1>5 DEF AreLabels
<1>7. /\ rest \in Seq(L) /\ Len(rest) = Len(old) - 1
      /\ \A j \in 1 .. Len(old) - 1 : rest[j] = IF j < i - 1 THEN old[j] ELSE old[j + 1]
  <2>1. i - 1 \in 1 .. Len(old)
    BY <1>1, <1>6
  <2> QED
    BY <1>6, <2>1, RemovedFrom, Zenon DEF rest
<1>8. ASSUME NEW j \in 1 .. Len(s) - 2 PROVE new[j] = rest[j]
  <2>1. /\ j \in 1 .. Len(r) - 1 /\ j + 1 \in 1 .. Len(r) /\ j + 1 \in 1 .. Len(s) - 1
        /\ j \in 1 .. Len(s) - 1 /\ j \in 1 .. Len(old) - 1
    BY <1>1, <1>2, <1>6
  <2>2. r[j + 1] \in ToSet(r)
    BY <1>2, <2>1, MembersOf
  <2>3. new[j] = cell[r[j + 1]]._label
    BY <1>4, <1>6, <2>1, <2>2 DEF SameLabels
  <2>4. CASE j < i - 1
    <3>1. j + 1 < i
      BY <2>4
    <3> QED
      BY <1>2, <1>7, <1>6, <2>1, <2>3, <2>4, <3>1
  <2>5. CASE ~(j < i - 1)
    <3>1. ~(j + 1 < i)
      BY <2>5
    <3> QED
      BY <1>2, <1>7, <1>6, <2>1, <2>3, <2>5, <3>1
  <2> QED
    BY <2>4, <2>5
<1>9. Len(new) = Len(s) - 2 /\ Len(rest) = Len(s) - 2
  BY <1>1, <1>2, <1>7, <1>6
<1>10. new = rest
  BY <1>7, <1>8, <1>9, <1>6, SequencesAgree
<1> QED
  BY <1>10 DEF new, rest, old, r

-----------------------------------------------------------------------------
\* What the heap shows of a monitor whose list is s.
SeenAs(s, m) ==
  [name |-> mon[m]._label, stat |-> tgt[mon[m]._target]._value,
   targets |-> LabelsIn(s, tgt)]

View(lists) == [m \in M |-> IF m \notin mlive THEN Null ELSE SeenAs(lists[m], m)]

ViewShown ==
  \A lists, order : Holds(lists, order) =>
    /\ ShownMonitors = View(lists)
    /\ ShownDevice = IF dev = Null THEN Null ELSE order
    /\ \A m \in mlive : SeenAs(lists[m], m) \in Shown /\ SeenAs(lists[m], m) # Null
    /\ \A m \in M : m \in mlive <=> View(lists)[m] # Null

LEMMA ShownIsView == ViewShown
<1> SUFFICES ASSUME NEW lists, NEW order, Holds(lists, order)
             PROVE  /\ ShownMonitors = View(lists)
                    /\ ShownDevice = IF dev = Null THEN Null ELSE order
                    /\ \A m \in mlive : /\ SeenAs(lists[m], m) \in Shown
                                        /\ SeenAs(lists[m], m) # Null
                    /\ \A m \in M : m \in mlive <=> View(lists)[m] # Null
  BY Zenon DEF ViewShown
<1>1. MonitorsOf = order /\ \A m \in mlive : TargetsOf(m) = lists[m]
  BY PathsAre
<1> HIDE DEF MonitorsOf, TargetsOf
<1>2. ShownMonitors = View(lists)
  BY <1>1 DEF ShownMonitors, View, SeenAs, LabelsIn
<1>3. ShownDevice = IF dev = Null THEN Null ELSE order
  BY <1>1 DEF ShownDevice
<1>4. ASSUME NEW m \in mlive
      PROVE  SeenAs(lists[m], m) \in Shown /\ SeenAs(lists[m], m) # Null
  <2> DEFINE s == lists[m]
             targets == [i \in 1 .. Len(s) - 1 |-> tgt[s[i + 1]]._label]
  <2>1. /\ s \in Seq(T) /\ Len(s) \in Nat /\ s # <<>> /\ Len(s) - 1 \in Nat
        /\ mon[m]._target = s[1] /\ ToSet(s) \subseteq tlive
        /\ mon[m] \in MonitorStructs
    BY Structures, MembersOf DEF Holds, TargetsHold, OwnersHold, Listing
  <2>2. \A i \in 1 .. Len(s) : tgt[s[i]] \in TargetStructs
    BY <2>1, MembersOf, Structures DEF Holds
  <2>3. \A i \in 1 .. Len(s) - 1 : tgt[s[i + 1]]._label \in Labels \cup {Null}
    BY <2>1, <2>2 DEF TargetStructs
  <2>4. tgt[mon[m]._target]._value \in Stats \cup {Null} /\ mon[m]._label \in Names
    BY <2>1, <2>2 DEF TargetStructs, MonitorStructs
  <2>5. targets \in Seq(Labels \cup {Null})
    BY <2>1, <2>3
  <2> HIDE DEF targets
  <2>6. SeenAs(s, m) = [name |-> mon[m]._label, stat |-> tgt[mon[m]._target]._value,
                        targets |-> targets]
    BY DEF SeenAs, LabelsIn, targets
  <2>7. SeenAs(s, m) \in Shown
    BY <2>4, <2>5, <2>6 DEF Shown
  <2> QED
    BY <2>7, NullAssumption
<1>5. \A m \in M : m \in mlive <=> View(lists)[m] # Null
  BY <1>4 DEF View
<1> QED
  BY <1>2, <1>3, <1>4, <1>5

LEMMA ShownIsViewNext == ViewShown'
  BY ShownIsView, PTL

\* The helpers of SouthLists are these.
LEMMA SameHelpers ==
  /\ \A q, i : Lists!RemoveAt(q, i) = RemoveAt(q, i)
  /\ \A q : Lists!ToSet(q) = ToSet(q)
  BY DEF Lists!RemoveAt, RemoveAt, Lists!ToSet, ToSet

\* What both states show, for the steps below.
LEMMA ShownBoth ==
  ASSUME NEW lists, NEW order, Holds(lists, order),
         NEW after, NEW next, Holds(after, next)'
  PROVE  /\ ShownMonitors = View(lists) /\ ShownMonitors' = View(after)'
         /\ ShownDevice = IF dev = Null THEN Null ELSE order
         /\ ShownDevice' = IF dev' = Null THEN Null ELSE next
         /\ order \in Seq(M) /\ order # Null /\ next # Null
         /\ \A m \in M : m \in mlive <=> View(lists)[m] # Null
         /\ \A m \in mlive : View(lists)[m] = SeenAs(lists[m], m) /\ m \in M
         /\ View(after)' = [m \in M |-> IF m \notin mlive' THEN Null ELSE SeenAs(after[m], m)']
         /\ View(lists) = [m \in M |-> IF m \notin mlive THEN Null ELSE SeenAs(lists[m], m)]
<1>1. order \in Seq(M) /\ next \in Seq(M) /\ mlive \subseteq M
  BY DEF Holds, DeviceHolds, TypeOK
<1>2. order # Null /\ next # Null
  BY <1>1, NullAssumption
<1>3. /\ ShownMonitors = View(lists) /\ ShownMonitors' = View(after)'
      /\ ShownDevice = IF dev = Null THEN Null ELSE order
      /\ ShownDevice' = IF dev' = Null THEN Null ELSE next
      /\ \A m \in M : m \in mlive <=> View(lists)[m] # Null
  BY ShownIsView, ShownIsViewNext DEF ViewShown
<1>4. /\ View(after)' = [m \in M |-> IF m \notin mlive' THEN Null ELSE SeenAs(after[m], m)']
      /\ View(lists) = [m \in M |-> IF m \notin mlive THEN Null ELSE SeenAs(lists[m], m)]
  BY DEF View
<1>5. \A m \in mlive : View(lists)[m] = SeenAs(lists[m], m) /\ m \in M
  BY <1>1, <1>4
<1> QED
  BY <1>1, <1>2, <1>3, <1>4, <1>5

\* A monitor whose label and targets a step leaves alone is seen as before.
LEMMA SeenSame ==
  ASSUME NEW lists, NEW order, Holds(lists, order), NEW m \in mlive,
         mon'[m]._label = mon[m]._label, mon'[m]._target = mon[m]._target,
         \A t \in ToSet(lists[m]) : /\ tgt'[t]._label = tgt[t]._label
                                    /\ tgt'[t]._value = tgt[t]._value
  PROVE  SeenAs(lists[m], m)' = SeenAs(lists[m], m)
<1>1. /\ lists[m] \in Seq(T) /\ lists[m] # <<>> /\ mon[m]._target = lists[m][1]
  BY DEF Holds, TargetsHold, Listing, TypeOK
<1>2. mon[m]._target \in ToSet(lists[m])
  BY <1>1, MembersOf
<1>3. LabelsIn(lists[m], tgt') = LabelsIn(lists[m], tgt)
  BY <1>1, LabelsSame DEF SameLabels
<1> QED
  BY <1>2, <1>3 DEF SeenAs

\* A step that changes what is seen of one monitor.
LEMMA OneSeenChanges ==
  ASSUME NEW lists, NEW order, Holds(lists, order),
         NEW after, NEW next, Holds(after, next)', NEW m \in M, mlive' = mlive \cup {m},
         NEW seen, SeenAs(after[m], m)' = seen,
         \A x \in mlive : x # m => SeenAs(after[x], x)' = SeenAs(lists[x], x)
  PROVE  ShownMonitors' = [ShownMonitors EXCEPT ![m] = seen]
<1>1. /\ ShownMonitors = View(lists) /\ ShownMonitors' = View(after)'
      /\ View(after)' = [x \in M |-> IF x \notin mlive' THEN Null ELSE SeenAs(after[x], x)']
      /\ View(lists) = [x \in M |-> IF x \notin mlive THEN Null ELSE SeenAs(lists[x], x)]
  BY ShownBoth
<1> QED
  BY <1>1

LEMMA NewMaps ==
  ASSUME NEW lists, NEW order, Holds(lists, order),
         NEW m \in M, NEW t \in T, NEW n \in Names, NEW s \in Stats,
         monitor_new(m, t, n, s)
  PROVE  Lists!NewMonitor(m, n, s)
<1> DEFINE after == [lists EXCEPT ![m] = <<t>>]
           seen == [name |-> n, stat |-> s, targets |-> <<>>]
<1>1. Holds(after, order)'
  BY NewHolds
<1>2. /\ TypeOK /\ TargetsHold(lists) /\ OwnersHold(lists)
      /\ m \notin mlive /\ t \notin tlive /\ mlive' = mlive \cup {m} /\ dev' = dev
      /\ tgt' = [tgt EXCEPT ![t] = [_label |-> Null, _value |-> s, _next |-> Null]]
      /\ mon' = [mon EXCEPT ![m] = [_label |-> n, _target |-> t, _cru |-> t,
                                    _itarget |-> 1, _next |-> Null]]
  BY DEF Holds, monitor_new
<1>3. /\ after[m] = <<t>> /\ \A x \in M : x # m => after[x] = lists[x]
      /\ tgt'[t]._value = s /\ mon'[m]._label = n /\ mon'[m]._target = t
      /\ \A x \in M : x # m => mon'[x] = mon[x]
      /\ \A y \in T : y # t => tgt'[y] = tgt[y]
  BY <1>2 DEF TypeOK, TargetsHold
<1> HIDE DEF after
<1>4. SeenAs(after[m], m)' = seen
  <2>1. [i \in 1 .. Len(<<t>>) - 1 |-> tgt'[<<t>>[i + 1]]._label] = <<>>
    OBVIOUS
  <2> QED
    BY <1>3, <2>1 DEF SeenAs, LabelsIn
<1>5. ASSUME NEW x \in mlive PROVE x # m /\ SeenAs(after[x], x)' = SeenAs(lists[x], x)
  <2>1. x # m /\ x \in M /\ after[x] = lists[x] /\ mon'[x] = mon[x]
    BY <1>2, <1>3 DEF TypeOK
  <2>2. \A y \in ToSet(lists[x]) : tgt'[y] = tgt[y]
    BY <1>2, <1>3 DEF OwnersHold, TypeOK
  <2> QED
    BY <2>1, <2>2, SeenSame
<1> HIDE DEF seen
<1>6. ShownMonitors' = [ShownMonitors EXCEPT ![m] = seen]
  BY <1>1, <1>2, <1>4, <1>5, OneSeenChanges
<1>7. ShownDevice' = ShownDevice /\ ShownMonitors[m] = Null
  BY <1>1, <1>2, ShownBoth
<1> QED
  BY <1>6, <1>7 DEF Lists!NewMonitor, Lists!Exists, seen
\* The cells of a list are in memory.
LEMMA CellsOf ==
  ASSUME NEW lists, NEW order, Holds(lists, order), NEW m \in mlive
  PROVE  /\ m \in M /\ lists[m] \in Seq(T) /\ lists[m] # <<>> /\ Len(lists[m]) \in Nat \ {0}
         /\ mon[m]._target = lists[m][1] /\ mon[m]._target \in ToSet(lists[m])
         /\ ToSet(lists[m]) \subseteq tlive
         /\ Labelled(lists[m], tgt, Labels \cup {Null})
<1>1. /\ m \in M /\ lists[m] \in Seq(T) /\ lists[m] # <<>> /\ mon[m]._target = lists[m][1]
      /\ ToSet(lists[m]) \subseteq tlive /\ TypeOK
  BY DEF Holds, TargetsHold, OwnersHold, Listing, TypeOK
<1>2. Len(lists[m]) \in Nat \ {0} /\ mon[m]._target \in ToSet(lists[m])
  BY <1>1, MembersOf
<1>3. \A x \in tlive : tgt[x]._label \in Labels \cup {Null}
  BY <1>1, Structures DEF TargetStructs
<1> QED
  BY <1>1, <1>2, <1>3 DEF Labelled

LEMMA AddTargetMaps ==
  ASSUME ~AddsAfterTailDeletion, NEW lists, NEW order, Holds(lists, order),
         NEW m \in M, NEW t \in T, NEW l \in Labels, monitor_add_target(m, t, l)
  PROVE  Lists!AddTarget(m, l)
<1> DEFINE after == [lists EXCEPT ![m] = Append(@, t)]
           s == lists[m]
           seen == [SeenAs(s, m) EXCEPT !.targets = Append(@, l)]
<1>1. /\ Holds(after, order)' /\ m \in mlive /\ t \notin tlive /\ mlive' = mlive
      /\ tgt'[t] = [_label |-> l, _value |-> Null, _next |-> Null]
      /\ \A x \in tlive : tgt'[x]._label = tgt[x]._label /\ tgt'[x]._value = tgt[x]._value
      /\ \A x \in mlive : mon'[x]._label = mon[x]._label /\ mon'[x]._target = mon[x]._target
  BY AddTargetHolds, Zenon
<1>2. dev' = dev /\ tgt'[t]._label = l /\ lists \in [M -> Seq(T)]
  BY <1>1 DEF Holds, TargetsHold, monitor_add_target
<1>3. after[m] = Append(s, t) /\ \A x \in M : x # m => after[x] = lists[x]
  BY <1>2
<1> HIDE DEF after
<1>4. SeenAs(after[m], m)' = seen
  <2>1. /\ s \in Seq(T) /\ s # <<>> /\ ToSet(s) \subseteq tlive /\ mon[m]._target \in tlive
        /\ Labelled(s, tgt, Labels \cup {Null})
    BY <1>1, CellsOf
  <2> HIDE DEF s, seen
  <2>2. LabelsIn(Append(s, t), tgt') = Append(LabelsIn(s, tgt), l)
    <3>1. SameLabels(s, tgt, tgt')
      BY <1>1, <2>1 DEF SameLabels
    <3> QED
      BY <1>2, <2>1, <3>1, LabelsAppended
  <2> QED
    <3>1. seen = [name |-> mon[m]._label, stat |-> tgt[mon[m]._target]._value,
                  targets |-> Append(LabelsIn(s, tgt), l)]
      <4> DEFINE name == mon[m]._label
                 stat == tgt[mon[m]._target]._value
                 targets == LabelsIn(s, tgt)
                 old == [name |-> name, stat |-> stat, targets |-> targets]
      <4>1. seen = [old EXCEPT !.targets = Append(targets, l)]
        BY Zenon DEF SeenAs, seen
      <4> HIDE DEF name, stat, targets
      <4>2. [old EXCEPT !.targets = Append(targets, l)]
              = [name |-> name, stat |-> stat, targets |-> Append(targets, l)]
        OBVIOUS
      <4> QED
        BY <4>1, <4>2 DEF name, stat, targets
    <3>2. SeenAs(after[m], m)' = [name |-> mon'[m]._label,
                                  stat |-> tgt'[mon'[m]._target]._value,
                                  targets |-> LabelsIn(Append(s, t), tgt')]
      BY <1>3 DEF SeenAs, s
    <3> QED
      BY <1>1, <2>1, <2>2, <3>1, <3>2
<1>5. ASSUME NEW x \in mlive, x # m PROVE SeenAs(after[x], x)' = SeenAs(lists[x], x)
  <2>1. x \in M /\ after[x] = lists[x] /\ ToSet(lists[x]) \subseteq tlive
    BY <1>3, <1>5, CellsOf
  <2> QED
    BY <1>1, <2>1, SeenSame
<1> HIDE DEF seen
<1>6. ShownMonitors' = [ShownMonitors EXCEPT ![m] = seen]
  BY <1>1, <1>4, <1>5, OneSeenChanges
<1>7. ShownDevice' = ShownDevice /\ ShownMonitors[m] # Null /\ ShownMonitors[m] = SeenAs(s, m)
  <2>1. /\ ShownMonitors = View(lists)
        /\ ShownDevice = IF dev = Null THEN Null ELSE order
        /\ ShownDevice' = IF dev' = Null THEN Null ELSE order
        /\ m \in M /\ View(lists)[m] # Null /\ View(lists)[m] = SeenAs(lists[m], m)
    BY <1>1, ShownBoth
  <2>2. ShownDevice' = ShownDevice
    BY <1>2, <2>1
  <2> QED
    BY <2>1, <2>2
<1>8. ShownMonitors' = [ShownMonitors EXCEPT ![m].targets = Append(@, l)]
  BY <1>6, <1>7 DEF seen
<1> QED
  BY <1>7, <1>8 DEF Lists!AddTarget, Lists!Exists

LEMMA SetStatMaps ==
  ASSUME NEW lists, NEW order, Holds(lists, order), NEW m \in M, NEW n \in Stats,
         monitor_set_stat(m, n)
  PROVE  Lists!SetStat(m, n)
<1> DEFINE s == lists[m]
           seen == [SeenAs(s, m) EXCEPT !.stat = n]
<1>1. /\ Holds(lists, order)' /\ tgt'[mon[m]._target]._value = n
      /\ \A x \in tlive : /\ tgt'[x]._label = tgt[x]._label
                          /\ x # mon[m]._target => tgt'[x] = tgt[x]
  BY SetStatHolds, Zenon
<1>2. m \in mlive /\ UNCHANGED <<mon, mlive, tlive, dev>>
  BY DEF monitor_set_stat
<1>3. SeenAs(s, m)' = seen
  <2>1. s \in Seq(T) /\ \A x \in ToSet(s) : tgt'[x]._label = tgt[x]._label
    BY <1>1, <1>2, CellsOf
  <2> HIDE DEF s
  <2>2. LabelsIn(s, tgt') = LabelsIn(s, tgt)
    BY <2>1, LabelsSame DEF SameLabels
  <2> QED
    BY <1>1, <1>2, <2>2 DEF SeenAs
<1>4. ASSUME NEW x \in mlive, x # m PROVE SeenAs(lists[x], x)' = SeenAs(lists[x], x)
  <2>1. mon[m]._target \in ToSet(lists[m]) /\ ToSet(lists[x]) \subseteq tlive
    BY <1>2, CellsOf
  <2>2. ToSet(lists[m]) \cap ToSet(lists[x]) = {}
    BY <1>2, <1>4 DEF Holds, OwnersHold
  <2>3. \A t \in ToSet(lists[x]) : tgt'[t]._label = tgt[t]._label /\ tgt'[t]._value = tgt[t]._value
    BY <1>1, <2>1, <2>2
  <2> QED
    BY <1>2, <2>3, SeenSame
<1> HIDE DEF seen
<1>5. ShownMonitors' = [ShownMonitors EXCEPT ![m] = seen]
  <2>1. mlive' = mlive \cup {m}
    BY <1>2
  <2> QED
    BY <1>1, <1>3, <1>4, <2>1, OneSeenChanges
<1>6. ShownDevice' = ShownDevice /\ ShownMonitors[m] # Null /\ ShownMonitors[m] = SeenAs(s, m)
  BY <1>1, <1>2, ShownBoth
<1>7. ShownMonitors' = [ShownMonitors EXCEPT ![m].stat = n]
  BY <1>5, <1>6 DEF seen
<1> QED
  BY <1>6, <1>7 DEF Lists!SetStat, Lists!Exists
LEMMA DelTargetMaps ==
  ASSUME NEW lists, NEW order, Holds(lists, order), NEW m \in M, NEW l \in Labels,
         monitor_del_target(m, l)
  PROVE  Lists!DelTarget(m, l)
<1>1. m \in mlive
  BY DelTargetFinds
<1>2. PICK i \in 2 .. Len(lists[m]) :
        /\ tgt[lists[m][i]]._label = l
        /\ \A j \in 2 .. i - 1 : tgt[lists[m][j]]._label # l
        /\ tgt' = [tgt EXCEPT ![lists[m][i - 1]]._next = tgt[lists[m][i]]._next,
                              ![lists[m][i]] = Null]
        /\ tlive' = tlive \ {lists[m][i]}
        /\ mon' = [mon EXCEPT ![m]._itarget = @ - 1]
        /\ UNCHANGED <<mlive, dev, faults>>
  BY DelTargetFinds
<1> DEFINE after == [lists EXCEPT ![m] = RemoveAt(@, i)]
           s == lists[m]
           old == LabelsIn(s, tgt)
           seen == [SeenAs(s, m) EXCEPT !.targets = RemoveAt(old, i - 1)]
<1>3. /\ Holds(after, order)' /\ mlive' = mlive /\ dev' = dev
      /\ \A x \in tlive' : tgt'[x]._label = tgt[x]._label /\ tgt'[x]._value = tgt[x]._value
      /\ \A x \in mlive : mon'[x]._label = mon[x]._label /\ mon'[x]._target = mon[x]._target
  BY <1>1, <1>2, DelTargetHolds
<1>4. after[m] = RemoveAt(s, i) /\ \A x \in M : x # m => after[x] = lists[x]
  BY DEF Holds, TargetsHold
<1>5. /\ s \in Seq(T) /\ s # <<>> /\ mon[m]._target = s[1] /\ Len(s) \in Nat \ {0}
      /\ Labelled(s, tgt, Labels \cup {Null})
  BY <1>1, CellsOf
<1> HIDE DEF after
<1>6. AreLabels(old, s, tgt, Labels \cup {Null})
  BY <1>5, LabelsKnown
<1>7. \A x \in mlive : ToSet(after[x]) \subseteq tlive' /\ mon'[x]._target \in ToSet(after[x])
  <2>1. \A x \in mlive' : ToSet(after[x]) \subseteq tlive'
    BY <1>3 DEF Holds, OwnersHold
  <2>2. ASSUME NEW x \in mlive PROVE mon'[x]._target \in ToSet(after[x])
    <3>1. after[x] \in Seq(T) /\ after[x] # <<>> /\ mon'[x]._target = after[x][1]
      BY <1>3 DEF Holds, TargetsHold, Listing, TypeOK
    <3> QED
      BY <3>1, MembersOf
  <2> QED
    BY <1>3, <2>1, <2>2
<1>8. SeenAs(after[m], m)' = seen
  <2> HIDE DEF s, old, seen
  <2>1. SameLabels(RemoveAt(s, i), tgt, tgt')
    BY <1>1, <1>3, <1>4, <1>7 DEF SameLabels
  <2>2. LabelsIn(RemoveAt(s, i), tgt') = RemoveAt(old, i - 1)
    <3>1. i \in 2 .. Len(s)
      BY DEF s
    <3> QED
      BY <1>5, <2>1, <3>1, LabelsRemoved DEF old
  <2>3. mon'[m]._target = mon[m]._target /\ mon'[m]._target \in tlive'
    BY <1>1, <1>3, <1>7
  <2>4. seen = [name |-> mon[m]._label, stat |-> tgt[mon[m]._target]._value,
                targets |-> RemoveAt(old, i - 1)]
    BY DEF SeenAs, seen, old
  <2>5. SeenAs(after[m], m)' = [name |-> mon'[m]._label,
                                stat |-> tgt'[mon'[m]._target]._value,
                                targets |-> LabelsIn(RemoveAt(s, i), tgt')]
    BY <1>4 DEF SeenAs
  <2> QED
    BY <1>1, <1>3, <2>2, <2>3, <2>4, <2>5
<1>9. ASSUME NEW x \in mlive, x # m PROVE SeenAs(after[x], x)' = SeenAs(lists[x], x)
  <2>1. x \in M /\ after[x] = lists[x] /\ ToSet(lists[x]) \subseteq tlive'
    BY <1>4, <1>7, <1>9, CellsOf
  <2> QED
    BY <1>3, <2>1, SeenSame
<1> HIDE DEF seen
<1>10. ShownMonitors' = [ShownMonitors EXCEPT ![m] = seen]
  BY <1>1, <1>3, <1>8, <1>9, OneSeenChanges
<1>11. /\ ShownDevice' = ShownDevice /\ ShownMonitors[m] # Null
       /\ ShownMonitors[m] = SeenAs(s, m) /\ ShownMonitors[m].targets = old
  BY <1>1, <1>3, ShownBoth DEF SeenAs
<1> HIDE DEF old, s
<1>12. ShownMonitors' = [ShownMonitors EXCEPT ![m].targets = RemoveAt(old, i - 1)]
  BY <1>10, <1>11 DEF seen
<1>13. /\ i - 1 \in DOMAIN old /\ old[i - 1] = l
       /\ \A j \in 1 .. (i - 1) - 1 : old[j] # l
  <2>1. /\ old \in Seq(Labels \cup {Null}) /\ Len(old) = Len(s) - 1 /\ i \in 2 .. Len(s)
        /\ \A j \in 1 .. Len(s) - 1 : old[j] = tgt[s[j + 1]]._label
    BY <1>6 DEF AreLabels, s
  <2>2. i - 1 \in 1 .. Len(s) - 1 /\ (i - 1) + 1 = i /\ DOMAIN old = 1 .. Len(s) - 1
    BY <1>5, <2>1
  <2>3. tgt[s[i]]._label = l /\ \A j \in 2 .. i - 1 : tgt[s[j]]._label # l
    BY <1>2 DEF s
  <2>4. \A j \in 1 .. (i - 1) - 1 : j \in 1 .. Len(s) - 1 /\ j + 1 \in 2 .. i - 1
    BY <1>5, <2>1
  <2> QED
    BY <2>1, <2>2, <2>3, <2>4
<1> QED
  BY <1>11, <1>12, <1>13, SameHelpers DEF Lists!DelTarget, Lists!Exists

\* A step after which the monitors ms are gone and the others are seen as before.
LEMMA SeenGone ==
  ASSUME NEW lists, NEW order, Holds(lists, order), NEW ms,
         NEW next, Holds(Without(lists, ms), next)', mlive' = mlive \ ms,
         \A x \in mlive' : /\ mon'[x]._label = mon[x]._label
                           /\ mon'[x]._target = mon[x]._target
                           /\ \A t \in ToSet(lists[x]) : tgt'[t] = tgt[t]
  PROVE  ShownMonitors' = [m \in M |-> IF m \in ms THEN Null ELSE ShownMonitors[m]]
<1> DEFINE after == Without(lists, ms)
<1>1. ASSUME NEW x \in mlive' PROVE SeenAs(after[x], x)' = SeenAs(lists[x], x)
  <2>1. x \in mlive /\ x \notin ms /\ x \in M
    BY <1>1, CellsOf
  <2>2. after[x] = lists[x]
    BY <2>1 DEF Without
  <2>3. SeenAs(lists[x], x)' = SeenAs(lists[x], x)
    BY <1>1, <2>1, SeenSame
  <2> HIDE DEF after
  <2> QED
    BY <2>2, <2>3
<1> HIDE DEF after
<1>2. /\ ShownMonitors = View(lists) /\ ShownMonitors' = View(after)'
      /\ View(after)' = [x \in M |-> IF x \notin mlive' THEN Null ELSE SeenAs(after[x], x)']
      /\ View(lists) = [x \in M |-> IF x \notin mlive THEN Null ELSE SeenAs(lists[x], x)]
  BY ShownBoth DEF after
<1>3. ASSUME NEW x \in M
      PROVE  ShownMonitors'[x] = IF x \in ms THEN Null ELSE ShownMonitors[x]
  BY <1>1, <1>2
<1> QED
  BY <1>2, <1>3

LEMMA DestroyMaps ==
  ASSUME NEW lists, NEW order, Holds(lists, order), NEW m \in M, monitor_destory(m)
  PROVE  Lists!DestroyMonitor(m)
<1>1. /\ Holds(Without(lists, {m}), order)' /\ m \in mlive /\ m \notin ToSet(order)
      /\ \A x \in mlive' : /\ mon'[x] = mon[x]
                           /\ \A t \in ToSet(lists[x]) : tgt'[t] = tgt[t]
  BY DestroyHolds, Zenon
<1>2. mlive' = mlive \ {m} /\ dev' = dev
  BY DEF monitor_destory, Free
<1>3. ShownMonitors' = [x \in M |-> IF x \in {m} THEN Null ELSE ShownMonitors[x]]
  BY <1>1, <1>2, SeenGone
<1>4. /\ ShownDevice' = ShownDevice /\ ShownMonitors[m] # Null
      /\ ShownDevice = Null \/ ShownDevice = order
      /\ ShownMonitors = [x \in M |-> ShownMonitors[x]]
  BY <1>1, <1>2, ShownBoth DEF View
<1>5. ShownMonitors' = [ShownMonitors EXCEPT ![m] = Null]
  BY <1>3, <1>4
<1>6. m \notin Lists!Listed
  BY <1>1, <1>4, SameHelpers DEF Lists!Listed
<1> QED
  BY <1>4, <1>5, <1>6 DEF Lists!DestroyMonitor, Lists!Exists
\* A step that changes nothing of what is seen of the monitors.
LEMMA SeenKept ==
  ASSUME NEW lists, NEW order, Holds(lists, order), NEW next, Holds(lists, next)',
         mlive' = mlive, tgt' = tgt,
         \A x \in mlive : mon'[x]._label = mon[x]._label /\ mon'[x]._target = mon[x]._target
  PROVE  ShownMonitors' = ShownMonitors
<1>1. \A x \in mlive : SeenAs(lists[x], x)' = SeenAs(lists[x], x)
  BY SeenSame
<1>2. /\ ShownMonitors = View(lists) /\ ShownMonitors' = View(lists)'
      /\ View(lists)' = [x \in M |-> IF x \notin mlive' THEN Null ELSE SeenAs(lists[x], x)']
      /\ View(lists) = [x \in M |-> IF x \notin mlive THEN Null ELSE SeenAs(lists[x], x)]
  BY ShownBoth
<1> QED
  BY <1>1, <1>2

LEMMA DeviceNewMaps ==
  ASSUME NEW lists, NEW order, Holds(lists, order), device_new
  PROVE  Lists!NewDevice
<1>1. Holds(lists, <<>>)' /\ dev = Null /\ dev' # Null /\ UNCHANGED <<mon, mlive, tgt>>
  BY DeviceNewHolds DEF device_new
<1>2. ShownMonitors' = ShownMonitors
  BY <1>1, SeenKept
<1>3. ShownDevice = Null /\ ShownDevice' = <<>>
  BY <1>1, ShownBoth
<1> QED
  BY <1>2, <1>3 DEF Lists!NewDevice

LEMMA AddMonitorMaps ==
  ASSUME ~AddsAfterTailDeletion, NEW lists, NEW order, Holds(lists, order),
         NEW m \in M, device_add_monitor(m)
  PROVE  Lists!AddMonitor(m)
<1>1. /\ Holds(lists, Append(order, m))' /\ m \in mlive /\ m \notin ToSet(order)
      /\ dev # Null /\ dev' # Null /\ UNCHANGED <<mlive, tgt, tlive>>
      /\ \A x \in mlive : mon'[x]._label = mon[x]._label /\ mon'[x]._target = mon[x]._target
  BY AddMonitorHolds, Zenon
<1>2. ShownMonitors' = ShownMonitors
  BY <1>1, SeenKept
<1>3. /\ ShownDevice = order /\ order # Null /\ ShownDevice' = Append(order, m)
      /\ ShownMonitors[m] # Null
  BY <1>1, ShownBoth
<1>4. m \notin Lists!Listed
  BY <1>1, <1>3, SameHelpers DEF Lists!Listed
<1> QED
  BY <1>2, <1>3, <1>4 DEF Lists!AddMonitor, Lists!Exists

LEMMA DelMonitorMaps ==
  ASSUME NEW lists, NEW order, Holds(lists, order), NEW n \in Names, device_del_monitor(n)
  PROVE  Lists!DelMonitor(n)
<1>1. dev # Null
  BY DelMonitorFinds
<1>2. PICK i \in 1 .. Len(order) :
        /\ mon[order[i]]._label = n
        /\ \A j \in 1 .. i - 1 : mon[order[j]]._label # n
        /\ DeletesMonitor(order, i)
  BY DelMonitorFinds
<1>3. /\ Holds(Without(lists, {order[i]}), RemoveAt(order, i))' /\ dev' # Null
      /\ mlive' = mlive \ {order[i]}
      /\ \A x \in mlive' : /\ mon'[x]._label = mon[x]._label
                           /\ mon'[x]._target = mon[x]._target
                           /\ \A t \in ToSet(lists[x]) : tgt'[t] = tgt[t]
  BY <1>1, <1>2, DelMonitorHolds
<1>4. ShownMonitors' = [x \in M |-> IF x \in {order[i]} THEN Null ELSE ShownMonitors[x]]
  BY <1>3, SeenGone
<1>5. /\ ShownDevice = order /\ order # Null /\ ShownDevice' = RemoveAt(order, i)
      /\ order \in Seq(M) /\ ShownMonitors = View(lists)
      /\ \A m \in mlive : View(lists)[m] = SeenAs(lists[m], m)
      /\ ShownMonitors = [x \in M |-> ShownMonitors[x]]
  BY <1>1, <1>3, ShownBoth DEF View
<1>6. \A j \in 1 .. Len(order) : /\ order[j] \in mlive
                                 /\ ShownMonitors[order[j]].name = mon[order[j]]._label
  <2>1. \A j \in 1 .. Len(order) : order[j] \in mlive
    BY <1>5, MembersOf DEF Holds, DeviceHolds
  <2>2. \A m \in mlive : SeenAs(lists[m], m).name = mon[m]._label
    BY DEF SeenAs
  <2> QED
    BY <1>5, <2>1, <2>2
<1>7. ShownMonitors' = [ShownMonitors EXCEPT ![order[i]] = Null]
  BY <1>4, <1>5
<1>8. /\ i \in DOMAIN order /\ ShownMonitors[order[i]].name = n
      /\ \A j \in 1 .. i - 1 : ShownMonitors[order[j]].name # n
  BY <1>2, <1>5, <1>6
<1> QED
  BY <1>5, <1>7, <1>8, SameHelpers DEF Lists!DelMonitor

LEMMA DeviceDestroyMaps ==
  ASSUME NEW lists, NEW order, Holds(lists, order), device_destory
  PROVE  Lists!DestroyDevice
<1>1. /\ Holds(Without(lists, ToSet(order)), <<>>)' /\ dev # Null /\ dev' = Null
      /\ mlive' = mlive \ ToSet(order)
      /\ \A x \in mlive' : /\ mon'[x] = mon[x]
                           /\ \A t \in ToSet(lists[x]) : tgt'[t] = tgt[t]
  BY DeviceDestroyHolds, Zenon
<1>2. ShownMonitors' = [x \in M |-> IF x \in ToSet(order) THEN Null ELSE ShownMonitors[x]]
  BY <1>1, SeenGone
<1>3. ShownDevice = order /\ order # Null /\ ShownDevice' = Null
  BY <1>1, ShownBoth
<1>4. Lists!Listed = ToSet(order)
  BY <1>3, SameHelpers DEF Lists!Listed
<1> QED
  BY <1>2, <1>3, <1>4 DEF Lists!DestroyDevice

LEMMA NextMaps ==
  ASSUME ~AddsAfterTailDeletion, HeapInv, [Next]_vars
  PROVE  [Lists!ListNext]_(Lists!listVars)
<1>1. PICK lists, order : Holds(lists, order)
  BY DEF HeapInv
<1>2. ASSUME NEW m \in M, NEW t \in T, NEW n \in Names, NEW s \in Stats,
             monitor_new(m, t, n, s)
      PROVE  Lists!ListNext
  BY <1>1, <1>2, NewMaps DEF Lists!ListNext
<1>3. ASSUME NEW m \in M, NEW t \in T, NEW l \in Labels, monitor_add_target(m, t, l)
      PROVE  Lists!ListNext
  BY <1>1, <1>3, AddTargetMaps DEF Lists!ListNext
<1>4. ASSUME NEW m \in M, NEW l \in Labels, monitor_del_target(m, l)
      PROVE  Lists!ListNext
  BY <1>1, <1>4, DelTargetMaps DEF Lists!ListNext
<1>5. ASSUME NEW m \in M, NEW s \in Stats, monitor_set_stat(m, s)
      PROVE  Lists!ListNext
  BY <1>1, <1>5, SetStatMaps DEF Lists!ListNext
<1>6. ASSUME NEW m \in M, monitor_destory(m)
      PROVE  Lists!ListNext
  BY <1>1, <1>6, DestroyMaps DEF Lists!ListNext
<1>7. ASSUME NEW m \in M, device_add_monitor(m)
      PROVE  Lists!ListNext
  BY <1>1, <1>7, AddMonitorMaps DEF Lists!ListNext
<1>8. CASE device_new
  BY <1>1, <1>8, DeviceNewMaps DEF Lists!ListNext
<1>9. ASSUME NEW n \in Names, device_del_monitor(n)
      PROVE  Lists!ListNext
  BY <1>1, <1>9, DelMonitorMaps DEF Lists!ListNext
<1>10. CASE device_destory
  BY <1>1, <1>10, DeviceDestroyMaps DEF Lists!ListNext
<1>11. CASE UNCHANGED vars
  <2>1. ShownMonitors' = ShownMonitors /\ ShownDevice' = ShownDevice
    BY <1>11 DEF vars, ShownMonitors, ShownDevice, TargetsOf, MonitorsOf
  <2> QED
    BY <2>1 DEF Lists!listVars
<1> QED
  BY <1>2, <1>3, <1>4, <1>5, <1>6, <1>7, <1>8, <1>9, <1>10, <1>11 DEF Next

\* The linked lists of south.cpp behave as the sequences its interface promises.
THEOREM ListsImplemented ==
  ASSUME ~AddsAfterTailDeletion
  PROVE  Spec => ImplementsLists
<1>1. Init => HeapInv
  BY InitHolds DEF HeapInv
<1>2. HeapInv /\ [Next]_vars => HeapInv'
  BY NextHolds
<1>3. Init => Lists!ListInit
  BY DEF Init, Lists!ListInit, ShownMonitors, ShownDevice
<1>4. HeapInv /\ [Next]_vars => [Lists!ListNext]_(Lists!listVars)
  BY NextMaps
<1> QED
  BY <1>1, <1>2, <1>3, <1>4, PTL DEF Spec, ImplementsLists, Lists!ListSpec
===============================================================================
