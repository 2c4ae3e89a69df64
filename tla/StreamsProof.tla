----------------------------- MODULE StreamsProof -----------------------------
(***************************************************************************)
(* Proofs about Streams, for bytes of any number of values, strings of any *)
(* length and hosts of either byte order: the indices stay in the vectors, *)
(* every item is read back, and none is framed wrongly.                    *)
(***************************************************************************)
EXTENDS Streams, SequenceTheorems, TLAPS

Width == {1, 2, 4}

-----------------------------------------------------------------------------
(* Numbers to the base B.                                                  *)

\* Division of a natural number.
LEMMA Division ==
  ASSUME NEW v \in Nat
  PROVE  v \div B \in Nat /\ v % B \in Byte /\ v = B * (v \div B) + (v % B)
  BY WidthAssumption DEF Byte

\* A product is no smaller than one with a smaller factor.
LEMMA Times ==
  ASSUME NEW p \in Nat, NEW q \in Nat, p < q
  PROVE  B * p \in Nat /\ B * q \in Nat /\ B * p + B <= B * q
  <1>1. PICK k \in Nat : q = p + 1 + k
    <2>1. q - p - 1 \in Nat /\ q = p + 1 + (q - p - 1)
      OBVIOUS
    <2> QED
      BY <2>1
  <1>2. B * q = B * p + B + B * k /\ B * k \in Nat /\ B * p \in Nat
    BY <1>1, WidthAssumption
  <1> QED
    BY <1>2, WidthAssumption

\* Quotient and remainder are the only ones.
LEMMA Quotient ==
  ASSUME NEW q \in Nat, NEW r \in Byte
  PROVE  B * q + r \in Nat /\ (B * q + r) \div B = q /\ (B * q + r) % B = r
  <1> DEFINE v == B * q + r
             p == v \div B
             t == v % B
  <1>1. v \in Nat /\ r \in Nat /\ r < B
    BY WidthAssumption DEF Byte
  <1> HIDE DEF v
  <1>2. p \in Nat /\ t \in Nat /\ t < B /\ v = B * p + t
    BY <1>1, Division, WidthAssumption DEF Byte
  <1>3. v = B * q + r
    BY DEF v
  <1> HIDE DEF p, t
  <1>4. ~(p < q)
    BY <1>1, <1>2, <1>3, Times, WidthAssumption
  <1>5. ~(q < p)
    BY <1>1, <1>2, <1>3, Times, WidthAssumption
  <1>6. p = q
    BY <1>2, <1>4, <1>5
  <1>7. t = r
    <2>1. B * q \in Nat
      BY WidthAssumption
    <2> QED
      BY <1>1, <1>2, <1>3, <1>6, <2>1
  <1> QED
    BY <1>1, <1>6, <1>7 DEF p, t, v

\* A number less than a multiple of B has a quotient less than the factor.
LEMMA LessQuotient ==
  ASSUME NEW v \in Nat, NEW m \in Nat, v < B * m
  PROVE  v \div B \in Nat /\ v \div B < m
  <1>1. v \div B \in Nat /\ v % B \in Nat /\ v = B * (v \div B) + (v % B)
    BY Division DEF Byte
  <1>2. ASSUME m <= v \div B PROVE FALSE
    <2>1. B * m <= B * (v \div B)
      <3>1. CASE m < v \div B
        BY <1>1, <3>1, Times, WidthAssumption
      <3>2. CASE m = v \div B
        BY <1>1, <3>2, WidthAssumption
      <3> QED
        BY <1>1, <1>2, <3>1, <3>2
    <2>2. B * m \in Nat /\ B * (v \div B) \in Nat
      BY <1>1, WidthAssumption
    <2> QED
      BY <1>1, <2>1, <2>2
  <1> QED
    BY <1>1, <1>2

\* The limits, and that they are themselves numbers.
LEMMA LimitType ==
  /\ B \in Nat /\ B * B \in Nat /\ B * (B * B) \in Nat /\ B * (B * (B * B)) \in Nat
  /\ B * B >= 2 /\ B * (B * (B * B)) >= 2
  /\ Limit(1) = B /\ Limit(2) = B * B /\ Limit(4) = B * (B * (B * B))
  /\ \A n \in Width : Limit(n) \in Nat /\ Limit(n) >= 2
  <1>1. \A m \in Nat : m >= 2 => B * m \in Nat /\ B * m >= 2
    <2> TAKE m \in Nat
    <2>1. HAVE m >= 2
    <2>2. B * 0 + B <= B * m /\ B * m \in Nat
      BY <2>1, Times
    <2> QED
      BY <2>2, WidthAssumption
  <1>2. B \in Nat /\ B >= 2
    BY WidthAssumption
  <1>3. B * B \in Nat /\ B * B >= 2
    BY <1>1, <1>2
  <1>4. B * (B * B) \in Nat /\ B * (B * B) >= 2
    BY <1>1, <1>3
  <1>5. B * (B * (B * B)) \in Nat /\ B * (B * (B * B)) >= 2
    BY <1>1, <1>4
  <1>6. Limit(1) = B /\ Limit(2) = B * B /\ Limit(4) = B * (B * (B * B))
    BY DEF Limit
  <1> QED
    BY <1>2, <1>3, <1>4, <1>5, <1>6 DEF Width

Value(a, b, c, d) == a + B * (b + B * (c + B * d))

\* A number is the value of its digits, and has none beyond its size.
LEMMA DigitsOfNumber ==
  ASSUME NEW v \in Nat
  PROVE  /\ \A i \in 1 .. 4 : Digits(v)[i] \in Byte
         /\ v < B => Digits(v)[2] = 0
         /\ v < B * B => Digits(v)[3] = 0 /\ Digits(v)[4] = 0
         /\ v < B * (B * (B * B)) =>
              v = Value(Digits(v)[1], Digits(v)[2], Digits(v)[3], Digits(v)[4])
         /\ v < B => v < B * B
         /\ v < B * B => v < B * (B * (B * B))
  <1> DEFINE p == v \div B
             q == p \div B
             r == q \div B
  <1>1. /\ p \in Nat /\ (v % B) \in Byte /\ v = B * p + (v % B)
        /\ q \in Nat /\ (p % B) \in Byte /\ p = B * q + (p % B)
        /\ r \in Nat /\ (q % B) \in Byte /\ q = B * r + (q % B)
        /\ (r % B) \in Byte /\ (r \div B) \in Nat /\ r = B * (r \div B) + (r % B)
    BY Division
  <1>2. /\ Digits(v)[1] = v % B /\ Digits(v)[2] = p % B
        /\ Digits(v)[3] = q % B /\ Digits(v)[4] = r % B
    BY DEF Digits
  <1>3. \A m \in Nat, x \in Nat : x < B * m => x \div B < m
    BY LessQuotient
  <1>4. B \in Nat /\ B > 1 /\ 0 \in Byte
    BY WidthAssumption DEF Byte
  <1> HIDE DEF p, q, r
  <1>5. ASSUME NEW x \in Nat, x < B PROVE x \div B = 0 /\ x % B = x
    <2>1. x < B * 1
      BY <1>4, <1>5
    <2>2. x \div B < 1 /\ x \div B \in Nat /\ x = B * (x \div B) + (x % B)
      BY <2>1, LessQuotient, Division
    <2>3. x \div B = 0
      BY <2>2
    <2> QED
      BY <1>4, <2>2, <2>3, Division DEF Byte
  <1>6. 0 % B = 0 /\ 0 \div B = 0
    BY <1>4, <1>5
  <1>7. ASSUME v < B PROVE p = 0
    BY <1>5, <1>7 DEF p
  <1>8. ASSUME v < B * B PROVE q = 0 /\ r = 0
    <2>1. p < B
      BY <1>4, <1>8, <1>3 DEF p
    <2>2. q = 0
      BY <1>1, <1>5, <2>1 DEF q
    <2> QED
      BY <1>6, <2>2 DEF r
  <1>9. ASSUME v < B * (B * (B * B)) PROVE r % B = r
    <2>1. p < B * (B * B)
      BY <1>9, <1>3, LimitType DEF p
    <2>2. q < B * B
      BY <1>1, <2>1, <1>3, LimitType DEF q
    <2>3. r < B
      BY <1>1, <2>2, <1>3, LimitType DEF r
    <2> QED
      BY <1>1, <1>5, <2>3
  <1>10. v < B => v < B * B
    <2>1. B * 1 + B <= B * B \/ B = 1
      BY <1>4, Times
    <2> QED
      BY <1>4, <2>1, LimitType
  <1>11. v < B * B => v < B * (B * (B * B))
    <2>1. 1 < B * B /\ B * B \in Nat
      BY LimitType
    <2>2. B < B * (B * B)
      BY <1>4, <2>1, Times, LimitType
    <2>3. B * B < B * (B * (B * B))
      BY <1>4, <2>2, Times, LimitType
    <2> QED
      BY <2>3, LimitType
  <1>12. v < B * (B * (B * B)) => v = Value(v % B, p % B, q % B, r % B)
    <2>1. HAVE v < B * (B * (B * B))
    <2>2. q = (q % B) + B * (r % B)
      <3>1. B * r \in Nat /\ (q % B) \in Nat
        BY <1>1, <1>4 DEF Byte
      <3> QED
        BY <1>1, <1>9, <2>1, <3>1
    <2>3. p = (p % B) + B * q
      <3>1. B * q \in Nat /\ (p % B) \in Nat
        BY <1>1, <1>4 DEF Byte
      <3> QED
        BY <1>1, <3>1
    <2>4. v = (v % B) + B * p
      <3>1. B * p \in Nat /\ (v % B) \in Nat
        BY <1>1, <1>4 DEF Byte
      <3> QED
        BY <1>1, <3>1
    <2> QED
      BY <2>2, <2>3, <2>4 DEF Value
  <1> QED
    BY <1>1, <1>2, <1>6, <1>7, <1>8, <1>10, <1>11, <1>12

\* The value of four digits has these digits.
LEMMA NumberOfDigits ==
  ASSUME NEW a \in Byte, NEW b \in Byte, NEW c \in Byte, NEW d \in Byte
  PROVE  Value(a, b, c, d) \in Nat /\ Digits(Value(a, b, c, d)) = <<a, b, c, d>>
  <1> DEFINE r == d
             q == B * r + c
             p == B * q + b
             v == B * p + a
  <1>1. B \in Nat /\ a \in Nat /\ b \in Nat /\ c \in Nat /\ d \in Nat /\ d < B
    BY WidthAssumption DEF Byte
  <1>2. q \in Nat /\ q \div B = r /\ q % B = c
    BY <1>1, Quotient
  <1>3. p \in Nat /\ p \div B = q /\ p % B = b
    BY <1>2, Quotient
  <1>4. v \in Nat /\ v \div B = p /\ v % B = a
    BY <1>3, Quotient
  <1>5. r % B = d
    <2>1. B * 0 + d = d
      BY <1>1
    <2> QED
      BY <2>1, Quotient
  <1>6. Value(a, b, c, d) = v
    <2>1. B * r \in Nat /\ c + B * r = q
      BY <1>1
    <2> HIDE DEF q
    <2>2. b + B * q = p
      BY <1>1, <1>2
    <2> HIDE DEF p
    <2>3. a + B * p = v
      BY <1>1, <1>3
    <2> QED
      BY <2>1, <2>2, <2>3 DEF Value
  <1> HIDE DEF p, q, r, v
  <1> QED
    BY <1>2, <1>3, <1>4, <1>5, <1>6 DEF Digits

\* Two and four digits stay below their limits.
LEMMA ValueBelow ==
  ASSUME NEW a \in Byte, NEW b \in Byte, NEW c \in Byte, NEW d \in Byte
  PROVE  /\ Value(a, 0, 0, 0) = a /\ a < B
         /\ Value(a, b, 0, 0) < B * B
         /\ Value(a, b, c, d) < B * (B * (B * B))
  <1>1. B \in Nat /\ a \in Nat /\ b \in Nat /\ c \in Nat /\ d \in Nat
        /\ a < B /\ b < B /\ c < B /\ d < B
    BY WidthAssumption DEF Byte
  <1>2. \A m \in Nat, x \in Nat, y \in Byte : x < m => y + B * x \in Nat /\ y + B * x < B * m
    <2> TAKE m \in Nat, x \in Nat, y \in Byte
    <2>1. HAVE x < m
    <2>2. B * x \in Nat /\ B * m \in Nat /\ B * x + B <= B * m
      BY <2>1, Times
    <2> QED
      BY <1>1, <2>2 DEF Byte
  <1>3. B * 0 = 0
    BY <1>1
  <1>4. c + B * d \in Nat /\ c + B * d < B * B
    BY <1>1, <1>2
  <1>5. b + B * (c + B * d) \in Nat /\ b + B * (c + B * d) < B * (B * B)
    BY <1>2, <1>4, LimitType
  <1>6. a + B * (b + B * (c + B * d)) < B * (B * (B * B))
    BY <1>2, <1>5, LimitType
  <1>7. a + B * b < B * B
    BY <1>1, <1>2
  <1> QED
    BY <1>1, <1>3, <1>6, <1>7 DEF Value

-----------------------------------------------------------------------------
(* Bytes of a host.                                                        *)

\* The digit that counts i-th from the lowest in the bytes s.
Digit(s, isBig, i) == IF i > Len(s) THEN 0 ELSE s[IF isBig THEN Len(s) + 1 - i ELSE i]

LEMMA HostNumberValue ==
  ASSUME NEW s, NEW b
  PROVE  HostNumber(s, b) = Value(Digit(s, b, 1), Digit(s, b, 2), Digit(s, b, 3), Digit(s, b, 4))
  BY DEF HostNumber, Value, Digit

LEMMA DigitType ==
  ASSUME NEW s \in Seq(Byte), NEW b \in BOOLEAN, NEW i \in 1 .. 4
  PROVE  Digit(s, b, i) \in Byte
  BY WidthAssumption DEF Digit, Byte

\* A host keeps a number in as many bytes as it has been told.
LEMMA HostBytesType ==
  ASSUME NEW v \in Nat, NEW n \in Width, NEW b \in BOOLEAN
  PROVE  /\ HostBytes(v, n, b) \in Seq(Byte) /\ Len(HostBytes(v, n, b)) = n
         /\ \A i \in 1 .. n : HostBytes(v, n, b)[i] = Digits(v)[IF b THEN n + 1 - i ELSE i]
  <1>1. \A i \in 1 .. n : (IF b THEN n + 1 - i ELSE i) \in 1 .. 4
    BY DEF Width
  <1>2. \A i \in 1 .. n : Digits(v)[IF b THEN n + 1 - i ELSE i] \in Byte
    BY <1>1, DigitsOfNumber
  <1>3. HostBytes(v, n, b) \in [1 .. n -> Byte]
    BY <1>2 DEF HostBytes
  <1> QED
    BY <1>3 DEF HostBytes, Width

\* A number that fits is seen again in the bytes it is kept in.
LEMMA NumberOfBytes ==
  ASSUME NEW v \in Nat, NEW n \in Width, NEW b \in BOOLEAN, v < Limit(n)
  PROVE  HostNumber(HostBytes(v, n, b), b) = v
  <1> DEFINE s == HostBytes(v, n, b)
  <1>1. Len(s) = n /\ \A i \in 1 .. n : s[i] = Digits(v)[IF b THEN n + 1 - i ELSE i]
    BY HostBytesType
  <1> HIDE DEF s
  <1>2. \A i \in 1 .. n : Digit(s, b, i) = Digits(v)[i]
    <2> TAKE i \in 1 .. n
    <2>1. CASE b
      <3>1. n + 1 - i \in 1 .. n /\ n + 1 - (n + 1 - i) = i
        BY DEF Width
      <3>2. s[n + 1 - i] = Digits(v)[n + 1 - (n + 1 - i)]
        BY <1>1, <2>1, <3>1
      <3>3. ~(i > Len(s)) /\ Len(s) + 1 - i = n + 1 - i
        BY <1>1 DEF Width
      <3> QED
        BY <2>1, <3>1, <3>2, <3>3 DEF Digit
    <2>2. CASE ~b
      BY <1>1, <2>2 DEF Digit, Width
    <2> QED
      BY <2>1, <2>2
  <1>3. \A i \in 1 .. 4 : i > n => Digit(s, b, i) = 0
    BY <1>1 DEF Digit
  <1>4. \A i \in 1 .. 4 : i > n => Digits(v)[i] = 0
    BY DigitsOfNumber, LimitType DEF Width
  <1>5. \A i \in 1 .. 4 : Digit(s, b, i) = Digits(v)[i]
    BY <1>2, <1>3, <1>4 DEF Width
  <1>6. v = Value(Digits(v)[1], Digits(v)[2], Digits(v)[3], Digits(v)[4])
    BY DigitsOfNumber, LimitType DEF Width
  <1> QED
    BY <1>5, <1>6, HostNumberValue DEF s

\* Bytes are kept again for the number that is seen in them.
LEMMA BytesOfNumber ==
  ASSUME NEW s \in Seq(Byte), Len(s) \in Width, NEW b \in BOOLEAN
  PROVE  /\ HostNumber(s, b) \in Nat /\ HostNumber(s, b) < Limit(Len(s))
         /\ HostBytes(HostNumber(s, b), Len(s), b) = s
  <1> DEFINE v == HostNumber(s, b)
             n == Len(s)
  <1>1. \A i \in 1 .. 4 : Digit(s, b, i) \in Byte
    BY DigitType
  <1>2. v = Value(Digit(s, b, 1), Digit(s, b, 2), Digit(s, b, 3), Digit(s, b, 4))
    BY HostNumberValue
  <1>3. v \in Nat /\ Digits(v) = <<Digit(s, b, 1), Digit(s, b, 2), Digit(s, b, 3), Digit(s, b, 4)>>
    <2> DEFINE c == Digit(s, b, 1)
               d == Digit(s, b, 2)
               e == Digit(s, b, 3)
               f == Digit(s, b, 4)
    <2>1. c \in Byte /\ d \in Byte /\ e \in Byte /\ f \in Byte
      BY <1>1
    <2> HIDE DEF c, d, e, f
    <2>2. Value(c, d, e, f) \in Nat /\ Digits(Value(c, d, e, f)) = <<c, d, e, f>>
      BY ONLY <2>1, NumberOfDigits
    <2> QED
      BY <1>2, <2>2, Zenon DEF c, d, e, f
  <1>4. \A i \in 1 .. 4 : i > n => Digit(s, b, i) = 0
    BY DEF Digit
  <1>5. v < Limit(n)
    <2>1. CASE n = 1
      BY <1>1, <1>2, <1>4, <2>1, ValueBelow, LimitType
    <2>2. CASE n = 2
      BY <1>1, <1>2, <1>4, <2>2, ValueBelow, LimitType
    <2>3. CASE n = 4
      BY <1>1, <1>2, <2>3, ValueBelow, LimitType
    <2> QED
      BY <2>1, <2>2, <2>3 DEF Width
  <1> HIDE DEF v
  <1>6. \A i \in 1 .. n : HostBytes(v, n, b)[i] = s[i]
    <2> TAKE i \in 1 .. n
    <2>1. HostBytes(v, n, b)[i] = Digits(v)[IF b THEN n + 1 - i ELSE i]
      BY <1>3, HostBytesType
    <2>2. \A j \in 1 .. n : Digits(v)[j] = Digit(s, b, j)
      <3>1. /\ Digits(v)[1] = Digit(s, b, 1) /\ Digits(v)[2] = Digit(s, b, 2)
            /\ Digits(v)[3] = Digit(s, b, 3) /\ Digits(v)[4] = Digit(s, b, 4)
        BY <1>3
      <3>2. n \in 1 .. 4
        BY DEF Width
      <3> TAKE j \in 1 .. n
      <3> HIDE DEF n
      <3>3. j \in 1 .. 4
        BY <3>2
      <3> QED
        BY <3>1, <3>3
    <2>3. CASE b
      BY <2>1, <2>2, <2>3 DEF Digit, Width
    <2>4. CASE ~b
      BY <2>1, <2>2, <2>4 DEF Digit, Width
    <2> QED
      BY <2>3, <2>4
  <1>7. HostBytes(v, n, b) = s
    BY <1>3, <1>6, HostBytesType, SeqEqual
  <1> QED
    BY <1>3, <1>5, <1>7 DEF v

\* Bytes in reverse are the number a host of the other order sees.
LEMMA ReversedNumber ==
  ASSUME NEW s \in Seq(Byte), Len(s) \in Width
  PROVE  /\ Reverse(s) \in Seq(Byte) /\ Len(Reverse(s)) = Len(s)
         /\ HostNumber(Reverse(s), FALSE) = HostNumber(s, TRUE)
         /\ HostNumber(Reverse(s), TRUE) = HostNumber(s, FALSE)
  <1> DEFINE r == Reverse(s)
             n == Len(s)
  <1>1. n \in 1 .. 4
    BY DEF Width
  <1>2. \A i \in 1 .. n : n - i + 1 \in 1 .. n /\ s[n - i + 1] \in Byte
    BY <1>1
  <1>3. r \in [1 .. n -> Byte] /\ \A i \in 1 .. n : r[i] = s[n - i + 1]
    BY <1>2 DEF Reverse
  <1>4. r \in Seq(Byte) /\ Len(r) = n
    BY <1>1, <1>3
  <1> HIDE DEF r, n
  <1>5. ASSUME NEW i \in 1 .. 4
        PROVE  Digit(r, FALSE, i) = Digit(s, TRUE, i) /\ Digit(r, TRUE, i) = Digit(s, FALSE, i)
    <2>1. CASE i > n
      BY <1>4, <2>1 DEF Digit, n
    <2>2. CASE i \in 1 .. n
      <3>1. Digit(r, FALSE, i) = r[i] /\ Digit(r, TRUE, i) = r[n + 1 - i]
        BY <1>1, <1>4, <2>2 DEF Digit
      <3>2. Digit(s, FALSE, i) = s[i] /\ Digit(s, TRUE, i) = s[n + 1 - i]
        BY <1>1, <2>2 DEF Digit, n
      <3>3. r[i] = s[n - i + 1] /\ n - i + 1 = n + 1 - i
        BY <1>1, <1>3, <2>2
      <3>4. r[n + 1 - i] = s[n - (n + 1 - i) + 1] /\ n - (n + 1 - i) + 1 = i
        BY <1>1, <1>2, <1>3, <2>2
      <3> QED
        BY <3>1, <3>2, <3>3, <3>4
    <2>3. i > n \/ i \in 1 .. n
      BY <1>1
    <2> QED
      BY <2>1, <2>2, <2>3, Zenon
  <1>6. HostNumber(r, FALSE) = HostNumber(s, TRUE) /\ HostNumber(r, TRUE) = HostNumber(s, FALSE)
    <2>1. 1 \in 1 .. 4 /\ 2 \in 1 .. 4 /\ 3 \in 1 .. 4 /\ 4 \in 1 .. 4
      OBVIOUS
    <2> QED
      BY <1>5, <2>1, HostNumberValue, Zenon
  <1> QED
    BY <1>4, <1>6 DEF r, n

\* What is put into a stream is in network order on every host.
LEMMA EncodedNumber ==
  ASSUME NEW v \in Nat, NEW n \in Width, v < Limit(n), big["out"] \in BOOLEAN
  PROVE  /\ Encoded(v, n) \in Seq(Byte) /\ Len(Encoded(v, n)) = n
         /\ HostNumber(Encoded(v, n), TRUE) = v
  <1>1. CASE big["out"] = TRUE
    <2>1. Encoded(v, n) = HostBytes(v, n, TRUE)
      BY <1>1 DEF Encoded, hton
    <2> QED
      BY <2>1, HostBytesType, NumberOfBytes
  <1>2. CASE big["out"] = FALSE
    <2> DEFINE s == HostBytes(v, n, FALSE)
               r == Reverse(s)
    <2>1. s \in Seq(Byte) /\ Len(s) = n /\ HostNumber(s, FALSE) = v
      BY HostBytesType, NumberOfBytes
    <2>2. Encoded(v, n) = HostBytes(HostNumber(r, FALSE), n, FALSE)
      BY <1>2 DEF Encoded, hton
    <2> HIDE DEF s
    <2>3. r \in Seq(Byte) /\ Len(r) = n /\ HostNumber(r, TRUE) = v
      BY <2>1, ReversedNumber
    <2> HIDE DEF r
    <2>4. Encoded(v, n) = r
      BY <2>2, <2>3, BytesOfNumber
    <2> QED
      BY <2>3, <2>4
  <1> QED
    BY <1>1, <1>2

\* And every host reads it as such.
LEMMA DecodedNumber ==
  ASSUME NEW s \in Seq(Byte), Len(s) \in Width, big["in"] \in BOOLEAN
  PROVE  Decoded(s) = HostNumber(s, TRUE)
  <1>1. CASE big["in"] = TRUE
    BY <1>1 DEF Decoded, hton
  <1>2. CASE big["in"] = FALSE
    <2>1. Decoded(s) = HostNumber(Reverse(HostBytes(HostNumber(s, FALSE), Len(s), FALSE)), FALSE)
      BY <1>2 DEF Decoded, hton
    <2>2. HostBytes(HostNumber(s, FALSE), Len(s), FALSE) = s
      BY BytesOfNumber
    <2> QED
      BY <2>1, <2>2, ReversedNumber
  <1> QED
    BY <1>1, <1>2

-----------------------------------------------------------------------------
(* Items in a vector.                                                      *)

Item == {x \in [string : Seq(Byte)] \cup [size : Width, value : Nat] : IsItem(x)}

IsNumber(x) == "size" \in DOMAIN x
Cut(x) == Len(x.string) % (B * B)

\* The bytes of an item.
Size(x) == IF IsNumber(x) THEN x.size ELSE 2 + Cut(x)

\* The bytes of buf behind the first at are the item x.
Carries(buf, at, x) ==
  IF IsNumber(x)
    THEN HostNumber(SubSeq(buf, at + 1, at + x.size), TRUE) = x.value
    ELSE /\ HostNumber(SubSeq(buf, at + 1, at + 2), TRUE) = Cut(x)
         /\ SubSeq(buf, at + 3, at + 2 + Cut(x)) = Kept(x.string)

\* The bytes of buf between start and end are the items xs, one after the other.
Frames(off, buf, start, end, xs) ==
  /\ off \in [1 .. Len(xs) + 1 -> Nat]
  /\ off[1] = start /\ off[Len(xs) + 1] = end
  /\ \A i, j \in 1 .. Len(xs) + 1 : i <= j => off[i] <= off[j]
  /\ \A i \in 1 .. Len(xs) :
       off[i + 1] = off[i] + Size(xs[i]) /\ Carries(buf, off[i], xs[i])

Framing(buf, start, end, xs) == \E off : Frames(off, buf, start, end, xs)

IInv ==
  /\ TypeOK /\ items \in Seq(Item) /\ expected \in Seq(Item)
  /\ oidx <= Len(obuf) /\ iidx <= Len(ibuf)
  /\ Framing(obuf, 0, oidx, items)
  /\ status = "reading" => Framing(ibuf, iidx, Len(ibuf), expected)
  /\ status \notin {"wrong", "assert"}

\* A remainder by a positive number is less than it and no more than the number.
LEMMA Remainder ==
  ASSUME NEW v \in Nat, NEW m \in Nat, m > 0
  PROVE  v % m \in Nat /\ v % m < m /\ v % m <= v
  <1>1. v % m \in Nat /\ v % m < m /\ v \div m \in Nat /\ v = m * (v \div m) + (v % m)
    OBVIOUS
  <1>2. m * (v \div m) \in Nat
    BY <1>1
  <1> QED
    BY <1>1, <1>2

\* What an item is made of.
LEMMA ItemParts ==
  ASSUME NEW x \in Item
  PROVE  /\ Size(x) \in Nat
         /\ IsNumber(x) => /\ x.size \in Width /\ x.value \in Nat /\ x.value < Limit(x.size)
                           /\ Size(x) = x.size
         /\ ~IsNumber(x) => /\ x.string \in Seq(Byte) /\ Size(x) = 2 + Cut(x)
                            /\ Cut(x) \in Nat /\ Cut(x) < Limit(2) /\ Cut(x) <= Len(x.string)
                            /\ Kept(x.string) \in Seq(Byte) /\ Len(Kept(x.string)) = Cut(x)
  <1>1. CASE x \in [string : Seq(Byte)]
    <2>1. x.string \in Seq(Byte) /\ Len(x.string) \in Nat /\ ~IsNumber(x)
      BY <1>1 DEF IsNumber
    <2>2. Cut(x) \in Nat /\ Cut(x) < B * B /\ Cut(x) <= Len(x.string)
      <3> DEFINE m == B * B
                 l == Len(x.string)
      <3>1. m \in Nat /\ m > 0 /\ l \in Nat
        BY <2>1, LimitType
      <3>2. Cut(x) = l % m
        BY DEF Cut
      <3> HIDE DEF m, l
      <3>3. l % m \in Nat /\ l % m < m /\ l % m <= l
        BY <3>1, Remainder
      <3> QED
        BY <3>2, <3>3 DEF m, l
    <2>3. Kept(x.string) = SubSeq(x.string, 1, Cut(x))
      BY DEF Kept, Cut
    <2> HIDE DEF Cut
    <2>4. Kept(x.string) \in Seq(Byte) /\ Len(Kept(x.string)) = Cut(x)
      BY <2>1, <2>2, <2>3, SubSeqProperties
    <2> QED
      BY <2>1, <2>2, <2>4, LimitType DEF Size
  <1>2. CASE x \in [size : Width, value : Nat]
    <2>1. IsNumber(x) /\ x.size \in Width /\ x.value \in Nat /\ x.value < Limit(x.size)
      BY <1>2 DEF IsNumber, Item, IsItem
    <2> QED
      BY <2>1 DEF Size, Width
  <1> QED
    BY <1>1, <1>2 DEF Item

\* The n bytes of s behind the first a are those of t behind the first c.
Agree(s, a, t, c, n) ==
  a + n <= Len(s) /\ c + n <= Len(t) /\ \A i \in 1 .. n : s[a + i] = t[c + i]

\* Parts of two vectors with the same bytes are the same.
LEMMA SamePart ==
  ASSUME NEW s \in Seq(Byte), NEW t \in Seq(Byte), NEW a \in Nat, NEW c \in Nat, NEW n \in Nat,
         Agree(s, a, t, c, n)
  PROVE  /\ SubSeq(s, a + 1, a + n) \in Seq(Byte) /\ Len(SubSeq(s, a + 1, a + n)) = n
         /\ SubSeq(s, a + 1, a + n) = SubSeq(t, c + 1, c + n)
  <1> DEFINE p == SubSeq(s, a + 1, a + n)
             q == SubSeq(t, c + 1, c + n)
  <1>1. /\ p \in Seq(Byte) /\ Len(p) = n /\ \A i \in 1 .. n : p[i] = s[a + i]
        /\ q \in Seq(Byte) /\ Len(q) = n /\ \A i \in 1 .. n : q[i] = t[c + i]
    BY DEF Agree
  <1> HIDE DEF p, q
  <1>2. p = q
    BY <1>1, SeqEqual DEF Agree
  <1> QED
    BY <1>1, <1>2 DEF p, q

\* The same for all parts at once.
Part(s, a, n) == SubSeq(s, a + 1, a + n)

LEMMA SameParts ==
  \A s, t \in Seq(Byte), a, c, n \in Nat : Agree(s, a, t, c, n) => Part(s, a, n) = Part(t, c, n)
  <1> TAKE s, t \in Seq(Byte), a, c, n \in Nat
  <1>1. HAVE Agree(s, a, t, c, n)
  <1>2. SubSeq(s, a + 1, a + n) = SubSeq(t, c + 1, c + n)
    BY <1>1, SamePart
  <1> QED
    BY <1>2, Zenon DEF Part

\* An item is where its bytes are.
LEMMA SameItem ==
  ASSUME NEW s \in Seq(Byte), NEW t \in Seq(Byte), NEW a \in Nat, NEW c \in Nat, NEW x \in Item,
         a + Size(x) <= Len(s), c + Size(x) <= Len(t),
         \A i \in 1 .. Size(x) : s[a + i] = t[c + i],
         Carries(s, a, x)
  PROVE  Carries(t, c, x)
  <1>1. CASE IsNumber(x)
    <2>1. x.size = Size(x) /\ x.size \in Nat
      BY <1>1, ItemParts
    <2>2. SubSeq(s, a + 1, a + x.size) = SubSeq(t, c + 1, c + x.size)
      <3>1. Agree(s, a, t, c, x.size)
        BY <2>1 DEF Agree
      <3>2. Part(s, a, x.size) = Part(t, c, x.size)
        BY <2>1, <3>1, SameParts
      <3> QED
        BY <3>2, Zenon DEF Part
    <2> QED
      BY <1>1, <2>2 DEF Carries
  <1>2. CASE ~IsNumber(x)
    <2> DEFINE k == Cut(x)
    <2>1. k \in Nat /\ Size(x) = 2 + k
      BY <1>2, ItemParts
    <2> HIDE DEF k
    <2>2. SubSeq(s, a + 1, a + 2) = SubSeq(t, c + 1, c + 2)
      <3>1. Agree(s, a, t, c, 2) /\ 2 \in Nat
        BY <2>1 DEF Agree
      <3>2. Part(s, a, 2) = Part(t, c, 2)
        BY <3>1, SameParts
      <3> QED
        BY <3>2, Zenon DEF Part
    <2> DEFINE p == a + 2
               q == c + 2
    <2>3. p \in Nat /\ p + k <= Len(s) /\ q \in Nat /\ q + k <= Len(t)
      BY <2>1
    <2>4. \A i \in 1 .. k : s[p + i] = t[q + i]
      <3> TAKE i \in 1 .. k
      <3>1. 2 + i \in 1 .. Size(x) /\ a + (2 + i) = p + i /\ c + (2 + i) = q + i
        BY <2>1
      <3> QED
        BY <3>1
    <2>5. p + 1 = a + 3 /\ p + k = a + 2 + k /\ q + 1 = c + 3 /\ q + k = c + 2 + k
      BY <2>1
    <2> HIDE DEF p, q
    <2>6. SubSeq(s, p + 1, p + k) = SubSeq(t, q + 1, q + k)
      <3>1. Agree(s, p, t, q, k)
        BY <2>3, <2>4 DEF Agree
      <3>2. Part(s, p, k) = Part(t, q, k)
        BY <2>1, <2>3, <3>1, SameParts
      <3> QED
        BY <3>2, Zenon DEF Part
    <2> QED
      BY <1>2, <2>2, <2>5, <2>6 DEF Carries, k
  <1> QED
    BY <1>1, <1>2

\* Each framed item lies between the ends, where it begins.
FramesItem(off, buf, start, end, xs, i) ==
  /\ off[i] \in Nat /\ start <= off[i] /\ off[i] + Size(xs[i]) <= end
  /\ xs[i] \in Item /\ Size(xs[i]) \in Nat /\ Carries(buf, off[i], xs[i])
  /\ off[i] + Size(xs[i]) = off[i + 1] /\ off[i + 1] \in Nat

LEMMA FramedItem ==
  ASSUME NEW off, NEW buf, NEW start \in Nat, NEW end \in Nat, NEW xs \in Seq(Item),
         Frames(off, buf, start, end, xs), NEW i \in 1 .. Len(xs)
  PROVE  FramesItem(off, buf, start, end, xs, i)
  <1>1. 1 \in 1 .. Len(xs) + 1 /\ i \in 1 .. Len(xs) + 1 /\ i + 1 \in 1 .. Len(xs) + 1
        /\ Len(xs) + 1 \in 1 .. Len(xs) + 1 /\ 1 <= i /\ i + 1 <= Len(xs) + 1
    OBVIOUS
  <1>2. xs[i] \in Item /\ Size(xs[i]) \in Nat
    BY ItemParts
  <1> QED
    BY <1>1, <1>2 DEF Frames, FramesItem

\* What is framed stays so where the bytes stay.
LEMMA SameFraming ==
  ASSUME NEW s \in Seq(Byte), NEW t \in Seq(Byte), NEW start \in Nat, NEW end \in Nat,
         NEW xs \in Seq(Item), end <= Len(s), end <= Len(t),
         \A k \in start + 1 .. end : s[k] = t[k],
         Framing(s, start, end, xs)
  PROVE  Framing(t, start, end, xs)
  <1>1. PICK off : Frames(off, s, start, end, xs)
    BY DEF Framing
  <1>2. ASSUME NEW i \in 1 .. Len(xs) PROVE Carries(t, off[i], xs[i])
    <2>1. /\ off[i] \in Nat /\ start <= off[i] /\ off[i] + Size(xs[i]) <= end
          /\ xs[i] \in Item /\ Size(xs[i]) \in Nat /\ Carries(s, off[i], xs[i])
      <3>1. FramesItem(off, s, start, end, xs, i)
        BY <1>1, FramedItem
      <3> QED
        BY <3>1, Zenon DEF FramesItem
    <2>2. \A k \in 1 .. Size(xs[i]) : s[off[i] + k] = t[off[i] + k]
      <3> TAKE k \in 1 .. Size(xs[i])
      <3>1. off[i] + k \in start + 1 .. end
        BY <2>1
      <3> QED
        BY <3>1
    <2>3. off[i] + Size(xs[i]) <= Len(s) /\ off[i] + Size(xs[i]) <= Len(t)
      BY <2>1
    <2> QED
      BY <2>1, <2>2, <2>3, SameItem
  <1>3. Frames(off, t, start, end, xs)
    BY <1>1, <1>2 DEF Frames
  <1> QED
    BY <1>3 DEF Framing

\* No items need no bytes.
LEMMA NoItems ==
  ASSUME NEW buf, NEW start \in Nat, NEW end \in Nat
  PROVE  Framing(buf, start, end, <<>>) <=> start = end
  <1>1. ASSUME Framing(buf, start, end, <<>>) PROVE start = end
    <2>1. PICK off : Frames(off, buf, start, end, <<>>)
      BY <1>1 DEF Framing
    <2> QED
      BY <2>1 DEF Frames
  <1>2. ASSUME start = end PROVE Framing(buf, start, end, <<>>)
    <2>1. Frames([i \in 1 .. 1 |-> start], buf, start, end, <<>>)
      BY <1>2 DEF Frames
    <2> QED
      BY <2>1 DEF Framing
  <1> QED
    BY <1>1, <1>2

\* An item is added at the end.
LEMMA OneMore ==
  ASSUME NEW buf, NEW start \in Nat, NEW end \in Nat, NEW xs \in Seq(Item), NEW x \in Item,
         Framing(buf, start, end, xs), Carries(buf, end, x)
  PROVE  Framing(buf, start, end + Size(x), Append(xs, x))
  <1>1. PICK off : Frames(off, buf, start, end, xs)
    BY DEF Framing
  <1> DEFINE n == Len(xs)
             ys == Append(xs, x)
             new == [i \in 1 .. n + 2 |-> IF i <= n + 1 THEN off[i] ELSE end + Size(x)]
  <1>2. n \in Nat /\ Len(ys) = n + 1 /\ ys[n + 1] = x /\ \A i \in 1 .. n : ys[i] = xs[i]
    OBVIOUS
  <1>3. /\ off \in [1 .. n + 1 -> Nat] /\ off[1] = start /\ off[n + 1] = end
        /\ \A i, j \in 1 .. n + 1 : i <= j => off[i] <= off[j]
        /\ \A i \in 1 .. n : off[i + 1] = off[i] + Size(xs[i]) /\ Carries(buf, off[i], xs[i])
    BY <1>1 DEF Frames
  <1>4. Size(x) \in Nat
    BY ItemParts
  <1> HIDE DEF n, ys
  <1>5. /\ new \in [1 .. n + 2 -> Nat]
        /\ \A i \in 1 .. n + 1 : new[i] = off[i]
        /\ new[n + 2] = end + Size(x)
    BY <1>2, <1>3, <1>4
  <1> HIDE DEF new
  <1>6. \A i, j \in 1 .. n + 2 : i <= j => new[i] <= new[j]
    <2> TAKE i, j \in 1 .. n + 2
    <2>1. HAVE i <= j
    <2>2. CASE j \in 1 .. n + 1
      <3>1. i \in 1 .. n + 1
        BY <1>2, <2>1, <2>2
      <3> QED
        BY <1>3, <1>5, <2>1, <2>2, <3>1
    <2>3. CASE j = n + 2 /\ i = n + 2
      BY <1>3, <1>4, <1>5, <2>3
    <2>4. CASE j = n + 2 /\ i \in 1 .. n + 1
      <3>1. n + 1 \in 1 .. n + 1 /\ i <= n + 1
        BY <1>2, <2>4
      <3>2. off[i] <= off[n + 1] /\ off[i] \in Nat
        BY <1>3, <2>4, <3>1
      <3> QED
        BY <1>3, <1>4, <1>5, <2>4, <3>2
    <2> QED
      BY <1>2, <2>2, <2>3, <2>4
  <1>7. ASSUME NEW i \in 1 .. n + 1
        PROVE  new[i + 1] = new[i] + Size(ys[i]) /\ Carries(buf, new[i], ys[i])
    <2>1. CASE i \in 1 .. n
      <3>1. i + 1 \in 1 .. n + 1
        BY <1>2, <2>1
      <3> QED
        BY <1>2, <1>3, <1>5, <2>1, <3>1
    <2>2. CASE i = n + 1
      BY <1>2, <1>3, <1>5, <2>2
    <2> QED
      BY <1>2, <2>1, <2>2
  <1>8. Len(ys) + 1 = n + 2 /\ new[1] = start
    BY <1>2, <1>3, <1>5
  <1>9. Frames(new, buf, start, end + Size(x), ys)
    BY <1>2, <1>5, <1>6, <1>7, <1>8 DEF Frames
  <1> QED
    BY <1>9 DEF Framing, ys

\* The first item is where the framing begins, and the others follow.
LEMMA OneLess ==
  ASSUME NEW buf, NEW start \in Nat, NEW end \in Nat, NEW xs \in Seq(Item), xs # <<>>,
         Framing(buf, start, end, xs)
  PROVE  /\ Head(xs) \in Item /\ Tail(xs) \in Seq(Item)
         /\ Carries(buf, start, Head(xs))
         /\ Size(Head(xs)) \in Nat /\ start + Size(Head(xs)) <= end
         /\ Framing(buf, start + Size(Head(xs)), end, Tail(xs))
  <1>1. PICK off : Frames(off, buf, start, end, xs)
    BY DEF Framing
  <1> DEFINE n == Len(xs)
             x == Head(xs)
             ys == Tail(xs)
             new == [i \in 1 .. n |-> off[i + 1]]
  <1>2. /\ n \in Nat /\ n >= 1 /\ x = xs[1] /\ x \in Item
        /\ ys \in Seq(Item) /\ Len(ys) = n - 1 /\ \A i \in 1 .. n - 1 : ys[i] = xs[i + 1]
    BY HeadTailProperties, EmptySeq
  <1>3. /\ off \in [1 .. n + 1 -> Nat] /\ off[1] = start /\ off[n + 1] = end
        /\ \A i, j \in 1 .. n + 1 : i <= j => off[i] <= off[j]
        /\ \A i \in 1 .. n : off[i + 1] = off[i] + Size(xs[i]) /\ Carries(buf, off[i], xs[i])
    BY <1>1 DEF Frames
  <1>4. /\ Carries(buf, start, x) /\ Size(x) \in Nat /\ start + Size(x) <= end
        /\ off[2] = start + Size(x)
    <2>1. 1 \in 1 .. n
      BY <1>2
    <2> QED
      <3>1. FramesItem(off, buf, start, end, xs, 1)
        BY <1>1, <2>1, FramedItem
      <3>2. 1 + 1 = 2
        OBVIOUS
      <3> QED
        BY <1>2, <1>3, <3>1, <3>2 DEF FramesItem
  <1> HIDE DEF n, x, ys
  <1>5. new \in [1 .. n -> Nat] /\ \A i \in 1 .. n : new[i] = off[i + 1]
    BY <1>2, <1>3
  <1> HIDE DEF new
  <1>6. new[1] = start + Size(x) /\ new[n] = end
    BY <1>2, <1>3, <1>4, <1>5
  <1>7. \A i, j \in 1 .. n : i <= j => new[i] <= new[j]
    BY <1>2, <1>3, <1>5
  <1>8. ASSUME NEW i \in 1 .. n - 1
        PROVE  new[i + 1] = new[i] + Size(ys[i]) /\ Carries(buf, new[i], ys[i])
    <2>1. i \in 1 .. n /\ i + 1 \in 1 .. n
      BY <1>2
    <2> QED
      BY <1>2, <1>3, <1>5, <2>1
  <1>9. (n - 1) + 1 = n
    BY <1>2
  <1>10. Frames(new, buf, start + Size(x), end, ys)
    BY <1>2, <1>5, <1>6, <1>7, <1>8, <1>9 DEF Frames
  <1> QED
    BY <1>2, <1>4, <1>10 DEF Framing, x, ys

-----------------------------------------------------------------------------
(* Writing.                                                                *)

\* The vector grows by zeros.
LEMMA EnsuredType ==
  ASSUME obuf \in Seq(Byte), oidx \in Nat, NEW n \in Nat
  PROVE  /\ Ensured(n) \in Seq(Byte) /\ oidx + n <= Len(Ensured(n)) /\ Len(obuf) <= Len(Ensured(n))
         /\ \A i \in 1 .. Len(obuf) : Ensured(n)[i] = obuf[i]
  <1>1. CASE Len(obuf) - oidx < n
    <2> DEFINE e == [i \in 1 .. oidx + n |-> IF i <= Len(obuf) THEN obuf[i] ELSE 0]
    <2>1. Ensured(n) = e
      BY <1>1 DEF Ensured
    <2>2. e \in [1 .. oidx + n -> Byte] /\ oidx + n \in Nat
      BY WidthAssumption DEF Byte
    <2>3. e \in Seq(Byte) /\ Len(e) = oidx + n
      BY <2>2
    <2>4. \A i \in 1 .. Len(obuf) : e[i] = obuf[i]
      BY <1>1
    <2> QED
      BY <1>1, <2>1, <2>3, <2>4
  <1>2. CASE ~(Len(obuf) - oidx < n)
    BY <1>2 DEF Ensured
  <1> QED
    BY <1>1, <1>2

\* Bytes are overwritten, and no others.
LEMMA OverwrittenType ==
  ASSUME NEW buf \in Seq(Byte), NEW at \in Nat, NEW s \in Seq(Byte), at + Len(s) <= Len(buf)
  PROVE  /\ Overwritten(buf, at, s) \in Seq(Byte) /\ Len(Overwritten(buf, at, s)) = Len(buf)
         /\ \A i \in 1 .. Len(s) : Overwritten(buf, at, s)[at + i] = s[i]
         /\ \A i \in 1 .. Len(buf) : i \notin at + 1 .. at + Len(s) =>
              Overwritten(buf, at, s)[i] = buf[i]
  <1> DEFINE w == Overwritten(buf, at, s)
  <1>1. DOMAIN buf = 1 .. Len(buf) /\ Len(buf) \in Nat /\ Len(s) \in Nat
    OBVIOUS
  <1>2. \A i \in at + 1 .. at + Len(s) : i - at \in 1 .. Len(s)
    BY <1>1
  <1>3. /\ w = [i \in 1 .. Len(buf) |-> IF i \in at + 1 .. at + Len(s) THEN s[i - at] ELSE buf[i]]
        /\ w \in [1 .. Len(buf) -> Byte]
    BY <1>1, <1>2 DEF Overwritten
  <1>4. w \in Seq(Byte) /\ Len(w) = Len(buf)
    BY <1>1, <1>3
  <1>5. ASSUME NEW i \in 1 .. Len(s) PROVE w[at + i] = s[i]
    <2>1. at + i \in 1 .. Len(buf) /\ at + i \in at + 1 .. at + Len(s) /\ (at + i) - at = i
      BY <1>1
    <2> QED
      BY <1>3, <2>1
  <1>6. ASSUME NEW i \in 1 .. Len(buf), i \notin at + 1 .. at + Len(s) PROVE w[i] = buf[i]
    BY <1>3, <1>6
  <1> QED
    BY <1>4, <1>5, <1>6

\* The bytes of an item, appended, are the item behind those there are.
LEMMA AppendItemKeeps ==
  ASSUME IInv, status = "writing", steps' \in 0 .. MaxSteps,
         NEW s \in Seq(Byte), NEW x \in Item, Len(s) = Size(x), Carries(s, 0, x),
         AppendItem(s, x)
  PROVE  IInv'
  <1> DEFINE e == Ensured(Len(s))
             w == Overwritten(e, oidx, s)
  <1>1. /\ obuf \in Seq(Byte) /\ oidx \in Nat /\ oidx <= Len(obuf) /\ Len(s) \in Nat
        /\ items \in Seq(Item) /\ Framing(obuf, 0, oidx, items)
    BY DEF IInv, TypeOK
  <1>2. /\ e \in Seq(Byte) /\ oidx + Len(s) <= Len(e) /\ Len(obuf) <= Len(e)
        /\ \A i \in 1 .. Len(obuf) : e[i] = obuf[i]
    BY <1>1, EnsuredType
  <1> HIDE DEF e
  <1>3. /\ w \in Seq(Byte) /\ Len(w) = Len(e)
        /\ \A i \in 1 .. Len(s) : w[oidx + i] = s[i]
        /\ \A i \in 1 .. Len(e) : i \notin oidx + 1 .. oidx + Len(s) => w[i] = e[i]
    BY <1>1, <1>2, OverwrittenType
  <1>4. obuf' = w /\ oidx' = oidx + Len(s) /\ items' = Append(items, x)
    BY DEF AppendItem, e
  <1> HIDE DEF w
  <1>5. Framing(w, 0, oidx, items)
    <2>1. \A k \in 0 + 1 .. oidx : obuf[k] = w[k]
      <3> TAKE k \in 0 + 1 .. oidx
      <3>1. k \in 1 .. Len(obuf) /\ k \in 1 .. Len(e) /\ k \notin oidx + 1 .. oidx + Len(s)
        BY <1>1, <1>2
      <3> QED
        BY <1>2, <1>3, <3>1
    <2>2. oidx <= Len(w)
      BY <1>1, <1>2, <1>3
    <2> QED
      BY <1>1, <1>3, <2>1, <2>2, SameFraming
  <1>6. Carries(w, oidx, x)
    <2>1. \A i \in 1 .. Size(x) : s[0 + i] = w[oidx + i]
      BY <1>3
    <2>2. 0 + Size(x) <= Len(s) /\ oidx + Size(x) <= Len(w)
      BY <1>1, <1>2, <1>3
    <2> QED
      BY <1>1, <1>3, <2>1, <2>2, SameItem
  <1>7. Framing(obuf', 0, oidx', items')
    BY <1>1, <1>4, <1>5, <1>6, OneMore
  <1>8. items' \in Seq(Item) /\ \A i \in DOMAIN items' : IsItem(items'[i])
    <2>1. items' \in Seq(Item)
      BY <1>1, <1>4
    <2> QED
      BY <2>1 DEF Item
  <1>9. obuf' \in Seq(Byte) /\ oidx' \in Nat /\ oidx' <= Len(obuf')
    BY <1>1, <1>2, <1>3, <1>4
  <1>10. UNCHANGED <<big, ibuf, iidx, expected, status>>
    BY DEF AppendItem, inVars
  <1> QED
    BY <1>7, <1>8, <1>9, <1>10 DEF IInv, TypeOK

\* A whole vector is a part of itself.
LEMMA WholePart ==
  ASSUME NEW s \in Seq(Byte), NEW n \in Nat, Len(s) = n
  PROVE  SubSeq(s, 0 + 1, 0 + n) = s
  <1>1. SubSeq(s, 1, Len(s)) = s
    BY SubSeqFull
  <1>2. 0 + 1 = 1 /\ 0 + n = Len(s)
    OBVIOUS
  <1> QED
    BY <1>1, <1>2

\* A number.
LEMMA NumberItem ==
  ASSUME NEW n \in Width, NEW v \in Nat, v < Limit(n)
  PROVE  /\ [size |-> n, value |-> v] \in Item /\ IsNumber([size |-> n, value |-> v])
         /\ Size([size |-> n, value |-> v]) = n
  BY DEF Item, IsItem, IsNumber, Size, Width

LEMMA PutNumberKeeps ==
  ASSUME IInv, NEW n \in Width, NEW v \in Numbers(n), PutNumber(n, v)
  PROVE  IInv'
  <1> DEFINE x == [size |-> n, value |-> v]
             s == Encoded(v, n)
  <1>1. v \in Nat /\ v < Limit(n) /\ n \in Nat
    BY LimitType DEF Numbers, Width
  <1>2. s \in Seq(Byte) /\ Len(s) = n /\ HostNumber(s, TRUE) = v
    BY <1>1, EncodedNumber DEF IInv, TypeOK
  <1>3. x \in Item /\ IsNumber(x) /\ Size(x) = n /\ x.size = n /\ x.value = v
    BY <1>1, NumberItem
  <1>4. AppendItem(s, x) /\ status = "writing" /\ steps' \in 0 .. MaxSteps
    BY BoundsAssumption DEF PutNumber, Writing, IInv, TypeOK
  <1> HIDE DEF s, x
  <1>5. Carries(s, 0, x)
    <2>1. SubSeq(s, 0 + 1, 0 + x.size) = s
      BY <1>1, <1>2, <1>3, WholePart
    <2> QED
      BY <1>2, <1>3, <2>1 DEF Carries
  <1> QED
    BY <1>2, <1>3, <1>4, <1>5, AppendItemKeeps

\* A string, which is cut where its length is.
LEMMA PutStringKeeps ==
  ASSUME IInv, NEW str \in Strings, PutString(str)
  PROVE  IInv'
  <1> DEFINE x == [string |-> str]
             l == Encoded(Cut(x), 2)
             t == Kept(str)
             s == l \o t
             k == Cut(x)
  <1>1. str \in Seq(Byte)
    <2>1. PICK n \in 0 .. MaxString : str = [i \in 1 .. n |-> i % B]
      BY DEF Strings
    <2>2. \A i \in 1 .. n : (i % B) \in Byte
      BY Division, BoundsAssumption
    <2> QED
      BY <2>1, <2>2, BoundsAssumption
  <1>2. x \in Item /\ ~IsNumber(x) /\ x.string = str
    BY <1>1 DEF Item, IsItem, IsNumber
  <1>3. /\ k \in Nat /\ k < Limit(2) /\ Size(x) = 2 + k
        /\ t \in Seq(Byte) /\ Len(t) = k
    BY <1>2, ItemParts
  <1>4. l \in Seq(Byte) /\ Len(l) = 2 /\ HostNumber(l, TRUE) = k
    BY <1>3, EncodedNumber DEF IInv, TypeOK, Width
  <1>5. AppendItem(s, x) /\ status = "writing" /\ steps' \in 0 .. MaxSteps
    BY BoundsAssumption DEF PutString, Writing, Cut, IInv, TypeOK
  <1> HIDE DEF k, l, t
  <1>6. /\ s \in Seq(Byte) /\ Len(s) = 2 + k
        /\ \A i \in 1 .. 2 : s[i] = l[i]
        /\ \A i \in 1 .. k : s[2 + i] = t[i]
    <2>1. /\ s \in Seq(Byte) /\ Len(s) = Len(l) + Len(t)
          /\ \A i \in 1 .. Len(l) + Len(t) : s[i] = IF i <= Len(l) THEN l[i] ELSE t[i - Len(l)]
      BY <1>3, <1>4, ConcatProperties, Zenon
    <2> HIDE DEF s
    <2>2. \A i \in 1 .. 2 : s[i] = l[i]
      BY <1>3, <1>4, <2>1
    <2>3. \A i \in 1 .. k : s[2 + i] = t[i]
      <3> TAKE i \in 1 .. k
      <3>1. 2 + i \in 1 .. Len(l) + Len(t) /\ ~(2 + i <= Len(l)) /\ (2 + i) - Len(l) = i
        BY <1>3, <1>4
      <3> QED
        BY <2>1, <3>1
    <2> QED
      BY <1>3, <1>4, <2>1, <2>2, <2>3
  <1> HIDE DEF s, x
  <1>7. SubSeq(s, 0 + 1, 0 + 2) = l
    <2>1. Agree(s, 0, l, 0, 2)
      BY <1>3, <1>4, <1>6 DEF Agree
    <2>2. SubSeq(s, 0 + 1, 0 + 2) = SubSeq(l, 0 + 1, 0 + 2)
      BY <1>4, <1>6, <2>1, SamePart
    <2> QED
      BY <1>4, <2>2, WholePart
  <1>8. SubSeq(s, 2 + 1, 2 + k) = t
    <2>1. Agree(s, 2, t, 0, k)
      BY <1>3, <1>4, <1>6 DEF Agree
    <2>2. SubSeq(s, 2 + 1, 2 + k) = SubSeq(t, 0 + 1, 0 + k)
      BY <1>3, <1>6, <2>1, SamePart
    <2> QED
      BY <1>3, <2>2, WholePart
  <1>9. Carries(s, 0, x)
    <2>1. 0 + 3 = 2 + 1 /\ 0 + 2 + k = 2 + k
      BY <1>3
    <2> QED
      BY <1>2, <1>4, <1>7, <1>8, <2>1 DEF Carries, k, t
  <1> QED
    BY <1>2, <1>3, <1>5, <1>6, <1>9, AppendItemKeeps

\* Whatever is in the vector is the number that Skip leaves room for.
LEMMA OutSkipKeeps ==
  ASSUME IInv, NEW n \in Width, OutSkip(n)
  PROVE  IInv'
  <1> DEFINE buf == Ensured(n)
             p == SubSeq(buf, oidx + 1, oidx + n)
             v == HostNumber(p, TRUE)
             x == [size |-> n, value |-> v]
  <1>1. /\ obuf \in Seq(Byte) /\ oidx \in Nat /\ oidx <= Len(obuf) /\ n \in Nat
        /\ items \in Seq(Item) /\ Framing(obuf, 0, oidx, items)
    BY DEF IInv, TypeOK, Width
  <1>2. /\ buf \in Seq(Byte) /\ oidx + n <= Len(buf) /\ Len(obuf) <= Len(buf)
        /\ \A i \in 1 .. Len(obuf) : buf[i] = obuf[i]
    BY <1>1, EnsuredType
  <1>3. /\ obuf' = buf /\ oidx' = oidx + n /\ items' = Append(items, x)
        /\ UNCHANGED <<big, ibuf, iidx, expected, status>>
        /\ status = "writing" /\ steps' \in 0 .. MaxSteps
    BY BoundsAssumption DEF OutSkip, Writing, inVars, IInv, TypeOK
  <1> HIDE DEF buf
  <1>4. p \in Seq(Byte) /\ Len(p) = n
    <2>1. Agree(buf, oidx, buf, oidx, n)
      BY <1>2 DEF Agree
    <2> QED
      BY <1>1, <1>2, <2>1, SamePart
  <1> HIDE DEF p
  <1>5. v \in Nat /\ v < Limit(n)
    BY <1>4, BytesOfNumber
  <1> HIDE DEF v
  <1>6. x \in Item /\ IsNumber(x) /\ Size(x) = n /\ x.size = n /\ x.value = v
    BY <1>5, NumberItem
  <1> HIDE DEF x
  <1>7. Carries(buf, oidx, x)
    BY <1>6 DEF Carries, v, p
  <1>8. Framing(buf, 0, oidx, items)
    <2>1. \A k \in 0 + 1 .. oidx : obuf[k] = buf[k]
      BY <1>1, <1>2
    <2>2. oidx <= Len(buf)
      BY <1>1, <1>2
    <2> QED
      BY <1>1, <1>2, <2>1, <2>2, SameFraming
  <1>9. Framing(obuf', 0, oidx', items')
    BY <1>1, <1>3, <1>6, <1>7, <1>8, OneMore
  <1>10. items' \in Seq(Item) /\ \A i \in DOMAIN items' : IsItem(items'[i])
    <2>1. items' \in Seq(Item)
      BY <1>1, <1>3, <1>6
    <2> QED
      BY <2>1 DEF Item
  <1>11. obuf' \in Seq(Byte) /\ oidx' \in Nat /\ oidx' <= Len(obuf')
    BY <1>1, <1>2, <1>3
  <1> QED
    BY <1>3, <1>9, <1>10, <1>11 DEF IInv, TypeOK

\* A number over the first item changes no other item.
LEMMA OutPatchKeeps ==
  ASSUME IInv, NEW v \in Numbers(1), OutPatch(v)
  PROVE  IInv'
  <1> DEFINE x == items[1]
             n == x.size
             y == [size |-> n, value |-> v]
             s == Encoded(v, n)
             w == Overwritten(obuf, 0, s)
             ys == [items EXCEPT ![1].value = v]
             m == Len(items)
  <1>1. /\ obuf \in Seq(Byte) /\ oidx \in Nat /\ oidx <= Len(obuf)
        /\ items \in Seq(Item) /\ items # <<>> /\ IsNumber(x)
    BY DEF IInv, TypeOK, OutPatch, IsNumber
  <1>2. /\ v < Limit(n) /\ obuf' = w /\ items' = ys
        /\ UNCHANGED <<big, oidx, ibuf, iidx, expected, status>>
        /\ status = "writing" /\ steps' \in 0 .. MaxSteps
    BY BoundsAssumption DEF OutPatch, Writing, inVars, IInv, TypeOK
  <1>3. v \in Nat
    BY LimitType DEF Numbers
  <1>4. m \in Nat /\ m >= 1 /\ 1 \in DOMAIN items /\ \A i \in 1 .. m : items[i] \in Item
    BY <1>1, EmptySeq
  <1>5. n \in Width /\ n \in Nat /\ Size(x) = n /\ x \in [size : Width, value : Nat]
    <2>1. x \in Item
      BY <1>4
    <2>2. n \in Width /\ Size(x) = n
      BY <1>1, <2>1, ItemParts
    <2> QED
      BY <1>1, <2>1, <2>2 DEF Item, IsNumber, Width
  <1>6. y \in Item /\ IsNumber(y) /\ Size(y) = n /\ y.size = n /\ y.value = v
    BY <1>2, <1>3, <1>5, NumberItem
  <1>7. [x EXCEPT !.value = v] = y
    BY <1>5
  <1>8. /\ ys \in Seq(Item) /\ Len(ys) = m /\ ys[1] = y
        /\ \A i \in 2 .. m : ys[i] = items[i]
    <2>1. ys = [items EXCEPT ![1] = [x EXCEPT !.value = v]]
      BY <1>4
    <2>2. ys = [items EXCEPT ![1] = y]
      BY <1>7, <2>1
    <2> HIDE DEF ys, y
    <2> QED
      BY <1>1, <1>4, <1>6, <2>2
  <1>9. s \in Seq(Byte) /\ Len(s) = n /\ HostNumber(s, TRUE) = v
    BY <1>2, <1>3, <1>5, EncodedNumber DEF IInv, TypeOK
  <1> HIDE DEF s, y, n
  <1>10. PICK off : Frames(off, obuf, 0, oidx, items)
    BY DEF IInv, Framing
  <1>11. /\ off \in [1 .. m + 1 -> Nat] /\ off[1] = 0 /\ off[m + 1] = oidx
         /\ \A i, j \in 1 .. m + 1 : i <= j => off[i] <= off[j]
         /\ \A i \in 1 .. m : off[i + 1] = off[i] + Size(items[i]) /\ Carries(obuf, off[i], items[i])
    BY <1>10 DEF Frames
  <1>12. off[2] = n /\ n <= oidx /\ n <= Len(obuf)
    <2>1. 1 \in 1 .. m /\ 2 \in 1 .. m + 1 /\ m + 1 \in 1 .. m + 1 /\ 2 <= m + 1 /\ 1 + 1 = 2
      BY <1>4
    <2>2. off[2] = 0 + Size(x)
      BY <1>11, <2>1
    <2>3. off[2] <= off[m + 1]
      BY <1>11, <2>1
    <2> QED
      BY <1>1, <1>5, <1>11, <2>2, <2>3
  <1> HIDE DEF x
  <1>13. /\ w \in Seq(Byte) /\ Len(w) = Len(obuf)
         /\ \A i \in 1 .. n : w[0 + i] = s[i]
         /\ \A i \in 1 .. Len(obuf) : i > n => w[i] = obuf[i]
    <2>1. 0 + Len(s) <= Len(obuf) /\ 0 \in Nat
      BY <1>9, <1>12
    <2>2. /\ w \in Seq(Byte) /\ Len(w) = Len(obuf)
          /\ \A i \in 1 .. Len(s) : w[0 + i] = s[i]
          /\ \A i \in 1 .. Len(obuf) : i \notin 0 + 1 .. 0 + Len(s) => w[i] = obuf[i]
      BY <1>1, <1>9, <2>1, OverwrittenType
    <2> QED
      BY <1>9, <2>2
  <1> HIDE DEF w, ys
  <1>14. Carries(w, 0, y)
    <2>1. Agree(w, 0, s, 0, n)
      BY <1>5, <1>9, <1>12, <1>13 DEF Agree
    <2>2. SubSeq(w, 0 + 1, 0 + n) = SubSeq(s, 0 + 1, 0 + n)
      BY <1>5, <1>9, <1>13, <2>1, SamePart
    <2>3. SubSeq(s, 0 + 1, 0 + n) = s
      BY <1>5, <1>9, WholePart
    <2> QED
      BY <1>6, <1>9, <2>2, <2>3 DEF Carries
  <1>15. ASSUME NEW i \in 2 .. m PROVE Carries(w, off[i], ys[i]) /\ off[i + 1] = off[i] + Size(ys[i])
    <2>1. i \in 1 .. m /\ 2 \in 1 .. m + 1 /\ i \in 1 .. m + 1 /\ 2 <= i
      BY <1>4
    <2>2. /\ off[i] \in Nat /\ off[i] + Size(items[i]) <= oidx
          /\ items[i] \in Item /\ Size(items[i]) \in Nat /\ Carries(obuf, off[i], items[i])
          /\ off[i] + Size(items[i]) = off[i + 1]
      <3>1. i \in 1 .. Len(items) /\ 0 \in Nat
        BY <2>1
      <3>2. FramesItem(off, obuf, 0, oidx, items, i)
        BY <1>1, <1>10, <3>1, FramedItem
      <3> QED
        BY <3>2, Zenon DEF FramesItem
    <2>3. n <= off[i]
      BY <1>11, <1>12, <2>1
    <2>4. \A k \in 1 .. Size(items[i]) : obuf[off[i] + k] = w[off[i] + k]
      <3> TAKE k \in 1 .. Size(items[i])
      <3>1. off[i] + k \in 1 .. Len(obuf) /\ off[i] + k > n
        BY <1>1, <1>5, <2>2, <2>3
      <3> QED
        BY <1>13, <3>1
    <2>5. off[i] + Size(items[i]) <= Len(obuf) /\ off[i] + Size(items[i]) <= Len(w)
      BY <1>1, <1>13, <2>2
    <2> QED
      BY <1>1, <1>8, <1>13, <2>2, <2>4, <2>5, SameItem
  <1>16. \A i \in 1 .. m : Carries(w, off[i], ys[i]) /\ off[i + 1] = off[i] + Size(ys[i])
    <2> TAKE i \in 1 .. m
    <2>1. CASE i = 1
      BY <1>5, <1>6, <1>8, <1>11, <1>12, <1>14, <2>1
    <2>2. CASE i \in 2 .. m
      BY <1>15, <2>2
    <2> QED
      BY <1>4, <2>1, <2>2
  <1>17. Framing(obuf', 0, oidx', items')
    <2>1. Frames(off, w, 0, oidx, ys)
      BY <1>8, <1>11, <1>16 DEF Frames
    <2> QED
      BY <1>2, <2>1 DEF Framing
  <1>18. items' \in Seq(Item) /\ \A i \in DOMAIN items' : IsItem(items'[i])
    <2>1. items' \in Seq(Item)
      BY <1>2, <1>8
    <2> QED
      BY <2>1 DEF Item
  <1>19. obuf' \in Seq(Byte) /\ oidx' \in Nat /\ oidx' <= Len(obuf')
    BY <1>1, <1>2, <1>13
  <1> QED
    BY <1>2, <1>17, <1>18, <1>19 DEF IInv, TypeOK

\* A message begins again, over its old bytes or without them.
LEMMA BeginAgainKeeps ==
  ASSUME IInv, OutRewind \/ Clear
  PROVE  IInv'
  <1>1. /\ oidx' = 0 /\ items' = <<>>
        /\ UNCHANGED <<big, ibuf, iidx, expected, status>>
        /\ status = "writing" /\ steps' = steps + 1 /\ steps < MaxSteps
    BY DEF OutRewind, Clear, ClearedIndex, Writing, inVars
  <1>5. obuf' \in Seq(Byte)
    <2>1. obuf \in Seq(Byte) /\ <<>> \in Seq(Byte)
      BY DEF IInv, TypeOK
    <2>2. obuf' = obuf \/ obuf' = <<>>
      BY DEF OutRewind, Clear
    <2> QED
      BY <2>1, <2>2
  <1>6. steps' \in 0 .. MaxSteps
    BY <1>1, BoundsAssumption DEF IInv, TypeOK
  <1>2. Framing(obuf', 0, 0, <<>>)
    BY NoItems
  <1>3. items' \in Seq(Item) /\ \A i \in DOMAIN items' : IsItem(items'[i])
    BY <1>1
  <1>4. Framing(obuf', 0, oidx', items')
    BY <1>1, <1>2
  <1>7. oidx' \in Nat /\ oidx' <= Len(obuf')
    BY <1>1, <1>5
  <1> QED
    BY <1>1, <1>3, <1>4, <1>5, <1>6, <1>7 DEF IInv, TypeOK

\* The reader gets the bytes that were written, and expects the items in them.
LEMMA SetDataKeeps ==
  ASSUME IInv, SetData
  PROVE  IInv'
  <1>1. /\ obuf \in Seq(Byte) /\ oidx \in Nat /\ oidx <= Len(obuf) /\ items \in Seq(Item)
        /\ Framing(obuf, 0, oidx, items)
    BY DEF IInv, TypeOK
  <1>2. /\ ibuf' = SubSeq(obuf, 1, oidx) /\ iidx' = 0 /\ expected' = items
        /\ status' = "reading"
        /\ UNCHANGED <<big, obuf, oidx, items, steps>>
    BY DEF SetData, outVars
  <1>3. /\ ibuf' \in Seq(Byte) /\ Len(ibuf') = oidx
        /\ \A k \in 1 .. oidx : ibuf'[k] = obuf[k]
    BY <1>1, <1>2, SubSeqProperties
  <1>4. Framing(ibuf', 0, oidx, items)
    <2>1. \A k \in 0 + 1 .. oidx : obuf[k] = ibuf'[k]
      BY <1>3
    <2>2. oidx <= Len(ibuf') /\ 0 \in Nat
      BY <1>1, <1>3
    <2> QED
      BY <1>1, <1>3, <2>1, <2>2, SameFraming
  <1>5. Framing(ibuf', iidx', Len(ibuf'), expected')
    BY <1>2, <1>3, <1>4
  <1>6. Framing(obuf', 0, oidx', items')
    BY <1>1, <1>2
  <1>7. iidx' \in Nat /\ iidx' <= Len(ibuf') /\ oidx' <= Len(obuf')
    BY <1>1, <1>2, <1>3
  <1>8. TypeOK'
    BY <1>2, <1>3, <1>7 DEF IInv, TypeOK
  <1> QED
    BY <1>2, <1>5, <1>6, <1>7, <1>8 DEF IInv

\* What the reader finds where it is: the bytes of the item it expects.
LEMMA NextItem ==
  ASSUME IInv, Reading
  PROVE  /\ ibuf \in Seq(Byte) /\ iidx \in Nat /\ Len(ibuf) \in Nat
         /\ big["in"] \in BOOLEAN /\ big["out"] \in BOOLEAN
         /\ Head(expected) \in Item /\ Carries(ibuf, iidx, Head(expected))
         /\ Size(Head(expected)) \in Nat /\ iidx + Size(Head(expected)) <= Len(ibuf)
         /\ Tail(expected) \in Seq(Item)
         /\ Framing(ibuf, iidx + Size(Head(expected)), Len(ibuf), Tail(expected))
  <1>1. /\ ibuf \in Seq(Byte) /\ iidx \in Nat /\ Len(ibuf) \in Nat
        /\ big["in"] \in BOOLEAN /\ big["out"] \in BOOLEAN
    BY DEF IInv, TypeOK
  <1>2. expected \in Seq(Item) /\ expected # <<>> /\ Framing(ibuf, iidx, Len(ibuf), expected)
    BY DEF IInv, Reading
  <1> QED
    BY <1>1, <1>2, OneLess

\* An item is read as a whole.
LEMMA ReadKeeps ==
  ASSUME IInv, Reading,
         iidx' = iidx + Size(Head(expected)), expected' = Tail(expected),
         status' = "reading", UNCHANGED <<big, obuf, oidx, items, steps, ibuf>>
  PROVE  IInv'
  <1>1. /\ iidx \in Nat /\ Len(ibuf) \in Nat
        /\ Size(Head(expected)) \in Nat /\ iidx + Size(Head(expected)) <= Len(ibuf)
        /\ Tail(expected) \in Seq(Item)
        /\ Framing(ibuf, iidx + Size(Head(expected)), Len(ibuf), Tail(expected))
    BY NextItem
  <1>2. iidx' \in Nat /\ iidx' <= Len(ibuf')
    BY <1>1
  <1>3. expected' \in Seq(Item) /\ \A i \in DOMAIN expected' : IsItem(expected'[i])
    BY <1>1 DEF Item
  <1>4. TypeOK'
    BY <1>2, <1>3 DEF IInv, TypeOK
  <1>5. Framing(ibuf', iidx', Len(ibuf'), expected')
    BY <1>1
  <1>6. items' \in Seq(Item) /\ oidx' <= Len(obuf') /\ Framing(obuf', 0, oidx', items')
    BY DEF IInv
  <1> QED
    BY <1>2, <1>3, <1>4, <1>5, <1>6 DEF IInv

LEMMA GetNumberKeeps ==
  ASSUME IInv, GetNumber
  PROVE  IInv'
  <1> DEFINE x == Head(expected)
             s == Peek(iidx, x.size)
  <1>1. Reading /\ IsNumber(x)
    BY DEF GetNumber, IsNumber
  <1>2. /\ ibuf \in Seq(Byte) /\ iidx \in Nat /\ Len(ibuf) \in Nat /\ big["in"] \in BOOLEAN
        /\ x \in Item /\ Carries(ibuf, iidx, x) /\ iidx + Size(x) <= Len(ibuf)
    BY <1>1, NextItem
  <1>3. x.size \in Width /\ Size(x) = x.size /\ x.size \in Nat
    BY <1>1, <1>2, ItemParts DEF Width
  <1>4. ReadableBytes >= x.size
    BY <1>2, <1>3 DEF ReadableBytes
  <1>5. s \in Seq(Byte) /\ Len(s) = x.size
    <2>1. Agree(ibuf, iidx, ibuf, iidx, x.size)
      BY <1>2, <1>3 DEF Agree
    <2> QED
      BY <1>2, <1>3, <2>1, SamePart DEF Peek
  <1>6. Decoded(s) = x.value
    <2>1. HostNumber(s, TRUE) = x.value
      BY <1>1, <1>2 DEF Carries, Peek
    <2> QED
      BY <1>2, <1>3, <1>5, <2>1, DecodedNumber
  <1>7. /\ iidx' = iidx + x.size /\ status' = "reading" /\ expected' = Tail(expected)
        /\ UNCHANGED <<big, obuf, oidx, items, steps, ibuf>>
    BY <1>4, <1>6 DEF GetNumber, outVars
  <1> QED
    BY <1>1, <1>3, <1>7, ReadKeeps

LEMMA GetStringKeeps ==
  ASSUME IInv, GetString
  PROVE  IInv'
  <1> DEFINE x == Head(expected)
             k == Cut(x)
             s == Peek(iidx, 2)
  <1>1. Reading /\ x \in Item
    BY NextItem DEF GetString
  <1>2. ~IsNumber(x)
    BY <1>1 DEF GetString, Item, IsNumber
  <1>3. /\ ibuf \in Seq(Byte) /\ iidx \in Nat /\ Len(ibuf) \in Nat /\ big["in"] \in BOOLEAN
        /\ Carries(ibuf, iidx, x) /\ iidx + Size(x) <= Len(ibuf)
    BY <1>1, NextItem
  <1>4. k \in Nat /\ Size(x) = 2 + k
    BY <1>1, <1>2, ItemParts
  <1>5. s \in Seq(Byte) /\ Len(s) = 2
    <2>1. Agree(ibuf, iidx, ibuf, iidx, 2)
      BY <1>3, <1>4 DEF Agree
    <2> QED
      BY <1>3, <2>1, SamePart DEF Peek
  <1>6. Decoded(s) = k
    <2>1. HostNumber(s, TRUE) = k
      BY <1>2, <1>3 DEF Carries, Peek
    <2> QED
      BY <1>3, <1>5, <2>1, DecodedNumber DEF Width
  <1>7. Peek(iidx + 2, k) = Kept(x.string)
    <2>1. (iidx + 2) + 1 = iidx + 3 /\ (iidx + 2) + k = iidx + 2 + k
      BY <1>3, <1>4
    <2> QED
      BY <1>2, <1>3, <2>1 DEF Carries, Peek
  <1>8. ReadableBytes >= 2 /\ ReadableBytes - 2 >= k
    BY <1>3, <1>4 DEF ReadableBytes
  <1>9. /\ iidx' = iidx + 2 + k /\ status' = "reading" /\ expected' = Tail(expected)
        /\ UNCHANGED <<big, obuf, oidx, items, steps, ibuf>>
    <2> HIDE DEF s, k, x
    <2>1. SubSeq(x.string, 1, Len(x.string) % (B * B)) = Peek(iidx + 2, k)
      BY <1>7 DEF Kept
    <2>2. Decoded(Peek(iidx, 2)) = k /\ Head(expected) = x
      BY <1>6 DEF s, x
    <2> QED
      BY <1>8, <2>1, <2>2 DEF GetString, outVars
  <1>10. iidx' = iidx + Size(x)
    BY <1>3, <1>4, <1>9
  <1> QED
    BY <1>1, <1>9, <1>10, ReadKeeps

LEMMA InSkipKeeps ==
  ASSUME IInv, InSkip
  PROVE  IInv'
  <1> DEFINE x == Head(expected)
  <1>1. /\ Reading /\ IsNumber(x) /\ expected' = Tail(expected)
        /\ UNCHANGED <<big, obuf, oidx, items, steps, ibuf>>
    BY DEF InSkip, IsNumber, outVars
  <1>2. x \in Item /\ Tail(expected) \in Seq(Item)
    BY <1>1, NextItem
  <1>3. Size(x) = x.size
    BY <1>1, <1>2, ItemParts
  <1>4. CASE SkipFits(x.size)
    <2>1. iidx' = iidx + Size(x) /\ status' = "reading"
      BY <1>1, <1>3, <1>4 DEF InSkip, Reading
    <2> QED
      BY <1>1, <2>1, ReadKeeps
  <1>5. CASE ~SkipFits(x.size)
    <2>1. iidx' = iidx /\ status' = "skip"
      BY <1>5 DEF InSkip
    <2>2. expected' \in Seq(Item) /\ \A i \in DOMAIN expected' : IsItem(expected'[i])
      BY <1>1, <1>2 DEF Item
    <2>3. TypeOK'
      BY <1>1, <2>1, <2>2 DEF IInv, TypeOK
    <2> QED
      BY <1>1, <2>1, <2>2, <2>3 DEF IInv
  <1> QED
    BY <1>4, <1>5

-----------------------------------------------------------------------------

LEMMA InitIInv == Init => IInv
  <1> SUFFICES ASSUME Init PROVE IInv
    OBVIOUS
  <1>1. /\ big \in [{"out", "in"} -> BOOLEAN]
        /\ oidx = 0 /\ items = <<>> /\ steps = 0
        /\ ibuf = <<>> /\ iidx = 0 /\ expected = <<>> /\ status = "writing"
    BY DEF Init
  <1>2. obuf \in Seq(Byte)
    <2>1. 0 \in Byte
      BY WidthAssumption DEF Byte
    <2> QED
      BY <2>1, SizeAssumption DEF Init
  <1>3. <<>> \in Seq(Byte) /\ <<>> \in Seq(Item) /\ Len(<<>>) = 0 /\ DOMAIN <<>> = {}
    OBVIOUS
  <1>4. Framing(obuf, 0, oidx, items)
    BY <1>1, NoItems
  <1>5. TypeOK
    BY <1>1, <1>2, <1>3, BoundsAssumption DEF TypeOK
  <1>6. oidx <= Len(obuf)
    BY <1>1, <1>2
  <1> QED
    BY <1>1, <1>3, <1>4, <1>5, <1>6 DEF IInv

LEMMA NextIInv == IInv /\ [Next]_vars => IInv'
  <1> SUFFICES ASSUME IInv, [Next]_vars PROVE IInv'
    OBVIOUS
  <1>1. CASE \E n \in Width : OutSkip(n)
    BY <1>1, OutSkipKeeps
  <1>2. CASE \E n \in Width : \E v \in Numbers(n) : PutNumber(n, v)
    BY <1>2, PutNumberKeeps
  <1>3. CASE \E str \in Strings : PutString(str)
    BY <1>3, PutStringKeeps
  <1>4. CASE \E v \in Numbers(1) : OutPatch(v)
    BY <1>4, OutPatchKeeps
  <1>5. CASE OutRewind \/ Clear
    BY <1>5, BeginAgainKeeps
  <1>6. CASE SetData
    BY <1>6, SetDataKeeps
  <1>7. CASE GetNumber
    BY <1>7, GetNumberKeeps
  <1>8. CASE GetString
    BY <1>8, GetStringKeeps
  <1>9. CASE InSkip
    BY <1>9, InSkipKeeps
  <1>10. CASE UNCHANGED vars
    <2>1. UNCHANGED <<big, obuf, oidx, items, steps, ibuf, iidx, expected, status>>
      BY <1>10 DEF vars, outVars, inVars
    <2>2. TypeOK'
      BY <2>1 DEF IInv, TypeOK
    <2> QED
      BY <2>1, <2>2 DEF IInv
  <1> QED
    BY <1>1, <1>2, <1>3, <1>4, <1>5, <1>6, <1>7, <1>8, <1>9, <1>10 DEF Next, Width

LEMMA IInvImplies == IInv => InBounds /\ ReadsBack /\ Framed
  <1> SUFFICES ASSUME IInv PROVE InBounds /\ ReadsBack /\ Framed
    OBVIOUS
  <1>1. InBounds /\ ReadsBack /\ status # "assert"
    BY DEF IInv, InBounds, ReadsBack
  <1>2. ASSUME status = "reading", expected = <<>> PROVE iidx = Len(ibuf)
    <2>1. Framing(ibuf, iidx, Len(ibuf), <<>>) /\ iidx \in Nat /\ Len(ibuf) \in Nat
      BY <1>2 DEF IInv, TypeOK
    <2> QED
      BY <2>1, NoItems
  <1> QED
    BY <1>1, <1>2 DEF Framed

LEMMA Invariance == Spec => []IInv
  BY InitIInv, NextIInv, PTL DEF Spec

\* For every number of values of a byte and every size of the first vector, the
\* indices of COutStream and CInStream stay in their vectors, so that the
\* differences of OutStream.h and InStream.h never wrap.
THEOREM StaysInBounds == Spec => []InBounds
  BY Invariance, IInvImplies, PTL

\* Whatever the byte orders of the two hosts are, each >> gives what its << took
\* (for a string, the bytes its 16-bit length tells of), also behind Skip,
\* Reposition and Clear.
THEOREM AllReadBack == Spec => []ReadsBack
  BY Invariance, IInvImplies, PTL

\* The assertions of >> (InStream.h, InStream.cpp) hold for a reader that asks for
\* what was written, which leaves no byte behind.
THEOREM AllFramed == Spec => []Framed
  BY Invariance, IInvImplies, PTL
=============================================================================
