------------------------------- MODULE Streams -------------------------------
(***************************************************************************)
(* The message streams of base/: COutStream (OutStream.cpp) writes items   *)
(* into a growing vector; its Data() and Length() travel to a CInStream    *)
(* (InStream.cpp) that reads them back, on a host whose byte order may be  *)
(* another one.  A byte has B values (256 in the code); int8, int16, int32 *)
(* have the bits of their unsigned counterparts.                           *)
(*                                                                         *)
(* An item is a number of 1, 2 or 4 bytes or a string, which is preceded   *)
(* by its length in 2 bytes.  The reader knows the types it expects.       *)
(***************************************************************************)
EXTENDS Integers, Sequences, SequencesExt

CONSTANTS
  B,              \* the number of values of a byte
  InitialSize,    \* sInitalSize
  MaxSteps,       \* bound: what the writer does
  MaxString       \* bound: the length of a string

ASSUME WidthAssumption == B \in Nat /\ B > 1
ASSUME SizeAssumption == InitialSize \in Nat
ASSUME BoundsAssumption == MaxSteps \in Nat /\ MaxString \in Nat

VARIABLES
  big,            \* the hosts of the writer and the reader are big-endian
  obuf, oidx,     \* COutStream: m_buffer, m_currIndex
  items,          \* the items in obuf up to oidx, in order
  steps,          \* what the writer has done
  ibuf, iidx,     \* CInStream: m_buffer, m_currIndex
  expected,       \* the items the reader has still to read
  status          \* "writing", "reading", "wrong" after reading another value,
                  \* "assert" or "skip" after a failed assertion of >> or Skip

outVars == <<obuf, oidx, items, steps>>
inVars  == <<ibuf, iidx, expected>>
vars    == <<big, outVars, inVars, status>>

Byte == 0 .. B - 1

\* the values of n bytes
Limit(n) == CASE n = 1 -> B [] n = 2 -> B * B [] n = 4 -> B * (B * (B * B))
Numbers(n) == {1, Limit(n) - 2}
Strings == {[i \in 1 .. n |-> i % B] : n \in 0 .. MaxString}

IsItem(x) ==
  \/ x \in [string : Seq(Byte)]
  \/ x \in [size : {1, 2, 4}, value : Nat] /\ x.value < Limit(x.size)

TypeOK ==
  /\ big \in [{"out", "in"} -> BOOLEAN]
  /\ obuf \in Seq(Byte) /\ ibuf \in Seq(Byte)
  /\ oidx \in Nat /\ iidx \in Nat
  /\ steps \in 0 .. MaxSteps
  /\ \A i \in DOMAIN items : IsItem(items[i])
  /\ \A i \in DOMAIN expected : IsItem(expected[i])
  /\ status \in {"writing", "reading", "wrong", "assert", "skip"}

Init ==
  /\ big \in [{"out", "in"} -> BOOLEAN]
  /\ obuf = [i \in 1 .. InitialSize |-> 0] /\ oidx = 0
  /\ items = <<>> /\ steps = 0
  /\ ibuf = <<>> /\ iidx = 0 /\ expected = <<>>
  /\ status = "writing"

-----------------------------------------------------------------------------
(* Bytes and numbers (util.cpp).                                           *)

\* the digits of v to the base B, the lowest first
Digits(v) == <<v % B, (v \div B) % B, ((v \div B) \div B) % B,
               (((v \div B) \div B) \div B) % B>>

\* the n bytes of v as a host keeps them in memory
HostBytes(v, n, isBig) ==
  [i \in 1 .. n |-> Digits(v)[IF isBig THEN n + 1 - i ELSE i]]

\* the number a host sees in the bytes s, which are 1, 2 or 4
HostNumber(s, isBig) ==
  LET digit(i) == IF i > Len(s) THEN 0 ELSE s[IF isBig THEN Len(s) + 1 - i ELSE i]
  IN digit(1) + B * (digit(2) + B * (digit(3) + B * digit(4)))

\* mutant: the bytes are never swapped
hton_unswapped(v, n, isBig) == v

\* hton16, hton32: the bytes are swapped unless the host is big-endian
hton(v, n, isBig) ==
  IF isBig THEN v ELSE HostNumber(Reverse(HostBytes(v, n, isBig)), isBig)

\* what << of a number puts into the stream, and what >> makes of the bytes s
Encoded(v, n) == HostBytes(hton(v, n, big["out"]), n, big["out"])
Decoded(s) == hton(HostNumber(s, big["in"]), Len(s), big["in"])

-----------------------------------------------------------------------------
(* COutStream.                                                             *)

\* EnsureWriteableBytes
Ensured(n) ==
  IF Len(obuf) - oidx < n
    THEN [i \in 1 .. oidx + n |-> IF i <= Len(obuf) THEN obuf[i] ELSE 0]
    ELSE obuf

Overwritten(buf, at, s) ==
  [i \in DOMAIN buf |-> IF i \in at + 1 .. at + Len(s) THEN s[i - at] ELSE buf[i]]

Writing == status = "writing" /\ steps < MaxSteps /\ steps' = steps + 1

\* Append of the bytes s, which are the item x
AppendItem(s, x) ==
  /\ obuf' = Overwritten(Ensured(Len(s)), oidx, s)
  /\ oidx' = oidx + Len(s)
  /\ items' = Append(items, x)
  /\ UNCHANGED <<big, inVars, status>>

PutNumber(n, v) ==
  /\ Writing
  /\ AppendItem(Encoded(v, n), [size |-> n, value |-> v])

\* mutant: the length that is written wraps, the bytes that are written do not
KeptWhole(str) == str

\* The length is cast to uint16, and only that many bytes are written.
Kept(str) == SubSeq(str, 1, Len(str) % (B * B))

PutString(str) ==
  /\ Writing
  /\ AppendItem(Encoded(Len(str) % (B * B), 2) \o Kept(str), [string |-> str])

\* Skip leaves room for a number, over whatever is in the vector.
OutSkip(n) ==
  /\ Writing
  /\ LET buf == Ensured(n)
     IN  /\ obuf' = buf
         /\ items' = Append(items, [size |-> n,
                                    value |-> HostNumber(SubSeq(buf, oidx + 1, oidx + n),
                                                         TRUE)])
  /\ oidx' = oidx + n
  /\ UNCHANGED <<big, inVars, status>>

\* Reposition(0), << of a number over the first item, Reposition to the end again: the
\* way Reposition leaves a message that can be read.
OutPatch(v) ==
  /\ Writing
  /\ items # <<>> /\ "size" \in DOMAIN items[1]
  /\ LET n == items[1].size
     IN  /\ v < Limit(n)
         /\ obuf' = Overwritten(obuf, 0, Encoded(v, n))
         /\ items' = [items EXCEPT ![1].value = v]
  /\ UNCHANGED <<big, oidx, inVars, status>>

\* Reposition(0): the message begins again, over the bytes of the old one.
OutRewind ==
  /\ Writing
  /\ oidx' = 0 /\ items' = <<>>
  /\ UNCHANGED <<big, obuf, inVars, status>>

\* mutant: Clear leaves m_currIndex alone
ClearedIndexKept == oidx
ClearedIndex == 0

\* Clear empties the vector, which then grows by what is written.
Clear ==
  /\ Writing
  /\ obuf' = <<>> /\ oidx' = ClearedIndex /\ items' = <<>>
  /\ UNCHANGED <<big, inVars, status>>

-----------------------------------------------------------------------------
(* CInStream.                                                              *)

\* SetData of Data() and Length().  Data() needs a vector that is not empty.
SetData ==
  /\ status = "writing" /\ obuf # <<>>
  /\ ibuf' = SubSeq(obuf, 1, oidx) /\ iidx' = 0
  /\ expected' = items
  /\ status' = "reading"
  /\ UNCHANGED <<big, outVars>>

ReadableBytes == Len(ibuf) - iidx
Peek(at, n) == SubSeq(ibuf, at + 1, at + n)
Reading == status = "reading" /\ expected # <<>>

GetNumber ==
  /\ Reading
  /\ "size" \in DOMAIN Head(expected)
  /\ LET n == Head(expected).size
     IN  IF ReadableBytes >= n
           THEN /\ status' = IF Decoded(Peek(iidx, n)) = Head(expected).value
                               THEN "reading" ELSE "wrong"
                /\ iidx' = iidx + n
           ELSE status' = "assert" /\ UNCHANGED iidx
  /\ expected' = Tail(expected)
  /\ UNCHANGED <<big, outVars, ibuf>>

\* >> of the length, then ReadBytes.  A string that is too long for its length
\* arrives as its first bytes.
GetString ==
  /\ Reading
  /\ "string" \in DOMAIN Head(expected)
  /\ LET str == Head(expected).string
         len == Decoded(Peek(iidx, 2))
     IN  IF ReadableBytes >= 2 /\ ReadableBytes - 2 >= len
           THEN /\ status' = IF Peek(iidx + 2, len) = SubSeq(str, 1, Len(str) % (B * B))
                               THEN "reading" ELSE "wrong"
                /\ iidx' = iidx + 2 + len
           ELSE status' = "assert" /\ UNCHANGED iidx
  /\ expected' = Tail(expected)
  /\ UNCHANGED <<big, outVars, ibuf>>

\* Skip's assertion needs a byte more than Skip does.
SkipFits(n) == ReadableBytes > n

\* Skip of a number
InSkip ==
  /\ Reading
  /\ "size" \in DOMAIN Head(expected)
  /\ LET n == Head(expected).size
     IN  IF SkipFits(n)
           THEN iidx' = iidx + n /\ UNCHANGED status
           ELSE status' = "skip" /\ UNCHANGED iidx
  /\ expected' = Tail(expected)
  /\ UNCHANGED <<big, outVars, ibuf>>

Next ==
  \/ \E n \in {1, 2, 4} : OutSkip(n) \/ \E v \in Numbers(n) : PutNumber(n, v)
  \/ \E str \in Strings : PutString(str)
  \/ \E v \in Numbers(1) : OutPatch(v)
  \/ OutRewind
  \/ Clear
  \/ SetData
  \/ GetNumber
  \/ GetString
  \/ InSkip

Spec == Init /\ [][Next]_vars

-----------------------------------------------------------------------------
(* Properties.                                                             *)

\* The vectors hold bytes and the indices stay in their vectors, so that the size_t
\* differences behind WriteableBytes and ReadableBytes do not wrap.
InBounds == TypeOK /\ oidx <= Len(obuf) /\ iidx <= Len(ibuf)

\* Every number is read back as it was written, whatever the two hosts are and
\* whatever was in the buffer before, and every string up to what its length says.
ReadsBack == status # "wrong"

\* A reader that asks for what was written finds enough bytes for it, also behind
\* a string that was cut; after the last item nothing is left over.
Framed ==
  /\ status # "assert"
  /\ status = "reading" /\ expected = <<>> => iidx = Len(ibuf)
===============================================================================
