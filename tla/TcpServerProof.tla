---------------------------- MODULE TcpServerProof ----------------------------
(***************************************************************************)
(* What the server of TcpServer shows of a client is what that client has  *)
(* sent, for any clients, words and sizes of the buffer, the queue and the *)
(* process.                                                                *)
(*                                                                         *)
(* ShownWasSent is not inductive: it does not say that the connection recv *)
(* is about to read has all its characters still to be read.  That holds   *)
(* because each connection is received from once, so it must be known that *)
(* one is accepted once (Turns) and unread until then (Unread).            *)
(***************************************************************************)
EXTENDS TcpServer, SequenceTheorems, WellFoundedInduction, TLAPS

Char == UNION {ToSet(w) : w \in Words}
Cell == Char \cup {Nul}

TypeOK ==
  /\ pc \in {"start", "accept", "recv", "ended", "killed"}
  /\ sock \in Clients \cup {Invalid}
  /\ buf \in [1..Size + 1 -> Cell]
  /\ queue \in Seq(Clients)
  /\ open \subseteq Clients
  /\ client \in [Clients -> {"new", "open", "closed", "reset", "failed"}]
  /\ sent \in [Clients -> Seq(Char)]
  /\ wire \in [Clients -> Seq(Char)]
  /\ said \in [Clients -> Seq(Cell)]
  /\ heard \subseteq open

(* A connection is queued once, then accepted once, then received from once. *)
Turns ==
  /\ \A i, j \in 1..Len(queue) : queue[i] = queue[j] => i = j
  /\ \A i \in 1..Len(queue) : queue[i] \notin open /\ client[queue[i]] # "new"
  /\ \A c \in open : client[c] # "new"
  /\ pc = "recv" /\ sock # Invalid => sock \in open /\ sock \notin heard

(* Nothing has been taken from a connection that recv has not answered for. *)
Unread == \A c \in Clients : c \notin heard => wire[c] = sent[c] \/ client[c] = "reset"

IInv == TypeOK /\ Turns /\ Unread /\ ShownWasSent

-----------------------------------------------------------------------------
(* A prefix of a sequence is one of a longer one. *)
LEMMA PrefixOfConcat ==
  ASSUME NEW S, NEW p \in Seq(S), NEW s \in Seq(S), NEW t \in Seq(S), IsPrefix(p, s)
  PROVE  IsPrefix(p, s \o t)
<1>1. /\ Len(s \o t) = Len(s) + Len(t) /\ s \o t \in Seq(S)
      /\ Len(s) \in Nat /\ Len(t) \in Nat /\ Len(p) \in Nat
  BY ConcatProperties, LenProperties
<1>2. Len(p) <= Len(s) /\ SubSeq(p, 1, Len(p)) = SubSeq(s, 1, Len(p))
  BY DEF IsPrefix
<1>3. SubSeq(s \o t, 1, Len(p)) = SubSeq(s, 1, Len(p))
  <2>1. CASE Len(p) = 0
    BY <2>1, SubSeqEmpty
  <2>2. CASE Len(p) # 0
    BY <1>1, <1>2, <2>2, SubSeqOfConcat1
  <2> QED BY <2>1, <2>2
<1> QED BY <1>1, <1>2, <1>3 DEF IsPrefix

(* A set of naturals has a least member. *)
LEMMA LeastMember ==
  ASSUME NEW Z \in SUBSET Nat, Z # {}
  PROVE  \E i \in Z : \A j \in Z : i <= j
<1>1. PICK i \in Z : \A j \in Z : ~(<<j, i>> \in OpToRel(<, Nat))
  BY NatLessThanWellFounded, WFMin
<1>2. \A j \in Z : ~(j < i)
  BY <1>1 DEF OpToRel
<1> QED BY <1>2

(* What String makes of the buffer after memset and recv is a beginning of  *)
(* what recv has given, as long as it leaves room for a zero.               *)
LEMMA ShownOfReceived ==
  ASSUME NEW b, NEW data \in Seq(Cell), Len(data) <= Size
  PROVE  /\ Received(b, data) \in [1..Size + 1 -> Cell]
         /\ \E k \in 0..Len(data) : String(Received(b, data)) = SubSeq(data, 1, k)
<1> DEFINE r == Received(b, data)
           zeros == {i \in 1..Size + 1 : r[i] = Nul}
           least == CHOOSE i \in zeros : \A j \in zeros : i <= j
<1>1. Len(data) \in Nat /\ \A i \in 1..Len(data) : data[i] \in Cell
  BY LenProperties, ElementOfSeq
<1>2. \A i \in 1..Size + 1 : r[i] = IF i <= Len(data) THEN data[i] ELSE Nul
  BY DEF Received
<1>3. r \in [1..Size + 1 -> Cell]
  BY <1>1, SizeAssumption DEF Received, Cell
<1>4. Len(data) + 1 \in zeros /\ zeros \in SUBSET Nat
  BY <1>1, <1>2, SizeAssumption
<1>5. \E i \in zeros : \A j \in zeros : i <= j
  <2> HIDE DEF zeros
  <2> QED BY <1>4, LeastMember
<1>6. least \in zeros /\ \A j \in zeros : least <= j
  BY <1>5
<1>7. least \in 1..Len(data) + 1
  <2>1. least <= Len(data) + 1 /\ least \in 1..Size + 1
    BY <1>4, <1>6
  <2> HIDE DEF least
  <2> QED BY <1>1, <2>1, SizeAssumption
<1> DEFINE k == least - 1
<1>8. String(r) = SubSeq(r, 1, k)
  BY DEF String
<1> HIDE DEF least, r
<1>9. k \in 0..Len(data) /\ \A i \in 1..k : r[i] \in Cell /\ r[i] = data[i] /\ data[i] \in Cell
  BY <1>1, <1>2, <1>7, SizeAssumption
<1>10. /\ SubSeq(r, 1, k) \in Seq(Cell) /\ SubSeq(data, 1, k) \in Seq(Cell)
       /\ Len(SubSeq(r, 1, k)) = k /\ Len(SubSeq(data, 1, k)) = k
       /\ \A i \in 1..k : SubSeq(r, 1, k)[i] = r[i]
       /\ \A i \in 1..k : SubSeq(data, 1, k)[i] = data[i]
  <2>1. k \in Int /\ 1 \in Int /\ k \in Nat
    BY <1>1, <1>9
  <2>2. /\ SubSeq(r, 1, k) \in Seq(Cell)
        /\ Len(SubSeq(r, 1, k)) = IF 1 <= k THEN k - 1 + 1 ELSE 0
        /\ \A i \in 1..k - 1 + 1 : SubSeq(r, 1, k)[i] = r[1 + i - 1]
    BY <1>9, <2>1, SubSeqProperties
  <2>3. /\ SubSeq(data, 1, k) \in Seq(Cell)
        /\ Len(SubSeq(data, 1, k)) = IF 1 <= k THEN k - 1 + 1 ELSE 0
        /\ \A i \in 1..k - 1 + 1 : SubSeq(data, 1, k)[i] = data[1 + i - 1]
    BY <1>9, <2>1, SubSeqProperties
  <2>4. k - 1 + 1 = k /\ \A i \in 1..k : 1 + i - 1 = i
    BY <2>1
  <2> QED BY <2>1, <2>2, <2>3, <2>4
<1>11. SubSeq(r, 1, k) = SubSeq(data, 1, k)
  <2> DEFINE x == SubSeq(r, 1, k)
             y == SubSeq(data, 1, k)
  <2>1. x \in Seq(Cell) /\ y \in Seq(Cell) /\ Len(x) = Len(y) /\ \A i \in 1..Len(x) : x[i] = y[i]
    BY <1>9, <1>10
  <2> HIDE DEF x, y
  <2>2. x = y
    BY <2>1, SeqEqual
  <2> QED BY <2>2 DEF x, y
<1> QED BY <1>3, <1>8, <1>9, <1>11 DEF r
-----------------------------------------------------------------------------
LEMMA InitHolds == Init => IInv
<1> SUFFICES ASSUME Init PROVE IInv
  OBVIOUS
<1>1. <<>> \in Seq(Char) /\ <<>> \in Seq(Cell) /\ <<>> \in Seq(Clients) /\ Len(<<>>) = 0
  BY EmptySeq
<1>2. TypeOK
  BY <1>1 DEF Init, TypeOK, Empty, Cell
<1>3. Turns
  BY <1>1 DEF Init, Turns
<1>4. Unread
  BY DEF Init, Unread
<1>5. ShownWasSent
  BY <1>1, SubSeqEmpty, SizeAssumption DEF Init, ShownWasSent, IsPrefix
<1> QED BY <1>2, <1>3, <1>4, <1>5 DEF IInv

(* A step of the server or a client that leaves connections alone. *)
LEMMA StartKeeps == ASSUME IInv, Start PROVE IInv'
<1>1. TypeOK' /\ Turns' /\ Unread'
  BY DEF IInv, TypeOK, Turns, Unread, Start
<1>2. ShownWasSent'
  BY DEF IInv, ShownWasSent, Start
<1> QED BY <1>1, <1>2 DEF IInv

LEMMA KillKeeps == ASSUME IInv, Kill PROVE IInv'
<1>1. TypeOK' /\ Turns' /\ Unread'
  BY DEF IInv, TypeOK, Turns, Unread, Kill
<1>2. ShownWasSent'
  BY DEF IInv, ShownWasSent, Kill
<1> QED BY <1>1, <1>2 DEF IInv

(* The queue without its head: the others keep their turns. *)
LEMMA TailOfQueue ==
  ASSUME IInv, queue # <<>>
  PROVE  /\ Head(queue) \in Clients /\ Head(queue) = queue[1]
         /\ Tail(queue) \in Seq(Clients) /\ Len(queue) \in Nat \ {0}
         /\ Len(Tail(queue)) = Len(queue) - 1
         /\ \A i \in 1..Len(Tail(queue)) :
              /\ i + 1 \in 1..Len(queue) /\ Tail(queue)[i] = queue[i + 1]
              /\ Tail(queue)[i] # Head(queue)
<1>1. queue \in Seq(Clients)
  BY DEF IInv, TypeOK
<1>2. Len(queue) \in Nat \ {0} /\ Head(queue) = queue[1]
  BY <1>1, EmptySeq
<1>3. /\ Head(queue) \in Clients /\ Tail(queue) \in Seq(Clients)
      /\ Len(Tail(queue)) = Len(queue) - 1
      /\ \A i \in 1..Len(Tail(queue)) : Tail(queue)[i] = queue[i + 1]
  BY <1>1, HeadTailProperties
<1>4. ASSUME NEW i \in 1..Len(Tail(queue))
      PROVE  i + 1 \in 1..Len(queue) /\ i + 1 # 1 /\ 1 \in 1..Len(queue)
  BY <1>2, <1>3
<1>5. \A i, j \in 1..Len(queue) : queue[i] = queue[j] => i = j
  BY DEF IInv, Turns
<1> QED BY <1>2, <1>3, <1>4, <1>5

LEMMA AcceptKeeps == ASSUME IInv, Accept PROVE IInv'
<1>1. queue # <<>> /\ UNCHANGED <<buf, client, sent, wire, said, heard>>
      /\ sock' = Head(queue) /\ queue' = Tail(queue)
      /\ open' = open \cup {Head(queue)} /\ pc' = "recv"
  BY DEF Accept
<1>2. TypeOK'
  BY <1>1, TailOfQueue DEF IInv, TypeOK
<1>3. Turns'
  <2>1. \A i, j \in 1..Len(queue') : queue'[i] = queue'[j] => i = j
    <3> SUFFICES ASSUME NEW i \in 1..Len(queue'), NEW j \in 1..Len(queue'), queue'[i] = queue'[j]
                 PROVE  i = j
      OBVIOUS
    <3>1. queue[i + 1] = queue[j + 1] /\ i + 1 \in 1..Len(queue) /\ j + 1 \in 1..Len(queue)
      BY <1>1, TailOfQueue
    <3>2. i + 1 = j + 1
      BY <3>1 DEF IInv, Turns
    <3> QED BY <1>1, <3>2, TailOfQueue
  <2>2. \A i \in 1..Len(queue') : queue'[i] \notin open' /\ client'[queue'[i]] # "new"
    BY <1>1, TailOfQueue DEF IInv, Turns
  <2>3. client[Head(queue)] # "new" /\ Head(queue) \notin open
    BY <1>1, TailOfQueue DEF IInv, Turns
  <2>4. \A c \in open' : client'[c] # "new"
    BY <1>1, <2>3 DEF IInv, Turns
  <2>5. sock' \in open' /\ sock' \notin heard'
    BY <1>1, <2>3 DEF IInv, TypeOK
  <2> QED BY <2>1, <2>2, <2>4, <2>5 DEF Turns
<1>4. Unread' /\ ShownWasSent'
  BY <1>1 DEF IInv, Unread, ShownWasSent
<1> QED BY <1>2, <1>3, <1>4 DEF IInv

LEMMA AcceptFailsKeeps == ASSUME IInv, AcceptFails PROVE IInv'
<1>1. /\ queue # <<>> /\ UNCHANGED <<buf, open, client, sent, wire, said, heard>>
      /\ sock' = Invalid /\ pc' = "recv" /\ queue' \in {queue, Tail(queue)}
  BY DEF AcceptFails
<1>2. TypeOK'
  BY <1>1, TailOfQueue DEF IInv, TypeOK
<1>3. Turns'
  <2>1. CASE queue' = queue
    BY <1>1, <2>1 DEF IInv, Turns
  <2>2. CASE queue' = Tail(queue)
    <3>1. \A i, j \in 1..Len(queue') : queue'[i] = queue'[j] => i = j
      <4> SUFFICES ASSUME NEW i \in 1..Len(queue'), NEW j \in 1..Len(queue'), queue'[i] = queue'[j]
                   PROVE  i = j
        OBVIOUS
      <4>1. queue[i + 1] = queue[j + 1] /\ i + 1 \in 1..Len(queue) /\ j + 1 \in 1..Len(queue)
        BY <1>1, <2>2, TailOfQueue
      <4>2. i + 1 = j + 1
        BY <4>1 DEF IInv, Turns
      <4> QED BY <1>1, <2>2, <4>2, TailOfQueue
    <3>2. \A i \in 1..Len(queue') : queue'[i] \notin open' /\ client'[queue'[i]] # "new"
      BY <1>1, <2>2, TailOfQueue DEF IInv, Turns
    <3> QED BY <1>1, <3>1, <3>2 DEF IInv, Turns
  <2> QED BY <1>1, <2>1, <2>2
<1>4. Unread' /\ ShownWasSent'
  BY <1>1 DEF IInv, Unread, ShownWasSent
<1> QED BY <1>2, <1>3, <1>4 DEF IInv
(* recv has given data, all of it from the beginning of what was sent. *)
LEMMA ShowKeeps ==
  ASSUME IInv, NEW data \in Seq(Char), pc = "recv", sock # Invalid, Show(data),
         Len(data) <= Size, IsPrefix(data, sent[sock]),
         NEW rest \in Seq(Char), wire' = [wire EXCEPT ![sock] = rest]
  PROVE  IInv'
<1>1. /\ UNCHANGED <<sock, queue, open, client, sent>> /\ pc' = "accept"
      /\ buf' = Received(buf, data) /\ said' = [said EXCEPT ![sock] = String(buf')]
      /\ heard' = heard \cup {sock}
  BY DEF Show
<1>2. sock \in Clients /\ sock \in open /\ heard \subseteq open /\ open \subseteq Clients
  BY DEF IInv, TypeOK, Turns
<1>3. data \in Seq(Cell)
  BY SeqMonotonic DEF Cell
<1>4. buf' \in [1..Size + 1 -> Cell]
  BY <1>1, <1>3, ShownOfReceived
<1>5. PICK k \in 0..Len(data) : String(buf') = SubSeq(data, 1, k)
  BY <1>1, <1>3, ShownOfReceived
<1>6. /\ Len(data) \in Nat /\ \A i \in 1..k : data[i] \in Char /\ data[i] \in Cell
      /\ k \in Nat /\ k <= Len(data)
  BY LenProperties, ElementOfSeq DEF Cell
<1>7. /\ String(buf') \in Seq(Char) /\ String(buf') \in Seq(Cell)
      /\ Len(String(buf')) = k
  BY <1>5, <1>6, SubSeqProperties
<1>8. TypeOK'
  BY <1>1, <1>2, <1>4, <1>7 DEF IInv, TypeOK
<1>9. Turns'
  BY <1>1 DEF IInv, Turns
<1>10. Unread'
  BY <1>1, <1>2 DEF IInv, TypeOK, Unread
<1>11. IsPrefix(String(buf'), sent[sock])
  <2>1. Len(data) <= Len(sent[sock]) /\ SubSeq(data, 1, Len(data)) = SubSeq(sent[sock], 1, Len(data))
    BY DEF IsPrefix
  <2>2. sent[sock] \in Seq(Char) /\ Len(sent[sock]) \in Nat
    BY <1>2, LenProperties DEF IInv, TypeOK
  <2>3. data = SubSeq(sent[sock], 1, Len(data))
    BY <2>1, SubSeqFull
  <2>4. SubSeq(data, 1, k) = SubSeq(sent[sock], 1, k)
    <3>1. CASE k = 0
      BY <3>1, SubSeqEmpty
    <3>2. CASE k # 0
      <4>1. SubSeq(SubSeq(sent[sock], 1, Len(data)), 1, k) = SubSeq(sent[sock], 1 + 1 - 1, 1 + k - 1)
        BY <1>6, <2>1, <2>2, <3>2, SubSeqOfSubSeq
      <4> QED BY <1>6, <2>3, <4>1
    <3> QED BY <3>1, <3>2
  <2>5. SubSeq(String(buf'), 1, Len(String(buf'))) = String(buf')
    BY <1>7, SubSeqFull
  <2> QED BY <1>5, <1>6, <1>7, <2>1, <2>2, <2>4, <2>5 DEF IsPrefix
<1>12. ShownWasSent'
  <2> SUFFICES ASSUME NEW c \in Clients
               PROVE  Len(said'[c]) <= Size /\ IsPrefix(said'[c], sent'[c])
    BY DEF ShownWasSent
  <2>1. CASE c = sock
    BY <1>1, <1>2, <1>6, <1>7, <1>11, <2>1, SizeAssumption DEF IInv, TypeOK
  <2>2. CASE c # sock
    BY <1>1, <2>2 DEF IInv, TypeOK, ShownWasSent
  <2> QED BY <2>1, <2>2
<1> QED BY <1>8, <1>9, <1>10, <1>12 DEF IInv

LEMMA RecvKeeps == ASSUME IInv, Recv PROVE IInv'
<1>1. pc = "recv" /\ sock # Invalid /\ client[sock] # "reset"
  BY DEF Recv
<1>2. sock \in Clients /\ wire[sock] = sent[sock]
  BY <1>1 DEF IInv, TypeOK, Turns, Unread
<1>3. wire[sock] \in Seq(Char) /\ Len(wire[sock]) \in Nat
      /\ \A i \in 1..Len(wire[sock]) : wire[sock][i] \in Char
  BY <1>2, LenProperties, ElementOfSeq DEF IInv, TypeOK
<1>4. ASSUME NEW n \in 1..Size, n <= Len(wire[sock]), Show(SubSeq(wire[sock], 1, n)),
             wire' = [wire EXCEPT ![sock] = SubSeq(@, n + 1, Len(@))]
      PROVE  IInv'
  <2> DEFINE data == SubSeq(wire[sock], 1, n)
             rest == SubSeq(wire[sock], n + 1, Len(wire[sock]))
  <2>1. n \in Nat /\ n <= Size
    BY <1>4, SizeAssumption
  <2>2. data \in Seq(Char) /\ Len(data) = n
    BY <1>3, <1>4, <2>1, SubSeqProperties
  <2>3. rest \in Seq(Char)
    BY <1>3, <1>4, <2>1, SubSeqProperties
  <2>4. IsPrefix(data, sent[sock])
    BY <1>2, <1>3, <1>4, <2>2, SubSeqFull DEF IsPrefix
  <2>5. wire' = [wire EXCEPT ![sock] = rest]
    BY <1>2, <1>4 DEF IInv, TypeOK
  <2> HIDE DEF data, rest
  <2>6. Show(data)
    BY <1>4 DEF data
  <2> QED BY <1>1, <2>1, <2>2, <2>3, <2>4, <2>5, <2>6, ShowKeeps
<1>5. ASSUME Show(<<>>), UNCHANGED wire
      PROVE  IInv'
  <2>1. <<>> \in Seq(Char) /\ Len(<<>>) = 0 /\ Len(<<>>) <= Size
    BY EmptySeq, SizeAssumption
  <2>2. IsPrefix(<<>>, sent[sock])
    BY <1>2, <1>3, <2>1, SubSeqEmpty DEF IsPrefix
  <2>3. wire' = [wire EXCEPT ![sock] = wire[sock]]
    BY <1>2, <1>5 DEF IInv, TypeOK
  <2> QED BY <1>1, <1>3, <1>5, <2>1, <2>2, <2>3, ShowKeeps
<1> QED BY <1>4, <1>5 DEF Recv

LEMMA RecvFailsKeeps == ASSUME IInv, RecvFails PROVE IInv'
<1>1. /\ UNCHANGED <<sock, queue, open, client, sent, wire, said>>
      /\ pc = "recv" /\ pc' = "accept" /\ buf' = Empty
      /\ \/ heard' = heard
         \/ sock # Invalid /\ client[sock] = "reset" /\ heard' = heard \cup {sock}
  BY DEF RecvFails
<1>2. Empty \in [1..Size + 1 -> Cell]
  BY DEF Empty, Cell
<1>3. TypeOK'
  BY <1>1, <1>2 DEF IInv, TypeOK, Turns
<1>4. Turns' /\ Unread'
  BY <1>1 DEF IInv, Turns, Unread
<1>5. ShownWasSent'
  BY <1>1 DEF IInv, ShownWasSent
<1> QED BY <1>3, <1>4, <1>5 DEF IInv

LEMMA ConnectKeeps == ASSUME IInv, NEW c \in Clients, Connect(c) PROVE IInv'
<1>1. /\ UNCHANGED <<pc, sock, buf, open, sent, wire, said, heard>> /\ client[c] = "new"
      /\ \/ queue' = Append(queue, c) /\ client' = [client EXCEPT ![c] = "open"]
         \/ queue' = queue /\ client' = [client EXCEPT ![c] = "failed"]
  BY DEF Connect
<1>2. queue \in Seq(Clients) /\ Len(queue) \in Nat
  BY LenProperties DEF IInv, TypeOK
<1>3. /\ Append(queue, c) \in Seq(Clients) /\ Len(Append(queue, c)) = Len(queue) + 1
      /\ \A i \in 1..Len(queue) : Append(queue, c)[i] = queue[i]
      /\ Append(queue, c)[Len(queue) + 1] = c
  BY <1>2, AppendProperties
<1>4. TypeOK'
  BY <1>1, <1>3 DEF IInv, TypeOK
<1>5. c \notin open /\ \A i \in 1..Len(queue) : queue[i] # c
  BY <1>1 DEF IInv, Turns
<1>6. \A d \in Clients : client[d] # "new" => client'[d] # "new"
  BY <1>1 DEF IInv, TypeOK
<1>7. client'[c] # "new"
  BY <1>1 DEF IInv, TypeOK
<1>8. \A i, j \in 1..Len(queue') : queue'[i] = queue'[j] => i = j
  <2>1. CASE queue' = queue
    BY <2>1 DEF IInv, Turns
  <2>2. CASE queue' = Append(queue, c)
    BY <1>2, <1>3, <1>5, <2>2 DEF IInv, Turns
  <2> QED BY <1>1, <2>1, <2>2
<1>9. \A i \in 1..Len(queue') : queue'[i] \notin open' /\ client'[queue'[i]] # "new"
  <2>1. CASE queue' = queue
    BY <1>1, <1>2, <1>6, <2>1, ElementOfSeq DEF IInv, Turns
  <2>2. CASE queue' = Append(queue, c)
    <3> SUFFICES ASSUME NEW i \in 1..Len(queue')
                 PROVE  queue'[i] \notin open' /\ client'[queue'[i]] # "new"
      OBVIOUS
    <3>1. CASE i \in 1..Len(queue)
      BY <1>1, <1>2, <1>3, <1>6, <2>2, <3>1, ElementOfSeq DEF IInv, Turns
    <3>2. CASE i = Len(queue) + 1
      BY <1>1, <1>3, <1>5, <1>7, <2>2, <3>2
    <3> QED BY <1>2, <1>3, <2>2, <3>1, <3>2
  <2> QED BY <1>1, <2>1, <2>2
<1>10. Turns'
  BY <1>1, <1>6, <1>8, <1>9 DEF IInv, TypeOK, Turns
<1>11. Unread'
  BY <1>1 DEF IInv, TypeOK, Unread
<1>12. ShownWasSent'
  BY <1>1 DEF IInv, ShownWasSent
<1> QED BY <1>4, <1>10, <1>11, <1>12 DEF IInv

LEMMA SendKeeps == ASSUME IInv, NEW c \in Clients, NEW w \in Words, Send(c, w) PROVE IInv'
<1>1. UNCHANGED <<pc, sock, buf, queue, open, said, heard>> /\ client[c] = "open"
  BY DEF Send
<1>2. CASE client' = [client EXCEPT ![c] = "failed"] /\ UNCHANGED <<sent, wire>>
  <2>1. TypeOK'
    BY <1>1, <1>2 DEF IInv, TypeOK
  <2>2. \A d \in Clients : client[d] # "new" => client'[d] # "new"
    BY <1>2 DEF IInv, TypeOK
  <2>3. \A i \in 1..Len(queue) : queue[i] \in Clients
    BY ElementOfSeq DEF IInv, TypeOK
  <2>4. Turns'
    BY <1>1, <2>2, <2>3 DEF IInv, TypeOK, Turns
  <2>5. Unread'
    BY <1>1, <1>2 DEF IInv, TypeOK, Unread
  <2>6. ShownWasSent'
    BY <1>1, <1>2 DEF IInv, ShownWasSent
  <2> QED BY <2>1, <2>4, <2>5, <2>6 DEF IInv
<1>3. CASE /\ sent' = [sent EXCEPT ![c] = @ \o w] /\ wire' = [wire EXCEPT ![c] = @ \o w]
           /\ UNCHANGED client
  <2>1. w \in Seq(Char)
    BY WordsAssumption DEF Char
  <2>2. sent[c] \in Seq(Char) /\ wire[c] \in Seq(Char)
    BY DEF IInv, TypeOK
  <2>3. sent[c] \o w \in Seq(Char) /\ wire[c] \o w \in Seq(Char)
    BY <2>1, <2>2, ConcatProperties
  <2>4. TypeOK'
    BY <1>1, <1>3, <2>3 DEF IInv, TypeOK
  <2>5. Turns'
    BY <1>1, <1>3 DEF IInv, Turns
  <2>6. Unread'
    BY <1>1, <1>3 DEF IInv, TypeOK, Unread
  <2>7. ShownWasSent'
    <3> SUFFICES ASSUME NEW d \in Clients
                 PROVE  Len(said'[d]) <= Size /\ IsPrefix(said'[d], sent'[d])
      BY DEF ShownWasSent
    <3>1. CASE d = c
      <4>1. said[c] \in Seq(Cell) /\ sent[c] \in Seq(Cell) /\ w \in Seq(Cell)
        BY <2>1, <2>2, SeqMonotonic DEF IInv, TypeOK, Cell
      <4>2. IsPrefix(said[c], sent[c]) /\ Len(said[c]) <= Size
        BY DEF IInv, ShownWasSent
      <4>3. IsPrefix(said[c], sent[c] \o w)
        BY <4>1, <4>2, PrefixOfConcat
      <4> QED BY <1>1, <1>3, <3>1, <4>2, <4>3 DEF IInv, TypeOK
    <3>2. CASE d # c
      BY <1>1, <1>3, <3>2 DEF IInv, TypeOK, ShownWasSent
    <3> QED BY <3>1, <3>2
  <2> QED BY <2>4, <2>5, <2>6, <2>7 DEF IInv
<1> QED BY <1>2, <1>3 DEF Send

LEMMA EndKeeps == ASSUME IInv, NEW c \in Clients, End(c) PROVE IInv'
<1>1. /\ UNCHANGED <<pc, sock, buf, queue, open, sent, said, heard>> /\ client[c] = "open"
      /\ \/ client' = [client EXCEPT ![c] = "closed"] /\ UNCHANGED wire
         \/ client' = [client EXCEPT ![c] = "reset"] /\ wire' = [wire EXCEPT ![c] = <<>>]
  BY DEF End
<1>2. <<>> \in Seq(Char)
  BY EmptySeq
<1>3. TypeOK'
  BY <1>1, <1>2 DEF IInv, TypeOK
<1>4. \A d \in Clients : client[d] # "new" => client'[d] # "new"
  BY <1>1 DEF IInv, TypeOK
<1>5. \A i \in 1..Len(queue) : queue[i] \in Clients
  BY ElementOfSeq DEF IInv, TypeOK
<1>6. Turns'
  BY <1>1, <1>4, <1>5 DEF IInv, TypeOK, Turns
<1>7. Unread'
  BY <1>1 DEF IInv, TypeOK, Unread
<1>8. ShownWasSent'
  BY <1>1 DEF IInv, ShownWasSent
<1> QED BY <1>3, <1>6, <1>7, <1>8 DEF IInv

LEMMA NextKeeps == IInv /\ [Next]_vars => IInv'
<1> SUFFICES ASSUME IInv, [Next]_vars PROVE IInv'
  OBVIOUS
<1>1. CASE Server
  BY <1>1, AcceptKeeps, AcceptFailsKeeps, RecvKeeps, RecvFailsKeeps DEF Server
<1>2. CASE Start \/ Kill
  BY <1>2, StartKeeps, KillKeeps
<1>3. CASE \E c \in Clients : Connect(c) \/ End(c) \/ \E w \in Words : Send(c, w)
  BY <1>3, ConnectKeeps, EndKeeps, SendKeeps
<1>4. CASE UNCHANGED vars
  BY <1>4 DEF vars, IInv, TypeOK, Turns, Unread, ShownWasSent
<1> QED BY <1>1, <1>2, <1>3, <1>4 DEF Next

(* Whatever arrives in parts or together, whichever calls fail and whoever  *)
(* ends, what the server shows of a client is the beginning of what that    *)
(* client has sent (UdpServer/main.cpp:42-48).                              *)
THEOREM ShowsWhatWasSent == Spec => []ShownWasSent
<1>1. IInv => ShownWasSent
  BY DEF IInv
<1> QED BY <1>1, InitHolds, NextKeeps, PTL DEF Spec
=============================================================================
