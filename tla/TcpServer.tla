------------------------------ MODULE TcpServer ------------------------------
(***************************************************************************)
(* The server of UdpServer/main.cpp on a CTcpServer (UdpServer/            *)
(* TcpServer.cpp), and its client, UdpClient/main.cpp.  The server is one  *)
(* thread: it accepts a connection, receives once from it, shows what it   *)
(* has received and goes on to the next; no connection is ever closed.  A  *)
(* client connects and sends the words its user enters.                    *)
(*                                                                         *)
(* A connection carries characters: recv gives any part of what has        *)
(* arrived that the buffer takes.  Sockets are external.                   *)
(***************************************************************************)
EXTENDS Naturals, Sequences, SequencesExt, FiniteSets

CONSTANTS
  Clients,
  Words,          \* the words a user enters, each shorter than the client's buffer
  Size,           \* the characters Recv is called with, 1023 in the code
  Backlog,        \* 20 in the code
  MaxSockets,     \* the sockets the server's process may have open
  MaxSent,        \* the characters a client sends
  Nul,            \* the terminating zero
  Invalid         \* INVALID_SOCKET

ASSUME WordsAssumption == Words \subseteq Seq(UNION {ToSet(w) : w \in Words})
ASSUME SizeAssumption == Size \in Nat
ASSUME InvalidAssumption == Invalid \notin Clients

VARIABLES
  pc,             \* the server: "start", "accept", "recv", "ended" or "killed"
  sock, buf,      \* its local variables
  queue,          \* the connections listen has queued, oldest first
  open,           \* the connections accepted, none of which is closed
  client,         \* "new", "open", "closed" (its data still arrives), "reset" or "failed"
  sent,           \* what each client has sent
  wire,           \* the end of it that the server has not received
  said,           \* what the server has shown of each connection
  heard           \* the connections it has called recv for and got an answer

vars == <<pc, sock, buf, queue, open, client, sent, wire, said, heard>>

Empty == [i \in 1..Size + 1 |-> Nul]

Init ==
  /\ pc = "start" /\ sock = Invalid /\ buf = Empty
  /\ queue = <<>> /\ open = {}
  /\ client = [c \in Clients |-> "new"]
  /\ sent = [c \in Clients |-> <<>>]
  /\ wire = [c \in Clients |-> <<>>]
  /\ said = [c \in Clients |-> <<>>]
  /\ heard = {}

-----------------------------------------------------------------------------
(* main: WSAStartup, Bind or Listen may fail, and main returns. *)
Start ==
  /\ pc = "start"
  /\ pc' \in {"accept", "ended"}
  /\ UNCHANGED <<sock, buf, queue, open, client, sent, wire, said, heard>>

(* CTcpServer::Accept, whose result main does not look at. *)
Accept ==
  /\ pc = "accept" /\ queue # <<>> /\ Cardinality(open) < MaxSockets
  /\ sock' = Head(queue) /\ queue' = Tail(queue)
  /\ open' = open \cup {Head(queue)}
  /\ pc' = "recv"
  /\ UNCHANGED <<buf, client, sent, wire, said, heard>>

(* A socket cannot be made, or the connection was reset while it was queued. *)
AcceptFails ==
  /\ pc = "accept" /\ queue # <<>>
  /\ sock' = Invalid
  /\ \/ client[Head(queue)] = "reset" /\ queue' = Tail(queue)
     \/ UNCHANGED queue
  /\ pc' = "recv"
  /\ UNCHANGED <<buf, open, client, sent, wire, said, heard>>

\* mutant: buf is not cleared before recv
ReceivedOver(b, data) == [i \in 1..Size + 1 |-> IF i <= Len(data) THEN data[i] ELSE b[i]]
(* memset and recv, and buf read as a string. *)
Received(b, data) == [i \in 1..Size + 1 |-> IF i <= Len(data) THEN data[i] ELSE Nul]
String(b) ==
  LET zeros == {i \in 1..Size + 1 : b[i] = Nul}
  IN SubSeq(b, 1, (CHOOSE i \in zeros : \A j \in zeros : i <= j) - 1)

Show(data) ==
  /\ buf' = Received(buf, data)
  /\ said' = [said EXCEPT ![sock] = String(buf')]
  /\ heard' = heard \cup {sock}
  /\ pc' = "accept"
  /\ UNCHANGED <<sock, queue, open, client, sent>>

(* CTcpServer::Recv: some of what has arrived, or nothing at the end of it. *)
Recv ==
  /\ pc = "recv" /\ sock # Invalid /\ client[sock] # "reset"
  /\ \/ \E n \in 1..Size :
          /\ n <= Len(wire[sock])
          /\ Show(SubSeq(wire[sock], 1, n))
          /\ wire' = [wire EXCEPT ![sock] = SubSeq(@, n + 1, Len(@))]
     \/ /\ wire[sock] = <<>> /\ client[sock] = "closed"
        /\ Show(<<>>)
        /\ UNCHANGED wire

\* mutant: a failed recv ends the loop
RecvEnds ==
  /\ pc = "recv"
  /\ \/ sock = Invalid /\ UNCHANGED heard
     \/ sock # Invalid /\ client[sock] = "reset" /\ heard' = heard \cup {sock}
  /\ buf' = Empty
  /\ pc' = "ended"
  /\ UNCHANGED <<sock, queue, open, client, sent, wire, said>>

(* recv fails on a reset connection and on INVALID_SOCKET; the loop goes on. *)
RecvFails ==
  /\ pc = "recv"
  /\ \/ sock = Invalid /\ UNCHANGED heard
     \/ sock # Invalid /\ client[sock] = "reset" /\ heard' = heard \cup {sock}
  /\ buf' = Empty
  /\ pc' = "accept"
  /\ UNCHANGED <<sock, queue, open, client, sent, wire, said>>

(* The loop has no end: only the user ends the server. *)
Kill ==
  /\ pc \in {"accept", "recv"}
  /\ pc' = "killed"
  /\ UNCHANGED <<sock, buf, queue, open, client, sent, wire, said, heard>>

-----------------------------------------------------------------------------
(* The client: connect, which is refused when nobody listens or the queue is *)
(* full, the loop of send, and the end of its process.                       *)
Connect(c) ==
  /\ client[c] = "new"
  /\ IF pc \in {"accept", "recv"} /\ Len(queue) < Backlog
       THEN queue' = Append(queue, c) /\ client' = [client EXCEPT ![c] = "open"]
       ELSE client' = [client EXCEPT ![c] = "failed"] /\ UNCHANGED queue
  /\ UNCHANGED <<pc, sock, buf, open, sent, wire, said, heard>>

Send(c, w) ==
  /\ client[c] = "open" /\ Len(sent[c]) + Len(w) <= MaxSent
  /\ IF pc = "killed"
       THEN client' = [client EXCEPT ![c] = "failed"] /\ UNCHANGED <<sent, wire>>
       ELSE /\ sent' = [sent EXCEPT ![c] = @ \o w]
            /\ wire' = [wire EXCEPT ![c] = @ \o w]
            /\ UNCHANGED client
  /\ UNCHANGED <<pc, sock, buf, queue, open, said, heard>>

End(c) ==
  /\ client[c] = "open"
  /\ \/ client' = [client EXCEPT ![c] = "closed"] /\ UNCHANGED wire
     \/ client' = [client EXCEPT ![c] = "reset"] /\ wire' = [wire EXCEPT ![c] = <<>>]
  /\ UNCHANGED <<pc, sock, buf, queue, open, sent, said, heard>>

Server == Accept \/ AcceptFails \/ Recv \/ RecvFails

Next ==
  \/ Start \/ Server \/ Kill
  \/ \E c \in Clients : Connect(c) \/ End(c) \/ \E w \in Words : Send(c, w)

(* The server's thread runs, and accept does not fail for ever while it could *)
(* succeed.  Nothing is assumed of the clients.                               *)
Spec == Init /\ [][Next]_vars /\ WF_vars(Server) /\ SF_vars(Accept)

-----------------------------------------------------------------------------
(* What the server shows of a connection is the beginning of what its client *)
(* has sent, not what buf held of another (the memset, main.cpp:42), and no  *)
(* longer than the buffer.                                                   *)
ShownWasSent ==
  \A c \in Clients : /\ Len(said[c]) <= Size
                      /\ IsPrefix(said[c], sent[c])

(* As long as each client that connects sends something or ends, and sockets *)
(* are left, every connection gets its turn, whatever accept and recv do:    *)
(* the loop goes on after each failure (main.cpp:44-47).                     *)
Connected(c) == client[c] \in {"open", "closed"}
Spoken(c) == sent[c] # <<>> \/ client[c] # "open" \/ pc = "killed"
SocketsLeft == Cardinality(open) < MaxSockets
Heard ==
  (\A c \in Clients : Connected(c) ~> Spoken(c))
    => \A c \in Clients : Connected(c) ~> \/ c \in heard \/ client[c] = "reset"
                                          \/ (c \notin open /\ ~SocketsLeft) \/ pc = "killed"
=============================================================================
