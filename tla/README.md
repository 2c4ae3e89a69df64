# Specifications of `boring`

`boring` is a collection of Windows C++ components: completion-port servers
(`IOCPServer/`, `io/`), a library that reports monitored devices and writes them as XML
(`libsouth_interface/`), message streams and configuration files (`base/`), a socket
server (`UdpServer/`, `UdpClient/`) and a mutex (`io/`).  The modules here model the
parts that keep state, TLC checks them on small instances, and TLAPS proves the most
important results for every value of the constants.

`PROJECT.json` maps each definition to the lines it models, and lists the runs, the
mutants that show what each property can detect, the finding, the hazards and the
theorems.

## 1. The system

| component | state | operations | works with |
|---|---|---|---|
| `CIocpModel` (`IOCPServer/IocpModel.*`, `main.cpp`) | shutdown event, port, critical section, thread handles, listening context with `MAX_POST_ACCEPT` accept contexts, client contexts | `Start`, `Stop`, the worker loop, `_DoAccpet`, `_PostAccept`, `_PostRecv`, `_DeInitialize` | main thread, console-control thread, `2*cpus+2` workers, the kernel's port |
| `CIocp` (`IOCPServer/Iocp.*`) | the same without the listening socket, `m_bStart` | `Start`, `Stop`, `_AssociateWithIOCP`, the worker loop | an owner thread, workers, callbacks of the user |
| `net_wiocp_module` (`io/`) | port, event, thread handles | `start`, `shutdown`, `associate`, the destructor, `loop` | as `CIocp`; `net_tcp_server` only creates one |
| libsouth (`libsouth_interface/south*.cpp`) | device -> list of monitors -> list of targets; in each list a pointer to where the next element goes, and a count | `monitor_*`, `device_*` | its caller |
| `upload` (`libsouth_interface/southxml.cpp`) | the function found in `UploadStatus.dll`, the file `libsouth.xml` | `upload`, `monitor_to_string` | libsouth's lists, TinyXML, a DLL that takes the XML, readers of the file |
| TinyXML: tree (`tinyxml.cpp`, `tinyxmlparser.cpp`) | nodes that point at parent, first and last child, and siblings; a document's error | link, insert, replace, remove, clone, assign, clear, `Identify`, the recursive `Parse` | callers, `upload` |
| TinyXML: text and files | a document, the file | `Print`, `TiXmlPrinter`, `EncodeString`, `Parse`, `SaveFile`, `LoadFile`, attributes | the file system |
| `COutStream`, `CInStream`, `CUtil` (`base/`) | a byte vector and an index each | `<<`, `>>`, `Skip`, `Reposition`, `Clear`, `SetData`; byte order | two hosts, by `Data()`/`Length()` and `SetData` |
| `CIniFile`, `Config` (`base/inifile.*`) | sections in memory, the flag `m_bIsChange`, the file | `init`, `set`, `get`, `del`, `save`, destructor | the file system, other objects on the same file |
| `CTcpServer`, `UdpServer/main.cpp`, `UdpClient` | a listening socket with its backlog, one buffer, the accepted sockets | accept, one recv, again; connect, send | TCP clients |
| `io_mutex`, `io_lock`, `io_trylock` (`io/`) | a mutex, whether an object has entered it | enter, try, try again, exit by scope | nobody yet |
| `CUdpServer`, `CAddress`, `CInit_WSA`, `StringUtil`, `transformEncode`, `ProtocolHeader.h`, `CException` | none that changes over calls | conversions, system calls passed on | the others |
| demonstrations (`boring/main.cpp`, `pthread/main.cpp`, `libsouth_interface_test`, `io/main.cpp`) | none | call the above once | |
| MySQL headers in `Inc/` | third-party, used by nothing | | |

What is hard in each, and what makes it correct:

- **The completion-port pools.**  Workers leave on an event they test, on exit packets
  they dequeue, and (in two of the three versions) on something else as well; the stop
  posts as many packets as there are workers and waits.  Hard: the packets must
  suffice whoever takes which; everything is given back after the wait, so the wait must
  cover every worker; calls fail half-way through the bring-up; the stop comes from
  another thread, at any time, perhaps twice.  Correct: no worker touches what has been
  given back, every stop returns, every completion is dealt with, nothing leaks.
- **libsouth.**  Hard: the append pointer after a deletion, ownership of the cells.
  Correct: the lists are the sequences the interface speaks of.
- **TinyXML's tree.**  Hard: each way to link or unlink a node sets four or five pointers
  of up to four nodes; the parser links a node after it has parsed what is inside it, and
  errors travel over parent pointers meanwhile.  Correct: ordered trees, walked alike
  in both directions, and a document that learns of every error.
- **TinyXML's text, and `upload`.**  Hard: two printers, escaping that lets one kind of
  reference through, a recursive parser in which each level has to notice the end of a
  file that a crash or a full disk has cut short.  Correct: what is saved whole
  is loaded again, and half an element is never taken for a whole one.
- **The streams.**  Hard: byte order, a 16-bit length, indices that move independently
  of the vector.  Correct: the reader finds what the writer wrote.
- **The configuration files.**  Hard: a save truncates before it writes; memory and file
  are merged, and several objects take turns.  Correct: nobody loses a key that nobody
  touched, and no change is forgotten.
- **The socket server.**  Hard: one thread, blocking calls, one buffer for all
  connections, sockets never closed, failures not looked at.  Correct: what is shown of a
  client is what it has sent, and a client is not forgotten because of another.
- **The mutex.**  Hard: an `io_trylock` may have entered at once, later or never, and its
  destructor must leave exactly as often; entering again means two different things on the
  two platforms.  Correct: one thread inside, the mutex free when everybody has left.

## 2. The modules

| module | what it is | extends / refines |
|---|---|---|
| `WorkerPool` | abstract: a pool whose resources are given back only when no handler runs or can run | |
| `CIocpModel`, `MCIocpModel` | the AcceptEx server, and its sets of failures for TLC | implements `WorkerPool` |
| `CIocpModelProof` | type correctness, the exit packets, the refinement, fault-freedom, the accept sockets and the lost workers, proved | `CIocpModel` |
| `CIocp`, `CIocpProof` | the callback pool, and what is proved of it | implements `WorkerPool` |
| `NetWiocpModule` | its second version | implements `WorkerPool` |
| `SouthLists` | abstract: sequences of monitors and of labels | |
| `South`, `MCSouth`, `SouthProof` | linked lists in a heap that reuses its cells, and what is proved of them | implements `SouthLists` |
| `XmlForest` | abstract: ordered trees of nodes, documents with a first error | |
| `TinyXmlDom`, `MCTinyXmlDom`, `TinyXmlDomProof` | the pointers of TinyXML's nodes, and the parser's use of them; what is proved of them | implements `XmlForest`, checked and proved |
| `TinyXmlText` | how a document is printed and a text parsed | |
| `TinyXmlDocument` | a document and its file | extends `TinyXmlText` |
| `SouthXml`, `MCSouthXml` | `upload`, with readers of the file it writes | extends `TinyXmlDocument` |
| `Streams`, `StreamsProof` | a writer and a reader, and what is proved of them | |
| `IniFile`, `MCIniFile`, `IniFileProof` | one object after another on one file, and what is proved of it | |
| `TcpServer`, `MCTcpServer`, `TcpServerProof` | the accept loop with its clients, and what is proved of it | |
| `IoMutex` | a mutex with the objects on it | |
| `IoProof` | what is proved of the two components of `io/` | `NetWiocpModule`, `IoMutex` |

### The pools

*Threads.*  A program counter per thread (`mpc` main, `cpc` control thread or `opc`
owner, `wpc[w]` workers) stands between the calls of the code that touch shared state;
what a thread does between two such points is one action.  So a worker that has tested
the event (`CheckEvent`) and one that waits in `GetQueuedCompletionStatus` are
different states, and a `Stop()` that comes in between finds both.

*The port* is a number of exit packets and the set of completed operations.  Windows
hands packets out first-in first-out; the models hand them out in any order, which
includes that one.  A port that is closed makes the waiting workers return.

*Accept contexts* (`CIocpModel`).  A slot is one accept context with its operation
(`slot`: posted, done, taken, handled, fatal, freed), its accept socket as the system
sees it (`sock`) and the client context built from it (`conn`).

*Failures* names the calls that may fail; each failing branch of the code is a disjunct.
Calls the code assumes to succeed are not made to fail.

*Undefined behaviour* (a null, uninitialised or deleted object is used, something is
deleted twice) is recorded in `faults`, and no action is enabled after it (`Defined`):
what comes after is not the program's choice any more.  Every property is about the
execution up to there, and `NoFault` says where there is none.

*StopWindow* is the set of points of the main thread at which Ctrl-C may come.
*MaxWait* is `MAXIMUM_WAIT_OBJECTS`, which is 64 in Windows.

*Fairness.*  Weak fairness of the main (owner) thread inside a call, of the control
thread inside `Stop()` and of each worker: the scheduler runs what can run, and callbacks
return.  In `CIocp` and `NetWiocpModule`, where a callback may submit its operation again
for ever, also strong fairness of taking each packet: it stands for the first-in
first-out order that the model does not keep.  Clients, Ctrl-C, and the completion
of operations owe nothing.

*How the three differ*, and the models with them: `CIocp` takes a packet with the key 0 for
an exit packet and uses the variable `key` of the round before when the wait
fails; `net_wiocp_module` drops it, keeps going without event or port, and releases in
the destructor; `CIocpModel` ends a worker on an unknown failed completion.

### South

The heap is two sets of addresses; `monitor_new` and `monitor_add_target` may return any
address that is free, so freed cells come back.  `Path` follows the pointers as the
traversals do.  A write through a pointer to freed memory that has not been reused is
recorded in `faults`; one to reused memory does what it does.  The caller keeps to
what the interface plainly needs: live pointers, a monitor added once, no
`monitor_destory` of a monitor of the device.  The constant `AddsAfterTailDeletion` says
whether the caller also adds to a list whose last element has been deleted.

### TinyXmlDom

The record `dom` holds the type and the five pointers of every node; a node of type
"free" is memory not in use.  Each operation that relinks nodes is an operator from record
to record (`New`, `LinkEnd`, ...), so an operation that the code composes, such as an
insertion that clones the node it is given and links the clone, is a composition here too.
Comments, unknowns and declarations are leaves like text.  `parsing` is the stack of
nodes whose `Parse` is running: `Identify` makes a node and sets its parent, `Parsed`
links it when its `Parse` returns, with or without an error, which `SetError` stores in the
document the parent pointers lead to.  Assertions are those of a release build, which has
none; a caller passes live nodes and does not change a tree that is being parsed.

### TinyXmlText, TinyXmlDocument and SouthXml

`TinyXmlText` is pure: a text is a sequence of tokens, and printer and parser are functions
on it.  A token is a character or a run of characters the parser takes together (a name, a
named entity, `!--`); all white space is one kind, so indentation is a " ".  Each step of
the parser returns where it stopped (0 for the null pointer, `Len + 1` for the terminating
zero), what it read and the first error.

`TinyXmlDocument` adds the document, its error and the file.  `SaveFile` writes the whole
text; `LoseTail(n)` leaves the first `n` tokens of it, for every `n`: a full disk, or a
process that ends while it writes.  The ghost variable `saved` is the document the file was
written from, and `loaded` says that the document is what `LoadFile` made of the file.

`SouthXml` adds `upload`: the DLL's function is looked up once, every monitor makes a
document, which overwrites the file of the monitor before, and its text is passed on.  The
process may end between any two of these (`Crash`), and a reader loads the file at any time.

### Streams

A byte has `B` values, so that words of 2 and 4 bytes stay small (`Digits` are the bytes of a word); byte order is modelled
by what it does to the bytes in memory, on both hosts independently.  The ghost variables
`items` and `expected` hold what was written and has still to be read.  `Reposition` is modelled as a
writer uses it: over the first number (`OutPatch`) and to begin again (`OutRewind`).
`CInStream::Reposition` and `WriteBytes`, an `Append` without a length before it, are no actions
of their own.

### IniFile

A save is three steps: the file is truncated, each section is written, the flag is
reset.  A crash may come anywhere, and loses any of the sections the save has written so
far.  `lost` records a failed write or a crash, `touched` what the object has
changed since its last save.  `Lines` says what a reader makes of a written value
(`x=y` is read as `x`).

### TcpServer

`pc`, `sock` and `buf` are the one thread of the server: it accepts, clears the buffer,
receives once, shows what it got, and accepts again.  `queue` is the backlog, `open` the
accepted sockets, which are never closed, so that `Accept` may run out of them
(`MaxSockets`); `AcceptFails` leaves `INVALID_SOCKET`, which `main` passes on to `Recv`.
`wire[c]` is what a client has sent and the server has not received: `Recv` takes any
part of it.  A client connects (and is refused when the backlog is full), sends, ends or is
reset; the server may be killed.

*Fairness*: weak of the server's thread, and strong of `Accept`, which does not fail for
ever while it could succeed.  Nothing is assumed of the clients: `Heard` itself says what
it needs of them.

### IoMutex

`kind` is what `m_mutex` is on the platform: a `CRITICAL_SECTION` that its owner enters
again, or a `pthread_mutex_t` its owner waits for.  `owner` and `count` are the mutex;
`class`, `user` and `state` are the `io_lock` and `io_trylock` objects ("gone", "entering",
"in", "out").  A thread that waits in `enter` does nothing else.  *Fairness*: strong for each
`enter`, a promise of the operating system; threads owe nothing, and `Enters` says what it needs of them.

## 3. The runs

| run | asks | instance | states | result |
|---|---|---|---|---|
| `iocp` | safety, refinement and liveness of the AcceptEx server | 3 workers, 2 accepts, 7 kinds of failure, Ctrl-C after `Start()` | 66448 | holds |
| `iocp_anytime` | what survives every failure and Ctrl-C at any point | 2 workers, 2 accepts, all failures | 99893 | holds |
| `iocp_accepts` | are the accepts kept posted? | 1 worker, 1 accept | | **violated** |
| `cbpool` | the callback pool | 3 workers, 2 operations, one with key 0, all failures, fair | 68820 | holds |
| `netwiocp` | its second version | the same | 50244 | holds |
| `south` | the lists, and their refinement | 3 monitors, 3 targets, 2 names, 2 labels, 2 states; addresses symmetric | 7223 | holds |
| `tinyxmldom` | the pointers of the tree, and their refinement | 5 nodes, symmetric | 7876 | holds |
| `southxml` | printing, parsing, files cut short, uploads | 5 documents, every length of the file, 6 texts, 2 monitors | 33339 | holds |
| `streams` | writer and reader | bytes of one bit, 3 steps of the writer, strings up to 5 | 70928 | holds |
| `inifile` | objects on a file | 2 sections, 2 keys, 2 values, all failures | 227922 | holds |
| `tcpserver` | the accept loop and its clients | 2 clients, buffer of 2 characters, backlog 1, 2 sockets, 3 characters sent | 36719 | holds |
| `iomutex` | the mutex and its objects | 2 threads, 3 objects, both kinds of mutex | 2616 | holds |

What the properties say:

- `NoFault` (all pools): no undefined behaviour.  In `iocp` the failures are those the code
  survives; in the callback pools it holds if the stop can wait for the workers.
- `ExitPacketsSuffice`: while the stop waits, the port holds at least as many exit
  packets as workers run, whoever has taken what.  With it, `StopReturns` (`ShutdownReturns`).
- `LostWorkers`, `WorkersKept`: a worker ends before the stop only for the one reason
  the code has, once for each cause; no failed operation and no packet left over from
  an earlier stop ends one.
- `AcceptHandled`, `CompletionCalledBack`: a completion is dealt with, unless the stop
  comes first or no worker is left.
- `FailedStartDrains`: after a failed `Start()` closing the port ends every worker.
- `ReleasedSocketsClosed`, `SecondCloseOnlyAfterFailedReceive`: every accept socket is
  closed in the end, and closed a second time only after a `_PostRecv` that failed.
- `ImplementsPool`, `PoolSteps`: the server is a `WorkerPool`.
- `OneOwner`, `Counts`, `ImplementsLists`: each allocated target is in one list, once; the
  counts are right; the pointers implement the sequences.
- `LinksAgree`, `WalksAgree`, `ErrorsReachDocument`, `ImplementsForest`: the pointers of
  neighbours agree and none leads to freed memory; forwards, backwards and over elements
  the same children are met; a node being parsed reaches its document; the nodes are
  ordered trees.
- `RoundTrip`, `ElementsWhole`, `UploadReadsBack`: a document saved whole is loaded as it
  was; of a file cut short either an error is reported or every element loaded is a
  whole one; the text passed to the DLL says what the monitor is.
- `InBounds`, `ReadsBack`, `Framed`: the indices stay inside; numbers and kept parts
  of strings come back; a cut string does not shift what follows.
- `UntouchedAgree`, `ChangesMarked`: memory and file differ only where this object has an
  unsaved change, and such a change is marked for the destructor.
- `ShownWasSent`, `Heard`: what is shown of a client is the beginning of what it sent; if
  every client that connects sends or ends, and sockets are left, every one gets its turn.
- `MutualExclusion`, `FreeWhenLeft`, `Enters`: one thread inside; the mutex is free exactly
  when every object has left; every `io_lock` is made at last, unless its thread waits
  for itself on a pthread mutex.

*Finding.*  `iocp_accepts`: an accept context is never reset, so the re-post always fails
and the server ends up without accepts (`MAX_POST_ACCEPT` is, by its comment, the number of accepts posted at the same time).

*Known limits of the code*, which the models show but no run is spent on: Ctrl-C during the first calls
of `Start()` reads the uninitialised `m_pListenContext`; with more than 64 threads the wait
of `Stop()` fails and everything is released under them (`ProperUse` in the proofs excludes
both); client sockets are never associated with the port, so what a greeted client sends
is never handled; adding to a list of libsouth after its last element was deleted writes
through a dangling pointer (`AddsAfterTailDeletion = TRUE`); `CInStream::Skip` asserts for a
byte more than it needs and so refuses to skip the last item.

*Why the bounds are enough.*  With three workers one can be in a callback, one between
the event and the wait, and one lost while the stop counts its packets; nothing in the code
distinguishes a fourth.  Two operations let one be called back again and again
while the other waits, and two accepts let one be pending while the other is handled.
`netwiocp` bounds only repetition: `shutdown()` is called again while
at most `N` exit packets are left over.  Three monitors are what a deletion
in the middle of a device needs; three targets give one monitor a middle and a
last target that can be deleted.  Five nodes are a parent with a first, a middle and a
last child and a place for the clone that an insertion makes, or two trees to move a node
between; the relinking never looks further than a node's neighbours.  The documents of
`southxml` hold each kind of node, mixed content, values with every character that
is escaped, references that are passed through, and a value a reader cannot get back; every
prefix of each is loaded.  A string of up to 5 bytes exceeds what a length of two
one-bit bytes can say (3), and a writer of three steps can write, rewind
or clear, and write again.  Two clients are one that holds the server and one that waits; a
buffer of two characters is filled by one word and overrun by two.  Three
objects of two threads let one thread hold two while the other tries.  For the pools, `IniFile`,
`TcpServer`, `IoMutex`, `Streams` and `South`, and for the pointers of `TinyXmlDom`, the proofs
remove the bounds of the safety properties (in `South` also that of the refinement).

*Deadlock* is checked in `iocp` and `iocp_accepts`, whose server can always be interrupted again,
and in `south`, `southxml`, `tinyxmldom` and `inifile`, whose callers can always do something; the other cfgs
switch it off because a pool may be at rest, a message is read to its end, a server may be
killed, the threads may wait for themselves, or a fault stops the model.

*Symmetry* is used in `south` and `tinyxmldom` only, which check no liveness: each node and cell is
an address, and no operation compares addresses other than for equality.

## 4. The proofs

Every proof module states type correctness together with what it needs beyond; the runs
check the properties, and the theorems say them for all values of the constants that meet the named
assumptions of the modules (finite sets, null values that are not members).

`CIocpModelProof`: for all numbers of workers and accepts, all failures and Ctrl-C at any moment,

- `TypeInvariance`: `Spec => []TypeOK`; among others `posted` and `exits` stay within `0..N`.
- `ExitPacketsInvariance`: `Spec => []ExitPacketsSuffice`.

`ExitPacketsSuffice` is not inductive: it says nothing until the stop waits.  `IInv` adds
`PacketsAccounted`, the balance that holds while the packets are being posted: what this
`Stop()` has posted is in the port or has ended a worker (`posted <= exits + dead`).  Since
live and dead workers together are at most `N` and `posted = N` at the wait, the property
follows.  `FirstStop` says that a `Stop()` that gets past its check is the only one to post,
`EarlyStart` that nothing of the listening context exists before it is made, and `OnSlot`
that a worker in a handler has a slot.

The second part assumes `ProperUse`: no more workers than `MaxWait`, Ctrl-C only after
`Start()`, no failing `CreateThread` and no failing post of the first accepts.  Each is
needed (see the known limits above).

- `PoolRefinement`: `ProperUse` implies `Spec => ImplementsPool`.  `RInv` holds what
  the mapping needs: `NothingPosted` (no handler runs before the accepts are posted),
  `AllHandles` (the wait covers every worker), `Released` (where the lock is deleted)
  and `StopAfterStart`.  Each kind of step maps to one step of the pool or a stutter.
- `ReleaseAfterWorkers`: `Spec => []ReleasedAfterWorkers`, from the pool's `Release`.
- `FaultFreedom`: with `SafeUse` (`ProperUse`, and the port and the extension functions
  can be had) `Spec => []NoFault`.

Its third part is about the accept sockets:

- `SecondCloseOnlyThen`: `Spec => []SecondCloseOnlyAfterFailedReceive`, whatever fails and
  whenever Ctrl-C comes.  `SInv` follows an accept context through its life: one worker at a time handles
  it (`OneHandler`), it has been taken and its client context is as far as
  that worker is (`Handled`, `Unhandled`), and every way to close its socket but the
  failed `_PostRecv` ends the context too (`ClosedOnce`).
- `SocketsClosed`: with `ProperUse`, `Spec => []ReleasedSocketsClosed`.  `Opened`: an open socket
  belongs to a context the listening context still owns.
- `WorkersLost`: with `ProperUse`, `Spec => []LostWorkers`.  `Balance`: until a `Stop()`
  signals, ended workers and fatal contexts are equally many.

`CIocpProof` and the first part of `IoProof` (`NetWiocpModule`): `EnoughExitPackets`, `KeepsWorkers`, `NeverFaults`,
`IsPool` (and `TypeCorrect`), for any number of workers and operations, any failures and any
number of rounds.  The balance `Accounted` is that of the server, with two differences: in `CIocp` a
packet with the key 0 also ends a worker, and is counted (`Kept`); in `net_wiocp_module`
packets of an earlier `shutdown()` may be left over, and `Fresh` says that none are left when
workers are made.  `Held` and `Idle` say what the owner holds where, `Drained` that no
worker is left after the wait, `CallsBack` and `Stale` that no callback runs on the key
0.  `IsPool` proves every step a step of the pool or a stutter while the stop can
wait for the workers.

`IniFileProof`: `UntouchedSafe` and `ChangesSafe`.  `UntouchedAgree` says nothing of an object
that has not read the file; `KeysAgree` does, `SavedSoFar` holds in the middle of a save, and `Marked`
ties the flag to the changes.

The second part of `IoProof` (`IoMutex`): `MutexExcludes` and `MutexFreed`, on both kinds of mutex.  `MutualExclusion` is
inductive only with `Counted` (the count is the number of objects inside), `OwnersOnly` and
`FreeAtZero`.

`TcpServerProof`: `ShowsWhatWasSent`.  What `Recv` shows is the beginning of what was sent only
because it is the first thing received: `Turns` says that a connection is queued, accepted
and received from once each, `Unread` that nothing has been taken from it before that.

`TinyXmlDomProof`: for any finite number of nodes, `TreesStaySound` (`Spec => []TreeInv`), and from
it `LinksStayInAgreement` (`Spec => []LinksAgree`), `ErrorsAlwaysReachDocument`
(`Spec => []ErrorsReachDocument`) and `ChildrenAlwaysWalked` (`Spec => []WalksAgree`).  `LinksAgree` is not inductive: nothing in it forbids siblings
that go round in a ring or a node below itself, and deleting or cloning such a node would not end
where the code does.  `Formed` adds what forbids it, a depth (`Ranked`) and a position
(`Placed`) for each node, and `Loose`: who is in no list of children is nobody's sibling.  Both numbers are
quantified in the invariant, so each operation only has to show new ones: a node that is linked
gets a depth below its new parent together with everything below it, and a position between its neighbours
(`SplicedFormed`).  Deletion (`PrunedFormed`) needs that nothing outside a subtree points into it; the
subtree is the least set closed under `firstChild` and `next`, and what points into it is found
by the least depth or position at which something could be missing (`LeastNatural`, the only induction
needed).  A clone (`CopyFormed`) is a copy of a subtree on fresh nodes, whose depths and positions are
those of the original.  `Settled` (who has a parent is among its children) holds of the whole heap only while
no `Parse` runs; `StackAgrees` says what holds instead: the nodes being parsed, and they
alone, have a parent that does not list them yet.  The position also ends a walk: as it grows with
every step, a walk meets no node twice and so no more than there are (`ShortEnough`), which gives the
list of the children (`ChainFound`) that `Along` finds (`AlongIsChain`) and that a walk backwards meets in
reverse (`ChainBackwards`).  `NumberOf` counts the elements before each element of it, and
`NumberedSteps` shows that `TiXmlHandle`'s steps go from each to the one with the next number.

Its last part proves `ForestImplemented` (`Spec => ImplementsForest`): every call and every step of the
parser is one operation on the ordered trees of `XmlForest`, or nothing.  `ListsOf` names the lists of
children that the pointers link; a subtree is the least set closed under them (`BelowIsSubtree`,
where `XmlForest` and the destructor agree), and the documents above a node are those the parents lead to
(`DocumentOver`).  One lemma says what each change of pointers does to the lists: `ListsPruned`, `ListsDetached`,
`ListsSpliced`, `ListsReplaced`, `ListsNew`, `ListsCopied`.  `BetweenIs` turns the neighbours a node
is linked between into a place in a list, and `Grown` keeps together what a clone adds: its places, its types and
its lists.  Each operation's lemma (`LinkMaps`, `ReplaceMaps`, `AssignMaps`...) puts two or three of
these together.  What `TreeInv` lacks for it is `ContainersAround`: only the innermost node being
parsed may be a leaf, so that a node is never linked under a text.

`StreamsProof`: `StaysInBounds`, `AllReadBack` and `AllFramed`, for a byte of any number of values
above one, so also for 256.  First the numbers: the digits of a number below `B^n` are its only
digits (`DigitsOfNumber`, `NumberOfDigits`), so a host's bytes and numbers determine each other,
bytes in reverse are the number of a host of the other order, and `hton` leaves the
same bytes on every host (`EncodedNumber`, `DecodedNumber`: for every number, while the
specification itself writes the two of `Numbers`).  None of the three properties is inductive.  `Framing`
says that there are offsets, one per item and one for the end, at which the bytes of the items lie one behind the
other.  Appending adds an offset, reading drops the first (`OneMore`, `OneLess`), and since the offsets
never decrease, a number written over the first item touches no other (`OutPatchKeeps`).
That the offsets are a function, and not computed from the items, is what makes induction over
the items unnecessary.

`SouthProof`: for any number of cells, names and labels, and a caller that does not add to a list
whose last element was deleted (`~AddsAfterTailDeletion`, the hypothesis of all three; without it
they are false): `OwnersKept` (`Spec => [](OneOwner /\ Defined)`: also no pointer to freed memory is
followed), `CountsKept` and `ListsImplemented` (`Spec => ImplementsLists`).  `OneOwner` is not
inductive: it says nothing of `_cru` and `_curmon`, through which the next element is linked.
`HeapInv` says that there are sequences, `lists` of targets and `order` of monitors, that
the pointers link (`Listing`), with the counters as their lengths, each allocated target in exactly
one of them, and `_cru` and `_curmon` at the last element *if they point into their list at all*
(`EndsAt`): more the code does not keep.  `PathIsList` shows that a traversal finds these sequences,
`AppendedListing` and `UnlinkedListing` what the writes of an insertion and of a deletion do
to them, for lists of targets and of monitors alike.  Each action's lemma names the
sequences of the next state, and a second one maps it to the step of `SouthLists` that does the same
to the labels (`LabelsAppended`, `LabelsRemoved`).

*Only model-checked*: every liveness property (fairness and ENABLED are out of the
prover's reach); `RoundTrip`, `ElementsWhole` and `UploadReadsBack` of `TinyXmlText`, `TinyXmlDocument` and
`SouthXml`, which declare RECURSIVE operators (a document is a tree of any depth), so that no module
with a theorem may use them.

## 5. What is not modelled

- In the servers: the end of `getchar()` by Ctrl-C, which may end the process while `Stop()`
  runs; the kernel's write into the OVERLAPPED of a pending accept whose context
  `_DeInitialize` has freed; the log's static buffer; a stop called from a callback or from a
  worker, which waits for its own thread; the client contexts `Stop()` leaves behind.
  `NoFault` of `iocp` leaves out failures that the code does not survive (a failing post of
  the first accepts deletes contexts that workers may be using, a failing port or a missing
  extension function leads to a null pointer, a failing thread makes the wait fail).
- In `CIocp`: `Stop()` before `Start()`, after a failed one, or twice; the upper half of a 64-bit key.
- In `net_wiocp_module`: deletion without `shutdown()`, or of a module that was never started.
- In libsouth: failing allocations; a status outside the table; a monitor
  added twice; `monitor_destory` of a monitor of the device, which also destroys the
  ones behind it.  `SouthXml` takes the lists as constants and `toUtf8` as changing no
  character; the message about a refused upload is left out.
- In TinyXML's tree: what `TIXML_USE_STL` compiles; row and column of an error;
  `TiXmlString`; visitors other than the printer; user data; the assertions of a debug build.
- In TinyXML's text: `SetCondenseWhiteSpace(false)`; bytes within a character (a text ends between
  two characters).  The properties are about documents that can be written at all
  (`AllPrintable`): a quote in a value of a declaration, `&#x` in a value, adjacent or untrimmed
  texts do not come back.  The parser as it is loads some damaged files without an error (an
  unterminated comment, declaration, unknown or CDATA at the top level, anything after a top-level
  node that is not one) and the model does the same; that is why `ElementsWhole` speaks of elements.  A
  caller that goes on with a document loaded from a damaged file is left out.
- In the streams: `Data()` of a cleared stream; `Reposition` beyond the end; `CInStream::Reposition`;
  raw `WriteBytes`; messages that no
  `COutStream` has written, where a release build has no assertions.
- In the configuration files: comments (lost by a save), lines of 1024 characters and more, empty values
  (a line `key=` is read past the parts it splits into), two objects at the same time.  The properties
  do not show a change that `init()` overwrites again, nor a value that its reader cuts.
- In the socket server: `CUdpServer` and the client's UDP thread, which nobody calls.
- In the mutex: an object used by another thread than the one that made it, a mutex destroyed
  under its objects.
- The components listed as `not_modelled` in `PROJECT.json`: addresses, encodings, headers and
  demonstrations keep no state over several calls; the semaphore experiment is a sketch whose
  threads are in a comment.  `StringUtil` is modelled as far as the configuration files use it.
  The MySQL headers in `Inc/` are third-party, included by nothing, and more than half of
  the repository's lines: they are why the mapped lines are a small share of the whole
  although every component with state is modelled.

## 6. Plan

Done, in this order: `WorkerPool`, `CIocpModel` with its proofs, `CIocp`, `NetWiocpModule`,
`South` with `SouthLists`, `Streams`, `IniFile`; then `TcpServer`, `IoMutex`, `TinyXmlDom` with
`XmlForest`, `TinyXmlText`, `TinyXmlDocument`, `SouthXml`; proofs about `CIocp`,
`NetWiocpModule`, `IniFile`, `IoMutex`, `TcpServer`, `Streams`, the accept sockets of `CIocpModel`,
`TinyXmlDom` and `South`, both with their refinements.

Left:

1. To model: a user of `CIocp` that breaks its rules (`Stop()` twice or after a failed start), as a
   constant like `AddsAfterTailDeletion`; `trim` and `str2vector` of `StringUtil` against
   reference definitions.
2. To prove: nothing that the prover can reach; what is left of the properties is in the last
   paragraph of section 4.
