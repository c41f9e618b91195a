# BaseNodes: models, checks and proofs

BaseNodes is a framework for distributed algorithms. Every node is a process
that reads its neighbours from a graph file, listens on a TCP port and runs one
loop, `NodeCore::loop`: take a message from the receiver queue, handle it, take
the next. An initiator process sends single orders to single nodes. On top of
the core there are two applications, a leader election and a mutual exclusion
over a shared file. Messages travel as XML, made and read with the library
tinyxml2, whose sources are part of the program.

This directory holds TLA+ models of that code, TLC configurations that check
them on small systems, and TLAPS proofs of the same properties for all systems.
`PROJECT.json` lists the runs, the theorems, the code lines behind every
definition, the hazards and the findings. Paths below are relative to
`src/src/`.

## 1. Inventory

| Component | State | Operations | Interacts with |
|---|---|---|---|
| **NodeCore: control waves** `core/NodeCore.cpp`, `core/data/Echo.h` | `isRunning`, `isShuttingDown`, echo buffer (number -> first neighbour, counter), send functions of the implementation | loop, receive, handleControlMessage, handleEchoMessage, sendToDestinations, sendEcho | receives from the transceiver, calls the implementation, which calls back to send |
| **NodeCore: vector time and snapshot** `core/NodeCore.cpp`, `helper/time/VectorTime.cpp` | time map, termination time, `isMarked`, `pastImpl` | receive (merge, maximum, increase), send (increase), createTemporaryPastImplementation, processImplementations | changed by every application message; the termination time comes with a control wave |
| **Mutual exclusion** `core/implementation/mutual/` | `RequestQueue` (heap and counters), `terminiationCounter`, the file `X.txt` | process, criticalSection, push, remove, topIsFrom, containsRequestFromAll | broadcasts through NodeCore, which hands every broadcast back to it first; the file is shared by all processes |
| **Election** `core/implementation/election/` | confidences, known message numbers, recall counters, votes | process, vote, campaign start, recall | starts campaign waves (`sendEcho`) in NodeCore, answers candidates |
| **Transceiver** `network/AsyncronousNodeTransceiver.cpp` | accept thread, one reader thread for each connection, connection cache, `isRunning` | sendTo, receive, asyncReceive, closeReceiver | puts messages into the receiver queue; the peers' processes are at the other end |
| **Receiver queue** `message/MessagePriorityConcurrentQueue.h` | heap, mutex, condition variable | push, pop (blocking) | reader threads push, the loop pops |
| **Messages** `message/` | class, type, number, source, destination, vector times, content | conversion to and from XML (`MessageFactory`) | every other part; uses tinyxml2 |
| **tinyxml2** `helper/utilities/tinyxml2.*` | nodes in doubly linked lists, memory pools with counters, the buffer a document was parsed from, the printer's flags | create, insert, unlink, delete nodes; print; parse; decode a value in place | called by `MessageFactory` only |
| **Initiator** `initiator/Initiator.cpp` | none | one order for each command of its prompt | sends to one node or to all |
| **Graph** `helper/neighborFinders/` | adjacency lists | read a `.gv` file, addEdge, neighbours of a node | read once, before the loop |
| **Settings**, `NetAVA.cpp` `helper/settings/` | map of all nodes | read the address file, look an address up, make the implementation | asked by the constructor of NodeCore |
| Listener, helpers | none | | |
| `network/NodeTransceiver.cpp`, `helper/utilities/ConcurrentQueue.h`, `core/data/MessageMap.h` | | | not used by anything |

### What is hard

* **Ordering.** A wave takes every route at once, its explorers cross on the
  edges. The receiver queue is a heap over the message classes, so even two
  messages of one connection may be handled in the wrong order.
* **Concurrent waves.** The shutdown, the termination time and campaigns run
  through the same handler and, for the same number, through the same entry.
* **Loss.** A reader parses one message for each read; what a read returns
  behind the first message is dropped. A write to a process that has ended
  raises SIGPIPE, which kills the writer in the middle of its sends.
* **Stale state.** `handleEchoMessage` uses an iterator from before an insert. A
  voter that passes a message on overwrites the vector time by which NodeCore
  then decides what to do with it. The graph's file name is a reference to a
  string that is gone.
* **Unchecked text.** What a read returned is parsed and looked up without a
  test; a field that is missing or blank ends the process.
* **Pointers.** A document keeps every neighbourhood twice, counts its nodes in
  pools on several paths, and decodes values in the buffer they are read from.
* **Shared file.** Nothing but the algorithm keeps two processes from writing
  `X.txt` together, and the file operations of one handler are not atomic.
* **Stops.** A node is stopped by hand, by a flood, by a wave, by its partner
  or by SIGPIPE, in the middle of everything else.

### What makes each component correct

* *Waves*: the origin finishes last; nothing is late; no two messages of a wave
  share a connection; every node finishes; a control wave has its effect
  everywhere; who shuts down is silent.
* *Snapshot*: the past copy holds exactly the messages from before the cut, and
  no vector time runs ahead of its owner.
* *Mutual exclusion*: one node in the critical section; the counters agree with
  the queue; nobody enters before all have asked; the queue is not read when
  it is empty; stops come only at the end.
* *Election*: a voter is counted once for each campaign; a VoteMe dies out; the
  copies of the snapshot see what they must.
* *Transceiver and queue*: what was read is popped, pop never waits while there
  is a message, close joins every thread.
* *Messages*: what is sent is what is read, but for line ends and for times of
  no node, and a piece of it is nothing.
* *tinyxml2*: the pointers are a forest, the pools count it, printing and parsing
  keep the tree, decoding in place is decoding.
* *Initiator*: an order has at its node the effect that the help of the prompt
  gives it (which the order for a snapshot has not).
* *Start*: the neighbour relation is symmetric, and the number of entries less
  one is the highest identifier.

## 2. Modules

| Module | Contents |
|---|---|
| `EchoWave` | NodeCore's loop, control waves and shutdowns |
| `Feedback` | abstract: what one wave promises |
| `EchoFeedback` | the refinement mapping from `EchoWave` to `Feedback` for one wave |
| `MCEchoWave` | graphs and orders for TLC |
| `EchoWaveProofs` | theorems about `EchoWave` and `EchoFeedback` |
| `MutualFileAccess` | the mutual exclusion, its request queue and the file |
| `MCMutualFileAccess` | graphs and file contents for TLC |
| `MutualFileAccessProofs` | theorems about it |
| `Transceiver` | the threads and sockets of a node and its receiver queue |
| `LossyChannel` | abstract: what a node may expect of a connection |
| `MCTransceiver` | connections and messages for TLC |
| `TransceiverProofs` | theorems about the transceiver |
| `VectorTime` | operators: the vector times |
| `Snapshot` | abstract: clocks, termination time and the past copies |
| `SnapshotProofs` | theorems about it |
| `Election` | candidates and voters on top of NodeCore, with its clocks and copies; refines `Snapshot` |
| `MCElection` | graph and opinions for TLC |
| `ElectionProofs` | theorems about `Election`, its refinement of `Snapshot` among them |
| `XmlDom` | tinyxml2's document object model and its pools |
| `OrderedForest` | abstract: what a document is |
| `XmlText` | the symbols of a text, its markup and entities |
| `XmlPrinter`, `XmlParser` | tinyxml2's printer and parser, one step a call or a turn of a loop |
| `XmlForm` | what a document says, and that printing and parsing keep it; for TLC only |
| `MessageFactory` | a message made a document and printed, cut by the connection, parsed and read |
| `Initiator` | the prompt, and what a node makes of an order |
| `MCPrompt` | a prompt with two nodes for TLC |
| `StrPair`, `Decoder` | decoding a value in place, and what decoding is |
| `DynArray` | operators: the array that grows |
| `MemPool` | the pools of items that nodes are made in |
| `PrintBuffer` | the buffer that the printer writes to |
| `Startup` | settings, address file, graph file, the constructor of NodeCore |
| `MCXml` | documents, messages, orders, files and values for TLC |
| `XmlProofs` | theorems about the documents and the parser |
| `MessageProofs` | theorems about messages and the orders of the prompt |
| `SequentialProofs` | theorems about values, pools, buffers and the start |

Definitions carry the names of the code, its spelling included
(`termininationTime`, `terminiationCounter`). Definitions whose names end in
`Any`, `Missing`, `Never`, `ToAll`, `Uncounted` or `Slip` are not part of the
models: each is a plausible mistake in the definition below it. Put in its
place, it breaks the property that `PROJECT.json` lists under `mutants`.

### EchoWave

One step is one turn of the loop at one node, sends included: the handlers of
one node do not interleave with each other, those of different nodes do. State:
`isRunning` and `isShuttingDown` as in the class, the echo buffer as
`FirstNeighborID` and `counter` (no entry: `NoNode`), the termination time of
`VectorTime`, and `network`, a bag of all messages that were sent and not yet
handled. `network` stands for sockets and receiver queue together. It has no
order: the priority queue compares classes only and different connections are
independent. A message has the fields the handlers read. The class (control or
application) and the content of a message follow from its number, which each
order chooses afresh, except for the `echo` command, whose number is always 0:
that is what the run `echo_collision` is about.

| Action | Code |
|---|---|
| `Ignore` | `receive` throws ShuttingDownException on application messages |
| `StartWave` | `initilizeControlEchoMessage`, or `sendEcho` for a campaign |
| `Shutdown`, `ShutdownAll` | the two branches of `handleControlMessage` |
| `FirstExplorer`, `CountMessage`, `CompleteWave` | the paths of `handleEchoMessage` |
| `Crash` | SIGPIPE in `sendTo` of the transceiver |
| `Lose` | one read returns several messages, or the sender died before it sent |

The stale iterator in `FirstExplorer` is undefined behaviour. It is modelled as
what the build does: `end()` of a `std::map` is the header in the map object, and
the word read as the counter lies in the member behind it, the pointer `pastImpl`.
That is zero or the upper half of an address, never a node's degree.

`Lose` is possible only where the code can lose: two messages of one connection,
traffic of other kinds on the connection, or a dead sender.

### Feedback and EchoFeedback

`Feedback` says in four actions what an echo wave is for: one node starts,
nodes are informed along edges, a node finishes only when its neighbours are
informed, and the origin finishes last (`Decide`). The mapping reads `origin`,
`informed` and `finished` off the echo buffers.

### MutualFileAccess

One step is again one turn of the loop, but an access to the file takes two:
`Enter` reads it, `Leave` writes it and sends, and other nodes run in between,
as processes do. State: the implementation's `queue`, `requestCounter` and
`terminiationCounter`, the node's own component of the vector time (`clock`),
the value read, the file, `network` as above, and who runs.

The heap is a set of requests: `Before` is its comparator, so its top is the
greatest element of the set. That the heap never holds two equal requests is not
assumed but part of what is proved: a stamp is new to the queue it arrives at
(`ClockInv` below). The counters are kept apart from the queue, since
`remove` sets them back without regard to what stays. They may be negative.
Only the own component of the vector time is kept: `receive` takes the maximum
of all components, and the own one is always the largest that a node sends.

| Action | Code |
|---|---|
| `Start` | `process` for a message whose source is the initiator: broadcast a request |
| `process` | a message that does not open the critical section: note it, ACK a request, broadcast a request (the condition of line 76 is always true) |
| `Enter` | note, ACK, then `criticalSection` up to the end of the read |
| `Fail` | the same, but there is no file and `stoi` throws: nothing else is done |
| `Leave` | the rest of `criticalSection`, then RELEASE, own requests removed, REQUEST |
| `Shutdown`, `Crash` | as above |

Every broadcast is handed to the sender's own implementation first, and that
pushes it as a request whatever its content is (lines 81-86); so `Leave` pushes
the RELEASE before it removes it again.

### Transceiver

Here a step is one step of one thread, between two points at which another
thread or a peer could notice: a system call, a lock, a read of `isRunning`. The
accept thread (`acceptor`), a reader thread for each connection (`reader[c]`) and
the main thread (`main`) interleave freely; peers connect, send and close. A
stream is a sequence of units, each the number of the message it belongs to, so
that a read cuts it wherever the buffer ends.

| Action | Code |
|---|---|
| `createConnection`, `sendTo`, `Close` | the sending half, at the peers |
| `Accepting`, `Accept`, `AcceptFails`, `Insert` | the loop of `asyncReceive` |
| `Check`, `Recv` | the two loops of `receive` |
| `Push`, `Notify` | `push` of the queue, and `notify_one` after its unlock |
| `Wait`, `Wake`, `Pop` | `pop`, called by NodeCore's loop; `Wake` is spurious |
| `StopRunning`, `ShutListener`, `Walk`, `Join`, `JoinAcceptor` | `closeReceiver` |
| `Destroy` | the destructor of the map of threads |

`Pop` may end the loop after any control message; `NodeCore` decides which, and
that is `EchoWave`. Four points are modelled as the code and its system behave:

* *The map has no lock.* `insert` while `closeReceiver` advances its iterator is a
  data race: the iterator may come out anywhere behind where it was (`Race`).
* *Descriptors come back.* `accept` may return any number that is not open. If an
  ended reader's entry has it, `insert` does nothing and the destructor of the
  new, joinable thread terminates the process.
* *A full buffer means "more".* `Recv` reads on after exactly `Buffer` units, and
  blocks if there is nothing; the parser takes the first message of the text.
* *A send arrives as a whole.* All nodes run on one machine and a message is one
  `send`. A `recv` fails only if the peer resets, which it cannot: nothing is ever
  sent back to it. Hence the exit by `errno` in `receive` is not modelled.

`LossyChannel` has the messages of a connection delivered in order, each at most
once; with a message, any number of those right behind it may be lost. That is
the `network` of `EchoWave` with its `Lose` seen from one connection.
`waiting[c]`, what is under way, is mapped to the units in the stream and in the
reader's text.

### Snapshot and VectorTime

`VectorTime` has the operations of the class. A map entry that is missing is 0,
and so is the maximum of an empty map: `max_element` returns its end, and the
word read there is the size of the tree.

`Snapshot` is what the vector times are for, with any application on top. A node
receives (`Handle`: merge, set its own time to the maximum, increase), sends at
times of its own in the same step, is told to begin (`Begin`), or learns of the
termination time (`Learn`). The first message received at or after that time
makes it copy its state, and the copy may then process what was sent up to it.
`cut[n]` is the vector time of the copy: what it has done and what it has seen of
others.

### Election

One step is one turn of the loop with everything the implementation sends in it.
Inside a step an intermediate record (`Work`) carries the implementation, the
clock, the echo buffer, and the messages sent, in the order of the code, because
the order matters: a voter passes the message on before NodeCore reads its vector
time again. What a campaign or a call counts at the node that sends it, and the
second time a voter gets an explorer (once from NodeCore, once on its way out),
are part of it.

| Action | Code |
|---|---|
| `Start` | `CandidateNodeCoreImpl::process` for the initiator's message: a campaign |
| `HandleApplication` | `handleApplicationMessage`: votes, answers, and what they bring about |
| `FirstExplorer`, `CountMessage`, `AnswerWave`, `FinishCampaign` | the paths of `handleEchoMessage` for a campaign |
| `SetTermininationTime` | the end of a termination-time wave at a node |

Random choices (the opinion of a voter, campaign or call) are nondeterministic.
Numbers are drawn in order; that two draws do not coincide is assumed. A campaign
strengthens whoever leads, since both branches of `VoterNodeCoreImpl.cpp:81-87`
take the first party for the candidate's: the model does what the code does.

### XmlDom and OrderedForest

The operations of the library are operators on a document, a record of the
pointers of all nodes, so that a client's actions (`MakeNode`, `InsertEnd`,
`InsertFirst`, `InsertAfter`, `Delete`, `Write`, `Clone`), the parser and
`MessageFactory` use the same ones. `OrderedForest` knows only contents and
lists of children and has the operations by name, each with the place it is for:
`InsertFirstChild(p, n)` makes n the first node below p, `InsertEndChild(p, n)`
the last, `InsertAfterChild(p, a, n)` the one directly behind a; `SetText(p)`
fills the first child or makes a new one; `ShallowClone(m, n)` gives n the content
of m; `DeleteNode` and `DeleteChildren` take all below. All other nodes keep
content, parent and order. `ImplementsForest` is two things: every step is one of
these or a stutter, and a step that is an operation of `XmlDom` is the operation of
that name with the same arguments (`DoesAsNamed`). The mapping walks the `next`
pointers (`ListOf`); what a deletion takes with it is, in `OrderedForest`, what
is below the node by the lists, in `XmlDom` what the pointers name.

### XmlText, XmlPrinter, XmlParser and XmlForm

A text is a sequence of symbols, each a name, a number, a piece of markup, an
entity or a blank (`Symbol`, `Markup`). A line end of one or two characters is one
symbol (`LineEnd`): every value that is parsed has its line ends made newlines
(`Normalized`), those of texts and attributes their entities decoded as well
(`GetStr`). So a document with another line end comes back with newlines, and
`PrintKeepsTree` compares with that (`WithNewlines`). Printer and parser are machines of their
own, beside the document they work on, and what MessageFactory calls them for is
a step of theirs each time; nothing in them is recursive.

| Action | Code |
|---|---|
| `Accept`, `VisitEnter`, `VisitExit`, `Visit` | `Accept` of the document and of a node, and what `XMLPrinter` does there |
| `VisitAttribute`, `VisitChildren` | the loops of `XMLPrinter::VisitEnter` and `XMLElement::Accept` |
| `Parse` | `XMLDocument::Parse` up to its first node |
| `ParseMarked`, `ParseElement`, `ParseEnd` | a turn of the loop of `XMLNode::ParseDeep`, up to the call for what is below the node |
| `ParseAttribute` | a turn of the loop of `XMLElement::ParseAttributes` |
| `OpenTag`, `ClosedElement`, `ClosingTag`, `StrayTag`, `BadTag` | how a tag ends, and the returns that follow from it |

The calls of `ParseDeep` that have not returned are the stack `open`; a node is
inserted below its parent only when its call returns, as in the code, and an
error ends all of them (`Fail`). The printer's flags (`elementJustOpened`,
`firstElement`, `depth`, `textDepth`) are those of the code. What it prints is `doc`:
the document of a client (`dom`), or that of a message. `ParserSpec` is the
parser by itself with any text. `XmlForm` has the tree that a document is,
defined by recursion; no proof reaches it.

### MessageFactory and Initiator

| Action | Code |
|---|---|
| `writeHeader`, `writeTime`, `writeContent` | `write` up to the loop over the vector times, a turn of that loop, and the rest; made with the operators of `XmlDom` |
| `write` | a step of the printer |
| `convertToString` | the text is the printer's output, and `sendTo` appends a NUL |
| `Arrive` | a read returns any contiguous piece of the text |
| `create` | a step of the parser on that piece |
| `read` | the fields are looked up; the outcome is a message, a null pointer, an exception or the end of the process |
| `readInput`, `Abandon` | the prompt reads a command; a wrong one is given up |
| `tell`, `sendEchoShutdown`, `halt`, `snapshoot`, `sendInit` | the commands |

`readTimes` is `VectorTime::setTime`, once for each time: identifiers below 1 are
dropped, and of several times of one node the largest stays. `asRead(m)` is what
`MessageSurvives` promises of m: these times, and its content with newlines for line
ends. It promises nothing of a blank content, which ends the reader.

`EffectOf` is what a node does with the message it then has: the choice of the
loop and the cases of `handleControlMessage`. The prompt stops after the first
message it sends.

### StrPair and Decoder

`StrPair::GetStr` reads at `p` and writes at `q` in one buffer; each turn of its
loop is an action (`NewlineNormalization`, `GetCharacterRef`, `Entity`,
`UnknownEntity`, `Copy`). `Decoder` reads one buffer and writes another and says
with arithmetic on characters, not on digits from the back, what comes out.
Left open there: the first byte of an unknown entity (the code skips it without
writing, so it is left over from before if something has shrunk) and numbers that
are no character.

### MemPool, PrintBuffer and DynArray

Beneath a document lie pools of items and, in the printer, a buffer. `XmlDom` only
counts items and `XmlPrinter` only appends symbols; these modules show that this is
what the memory does. `MemPool` (`Alloc`, `Free`, `MarkTracked` for `SetTracked`,
`ClearPool`) keeps the free list in the items' own pointers and the blocks in a
`DynArray`. `PrintBuffer` has one action, `Print`, with one byte written more than
the array is asked for.

### Startup

| Action | Code |
|---|---|
| `readAddress` | a line of the address file |
| `openGraph` | the graph file is opened by a name that may be gone, so it may be empty |
| `readLine`, `readEdge` | a line, and an edge of it |
| `readGraph` | the neighbours of the node, with their addresses |
| `askAddresses`, `createReceiver`, `getNodeImplementation` | the constructor of NodeCore, in its order |

Every exception ends in the phase `failed`, as it ends `main`.

## 3. Runs

| Run | System | Checks | Result |
|---|---|---|---|
| `echo_stops` | 5 nodes, a square with a diagonal and a node with one neighbour; shutdown wave ordered at that node | `NothingForCompleted`, `AllStop` | every interleaving stops all nodes; no node writes to a stopped one |
| `echo_races` | triangle, two sets of orders: shutdown wave, campaign and a stop by hand; termination-time wave against "shutdown all" | `TypeOK`, `OneMessagePerConnection`, `EchoHasEntry`, `NeighborsShuttingDown`, `QuietWhenShuttingDown`, `FeedbackSound`, `TimeEverywhere`, `ImplementsFeedback` | hold, with crashes and losses |
| `echo_leaf` | as `echo_stops`, ordered at another node | `AllStop` | **violated**: the node with one neighbour does not echo |
| `echo_collision` | complete graph of 4, two shutdown orders | `NeighborsShuttingDown` | **violated**: both waves use entry 0 |
| `mutual_queue` | 3 nodes, one prompted, file with 0 or no file | `TypeOK`, `TopOnNonEmpty`, `EntersAfterAll`, `CountersBelowQueue`, `OwnOnTop` | hold |
| `mutual_halt` | 2 nodes, both prompted, file with 0 | `StopsAfterThreeZeros` | holds |
| `mutual_exclusion` | 2 nodes, both prompted | `MutualExclusion` | **violated**: both are in the critical section |
| `transceiver_stream` | 2 connections; messages of 1 and 3 units, and of 2 and 1; buffer of 2; closeReceiver at any time after a control message | `TypeOK`, `NoHalfMessage`, `NoLostWakeup`, `TerminatesOnlyIfLate`, `ImplementsLossyChannel`, `Served`, `Closes` | hold |
| `election` | triangle of a candidate and two voters; two calls or campaigns; one voter learns of the termination time at any moment | `TypeOK`, `NoFutureTime`, `ConsistentCut`, `OncePerNumber`, `ImplementsSnapshot` | hold |
| `snapshot_past` | triangle with two candidates, four calls | `PastReachesCopy` | **violated**: a VoteMe that a voter passes on does not reach its past copy |
| `prompt_snap` | a prompt that knows two nodes | `SnapIsNotStart` | **violated**: the order for a snapshot does what the order to start does |
| `xml` | small documents, printed and parsed; two messages and the orders of the prompt, cut anywhere; address and graph files; values to decode; a pool and a buffer | `WellLinked`, `PoolsCount`, `ImplementsForest`, `PrintKeepsTree`, `ParseLeavesNothing`, `MessageSurvives`, `PieceIsNoMessage`, `OrderTakesEffect`, `BiggestIsHighest`, `ImplementsDecoder`, `PoolHandsOutOnce`, `BufferHoldsOutput` | hold |

The five violations are the findings of `PROJECT.json`; each quotes the comment
or the text of the program that says otherwise. `xml` is one run for modules that
do not interact in time: the variable `part` picks which of them moves in a
behaviour.

**Bounds.** The echo runs have no bound beside the system: a wave sends finitely
many messages. A triangle is the smallest graph in which explorers cross and a
node has a neighbour that is not on its way to the origin; the complete graph of
four is the smallest in which the shared entry misleads a node (the three
counted messages come from two waves); five nodes allow a node with one
neighbour beside two cycles. The mutual exclusion never ends (every message is
answered by a request), so `MaxClock` stops the model where a clock would exceed
it. 11 is enough for three nodes to enter, leave and go on after the RELEASE
arrived in either order, and 16 for two nodes to read zero three times, for the
stop to arrive and for the writer to break down; the coverage shows that every
action fires. Three nodes are the fewest with a third party that has not asked.

With a buffer of two units, sizes 1, 2 and 3 are a message smaller than the
buffer, one that fills it (the reader waits for the next) and one that needs two
reads. Two connections and two descriptors are enough for an entry behind the
walk, an entry that the walk jumps over, and a number used twice. The model has
no other bound.

The election is bounded by `MaxCalls`: candidates call again for ever, the model
stops where another number would be drawn. Two calls let a campaign and a VoteMe
cross, and a termination time of 5 passes in the middle of them. The identifiers
1, 2 and 4 have a gap, so there is one candidate; `snapshot_past` has two.
`Informed` has the termination time from the beginning, so that the properties
speak of copies; the other node learns of it in time or too late.

Three nodes (`DocumentNodes`), at most two elements, a text and a declaration of
them, and one attribute give every shape that an
operation on a list can meet: an empty list, the first, the last, the only node,
a move within a list and between lists, a node below another, and one that is in
no list. Comments, CDATA and unknown nodes take the same actions and are not
instantiated. The messages have no vector times, or one of a node and one that is dropped; their
contents are a carriage return, a number and an entity, or a blank only, or those of
the orders; fifteen cells hold them and
the node of one closing tag. Where a step needs more cells than there are, the model stops
(`HasCell`, `HasCells`): 8, 2 and 2 for the three parts of a message. 2400 values
are put together from plain bytes, line ends, markup cut short, entities and
numbers at each length of UTF-8; `UINT_MAX` is 2^24 - 1 there, because TLC's
integers have 32 bits. Files have up to two graph lines and four addresses,
malformed ones among them. A pool has two blocks of two items and an array that
moves for the second block; the buffer starts with two bytes and moves once or
twice until seven are printed.

**Deadlock** is not checked: all runs end, nodes leave their loops or wait for
messages, and that is how the system ends.

**Fairness.** `FairSpec` has weak fairness of `loop(n)` for every node: a node is
a process of its own whose loop blocks only while its queue is empty, and
whichever message it takes, its handler ends. Nothing is assumed of `Crash` and
`Lose`, and nothing says that messages of a busy node are taken in any order.
In `Transceiver` it has weak fairness for each thread: the accept thread, every
reader, the loop, and `closeReceiver`. Peers need not send or close, and nothing
relies on a spurious wakeup. `Served` allows that messages are left when the node
stops, and `Closes` that the process terminates.
The mutual exclusion has no liveness property: with the youngest request on top
and unbounded traffic the code promises none. Nor has the election, which goes on
for ever; the modules under `MCXml` are sequential and end.

## 4. Proofs

TLAPS checks the following for every value of the constants that satisfies the
named assumptions.

`EchoWaveProofs`. Assumptions: node set finite, neighbour relation symmetric,
irreflexive and connected (`NeighborsAssumption`: what `addEdge` guarantees and
what the graph files add), and, where a theorem needs it, `SingleOrigin`: no two
orders of waves share a number. `echo_collision` shows what happens without it.
The inductive invariant `WaveInv` adds to the types:

* `OrdersFirst`: an order waits only while its wave does not exist;
* `WaveMessages`: a message under way is the one that its sender sends over this
  edge, an echo exactly on the edge the wave came from;
* `Parents`: a wave came from a neighbour that has it, or from an order;
* `Counted`: behind every counter stands a set of neighbours that have sent all
  they ever send to this node and whose messages have been handled;
* `Rooted`: no set of nodes has all its first neighbours inside itself.

A message sent on an edge is either under way or counted, so counting to the
degree means that all neighbours have sent and are silent: that gives
`NothingForCompleted` and `OneMessagePerConnection`. `FeedbackSound` needs
`Rooted`: were some nodes not complete when the origin is, then each of them
would have a first neighbour that is not complete either. A loss only takes
messages away, which none of the parts minds. Proved: `TypeOK`,
`OneMessagePerConnection`, `EchoHasEntry`, `NothingForCompleted`,
`FeedbackSound`, `NeighborsShuttingDown`, `TimeEverywhere` and
`QuietWhenShuttingDown`; and for every wave (`Traced`) that `Init` implies
`Feedback`'s `Init` and every step is a step of `Feedback` or a stutter.

`MutualFileAccessProofs`. Any number of nodes, any neighbours (not even
complete), any prompts, any file, any `MaxClock`. Three invariants:

* `TypeInv`: types, the queues are finite, application messages come from
  other nodes;
* `AskedInv`: whoever is counted by anybody, or told of by a message, has a
  request in its own queue, and keeps one for ever. Hence `EntersAfterAll`, and
  `TopOnNonEmpty`: an ACK or RELEASE only comes to a node that has asked;
* `ClockInv`: no clock is behind a stamp it gave or has seen, and a request
  under way is not yet in the queue it goes to. Hence `OwnOnTop` (the last push
  of a turn has the greatest stamp) and `CountersBelowQueue` (push adds an
  element that is new, remove leaves no positive counter).

`HaltInv` (a stop under way or done is preceded by a third zero) gives
`StopsAfterThreeZeros`.

`TransceiverProofs`. Any connections, sizes, buffer and descriptor numbers; no
assumption but that sizes, the buffer and descriptors are positive and 0 is not
the name of a connection. Three invariants:

* `TypeInv`: types, and a reader pushes only a text that is not empty;
* `CloseInv`: while the node runs no reader ends, so a number is given once and
  the map agrees with the sockets (`Running`); if nobody was entered late, every
  reader is in the map and those that the walk has passed are joined (`Walked`).
  Hence `TerminatesOnlyIfLate`; and with `Held` (a connection that is not accepted
  has no reader) `NoLostWakeup`;
* `OrderInv`: text and stream of a connection are sorted, the text comes before
  the stream, and strictly before it when the reader is about to push: a read
  that is not continued has emptied the stream. Hence the refinement of
  `LossyChannel`: `Push` delivers the least number under way and loses those up
  to the greatest in the text; all else but `sendTo` and `Pop` stutters.

A fourth, `WholeInv`, counts: of every message of which a unit is in the text or in
the stream, all units are, as many as its size. A send adds a message that is
nowhere yet, a read moves units from the one to the other, and by `OrderInv` a text
that is pushed shares no message with the stream, so it takes all units of those
that it has: `NoHalfMessage`. What may be pushed is several messages at once.

`SnapshotProofs`. Any nodes, any termination time, any application. `Inv` adds to
`LocalTimeIsLargest` and `NoFutureTime`:

* `AllDominated`: every vector time has a largest entry, carried along to save an
  induction over the nodes;
* `MarkedLate`, `CutKnown`: a node with a copy has passed the termination time, and
  its copy has seen nothing that has not happened;
* `Gap`: once p has a copy, what anybody knows of p is either done by the copy or
  later than the termination time, since p's clock jumped over what is between;
* `Below`: if the time was known everywhere in time, a copy has seen of others
  only times before or at the termination time.

`Gap` and `Below` together give `ConsistentCut`: what a copy has seen of p is not
later than the termination time, so p's copy has done it.

`ElectionProofs`. Any graph (connected or not), any candidates, recall period,
opinions and number of calls; the opinions are levels from 0 to 100 and the period
is not 0 (`CandidateAssumption`, `NumberAssumption`). Two invariants:

* `Inv`: types; a node's own time is the largest it knows, every message's time
  has a largest entry; there is a copy exactly when there is the copy's time; and a
  message is `Addressed` well: an answer goes to a candidate, what a voter gets
  carries a number and a candidate. `Ready` follows the record a node works with
  from one operation to the next: its clock has only grown at its own entry, and
  what it sends is stamped on that way or not at all. A voter that passes the
  message on rewrites its time before NodeCore compares it, but only upwards
  (`StampFacts`): the copy may miss a message, it never gets one too many. Hence
  `TypeOK` and the refinement of `Snapshot`, one lemma per action. `NoFutureTime`
  and `ConsistentCut` of candidates and voters follow: `Abstract`, an instance of
  `SnapshotProofs` under the mapping, has them as theorems about every behaviour
  that `Snapshot` allows, so nothing of the argument about cuts is repeated here;
* `OnceInv`: numbers under way are drawn, and a voter has recorded the number of
  whatever it has under way (`UsedUp`). What a turn sends is new against both
  (`Fresh`), a voter's two letters of one turn differ in content. Hence
  `OncePerNumber`.

`XmlProofs`. Any cells, kinds and values; node set finite, `Document` and
`Null` are no nodes (`NodeAssumption`), what is made is a kind and a value, `Null`
is none (`ValueAssumption`) and not the content of a node (`ContentAssumption`).
The invariant of the documents grows in three steps:

* `Sound` (types of the pointers and `IsWellLinked`) is inductive as it stands: the
  lemmas say that it survives unlinking, linking at each place, freeing a set that
  is closed downwards, and changes that touch no pointer. What is below a set is
  shown to be closed (`BelowClosed`) from its definition as the least such set.
  Hence `WellLinked`;
* `Counted`: the counters of every pool are the cardinalities of the nodes of that
  pool, and of those in no list. Within an operation this is wrong for the
  nodes that are on their way, so the lemmas are about `CountedBut(d, X)`: making a
  node, `InsertChildPreamble`, unlinking and freeing each move nodes into or out
  of X. Hence `PoolsCount`;
* `Listed`: the children of each parent are a sequence without repetition whose
  neighbours the pointers name, and it is the one that `ListOf` walks (`TheList`:
  there is at most one, and the walk finds it). Unlinking is that sequence without
  one place, linking is it with one more, and a cut leaves the lists of what
  stays; what is below a set by the pointers is what is below it by the lists.
  With `Valued` (a node in use has a value) each operation is shown to be the one of
  `OrderedForest` that has its name (`NamesAreKept`), and so every action is one of
  that module or a stutter. Hence `ImplementsForest`, which is a theorem for every
  client.

For the parser, the markup and the decimal forms of the numbers are symbols, and a
number is a symbol like no other and no null pointer (`MarkupAssumption`,
`NumeralAssumption`).

* *The parser, any text.* `Hanging(d, P)` says that d is sound and counted, and that
  the allocated nodes are those of P, in no list, and what is below P or below the
  document. `ParserInv`: `parsed` hangs so with the elements whose calls have not
  returned for P. Each step takes a node into P, inserts one of P, or drops one.
  When the parse has ended P is empty: `ParseLeavesNothing`. Every place that a
  scan returns is behind the one it was called for, which gives `ParserAdvances`,
  a property that is proved only: so a parse ends.
* *What the tags say, any text.* `TagInv`: an element that is open was opened by a
  tag in the text, and one that has something below it was closed by one, both
  with its name.

`MessageProofs`. Any messages of numbers, finite maps of vector times and contents
without a NUL and with one symbol for a line end (`MessageAssumption`); the names of
the fields are words (`NameAssumption`);
for the prompt, any nodes, numbers and typed times (`PromptAssumption`).

* *The writer.* `WriterInv`: while the document grows it hangs, with the root of the
  message and the element of its vector times unlinked, and every other element
  has the name of a field (`Growing`); at the end all of it is below the root
  (`Written`). The vector times are any finite map, so this is an invariant of the
  loop.
* *The printer.* `PrinterInv`: the text begins with `<` and the form of the message,
  and in what follows each `<` begins a tag of a field (`Started`), until the root
  is closed (`Finished`): attributes and texts are printed with their entities, so
  they have no `<`.
* *A piece.* A piece that is read as a message has an element with the name of
  a form and something below it (`ReadingNeeds`), so by `TagInv` a tag that opens it
  and one that closes it. In the text of a message there is one of each, at its
  beginning and at its end, so the piece is all of it (`PartIsWhole`):
  `PieceIsNoMessage`.

`MessageSurvives` says more, that printer, parser and `MessageFactory` undo each
other, and this needs to know what each of them has made at any moment.
`SurvivalInv` adds four invariants to the ones above:

* `TreeInv`, the tree that is written: `IsTree(d, m, o, r, x)` lays a document down
  from the message m, whose times come in the order o, up to the cells its nodes
  are in: r has an attribute and five elements, each with its text, and the fourth
  has one element for every time. `ListStage` is what is there of it during the loop
  over the times; the loop takes the least one that is left, so o is what was taken.
* `PlaceInv`, the printer's place in it: `PrintsOn` says for every node of the tree
  and every stage of its printing what the output is. The text is told from the
  front: `HeadLine`, `TextA` to `TextD` and `MessageText` say which symbols are where,
  and an output that only grows keeps what is said of it (`Grown`).
* `SentInv`: what is sent is the text of the message (`AllPrinted`).
* `ReadInv`, the parser's place in that text: for every line of it (`AtLine`: the
  tag that opens, what is between, the tag that closes) `ReadsMessage` says what the
  parser has made of the lines before, which is the first part of such a tree
  again. In the end it is the whole one, with no text for a content that is
  blank (`TextRead`).

A piece that has all but blanks of the text still has every line (`WholeIsMessage`),
and what `read` finds in a tree laid down by m is `asRead(m)` (`TreeIsRead`; the times of
positive identifiers are all there, `TimesAreRead`): hence `MessageSurvives`, for
messages with any number of times. If the content is blank the tree has no text for
it, and the same lemma gives `BlankIsFatal`: the process that reads the message
ends.

The prompt sends such a message when nothing else is on its way (`PromptKeeps`).
`OrderInv` keeps which message an order sends, so with `PieceIsNoMessage` and
`MessageSurvives` the node has just that message, and what it does is a matter of
which words are equal (`EffectOfOrder`): `OrderTakesEffect`. The theorem is about
the orders to start, to halt, to send an echo and to set a time that an int can
hold. It leaves out `snap`, for which no node has a case: `SnapIsNotStart` says that
it does not do what `start` does, and `prompt_snap` refutes it.

`SequentialProofs`. Four machines, each with its own specification.

* `StrPair`, any values of bytes (`TextsAssumption`): `InPlace`, no write passes
  the read pointer, and what is not yet read is as it was. Each action writes at
  most as many bytes as it reads, for a number because a UTF-8 form has at most
  four bytes and a reference with a digit at least as many; one without digits
  stands for a single byte. And `ImplementsDecoder`: what is before `q` is what was
  decoded, what is from `p` on is what is left, and a step takes the bytes that it
  reads from one and puts those that it writes behind the other (`StepTakes`).
  Where `Decoder` finds a number, the code finds one reference and no other
  (`ReferenceOf`: a digit is no semicolon). The digits counted from the first make
  the number that the code adds up from the last, scaled with the width of an
  unsigned int, if the number fits in one (`SumsMeet`; `WidthAssumption`: the
  highest character fits), and reading its UTF-8 form gives it back
  (`FormOfCharacter`). The two sums are functions on numbers, about which the least
  counterexample can be found (`Upwards`), so this needs no induction over texts;
* `PrintBuffer`, any strings and any initial size (`BufferAssumption`): the array
  has what was printed and a 0 behind it, and `size` is one more than the length
  of the output. `Push` takes that 0 back before it adds. The growth of the
  array keeps every cell that is in use. Hence `BufferHoldsOutput`;
* `MemPool`, finitely many blocks of any size (`PoolAssumption`): the free items are
  a ring from the root to the null pointer (`IsRing`), every item of a block is
  either in it or handed out, and the array names the blocks there are. That the
  ring has no part of its own is said of every subset of it, since a walk cannot be
  induced over. A fresh block is a ring, by its numbering; taking the first and
  putting one in front keep a ring. Hence `PoolHandsOutOnce`;
* `Startup`, any files: `BiggestIsHighest`. The graph is symmetric after every
  `addEdge`, also of a node to itself, and from `askAddresses` on the listener has
  an entry, so the number of entries is one more than the number of nodes.

**Only model-checked.** `AllStop`, `Served` and `Closes` are liveness and beyond
the prover. `PrintKeepsTree` says of any document what `MessageSurvives` says of
that of a message: it is an induction over the tree, whose definition is recursive.
Refuted, hence not proved: `MutualExclusion`, `PastReachesCopy`, `SnapIsNotStart`,
and the two echo properties without their assumptions.

## 5. What is not modelled

`PROJECT.json` lists every component with its status. Left out are:

* *Transceiver*: the sender's cache of sockets, which only the main thread uses
  and which never gives one up; the exit by `errno` (above). Name resolution is
  taken to succeed.
* *Snapshot*: a second termination time. It takes the mark away and makes another
  copy, while the first may still be owed messages; the code says nothing of what
  the two are together.
* *Election*: the campaign waves of `Election` lose nothing and no node stops; that
  a wave survives losses and stops is checked in `EchoWave`.
* *Mutual exclusion*: with a termination time its prototype, which returns the
  object itself, would be processed twice. The file is its first line: it has nine
  digits after the first write, and nobody reads the second. A read of one process
  that meets a half finished write of another is left out; `mutual_exclusion`
  shows that they meet.
* *tinyxml2*: what nothing in the program calls (visitors, handles, files,
  comparison and conversion of values, collapsed white space, the compact form),
  line numbers and the texts of errors. In `XmlDom` the
  memory of a node is a cell of its pool; the free list is in `MemPool`.
* *Initiator*: what becomes of a wave whose termination time no int can hold (`stoi`
  throws where it ends), after it has been started.
* *Listener*, the unused transceiver and queues, logging, exception types: they
  keep no state, or nothing creates them.

## 6. What could follow

* A composition of mutual exclusion and shutdown wave: what becomes of a node in
  the critical section when a wave passes.
