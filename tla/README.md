# distributedP in TLA+

distributedP is a C++ library for programs ("modules") that run as separate
processes, find each other by address, exchange JSON messages over TCP, answer
HTTP requests, share a Mongo database and start further modules. This directory
holds TLA+ models of it, TLC configurations that check the models on small
instances, and proofs of the results that matter most for instances of any
size. `PROJECT.json` lists, for every definition, the lines of the source it
models, for every property a mistake in the code it would detect, and the
hazards the properties are aimed at. Paths below are relative to `src/src/`.

## 1. The system

| Component | State it keeps | Operations | What makes it correct |
|---|---|---|---|
| `Module/PeerManager`: connections | table of peers, per connection a receive thread, a heartbeat thread, `registered`, `thisPeeruri`, the flag `isDone` | listen, accept, dial, register, heartbeat, `sendJson`, detect the end, `DelPeer`, quit | the table agrees with the connections; a peer registers before it is heard; a dial that says true is registered; when a dialler stops spinning, and when dead peers leave |
| `Module/PeerManager`: the mutex of the table | `mutex_peers`, the buffers of the sockets | `sendJson` writes with it kept, `addPeer` and `DelPeer` take it | nobody keeps it who does not write; who waits for whom, and what ends it |
| `Module/PeerManager`: messages | list `messages`, request `amWaitingFor`, condition variable, handler | `receive` files a message, `messageHandler` pops one and calls the handler, `waitFor` blocks for one reply | one owner of the request, replies that fit, order, nothing duplicated or lost unnoticed, every wait ends |
| `Module/PeerManager`: frames | `fullBuffer` of a receive thread, socket buffers | `send` between two beacons, `recv`, search, cut | every frame comes out once, in order, whatever the pieces |
| `Module/ModuleSkeleton` | configuration, parameters, `myUri`, handlers, servers | `initSkeleton`, `createTcpPeerManager`, `createHttpServer`, `createFileServer`, handlers for GET, POST, JSON, signals, `spawnLocally` | the address given out is the one listened on; what is served while the start goes on |
| `utils/Pagedownloader` | the connection to a download server | `requestPythonDownloader`, `downloadPageHttp` | one reply ends one call |
| `http/HTTPServer` | per connection `connection_info_struct` | callbacks of libmicrohttpd | a POST is handled once, whole or, if refused, its beginning; memory is returned |
| `http/FileServer` | a root, a subdomain | list a directory, read a file, save one | links lead to what they name; an answer tells what the path was |
| `http/HTTPClient` | the bytes received so far | one request | what is returned for a whole, a broken and a late body |
| `database/MongoDatabase` | one client of the server | `query`, `insert`, `insertIfNotExist`, `update`, `updateOrInsert`, `upsertMany`, `remove` | bounded duplicates, documents that are there when a call says so |
| `types/ModuleUri` | five fields and their text | setters, `assign`, `isTheSame` | the text tells a peer what the fields say |
| `types/MessageQueue` | a list and a mutex | push, pop, size, print | first in, first out; what a pop of an empty queue does to the others |
| `types/JsonObject`, `utils/Configurations` | a parsed text | parse, get, set | thin layers over jsoncpp |
| `utils/StringModifier` | none | base64, URI encoding, two editing functions | conversions can be undone; which loops end |
| `utils/Logging`, `DateTime`, `IP`, `Bash` | a log file | output, operating system | - |
| `ContainerApi/` | - | Docker over HTTP | in no build, does not compile |

How they interact. A program derives from `ModuleSkeleton` and calls
`initSkeleton`, which creates the singletons `PeerManager` and `HTTPServer`;
their threads call back into the skeleton, and the skeleton calls the handlers
the program has set. Threads of one process share the table of peers (under
`mutex_peers`), the list of messages and the wait request (under
`mutex_messages`), and the sockets (`sendJson` writes under `mutex_peers`, the
heartbeat thread without). Processes share TCP connections and the database.
`Pagedownloader` is built from `sendJson` and `waitFor`. The directories
`messages/` and `targets/`, which the code includes, are not in the repository;
messages are modelled by how the code uses them. libmicrohttpd, libcurl, mongoc,
jsoncpp and TCP are external and modelled by how they are used.

What is hard in it: threads that interleave between two critical sections (every
check followed by an act: dial, wait, insert); a condition variable used without
a predicate; a timeout that meets a late reply; connections that end, on one
side, unnoticed, or while they are being set up; entries found by address where
two connections may have the same; frames torn and mixed in a byte stream;
threads that start before what they read is written. The hazards are listed,
each at its line, in `PROJECT.json`.

## 2. The modules

| Module | Models | Checked by | Proofs |
|---|---|---|---|
| `Mailbox` | what a module promises its program about messages: an inbox in order, one request, its answer | `dispatch` (as a property) | refinement |
| `MessageDispatch` | `PeerManager::receive` (dispatch), `messageHandler`, `waitFor`, `handleTcpJson` | `dispatch`, `dispatch_in_time` | `MessageDispatch_proofs` |
| `PeerManager` | dialling, accepting, registration, table of peers, ends of connections, crashes, restarts | `peers`, `peers_stale` | `PeerManager_proofs` |
| `SendLock` | `mutex_peers` and blocking writes: `sendJson` against `addPeer` and `DelPeer` of both modules | `locks` | `SendLock_proofs` |
| `Channel` | what one direction of a connection promises: messages in order, once each, none passed over but those that ran into others | `frames` (as a property) | refinement |
| `FrameStream` | `send` and the loop of `receive` over a TCP stream | `frames` | `Delivery_proofs` |
| `PageRequest` | `requestPythonDownloader`, composed with `Mailbox` | `pages` | `Delivery_proofs` |
| `HTTPClient` | one transfer of `postRequest` | `pages` | `Library_proofs` |
| `FileServer` | `handleGetRequest`, `saveStrToFile` and the file system they share with others | `pages` | `Library_proofs` |
| `SavedPages` | `downloadPageHttp`: `HTTPClient` and `FileServer` composed | `pages` | `Library_proofs` |
| `ModuleSkeleton` | `initSkeleton`, what serves meanwhile, handlers, signals | `start`, `start_early` | `ModuleSkeleton_proofs` |
| `Spawn` | `spawnLocally`, `rand` and the new module that reads its file | `start` | `ModuleSkeleton_proofs` |
| `MongoDatabase` | the write operations of several clients on one collection | `database`, `library` | `MongoDatabase_proofs` |
| `KeyMap` | what `MongoDatabase` promises to a single client: a map from keys to documents | `library` (as a property) | refinement |
| `HTTPServer` | `answer_to_connection`, `iterate_post`, `request_completed` | `http` | `HTTPServer_proofs` |
| `MessageQueue`, `ModuleUri`, `StringModifier` | the passive classes | `library` | `Library_proofs` |

The split follows what the parts share. `PeerManager` and `MessageDispatch`
share one function, `receive`: a message that `PeerManager` takes from the wire
in `ReceiveOther` is what `Receive` of `MessageDispatch` dispatches. `SendLock` is
a closer view of the same connections: in `PeerManager` a `sendJson` that has to wait is
in one state until its `write` ends, in `SendLock` it puts in what fits and the receive
threads, which have a state of their own for `addPeer` and `DelPeer`, make room. `FrameStream`
is below both: it justifies that `wire` is a sequence of whole frames in
`PeerManager`, but for frames of two writers that mix. `PageRequest` uses the
abstract `Mailbox` instead of the threads, which is sound for safety because
`MessageDispatch` is proved to implement it. `SavedPages` composes `HTTPClient` with
`FileServer`: the step in which a transfer returns opens the file it is saved to.

### MessageDispatch and Mailbox

An action is one critical section of `mutex_messages` or one step between two.
`Receive` is the block `PeerManager.cpp:209-222`: the message is the reply that
`amWaitingFor` asks for, and goes to its slot, or it goes to the list, and
sleepers are notified. `waitFor` is `WaitForClaim` (404-422), then turns of a
loop: `LoopTop` computes the remaining time outside the lock and goes to sleep or
gives up; `TakeReply` and `WakeInVain` are what follows `wait_for`, whether
notified, timed out or woken spuriously; `GiveUp` deletes the request. `Elapse`
is the moment `time0` has run out. `messageHandler` is `PopMessage`, `HandOver`
or `Drop`, `EndHandler`; the handler may itself call `waitFor`, so the handler
thread is one of the `Threads`. A message is its sender, the value of the field
that is compared, and its place in the order of arrival; `isWaitResponse` parses
and compares, and its result is what the model keeps. History variables
(`since`, `until`, `sleptAt`, `handled`, `dropped`, `returned`, `lost`) are read
by properties only.

`Mailbox` has four actions: `Arrive`, `Deliver`, `Ask`, `EndAsk`. The refinement
maps its inbox to the popped message followed by the list, so popping is
invisible, and its request to the wait request together with the thread inside
`waitFor`.

### PeerManager

One state per connection end: the receive thread (`rx`), `registered`, the heartbeat thread,
`peerUri`; one per connection: the dialling thread and its `isDone`; one per module:
`writing`, the `write` inside which a `sendJson` keeps `mutex_peers`. `sendJson` returns at
once if there is room, or waits; `WriteEnds` is its return. While it waits, everything that
takes the mutex waits: `ReceiveRegister` (`addPeer`), `RecvClosed` (`DelPeer`),
`CheckConnection` and other calls of `sendJson` (`Free`); the heart beat takes no mutex.
`addPeer` makes an entry also of a registration that does not parse
(`PeerManager.cpp:27-29`): an `OwnUri` of `NULL` stands for a module whose text does not,
its address is the default one, and a connection that ends before it has registered calls
`DelPeer` with the default one too (170). `CheckConnection` and `Connect` are two steps
since `createTcpConnectionTo` holds nothing between them. The dialler spins until `isDone`
is set; after the receive thread has freed it (`NotifyDisconnect`) the read is undefined,
and the model lets the spin end or go on at will. TCP gives each end a stream that is cut
short when the other process dies. A cut link tells neither end; an end notices when it
writes (heartbeat) or when it has asked for keep-alive probes, which only the dialling end
has (`PeerManager.cpp:266`). `Faults` names the modules that may crash and the connections
that may be cut, `Kinds` what a module's program sends, and `Dials` who may dial whom over
which connection.

### SendLock

Text is counted in units; TCP holds `Capacity` of them for each direction. The mutex is
a variable, since `sendJson` keeps it from one `write` to the next; `addPeer` and
`DelPeer` take it and give it back in one step, so that a receive thread only ever waits
for it (`rx` is "adding" or "deleting"). `Write` puts what fits; a blocked writer waits
for `Recv` at the other end. The heart beat writes without the mutex
(`PeerManager.cpp:244`). Which entry of several for one module is found or deleted
is left open; `PeerManager` says which. A `Knot` is a set of senders each of which waits
for a receive thread that waits for the mutex of one of them: a module connected to
itself, two modules, a ring of any length, and what hangs on these.

### FrameStream

Bytes are tokens: two for each beacon and two for the text, so that a beacon and a
text can be torn. `log`, which only properties read, is every byte written, as its
frame and its place in it. A write that does not fit in the socket buffer blocks half way,
and the other writer's bytes may come next, which is what happens when the
heartbeat thread writes without `mutex_peers`. `find`, `index0`, `index1` and
`afterMessage` are the search of `receive` (178-234).

`Channel` is the promise: `Put`, `Take`, `Lose` and `Spoil`, without bytes, buffers or
threads. A message is put when the first byte of its text is written, and its place is
that byte's in the log, so `Texts` are the messages put and `UnderWay` those behind `Cut`,
which is what has left `fullBuffer`. Spoilt are the `Mixed` frames: those that a byte of
another frame got into, and the frames of such bytes. A cut is a `Take` if its text
parses, and a `Lose` if it does not; `send`, `Recv` and `EndOfLoop` are stuttering steps.
Outside the model: a text that contains a beacon, and a `write` that returns with a part
written (a signal), which `send` takes for a whole one (`PeerManager.cpp:308-313`).

### PageRequest

The call is three steps, `SendRequest`, `EnterWait` (or `WaitRefused`), and
`WaitReturns` or `WaitTimesOut`. The server answers in order, late or not, with
the page or without. `rightPage` is the comparison of the address in the reply (133); that
the page is then written to a file (134-136) is left out.

### HTTPClient, FileServer, SavedPages

A body is a sequence of pieces. `WriteCallback` appends one; `curl_easy_perform` returns
when the body is complete, or at any moment with a timeout or another error, and only
a timeout empties what is returned. (A body that ends with the connection, without a
length, and is broken off would be complete to libcurl; such bodies are not modelled.) The
file server looks at the file system several
times for one request (`isDir`, `lsDir` or `fileExists`, `readTextFile`, a step per piece), and
others may write, remove or make files and directories between two looks. A path is a
sequence of words and slashes: `getSubUrl` is the cut after the first occurrence of the
subdomain, `convertDirListToHtml` makes the links, and `Normal` is how a file system
reads a path: the slashes it does not heed are left out. `KindAt` is the exception: with a
slash at its end the name of a file is no name for `stat` and `opendir`, so the code says
NOT_FOUND of a file that is there. The system may refuse a look (`Denied`, `lsDirRefused`:
permissions, descriptors); a directory that cannot be opened is then taken for a file and
read as an empty one. The history variables `seen`, `disturbed`, `refused` and `saved` are
read by properties only.

### ModuleSkeleton

The main thread walks over the arguments; `handleConfig` yields the calls it has
still to make (`todo`), each of which is a step during which peers, requests and
signals may come. A segmentation fault is a step that ends the process and notes
which pointer it was.

### Spawn

A number from `rand` is its seed and its place in the stream, and different places hold
different numbers; what can collide are then streams begun twice with one second.
Everybody who seeds or draws is an action (`PeerManager.cpp:64`, `HTTPClient.cpp:30`,
`sendJson`, a log file without a name), and so is the clock.
`OpenFile`, `WriteFile` and `Execute` are the calls of `spawnLocally` in their order,
`parseFromFile` is the child, at any time later.

### MongoDatabase, HTTPServer

Every request to the database server is a step. `Failing` clients may get an error
for any request, documents of `Removable` keys may be removed by anybody. A query looks at
no error: one that fails, or whose document does not parse, has found nothing
(`Finds`; `MongoDatabase.cpp:51-60`), and the call inserts. The history variables `blind` and
`blindIds` are the clients about to do so and the documents made so. `KeyMap` is the
promise to a client that has the collection to itself: `insertIfNotExist` and
`updateOrInsert` are one step, that of the second request if there is one, and `map` is
the first document of each key (`Stored`). The HTTP
server's callbacks follow the order in which libmicrohttpd makes them; `heap`
counts what is allocated for a connection. `iterate_post` ignores the size of a piece and
assigns a C string (`HTTPServer.cpp:109-111`), so what it keeps ends at the first NUL
(`CString`); that there is a NUL behind a piece, as the library puts one, is assumed. What
`MHD_post_process` returns is ignored (222-223): once it has refused a chunk it passes on
nothing more, and `handlePost` gets what had been passed on. "Whole" is said of the pieces
that the library makes of a body. `malloc(sizeof(url))` asks for the size of a pointer, and
the `strcpy` behind it may write past it (217-218), which is undefined and left out.

### MessageQueue, ModuleUri, StringModifier

`MessageQueue` makes waiting for the mutex a state, as a pop of an empty queue returns
without unlocking (`MessageQueue.cpp:40-42`); `QueueToString` is its `ToString`. Nothing
initialises `p_mutex` (10-11), and nothing looks at what its lock returns, so `Init` chooses
what memory makes of it (`lock`): it works, it blocks for ever, or it keeps nobody out. In
the last case two calls may be inside at once (`Overlap`), and nothing is said of the list
from there on. In `ModuleUri` a text is a sequence of symbols (a letter, a separator, a
number); the `sprintf` into 1024 bytes (`ModuleUri.cpp:77-81`) has no bound in the code, and
names are taken to fit. In `StringModifier` bytes are numbers without a sign, which `char`
may have, so the shifts and masks of base64 are divisions and remainders; the editing loops
are actions, one turn a step.

Definitions named `..._Bug` are mistakes a programmer could make in the
definition below them. They are not part of the models; `PROJECT.json` pairs them
with the property that detects them.

## 3. What is checked

All runs are `tlc -workers 2 -config X.cfg M`, between two seconds and three and a half
minutes each.

| Run | Bounds | Distinct states | Shows |
|---|---|---|---|
| `dispatch` | 2 peers, 2 kinds, a program thread and the handler thread, 2 messages | 153 000 | the inductive `DispatchInv`, which implies `HandlerOrder`; `ReplyFits`, `Conservation`, `NotSleptOver`; `WaitReturns`, `QueueDrains`; `Mailbox` is implemented |
| `dispatch_in_time` | 1 peer, 2 messages | - | violated, see section 4 |
| `peers` | 2 modules that dial each other, 2 connections, one may be cut; A may crash and sends requests to quit, B registers with a text that does not parse, quits, comes back and sends messages; 1 frame on its way to an end | 199 000 | the inductive `PeerInv` with `RegisterFirst` in it, `TableCounts`, `DialTruthful`; `DialEnds`, `TableForgets` |
| `peers_stale` | both connections may be cut | - | violated, see section 4 |
| `locks` | a module that dials another and itself, one sender each, 2 connections, one may be lost, one module may crash; buffers of 1, messages of 1 or 2; or a ring of 3 modules and 3 connections | 72 000 | the inductive `LockInv`, `CrossedOnly`, `OnlyLossReleases`; `SendEnds` |
| `frames` | 2 writers, 3 frames, 5 tokens in TCP, reads of up to 4 | 345 000 | `StreamInv` (types, frames out in order, `UndisturbedArrive`); `Channel` is implemented |
| `pages` | 2 threads and 2 addresses; 3 requests to the downloader; or pages of 1 and 2 pieces over HTTP, saved to a file in a directory named like the subdomain, asked for with and without a slash at the end, any look refused | 1 063 000 | `PageInv`, `ReplyUsedOnce`; `ServedWhole`, `AnswerTruthful`, `ListLeads` |
| `start` | 10 command lines, 5 files, one port taken; or 2 modules that spawn 2 children, 2 seconds, 2 seedings and 2 numbers each | 368 000 | `UriTruthful`, `UriKnownWhenRunning`, `FilesServed`; `OwnConfig` |
| `start_early` | the same | - | violated, see section 4 |
| `database` | 2 clients, one of which may fail, 2 keys, one of which may be removed, 3 inserts | 1 848 000 | the inductive `KeyInv` (never more documents of a key than clients, but for those of a query that failed), `StoredOnReturn` |
| `http` | 2 connections, 2 requests each, bodies of 0 or 3 pieces, a NUL in one of them, any chunk refused | 159 000 | `PostWhole`, `HeapInv`, `Answered` |
| `library` | 2 threads, 3 pushes and every kind of mutex; 2 hosts, 2 names, 2 numbers; 2 800 inputs, texts of at most 5 characters; 1 client of the database, 2 keys, one of which may be removed by others, 2 values, 4 inserts | 142 000 | `FirstInFirstOut`, `EmptyPopIsLast`; `PeerLearnsUri`; `RoundTrips` (of base64 and of addresses), `ReplacesRest`, `EditingEnds`; `KeyMap` is implemented |

`pages`, `start` and `library` check parts that do not meet: the first state chooses one
of them, and the others' variables stay as they are.

Why the bounds are enough for the cases that matter. `dispatch`: two messages are one in the
slot and one that overwrites it, or one popped and one queued; two threads are the owner of
the request and the one refused, and one of them is the handler thread. `peers`: two
connections to one address are the least for which removal by address can hit the wrong
entry, and dialling each other gives a module an entry it dialled and one it accepted. One
frame on its way is the least room a `write` can wait for, and a registration already fills
it, so a `sendJson` waits for ever behind a peer that waits for its own mutex; A's entry for
a connection that B dialled has the default address. `locks`: a knot takes two connections,
a module connected to itself, or a ring, all of which occur, and a message longer than the
buffer is written in pieces with the mutex kept. The ring is bounded in `MCSendLock`
(`RingStep`): each sends two units at a time over the connection it dialled, there are no
heart beats, and connections are lost only when all three wait; its fairness,
`PlanFairness`, is weaker than `Fairness`, and what is checked under it holds under more.
`frames`: the TCP buffer is smaller than a frame and a read smaller than the buffer, so
every cut of a beacon and every mixture of two frames occurs, and the third frame follows a
spoilt one. `pages`: a late reply needs two requests, a refused call two threads; a page of
two pieces is the shortest that breaks off in the middle, and two threads may save to one
file. `start`: two seedings are the least that begin a stream twice, in one module or in
two. `database`: two clients race; a third insert needs a third document. `library`: four
inserts of the only client fill two keys twice, and two values tell an update from none;
base64 inputs leave 0, 1 or 2 bytes over and take values at the borders of every bit field;
texts of five characters hold two keys of two letters with something between, and the keys
that begin with a space are those for which `removePhraseAfter` does not end.

`CHECK_DEADLOCK FALSE` is in the configurations of systems that may stop: all
messages sent, the process ended, the queue's mutex kept.

### Fairness

* `MessageDispatch`: threads that can run do run (`LoopTop`, the wake-up that is
  due, `GiveUp`, `PopMessage`, `HandOver` or `Drop`), time passes (`Elapse`), and
  a handler that calls `waitFor` finitely often returns (`SF` of `EndHandler`).
  A spurious wake-up is possible and never due. `QueueDrains` needs the last
  assumption: one handler call that never returns stops the list.
* `PeerManager`: receive threads and the accepting thread run (`WF`), TCP notices a
  loss in the end, a dialler sees a flag that is set. If `mutex_peers` of a module is free
  again and again, one of the receive threads that wait for it gets it (`SF`, per module,
  not per thread). A `write` goes on when there is room (`WF` of `WriteEnds`), and nothing
  says that there will be: a module may keep its mutex for ever, which is what `SendLock`
  shows in detail. `DialEnds` and `TableForgets` except exactly that: a dialler that spins
  for ever on a flag not freed is one whose module is inside a `write` for ever
  (`addPeer` waits, so its own registration is never seen), and an entry that stays is one
  whose module never has its mutex free again (`DelPeer` waits). Not assumed: that anybody
  dials or sends, that a restart happens, that the read of a freed flag has any
  particular outcome; so `DialEnds` excepts it. A heart beat is written when there is room
  for it; one that has to wait keeps no mutex and is seen by nobody.
* `SendLock`: receive threads and the accepting thread run (`WF`). A thread that waits for
  `mutex_peers` gets it if it is free again and again, and a writer gets room if there
  is some again and again (`SF`): others compete for both, but sends end and heart beats
  are a minute apart. Nothing is assumed of connections, messages and faults, and
  `SendEnds` excepts the knots, and what hangs on one, that `CrossedOnly` describes.
* `HTTPServer`: libmicrohttpd, one thread, makes the calls that are due. That a client
  sends the rest of a body is not assumed: the daemon is started without
  `MHD_OPTION_CONNECTION_TIMEOUT` (`HTTPServer.cpp:54-57`), so a request whose body stops
  coming is neither answered nor cut short, and `Answered` speaks of those that have come.
  `StringModifier`: a loop goes on. The other modules are checked for safety only.

## 4. Where the code departs from what it says

Runs with a violated property:

* `dispatch_in_time`: `waitFor` looks at the time before it looks at the slot, and
  deletes the slot when the time has run out. A reply stored before that is lost
  and reported as "Did not receive response in give time interval"
  (`PeerManager.cpp:425-447`).
* `peers_stale`: `DelPeer` removes the first entry with the address of the closed
  connection, which may belong to another one that is open
  (`PeerManager.cpp:46-58`). `TableCounts` shows how far it goes: the number of
  entries is right all the same, and `TableForgets` that no entry outlives the last
  connection.
* `start_early`: `initOwnSocket` starts the accepting thread before `GetInstance`
  stores `ownUri` (`PeerManager.cpp:74-81`); a peer accepted in between makes it
  read NULL. `UriKnownWhenRunning` shows that it cannot happen after the start.

Seen while modelling, and built into the models as the code has them:

* `requestPythonDownloader` sends before it calls `waitFor`
  (`Pagedownloader.cpp:122-127`): a quick reply goes to the JSON handler, and the
  call waits for its timeout in vain.
* Two modules that send to each other over two connections, of which each has registered
  one, may wait for each other for ever, and so may more of them in a ring: each keeps its
  `mutex_peers` in `write` (`PeerManager.cpp:366-389`) while its receive thread waits for
  it in `addPeer` (36-40) and does not read. `CrossedOnly` and `OnlyLossReleases` say
  exactly when, and what ends it; `DialEnds` and `TableForgets` what else stands still.
* A registration that does not parse makes an entry with the default address, and every
  connection that ends unregistered removes such an entry (`PeerManager.cpp:27-29, 170`);
  `TableCounts` says that there are at most as many as there should be.
* What broke off in the middle of a body is returned and saved like a whole page
  (`HTTPClient.cpp:85-99`); `ServedWhole` says so.
* `postRequest` seeds `rand` with the second (`HTTPClient.cpp:30`), so two modules, or one
  module twice, may give two children one configuration file
  (`ModuleSkeleton.cpp:232-239`); `OwnConfig` says when.
* Two threads that pass `haveConnectionTo` together both dial
  (`ModuleSkeleton.cpp:219-226`), so there may be two connections to one address.
* "i++ < argc" holds for the last argument too (`ModuleSkeleton.cpp:100`): the
  branch that reports a missing value is never reached, and a flag without its
  value ends the process.
* A second configuration with another TCP port is warned about and then
  advertised (`ModuleSkeleton.cpp:142-146`), and so is the port of an HTTP daemon
  that did not start; `UriTruthful` says so in its conditions.
* `handlePost` tests `getHandler` and calls `postHandler` (`ModuleSkeleton.cpp:182-184`).
* An insert that fails is logged, and `insertIfNotExist` returns true
  (`MongoDatabase.cpp:38, 143`). A query that fails, or brings back what does not parse,
  reads as absent (51-60): each such call of `insertIfNotExist` or `updateOrInsert` adds a
  document.
* The pieces of a long POST value become parameters of their own, `urlStr` is
  allocated anew in every call and never freed, and `params` of a refused POST stays
  (`HTTPServer.cpp:99-117, 177-217`); `HeapInv` excepts the last two. A value with a NUL
  loses what follows it, and a body that the post processor refuses is handled in part
  (109-111, 222-223); `PostWhole` says so.
* The name of a file with a slash at its end is not found, and a directory that cannot be
  opened is answered with an empty page (`FileServer.cpp:58-72, 93-106`); `AnswerTruthful`
  says so.
* `p_mutex` of a `MessageQueue` is never initialised (`MessageQueue.cpp:10-11`).
  `FirstInFirstOut` and `EmptyPopIsLast` say what holds for each thing it may be.
* `removePhraseAfter` goes on from a position of the old text and may pass over a
  key (`StringModifier.cpp:49`); a key that begins with a space is found where it was, so
  the loop does not end (`EditingEnds`).
* `exeName` loses its last letter in `ModuleUri::assign`, and `SetProcessId` and
  `SetExeName` do not renew the text (`ModuleUri.cpp:53-63, 133-135`).

## 5. What is proved

`tlapm` checks the proofs for every value of the constants, from the named assumptions in
the modules: that the bounds are natural numbers, the handler thread is not a program
thread, a command line has a file after `-c`, an address leads to a module and a module's
own address to itself, there are finitely many connections and clients of the database, the
clock starts after second 0, a body is a finite sequence of pieces, host names have no ":"
and program names no "|" and neither is empty, what stands for a broken address does not
parse, the root and the files that pages are saved as are paths, neither a path nor the
subdomain of the file server ends in a slash, what is converted are bytes, what is looked
for in a text is not empty, and `NULL`, `None` or `Nil` is none of the values it stands
beside.

Two of these say something about how the code may be used. `FileServer` joins the root and
what follows the subdomain as they are (`FileServer.cpp:35-42, 58`): with a subdomain that
ends in a slash, and a root that does not, the links of the root's list lead nowhere; the
default root `./` stands as the path without its slash. `replaceTemplateWith` and
`removePhraseAfter` find an empty key everywhere and need not end then; nothing in the
repository calls them.

**MessageDispatch_proofs**, for any peers, kinds, threads and number of messages:
`DispatchInvariant` proves `DispatchInv` inductive; `TypeCorrect`,
`WaiterUnique`, `ReplyCorrect`, `NoMissedReply`, `OrderCorrect` follow from it,
`NothingTwice` proves `Conservation` with it, and `Refinement` shows that the threads
implement `Mailbox`. None of the properties is
inductive alone. `OneWaiter` links the request to the program counters:
without it two threads could own one request. `AnswerInv` says of the *slot* what
`ReplyFits` says of returned replies, and that it is newer than the call of
the thread inside, which needs `OneWaiter` to speak of one thread. `HandInv` says
that a message is in hand exactly between popping and handing over. `OrderInv`
says that `handled`, the message in hand and the list follow each other in the order
of arrival and that nothing is newer than the last arrival, from which the next one
is newer than all. `WakeInv` bounds the slot by what has arrived, so that a thread
that falls asleep now has seen nothing later. For `Conservation` the seven places are a partition of the
numbers given so far, and two lemmas say what keeps it one: some numbers go from one place
to another, or a new number comes to one; popping needs `OrderInv`, by which the rest of
the list does not hold the message popped. The refinement proof takes the
invariant before and after a step: `Waiter`, a CHOOSE, is the one thread inside by
`OneWaiter`.

**PeerManager_proofs**, for any modules, addresses, connections, faults and bound on the
stream. `PeerInvariant` proves `PeerInv` inductive together with `DialTruthful`. What has to
hold is `RegisterFirst`, that no end is sent anything before the registration of the other
one; alone it says nothing of a `sendJson` or a heart beat that writes to an end which has
read nothing yet. `AnnouncedInv` closes the gap: who reads an end has announced the module
at the other one before, so there is a registration in the stream or it has been read; and a
table holds only ends that are read. `OpenInv` keeps this true where connections end: an end
whose thread has gone is at its end of file, and so is the other one unless the network lost
the connection. `StageInv` ties a connection's stage to its threads, `DoneInv` says what a
set and a freed `isDone` stand for, from which `DialCorrect` follows: a dial that returns
true was registered. A `write` under way needs its part of `AnnouncedInv` too: it goes to an
end that was read, so what it adds later comes behind the registration. Restarts matter,
because a module that comes back may not touch the ends of its former life (`StageInv`,
`OpenInv`), and so do registrations that were in flight when a process died. `TableCorrect`
proves `TableCounts`: a registration adds an entry and a registered end together; the end of
a connection removes *an* entry with the address, not necessarily its own, and the count per
address is what survives that. For the default address only "at most" survives, as an end
that was never registered removes an entry too and is not counted itself (`Counts` is the
pair of both). It rests on three lemmas about `Append` and `RemoveAt` and a bijection for
the places behind the one removed, and on the connections being finitely many.

**SendLock_proofs**, for any modules, threads, connections and buffers:
`LockInvariant` (the mutex is kept exactly by a thread inside `write`, which writes to a
registered end of its own module; a thread in `addPeer` has not registered its end),
`CrossedCorrect` and the action property `DeadlockStays`, for knots of any size. A sender of
a knot writes to an end that is registered at its own side, while the thread of the other
end has still to register its own; so on one connection there are not two of them, and one
alone has a connection of which both ends are its module's (`HalfRegistered`). A knot stays
because what could release one of its senders, the receive thread, the mutex or room in the
buffer, waits for another one of them, blocked as well (`StaysBehind`); the proof goes
through every step that touches one of these.

**ModuleSkeleton_proofs**, for any command lines, configurations and ports:
`StartInvariant` (nothing is left to do after `initSkeleton`; a manager without an
address is told it by the very next call; a configured file server exists or is
still to come), hence `TypeCorrect`, `UriCorrect` (the address race is confined to
the start) and `FilesCorrect`.

`UriTruthful`, that a started module advertises the ports it listens on, needs more,
`UriInv`. A server gets its port by one call and the address by another one, so
`AddressInv` says what lies between: as soon as a server has a port the address has the
same one, or the call that puts it there is still to come. This is kept only because of
the order of the calls, which `PortsInv` states of `todo`: each names the port of the
configuration read last, each server comes before its port and the port follows it. Ten
lemmas show that `handleConfig` makes such a list for every configuration. The property
and the invariant are conditional on one configuration being named, as a second one
changes the address of a server that keeps its port.

For `Spawn`, with any modules, children, seconds and numbers: `OwnConfigCorrect`. The
invariant is that the numbers of one stream are behind its present place and
that two calls with one name belong to two streams; so a file without a second
owner holds what its call has written.

**Delivery_proofs**, first for any writers, frames and sizes of the buffers of a byte
stream: `ReceiveInvariant`, `StreamCorrect` (a message comes out once and in order) and
`ArriveCorrect` (when all is quiet, every frame that did not mix has come out).
`UndisturbedArrive` says nothing of a frame under way. The invariant `ReceiveInv` looks at
the whole history of bytes, `log`. `WritersInv` and `LogInv` say that what is written and
what is pending are the frames, byte by byte, each frame by one writer. `BufferInv` says
that `fullBuffer` and then the stream are the end of the log, and that `fullBuffer` begins
behind a closing beacon (`Cut # 0 => Byte(Cut) = -4`). `ArriveInv` is the heart: a frame
that lies in the log in one piece, at a place where every frame before is complete, has
come out or lies wholly behind the cut. The lemma `CutWhole` says that the search cuts out
such a frame as it is: an opening beacon that mixed frames left before it cannot reach
into it, since these frames have all ended, so behind the opening beacon the last of them
left a closing one (`LastBeacon`); hence the first opening beacon of a cut that ends
behind the frame's start is the frame's own, and so is the closing one. `IdleInv` adds
that the receive thread sleeps only if there is nothing to cut. The order of what comes
out needs only that it was written in this order: a text has one place in the log.

`ChannelCorrect` says the same at every moment: `FrameStream` implements `Channel`. What is
needed besides `ReceiveInv` is what a cut passes over. A frame whose text begins before the
new `Cut` and not before the old one, and which is not `Mixed`, lies in the log in one
piece, at a place where every frame before is complete (`UnmixedWhole`); by `CutWhole` the
search cuts out this very frame (`NotPassed`), and what it cuts out is the last text before
the new `Cut` (`TextFound`). So it is the one that comes out, and whatever else was passed
over is `Mixed`. That `Mixed` only grows (`MixedGrows`) and never has one member is about
the log alone: a frame that another one got into drags that one in. `OneWriterCorrect` is
the use of it: if one thread writes to the socket, `Mixed` stays empty, since the frames in
the log follow each other and all but the last are complete (`SoleInv`, `LogInv`). So all
that can spoil a stream is the second writer, the heart beat.

Then for `PageRequest`, with any threads, addresses and requests: `PageTypeCorrect` and
`ReplyUsedOnceCorrect`. `PageIInv` follows a request's number: no two
requests and replies on their way have the same one, what has arrived is no longer on its
way, and the answer a call is about to take is in no other place; so a late reply may end
another call, but each ends one at most.

**HTTPServer_proofs**, for any connections, bodies, chunks and number of requests:
`HeapCorrect` and `PostCorrect`. `HeapBalanced` and `PostWhole` are not inductive: they
say nothing of a request under way. `CallInv` does: one block of each kind is held, and
what `iterate_post` has collected is the beginning of what has come, each piece up to its
NUL (`Passed`), and all of it unless a chunk was refused. A chunk makes the beginning longer
(`PassedGrows`), if none was refused before; what `handlePost` gets is all of the body, or
the part before the refusal, because the whole body has come then. A lemma
reduces each action to the one connection it touches.

**MongoDatabase_proofs**, for any finite set of clients and any keys, values and faults:
`KeysCorrect` and `StoredCorrect`. Documents and inserts under way of one key are counted
together, without those of a query that failed (`blind`, `blindIds`), and each step keeps
the sum below the number of clients: another query announces an
insert only if there is no document, an insert takes the place of its announcement, an
upsert inserts only into nothing and its client has announced none. `CallInv` carries
from the query to the write of `updateOrInsert` that there is a document to update; it
needs `FreshInv`, that an insert hits no document, and that the first match is a match,
for which the order of the `_id`s has to be well founded. `MapCorrect` is about a single
client whose requests succeed (one that fails may insert twice): the collection implements
`KeyMap`. No query has failed (`SeesInv`), so by `KeyInv` there is then at most one document
of a key, and none while an insert of it is under way, so each request changes one key of
`Stored` (`PutStores`, `ReplaceStores`, `RemoveStores`) and the answer given at its end
still tells what the query found; `OpInv` adds that an insert under way belongs to one of
the two calls. An update whose document was removed in between is `Overtaken`.

**Library_proofs**, four parts. For `MessageQueue`, with any threads, messages and bound:
`QueueInvariant`, `FifoCorrect`, and `EmptyPopCorrect`, the action property that a pop of
an empty queue is the last step the queue takes. All three are for every mutex that the
uninitialised `p_mutex` may be: `FifoCorrect` says that order is kept by one that works or
blocks for ever, and by one that keeps nobody out until two calls overlap, after which
nothing is claimed; `EmptyPopCorrect` that only one that works can be kept by an ended call.

For `ModuleUri`, with any host and program names and numbers: `AddressInvariant` and
`PeerLearnsCorrect`. `PeerLearnsUri` is about parsing the text, which no step preserves by
itself; `UriInv` says which text it is: the one of an address with the host and the ports
of the fields, and of the fields themselves if neither process id nor program was set
since. Most of the proof is a lemma about one parse, that `assign` finds in the
text of an address its five fields, by finding the first separator four times; the program
comes back without its last letter, as in the code.

For `SavedPages`, with any paths, addresses, pages and threads: `PagesInvariant`,
`AnswerTruthfulCorrect`, `ServedWholeCorrect`. `SavesInv` is about the files: what a
transfer has received and what is left is a page (`TransferInv`), everything lies in a
directory and what is written to is a file (`TreeInv`), and a file with one writer holds
what that writer's download brought if the rest it has still to write is added, at the
place where it goes on (`AloneAt`); a second writer ends this for good until the file is
opened anew. `RequestInv` is about the file server: `SeenInv` says for each stage what the
path must have been since the request came, or that a look was refused, which makes the
answers truthful although the looks at the file system are separate; what the path is, it
is to this URL (`KindAt`), with its slash. `QuietInv` says that as long as nobody came near
the path nothing has changed since, nobody writes to it, and what was read is its
beginning. `ListLeadsCorrect` is about the texts of paths. A link is the URL asked for with
a slash and a name behind it, and the subdomain occurs in it first where it does in the URL
(`SameFirst`): the places before are the same, and no occurrence can end in the slash that
was added. `Normal` of a text with a slash and a name behind is that of the text with both
behind, whether it ends in a slash or not (`NormalEntry`), as the same tokens before them
are heeded and keep their number (`RankSteps`, `HeededMore`).

For `StringModifier`, with inputs, texts, keys and values of any length: `Base64Correct`
and `UriCorrect`. `FlattenSeq` is a fold; `FlatLaid` says where in its result each piece
lies, and `FlatBlocks` for pieces of one length. Base64 then comes down to one group of
three bytes, where the bits of quotients and remainders are put together again
(`QuadSplits`, `TripleJoins`), and to the last group, behind whose characters the first
`Pad` is found (`PadLast`). For `UriEncode` the reader must see where an encoded byte
begins: a percent sign stands only at the beginning of a piece, as digits and kept
characters are none (`ClearBefore`). `ReplacesCorrect` is the action property about each
turn of `replaceTemplateWith`. `Replaced`, what the rest should become, is a recursive
function; that there is one is an induction over the length (`ReplacedExists`), equal ends
of two texts become the same (`SameRest`), and between the old place and the one found the
text stays (`NothingSkipped`). These inductions are over a set of numbers (`UpTo`), as the
library's theorem cannot be used.

Only model-checked:

* all liveness (`WaitReturns`, `QueueDrains`, `DialEnds`, `TableForgets`, `SendEnds`,
  `Answered`, `EditingEnds`), since the prover handles neither fairness nor ENABLED here;
* the runs that find a violation, which are about one behaviour.

## 6. What is not modelled

* `JsonObject` and `Configurations` beyond what they yield: thin layers over jsoncpp, a
  parser that is not in the repository. `query` of `MongoDatabase` and `getListOfPeers`,
  which only read. `zCompress`, `zDecompress` and `getMd`, which call zlib and OpenSSL.
* `Logging`: output that no other part reads. Its singleton and its stream are used by every
  thread without a lock, which is undefined; nothing can be stated about what comes out.
* `DateTime`, `IP`, `Bash`, `Error`: the operating system and constants. Where they
  matter they are steps of a model (time running out in `waitFor`, the second that `rand`
  is seeded with, the command that starts a child).
* `ContainerApi/`: not listed in `makefile.vars`, and `DockerApi.cpp` passes a
  `const char*` where `HTTPClient.h:36-37` declares `unsigned long timeout`.
* The build files; `messages/` and `targets/`, which are not in the repository.
* The file that `requestPythonDownloader` writes a page to (`Pagedownloader.cpp:134-136`).
* Undefined behaviour inside one call: the `strcpy` behind `malloc(sizeof(url))`
  (`HTTPServer.cpp:217-218`), a `sprintf` that outgrows its 1024 bytes
  (`ModuleUri.cpp:77-81`), `char` with a sign in shifts and formats (`StringModifier.cpp`).
* Descriptors of sockets, memory outside `HTTPServer`, the text of log lines, the HTML
  around a list (`fillInHtml`), which `handleGetRequest` makes and does not return.

Hazards listed without a property are those where the code plainly does what is wrong
and the models take the step (a reply before the wait, a flag without a value, a message
dropped for want of a handler, a bulk that stops half way, a second port), and two that are
outside the models: descriptors and the log. `Conservation` counts a reply that was
overwritten or deleted (`lost`) and a dropped message as accounted for: it says that nothing
is twice or nowhere, not that nothing is thrown away.

## 7. Plan

Done, the most important behaviour first: `Mailbox` and `MessageDispatch` with proofs;
`PeerManager`; `FrameStream`; `PageRequest` over `Mailbox`; `ModuleSkeleton` with proofs;
`MongoDatabase`; `HTTPServer`; the passive classes, `MessageQueue` with proofs. Then
`SendLock` and `Spawn` with proofs, `HTTPClient`, `FileServer` and `SavedPages`,
and the proofs about `PeerManager`, `HTTPServer`, `MongoDatabase`, `FrameStream`,
`PageRequest`, `ModuleUri`, `SavedPages` and the address of `ModuleSkeleton`.

Last, the proofs about `StringModifier` and the links of `FileServer`, `Channel` with the
proof that `FrameStream` implements it, and `KeyMap` with the proof that `MongoDatabase`
implements it for one client. With these every invariant and action property
that a passing run checks is a theorem.

Left for extending: `PeerManager` composed with `MessageDispatch` (a request, a crash
of the peer and its reply in one behaviour), and a network of two modules that implements
an abstract one: a message sent over a connection that does not end is handled once, in
order.
