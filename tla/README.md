# A verification project for cellorigin

cellorigin is a game framework: a Go server built on the network library
*cellnet* (`server/src/github.com/davyxu/cellnet`) and a Unity client in C#
(`client/Assets`) that speak *sproto* messages to each other.  The TLA+
modules in this directory model the part of it that is concurrent: the
sessions of a connection, the peers that make and end them, remote calls,
timers and events through the event queue, and the client's socket with its
threads; and the sequential code in which two programs, or two parts of one,
have to agree: the schema compiler, the encodings and the registry of messages.

Paths below are relative to `server/src/github.com/davyxu/cellnet` unless they
start with `client/`.

## 1. The system

| component | source | state | operations | meets |
|---|---|---|---|---|
| send queue | `socket/evtlist.go` | a list under a mutex, a condition variable | `Add` (any goroutine), `Pick` (sendThread) | session |
| socket session | `socket/session.go`, `socket/handler_privatepkt.go`, `handler_fixedlenframe.go` | send queue, socket, `needNotifyWrite`, `endSync`, the serials of the packet reader and writer | `Send`, `Close`, `recvThread`, `sendThread`, the goroutine of `run` | network, peers (`OnClose`), chains |
| start and stop | `peerprofile.go`, `socket/base.go` | `running`, the channel `stopping` | `startStopping`, `waitStopFinished`, `endStopping` | both peers |
| connector | `socket/connector.go` | `defaultSes`, `closeSignal`, the reconnect interval | `Start`, `Stop`, the goroutine of `connect` | session, manager |
| acceptor | `socket/acceptor.go` | the listener | `Start`, `Stop`, the goroutine of `accept`, one `onAccepted` per connection | session, manager |
| session manager | `sesmgr.go` | map from id to session, the id counter | `Add`, `Remove`, `CloseAllSession` | both peers |
| receive chains | `handlerchainmgr.go`, `handlerchain.go`, `handler*.go` | chains by id, a cached list | `AddChainRecv`, `RemoveChainRecv`, the walk | recvThread, rpc |
| event queue | `queue.go` | a bounded channel | `Post`, the loop, `StopLoop`, `Wait` | everything that posts |
| remote calls | `rpc/` | one receive chain per call, `ret` channels, timers | `Call`, `CallSync` | chains, queue, session |
| system events | `extend/sysevent.go`, `event.go` | none | posting Accepted, Connected, Closed, ... | chains, queue |
| timers | `timer/` | `running`, the goroutines of `After`, ticks in the queue | `Start`, `Stop`, `NextLoop`, `tick` | queue |
| websocket peers | `websocket/` | sessions in a manager; no send queue | `Start`, `RawSend` with a goroutine per message, `recvThread`; `Stop` does nothing | manager, chains, queue |
| metadata, codecs | `msgmeta.go`, `codec/`, `handler_encode.go`, `handler_decode.go` | messages by name, id and type | register, encode, decode | sessions, chains |
| options | `socket/options.go` | limits and deadlines | lookups | session |
| Unity client socket | `client/Assets/Script/Network/ClientSocket.cs` | `_socket`, stage, running flag, tags | `Connect`, `Stop`, `SendMessage`; `HandleConnected` on a pool thread, `IOThreadRecv` on its own | network, peer |
| Unity client peer | `NetworkPeerBase.cs`, beside it | message queue, delay queue | `Connect`, `Stop`, `PostStream`, `Polling` in every frame | socket, main thread |
| Unity client messages | `NetworkPeer.cs`, `MessageDispatcher.cs`, `MessageMeta.cs`, `PeerManager.cs`, beside it | callbacks by message id | register, dispatch | peer |
| sproto in C#, gosproto | `client/Assets/Plugins/Sproto`, `server/src/github.com/davyxu/gosproto` | the cache of Go types | encode, decode, pack, unpack, `GetSprotoType` | messages |
| schema compiler | `gosproto/meta`, beside cellnet | files, objects, fields to be resolved | `ParseFileList` | generators of both languages |
| goobjfmt | `goobjfmt`, beside cellnet | none | `BinaryWrite`, `BinaryRead` | the codec `binary`, so all system messages |
| server program | `server/src/svc/setup.go` | | `Run`: `StartLoop`, `Wait` | queue |
| golexer, golog, generators, login | as named | tokens, text | parse, print | nothing at run time |

`PROJECT.json` lists them with what is modelled of each.

### How the parts interact

`Start` of a peer launches one goroutine.  The connector's dials, makes a
session, puts it in the manager and waits for it to end; the acceptor's accepts
connections and leaves each to an `onAccepted` goroutine, which does the same
without waiting.  A session has a `recvThread`, a `sendThread` and a goroutine
that waits for both and then calls `OnClose`, through which the peer takes the
session out of the manager.  There is one way to end a session, the nil that
`Close` puts in the send queue: when `recvThread` fails first it puts a nil
there too, when `sendThread` leaves first it closes the socket, on which
`recvThread` fails.  What `recvThread` reads goes through the receive chains of
the peer, usually into the event queue, whose single loop runs the callbacks.
`Stop` closes the sessions and the listener and waits for the peer's goroutine
on the channel `stopping`.

In the client three threads share a socket: Unity's main thread (`Connect`,
`Stop`, `SendMessage`, `Polling`), the pool thread of the connect callback and
`IOThreadRecv`.  They post to a queue from which the main thread takes one
message per frame.

### What is hard

* A condition variable signalled outside its mutex, and a `Pick` that drops the
  mutex half way.
* Two threads per session that end each other, at both ends of a connection
  that may be full, slow or reset, and a write loop that goes on after an error.
* Peers whose fields (`running`, `stopping`, `listener`, `defaultSes`,
  `OnClose`) are read and written by several goroutines, mostly without locks.
* A channel handshake in which the sender gives up when nobody receives.
* Timeouts that race the answer, and a queue with a limit whose consumer can
  block.
* Callbacks that post to the queue they run on, and a timer whose ticks only
  know whether the timer runs, not which `Start` they come from.
* Encodings written twice, in two languages or as a size and an encoder; types
  and declarations that refer to each other before they are complete.
* A client whose flag, socket and `Connected` property are read by three threads
  under one lock that some paths do not take.

`PROJECT.json` lists the hazards one by one, each at its line with the
properties that watch it; those without one have a note.

### What makes each part correct

The send queue is a FIFO and loses neither events nor wakeups.  A session
delivers a prefix of what was sent, flushes before it closes, and is torn down
completely, at both ends.  A peer knows exactly its live sessions, can be
stopped, and can be started again.  A call gets its own answer, once, or times
out, and leaves nothing behind (the first of which does not hold for calls that
wait for one type, see `ToldWhatCame` in section 3).  A timer that runs ticks, once per interval.
The callbacks of a session hear its messages in order and its end last.  A
message that is sent is told to the handlers registered for it, as it was sent;
what is encoded is read back, by a program of another age as well; a schema
means what its text says.  The client tells its logic of every connection that
ends, in order, and leaves no thread behind.

## 2. Modules

| module | models | extends |
|---|---|---|
| `NilList` | a list of events in which nil stands for Close; the part before the first nil | |
| `SendQueue` | the send queue as its user sees it: atomic `Add` and `Pick` | `NilList` |
| `EventList` | `evtlist.go`, one action per lock operation | `NilList`, instance of `SendQueue` |
| `SocketSession` | both ends of a connection | `NilList` |
| `PeerStop` | start/stop handshake common to the peers | |
| `SessionManager` | sessions by id | |
| `Connector` | the connector | `PeerStop` |
| `Acceptor` | the acceptor with its manager | `PeerStop`, `SessionManager` |
| `HandlerChains` | the chains and the cached list | |
| `RPC` | calls, the recvThread that walks the chains, the queue and its loop | `HandlerChains` |
| `EventQueue` | the event queue and `svc.Run` | |
| `Timer` | `Loop` and `After` | `EventQueue` |
| `WebSocket` | the websocket peers, their sessions and system events | `EventQueue`, `SessionManager` |
| `Server` | a program with timers and a websocket peer on one queue | `Timer`, `WebSocket` |
| `ClientQueue` | the client's message queue and emulated delay | |
| `ClientSocket` | the client's socket and threads | `ClientQueue` |
| `SprotoPack` | zero packing, in Go and in C# | |
| `SprotoCodec` | the field encoding, in Go and in C# | `SprotoPack` |
| `SprotoTypes` | the cache of Go types | |
| `Schema` | the schema compiler | |
| `ObjFmt` | the binary format of goobjfmt | |
| `MessagePath` | a message from registration to callback | |
| `Formats` | sproto and the four above, each a topic of its own | these modules |
| `EventListProofs`, `SocketSessionProofs`, `ConnectorProofs`, `AcceptorProofs`, `RPCProofs`, `ServerProofs`, `MessagePathProofs` | proofs | the module named |
| `ClientProofs` | proofs about the client's queue and sockets | `ClientSocket` |
| `MC...` | model values for TLC | the module named |

An operator named `MUTANT` in its comment is not part of a specification.  It
is a version of the definition below it with a plausible bug in it, kept to
show that a property notices (`mutants` in `PROJECT.json`).

### EventList and SendQueue

`EventList` keeps `list`, `listGuard` (who has the mutex), whether the consumer
is in `Cond.Wait` and a program counter per goroutine.  `Add` is lock, append,
unlock, signal (four steps, as `Signal` comes after `Unlock`); `Pick` is lock,
the wait loop, unlock, lock again, copy and reset, return.  `Cond.Wait` is two
steps: it registers the waiter while it still has the mutex (`PickPark`) and
needs the mutex to return (`PickWake`).  In `SendQueue` both are one step each.

### SocketSession

Per end: the send queue (the atomic one, which `EventList` implements), the
batch `sendThread` is writing, the serials, the positions of both threads, the
`WaitGroup` counter, the socket and what is under way on the wire.  The bytes
of a packet are one frame with its serial, its message and whether all of it
was written: a write that a deadline cuts short leaves a part.  Messages are
model values; some cannot be encoded, some are larger than `MaxPacketSize`.
The network (`net.Conn`, external) holds `WireCap` frames each way, is reset
when data meets a closed socket, as TCP does, and with `MayBreak` at any time;
then any tail of what is under way is lost.

### PeerStop, Connector and Acceptor

Every read and write of a field that another goroutine writes is a step of its
own.  `waitStopFinished` reads `stopping` twice without a lock; whether the
second read is a new load is left open, so the model takes either.  The send of
`endStopping` is a `select` with a default: it happens only if somebody
receives at that moment, else the channel is dropped.  A panic ends the process
(`Alive`, `Running`).  A session here is only its life: live, closing (a nil is
in its queue), ended (both threads over), gone (`OnClose` is through).  That a
closing session comes to its end is what `CloseEndsBoth` shows for
`SocketSession`.

`SessionManager` has the ids: `Add` counts `sesIDAcc` up, modulo `IDSpace`, to
the first id that is free and gives up after `totalTryCount`.  Its methods hold
one mutex and are one step each.  `CloseAllSession` visits the sessions there
are, in one step, since `VisitSession` holds the mutex and `Close` only queues a
nil.  In `Connector` the manager is a set, as a connector has one session per
goroutine of `connect`.

### HandlerChains and RPC

`AddChainRecv` and `RemoveChainRecv` change the map and rebuild the cached list
in one step, as they hold the lock; the walk uses the list it has read, which
may be old by then.  `RPC` has for each call the goroutine of the caller, its
timer, the request and the answer; one `recvThread` that walks the chains and
posts, and blocks when the queue is full; and the loop, which runs one job at a
time: the tail handler (the callback, or the send on the unbuffered `ret`) and
then the handler that removes the chain.  The answering side is external: it
answers each request at most once, in any order.  `Ack` gives each call the type
it waits for; calls may share one, and then an answer comes to all of them.
Two histories record, per call, the answers that were read while its chain was
in the map (`came`) and those its callback or `ret` was given (`told`).

### EventQueue, Timer, WebSocket and Server

`EventQueue` has the channel with its capacity, the loop, the callback it runs,
and the goroutine of `svc.Run`, which starts the loop and waits for a result.
`StopLoop` is a handshake with `Wait`: it does not stop the loop.  A callback is
"call" (the user's part, which may post, stop a timer or call `StopLoop`), then
"end" (what the library does after it).

`Timer` splits `Start` where other goroutines may come between: the test of
`running`, its setting, and `rawPost`.  `after` counts the goroutines that wait
for their timer; a tick is a record in the queue that knows whether `NextLoop`
posted it.  `WebSocket` makes sessions the way both peers do, `Add`, `run`, and
only then the greeting, while the `recvThread` may already be posting.  What
`Stop` of these peers does, nothing, is no action; nor is `OnClose`, which no
code calls.  `Server` puts both on one queue.

### ClientQueue and ClientSocket

For each socket the peer makes, the program counters of the three threads, the
lock `guard`, the fields, and the connection (external).  `Close` is the
source's: take the lock, test, close and post `Disconnected`, clear the field,
unlock.  The tags, modulo `TagModulus` (2^16 in the code), are compared by
`HandleReadHeader`.  Which exceptions end the loop and which are posted as
`RecvError` follows the `catch` clauses.  `Connected` of a socket is a flag: the
runtime may set it when the connection is made ("early") or in `EndConnect`
("open" until then), and a send that fails clears it for good.

### Formats: SprotoPack and SprotoCodec, SprotoTypes, Schema, ObjFmt, MessagePath

Five pieces of sequential code have no state in common; `Formats` gives each
behaviour a topic, so that one run checks all.

**SprotoPack and SprotoCodec.**  Both modules are operators: a state is only an
input, built segment by segment (bytes to pack) or field by field (a type and a
message of it), and the invariants compare what the Go and the C# operators make of it.  `Pack` and
`pack` keep the code's buffer, with the segments written first and the runs over
them afterwards, and the C# one starts on what the buffer held before, as a
`SprotoPack` is kept from message to message.  `Encode` and `Decode` are the
loops over fields and tags for either side, with the functions per kind of field
named as in the source.  An exception and an error are both `Error`.

A byte has `Base` values in `SprotoCodec`.  All limits of the code are those of
15, 16, 31, 32, 63 and 64 bits; they are taken as half of, or all of, 2, 4 and 8
bytes, so that they stay apart when a byte is made smaller.

The kinds of fields are the four kinds of numbers that the code tells apart, bool,
string and struct, and lists of them.  Bytes are written as strings are, enums
as int32 and floats as int32 or int64 of a thousand times the value.  The size limits of
`SprotoStream` (16 MB) are left out.

**SprotoTypes.**  The structs of a program are chosen at the start; a step asks
`GetSprotoType` for one.  `heap` holds every `SprotoType` that was made, so that
one that was thrown out of `stMap` can still be pointed to.

**Schema.**  A state is the text of up to two files, as declarations and fields;
`ParseFileList` is folds over it, with the descriptors under construction as
accumulator.  The invariant compares the descriptors with what the text says by
itself (`Counted`, `Refused`).

**ObjFmt.**  A state is a struct type with a value.  `BinaryWrite` is `dataSize`
and the encoder side by side, as in the code, with `Panic` when the buffer is
too short.  Bytes have their 256 values here.

**MessagePath.**  Two programs register messages, one registers handlers, and
sends go through `RawSend`'s goroutine, the wire, `ReadPacket` and the chains.
Data is the value that was encoded, with nil and the empty slice told apart,
since `Parse` and the codecs do so; any codec may refuse a value.  The handler of
the acceptor makes the session and runs it (`Accept`) before it posts Accepted
(`Greet`), so that messages and Closed may be told first.  `told` has, for each
call of the chain list, the kind of event, the message it came from and what the
callback of each chain was given, or that it was not called.
`MessageAssumption` says of the ids that none is 0 and that those of Accepted and
Closed differ, and that these two have another codec than json, as
`coredef/objproto_gen.go` registers them; ids of other messages may collide.

## 3. Runs

| run | instance | shows |
|---|---|---|
| `eventlist` | 2 producers, 2 events and nil, 4 Adds | no wakeup is lost, `Pick` never returns nothing, `EventList` implements `SendQueue`, the list is drained |
| `session_safety` | 1 sender with 4 calls, 2 serials, 1 frame of room, one unencodable message, deadlines, breaking network | `DeliveredInOrder`, `FlushBeforeClose`, `TeardownComplete` |
| `session_liveness` | 2 calls at each end, oversize packets, 1 frame of room | `CloseEndsBoth` |
| `send_close_reset` | 1 client, 2 server calls | finding |
| `connector` | 1 user, 2 starts, 2 stops, 2 dials | `SignalHasReceiver`, `DefaultIsCurrent`, `HookedIsHandled`, `StopEndsConnect` |
| `acceptor` | 1 user, 2 clients, 2 starts, 2 stops, 2 ids | `ManagedWhileAlive`, `RestartFindsAddressFree`, `StopEndsAccept`, `StopClosesManaged` |
| `acceptor_late_session` | 2 clients, 1 start, 1 stop | finding |
| `rpc` | 2 `CallSync`, 1 `Call`, two of them waiting for one type, queue of length 1, lost and late answers | `CacheIsCurrent`, `ToldWhatCame`, `CallSyncReturns`, `AsyncChainRemoved`, `LoopRunsUnlessLate` |
| `rpc_late_answer` | the same calls, each with a type of its own, no answer lost | finding |
| `formats` | up to 4 segments, runs of 3; up to 2 fields of any kind, 4 of bool; 2 declarations in 1 or 2 files; 2 Go structs of up to 2 fields; objects of up to 3 fields; 3 messages, 2 sends | `PackRoundTrip`, `PackersAgree`, `MessageArrives`, `OldTypeReads`, `SchemaAsDeclared`, `TypesAsDeclared`, `BinaryRoundTrip`, `SentIsTold` |
| `server` | 1 timer, 2 starts, 1 session, 2 frames, queue of length 2 | `NoSpareTicks`, `TickComes`, `EventsInOrder`, `ClosedIsTold` |
| `client` | 1 socket, 2 packets in, 2 out, tags modulo 2 | `PacketsInOrder`, `EndIsAnnounced`, `ProcessedInOrder`, `ThreadEnds`, `PostedIsProcessed` |

`TypeOK` is checked in the runs of `EventList` and `SocketSession`.  It is proved
for these and for `Acceptor` and `RPC`; for `Connector`, `Server` and
`ClientSocket` the types a proof needs are a part of its invariant.

### Bounds

Every bound is a constant.

* `MaxAdds` 4 with two producers lets both be between `Unlock` and `Signal`
  while the consumer is anywhere in `Pick`, with events behind a nil as well;
  that the invariants and the refinement hold beyond it is proved.
* `SerModulus` 2 makes serials repeat within the four calls, which the 2^16 of
  the code do after 65536 packets: a gap that closed the circle would be seen.
  With `MaxBad` 1 there are fewer gaps than serials.  `WireCap` 1 makes every
  second write block.
* Both ends send in `session_liveness` only.  In `session_safety` the client
  does not, since the two directions share the connection but not the
  properties; with both, the state space is out of reach with deadlines on.
* Two starts, stops and dials give a restart, a reconnect and the overlap of
  an old goroutine with a new one.
* Three calls on a queue of length 1 fill the queue while the loop is busy and
  `recvThread` waits to post.  A `CallSync` and the `Call` wait for one type, the
  other `CallSync` for another, so that an answer may come to one call, to two,
  or to one that has had its own.
* One socket in `client` has three threads already.  A second one, from a
  `Connect` after a `Stop`, shares with it the peer's field `_socket` and the
  message queue, which numbers messages whatever their socket.
* `IDSpace` 2 and `totalTryCount` 2 in `acceptor` make the id wrap around at
  the second session and meet one that is taken, as 2^64 and 100 do in the
  code after a long time.
* `QueueLen` 2 (100 in the code) in `server` is filled by a tick and an event,
  with another of each waiting.  `MaxStarts` 2 gives a `Start` that finds a tick
  of the first one due; two frames give a message and the end behind it.
* `MaxObjects` 2 and `MaxWeight` 3 let a type be declared before, behind and in
  another file than its use, twice, and by itself; three fields give a counted
  tag between two written ones.  `MaxCached` 3 lets two structs be asked for
  again after they have failed.
* Of the three messages in `formats` two share an id, as if their names had one
  hash, and one is in json, which alone refuses empty data.
* `MaxRun` 3 (256 in the code) with `MaxSegments` 4 lets a run begin at either of
  the first segments, end early, end with the input, reach its limit, or reach
  it with a short last segment.  `Patterns` has segments with 0, 1, 5, 6, 7 and
  8 bytes that are not zero, the counts at which the packers decide differently.
* `Base` 4 is the smallest that keeps all lengths of numbers (4 and 8) and texts
  (17) apart from the values of a byte.  `IntValues` has the numbers on both sides of every
  limit.  Two fields are enough for one piece of data to be in front of another;
  gaps in the header need more fields, which may be bool.

Deadlock is not checked: every one of these systems may come to rest, when the
logic makes no more calls and the sessions are over.  Getting stuck on the way
is what the liveness properties are about.

### Fairness

Weak fairness for the steps of a goroutine or thread that has begun: Go and the
.NET runtime schedule every thread that can run.  Strong fairness where `Pick`
takes its mutex, as Go's `sync.Mutex` goes into its starvation mode and hands
itself to a waiter passed over for 1 ms.  Timers fire and Unity calls `Update`
in each frame.  The kernel answers data that meets a closed socket.  A
goroutine that waits to post to the queue has strong fairness in `Server`: a Go
channel serves its blocked senders in order.  No
fairness for the logic's calls (`StopLoop` and the start of timers and peers
included), for failures, for the remote end or for arriving connections.  `RemoteAnswers` is fair only when `Lossy` is FALSE.

### What the properties exempt, and the behaviour behind it

A property with an exception names it.  Each stands for something the code
really does, which TLC showed when the property was stated without it.

* `BothBlocked` (`CloseEndsBoth`): with no write deadline, two ends that stopped
  reading, on an oversize packet say, while both wait in `Write` stay there,
  as a nil in the queue does not reach a blocked write.
* `overlap` (connector): `Start` twice before the first goroutine has set
  `running`, or after a `Stop` that found no session, runs two goroutines of
  `connect`, which overwrite each other's `defaultSes` and take each other's
  `closeSignal`.
* `lost` (connector): `connect` runs the session before it adds it and sets
  `OnClose` (`socket/connector.go:91`).  A session that dies in between is added
  afterwards and never removed, and `connect` waits for `closeSignal` for ever.
  The acceptor has these in the other order.
* `StopEndsConnect` speaks of a `Stop` that finds a session: one that comes
  while `connect` dials or sleeps closes nothing.
* Neither peer has the property that `Stop` returns.  Between the test in
  `waitStopFinished` and its receive, `endStopping` can find no receiver and
  drop the channel; `Stop` then waits for ever on it.
* `failed` and `ComingUp` (`RestartFindsAddressFree`): when `Accept` fails by
  itself, `accept` leaves its listener open and the next `Start` cannot listen;
  a second `Start` before the first has set `running` cannot either.
* `crowded` (`ManagedWhileAlive`): `Add` has found `totalTryCount` sessions in
  the manager.  From then on it may overwrite one, if the ids have wrapped
  around.
* `Stuck` (`TickComes`, `ClosedIsTold`): a callback posts to its own queue, with
  `NextLoop`, when it is full, or calls `StopLoop` when `Wait` has returned
  already.  The loop waits for ever, and with it everything that posts.
* `spare` (`NoSpareTicks`): a `Start` that comes when a tick of an earlier
  `Start` is still due, because the timer was stopped only for a moment, or
  because two goroutines start it at once.  Each adds a second tick per
  interval for good.
* `EventsInOrder` and `SentIsTold` let Accepted or Connected come at any place
  among a session's events, for it is posted when the `recvThread` runs already.
* Websocket sessions have no property that they leave the manager, or that
  `Stop` ends them.  `OnClose` is set to remove the session ("断开后从管理器移除",
  `websocket/acceptor.go:56`), but `recvThread` ends without calling it, and
  nothing else does, so that the manager keeps every session there ever was; and
  `Stop` does nothing.
* `Jammed` (`LoopRunsUnlessLate`): the loop sends on the `ret` of a `CallSync`
  that receives no more, because it has timed out (the finding
  `rpc_late_answer`) or because an answer to another call of its type came first
  and it has returned.
* `ToldWhatCame` says that a call is told answers to calls of its type, which is
  the answer to its own request only if no other call waits for that type.  A
  chain accepts any message of its type (`rpc/reqhandler.go:17`), as the `CallID`
  of the answer is not compared; TLC finds at once that of two calls in flight,
  as `example/rpc/rpc_test.go` makes them, each may return the answer to the
  other, although `CallSync` is said to return that to its request
  (`rpc/req_sync.go:11`).  The test cannot tell, since its answers are alike.
* `Leaked` (client): `Stop` reads `Connected` as false, then `EndConnect`
  completes, then `Stop` clears `_socket`: the connection stays open, nobody
  closes it, and `IOThreadRecv` may wait in it.
* `mixed` (client): when the emulated delay is switched off, messages in it are
  overtaken and stay there.
* The write deadline is set before `Pick` waits, so an idle session that is
  written to later than that loses its first write and closes; `failed` in
  `FlushBeforeClose` covers it.
* `ShortEndsRun` (`PackersAgree`, `MessageArrives`): `pack` of C# throws when the last segment is
  short and the 256th of its run; the input has 2046 or 2047 bytes, say, hardly any
  of them zero.  `SendMessage` catches it, and the message is not sent.  The
  same was put right in `pack.go` ("修复超界", line 33).
* `AsRead` (`MessageArrives`): Go reads a number of 4 bytes without its sign.  A
  negative int64 that fits in 32 bits, and lists of them, arrive 2^32 too large; a
  uint64 within 2^31 of its limit, which C# writes in 4 bytes, arrives without
  its upper half.
* `FarTags` (`MessageArrives`): with tags of 32768 and more the word that
  counts the tags left out may be 0xffff, for which `v + 1` in `decodeHeader`
  wraps to 0 and the field is taken for another, or may not fit: C# throws,
  and Go writes its low 16 bits.
* `SchemaAsDeclared` states the two things `addField` does with counted tags,
  which it keeps under the key 0: a written tag that equals a counted one is let
  through (`Wrong`), and a written 0 behind a counted one is refused.  An index
  into a basic type is a nil pointer in the generator, and counts as refused.
* `TagTwice`, `Circular` (`TypesAsDeclared`): after "tag repeated" the half-built type
  stays in `stMap` and the next call returns it without an error; a type that
  is taken out because of an error may be pointed to by one it is in a circle
  with.
* `Loose`, `Plain` (`BinaryRoundTrip`): slices of strings, slices or structs
  are sized by their headers in memory, so longer ones panic and shorter ones
  leave zeros behind the object; of a field with the tag `binary:"-"` only the
  encoder knows.
* `Sound` (`SentIsTold`): a message that its codec could not encode, or that was sent
  with `Send` of a websocket session, which tests `ChainSend` for the opposite
  (`websocket/session.go:50`), is dropped or arrives with no field set.  Nothing
  is said of the order of messages, as each has a goroutine of its own.

### Findings

Three runs are expected to violate their property, which states what a comment or
a document says.

1. `send_close_reset`: "发送消息后保证消息送达后再断开连接" (the README on the
   sendclose example: closes only after the messages are delivered).  If the peer
   has sent something that this end has not read when `sendThread` closes the
   socket, TCP resets the connection, and what was written is lost.
2. `acceptor_late_session`: "断开所有连接" (closes all connections).  A
   connection whose `onAccepted` runs after `CloseAllSession` survives `Stop`.
3. `rpc_late_answer`: a `CallSync` that timed out leaves its chain.  The answer,
   when it comes, makes the loop of the queue send on a channel nobody receives
   from, and nothing posted after that is run.

## 4. Proofs

Checked by TLAPS, for every value of the constants that satisfies the named
assumptions.

**EventListProofs**, from `ThreadAssumption` (the producers, the consumer and
"no one" differ), `NilAssumption` (nil is not an event) and `MaxAddsAssumption`.  The inductive
invariant `IInv` is
`TypeOK` and

* `MutexInv`: a goroutine owns `listGuard` exactly while it is between its
  `Lock` and its `Unlock`;
* `FilledInv`: from the moment the wait loop of `Pick` has seen an event until
  the copy, the list is not empty;
* `NoLostWakeup` itself.

`FilledInv` alone would not do: that nobody else empties the list is by the shape
of `Add`, but that the consumer's test and the producers' appends do not
interleave within a step needs the mutex.  The theorems are `TypeCorrect`,
`NoWakeupIsLost`, `PickIsNeverEmpty` and `ImplementsSendQueue`: every step of
`EventList` is a step of `SendQueue` or a stutter, under a mapping in which a
batch counts as picked when `Pick` copies it.

**SocketSessionProofs**, from `SessionAssumption`.  It begins with lemmas on the
first nil of a list: that it is unique, that appending behind it changes nothing
in front of it, and that moving the head of a batch to what has been written
keeps their concatenation.

* `OnCloseIsLast`, by `TeardownInv`: `endSync` counts the threads that are not
  over, a `sendThread` that is past `conn.Close` has the socket closed, and
  `closed` implies that the count is 0.
* `CloseFlushes`, by `FlushInv`: the types it needs (`FlushTypes`) and, per end
  with no failed event, `Conserved`: what was written, followed by the rest of
  the batch and by the queue, is what was added, up to the first nil.  The batch
  has to be part of it because the property speaks of the moment when it is empty.
* `TypeCorrect`, with `WireTypes` added: the frames of the wire stay well formed
  when a reset cuts off a tail.
* `PrefixArrives` (`DeliveredInOrder`), by `DeliveryInv`.  Per end, the
  `sendThread` has put some number n of events through the write chain, all of
  them in front of the first nil; what it holds comes next, and while it may come
  back to its list (`Picks`), the list is the rest.  The serials are n and the
  number of messages handed over, modulo `SerModulus`.  The first k frames on the
  wire carry on where the receiver is; frame k + 1 cannot be accepted in its
  place, for it is cut short or its serial is another (`Stops`).  Nothing has to
  be said of the frames behind it, since the receiver never gets to them.  If
  there is no such frame, and the `sendThread` may still write (`Writes`), then
  whatever it took since the last frame had no encoding (`OnlyBad`); the next
  frame then shows the gap, as these are fewer than the serials (`GapShows`).
  The hypothesis `MaxBad < SerModulus` is needed: 65536 messages in one batch
  that fail to encode would bring the serial back to where it was.

**ConnectorProofs**, from `ConnectorAssumption`, for any number of users and
goroutines of `connect`.  `SignalInv`: the goroutines that wait for
`closeSignal`, or are on the way there, and the sessions whose end is to come
are equally many; it is a count because, where goroutines overlap, one takes
another's signal.  `DefaultInv` adds that, while none overlap, one goroutine at most
is active, so that no other can set `defaultSes` or take it away.  The theorems are `SignalIsReceived` and
`DefaultStaysCurrent`.

**AcceptorProofs**, from `ManagerAssumption` and `PeerAssumption`.

* `ManagerIsExact`, by `ManagerInv`: the life of a session follows the step its
  goroutine is at, a client is in the hands of one goroutine, and unless
  `crowded` every session of the manager is under its own id and is one that
  lives.  `FirstFreeIsFree` is the lemma behind it, a pigeonhole argument: fewer
  sessions than `totalTryCount` leave one of as many ids free, and the loop of
  `Add` stops at it.
* `RestartIsClean`, by `StopInv`, under `OneUser`: one goroutine makes all calls
  of `Start` and `Stop`, as in the code that uses a peer.  With two it does not
  hold: a second `Start` may have passed its test before the first one listens
  and is stopped again.
* `TypeCorrect`.

**RPCProofs**, from `RPCAssumption` and `ChainsAssumption`.  `CacheStaysCurrent`
needs nothing else.  `EachToldWhatCame` (`ToldWhatCame`) is about any calls,
whatever types they wait for, by `AnswerInv`:

* `NotRead`: an answer is in one place only until it is read, as a request is
  answered once, and it comes to a call once;
* `Hands`: of the answers that came to a call, some number `handed` has been
  taken by the loop.  What is in the queue for the call came later (`InQueue`),
  and in the order of the queue (`InOrder`); what the `recvThread` has still to
  post came last and is not in the queue yet (`ToVisit`); and what came later
  than `handed` is in one of these two (`Covered`).  It follows that the head of
  the queue is the next that came to its call (`HandsTake`);
* `ToldFirst`: what was told came first, and the job of the loop is the next;
* `SyncOnce`: a `CallSync` that was told something has returned, so that nothing
  can be sent on its `ret` again.

`RightType` is the rest of the property: what came to a call answers a call of
its type.  That `came` is measured by the map and `todo` by the cached list is where
`CacheIsCurrent` enters.  `TypeCorrect`.

**ServerProofs**, from `TickAssumption` and `EventAssumption` (what an idle loop
runs is neither a tick nor an event).

* `OneTickPerStart` (`NoSpareTicks`), by `TickInv`.  The ticks of a Loop are
  counted where they are: goroutines of `After`, places in the queue, the
  callback in hand.  The lemmas say what `Post` and the loop do to the number of
  places (`PlacesOfPosted`, `PlacesOfTaken`).
* `ToldInOrder` (`EventsInOrder`), by `OrderInv`.  The property speaks of what
  was handled only, and what comes wrong there was wrong in the queue before.  The
  invariant therefore follows the line of a session's events: those handled, the
  one in the loop's hand and those in the queue, whatever other sessions and
  timers put between them.  In it the numbers of the frames rise one by one
  (`InOrder`) up to the last one whose event is posted (`InLine`), and there is
  one greeting at most; `Reads` says what the `recvThread` holds that is not in
  the line yet.  When the loop takes an event or is done with it the line stays
  the same but for its places (`SameOrder`); a `Post` adds one at its end
  (`OneMore`).

**MessagePathProofs**, from `MessageAssumption`, about `PathSpec`: a step of
`Formats` is a step of `PathNext` or leaves `pathVars` alone.
`SentMessagesAreTold` (`SentIsTold`), by `PathInv`:

* `MetaAgree`: the tables of a program by name and by id agree, so that an id
  that is known is that of one message, whatever the other program has under it;
* `Unchanged`: a packet, in a goroutine or on the wire, is the one that its
  message and the way it was sent determine (`PacketOf`), and what the chains were
  told is what that packet and the handlers determine (`CallOf`);
* `InOnePlace` and `NotLost`: it is in one of the three places, and a message
  that was encoded is in one until the session is over;
* `NothingYet`: nothing is sent or told before the session runs;
* `SystemTold`, a part of the property: Accepted and Closed are told once each,
  when they are posted, and no message is told after Closed.

Where `Send` of the session is used, `PacketMade` shows what the code comes to:
a packet is made only if the log has set the id (`MsgLog` in debug mode), and it
has no data.

**ClientProofs**, from `ClientAssumption` (there are at least two tags), for any
number of sockets.

* `MessagesInOrder`, by `QueueInv`: what is delayed and what waits are runs of
  consecutive numbers, and together as many as were posted and not processed.
* `PacketsArriveInOrder` and `EndIsTold`, by `ClientInv`, per socket.  Inwards,
  the stream has at most one gap, of one packet, so the tag behind it differs
  from the one expected (`NextTagDiffers`).  Outwards, a tag used for a packet
  that did not get out is the last one, since a socket that has failed, was
  closed or was reset stays so.  The holder of the lock is alone in `Close`, so
  one thread at most posts `Disconnected`; who has let go of `_socket` has posted
  it, or has missed the connection.

  With a second packet out, which the run had left out, the attempt at this
  proof showed that the model of `Connected` was too loose: it let a socket be
  connected again after a failed send.  It is now the flag described in section
  2, and the run has two packets out.

Only model-checked:

* Every liveness property.
* The invariants of `SprotoPack`, `SprotoCodec`, `SprotoTypes`, `ObjFmt` and
  `Schema`: what they say is about recursion and folds over their input, by
  induction over data.

Liveness under fairness and induction over data are out of the prover's reach
and stay with TLC.

## 5. Not modelled

* The bytes of the packet layout around a message; json and protobuf, which are
  libraries; the hash that makes an id of a name, for which any id is taken.
* The send, read and write chains as data: the default chains are fixed in
  `SocketSession` and `MessagePath`.
* The text of schemas: golexer, comments, file tags.  `ParseFile`, which parses a
  single file and which only a test calls: it puts the file into its set after parsing it, so
  `parseType` meets a nil set when a field names another type.
* The generators (`sprotogen`, `pb2sproto`, `objprotogen`, `protoc-gen-msg`):
  templates, text out.  The text format of goobjfmt, which writes the log, and
  golog.
* Parsing the address of a websocket peer is a choice between good and bad;
  host name resolution in the client, which nothing switches on; the client's
  login window, and its dispatcher, a table on the main thread; buffer sizes.

## 6. Plan

The modules cover what the code has of concurrency and of encodings, and the
invariants of the concurrent parts are proved.  What is left is to show that the
sessions of `Connector` and `Acceptor` are an abstraction of `SocketSession`.
