# qdevrunner in TLA+

qdevrunner runs a set of QSOA services on a developer's machine: it builds each
service, opens the sockets the service expects of the production platform,
starts its process, routes the calls between services, and collects logs,
metrics and traces for a web UI and for MCP tools. It is one Go program with
many goroutines, and most of its difficulty is in their interleavings.

This directory models that program in TLA+, checks the models with TLC and
proves the most important of their properties with TLAPS. `PROJECT.json` lists,
for machines, what this file explains for readers: the components, the runs,
the definitions with the source lines they model, the hazards and the theorems.

Paths are relative to the repository.

## 1. The system

| Component | State | Operations | Interacts with |
|---|---|---|---|
| Service instance (`instance/instance.go`) | status, process, cancel function, stopping flag, last error, discovered transports | `Start`, `StartManual`, `Stop`, `Restart`, `StartTransports`, the goroutine that reaps the process, output capture | called from `main`, web API, MCP tools, watcher; registers with the registry; logs to the log store |
| Registry (`registry/registry.go`) | instances by service name | `Register`, `Unregister`, `GetGrpcInstance`, `GetHttpInstance` | instance, gRPC and HTTP proxies |
| Log and metrics stores (`logstore/`, `metricsstore/`) | ring buffer, subscribers | `Add`, `Recent`, `Subscribe`, `Unsubscribe` | written by captures and scrapers, read by hub and tools |
| Trace store (`tracer/store.go`) | ring buffer, index by trace, subscribers | `Add`, `GetTrace`, `ListTraces`, `RecentSpans`, `Subscribe` | written by the trace FIFO's reader |
| WebSocket hub (`webui/websocket.go`) | map of clients, a queue per client | subscription loops, `broadcast`, `BroadcastServiceEvent`, `ServeWS`, reader, writer, backlog | stores, browsers |
| gRPC proxy (`transport/grpcproxy/`) | two streams and two loops per call | `FromRunner`, `ToService`, `transfer` | registry, service sockets |
| Configuration (`config.go`) | databases, buckets, mailboxes, environment, secrets, services; the INI file | `Load`, setters and removers, `Save` | web API, MCP tools, `main` |
| Database transports (`transport/mysql`, `transport/clickhouse`) | a map of DSNs that all instances share, a mutex per transport | `GetDsn`, `AddDsn`, `RemoveDsn` | configuration by way of `main`'s broadcaster |
| Other transports (`transport/socket.go`, `httpproxy`, `prometheus`, `opentracing`, `secrets`, `dfs`, `email`) | socket files, a FIFO, a port | listen, serve, close on context end | instance |
| DFS and email servers (`dfs/dfs.go`, `email/email.go`) | buckets; mailboxes, an IMAP connection per call | file streams, listings; list, send, move, delete | called by services |
| Watcher (`watcher/watcher.go`) | a timer per instance | debounce, restart, stop | instance |
| Boot and shutdown (`main.go`) | the instances | start in order, wait for a signal, stop all | everything |
| Web API, MCP tools (`webui/handlers.go`, `mcp/`) | none | calls of the above | instance, configuration, stores |
| Frontend (`static/src`) | what the pages show | WebSocket, backlog request | hub |

What is hard in it:

* **Operations that are not atomic.** `Instance.mu` guards fields. A `Start` is
  a check, a build that takes seconds, transports, a spawn and two assignments,
  and any other call can come between any two of them.
* **A second actor on the same state.** The waiter clears the process field and
  sets the status, and so does `Stop`; both unregister the instance.
* **Channels that drop, and channels with two closers.** The live feed never
  blocks; what does not fit is lost, and a client's queue can be closed by
  `broadcast` and by the client's own reader.
* **Shared structures under the wrong lock.** One map of DSNs under a mutex per
  instance; a file written under a read lock.
* **Ends that are not the same for both sides.** A proxied stream is half-closed,
  ended with a status, or cancelled, in either direction and in any order.
* **Ring arithmetic and an index that outlives what it points to.**
* **Names that outlive their owner.** A service's sockets, FIFO and port have the
  same names in every run of it, and the goroutines that close them are not waited
  for: a run may meet what the one before it has not closed.
* **Conversations in which any step may fail.** An email is sent or deleted by a
  sequence of commands to a server that does not know what the caller wants, and a
  file stream has answers without a number.
* **Bytes from peers of another version.** Sizes are computed apart from the bytes
  they count, and a message fills its buffer from the end.

What makes each component correct is stated in section 3 with its module;
`PROJECT.json` lists the hazards at their lines with
the properties that watch them; three that no property can watch yet are the last item of
section 6.

## 2. Modules

```
RecentLog  <--refines--  RingStore  <--instance--  TraceStore
    ^ instance
   Hub

RpcCall    <--refines--  Transfer

Instance   <--extends-- Runner

ConfigLive                Endpoints

DfsFile    <--extends--+
                       +- Backends
Mailbox    <--extends--+

WireMessages <--extends-- Wire

<X>Proofs  EXTENDS <X>, TLAPS        MC<X>  EXTENDS <X>, TLC
InstanceProofs  EXTENDS Runner, and with it Instance
ProtocolProofs  EXTENDS Transfer and Wire
```

| Module | Models | Proofs |
|---|---|---|
| `Instance` | the life of one service instance under concurrent calls, and its mesh entry | `InstanceProofs` |
| `Runner` | boot, file watcher and shutdown around one instance | `InstanceProofs` |
| `RecentLog` | abstract: a window on the most recent entries | |
| `RingStore` | the ring buffer of the log and metrics stores | `RingStoreProofs` |
| `TraceStore` | the ring with the index by trace, and the queries | `TraceStoreProofs` |
| `Hub` | store, subscription, broadcast, clients | `HubProofs` |
| `RpcCall` | abstract: a gRPC streaming call with nothing in between | |
| `Transfer` | the same call through the proxy | `ProtocolProofs` |
| `ConfigLive` | changes of the configuration at run time, their way to the servers and to the file | `ConfigLiveProofs` |
| `Endpoints` | socket file, port, trace FIFO, scraper and output pipe over the runs of a service | `EndpointsProofs` |
| `DfsFile` | the file server: a file stream, the calls beside it, the buckets | |
| `Mailbox` | the email server: its IMAP and SMTP conversations | |
| `Backends` | the two servers in one program | `BackendsProofs` |
| `WireMessages` | the 39 messages of the four protobuf packages, as lists of fields | |
| `Wire` | `Size`, `Marshal` and `Unmarshal` of such a list, and a message between two peers | `ProtocolProofs` |

`MC*` modules add the symmetry sets of the runs and constants a `.cfg` cannot write. Definitions whose comment
begins with "Mutant of" are not part of a specification: each is the definition
it names with a plausible bug put in, and shows that the property it is paired
with in `PROJECT.json` notices.

## 3. What is modelled, and what the runs show

### Instance

A member of `Calls` is a goroutine that makes one call. If that call starts the
service it also names the run: its context (`ctx`), its process (`proc`) and the
goroutine that reaps it (`waiter`). `pc[k]` is the place of the call between two
critical sections; the shared variables are the fields of `Instance` by their
names in the code (`lastError` is only whether there is one, `cancel` and
`process` point to a run), and `registered` is how often the registry lists the
instance.

| Code (`instance/instance.go`) | Actions |
|---|---|
| `Start` 328-458 | `RefuseRunning`, `BeginStart`, `NewContext`, `BuildOk`/`BuildFails`, `TransportsOk`/`TransportsFail`, `PipeFails`, `SpawnFails`/`Spawn`, `Publish`, `Register` |
| `StartManual` 460-494 | `NewContext` to `TransportsOk`, then `RegisterManual`, `Announce` |
| `Stop` 496-533 | `SnapStop`, `StopUnregister`, `SignalKill`, `SignalDone`, `StopCancel`, `SetStopped` |
| `Restart` | `Stop`, then `Start` on the same goroutine (`SetStopped` goes to `check`) |
| waiter 441-456 | `WaiterUnregister`, `WaiterSettle`, `WaiterRelease` |
| the process, the kernel | `ProcessExits`, `ContextKills` |

A process may exit at any moment with either outcome, which includes its answer
to SIGINT; SIGKILL after `Stop`'s deadline is `SignalKill`.

The code makes two kinds of promise, and the constant `Overlap` separates them.
With `Overlap = FALSE` callers come one at a time, as a single user does who
waits for each answer, against the waiter and a process that may exit at any
moment. With `Overlap = TRUE` they come whenever they like.

* `InstanceSerial` (boot, three callers, one at a time): `AtMostOneProcess`;
  `StatusTellsTruth`, which relates the status shown to the process field, the
  processes alive, the contexts and the mesh; `StopMeansStopped`, what holds at
  the moment a `Stop` returns; `CrashReported`, that a failed exit becomes
  "error" exactly when no `Stop` was waiting for it, although the flag that
  decides it outlives that `Stop`.
* `InstanceOverlap` (the boot loop and a caller, in any order): what survives all
  overlaps. `ProcessFieldFresh` (`Stop` never polls or signals a reaped process),
  `NoGhostRegistration`, `NoLeakedContext` (although `cancel` may be overwritten, the
  transports of every managed run are closed), `StartingExplained`; and, under fair
  scheduling, `CallsReturn`. What does not survive them is in section 5.

*Bounds.* Three callers one at a time reach every pair of successive
operations, after either boot, with a third to observe the result. The boot loop and
one caller reach every interleaving of a start with a start, a stop or a restart;
the four safety properties of that run are proved below for any number of callers.
*Fairness.* The Go scheduler runs what can run, builds end, `Stop`'s deadline
passes, a SIGKILL is delivered. No caller has to come, and no process has to
exit by itself.

### Runner

`Runner` extends `Instance`, of one service, and gives its calls to the goroutines
that make them: `Main` (the boot loop), `Restarts` (each one callback of the watcher's
timer) and `Down` (the goroutine in which the shutdown stops the service).

| Code | Actions |
|---|---|
| `main.go`, boot loop 144-164 | `Boot`, `Booted` |
| `main.go`, shutdown 178-200 | `Interrupt`, `CloseWatchers`, `StopService`, `Exit` |
| `watcher.go`, `Start` and its loop | `WatchBegins`, `Take` |
| `watcher.go`, `scheduleRestart` and its callback | `Schedule`, `Fire` |
| `watcher.go`, `Stop` | `CloseWatchers` |
| the service | `Call`, `Reap`, `ProcessEnds`: the actions of `Instance` |

`Watcher.Stop` closes the notifier, if the watcher's goroutine has come to open it; it
stops neither the event the loop holds, nor the timer, nor a callback that has begun. A
process may go on after the program has ended, which is why `ProcessEnds` is possible
even then.

* `Runner`: `ChangeRestarts`, that after a change the notifier reports comes a restart
  which begins when every change so far has been made, whether the timer is idle, armed
  or firing when the change comes, and also when a restart it is too late for is under
  way. Changes that never end put the restart off for ever, in the code as here; the run
  makes finitely many. `ShutdownEnds`, that a signal at any moment, during the boot or a restart
  too, ends the program. `CleanExit`, that it then leaves no process, no mesh entry and
  no transport behind, with the exception the code needs (`raced`): a restart that was
  due or under way when the watchers were closed can begin, or go on, behind the stop;
  and after two restarts that overlapped there may be two processes, of which `Stop`
  waits for one.

*Bounds.* Two changes (`MaxEdits`), and as many callbacks, which is enough since each
restart takes a change that no other has taken. Nothing else limits when a change comes
or the timer fires: the second change may come during the first restart, whose build
takes longer than the timer, and the two restarts then overlap each other, the boot's
process and its waiter. In a behaviour with a signal at most one restart begins, before
it or after (`MaxAtEnd`): two of them beside the shutdown are twenty million states, too
many for liveness. `ChangeRestarts` asks nothing after the signal, but `ShutdownEnds` is
not checked with two restarts; `CleanExit` is proved for any number of them. The program
may end, so the run does not check for deadlock; that it ends only when told to, and
does, is `ShutdownEnds`.
*Fairness.* Goroutines that can run do, timers fire and the notifier delivers. No
signal, change or exit has to come.

### RecentLog, RingStore, TraceStore

`RingStore` is `Add` and `Recent` of the log store, which the metrics store
repeats line for line: `entries`, `head` and `count` as in the code. Each
operation holds the lock from end to end, so each is one step, and the loop of
`Recent` is the recursive function `Collected` over the slots `Back(i)`.
`Window` maps the ring to the abstract sequence of `RecentLog`, and
`ImplementsRecentLog` says that every `Add` on the ring is a `Push` on that
window. `RecentIsLast` compares `Recent` with the last entries of the window
under every limit and every filter. Run `RingStore`: a ring of four slots and four
entries, which fills and wraps with the head in every position.

`TraceStore` instantiates that ring and adds `byTraceID`, to which `Add` appends
and from which nothing removes. Run `TraceStore` (three slots, seven spans, three
traces, more than two turns of the ring): `NoSpanMissed` (the index leads to
every span still held), `ExactUntilWrap`, `PagesTile` (the pages of `ListTraces`
list every trace once, for each page size), `RecentSpansAreLast`. Negative offsets
and limits are left out, since the handler's parsing of them is not modelled.

### Hub

One store stands for the three, which the hub treats alike; `window` is its
`RecentLog`. An entry goes from a source through `pending` (added, not yet sent:
`Add` sends after it has unlocked), `feed` (the subscription channel), `hand`
(the entry the hub's goroutine holds), `send[c]` (a client's queue) to `seen[c]`.

| Code | Actions |
|---|---|
| a store's `Add` and `Subscribe` | `Store`, `Deliver`, `Subscribe` |
| the subscription loops of `Run` | `Take`, `Forward` |
| `broadcast`, `BroadcastServiceEvent` | operator `Broadcast(m)`, used by `Forward` and `ServiceEvent` |
| `ServeWS` | `Connect` |
| a client's writer | `Write`, `WriterEnds` |
| a client's reader, its deferred function | `Ask`, `Backlog`, `BacklogDone`, `ReaderFails`, `ReaderCloses` |
| the network | `PeerGone` |

`panicked` is a send to, or a close of, a closed channel; it ends the program.
`dropped`, `lost`, `seen` and `before` are history and no action reads them.

* `Hub`: `NothingMissed`. Backlog and live feed overlap and leave no gap:
  every entry ever added has been written to the client, is on its way, was older
  than the backlog, or was dropped by a full channel. `PanicOnlyAfterDrop`: in
  every order of removal, close, broadcast and backlog, no closed queue is used unless
  `broadcast` has dropped a slow client. `GoneClientForgotten`: a client whose
  connection has failed leaves the map, whichever of its goroutines sees it.

*Bounds.* Two sources, so that sends can overtake adds; three entries in all, a feed
that holds one and a queue that holds two, so that both overflow; one client, since
clients share nothing but the map (the proof below has any number).
*Fairness.* A reader that can step does; a writer is fair only on a broken connection,
since a write to a live one can block for as long as the peer likes.

### RpcCall, Transfer

`RpcCall` is a streaming call as its two sides know it. `Transfer` is the function
of that name: the goroutine that copies from caller to target (`Up...`), the
handler's loop the other way (`Down...`), the wait and the return. The gRPC streams
are external and modelled from their use: they deliver in order, a send waits while
the reader's window is full, and once the call is cancelled or the target has ended
it an operation may fail or lose its message. The refinement mapping makes the
messages `up` and `down` of `RpcCall` from the two streams and the message each
loop holds.

* `Transfer`: `ImplementsRpcCall`. Messages arrive in order and once; the target
  sees the end of its input only after all of it and never for a cancellation; the
  caller's status is the target's, and ok only after every reply. And
  `ReturnsWhenBothDone`. *Fairness:* only the proxy's two goroutines are fair; caller
  and target may stop anywhere. The property asks that the caller has half-closed,
  and it has to: `transfer` waits for its reading loop, so a target that ends a call
  first does not end it for a caller that holds its side open.

*Bounds.* Two messages each way and a window of one: a message in each loop's hand
with another behind it, and a sender that has to wait.

### ConfigLive

A call of the web API or of an MCP tool is `Change` (the setter, under the lock),
`Skip`, `WriteBegin`, `WriteEnd` per instance (`main`'s broadcaster, writing the
shared map under that instance's mutex) or `Apply` (the DFS server), and
`SaveBuild`, `SaveOpen`, `SaveWrite` or `SaveFails` (the file: the text, the
truncation, the write). Beside the calls, `StartTransports` gives an instance a
new transport, `ReadBegin` and `ReadEnd` are a service's lookup of a DSN, and
`Crash` ends the program anywhere and starts it again from the file. Of the six
sections of the configuration it keeps those that reach a running server or were
meant to: databases with their type, buckets, mailboxes. `Torn` is a file that has
been truncated and not yet written.

* `Config`: `BucketsLive` and `DsnsLive`, which state exactly for which entries the
  servers follow the configuration (`missed` and `raced` name the others), under
  overlapping calls, failing saves and a restart; `FileIsConfig` and `SavesAgree`:
  `Save` runs under a read lock, so two can truncate and write the same file at once,
  and it is safe because that lock keeps the setters out.
* `ConfigMapRace` is expected to fail: two accesses to the shared map under the
  mutexes of two instances.

*Bounds.* Three calls of two callers: one change, one that removes it, and one that
overlaps; two instances, since one with a transport and one without take
different branches of the broadcaster; one start and one restart.

### Endpoints

The runs of one service follow each other: `life[g]` is how far the process and the
context of run `g` have come, `serve[g]` how far the goroutine of its endpoint has,
and `name` what the name of the endpoint leads to. The kinds of endpoint share only
the context and the process, so a behaviour is about one of them, chosen by `Init`;
the sockets of `mysql`, `clickhouse`, `grpcproxy`, `secrets`, `dfs` and `email` are
one kind. Nothing of a run is waited for by the next, except that its process has
been reaped; starts that overlap are `Instance`'s.

| Code | Actions |
|---|---|
| `Instance.StartTransports`, `Start`, the waiter | `Transports`, `Spawn`/`SpawnFails`, `Waited`, `Cancel` |
| `CreateSocket`, the server that closes it | `RemoveOld`, `Make`, `Chmod`, `CloseSocket` |
| `HttpProxy.Run` | `ListenPort`, `Shutdown` |
| `CreatePipeBlocking` | `RemoveOld`, `Make`, `OpenFifo`, `Opened` |
| `OpenTracing.Serve` | `Loop`, `Decode`, `EndOfFile` |
| `ToService.Run` of the scraper | `Dialled`, `ScraperEnds` |
| `Instance.captureOutput` | `Capture`, `CaptureEnds` |
| the service, the kernel | `ServiceListens`, `ServiceOpens`, `ServiceWrites`, `Dies` |

`cmd.Wait` closes the pipe the output is read from, so `Waited` may drop what the
scanner has not read, or leave it a part of a line. `pipe` holds records, each `good`,
`odd` (JSON of another type), `broken` (no JSON, or a line longer than the scanner's
buffer) or `cut`.

* `Endpoints`: `OwnsItsName`, for a run that began with the endpoints before it
  closed (`apart`): none of its own fails, and its name leads to what it has opened
  until its process has ended. `StoredAsWritten`: the stores get what the process of
  such a run wrote in order, once and without gaps, up to what cannot be read, and only
  the last line may be a part of one. `ReleasedInEnd`:
  a run whose context has ended gives its name up and its goroutines end, with the
  two exceptions the FIFO needs. `StoredWhileRunning`: what can be read is stored
  while the process runs.

*Bounds.* Two runs: every property relates a run to the one before it, and to
what a killed runner has left behind (`Leftover`). Two records and a pipe of two: one
behind an unreadable one, and a writer that has to wait.
*Fairness.* The runner's goroutines run when they can. The service need not write,
listen or end, and nobody has to start it again.

### DfsFile, Mailbox, Backends

`DfsFile` is one call of `File` (`dfs/dfs.go`): the loop receives a request
(`current`), and an action named for the request is one round of it, except that
`Open` looks its bucket up under the lock (`OpenLookup`) and opens the file after it
(`OpenFile`). Beside the stream, `AddBucket` and `RemoveBucket` come from the
configuration, and `UnaryLookup` with `UnaryActs` is a `MkDir`, `RemoveAll` or
`Rename`. The file system is external and only as deep as that: names that lead to
inodes, inodes with a length, and `Outside`, the working directory that the path of
an unknown bucket leads to. `dfs.go:78` hands `os.OpenFile` whatever flags the client
sends: an `Open` has any set of `Modes`, and `CanOpen`, `Opened` and `WritesAt` are what
the access, O_CREATE, O_EXCL, O_TRUNC and O_APPEND do to files and offsets. Flags that do
nothing to either (O_SYNC), and those of one operating system (O_DIRECTORY, O_TMPFILE),
are left out.

`Mailbox` is one mailbox. A call of `DeleteMessage`, `MoveMessage` or `GetMessage` is
one action per IMAP command, and each may fail with or without its effect; listing
page by page is `ListSelect` and `ListFetch`; sending is one action per SMTP
command, and a service that was refused tries again. The servers are external: UIDs
grow and belong to a folder, a session keeps the numbering of its SELECT, EXPUNGE
removes whatever is marked, and the IMAP server is taken to know MOVE (without it the
library falls back to COPY, STORE and EXPUNGE).

`Backends` puts the two in one program. They share nothing, so its run is a sum
of three: files, folders, outgoing mail.

* `Backends`: `InStep` (the client, who gets answers without a number, can count
  which request each is for, with the exception of section 5), `ClientKnowsPosition`
  (the answers tell it whether it has a file and, unless its last write went to the end
  of a file it has opened to append, where in it: `Seen` goes over them with `Told`,
  which is all a client can do), `CrashExplained` (which requests end the program, and
  that nothing else does: not the removal of the file or of its bucket while the stream
  holds it). `PagesCover` (a listing page by page gets every message that stayed),
  `DeletesWhatWasNamed` (nobody's message goes that no call named, though a failed call
  leaves its mark), `NotFoundIsTrue`.
  `SentToAllOrNone` (an email goes to all recipients or none, once per success and
  once more for each failure that came after the server had accepted it).

*Bounds.* Three requests on a stream, two names, two changes beside it: an open, what
it finds, and what comes after, with each change at each place. Four sets of flags
(`MCModes`): `os.Open`, `os.Create`, an append to a file that must exist, and an exclusive
creation without reading; the proofs are for any. Two messages in each of two folders,
so that the folders have UIDs in common, with one arrival, pages of one and two calls;
three attempts to send.

### WireMessages, Wire

The generated bindings write `Size`, `MarshalToSizedBuffer` and `Unmarshal` out for each
message, always in the same way for the kind of each field. So a message is the list
of its fields in `WireMessages` (number, kind, the fields of what it contains), with
its lines in `PROJECT.json`, and the functions are operators of `Wire` over such a
list: `Size` and `sov`; `Encode` and `Marshal`, which fills a buffer of `Size` bytes
from its end; `ReadVarint`, `ReadDelimited`, `Skip`, `Unmarshal`, with the errors in
the order of the code.

Nothing here is a recursive operator, so that it can be proved about: a loop over
bytes is a function of the position (`EncodeVarint`, `SkipFrom`, `Items`), and messages,
which nest three deep at most, have an operator for each level (`LeafEncode`,
`InnerEncode`, `Encode`, and likewise for `Size` and `Unmarshal`) made from one that
takes the operator for the messages within (`EncodeFields`, `SizeOf`, `ReadFields`). The
loop of `Unmarshal` is in two steps: `Items` finds each field and its bytes, and `Turn`
assigns it. An error ends both at the same field, whichever of the two finds it.

A behaviour is one message between two peers, and what a peer of another version or
with another library may do to it on the way: `NewerPeer` (a field this version does
not know), `OtherOrder`, `WithZeros`, `Cut`. `Fits` keeps what is sent within the length
that an int can say, as a slice's is; no message of the runs comes near it.

* `Wire`: `RoundTrip` and `CutIsSeen`, for all 39 messages with any two fields
  set, none or all. A sum over the messages rather than a state space: the work is in
  the operators. Both are theorems too, for any width, texts and numbers.

*Bounds.* Words are narrower than in the program so that TLC's integers hold them:
15 bits, two groups of seven and one bit more, where 64 are nine groups and one bit
more; int32 and uint32 are 8 bits. Texts of 1 and of 128 bytes have lengths of one
and of two groups. gRPC frames each message by its length, so that a cut one is rare;
`CutIsSeen` says what the code does with it all the same.

## 4. What is proved

All proofs are for every value of the constants; the assumptions on constants are
the ASSUMEs of the modules, which every run of the module evaluates.

| Theorem | Says | Rests on |
|---|---|---|
| `InstanceProofs!TypeCorrect` | `[]TypeOK` | |
| `InstanceProofs!RunsFollowLifecycle` | `[]LifeInv` | inductive: how far context, process and waiter have come at each `pc` (`Lifecycle`), and that a cancel function somebody holds is that of a context that exists (`CancelExists`) |
| `InstanceProofs!ContextsDoNotLeak`, `ProcessFieldIsFresh`, `StartingIsExplained`, `RegistryHasNoGhosts` | the four invariants that survive overlapping calls | `LifeInv`; the last one also on how each step changes the cardinality of `Registrants` |
| `InstanceProofs!OneProcess` | `[]AtMostOneProcess`, assuming `~Overlap` | `LifeInv` and `Serial`: one call in flight, and every process its waiter has not settled is in the process field |
| `InstanceProofs!SerialFieldsTell` | `[]SerialInv`, assuming `~Overlap` | `Serial` and `FieldsTell`: at each place of the call in flight and of the waiters, what the status, the stopping flag, the process field and the mesh say, and which contexts are open |
| `InstanceProofs!StatusIsTrue`, `StopsAreComplete`, `CrashesAreReported` | `[]StatusTellsTruth`, and the action properties `StopMeansStopped` and `CrashReported`, assuming `~Overlap` | `SerialInv` |
| `InstanceProofs!RunnerMakesCalls` | `RunnerSpec => Spec`: what holds of an instance however its calls overlap holds in the program | each step of `Runner` is a step of `Instance` or leaves it alone |
| `InstanceProofs!ExitIsClean` | `[]CleanExit` | `RunnerInv`: the boot call comes first and the one of the shutdown is its Stop (`PhasesInTurn`), restarts come from a watcher, which a service in manual mode does not have (`RestartsAreWatched`), and none is due once the watchers are closed (`WatchersClosed`). So as long as nothing has `raced` calls come in turn although `Overlap` allows any (`CallsInTurn`), `SerialInv` holds, and what the Stop leaves when it ends (`SettledIsStopped`) stays so (`StaysStopped`) |
| `RingStoreProofs!TypeCorrect`, `RingImplementsRecentLog` | `[]TypeOK`; the ring refines the window | how an `Add` changes `Window` on a ring that is full, and on one that is not |
| `RingStoreProofs!RecentIsLastMatches` | `[]RecentIsLast` | what the walk of `Recent` has got after i steps is the newest matches of the i newest entries, and a filter of a sequence is described by the ranks of what passes (`CollectedAreNewest`, `MatchingIs`) |
| `TraceStoreProofs!TypeCorrect`, `NoRetainedSpanMissed` | `[]TypeOK`, `[]NoSpanMissed` | the ring's own type invariant |
| `TraceStoreProofs!RecentSpansAreTheLast`, `QueriesAreExactUntilWrap` | `[]RecentSpansAreLast`, `[]ExactUntilWrap` | the arithmetic of the slots; while nothing is overwritten the index of a trace is the slots of its spans in order (`Exact`) |
| `TraceStoreProofs!PagesTileTheListing` | `[]PagesTile` | the walk of `ListTraces` lists each trace of the ring once (`ListsOnce`), and a place of a listing is in one page (`NextPage`, `PlaceUnique`) |
| `HubProofs!TypeCorrect`, `PanicNeedsSlowClient` | `[]TypeOK`, `[]PanicOnlyAfterDrop` | `CloseInv`: a listed client has a live reader and was not dropped; a closed queue was closed by a drop or by a reader that has ended |
| `HubProofs!NothingIsMissed` | `[]NothingMissed` | `MissInv`: every entry added is one that reaches a listening client or has a reason not to (`Reaches`); a client that has not connected has not asked, and a reader outside its backlog has nothing of one left |
| `ProtocolProofs!TransferImplementsRpcCall` | `Spec => ImplementsRpcCall`: the proxy refines the direct call | `TransferInv`: while the call is on, what the target has, what is in the stream, in the loop's hand and in the other stream add up to what was sent (`UpInv`), and likewise the replies (`DownInv`); an error of the handler is the target's, or the call is cancelled. Then one step of `RpcCall`, or a stutter, for each action; laws of three queues in a row (`ThroughLaws`) |
| `ProtocolProofs!WireIsInvariant`, `RoundTripHolds`, `CutIsSeenHolds` | `[]WireInv`, `[]RoundTrip`, `[]CutIsSeen` | `WireInv`: what is written is the encoding of a sound message, what is changed is read as that message, and what is cut is read as an end or as a message of its own (`WrittenInv`, `ChangedInv`, `CutInv`). The two properties speak of the stage `read` only and are not inductive without it. Then the theorems on the operators, below |
| `ProtocolProofs!EveryMessageIsRead`, `NewerPeerIsRead`, `OtherOrderIsRead`, `ZerosAreRead`, `EveryCutIsSeen` | what the runs check for samples, of every sound message of the program | the loop taken apart: `Reached` and `Takes` |
| `ProtocolProofs!MarshalFillsItsBuffer`, `SovIsLength`, `VarintIsRead`, `SkipStands` | the size is the length of what is written; a varint is read as it was written; skip does not look past the field | the groups of seven bits of a number (`InGroups`, `Weight`), and `Induction` |
| `ConfigLiveProofs!TypeCorrect` | `[]TypeOK` | |
| `ConfigLiveProofs!OverlappingSavesAgree`, `SavedFileIsConfig` | `[]SavesAgree`, `[]FileIsConfig` | `SaveInv`, the two together |
| `ConfigLiveProofs!BucketsAreLive`, `DsnsAreLive` | `[]BucketsLive`, `[]DsnsLive` | `LiveInv`: an entry in which a server and the configuration differ was raced or missed, or has a call pending that is to write what the configuration has (`BucketPart`, `DsnPart`); only calls about databases go to the transports (`Broadcasting`) |
| `EndpointsProofs!RunOwnsItsName` | `[]OwnsItsName` | `IInv`: a run begins when the processes of those before it are gone (`Ordered`); those before a run of `apart` stay closed (`Alone`); who has the port listens on it (`Held`); the name between removing, making and opening is that run's or nobody's (`Opening`) |
| `EndpointsProofs!StoredInOrder` | `[]StoredAsWritten` | `IInv` and `DataInv`: of what the process of a run in `apart` has written, the first b records are told to the stores, the next k are the first of its pipe and the rest is lost (`Flow`); nobody else reads that pipe, and who else writes to it comes later (`NamesInv`) |
| `BackendsProofs!EmailSentToAllOrNone` | `[]SentToAllOrNone` | `Taken`: the recipients the server has are the first ones of the list |
| `BackendsProofs!AnswersInStep` | `[]InStep` | `InStepInv`: between two requests as many are answered as there are answers without the repeated ones, and between the two answers to an `Open` of an unknown bucket the first is one ahead; an answer appended adds one to `Repeats`, or nothing |
| `BackendsProofs!ClientFollows`, `CrashesAreExplained` | `[]ClientKnowsPosition`, `[]CrashExplained` | `SeenInv`: at each place of a round what the client has seen is where the server is (`Known`: they agree on whether there is a file, whether it is written at its end, and on the offset as long as that is `told`), also when the file was removed under it; one more answer moves `Seen` by `Told` (`SeenNext`) |
| `BackendsProofs!OnlyNamedAreDeleted` | `[]DeletesWhatWasNamed` | `MailBase`: the UIDs of a folder grow and are given once; `NamedInv`: what is marked, and what a call under way is about to mark, was named by a call, and what is deleted stays gone |
| `BackendsProofs!NotFoundIsSo` | `[]NotFoundIsTrue` | `MailBase` and `SoughtInv`: a folder a call has looked through in vain did not have the message when it began, or lost it, or was passed over by an error (`skipped`) |
| `BackendsProofs!PagesMissNothing` | `[]PagesCover` | `PagingInv`: as long as no message has left the folder, the client has those of the first ones whose rank, counted from the newest, is within the number it has got (`Have`), and if none has come either it has them in order (`InOrder`); a message that comes only raises ranks (`RankGrows`), and a page is an interval of them (`PageRanks`) |
| `BackendsProofs!PagesPartition` | every message is in exactly one page of a listing that does not change | `PageRange` as an interval of distances from the newest message |

`AtMostOneProcess` alone is not inductive: nothing in it keeps a start that has
passed its check from meeting a process in the field. `Serial` adds that, and
`Lifecycle` adds that a process alive has a call or a waiter in charge of it.

Of the refinement only the safety part is there to prove: `RpcCall` states no fairness.

*The wire format.* Reading undoes writing from the inside out. What a function reads at
a position depends only on the bytes it takes: `Stands(e, d, i)` says that the bytes e
are in d at i, and `Begins(e, d, i)` that d ends within them. So a varint, a delimited
text and an unknown field are read alone and wherever they stand, and where they only
begin the answer is `eof`. `Reached(l, fields, d, base, i, m)` says that the loop comes to i
having read m, and `Takes(l, fields, c, m, m2)` that the bytes c take it from m to m2 in
any buffer; chunks that take are put one behind the other (in the order of the fields,
in the reverse, with a foreign field between two, with zeros), which gives the whole
message. `Decodes(l)`, that every value of a message of level l is read from its
encoding, rests on `Decodes(l - 1)`, and likewise `Counts(l)` for the sizes. A cut
within a part (a tag and what follows it) is an end, since a text or a message within is
taken only if all of it is there; a cut between two parts leaves the encoding of the
message without the later ones, and that one is read. What a peer can rely on is stated for any `Sound` message: one whose
values are in the range of their fields, with at most one case of the oneof. That the
samples of the runs are sound is a lemma (`SamplesSound`), and so is that the 39 layouts
are what the proofs take them for (`LayoutIsLaid`). `Sound` quantifies over all
sequences, so that TLC cannot evaluate it and `WireInv` is not among the invariants of
the run; what of it the run can check is its last two parts, the two properties.

Assumed are `WireAssumption` (a word is some full groups of seven and one bit, as 64 is
nine and one, and a half has eight bits or more) and `UnknownAssumption` (an unknown
field is one that skip finds the end of, and whose number no layout has), which the run
evaluates on its instance. The width of the program is one of those the theorems cover.

`Transfer` and `Wire` share a proof module, both being about what crosses a service's
sockets; neither uses definitions of the other.

Only model-checked:

* all liveness, and what it needs of fairness and ENABLED, which is beyond the
  prover: `CallsReturn`, `GoneClientForgotten`, `ReturnsWhenBothDone`,
  `ChangeRestarts`, `ShutdownEnds`, `ReleasedInEnd`, `StoredWhileRunning`.

Every invariant and every action property of the passing runs is a theorem.

What a recursive function computes, of the walks over a ring and of `Seen`, is proved
by the induction of `RingStoreProofs` (`Induction`: a set of numbers that is closed
under successor is all of them). It takes a set where the library's takes an
operator, and rests on the library's theorem that a well-founded order has least
elements. `ProtocolProofs` has an `Induction` of its own, over all smaller numbers, and
from it that a function exists which is defined by a recursive call on arguments of
lower rank (`RecursionExists`): `Pow2`, `BitLen`, `EncodeVarint`, `Total`, the groups of
`ReadVarint`, `SkipFrom`, `Items` and the run of the loop get their equations from it.
Without that a CHOOSE, which is what a recursive definition is, says nothing.
`RecentLog!Matching` and `SeenIn` are functions of the models, and not the
library's filter and fold, so that this induction can speak of their steps; and
`StoredAsWritten` and the invariants of `Mailbox` are about places and sets for the
same reason.

## 5. What the code does otherwise

One run is expected to fail. `ConfigMapRace`: two instances access the map of DSNs they
share under mutexes of their own. `PROJECT.json` ("findings") quotes both sides.

The rest are exceptions that the passing properties name, each of which the model
reaches:

* a `Stop` or a `Start` that comes between a `Start`'s check and its assignments
  finds nothing to stop, or starts a second process (`StatusTellsTruth`,
  `StopMeansStopped` and `AtMostOneProcess` are for `Overlap = FALSE`);
* after the span ring has wrapped, `GetTrace` returns spans of other traces
  (`ExactUntilWrap`);
* dropping a slow browser closes its queue, and its reader closes it again, which ends
  the program (`PanicOnlyAfterDrop`);
* a database changed while no instance has a MySQL transport, or turned into a
  ClickHouse database, takes effect only after a restart (`missed` in `DsnsLive`);
* a crash between truncation and write loses the configuration (`Crash` from `Torn`);
* a restart that was due when the watchers were closed goes on behind the shutdown
  (`raced` in `CleanExit`);
* a run that begins before the endpoints of the last are closed may have its socket
  file removed by them, find its port taken, or have its service open the FIFO of
  the run before (`apart` in `OwnsItsName` and `StoredWhileRunning`); the goroutine
  that opens a FIFO nobody writes to stays (`ReleasedInEnd`);
* the capture of the output ends at a line longer than a MiB, the tracer at the first
  bytes that are no JSON, and the last lines before an exit may be lost or cut
  (`Readable` and `cut` in `StoredAsWritten`);
* an `Open` of an unknown bucket is answered twice and opens a path outside any bucket
  (`InStep`); a write to a file opened to append moves the offset to the end of the
  file, while its answer says only how much was written, so that the client does not
  know where it is until it seeks (`told` in `ClientKnowsPosition`, `dfs.go:119-122`);
  a `Stat` with no file open, a read of less than nothing and a request of
  an unknown kind end the program (`CrashExplained`);
* an email whose call failed late has been sent, and is sent again by a service that
  retries (`late` in `SentToAllOrNone`); a page of a listing is counted from the newest
  message, so that one removed meanwhile makes the next page skip one
  (`PagesCover`);
* a mailbox added at run time reaches no server, for there is no code that would pass
  it on.

## 6. What is not modelled

* The client and server stubs of the bindings, which name a method and call gRPC, and
  `webui/static.go`, which is assets as bytes.
* The frontend's rendering and reconnect, the MCP guide and resources, the request
  guard: text, or checks without state.
* The MySQL and ClickHouse protocols, HTTP forwarding, the parsing of metrics:
  libraries, or a conversion no property is about.
* Reads that change nothing: lookups of the registry and of secrets, `ResolveMailbox`,
  the query tools and the read-only handlers.
* What `Save` writes and `Load` reads back for unusual names and values: `Torn`, the
  old text and the new are the only contents of the file.
* The text of an email and the choice of its server; what a directory holds.
* `Unsubscribe` of the stores and `CreatePipe`, which only tests call.
* Three things that could go wrong and that no property speaks of: an instance chosen
  by `registry.go:76` may be gone when the caller dials it (the call fails, and no state
  of the runner depends on it); a page asks for its backlog only if its socket is open
  at that moment, and never after a reconnect (`useWebSocket.ts:81`); a mailbox added by
  `config_tools.go:206` is saved and reaches no server.

## 7. Plan

What would come next, in this order.

1. **Ini**: what `Save` writes and `Load` reads back, for quotes, line breaks and
   section order; the conversion modelled by what it does.
2. **Runner**, extended: calls of the web API beside the restarts. Property: when all
   is quiet, the process that runs was built after the last change.
3. **Mesh**: registry lookup, readiness of a service's socket, instances that come and
   go. Property: a call reaches a registered instance or fails.
4. The page's side of `Hub`: when it asks for its backlog, and the reconnect.

## 8. Running it

`tlc -config InstanceSerial.cfg MCInstance`, and likewise for the runs of
`PROJECT.json`; `tlapm InstanceProofs.tla`, and likewise for the other `*Proofs`
modules. Each run takes a minute at most; `ProtocolProofs` takes about ten
minutes, the other proofs a few each.
