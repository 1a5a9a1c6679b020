# TLA+ models of PTPPM

PTPPM is a C++ desktop application: a Dear ImGui window over an echo server, a client and a
library of networking and task classes (`wrap_boost`).  All of its concurrency is in that
library: four threads run one `boost::asio::io_context`, user threads call into it, and task
and scheduler threads of its own call back.  This directory holds TLA+ models of the library
and of the client and the listener built on it, the TLC runs that check them, and TLAPS proofs
of every safety property of the runs that hold.

## The system

| part | state it keeps | operations | talks to |
|---|---|---|---|
| `NetworkConnection` (`wrap_boost_network.cpp`) | `connected_`, `writeQueue_`, `writeMutex_`, `readBuffer_`, the socket | `start`, `send`, `close`, completion handlers of `async_read_some` and `async_write` | asio below, `NetworkManager` above |
| `NetworkManager` (same file) | `connections_` under `connectionsMutex_`, `listening_`, the acceptor, four io threads | `connect`, `disconnect`, `send`, `broadcast`, `startListening`, `stopListening`, callbacks of its connections | connections below, one `INetworkEventHandler` above |
| `PeerManager` (`wrap_boost_peer.cpp`) | `peers_` under `peersMutex_`, `nextPeerId_`, the discovery cache, `running_` | `start`, `stop`, `addPeer`, `removePeer`, `connectToPeer`, `disconnectPeer`, `onConnect`, `onMessage`, `onDisconnect`, the discovery messages and their task | a `NetworkManager`, a `TaskScheduler`, an event handler |
| `TaskExecutor`, `Task` (`wrap_boost_task.*`) | queue and condition variable, workers, `activeTasks_`, a running count; per task its state, result and cancellation flag | `start`, `stop`, `submit`, `cancelTask`, `waitForCompletion`, `getResult`, the worker loop | callbacks of the tasks |
| `TaskScheduler` (same files) | a map and a priority queue that both hold every scheduled task, one thread | `start`, `stop`, `scheduleOnce`, `scheduleRecurring`, `cancelScheduledTask` | an executor |
| `DynamicBuffer` and its pool (`dynamic_buffer.cpp`) | a vector and two positions | `append`, `consume`, `reserve`, `resize`, `clear`, reading in place | connections |
| buffer codec (`network_buffer_utils.cpp`) | none; the reader keeps an offset | fixed and variable-length integers, floats, strings, raw bytes | buffers |
| `NetworkClient` (`network_client.cpp`) | `connected_` and `connectionId_`, neither atomic nor under a mutex | `connect`, `disconnect`, callbacks | a `NetworkManager`, the user interface |
| `NetworkServer` (`network_server.cpp`) | `isRunning_`, client endpoints | `start`, `stop`, callbacks (echo) | a `NetworkManager` |
| application and user interface | the current server and client, text fields | buttons | client and server |
| serialization (`wrap_boost_serialization.*`) | none | archives, compact integers | |
| tests, vendored libraries | none of their own | | |

What is hard in it: callbacks run on any io thread and are interleaved with the calls that
started them (an id is stored only after the asynchronous call has begun to use it); callbacks
are made with mutexes locked; state is read in one critical section and changed in another;
condition variables and flags must not lose a wakeup; a timer sleeps while its queue changes;
handlers keep raw pointers to connections that other threads drop; the destructor of the manager
closes a snapshot of a map that is still changing; the stream cuts fields in two;
`stop` and a second `start` meet work that is under way; positions in a buffer wrap.
Nothing is persisted, so that a restart is only the restart of a class.

What makes each part correct: a connection never has two writes outstanding and passes on what
it accepted, once and in order, and sees the loss of its peer; the manager's map holds no dead
connection and whoever heard of a connection hears of its end; a table of peers and the
connections agree; a task runs at most once and its waiters get one answer; a scheduled task runs
when it is due and never after it was cancelled; a buffer is a byte queue within its memory; the
client shows "connected" exactly when a connection is alive; a client that connects is served.

## Modules

| module | models | needs |
|---|---|---|
| `FifoLink` | abstract: a stream of accepted messages that ends at most once | |
| `NetworkConnection` | one connection: start, send, write loop, read loop, close | refines `FifoLink` |
| `NetworkManager` | the map of connections, its calls and handlers, the life of connections, the destructor | |
| `PeerManager` | the table of peers over several connections | |
| `PeerDiscovery` | start, stop and discovery of one node towards remote nodes | |
| `NetworkClient` | the application's client over several connections, and the frames of its window | |
| `Listener` | server start and stop and the accept loop | |
| `TaskPool` | abstract: what a pool promises about tasks | |
| `TaskExecutor` | the executor with its workers and tasks | refines `TaskPool` |
| `TaskScheduler` | the scheduler over a discrete clock | |
| `DynamicBuffer` | the buffer, operation by operation | |
| `BufferCodec` | fields written, cut in pieces and read | a byte queue, which `DynamicBuffer` is |

For each of `NetworkConnection`, `NetworkManager`, `PeerManager`, `PeerDiscovery`,
`NetworkClient`, `TaskExecutor` and `TaskScheduler` a module of the same name with `Proofs` at its
end extends it with its inductive invariant, theorems and proofs; `BufferProofs` does so for both
`DynamicBuffer` and `BufferCodec`, which share lemmas about sequences and numbers.  Each `MC*`
module gives a specification small sets of model values and symmetry, and the `.cfg` files give
its bounds.

### How state and actions correspond to the code

Common conventions.  A step is one critical section of a mutex, one access to a shared flag, or
one call of asio; a thread that is between two of them has the place in `pc` (`wpc`, `upc`,
`opc`, `spc`).  A mutex that the code keeps locked across several of these steps is a variable
that holds the owner; one that is released within a step needs none, and the step then requires
that nobody keeps it.  Locking a `std::mutex` a second time is undefined; both things it does in
practice, an exception and a thread that waits for itself for ever, are actions.  Variables
under the comment "history" are read by properties and never by an action.  Definitions under a
comment "Mutation" are mistakes the code does not make; they show that a property can fail.

* **NetworkConnection.** `queue` is `writeQueue_`, `writing` the message of the outstanding
  `async_write`, `wire` what has gone to the socket, `accepted` how many messages `send()` has
  taken.  Messages are numbers in the order of acceptance.  `async_write` gets a buffer over a
  temporary vector (line 267), so that what goes to the wire is the message or `Garbage`.
  `HandleWriteOk` pops and goes on to `startWrite()` with `writeMutex_` still locked; when the
  queue is empty that returns before it locks (`RewriteSkipped`), and otherwise the thread is
  `stuck` (`RelockBlocks`) or leaves `run()` (`RelockThrows`).  `close()` is a test, a shutdown,
  a flag and a notification, each a step.
* **NetworkManager.** `connections` are the keys of `connections_`, `held[t]` the connections
  thread `t` has a `shared_ptr` to, and `Alive` says that some `shared_ptr` exists: in the map,
  in the lambda of `async_connect`, or in the locals of a call.  Handlers of reads and writes
  have a raw pointer only: `Crash` is what they may do on a destroyed connection, and after it
  nothing is claimed.  `send()` of one connection is one step, with the relock of `handleWrite`
  as its two outcomes `stuck` and `gone`.  `OnConnectThrows` and `OnConnectBlocks` are an event
  handler that throws, or that calls the manager from `onConnect` while `connectionsMutex_` is
  locked, as `PeerManager` does in `sendPeerList`.  Histories name the exceptions of the
  properties: `spoiled` connections whose `start()` failed, `late` ones that were established
  after the destructor had looked, and `foreign` ones that somebody wrote to or closed.  The
  destructor is `Destroy`, the closes, `Stop` (`ioContext_.stop()`) and `Joined`;
  `stopListening()` does nothing, since nothing is accepted.
* **PeerManager.** `pstate` and `pconn` are the entries of `peers_`.  Of a connection the module
  keeps `link`, whether `connections_` holds it, and whether its read is armed.  `onConnect` runs
  with `connectionsMutex_` locked, as the completion of `async_connect` has it; `removePeer`
  disconnects with `peersMutex_` locked.  `dirty` records two situations in which the code mixes
  connections up: `onConnect` before `connectToPeer` has stored the id, and `connectToPeer` while
  an earlier connection of the same peer is not over.  `abandoned` are the connections whose end
  `removePeer` has failed to handle: `onDisconnect` comes back to the thread that has
  `peersMutex_` locked, and when the second lock throws (`RemoveThrows`) the peer stays in the
  table, shown as connected, with a connection that is closed.  When it waits instead, it waits for
  ever (`RemovalHangs`).  The properties name these exceptions; what they show is that every other
  peer agrees with its connection.  A connection whose peer was removed while it was being made
  gets a peer of its own, which then is its `owner`.
* **PeerDiscovery.** The table is how many entries each endpoint has.  A connection is made for an
  endpoint of the table (`ConnectToPeer`, `ConnectFails`), and `onConnect` finds its peer or, when
  it has overtaken `connectToPeer` or the peer was removed, adds a second entry (`AdoptPeer`,
  counted in `adopted`); it may end (`Disconnect`, or `stop()`) and be made again.  A handler
  searches (`Lookup`) and adds (`AddDiscovered`) in two critical sections.  Addresses are numeric,
  so that the address of the socket is the one connected to, and the remote nodes do not restart:
  the sender ids of one that does begin at 1 again.  `recent` is the cache of
  sender ids, and an entry may expire at any time, which stands for the 300 seconds.
  `sendPeerList` locks a mutex again in nearly every case.  `early` says that discovery was
  enabled before `start()`.  The module takes for granted that the remote node accepts; a node
  whose listener is `Listener` does not.
* **NetworkClient.** Every access to `connected_` and `connectionId_` is a step.  A frame of the
  window reads `connected_` (`Look`) and offers one button (`online`, `offline`); what it reads
  may have changed when the button is pressed.  `Quit` is the destructor of the core
  `NetworkManager`, `Destroy` that of the client.  `mixed` and `overtaken` are the situations in
  which the code loses a connection: `connect()` while another one is not over, and `onConnect`
  before the id is stored.
* **Listener.** A client in `backlog` has a TCP connection the kernel has completed.
* **TaskExecutor.** `result` is what `getResult()` waits for, `cur` and `wpc` what each worker
  has popped and where it is in `execute()` and `notifyComplete()`.  `lost` are the tasks that
  `stop()` dropped or `submit()` refused.
* **TaskScheduler.** `scheduled` is the map, `queue` the priority queue with the times `due`;
  `first` is the time the copy in the map keeps, and `stale` the tasks that a cancellation put
  back with this old time.  `SleepsTooLong` is the predicate of `wait_for`.
* **DynamicBuffer.** `buf.mem` is the memory, `buf.len` the elements the vector counts, `rp` and
  `wp` the positions.  Sizes count modulo `SizeMod` where the code subtracts unsigned numbers.
  `spoilt` says that bytes received behind the elements were appended to or moved.  `Truncate`
  and `Grow` are `resize()` to less and to more.
* **BufferCodec.** `Encode` and `Decode` are the functions of `NetworkBufferUtils` by kind of
  field; `compact` is the integer of `serializeCompactInt`, which has the same form and no test
  of the length.  The bits of a byte and of the integers are parameters; the bytes of an integer are
  its digits (`BigEndian`), and `Value` and `Collect` put digits together as the loops of the
  code do.  A read that throws leaves the offset where the code leaves it; the reader may
  put it back, and if it does not the state is `torn`.

`PROJECT.json` gives the lines of each definition.

## Runs

| run | shows | bounds |
|---|---|---|
| `connection` | one write outstanding and for the head of the queue; writing stops only by the relock; the stream without loss; one owner of the read buffer; `onDisconnect` reported and after `onConnect`; the FIFO link; the loss of the peer noticed | 2 callers, 2 io threads, 2 messages, 2 reads |
| `connection_stall` | violation: an accepted message is never written although the connection is up | 1 caller, 2 messages |
| `peers` | two peers share a connection, a connected peer has none, or a connection is lost to its peer only in the excluded situations | 1 user, 2 io threads, 2 connections, a removal |
| `peers_progress` | `disconnectPeer` completes, also when `onConnect` overwrites DISCONNECTING; calls return; both unless a `removePeer` waits for ever | 2 users, 2 io threads, 1 connection, a removal |
| `discovery` | the messages give an endpoint at most one entry per connection, beyond what users and `onConnect` add; the cache of senders ignores only strangers; the announcements follow the switch | 2 remote nodes, connections made any number of times, 1 endpoint, 1 entry added by a user and 1 by `onConnect`, 2 messages each that name it twice at most, 2 tasks |
| `client` | "connected" only for a live connection; a live connection is shown and can be closed, outside the excluded situations | 3 io threads, 3 connections |
| `manager` | entries that are not connected are on their way in or out; a quiet end leaves no handler behind; every reported connection is reported closed, by the destructor at the latest; calls and the destructor return; a lost connection leaves the map | 1 caller, 2 io threads, 2 connections, any number of messages |
| `listener` | violation: a client that has connected is never accepted | 2 clients |
| `executor` | the pool's promises; no wakeup lost; COMPLETED exactly with a value, also after a callback has thrown; results stable; `waitForCompletion`; `stop()` and `getResult()` return | 2 tasks of different priority, 2 workers, 1 user, 2 starts |
| `scheduler` | map and queue the same; once means once; no sleep too long; distance between executions; what is due is executed | 2 users, 2 tasks, 5 instants, 2 starts |
| `buffer` | positions within the memory, a byte queue | lengths to 3, 6 bytes, capacity to 7 |
| `codec` | no read leaves what has arrived; what was written is read; all of it can be read, but for the tenth byte | 18 fields of all kinds, 3 in a row; bytes of 3 bits, integers of 5, lengths of 2 bytes |

The bounds are small because the hazards need few actors: a lost wakeup or a double write takes
two callers and one completion; a second connection of a peer takes two connections; a relock
takes a second message; a rebuild of the scheduler's queue takes two tasks, and a missed sleep a
second task that is due earlier.  Two starts are enough for what survives a stop.  The buffer
grows twice, wraps and compacts at the boundary within its bounds.  The three connections of
`client` give a live, an old and a new one at once.  In `manager` a second connection makes
`disconnectAll()` and the destructor work on a snapshot of which one entry has changed, and the
two io threads let a read and a write of one connection fail at once.  The widths of `codec` keep
what matters of the real ones: the width of the integers is one more than a multiple of the bits
of a group, as 64 is of 7, and the fields reach both sides of every boundary.  The type invariants
of the modules that no run lists are there for the proofs.  `connection`, `manager`, `executor`,
`scheduler` and `peers_progress` run under fairness and without symmetry, which is not sound for
liveness.  All but the liveness properties are proved for all sizes as well, the codec for 7 bits
in a group and integers of 64 bits among others.  Runs without deadlock check are of systems that
may stop: the threads of a finished call, or of a relocked mutex, have nothing left to do.

### Fairness

Fairness is weak and of threads, never of outcomes: a thread that has a next step takes it
(`Continue`, `Worker`, `UserStep`, `StopStep`, `Thread`), as the operating system schedules it,
and an outstanding asio operation completes, in success or failure.  In `PeerManager` the
exception of a second lock is not fair: the thread may as well wait for ever.  Users are not fair:
they need not call anything.  In `TaskScheduler` the clock is fair and wakes without reason are
not. In `NetworkConnection` the end of the peer is not fair; that it is noticed is.  In
`NetworkManager` the failed read of a broken connection is strongly fair: an io thread may be busy
with other handlers again and again, but the queue of the `io_context` is first in, first out.  In
`Listener` the kernel hands out the backlog in order.

### What the exceptions mean

Many properties name an exception, mostly by a history variable: `dirty` and `abandoned`,
`adopted`, `overtaken` and `mixed`, `spoiled`, `late` and `foreign`, `threw`, `stale`, `spoilt`,
`early`.  Each is a thing that the code does and that one might not want; the actions of the module
do it, and the property does not claim that it is absent.  What the property says is that it is
the only way to get there: whatever else is interleaved with it, the rest stays right.  The notes
of the hazards in `PROJECT.json` say for each of them which part is shown.

### What the runs found

* `handleWrite` (line 276) locks `writeMutex_` and `startWrite()` (line 259) locks it again when a
  second message is queued.  `AcceptedIsWritten` fails.
* `startListening()` calls `startAccept()` (line 337) before it sets `listening_` (line 338), and
  `startAccept()` returns when `listening_` is false (line 547).  No `async_accept` is ever
  started.  `ClientIsServed` fails, and holds when `listening_` is set first.

The hazards of `PROJECT.json` list what else the models show and no sentence of the repository
denies: a peer stays CONNECTING after a failed connect, `onConnect` overtakes the caller that
stores the id, `sendPeerList` relocks `peersMutex_`, discovery enabled before `start()` does not
run, the sender ids of different nodes collide; a connection whose `start()` failed stays in the
map for good; `disconnect()` of a connection destroys it while the handler of its read is
outstanding; `serializeCompactInt` of a negative number never ends, since the shift keeps the
sign.

## Proofs

All theorems are of the form `Spec => []P` or `Spec => P` and hold for every value of the
constants.

| module | theorems, of | the inductive invariant, and why it is needed |
|---|---|---|
| `NetworkConnectionProofs` | `TypeOK`, `OneWriteOutstanding`, `MutexHeldInRewrite`, `QueueContinuesStream`, `LinkSpec` | `IInv`, these invariants together. `handleWrite` pops the front of the queue whatever was written, so that the stream continues only because the outstanding write is for the head and there is one of them; there is one only because nobody starts another while the relocking thread keeps the mutex; and the mutex is kept only by a thread that has just completed the one write |
| | `StallOnlyByRelock`, `OneReadOutstanding`, `DisconnectReported`, `OutboundConnectFirst` | `LifeInv`: until `start()` has run nothing happens on the connection; a thread comes back to `startRead()` only from a `send()` in its `onMessage`; as long as the handler has not heard of an outgoing connection no caller can find it |
| `NetworkManagerProofs` | `TypeOK`, `NoGhost`, `QuietEndIsClean`, `NoneForgotten` | everything but `connect()` works on established connections; of the read and the read handler of a connection nobody wrote to or closed there is one at most; while the destructor runs, an entry of the map is about to be closed, started or erased, or stays for one of the stated reasons |
| `PeerManagerProofs` | `TypeOK`, `OnePeerPerConnection`, `NoDeadPeer`, `NoLostConnection` | who keeps which mutex, how far the connection of each step is, and that ids of peers are fresh; a connection is that of the peer it was made for, or both are dirty; of a clean peer: a thread inside `connectToPeer` has it to itself and no other connection of it is of use (`ConnectInv`), a connection that may be used is stored or about to be (`AliveInv`), one that went down is stored only while `onDisconnect` is on its way (`DownInv`); a connection that `removePeer` failed to handle is closed and stays so; the ids last because a connection that has yet to bring a peer is not counted as having brought one (`RoomInv`) |
| `PeerDiscoveryProofs` | `TypeOK`, `DiscoveryFollowsSwitch`, `OnlyStrangersIgnored`, `FewTwins` | one task runs exactly while discovery is on; nobody sends an id twice; the handlers that have found an endpoint missing and have yet to add it are counted with its entries, against what users and `onConnect` have added and the number of connections |
| `NetworkClientProofs` | `TypeOK`, `ConnectedIsLive`, `NoStrayConnection` | basic facts about threads and connections, and, as long as `connect()` waited for what was there before: one connection at most is not dead, `connectionId_` names it or is about to, and `connected_` goes up and down with it |
| `TaskExecutorProofs` | `TypeOK`, `NoIdlePool`, `StateMatchesResult`, `ResultStable`, `WaitSeesAll`, `PoolSpec` | a task is in one place (a user's `submit()`, the queue, one worker, lost or done); what its worker has done about it, step by step, through both publications of an exception (`catch1`, `catch2`); the counter is the number of workers between the increment and the decrement |
| `TaskSchedulerProofs` | `TypeOK`, `SameTasks`, `OnceMeansOnce`, `NoOversleep`, `Spacing` | an id that was not drawn, or is about to be inserted, is nowhere; the time of a queued task is an interval after its last execution, unless a cancellation put it back |
| `BufferProofs` | `TypeOK`, `ByteQueue` of `DynamicBuffer` | the content has the length of the positions, which are within a capacity that has a bound, so that no sum of `size_t` wraps except the one in `resize()` |
| | `CodecTypes`, `OffsetInside`, `ReadBack`, `ArrivedIsReadable` of `BufferCodec` | `StreamInv`: there is a numbering of the whole stream in which field `k` ends at `pos[k]`, the buffer begins at `base`, the reader that undoes failed reads is where a field begins, and the bytes of every field that is not read lie at its place, in the buffer or on the wire. Only writing adds to `pos`, reading changes neither, and consuming moves `base`; so it holds wherever the stream is cut, and a read is always of the bytes its write has made |

Every inductive invariant was checked with TLC on the instance of its run before it was proved
(`StreamInv` with `pos` and `base` computed from the fields, since TLC cannot enumerate them).
The proofs go by one lemma per conjunct and one step per action; lemmas about operators come
first (arithmetic modulo `SizeMod` and each step of the buffer, sequences, bounded lists, least
elements, powers of two).

The codec needs induction over the bytes of a field.  It is done with sets, so that no theorem
with an operator as parameter is used: a set of numbers that has 0 and the successor of each of
its numbers is `Nat` (`NatByStep`, since a smallest number outside would have a predecessor
inside), and a function that is defined by recursion exists (`Recursion`), which makes the
functions inside `Value` and `Collect` what their equations say (`ValueIs`, `CollectIs`).  The
prover knows nothing of powers; `2 ^ n` is the number of subsets of `1..n`, of which `1..(n + 1)`
has twice as many (`TwoToNext`), and the rest follows (`TwoToSum`, `TwoToGrows`).  Then the digits
of an integer give back the integer (`BigEndianValue`, `CollectedIs`), an integer without its top
bit is not too long for `readVarInt()` (`ShortEnough`), a read of any kind ends within what has
arrived (`DecodeIs`), one that succeeds where the bytes of a field are next returns the field and
passes its bytes (`DecodeExact`), and it succeeds when they have all arrived (`DecodeComplete`).

The refinements: `ImplementsLink` maps every step of `NetworkConnection` to an `Accept`, a
`Transfer` or a stutter of `FifoLink`, `ImplementsPool` every step of `TaskExecutor` to a step of
`TaskPool` or a stutter.  For the second, the status of a task is computed from its place
(`StatusIs`), and a step is shown to change the status of one task at most, or to drop or revoke
the tasks that `stop()` finds queued or running.

Assumptions on constants: sets of threads are disjoint and `None` is in none of them; bounds are
natural numbers; a pool has workers, finitely many (a count of 0 is replaced by the default,
`wrap_boost_task.cpp:112`); intervals are not 0; `PeerDiscovery` has finitely many connections;
memory is much smaller than `SizeMod`, as with 2^64; `Junk`, `Zero` and `Garbage` are no bytes and
no messages; in `BufferCodec` the width of the integers is one more than a multiple of the bits of a
group (64 and 7), a number fits the bytes it is written in, raw bytes are read by their number, and
the length of a string fits its 4 bytes.  Each is satisfied by the run of its module.

`CHOOSE` of a least number (`findPeerByConnectionId`, `Minima` of `NetworkManager`, the last group
that is read) is reasoned about with the least element of a set of numbers, from the
well-foundedness of `<`.

Only model-checked: liveness and everything under fairness (`PeerLossNoticed`,
`DisconnectCompletes`, `CallsReturn`, `LostIsRemoved`, `StopReturns`, `GetResultReturns`,
`DueIsExecuted`), which is out of the prover's reach, and the two violations.

## Not modelled

* What a handler does on a destroyed connection or event handler, beyond that it may end the
  program: `NetworkManager` says when it happens and stops there.  The other modules end where an
  object does.
* Data races as such: a plain flag is read and written in some order.
* Framing in `NetworkClient` and `NetworkServer`: one read is one message (the code has no
  framing); the codec, which no code in `src/` calls, is checked on a stream that is cut anywhere.
* Pausing of tasks, which nothing observes, changes of the priority of a queued task, a task
  submitted twice.  Whether a cancelled task should be CANCELED, as `checkForCancellation()` sets
  it, or FAILED, as `notifyComplete()` overwrites it, no property says.
* The restart of a remote node, whose sender ids begin at 1 again (`PeerDiscovery`); names that
  resolve to another address than the one in the table.
* The wrap of `offset + bytesToRead` in `size_t` (`network_buffer_utils.cpp:231`): the lengths that
  readers ask for are those of the fields and 4-byte lengths, which are too small.  `CanRead` adds
  without bound.
* Aliasing of the buffer that copies of a `NetworkMessage` share, appending a buffer to itself;
  the pool beyond `acquire()`, since nothing releases.
* Callbacks that call back into `PeerManager` from `onPeerStateChanged`, and handlers that block
  for ever in `onMessage` (`PeerDiscovery` has the one of `sendPeerList`): `CallsReturn` of
  `NetworkManager` takes it that they return or throw.
* `sendToPeer`, `broadcast` to peers, `sendMessage` of the client, getters and message logs, which
  change no state of a module.
* The echo and the client endpoints of the server, which are not reached as long as nothing is
  accepted: a module about them would start from states the program is never in.
* The drawing and text fields of the user interface, serialization archives, tests (an empty
  `main`) and vendored libraries.

## Plan

Done: the modules above, in the order connection, peers, executor, scheduler, buffer, client,
discovery, listener, manager, codec, and the frames of the window in the client.

1. Theorems about every module but the listener, whose one property fails, in the order of the
   table above: done.  Left are shorter proofs where one conjunct is argued twice.
2. A composition of two `PeerDiscovery` nodes over `FifoLink`s, and of `TaskScheduler` with
   `TaskPool`.
3. Abstract specifications worth stating: a table of peers as the set of live connections, a
   timer as a set of due times, a byte queue (`DynamicBuffer` has it as `content`).
