--------------------------- MODULE NetworkManager ---------------------------
(***************************************************************************)
(* wrap_boost::NetworkManager: the map connections_ with its mutex, the    *)
(* calls that look connections up and then work on them outside the mutex, *)
(* the completion handlers the io threads run, and the destructor.  It is  *)
(* about who keeps a connection alive and who hears of its end.            *)
(*                                                                         *)
(* The connections are those of connect(): none is ever accepted (module   *)
(* Listener).  A connection is created with shared_ptrs in the map, in the *)
(* lambda of async_connect and in the locals of calls; the handlers of     *)
(* reads and writes have a raw pointer only.  send() of one connection is  *)
(* a single step here and is taken apart in module NetworkConnection.      *)
(***************************************************************************)
EXTENDS Naturals, FiniteSets, FiniteSetsExt

CONSTANTS
  Callers,      \* threads that use the manager and may destroy it
  IoThreads,    \* threads of threadPool_
  None,         \* no thread
  MaxConns      \* bound: calls of connect()

Threads == Callers \cup IoThreads
Conns   == 1..MaxConns

ASSUME ThreadsAssumption ==
  /\ Callers \cap IoThreads = {}
  /\ None \notin Threads
ASSUME BoundsAssumption == MaxConns \in Nat

VARIABLES
  phase,        \* "running", "closing" (in the destructor), "stopped", "gone"
  crashed,      \* a handler has run on the memory of a destroyed connection
  nextId,       \* nextConnectionId_
  connections,  \* the keys of connections_
  mutex,        \* the thread that keeps connectionsMutex_ across steps, or None
  socket,       \* "none", "connecting", "refused", "open", "lost", "closed"
  connected,    \* connected_ of each connection
  reading,      \* an async_read_some is outstanding
  writing,      \* "none", a write of "one" message or with "more" queued is
                \* outstanding, or "stopped": messages queued, no write
  pc,           \* where each thread is
  at,           \* the connection it works on, or 0
  todo,         \* the ones it goes on with after that
  held,         \* the connections it has a shared_ptr to
  forgotten,    \* history: in the map when the destructor returned
  late,         \* history: reported by onConnect after the destructor looked
  spoiled,      \* history: start() failed or onConnect threw
  foreign       \* history: closed by a caller, or written to

vars == <<phase, crashed, nextId, connections, mutex, socket, connected, reading,
          writing, pc, at, todo, held, forgotten, late, spoiled, foreign>>

managerVars == <<phase, crashed, nextId>>
mapVars     == <<connections, mutex>>
linkVars    == <<socket, connected>>
opVars      == <<reading, writing>>
threadVars  == <<pc, at, todo, held>>
history     == <<forgotten, late, spoiled, foreign>>

Steps == {"idle", "start", "message", "send", "rearm", "close", "shutdown", "erase",
          "stop", "stuck", "gone"}

Init ==
  /\ phase = "running" /\ crashed = FALSE /\ nextId = 1
  /\ connections = {} /\ mutex = None
  /\ socket = [c \in Conns |-> "none"]
  /\ connected = [c \in Conns |-> FALSE]
  /\ reading = [c \in Conns |-> FALSE]
  /\ writing = [c \in Conns |-> "none"]
  /\ pc = [t \in Threads |-> "idle"] /\ at = [t \in Threads |-> 0]
  /\ todo = [t \in Threads |-> {}] /\ held = [t \in Threads |-> {}]
  /\ forgotten = {} /\ late = {} /\ spoiled = {} /\ foreign = {}

\* Some shared_ptr to the connection exists.
Alive(c) ==
  \/ c \in connections \/ socket[c] = "connecting"
  \/ \E t \in Threads : c \in held[t]

\* Operations on the socket complete with an error.
Broken(c) == socket[c] \in {"lost", "closed"}

\* A write of the connection is outstanding.
Writes(c) == writing[c] \in {"one", "more"}

\* A thread of the pool that waits in ioContext_.run().
Waiting(t) == t \in IoThreads /\ pc[t] = "idle" /\ phase \in {"running", "closing"}

\* A handler that starts on a connection, with a raw pointer to it ...
Enter(t, c, step) ==
  /\ pc' = [pc EXCEPT ![t] = step]
  /\ at' = [at EXCEPT ![t] = c]
  /\ UNCHANGED <<todo, held>>

Goto(t, step) == pc' = [pc EXCEPT ![t] = step] /\ UNCHANGED <<at, todo, held>>

\* ... and one that returns, dropping its shared_ptrs.
Leave(t, step) ==
  /\ pc' = [pc EXCEPT ![t] = step]
  /\ at' = [at EXCEPT ![t] = 0]
  /\ todo' = [todo EXCEPT ![t] = {}]
  /\ held' = [held EXCEPT ![t] = {}]

\* A call has copied the shared_ptrs of some connections and does a step on
\* each, in the order of the map.
Begin(t, step, cs) ==
  /\ pc' = [pc EXCEPT ![t] = step]
  /\ at' = [at EXCEPT ![t] = Min(cs)]
  /\ todo' = [todo EXCEPT ![t] = cs \ {Min(cs)}]
  /\ held' = [held EXCEPT ![t] = cs]

\* It goes on with the next connection or returns; the destructor goes on.
Return(t, step) ==
  IF todo[t] # {}
  THEN /\ pc' = [pc EXCEPT ![t] = step]
       /\ at' = [at EXCEPT ![t] = Min(todo[t])]
       /\ todo' = [todo EXCEPT ![t] = @ \ {Min(@)}]
       /\ UNCHANGED held
  ELSE Leave(t, IF t \in Callers /\ phase = "closing" THEN "stop" ELSE "idle")

-----------------------------------------------------------------------------
(* connect() and the handler of async_connect *)

MayCall(t) == t \in Callers /\ pc[t] = "idle" /\ phase = "running"

Connect(t) ==
  /\ MayCall(t) /\ nextId <= MaxConns
  /\ socket' = [socket EXCEPT ![nextId] = "connecting"]
  /\ nextId' = nextId + 1
  /\ UNCHANGED <<phase, crashed, mapVars, connected, opVars, threadVars, history>>

ConnectFails(t) ==
  \E c \in Conns :
    /\ Waiting(t) /\ socket[c] = "connecting"
    /\ socket' = [socket EXCEPT ![c] = "refused"]
    /\ UNCHANGED <<managerVars, mapVars, connected, opVars, threadVars, history>>

\* The entry is made and start() is called with connectionsMutex_ locked.
Established(t) ==
  \E c \in Conns :
    /\ Waiting(t) /\ mutex = None /\ socket[c] = "connecting"
    /\ socket' = [socket EXCEPT ![c] = "open"]
    /\ connections' = connections \cup {c}
    /\ mutex' = t
    /\ Begin(t, "start", {c})
    /\ UNCHANGED <<managerVars, connected, opVars, history>>

\* remote_endpoint() throws in start(): close() finds connected_ false, and the
\* entry stays.
StartFails(t) ==
  /\ pc[t] = "start" /\ socket[at[t]] = "lost"
  /\ spoiled' = spoiled \cup {at[t]}
  /\ mutex' = None
  /\ Leave(t, "idle")
  /\ UNCHANGED <<managerVars, connections, linkVars, opVars, forgotten, late, foreign>>

\* start() succeeds: connected_ is set, onConnect is reported, the first read is
\* armed, and the mutex is released.
Start(t) ==
  /\ pc[t] = "start"
  /\ connected' = [connected EXCEPT ![at[t]] = TRUE]
  /\ late' = IF phase = "running" THEN late ELSE late \cup {at[t]}
  /\ reading' = [reading EXCEPT ![at[t]] = TRUE]
  /\ mutex' = None
  /\ Leave(t, "idle")
  /\ UNCHANGED <<managerVars, connections, socket, writing, forgotten, spoiled, foreign>>

\* onConnect of the event handler throws, or throws because it called the
\* manager, whose mutex this thread has.  start() closes the connection, and
\* onDisconnect locks the mutex again: that throws, too, and close() swallows
\* it, so that the entry stays and nobody hears of the end ...
OnConnectThrows(t) ==
  /\ pc[t] = "start"
  /\ socket' = [socket EXCEPT ![at[t]] = "closed"]
  /\ spoiled' = spoiled \cup {at[t]}
  /\ mutex' = None
  /\ Leave(t, "idle")
  /\ UNCHANGED <<managerVars, connections, connected, opVars, forgotten, late, foreign>>

\* ... or the thread blocks for ever: in the call of the handler, or in close().
OnConnectBlocks(t) ==
  /\ pc[t] = "start"
  /\ \/ connected' = [connected EXCEPT ![at[t]] = TRUE] /\ UNCHANGED socket
     \/ socket' = [socket EXCEPT ![at[t]] = "closed"] /\ UNCHANGED connected
  /\ spoiled' = spoiled \cup {at[t]}
  /\ Goto(t, "stuck")
  /\ UNCHANGED <<managerVars, mapVars, opVars, forgotten, late, foreign>>

-----------------------------------------------------------------------------
(* The handlers of reads and writes *)

\* handleRead without error: the event handler gets the message ...
ReadOk(t) ==
  \E c \in Conns :
    /\ Waiting(t) /\ reading[c]
    /\ reading' = [reading EXCEPT ![c] = FALSE]
    /\ Enter(t, c, "message")
    /\ UNCHANGED <<managerVars, mapVars, linkVars, writing, history>>

\* ... and may answer through the manager ...
Answer(t) ==
  /\ pc[t] = "message" /\ mutex = None
  /\ at[t] \in connections
  /\ pc' = [pc EXCEPT ![t] = "send"]
  /\ held' = [held EXCEPT ![t] = {at[t]}]
  /\ UNCHANGED <<managerVars, mapVars, linkVars, reading, writing, at, todo, history>>

\* ... or may throw, and the thread leaves run() ...
MessageThrows(t) ==
  /\ pc[t] = "message"
  /\ Leave(t, "gone")
  /\ UNCHANGED <<managerVars, mapVars, linkVars, opVars, history>>

\* Mutation: startRead() is not reached after a message.
RearmSkipped(t) ==
  /\ pc[t] \in {"message", "rearm"}
  /\ Leave(t, "idle")
  /\ UNCHANGED <<managerVars, mapVars, linkVars, opVars, history>>

\* ... before it arms the next read.
Rearm(t) ==
  /\ pc[t] \in {"message", "rearm"}
  /\ reading' = [reading EXCEPT ![at[t]] = connected[at[t]]]
  /\ Leave(t, "idle")
  /\ UNCHANGED <<managerVars, mapVars, linkVars, writing, history>>

\* Mutation: the next read is armed before the error is looked at.
ReadErrorArmed(t) ==
  \E c \in Conns :
    /\ Waiting(t) /\ reading[c] /\ Broken(c)
    /\ reading' = [reading EXCEPT ![c] = connected[c]]
    /\ Enter(t, c, "close")
    /\ UNCHANGED <<managerVars, mapVars, linkVars, writing, history>>

\* handleRead with an error: close().
ReadError(t) ==
  \E c \in Conns :
    /\ Waiting(t) /\ reading[c] /\ Broken(c)
    /\ reading' = [reading EXCEPT ![c] = FALSE]
    /\ Enter(t, c, "close")
    /\ UNCHANGED <<managerVars, mapVars, linkVars, writing, history>>

\* handleWrite without error.  With more to write it calls startWrite() with
\* writeMutex_ locked, which locks it again unless the connection has been
\* closed: the thread blocks for ever, or leaves run() with an exception.
WriteOk(t) ==
  \E c \in Conns :
    /\ Waiting(t) /\ Writes(c)
    /\ writing' = [writing EXCEPT ![c] = IF @ = "one" THEN "none" ELSE "stopped"]
    /\ IF writing[c] = "more" /\ connected[c]
       THEN Enter(t, c, "stuck") \/ Enter(t, c, "gone")
       ELSE UNCHANGED threadVars
    /\ UNCHANGED <<managerVars, mapVars, linkVars, reading, history>>

\* handleWrite with an error: close(), with the message still queued.
WriteError(t) ==
  \E c \in Conns :
    /\ Waiting(t) /\ Writes(c) /\ Broken(c)
    /\ writing' = [writing EXCEPT ![c] = "stopped"]
    /\ Enter(t, c, "close")
    /\ UNCHANGED <<managerVars, mapVars, linkVars, reading, history>>

-----------------------------------------------------------------------------
(* send() and broadcast() *)

Send(t) ==
  \E c \in connections :
    /\ MayCall(t) /\ mutex = None
    /\ Begin(t, "send", {c})
    /\ UNCHANGED <<managerVars, mapVars, linkVars, reading, writing, history>>

Broadcast(t) ==
  LET cs == {c \in connections : connected[c]} IN
    /\ MayCall(t) /\ mutex = None /\ cs # {}
    /\ Begin(t, "send", cs)
    /\ UNCHANGED <<managerVars, mapVars, linkVars, reading, writing, history>>

\* A thread that has blocked in handleWrite keeps the writeMutex_ of the
\* connection.
WriteLocked(c) == \E t \in IoThreads : pc[t] = "stuck" /\ at[t] = c /\ mutex # t

\* NetworkConnection::send() on one connection of a call or of an answer.
SendTo(t) ==
  LET c == at[t] IN
    /\ pc[t] = "send" /\ (connected[c] => ~WriteLocked(c))
    /\ IF connected[c]
       THEN /\ writing' = [writing EXCEPT ![c] =
                             CASE @ = "none" -> "one" [] @ = "one" -> "more" [] OTHER -> @]
            /\ foreign' = foreign \cup {c}
       ELSE UNCHANGED <<writing, foreign>>
    /\ IF t \in IoThreads
       THEN pc' = [pc EXCEPT ![t] = "rearm"] /\ held' = [held EXCEPT ![t] = {}]
            /\ UNCHANGED <<at, todo>>
       ELSE Return(t, "send")
    /\ UNCHANGED <<managerVars, mapVars, linkVars, reading, forgotten, late, spoiled>>

-----------------------------------------------------------------------------
(* disconnect() and disconnectAll(), and close() of a connection *)

Disconnect(t) ==
  \E c \in connections :
    /\ MayCall(t) /\ mutex = None
    /\ Begin(t, "close", {c})
    /\ UNCHANGED <<managerVars, mapVars, linkVars, opVars, history>>

\* Mutation: the connections are closed with connectionsMutex_ locked.
DisconnectAllLocked(t) ==
  /\ MayCall(t) /\ mutex = None /\ connections # {}
  /\ mutex' = t
  /\ Begin(t, "close", connections)
  /\ UNCHANGED <<managerVars, connections, linkVars, opVars, history>>

DisconnectAll(t) ==
  /\ MayCall(t) /\ mutex = None /\ connections # {}
  /\ Begin(t, "close", connections)
  /\ UNCHANGED <<managerVars, mapVars, linkVars, opVars, history>>

CloseNothing(t) ==
  /\ pc[t] = "close" /\ ~connected[at[t]]
  /\ Return(t, "close")
  /\ UNCHANGED <<managerVars, mapVars, linkVars, opVars, history>>

CloseTest(t) ==
  /\ pc[t] = "close" /\ connected[at[t]]
  /\ Goto(t, "shutdown")
  /\ UNCHANGED <<managerVars, mapVars, linkVars, opVars, history>>

\* Mutation: close() leaves it to the handler of the read to call onDisconnect.
CloseSilent(t) ==
  /\ pc[t] = "shutdown"
  /\ socket' = [socket EXCEPT ![at[t]] = "closed"]
  /\ connected' = [connected EXCEPT ![at[t]] = FALSE]
  /\ foreign' = IF t \in Callers THEN foreign \cup {at[t]} ELSE foreign
  /\ Return(t, "close")
  /\ UNCHANGED <<managerVars, mapVars, opVars, forgotten, late, spoiled>>

Close(t) ==
  /\ pc[t] = "shutdown"
  /\ socket' = [socket EXCEPT ![at[t]] = "closed"]
  /\ connected' = [connected EXCEPT ![at[t]] = FALSE]
  /\ foreign' = IF t \in Callers THEN foreign \cup {at[t]} ELSE foreign
  /\ Goto(t, "erase")
  /\ UNCHANGED <<managerVars, mapVars, opVars, forgotten, late, spoiled>>

\* onDisconnect erases the entry, and tells the event handler.
Erase(t) ==
  /\ pc[t] = "erase" /\ mutex = None
  /\ connections' = connections \ {at[t]}
  /\ Return(t, "close")
  /\ UNCHANGED <<managerVars, mutex, linkVars, opVars, history>>

-----------------------------------------------------------------------------
(* The destructor *)

\* Mutation: the destructor stops the io_context at once.
DestroyAtOnce(t) ==
  /\ MayCall(t) /\ \A u \in Callers : pc[u] = "idle"
  /\ mutex = None
  /\ phase' = "closing"
  /\ Leave(t, "stop")
  /\ UNCHANGED <<crashed, nextId, mapVars, linkVars, opVars, history>>

\* Nobody else uses a manager that is destroyed.  It begins like disconnectAll().
Destroy(t) ==
  /\ MayCall(t) /\ \A u \in Callers : pc[u] = "idle"
  /\ mutex = None
  /\ phase' = "closing"
  /\ IF connections = {} THEN Leave(t, "stop") ELSE Begin(t, "close", connections)
  /\ UNCHANGED <<crashed, nextId, mapVars, linkVars, opVars, history>>

\* ioContext_.stop(): threads that wait in run() leave it, and no handler is
\* started any more.
Stop(t) ==
  /\ pc[t] = "stop" /\ phase = "closing"
  /\ phase' = "stopped"
  /\ UNCHANGED <<crashed, nextId, mapVars, linkVars, opVars, threadVars, history>>

\* join_all() returns.  The map goes, and the io_context drops what is left.
Joined(t) ==
  /\ pc[t] = "stop" /\ phase = "stopped"
  /\ \A u \in IoThreads : pc[u] \in {"idle", "gone"}
  /\ phase' = "gone"
  /\ connections' = {} /\ forgotten' = connections
  /\ reading' = [c \in Conns |-> FALSE] /\ writing' = [c \in Conns |-> "none"]
  /\ Goto(t, "idle")
  /\ UNCHANGED <<crashed, nextId, mutex, linkVars, late, spoiled, foreign>>

-----------------------------------------------------------------------------
PeerFails ==
  \E c \in Conns :
    /\ socket[c] = "open" /\ ~crashed /\ phase # "gone"
    /\ socket' = [socket EXCEPT ![c] = "lost"]
    /\ UNCHANGED <<managerVars, mapVars, connected, opVars, threadVars, history>>

\* A thread is about to use a connection it has only a raw pointer to.
UsesRaw(t, c) ==
  t \in IoThreads /\ at[t] = c /\ pc[t] \in {"message", "rearm", "close", "shutdown"}

\* What runs on a destroyed connection may find its memory as it was, with
\* connected_ false, and go on, or may end the program.
Crash(t) ==
  /\ \E c \in Conns :
       /\ socket[c] # "none" /\ ~Alive(c)
       /\ UsesRaw(t, c) \/ (Waiting(t) /\ (reading[c] \/ Writes(c)))
  /\ crashed' = TRUE
  /\ UNCHANGED <<phase, nextId, mapVars, linkVars, opVars, threadVars, history>>

Continue(t) ==
  /\ ~crashed
  /\ \/ Start(t) \/ StartFails(t) \/ OnConnectThrows(t) \/ OnConnectBlocks(t)
     \/ Answer(t) \/ MessageThrows(t) \/ Rearm(t) \/ SendTo(t)
     \/ CloseNothing(t) \/ CloseTest(t) \/ Close(t) \/ Erase(t) \/ Stop(t) \/ Joined(t)

Call(t) ==
  /\ ~crashed
  /\ \/ Connect(t) \/ Send(t) \/ Broadcast(t) \/ Disconnect(t) \/ DisconnectAll(t)
     \/ Destroy(t)

Complete(t) ==
  /\ ~crashed
  /\ \/ ConnectFails(t) \/ Established(t) \/ ReadOk(t) \/ ReadError(t)
     \/ WriteOk(t) \/ WriteError(t)

Next ==
  \/ \E t \in Threads : Continue(t) \/ Call(t)
  \/ \E t \in IoThreads : Complete(t) \/ (~crashed /\ Crash(t))
  \/ PeerFails

\* The operating system runs every thread, and the io_context hands the error
\* of a broken connection to a thread that waits in run(), after the finitely
\* many reads of what the peer had sent.
Fairness ==
  /\ \A t \in Threads : WF_vars(Continue(t))
  /\ SF_vars(\E t \in IoThreads : ~crashed /\ ReadError(t))

Spec     == Init /\ [][Next]_vars
FairSpec == Spec /\ Fairness
-----------------------------------------------------------------------------
TypeOK ==
  /\ phase \in {"running", "closing", "stopped", "gone"} /\ crashed \in BOOLEAN
  /\ nextId \in 1..(MaxConns + 1)
  /\ connections \subseteq Conns /\ mutex \in Threads \cup {None}
  /\ socket \in [Conns -> {"none", "connecting", "refused", "open", "lost", "closed"}]
  /\ connected \in [Conns -> BOOLEAN]
  /\ reading \in [Conns -> BOOLEAN]
  /\ writing \in [Conns -> {"none", "one", "more", "stopped"}]
  /\ pc \in [Threads -> Steps] /\ at \in [Threads -> Conns \cup {0}]
  /\ todo \in [Threads -> SUBSET Conns] /\ held \in [Threads -> SUBSET Conns]
  /\ forgotten \subseteq Conns /\ late \subseteq Conns
  /\ spoiled \subseteq Conns /\ foreign \subseteq Conns

\* Threads lost to a mutex they locked twice or to an exception.
Relocked == \E t \in IoThreads : pc[t] \in {"stuck", "gone"}

\* An entry of connections_ whose connection is not connected is being started
\* or erased by some thread.  The only ones that stay are those whose start()
\* failed or whose onConnect threw, which disconnect() cannot remove any more.
NoGhost ==
  \A c \in connections :
    connected[c] \/ c \in spoiled
      \/ \E t \in Threads : at[t] = c /\ pc[t] \in {"start", "erase"}

\* A connection that nobody disconnected and nobody wrote to, and whose peer
\* went away, is destroyed by its own read handler with no handler left that
\* would run on it.  (disconnect(), disconnectAll() and a write outstanding when
\* the read fails leave one behind.)
QuietEndIsClean ==
  \A c \in Conns \ foreign :
    socket[c] # "none" /\ ~Alive(c) =>
      ~reading[c] /\ ~Writes(c) /\ \A t \in IoThreads : ~UsesRaw(t, c)

\* When the destructor returns, every connection that was reported by onConnect
\* has been reported by onDisconnect, except those established after the
\* destructor had looked at the map and those whose onConnect threw.
NoneForgotten == forgotten \subseteq late \cup spoiled

\* Calls, the destructor among them, and handlers return, whatever closes the
\* same connections at once, unless a thread has been lost.
CallsReturn ==
  \A t \in Threads : []<>(pc[t] = "idle" \/ Relocked \/ crashed)

\* Entries whose peer is gone leave the map without a call of disconnect().
LostIsRemoved ==
  []<>(\/ \A c \in connections : ~Broken(c) \/ c \in spoiled
       \/ Relocked \/ crashed \/ phase # "running")
=============================================================================
