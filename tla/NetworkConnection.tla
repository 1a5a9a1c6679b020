------------------------- MODULE NetworkConnection -------------------------
(***************************************************************************)
(* One wrap_boost::NetworkConnection: the read loop, the queue of outgoing *)
(* messages with its mutex, and close(), executed step by step by the      *)
(* threads that call send() and close() and by the threads of the manager  *)
(* that run the completion handlers of boost::asio.                        *)
(*                                                                         *)
(* A step is one access to state that other threads see: a test or store   *)
(* of the atomic connected_, a critical section of writeMutex_, an         *)
(* operation on the socket, a call of the event handler.                   *)
(***************************************************************************)
EXTENDS Naturals, Sequences, FiniteSets

CONSTANTS
  Callers,      \* threads that call send() and close() from outside
  IoThreads,    \* threads inside ioContext_.run()
  None,         \* no thread
  Garbage,      \* bytes that are not those of the message
  MaxSends,     \* bound: calls of send()
  MaxReads      \* bound: successful reads

Threads == Callers \cup IoThreads

ASSUME ThreadsAssumption ==
  /\ Callers \cap IoThreads = {}
  /\ None \notin Threads
ASSUME GarbageAssumption == Garbage \notin Nat
ASSUME BoundsAssumption  == MaxSends \in Nat /\ MaxReads \in Nat

VARIABLES
  outbound,     \* the connection was made by connect(), not by handleAccept()
  reachable,    \* connections_ holds it and its mutex is free: callers find it
  connected,    \* connected_
  sock,         \* "open" | "closed", the local end of the socket
  peerUp,       \* the remote end is still there
  connectSeen,  \* handler_->onConnect has been called
  disconnects,  \* how often handler_->onDisconnect has been called
  readOps,      \* outstanding async_read_some operations
  reads,        \* successful reads, for MaxReads
  queue,        \* writeQueue_
  writeMutex,   \* the thread that keeps writeMutex_ across steps, or None
  writing,      \* outstanding async_write operations: the message of each
  calls,        \* calls of send(), for MaxSends
  accepted,     \* how many messages have been pushed on the queue
  wire,         \* what has gone into the TCP stream the peer reads
  pc,           \* where each thread is
  cont          \* where it goes on when send() returns

vars == <<outbound, reachable, connected, sock, peerUp, connectSeen, disconnects,
          readOps, reads, queue, writeMutex, writing, calls, accepted, wire, pc, cont>>

lifeVars  == <<outbound, reachable, connected, sock, connectSeen, disconnects>>
readVars  == <<readOps, reads>>
writeVars == <<queue, writeMutex, writing, accepted, wire>>

SendSteps  == {"send", "push", "startWrite", "initWrite"}
CloseSteps == {"close", "shutdown", "flag", "notify"}
Steps == {"idle", "start", "onConnect", "firstRead", "startRead", "rewrite",
          "stuck", "gone"} \cup SendSteps \cup CloseSteps

Goto(t, step) == pc' = [pc EXCEPT ![t] = step]

\* The asio operation layer reports an error once the socket is closed here
\* or the peer has gone.
Broken == sock = "closed" \/ ~peerUp

\* Mutation: connect() releases connectionsMutex_ before it calls start().
InitUnlocked ==
  /\ outbound \in BOOLEAN /\ reachable = TRUE
  /\ connected = FALSE /\ sock = "open" /\ peerUp = TRUE
  /\ connectSeen = FALSE /\ disconnects = 0
  /\ readOps = 0 /\ reads = 0
  /\ queue = <<>> /\ writeMutex = None /\ writing = <<>>
  /\ calls = 0 /\ accepted = 0 /\ wire = <<>>
  /\ \E t \in IoThreads : pc = [u \in Threads |-> IF u = t THEN "start" ELSE "idle"]
  /\ cont = [t \in Threads |-> "idle"]

\* A TCP connection has just been established; one io thread is about to run
\* start().  handleAccept() has published the connection in connections_ by
\* then; connect() keeps connectionsMutex_ until start() has returned.
Init ==
  /\ outbound \in BOOLEAN /\ reachable = ~outbound
  /\ connected = FALSE /\ sock = "open" /\ peerUp = TRUE
  /\ connectSeen = FALSE /\ disconnects = 0
  /\ readOps = 0 /\ reads = 0
  /\ queue = <<>> /\ writeMutex = None /\ writing = <<>>
  /\ calls = 0 /\ accepted = 0 /\ wire = <<>>
  /\ \E t \in IoThreads : pc = [u \in Threads |-> IF u = t THEN "start" ELSE "idle"]
  /\ cont = [t \in Threads |-> "idle"]

-----------------------------------------------------------------------------
(* start() *)

\* remote_endpoint() succeeds: connected_ = true.
StartOk(t) ==
  /\ pc[t] = "start"
  /\ connected' = TRUE
  /\ Goto(t, "onConnect")
  /\ UNCHANGED <<outbound, reachable, sock, peerUp, connectSeen, disconnects,
                 readVars, writeVars, calls, cont>>

\* remote_endpoint() throws: onError, and close() finds connected_ false and
\* does nothing, so that the entry stays in connections_.
StartFails(t) ==
  /\ pc[t] = "start"
  /\ ~peerUp
  /\ reachable' = TRUE
  /\ Goto(t, "idle")
  /\ UNCHANGED <<outbound, connected, sock, peerUp, connectSeen, disconnects,
                 readVars, writeVars, calls, cont>>

OnConnect(t) ==
  /\ pc[t] = "onConnect"
  /\ connectSeen' = TRUE
  /\ Goto(t, "firstRead")
  /\ UNCHANGED <<outbound, reachable, connected, sock, peerUp, disconnects,
                 readVars, writeVars, calls, cont>>

\* startRead() at the end of start(); connect() then lets callers in.
FirstRead(t) ==
  /\ pc[t] = "firstRead"
  /\ readOps' = IF connected THEN readOps + 1 ELSE readOps
  /\ reachable' = (outbound \/ reachable)
  /\ Goto(t, "idle")
  /\ UNCHANGED <<outbound, connected, sock, peerUp, connectSeen, disconnects,
                 reads, writeVars, calls, cont>>

-----------------------------------------------------------------------------
(* The read loop *)

\* Mutation: the next read is armed before the handler gets the message, too.
HandleReadOkArmsFirst(t) ==
  /\ t \in IoThreads /\ pc[t] = "idle"
  /\ readOps > 0 /\ reads < MaxReads
  /\ reads' = reads + 1
  /\ Goto(t, "startRead")
  /\ UNCHANGED <<lifeVars, peerUp, readOps, calls, cont, writeVars>>

\* handleRead without error: the handler gets the message and may answer it
\* with a send() on this same connection before startRead() is reached.
HandleReadOk(t) ==
  /\ t \in IoThreads /\ pc[t] = "idle"
  /\ readOps > 0 /\ reads < MaxReads
  /\ readOps' = readOps - 1
  /\ reads' = reads + 1
  /\ \/ /\ Goto(t, "startRead")
        /\ UNCHANGED <<cont, calls>>
     \/ /\ reachable /\ calls < MaxSends
        /\ calls' = calls + 1
        /\ Goto(t, "send")
        /\ cont' = [cont EXCEPT ![t] = "startRead"]
  /\ UNCHANGED <<lifeVars, peerUp, writeVars>>

\* Mutation: handleRead does not arm the next read.
StartReadSkipped(t) ==
  /\ pc[t] = "startRead"
  /\ Goto(t, "idle")
  /\ cont' = [cont EXCEPT ![t] = "idle"]
  /\ UNCHANGED <<lifeVars, peerUp, readVars, writeVars, calls>>

StartRead(t) ==
  /\ pc[t] = "startRead"
  /\ readOps' = IF connected THEN readOps + 1 ELSE readOps
  /\ Goto(t, "idle")
  /\ cont' = [cont EXCEPT ![t] = "idle"]
  /\ UNCHANGED <<lifeVars, peerUp, reads, writeVars, calls>>

\* handleRead with an error: onError, then close().
HandleReadError(t) ==
  /\ t \in IoThreads /\ pc[t] = "idle"
  /\ readOps > 0 /\ Broken
  /\ readOps' = readOps - 1
  /\ Goto(t, "close")
  /\ UNCHANGED <<lifeVars, peerUp, reads, writeVars, calls, cont>>

-----------------------------------------------------------------------------
(* send() and the write loop *)

CallSend(t) ==
  /\ t \in Callers /\ pc[t] = "idle"
  /\ reachable /\ calls < MaxSends
  /\ calls' = calls + 1
  /\ Goto(t, "send")
  /\ UNCHANGED <<lifeVars, peerUp, readVars, writeVars, cont>>

SendCheck(t) ==
  /\ pc[t] = "send"
  /\ Goto(t, IF connected THEN "push" ELSE cont[t])
  /\ UNCHANGED <<lifeVars, peerUp, readVars, writeVars, calls, cont>>

\* Mutation: writeInProgress is not looked at.
PushAlwaysStarts(t) ==
  /\ pc[t] = "push"
  /\ writeMutex = None
  /\ accepted' = accepted + 1
  /\ queue' = Append(queue, accepted')
  /\ Goto(t, "startWrite")
  /\ UNCHANGED <<lifeVars, peerUp, readVars, writeMutex, writing, calls, wire, cont>>

\* The critical section of send(): only the thread that found the queue empty
\* goes on to startWrite().
Push(t) ==
  /\ pc[t] = "push"
  /\ writeMutex = None
  /\ accepted' = accepted + 1
  /\ queue' = Append(queue, accepted')
  /\ Goto(t, IF queue = <<>> THEN "startWrite" ELSE cont[t])
  /\ UNCHANGED <<lifeVars, peerUp, readVars, writeMutex, writing, calls, wire, cont>>

StartWriteCheck(t) ==
  /\ pc[t] = "startWrite"
  /\ Goto(t, IF connected THEN "initWrite" ELSE cont[t])
  /\ UNCHANGED <<lifeVars, peerUp, readVars, writeVars, calls, cont>>

\* The critical section of startWrite().
InitWrite(t) ==
  /\ pc[t] = "initWrite"
  /\ writeMutex = None
  /\ writing' = IF queue = <<>> THEN writing ELSE Append(writing, Head(queue))
  /\ Goto(t, cont[t])
  /\ UNCHANGED <<lifeVars, peerUp, readVars, queue, writeMutex, calls, accepted,
                 wire, cont>>

\* Mutation: the rest of the queue is left for the next send().
HandleWriteOkStops(t) ==
  /\ t \in IoThreads /\ pc[t] = "idle"
  /\ writing # <<>> /\ writeMutex = None
  /\ wire' = Append(wire, Head(writing))
  /\ writing' = Tail(writing)
  /\ queue' = Tail(queue)
  /\ UNCHANGED <<lifeVars, peerUp, readVars, calls, accepted, cont, writeMutex, pc>>

\* handleWrite without error.  The buffer given to async_write is that of the
\* temporary vector getData() returned, which is gone when startWrite()
\* returns: the peer may get other bytes.  writeMutex_ stays locked
\* while a non-empty queue sends the thread back into startWrite().
HandleWriteOk(t) ==
  /\ t \in IoThreads /\ pc[t] = "idle"
  /\ writing # <<>> /\ writeMutex = None
  /\ wire' \in { Append(wire, Head(writing)), Append(wire, Garbage) }
  /\ writing' = Tail(writing)
  /\ queue' = Tail(queue)
  /\ IF queue' = <<>>
     THEN UNCHANGED <<writeMutex, pc>>
     ELSE writeMutex' = t /\ Goto(t, "rewrite")
  /\ UNCHANGED <<lifeVars, peerUp, readVars, calls, accepted, cont>>

\* startWrite() under handleWrite's lock returns at once when connected_ has
\* become false, and the lock is released ...
RewriteSkipped(t) ==
  /\ pc[t] = "rewrite" /\ ~connected
  /\ writeMutex' = None
  /\ Goto(t, "idle")
  /\ UNCHANGED <<lifeVars, peerUp, readVars, queue, writing, accepted, wire, calls, cont>>

\* ... and otherwise locks the std::mutex the thread already owns, which is
\* undefined: the thread blocks for ever with the mutex locked ...
RelockBlocks(t) ==
  /\ pc[t] = "rewrite" /\ connected
  /\ Goto(t, "stuck")
  /\ UNCHANGED <<lifeVars, peerUp, readVars, writeVars, calls, cont>>

\* ... or lock() throws: the lock is released, and the exception leaves
\* ioContext_.run() and ends the thread.
RelockThrows(t) ==
  /\ pc[t] = "rewrite" /\ connected
  /\ writeMutex' = None
  /\ Goto(t, "gone")
  /\ UNCHANGED <<lifeVars, peerUp, readVars, queue, writing, accepted, wire, calls, cont>>

\* Mutation: a failed write drops its message.
HandleWriteErrorPops(t) ==
  /\ t \in IoThreads /\ pc[t] = "idle"
  /\ writing # <<>> /\ Broken
  /\ writing' = Tail(writing)
  /\ queue' = Tail(queue)
  /\ Goto(t, "close")
  /\ UNCHANGED <<lifeVars, peerUp, readVars, writeMutex, accepted, wire, calls, cont>>

\* handleWrite with an error: the message stays at the head of the queue.
HandleWriteError(t) ==
  /\ t \in IoThreads /\ pc[t] = "idle"
  /\ writing # <<>> /\ Broken
  /\ writing' = Tail(writing)
  /\ Goto(t, "close")
  /\ UNCHANGED <<lifeVars, peerUp, readVars, queue, writeMutex, accepted, wire, calls, cont>>

-----------------------------------------------------------------------------
(* close() *)

CallClose(t) ==
  /\ t \in Callers /\ pc[t] = "idle"
  /\ reachable
  /\ Goto(t, "close")
  /\ UNCHANGED <<lifeVars, peerUp, readVars, writeVars, calls, cont>>

CloseCheck(t) ==
  /\ pc[t] = "close"
  /\ Goto(t, IF connected THEN "shutdown" ELSE "idle")
  /\ UNCHANGED <<lifeVars, peerUp, readVars, writeVars, calls, cont>>

CloseSocket(t) ==
  /\ pc[t] = "shutdown"
  /\ sock' = "closed"
  /\ Goto(t, "flag")
  /\ UNCHANGED <<outbound, reachable, connected, peerUp, connectSeen, disconnects,
                 readVars, writeVars, calls, cont>>

\* Mutation: close() does not tell the handler.
CloseFlagSilent(t) ==
  /\ pc[t] = "flag"
  /\ connected' = FALSE
  /\ Goto(t, "idle")
  /\ UNCHANGED <<outbound, reachable, sock, peerUp, connectSeen, disconnects,
                 readVars, writeVars, calls, cont>>

CloseFlag(t) ==
  /\ pc[t] = "flag"
  /\ connected' = FALSE
  /\ Goto(t, "notify")
  /\ UNCHANGED <<outbound, reachable, sock, peerUp, connectSeen, disconnects,
                 readVars, writeVars, calls, cont>>

\* handler_->onDisconnect; NetworkManager::onDisconnect erases the entry.
CloseNotify(t) ==
  /\ pc[t] = "notify"
  /\ disconnects' = disconnects + 1
  /\ reachable' = FALSE
  /\ Goto(t, "idle")
  /\ UNCHANGED <<outbound, connected, sock, peerUp, connectSeen,
                 readVars, writeVars, calls, cont>>

-----------------------------------------------------------------------------
\* The peer closes its end or the network drops it.
PeerFails ==
  /\ peerUp
  /\ peerUp' = FALSE
  /\ UNCHANGED <<lifeVars, readVars, writeVars, calls, pc, cont>>

\* What a thread that is inside a function of the class does next.
Continue(t) ==
  \/ StartOk(t) \/ StartFails(t) \/ OnConnect(t) \/ FirstRead(t) \/ StartRead(t)
  \/ SendCheck(t) \/ Push(t) \/ StartWriteCheck(t) \/ InitWrite(t)
  \/ RewriteSkipped(t) \/ RelockBlocks(t) \/ RelockThrows(t)
  \/ CloseCheck(t) \/ CloseSocket(t) \/ CloseFlag(t) \/ CloseNotify(t)

Complete(t) ==
  \/ HandleReadOk(t) \/ HandleReadError(t) \/ HandleWriteOk(t) \/ HandleWriteError(t)

Call(t) == CallSend(t) \/ CallClose(t)

Next ==
  \/ \E t \in Threads : Continue(t) \/ Complete(t) \/ Call(t)
  \/ PeerFails

\* The operating system runs every thread, TCP ends every write, and the
\* io_context hands a ready completion to a thread that waits in run().
\* Callers and the peer are free.
Fairness ==
  /\ \A t \in Threads : WF_vars(Continue(t))
  /\ WF_vars(\E t \in IoThreads : HandleReadError(t))
  /\ WF_vars(\E t \in IoThreads : HandleWriteOk(t) \/ HandleWriteError(t))

Spec     == Init /\ [][Next]_vars
FairSpec == Spec /\ Fairness

-----------------------------------------------------------------------------
TypeOK ==
  /\ outbound \in BOOLEAN /\ reachable \in BOOLEAN /\ connected \in BOOLEAN
  /\ sock \in {"open", "closed"} /\ peerUp \in BOOLEAN /\ connectSeen \in BOOLEAN
  /\ disconnects \in Nat /\ readOps \in Nat /\ reads \in Nat
  /\ queue \in Seq(Nat) /\ writing \in Seq(Nat) /\ wire \in Seq(Nat \cup {Garbage})
  /\ writeMutex \in Threads \cup {None}
  /\ calls \in Nat /\ accepted \in Nat
  /\ pc \in [Threads -> Steps]
  /\ cont \in [Threads -> {"idle", "startRead"}]

-----------------------------------------------------------------------------
(* The write loop *)

\* A thread that is on its way to an async_write.
Starting(t) == pc[t] \in {"startWrite", "initWrite"}

\* handleWrite has entered startWrite() with writeMutex_ locked.
Relocking(t) == pc[t] = "rewrite"

\* A thread that has relocked writeMutex_: it blocks or it has left run().
Relocked == \E t \in Threads : pc[t] \in {"stuck", "gone"}

\* A thread inside close() that will make connected_ false if nobody else does.
Closing(t) == pc[t] \in {"close", "shutdown", "flag"}

\* Whatever threads call send() while io threads complete writes, at most one
\* async_write is outstanding, no second thread is about to start one, and the
\* one outstanding is for the head of writeQueue_, which is what pop() in
\* handleWrite relies on.
OneWriteOutstanding ==
  /\ Len(writing) <= 1
  /\ \A t \in Threads : Starting(t) =>
       queue # <<>> /\ writing = <<>> /\ \A u \in Threads : Starting(u) => u = t
  /\ writing # <<>> => queue # <<>> /\ Head(writing) = Head(queue)

\* writeMutex_ outlives a step only in handleWrite's call of startWrite(), with
\* more to write and no write outstanding: nobody else can start it meanwhile.
MutexHeldInRewrite ==
  /\ writeMutex # None => pc[writeMutex] \in {"rewrite", "stuck"}
  /\ \A t \in Threads : pc[t] \in {"rewrite", "stuck"} =>
       writeMutex = t /\ queue # <<>>
  /\ \A t \in Threads : pc[t] \in {"rewrite", "stuck"} => writing = <<>>

\* A message waits in the queue of a connected connection only while somebody
\* writes, is about to write or is closing: the relock in handleWrite is the
\* one way in which the write loop can stop with a message left.
StallOnlyByRelock ==
  queue # <<>> /\ connected =>
    \/ writing # <<>>
    \/ \E t \in Threads : Starting(t) \/ Relocking(t) \/ Closing(t)
    \/ Relocked

\* The content of the queue continues the stream: nothing accepted is lost,
\* written twice or out of order between send() and the socket.
QueueContinuesStream ==
  /\ Len(wire) + Len(queue) = accepted
  /\ \A i \in 1..Len(queue) : queue[i] = Len(wire) + i
  /\ \A i \in 1..Len(wire) : wire[i] \in {i, Garbage}

\* send() and the write loop implement a FIFO link without loss in the middle.
Link     == INSTANCE FifoLink
LinkSpec == Link!Spec

\* After any accepted message the stream grows to hold it, or the connection
\* ends (the README's "instant" communication; the relock breaks it).
AcceptedIsWritten ==
  \A n \in 1..MaxSends : accepted >= n ~> Len(wire) >= n \/ ~connected

-----------------------------------------------------------------------------
(* The read loop and the life of the connection *)

\* A thread that is between a completed read and the next startRead().
Reading(t) ==
  \/ pc[t] \in {"onConnect", "firstRead", "startRead"}
  \/ pc[t] \in SendSteps /\ cont[t] = "startRead"

\* readBuffer_ has one owner: an outstanding read or one thread in handleRead.
OneReadOutstanding ==
  /\ readOps <= 1
  /\ \A t \in Threads : Reading(t) =>
       readOps = 0 /\ \A u \in Threads : Reading(u) => u = t

\* Once connected_ has been reset the handler has been told at least once, or is
\* about to be; two threads that close at once do tell it twice.
DisconnectReported ==
  connectSeen /\ ~connected =>
    disconnects > 0 \/ \E t \in Threads : pc[t] = "notify"

\* connect() keeps connectionsMutex_ across start(), so that the handler of an
\* outgoing connection hears onConnect before onDisconnect.  handleAccept()
\* does not, and an incoming connection has no such order.
OutboundConnectFirst == outbound /\ disconnects > 0 => connectSeen

\* The loss of the peer is noticed: connected_ becomes false, or a thread of
\* the io_context has been lost to the relock.
PeerLossNoticed == ~peerUp ~> (~connected \/ Relocked)
=============================================================================
