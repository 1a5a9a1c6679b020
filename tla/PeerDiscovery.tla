--------------------------- MODULE PeerDiscovery ---------------------------
(***************************************************************************)
(* Peer discovery in wrap_boost::PeerManager: the owner who starts and     *)
(* stops the manager and turns discovery on and off, the task that         *)
(* announces this node, and the io threads that handle what the remote     *)
(* ends announce.                                                          *)
(*                                                                         *)
(* The table of peers is what discovery sees of it, the number of entries  *)
(* with an address and port; PeerManager.tla has the rest.  Addresses are  *)
(* numeric, so that the address of the socket is the one connected to.  A  *)
(* connection is handled by one io thread at a time, so that its name      *)
(* stands for that thread; it may be used again when the connection is     *)
(* over, for the same remote node.  The remote nodes follow the protocol   *)
(* the way this program does, with a new sender id for every message, its  *)
(* generatePeerId(), and none of them restarts: its ids would begin at 1   *)
(* again.  That they accept connections is taken for granted, see          *)
(* Listener.tla.                                                           *)
(***************************************************************************)
EXTENDS Naturals, FiniteSets, Sequences

CONSTANTS
  Conns,        \* connections to remote nodes
  Endpoints,    \* pairs of address and port
  None,         \* no connection
  MaxSender,    \* bound: messages of a remote node, and their sender ids
  MaxList,      \* bound: pairs in a PEER_RESPONSE
  MaxAdds,      \* bound: calls of addPeer() by users, for an endpoint
  MaxAdopts,    \* bound: calls of addPeer() by onConnect, for an endpoint
  MaxTasks      \* bound: announcement tasks

Steps == {"closed", "connecting", "adopt", "greet", "list", "reading", "look", "add",
          "blocked"}

SenderIds == 1..MaxSender
TaskIds   == 1..MaxTasks

ASSUME ConnsAssumption == IsFiniteSet(Conns) /\ None \notin Conns
ASSUME BoundAssumption ==
  /\ MaxSender \in Nat /\ MaxList \in Nat \ {0} /\ MaxTasks \in Nat
  /\ MaxAdds \in Nat /\ MaxAdopts \in Nat

VARIABLES
  running, enabled,     \* running_, peerDiscoveryEnabled_
  discovery,            \* discoveryRunning_
  taskId, tasks, made,  \* discoveryTaskId_, tasks that are scheduled, tasks ever made
  opc,                  \* where the owner is
  peers,                \* how many entries of peers_ have an endpoint
  peersMutex, connMutex,\* who keeps peersMutex_, connectionsMutex_ across steps
  recent,               \* sender ids in recentDiscoveryMessages_ that have not expired
  pc,                   \* where the handler of each connection is
  todo,                 \* the endpoints it still has to look at, or the one it connects
  sent,                 \* the last sender id of each remote node
  announced,            \* remote nodes that got an announcement since they connected
  added, adopted,       \* history: calls of addPeer() by users, and by onConnect
  heard, ignored,       \* history: who sent an id that was handled, or ignored
  early                 \* history: discovery was enabled before start()

switchVars == <<running, enabled, discovery, taskId, tasks, made, opc, early>>
tableVars  == <<peers, added, adopted>>
mutexVars  == <<peersMutex, connMutex>>
readVars   == <<recent, pc, todo, sent, announced, heard, ignored>>
vars == <<switchVars, tableVars, mutexVars, readVars>>

Init ==
  /\ running = FALSE /\ enabled = FALSE /\ discovery = FALSE
  /\ taskId = 0 /\ tasks = {} /\ made = 0 /\ opc = "idle" /\ early = FALSE
  /\ peers = [e \in Endpoints |-> 0]
  /\ added = [e \in Endpoints |-> 0] /\ adopted = [e \in Endpoints |-> 0]
  /\ peersMutex = None /\ connMutex = None
  /\ recent = {} /\ pc = [c \in Conns |-> "closed"] /\ todo = [c \in Conns |-> <<>>]
  /\ sent = [c \in Conns |-> 0] /\ announced = {}
  /\ heard = [i \in SenderIds |-> {}] /\ ignored = {}

-----------------------------------------------------------------------------
(* The owner: start(), enablePeerDiscovery() and stop() *)

\* startPeerDiscoveryProtocol, with the values it finds in running_ and
\* peerDiscoveryEnabled_.
StartDiscovery(isRunning, isEnabled) ==
  IF isRunning /\ isEnabled /\ ~discovery
  THEN /\ made < MaxTasks /\ made' = made + 1
       /\ taskId' = made' /\ tasks' = tasks \cup {made'}
       /\ discovery' = TRUE
  ELSE UNCHANGED <<discovery, taskId, tasks, made>>

\* Mutation: the task is not cancelled.
StopDiscoveryKeepsTask ==
  /\ discovery' = FALSE /\ taskId' = 0
  /\ UNCHANGED <<tasks, made>>

\* stopPeerDiscoveryProtocol
StopDiscovery ==
  /\ discovery' = FALSE
  /\ taskId' = IF discovery THEN 0 ELSE taskId
  /\ tasks' = IF discovery THEN tasks \ {taskId} ELSE tasks
  /\ UNCHANGED made

\* start() with a listener that starts; otherwise nothing changes.  Discovery is
\* started before running_ is set, and refuses to.
Start ==
  /\ opc = "idle" /\ ~running
  /\ StartDiscovery(running, enabled)
  /\ running' = TRUE
  /\ early' = enabled
  /\ UNCHANGED <<enabled, opc, tableVars, mutexVars, readVars>>

EnablePeerDiscovery(enable) ==
  /\ opc = "idle"
  /\ enabled' = enable
  /\ IF ~running THEN UNCHANGED <<discovery, taskId, tasks, made>>
     ELSE IF enable THEN StartDiscovery(running, enable)
     ELSE StopDiscovery
  /\ early' = FALSE
  /\ UNCHANGED <<running, opc, tableVars, mutexVars, readVars>>

StopBegin ==
  /\ opc = "idle" /\ running
  /\ IF enabled THEN StopDiscovery ELSE UNCHANGED <<discovery, taskId, tasks, made>>
  /\ opc' = "disconnect"
  /\ UNCHANGED <<running, enabled, early, tableVars, mutexVars, readVars>>

\* disconnectPeer for each peer and disconnectAll(): both mutexes are taken.
StopDisconnect ==
  /\ opc = "disconnect" /\ peersMutex = None /\ connMutex = None
  /\ opc' = "join"
  /\ UNCHANGED <<running, enabled, discovery, taskId, tasks, made, early, tableVars,
                 mutexVars, readVars>>

\* The NetworkManager goes and joins its threads: a handler that is under way
\* comes to its end, and one that is not is never called.
StopJoined ==
  /\ opc = "join"
  /\ \A c \in Conns : pc[c] \in {"closed", "connecting", "reading"}
  /\ pc' = [c \in Conns |-> "closed"] /\ todo' = [c \in Conns |-> <<>>]
  /\ announced' = {}
  /\ running' = FALSE
  /\ opc' = "idle"
  /\ UNCHANGED <<enabled, discovery, taskId, tasks, made, early, tableVars, mutexVars,
                 recent, sent, heard, ignored>>

-----------------------------------------------------------------------------
(* Users and the announcement task *)

AddPeer(e) ==
  /\ peersMutex = None
  /\ \A f \in Endpoints : added[f] + (IF f = e THEN 1 ELSE 0) <= MaxAdds
  /\ peers' = [peers EXCEPT ![e] = @ + 1]
  /\ added' = [added EXCEPT ![e] = @ + 1]
  /\ UNCHANGED <<switchVars, adopted, mutexVars, readVars>>

\* removePeer() of a peer that is not connected.
RemovePeer(e) ==
  /\ peersMutex = None
  /\ peers[e] > 0
  /\ peers' = [peers EXCEPT ![e] = @ - 1]
  /\ UNCHANGED <<switchVars, added, adopted, mutexVars, readVars>>

\* broadcastDiscoveryAnnouncement: every connection of the NetworkManager gets
\* it.
Announce ==
  /\ tasks # {} /\ running /\ enabled /\ connMutex = None
  /\ announced' = {c \in Conns : pc[c] \notin {"closed", "connecting"}}
  /\ UNCHANGED <<switchVars, tableVars, mutexVars, recent, pc, todo, sent, heard,
                 ignored>>

-----------------------------------------------------------------------------
(* The io threads *)

Goto(c, step) == pc' = [pc EXCEPT ![c] = step]

\* connectToPeer() for a peer of the table begins a connection.
ConnectToPeer(c) ==
  /\ pc[c] = "closed" /\ running /\ peersMutex = None
  /\ \E e \in Endpoints : peers[e] > 0 /\ todo' = [todo EXCEPT ![c] = <<e>>]
  /\ Goto(c, "connecting")
  /\ UNCHANGED <<switchVars, tableVars, mutexVars, recent, sent, announced, heard,
                 ignored>>

\* The connection is refused.
ConnectFails(c) ==
  /\ pc[c] = "connecting"
  /\ Goto(c, "closed") /\ todo' = [todo EXCEPT ![c] = <<>>]
  /\ UNCHANGED <<switchVars, tableVars, mutexVars, recent, sent, announced, heard,
                 ignored>>

\* The end of onConnect, still with connectionsMutex_ locked: the list of peers
\* is to be sent when discovery is enabled.
Greet(c) ==
  /\ IF enabled THEN Goto(c, "greet") /\ connMutex' = c
                ELSE Goto(c, "reading") /\ connMutex' = None
  /\ todo' = [todo EXCEPT ![c] = <<>>]

\* onConnect is called with connectionsMutex_ locked.  It searches the table for
\* the connection's id: whether connectToPeer() has stored it yet is seen in
\* PeerManager.tla only, and either is possible here.  A peer that is gone is
\* not found.
OnConnect(c) ==
  /\ pc[c] = "connecting" /\ peersMutex = None /\ connMutex = None
  /\ LET e == Head(todo[c]) IN
       \/ peers[e] > 0 /\ Greet(c)
       \/ /\ adopted[e] < MaxAdopts
          /\ Goto(c, "adopt") /\ connMutex' = c /\ UNCHANGED todo
  /\ UNCHANGED <<switchVars, tableVars, peersMutex, recent, sent, announced, heard,
                 ignored>>

\* A connection that no peer has the id of gets an entry of its own, beside the
\* one that was connected.
AdoptPeer(c) ==
  /\ pc[c] = "adopt" /\ peersMutex = None
  /\ LET e == Head(todo[c]) IN
       /\ peers' = [peers EXCEPT ![e] = @ + 1]
       /\ adopted' = [adopted EXCEPT ![e] = @ + 1]
  /\ Greet(c)
  /\ UNCHANGED <<switchVars, added, peersMutex, recent, sent, announced, heard, ignored>>

\* The remote end closes, and onDisconnect is called.
Disconnect(c) ==
  /\ pc[c] = "reading" /\ peersMutex = None /\ connMutex = None
  /\ Goto(c, "closed")
  /\ announced' = announced \ {c}
  /\ UNCHANGED <<switchVars, tableVars, mutexVars, recent, todo, sent, heard, ignored>>

SomePeer == \E e \in Endpoints : peers[e] > 0

\* sendPeerList finds discovery disabled in the meantime.
SendNothing(c) ==
  /\ pc[c] \in {"greet", "list"} /\ ~enabled
  /\ Goto(c, "reading")
  /\ connMutex' = IF connMutex = c THEN None ELSE connMutex
  /\ UNCHANGED <<switchVars, tableVars, peersMutex, recent, todo, sent, announced,
                 heard, ignored>>

\* sendPeerList of an empty table, asked for by a PEER_REQUEST.
SendPeerList(c) ==
  /\ pc[c] = "list" /\ peersMutex = None /\ connMutex = None
  /\ ~SomePeer
  /\ Goto(c, "reading")
  /\ UNCHANGED <<switchVars, tableVars, mutexVars, recent, todo, sent, announced, heard,
                 ignored>>

\* In every other case sendPeerList locks a mutex again that its thread has
\* locked: peersMutex_ in findPeerByConnectionId, or connectionsMutex_ in send()
\* when onConnect has called it.  That is undefined: lock() throws, and
\* sendPeerList catches it ...
Relocks(c) == pc[c] = "greet" \/ (pc[c] = "list" /\ SomePeer)

RelockThrows(c) ==
  /\ Relocks(c) /\ peersMutex = None
  /\ Goto(c, "reading")
  /\ connMutex' = IF connMutex = c THEN None ELSE connMutex
  /\ UNCHANGED <<switchVars, tableVars, peersMutex, recent, todo, sent, announced,
                 heard, ignored>>

\* ... or the thread waits for itself for ever.
RelockBlocks(c) ==
  /\ Relocks(c) /\ peersMutex = None
  /\ Goto(c, "blocked")
  /\ peersMutex' = IF SomePeer THEN c ELSE None
  /\ UNCHANGED <<switchVars, tableVars, connMutex, recent, todo, sent, announced, heard,
                 ignored>>

\* What a message asks for: PEER_REQUEST, or the endpoints of PEER_RESPONSE and
\* PEER_ANNOUNCE; PEER_KEEPALIVE has none.
Lists == UNION {[1..n -> Endpoints] : n \in 0..MaxList}

\* Mutation: the cache is filled before it is read.
ReceiveCachesFirst(c) ==
  /\ pc[c] = "reading" /\ peersMutex = None
  /\ \E id \in (sent[c] + 1)..MaxSender :
       /\ sent' = [sent EXCEPT ![c] = id]
       /\ IF ~enabled \/ ~running THEN UNCHANGED <<recent, pc, todo, heard, ignored>>
          ELSE /\ recent' = recent \cup {id}
               /\ ignored' = ignored \cup {<<c, id>>}
               /\ UNCHANGED <<pc, todo, heard>>
  /\ UNCHANGED <<switchVars, tableVars, mutexVars, announced>>

\* onMessage and handlePeerDiscoveryMessage, up to the handler of the type.
Receive(c) ==
  /\ pc[c] = "reading" /\ peersMutex = None
  /\ \E id \in (sent[c] + 1)..MaxSender :
       /\ sent' = [sent EXCEPT ![c] = id]
       /\ IF ~enabled \/ ~running THEN UNCHANGED <<recent, pc, todo, heard, ignored>>
          ELSE IF id \in recent
               THEN /\ ignored' = ignored \cup {<<c, id>>}
                    /\ UNCHANGED <<recent, pc, todo, heard>>
          ELSE /\ recent' = recent \cup {id}
               /\ heard' = [heard EXCEPT ![id] = @ \cup {c}]
               /\ \/ Goto(c, "list") /\ UNCHANGED todo
                  \/ \E list \in Lists :
                       /\ todo' = [todo EXCEPT ![c] = list]
                       /\ Goto(c, IF list = <<>> THEN "reading" ELSE "look")
               /\ UNCHANGED ignored
  /\ UNCHANGED <<switchVars, tableVars, mutexVars, announced>>

\* An entry is older than DISCOVERY_CACHE_TTL; cleanupDiscoveryCache erases it
\* some time later, which nothing can tell.
Expire(id) ==
  /\ id \in recent
  /\ recent' = recent \ {id}
  /\ UNCHANGED <<switchVars, tableVars, mutexVars, pc, todo, sent, announced, heard,
                 ignored>>

NextEndpoint(c) ==
  /\ todo' = [todo EXCEPT ![c] = Tail(@)]
  /\ Goto(c, IF Len(todo[c]) = 1 THEN "reading" ELSE "look")

\* Mutation: the table is not searched.
LookupNothing(c) ==
  /\ pc[c] = "look" /\ peersMutex = None
  /\ Goto(c, "add") /\ UNCHANGED todo
  /\ UNCHANGED <<switchVars, tableVars, mutexVars, recent, sent, announced, heard,
                 ignored>>

\* handlePeerResponse and handlePeerAnnouncement search the table in one
\* critical section and add in another.
Lookup(c) ==
  /\ pc[c] = "look" /\ peersMutex = None
  /\ IF peers[Head(todo[c])] > 0 THEN NextEndpoint(c)
                                 ELSE Goto(c, "add") /\ UNCHANGED todo
  /\ UNCHANGED <<switchVars, tableVars, mutexVars, recent, sent, announced, heard,
                 ignored>>

AddDiscovered(c) ==
  /\ pc[c] = "add" /\ peersMutex = None
  /\ peers' = [peers EXCEPT ![Head(todo[c])] = @ + 1]
  /\ NextEndpoint(c)
  /\ UNCHANGED <<switchVars, added, adopted, mutexVars, recent, sent, announced, heard,
                 ignored>>

-----------------------------------------------------------------------------
Owner == Start \/ (\E b \in BOOLEAN : EnablePeerDiscovery(b))
           \/ StopBegin \/ StopDisconnect \/ StopJoined

User == \E e \in Endpoints : AddPeer(e) \/ RemovePeer(e)

Connect(c) == ConnectToPeer(c) \/ ConnectFails(c) \/ OnConnect(c) \/ AdoptPeer(c)

Handle(c) == SendNothing(c) \/ SendPeerList(c) \/ RelockThrows(c) \/ RelockBlocks(c)
               \/ Lookup(c) \/ AddDiscovered(c)

Next ==
  \/ Owner \/ User \/ Announce
  \/ \E id \in SenderIds : Expire(id)
  \/ \E c \in Conns : Connect(c) \/ Disconnect(c) \/ Receive(c) \/ Handle(c)

Spec == Init /\ [][Next]_vars
-----------------------------------------------------------------------------
TypeOK ==
  /\ running \in BOOLEAN /\ enabled \in BOOLEAN /\ discovery \in BOOLEAN
  /\ taskId \in 0..MaxTasks /\ tasks \subseteq TaskIds /\ made \in 0..MaxTasks
  /\ opc \in {"idle", "disconnect", "join"}
  /\ peers \in [Endpoints -> Nat]
  /\ added \in [Endpoints -> 0..MaxAdds] /\ adopted \in [Endpoints -> Nat]
  /\ peersMutex \in Conns \cup {None} /\ connMutex \in Conns \cup {None}
  /\ recent \subseteq SenderIds
  /\ pc \in [Conns -> Steps]
  /\ todo \in [Conns -> Lists]
  /\ sent \in [Conns -> 0..MaxSender] /\ announced \subseteq Conns
  /\ heard \in [SenderIds -> SUBSET Conns] /\ ignored \subseteq Conns \X SenderIds
  /\ early \in BOOLEAN

\* However many messages name an endpoint, discovery adds at most one entry for
\* each connection that there can be at a time: handlers of different
\* connections may each have found it missing.  All other entries are those
\* that users have added, and those of onConnect, which adds one whenever it
\* overtakes connectToPeer() or finds the peer removed.
FewTwins ==
  \A e \in Endpoints : peers[e] <= added[e] + adopted[e] + Cardinality(Conns)

\* The cache of recent senders never recognises a node it has heard of: a
\* message is ignored only because another node has used the same id.
OnlyStrangersIgnored ==
  \A x \in ignored : heard[x[2]] \ {x[1]} # {}

\* Between calls, the announcements run exactly when discovery is enabled in a
\* running manager, with one task, except that start() leaves them off when
\* discovery had been enabled before.
DiscoveryFollowsSwitch ==
  opc = "idle" =>
    /\ discovery <=> running /\ enabled /\ ~early
    /\ tasks = IF discovery THEN {taskId} ELSE {}
=============================================================================
