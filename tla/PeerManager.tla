---------------------------- MODULE PeerManager ----------------------------
(***************************************************************************)
(* wrap_boost::PeerManager over the connections of a NetworkManager: the   *)
(* table of peers, the threads that call addPeer, connectToPeer,           *)
(* disconnectPeer and removePeer, and the io threads that run onConnect,   *)
(* onMessage and onDisconnect.  The manager is running, peer discovery is  *)
(* off, and connections are those that connect() makes.                    *)
(*                                                                         *)
(* A step is one critical section of peersMutex_ or connectionsMutex_, or  *)
(* one access to connected_.  Of a NetworkConnection the module keeps what *)
(* PeerManager sees; NetworkConnection.tla has the rest.                   *)
(***************************************************************************)
EXTENDS Naturals, FiniteSets

CONSTANTS
  Users,        \* threads that call the PeerManager
  IoThreads,    \* threads inside ioContext_.run()
  None,         \* no thread
  MaxAdds,      \* bound: peers that users add
  MaxConns,     \* bound: calls of NetworkManager::connect()
  MaxRemovals   \* bound: calls of removePeer()

Threads == Users \cup IoThreads
ConnIds == 1..MaxConns
PeerIds == 1..(MaxAdds + MaxConns)    \* a connection brings one peer at most

ASSUME ThreadsAssumption == Users \cap IoThreads = {} /\ None \notin Threads
ASSUME BoundsAssumption  == MaxAdds \in Nat /\ MaxConns \in Nat /\ MaxRemovals \in Nat

VARIABLES
  pstate,       \* PeerInfo::state_ of each entry of peers_, or "absent"
  pconn,        \* PeerInfo::connectionId_, 0 for none
  nextPeer,     \* nextPeerId_
  peersMutex,   \* who keeps peersMutex_ across steps
  link,         \* the state of each connection
  inMap,        \* connections_ holds the connection
  armed,        \* the connection has an outstanding read
  connMutex,    \* who keeps connectionsMutex_ across steps
  removals,     \* calls of removePeer(), for MaxRemovals
  pc,           \* where each thread is
  at,           \* the connection it works on, 0 for none
  who,          \* the peer it works on, 0 for none
  owner,        \* history: the peer a connection was made for, or the one
                \* that onConnect added when that peer had been removed
  dirty,        \* history: peers whose connections got mixed up, see below
  abandoned     \* history: connections whose end removePeer() failed to handle

vars == <<pstate, pconn, nextPeer, peersMutex, link, inMap, armed, connMutex,
          removals, pc, at, who, owner, dirty, abandoned>>

peerVars == <<pstate, pconn, nextPeer>>
netVars  == <<link, inMap, armed>>
history  == <<owner, dirty, abandoned>>

PeerStates == {"DISCONNECTED", "CONNECTING", "CONNECTED", "HANDSHAKING", "ACTIVE",
               "DISCONNECTING"}

\* "connecting": async_connect is outstanding; "up": connected_ is true;
\* "down": it was and is no more; "failed", "dead": it never will be, without
\* and with an entry in connections_.
LinkStates == {"none", "connecting", "up", "down", "failed", "dead"}

ConnectSteps    == {"connect", "undo", "store"}
OnConnectSteps  == {"lookup", "adopt", "adoptSet", "connected", "handshake"}
CloseSteps      == {"close", "flag", "erase", "find", "update"}
Steps == {"idle", "netDisconnect", "active", "rmDisconnect", "rmErase"}
           \cup ConnectSteps \cup OnConnectSteps \cup CloseSteps

Present(p) == pstate[p] # "absent"

\* PeerInfo::isConnected
IsConnected(p) == pstate[p] \in {"CONNECTED", "HANDSHAKING", "ACTIVE"}

Holders(c) == {p \in PeerIds : Present(p) /\ pconn[p] = c}

\* findPeerByConnectionId: the lowest id with this connection, or 0.
FindPeer(c) ==
  IF Holders(c) = {} THEN 0
  ELSE CHOOSE p \in Holders(c) : \A q \in Holders(c) : p <= q

\* setPeerState: nothing happens when the peer has gone.
SetPeerState(p, s) ==
  pstate' = [pstate EXCEPT ![p] = IF @ = "absent" THEN @ ELSE s]

Goto(t, step) == pc' = [pc EXCEPT ![t] = step]
Move(t, step, c, p) ==
  /\ Goto(t, step)
  /\ at'  = [at EXCEPT ![t] = c]
  /\ who' = [who EXCEPT ![t] = p]
Return(t) == Move(t, "idle", 0, 0)

Init ==
  /\ pstate = [p \in PeerIds |-> "absent"] /\ pconn = [p \in PeerIds |-> 0]
  /\ nextPeer = 1 /\ peersMutex = None
  /\ link = [c \in ConnIds |-> "none"]
  /\ inMap = [c \in ConnIds |-> FALSE] /\ armed = [c \in ConnIds |-> FALSE]
  /\ connMutex = None /\ removals = 0
  /\ pc = [t \in Threads |-> "idle"]
  /\ at = [t \in Threads |-> 0] /\ who = [t \in Threads |-> 0]
  /\ owner = [c \in ConnIds |-> 0] /\ dirty = {} /\ abandoned = {}

-----------------------------------------------------------------------------
(* addPeer and connectToPeer *)

\* addPeer(): a DISCONNECTED entry without connection.
Insert ==
  /\ peersMutex = None
  /\ pstate' = [pstate EXCEPT ![nextPeer] = "DISCONNECTED"]
  /\ pconn' = [pconn EXCEPT ![nextPeer] = 0]
  /\ nextPeer' = nextPeer + 1

AddPeer(u) ==
  /\ u \in Users /\ pc[u] = "idle" /\ nextPeer <= MaxAdds
  /\ Insert
  /\ UNCHANGED <<netVars, peersMutex, connMutex, removals, pc, at, who, history>>

\* Nothing of connection c is still to come: neither its async_connect nor a
\* callback about it nor the thread that stores its id.
Over(c) ==
  /\ link[c] \in {"none", "down", "failed", "dead"}
  /\ \A t \in Threads : at[t] # c

\* The peer gets CONNECTING before the connection exists.  History: it is dirty
\* if an earlier attempt or connection of the same peer is not over.
ConnectBegin(u) ==
  \E p \in PeerIds :
    /\ u \in Users /\ pc[u] = "idle" /\ peersMutex = None
    /\ Present(p) /\ ~IsConnected(p)
    /\ pstate' = [pstate EXCEPT ![p] = "CONNECTING"]
    /\ Move(u, "connect", 0, p)
    /\ dirty' = IF \/ \E c \in ConnIds : owner[c] = p /\ ~Over(c)
                   \/ \E t \in Threads : who[t] = p
                THEN dirty \cup {p} ELSE dirty
    /\ UNCHANGED <<pconn, nextPeer, netVars, peersMutex, connMutex, removals, owner,
                   abandoned>>

\* NetworkManager::connect: it returns the id of a connection whose
\* async_connect it has started, or 0 when the name does not resolve.
ConnectCall(u) ==
  /\ pc[u] = "connect"
  /\ \/ \E c \in ConnIds :
          /\ link[c] = "none" /\ \A d \in ConnIds : d < c => link[d] # "none"
          /\ link' = [link EXCEPT ![c] = "connecting"]
          /\ owner' = [owner EXCEPT ![c] = who[u]]
          /\ Move(u, "store", c, who[u])
     \/ Goto(u, "undo") /\ UNCHANGED <<link, owner, at, who>>
  /\ UNCHANGED <<peerVars, inMap, armed, peersMutex, connMutex, removals, dirty,
                 abandoned>>

\* The id is stored only now: the io threads may already have used it.
ConnectStore(u) ==
  /\ pc[u] = "store" /\ peersMutex = None
  /\ pconn' = IF Present(who[u]) THEN [pconn EXCEPT ![who[u]] = at[u]] ELSE pconn
  /\ Return(u)
  /\ UNCHANGED <<pstate, nextPeer, netVars, peersMutex, connMutex, removals, history>>

ConnectUndo(u) ==
  /\ pc[u] = "undo" /\ peersMutex = None
  /\ SetPeerState(who[u], "DISCONNECTED")
  /\ Return(u)
  /\ UNCHANGED <<pconn, nextPeer, netVars, peersMutex, connMutex, removals, history>>

-----------------------------------------------------------------------------
(* The completion of async_connect *)

\* onError only logs, and the peer stays as it is.
ConnectFails(t) ==
  \E c \in ConnIds :
    /\ t \in IoThreads /\ pc[t] = "idle" /\ peersMutex = None
    /\ link[c] = "connecting"
    /\ link' = [link EXCEPT ![c] = "failed"]
    /\ UNCHANGED <<peerVars, inMap, armed, peersMutex, connMutex, removals, pc,
                   at, who, history>>

\* The handler takes connectionsMutex_, stores the connection and calls
\* start(), which calls onConnect with the mutex locked.
Established(t) ==
  \E c \in ConnIds :
    /\ t \in IoThreads /\ pc[t] = "idle" /\ connMutex = None
    /\ link[c] = "connecting"
    /\ inMap' = [inMap EXCEPT ![c] = TRUE]
    /\ link' = [link EXCEPT ![c] = "up"]
    /\ connMutex' = t
    /\ Move(t, "lookup", c, 0)
    /\ UNCHANGED <<peerVars, armed, peersMutex, removals, history>>

\* start() fails: the entry stays in connections_ and no callback follows.
StartFails(t) ==
  \E c \in ConnIds :
    /\ t \in IoThreads /\ pc[t] = "idle" /\ connMutex = None /\ peersMutex = None
    /\ link[c] = "connecting"
    /\ inMap' = [inMap EXCEPT ![c] = TRUE]
    /\ link' = [link EXCEPT ![c] = "dead"]
    /\ UNCHANGED <<peerVars, armed, peersMutex, connMutex, removals, pc, at, who,
                   history>>

\* Mutation: only a peer that is connected already counts as found.
LookupConnected(t) ==
  /\ pc[t] = "lookup" /\ peersMutex = None
  /\ LET p == FindPeer(at[t])
         known == p # 0 /\ IsConnected(p)
     IN  /\ Move(t, IF known THEN "connected" ELSE "adopt", at[t], IF known THEN p ELSE 0)
         /\ dirty' = IF p = 0 /\ Present(owner[at[t]]) THEN dirty \cup {owner[at[t]]}
                                                      ELSE dirty
  /\ UNCHANGED <<peerVars, netVars, peersMutex, connMutex, removals, owner, abandoned>>

\* onConnect.  History: when it overtakes ConnectStore the peer is dirty.  A peer
\* that was removed in the meantime is not found either.
Lookup(t) ==
  /\ pc[t] = "lookup" /\ peersMutex = None
  /\ LET p == FindPeer(at[t]) IN
       /\ Move(t, IF p = 0 THEN "adopt" ELSE "connected", at[t], p)
       /\ dirty' = IF p = 0 /\ Present(owner[at[t]]) THEN dirty \cup {owner[at[t]]}
                                                    ELSE dirty
  /\ UNCHANGED <<peerVars, netVars, peersMutex, connMutex, removals, owner, abandoned>>

\* A connection nobody knows gets a peer of its own, in two critical sections.
\* History: it shares the connection with the peer that was overtaken, and is
\* dirty, or takes the place of the one that was removed.
Adopt(t) ==
  /\ pc[t] = "adopt"
  /\ Insert
  /\ Move(t, "adoptSet", at[t], nextPeer)
  /\ IF Present(owner[at[t]])
     THEN dirty' = dirty \cup {nextPeer} /\ UNCHANGED owner
     ELSE owner' = [owner EXCEPT ![at[t]] = nextPeer] /\ UNCHANGED dirty
  /\ UNCHANGED <<netVars, peersMutex, connMutex, removals, abandoned>>

AdoptSet(t) ==
  /\ pc[t] = "adoptSet" /\ peersMutex = None
  /\ SetPeerState(who[t], "CONNECTED")
  /\ pconn' = IF Present(who[t]) THEN [pconn EXCEPT ![who[t]] = at[t]] ELSE pconn
  /\ Goto(t, "handshake")
  /\ UNCHANGED <<nextPeer, netVars, peersMutex, connMutex, removals, at, who, history>>

Connected(t) ==
  /\ pc[t] = "connected" /\ peersMutex = None
  /\ SetPeerState(who[t], "CONNECTED")
  /\ Goto(t, "handshake")
  /\ UNCHANGED <<pconn, nextPeer, netVars, peersMutex, connMutex, removals, at, who,
                 history>>

\* The end of onConnect and of start(): the first read is armed and
\* connectionsMutex_ released.
Handshake(t) ==
  /\ pc[t] = "handshake" /\ peersMutex = None
  /\ SetPeerState(who[t], "HANDSHAKING")
  /\ armed' = [armed EXCEPT ![at[t]] = link[at[t]] = "up"]
  /\ connMutex' = None
  /\ Return(t)
  /\ UNCHANGED <<pconn, nextPeer, link, inMap, peersMutex, removals, history>>

-----------------------------------------------------------------------------
(* onMessage *)

\* A read completes and onMessage finds the peer; without one it does nothing
\* and the next read is armed.
OnMessage(t) ==
  \E c \in ConnIds :
    /\ t \in IoThreads /\ pc[t] = "idle" /\ peersMutex = None
    /\ armed[c]
    /\ IF FindPeer(c) = 0
       THEN /\ armed' = [armed EXCEPT ![c] = link[c] = "up"]
            /\ UNCHANGED <<pc, at, who>>
       ELSE /\ armed' = [armed EXCEPT ![c] = FALSE]
            /\ Move(t, "active", c, FindPeer(c))
    /\ UNCHANGED <<peerVars, link, inMap, peersMutex, connMutex, removals, history>>

\* The first message ends the handshake.
Activate(t) ==
  /\ pc[t] = "active" /\ peersMutex = None
  /\ pstate' = [pstate EXCEPT ![who[t]] = IF @ = "HANDSHAKING" THEN "ACTIVE" ELSE @]
  /\ armed' = [armed EXCEPT ![at[t]] = link[at[t]] = "up"]
  /\ Return(t)
  /\ UNCHANGED <<pconn, nextPeer, link, inMap, peersMutex, connMutex, removals, history>>

-----------------------------------------------------------------------------
(* disconnectPeer, read errors and onDisconnect *)

\* Mutation: peersMutex_ is kept while the connection is closed.
DisconnectPeerLocked(u) ==
  \E p \in PeerIds :
    /\ u \in Users /\ pc[u] = "idle" /\ peersMutex = None
    /\ IsConnected(p) /\ pconn[p] > 0
    /\ pstate' = [pstate EXCEPT ![p] = "DISCONNECTING"]
    /\ peersMutex' = u
    /\ Move(u, "netDisconnect", pconn[p], 0)
    /\ UNCHANGED <<pconn, nextPeer, netVars, connMutex, removals, history>>

DisconnectPeer(u) ==
  \E p \in PeerIds :
    /\ u \in Users /\ pc[u] = "idle" /\ peersMutex = None
    /\ IsConnected(p)
    /\ pstate' = [pstate EXCEPT ![p] = "DISCONNECTING"]
    /\ IF pconn[p] > 0 THEN Move(u, "netDisconnect", pconn[p], 0)
                       ELSE UNCHANGED <<pc, at, who>>
    /\ UNCHANGED <<pconn, nextPeer, netVars, peersMutex, connMutex, removals, history>>

\* What a thread does after close(): removePeer goes on, the others return.
AfterClose(t) == IF peersMutex = t THEN Goto(t, "rmErase") /\ UNCHANGED <<at, who>>
                                   ELSE Return(t)

\* NetworkManager::disconnect
NetDisconnect(t) ==
  /\ pc[t] \in {"netDisconnect", "rmDisconnect"} /\ connMutex = None
  /\ IF at[t] > 0 /\ inMap[at[t]] THEN Goto(t, "close") /\ UNCHANGED <<at, who>>
                     ELSE AfterClose(t)
  /\ UNCHANGED <<peerVars, netVars, peersMutex, connMutex, removals, history>>

\* The remote end or close() has ended the outstanding read.
ReadError(t) ==
  \E c \in ConnIds :
    /\ t \in IoThreads /\ pc[t] = "idle"
    /\ armed[c]
    /\ armed' = [armed EXCEPT ![c] = FALSE]
    /\ Move(t, "close", c, 0)
    /\ UNCHANGED <<peerVars, link, inMap, peersMutex, connMutex, removals, history>>

\* NetworkConnection::close: two threads may both find connected_ true.
Close(t) ==
  /\ pc[t] = "close"
  /\ IF link[at[t]] = "up" THEN Goto(t, "flag") /\ UNCHANGED <<at, who>>
                           ELSE AfterClose(t)
  /\ UNCHANGED <<peerVars, netVars, peersMutex, connMutex, removals, history>>

\* Mutation: connected_ is not reset.
CloseFlagStaysUp(t) ==
  /\ pc[t] = "flag"
  /\ Goto(t, "erase")
  /\ UNCHANGED <<peerVars, netVars, peersMutex, connMutex, removals, at, who, history>>

CloseFlag(t) ==
  /\ pc[t] = "flag"
  /\ link' = [link EXCEPT ![at[t]] = "down"]
  /\ Goto(t, "erase")
  /\ UNCHANGED <<peerVars, inMap, armed, peersMutex, connMutex, removals, at, who,
                 history>>

\* NetworkManager::onDisconnect
EraseConnection(t) ==
  /\ pc[t] = "erase" /\ connMutex = None
  /\ inMap' = [inMap EXCEPT ![at[t]] = FALSE]
  /\ Goto(t, "find")
  /\ UNCHANGED <<peerVars, link, armed, peersMutex, connMutex, removals, at, who,
                 history>>

\* PeerManager::onDisconnect: which peer it is, in one critical section ...
FindDisconnected(t) ==
  /\ pc[t] = "find" /\ peersMutex = None
  /\ IF FindPeer(at[t]) = 0 THEN Return(t)
                            ELSE Move(t, "update", at[t], FindPeer(at[t]))
  /\ UNCHANGED <<peerVars, netVars, peersMutex, connMutex, removals, history>>

\* Mutation: the connection id is reset and the state is not.
UpdateKeepsState(t) ==
  /\ pc[t] = "update" /\ peersMutex = None
  /\ pconn' = IF Present(who[t]) THEN [pconn EXCEPT ![who[t]] = 0] ELSE pconn
  /\ Return(t)
  /\ UNCHANGED <<pstate, nextPeer, netVars, peersMutex, connMutex, removals, history>>

\* Mutation: only a peer that is DISCONNECTING still becomes DISCONNECTED.
UpdateUnlessOverwritten(t) ==
  /\ pc[t] = "update" /\ peersMutex = None
  /\ pstate' = [pstate EXCEPT ![who[t]] = IF @ = "DISCONNECTING" THEN "DISCONNECTED" ELSE @]
  /\ pconn' = IF Present(who[t]) THEN [pconn EXCEPT ![who[t]] = 0] ELSE pconn
  /\ Return(t)
  /\ UNCHANGED <<nextPeer, netVars, peersMutex, connMutex, removals, history>>

\* ... and the update, of whatever this peer has become, in another.
Update(t) ==
  /\ pc[t] = "update" /\ peersMutex = None
  /\ SetPeerState(who[t], "DISCONNECTED")
  /\ pconn' = IF Present(who[t]) THEN [pconn EXCEPT ![who[t]] = 0] ELSE pconn
  /\ Return(t)
  /\ UNCHANGED <<nextPeer, netVars, peersMutex, connMutex, removals, history>>

-----------------------------------------------------------------------------
(* removePeer *)

\* The peer of a connection is disconnected with peersMutex_ locked.
RemovePeer(u) ==
  \E p \in PeerIds :
    /\ u \in Users /\ pc[u] = "idle" /\ peersMutex = None
    /\ Present(p) /\ removals < MaxRemovals
    /\ removals' = removals + 1
    /\ IF IsConnected(p)
       THEN /\ peersMutex' = u
            /\ Move(u, "rmDisconnect", pconn[p], p)
            /\ UNCHANGED <<pstate, pconn>>
       ELSE /\ pstate' = [pstate EXCEPT ![p] = "absent"]
            /\ pconn' = [pconn EXCEPT ![p] = 0]
            /\ UNCHANGED <<peersMutex, pc, at, who>>
    /\ UNCHANGED <<nextPeer, netVars, connMutex, history>>

RemoveErase(u) ==
  /\ pc[u] = "rmErase"
  /\ pstate' = [pstate EXCEPT ![who[u]] = "absent"]
  /\ pconn' = [pconn EXCEPT ![who[u]] = 0]
  /\ peersMutex' = None
  /\ Return(u)
  /\ UNCHANGED <<nextPeer, netVars, connMutex, removals, history>>

\* onDisconnect comes back to the thread that has peersMutex_ locked.  Locking
\* it again is undefined: the thread waits for itself for ever (no step), or
\* lock() throws through close() and removePeer(), which unlocks and leaves the
\* peer in the table with the connection that is down.
RemoveThrows(u) ==
  /\ pc[u] = "find" /\ peersMutex = u
  /\ peersMutex' = None
  /\ abandoned' = abandoned \cup {at[u]}
  /\ Return(u)
  /\ UNCHANGED <<peerVars, netVars, connMutex, removals, owner, dirty>>

-----------------------------------------------------------------------------
Call(u) == AddPeer(u) \/ ConnectBegin(u) \/ DisconnectPeer(u) \/ RemovePeer(u)

Complete(t) ==
  ConnectFails(t) \/ Established(t) \/ StartFails(t) \/ OnMessage(t) \/ ReadError(t)

Continue(t) ==
  \/ ConnectCall(t) \/ ConnectStore(t) \/ ConnectUndo(t)
  \/ Lookup(t) \/ Adopt(t) \/ AdoptSet(t) \/ Connected(t) \/ Handshake(t)
  \/ Activate(t)
  \/ NetDisconnect(t) \/ Close(t) \/ CloseFlag(t) \/ EraseConnection(t)
  \/ FindDisconnected(t) \/ Update(t)
  \/ RemoveErase(t)

Next == \E t \in Threads : Call(t) \/ Complete(t) \/ Continue(t) \/ RemoveThrows(t)

\* Every thread runs, but one that locks its own mutex may wait for ever, and
\* async_connect ends in one way or another.
Fairness ==
  /\ \A t \in Threads : WF_vars(Continue(t))
  /\ WF_vars(\E t \in IoThreads : ConnectFails(t) \/ Established(t) \/ StartFails(t))

Spec     == Init /\ [][Next]_vars
FairSpec == Spec /\ Fairness
-----------------------------------------------------------------------------
TypeOK ==
  /\ pstate \in [PeerIds -> PeerStates \cup {"absent"}]
  /\ pconn \in [PeerIds -> ConnIds \cup {0}]
  /\ nextPeer \in 1..(MaxAdds + MaxConns + 1)
  /\ peersMutex \in Threads \cup {None} /\ connMutex \in Threads \cup {None}
  /\ link \in [ConnIds -> LinkStates]
  /\ inMap \in [ConnIds -> BOOLEAN] /\ armed \in [ConnIds -> BOOLEAN]
  /\ removals \in 0..MaxRemovals
  /\ pc \in [Threads -> Steps]
  /\ at \in [Threads -> ConnIds \cup {0}]
  /\ who \in [Threads -> PeerIds \cup {0}]
  /\ owner \in [ConnIds -> PeerIds \cup {0}]
  /\ dirty \subseteq PeerIds /\ abandoned \subseteq ConnIds

\* Threads that run onConnect or close() and onDisconnect for a connection.
Connecting(c) == \E t \in Threads : at[t] = c /\ pc[t] \in OnConnectSteps \cup {"store"}
Closing(c)    == \E t \in Threads : at[t] = c /\ pc[t] \in CloseSteps

\* Two peers share a connection only after onConnect overtook the thread that
\* stores the id in connectToPeer, or connectToPeer started while an earlier
\* connection of the same peer was not over.
OnePeerPerConnection ==
  \A p, q \in PeerIds :
    Present(p) /\ Present(q) /\ p # q /\ pconn[p] = pconn[q] /\ pconn[p] > 0 =>
      owner[pconn[p]] \in dirty

\* A peer shown as connected has a live connection, or onDisconnect for it is
\* on its way: sendToPeer and broadcast do not go on writing to a dead peer.
\* Besides the peers of those two situations there is one that stays connected:
\* the peer that removePeer() has failed to remove, of an abandoned connection.
NoDeadPeer ==
  \A p \in PeerIds \ dirty :
    IsConnected(p) =>
      /\ pconn[p] > 0
      /\ link[pconn[p]] = "up" \/ Closing(pconn[p]) \/ pconn[p] \in abandoned

\* A live connection can be reached through the peer it was made for, outside
\* the two situations, and whatever removePeer() has failed to remove before.
NoLostConnection ==
  \A c \in ConnIds :
    LET p == owner[c] IN
    link[c] = "up" /\ ~Connecting(c) /\ Present(p) /\ p \notin dirty =>
      /\ pconn[p] = c
      /\ IsConnected(p) \/ pstate[p] = "DISCONNECTING"

\* removePeer() of a connected peer waits for ever with peersMutex_ locked: for
\* itself, or for an io thread in onConnect, which waits for peersMutex_.
RemovalHangs ==
  <>[](\E u \in Users : peersMutex = u /\ pc[u] \in {"rmDisconnect", "find"})

\* disconnectPeer completes, also when onConnect sets the peer to HANDSHAKING
\* after it was set to DISCONNECTING: the peer becomes DISCONNECTED or has been
\* removed, outside the two situations and for a connection that is not
\* abandoned.
DisconnectCompletes ==
  \/ RemovalHangs
  \/ \A p \in PeerIds :
       pstate[p] = "DISCONNECTING" ~>
         pstate[p] \in {"DISCONNECTED", "absent"} \/ p \in dirty \/ pconn[p] \in abandoned

\* Every call returns: a removePeer() that hangs is all that ever stops one, and
\* the two mutexes and the callbacks cannot deadlock otherwise.
CallsReturn ==
  \/ RemovalHangs
  \/ \A u \in Users : []<>(pc[u] = "idle")
=============================================================================
