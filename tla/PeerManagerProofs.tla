------------------------- MODULE PeerManagerProofs -------------------------
(***************************************************************************)
(* Proofs about PeerManager for every number of threads, peers and         *)
(* connections: as long as connectToPeer and onConnect do not overtake     *)
(* each other, a connection belongs to one peer, a peer shown as connected *)
(* has a live connection or one that removePeer() abandoned, and a live    *)
(* connection is not lost.                                                 *)
(***************************************************************************)
EXTENDS PeerManager, FiniteSetTheorems, WellFoundedInduction, TLAPS

\* removePeer() keeps peersMutex_ from the call of NetworkManager::disconnect() to
\* the erasure, and the completion of async_connect keeps connectionsMutex_.
RemoveSteps == {"rmDisconnect", "close", "flag", "erase", "find", "rmErase"}

MutexInv ==
  /\ peersMutex # None => who[peersMutex] # 0 /\ pc[peersMutex] \in RemoveSteps
  /\ \A t \in Threads :
       /\ pc[t] \in {"rmDisconnect", "rmErase"} => peersMutex = t
       /\ pc[t] \in CloseSteps \ {"update"} /\ who[t] # 0 => peersMutex = t
       /\ pc[t] \in OnConnectSteps => connMutex = t
  /\ connMutex # None => pc[connMutex] \in OnConnectSteps

\* What a thread works on in each step.
PlaceInv ==
  \A t \in Threads :
    /\ pc[t] = "idle" => at[t] = 0 /\ who[t] = 0
    /\ pc[t] \in {"connect", "undo"} => at[t] = 0 /\ who[t] # 0
    /\ pc[t] \in {"lookup", "adopt"} => at[t] # 0 /\ who[t] = 0
    /\ pc[t] \in {"store", "adoptSet", "connected", "handshake", "active", "update"} =>
         at[t] # 0 /\ who[t] # 0
    /\ pc[t] = "netDisconnect" => at[t] # 0 /\ who[t] = 0
    /\ pc[t] \in CloseSteps => at[t] # 0

\* How far the connection is that a thread works on.
LinkInv ==
  /\ \A c \in ConnIds : /\ inMap[c] => link[c] \in {"up", "down", "dead"}
                        /\ armed[c] => link[c] \in {"up", "down"}
                        /\ link[c] # "none" => owner[c] # 0
                        /\ c \in abandoned => link[c] = "down" /\ ~inMap[c]
  /\ \A p \in PeerIds : pconn[p] # 0 => link[pconn[p]] # "none"
  /\ \A t \in Threads :
       /\ at[t] # 0 => link[at[t]] # "none"
       /\ pc[t] = "store" /\ Present(who[t]) => owner[at[t]] = who[t]
       /\ pc[t] \in OnConnectSteps => link[at[t]] = "up" /\ ~armed[at[t]]
       /\ pc[t] = "close" => link[at[t]] \in {"up", "down", "dead"}
       /\ pc[t] \in {"active", "flag"} => link[at[t]] \in {"up", "down"}
       /\ pc[t] \in {"erase", "find", "update"} => link[at[t]] = "down"
       /\ pc[t] \in {"find", "update"} => ~inMap[at[t]]
       /\ pc[t] \in OnConnectSteps =>
            \A u \in Threads : pc[u] \in CloseSteps \cup {"active"} => at[u] # at[t]

\* Ids of peers are not used again.
FreshInv ==
  /\ \A p \in PeerIds : pstate[p] = "absent" => pconn[p] = 0
  /\ \A p \in PeerIds : Present(p) => p < nextPeer
  /\ \A c \in ConnIds : owner[c] < nextPeer
  /\ \A t \in Threads : who[t] < nextPeer

\* Nobody but the peer it was made for knows the connection before onConnect has added one.
Unadopted(c) ==
  link[c] = "connecting" \/ \E t \in Threads : pc[t] \in {"lookup", "adopt"} /\ at[t] = c

\* A connection is that of the peer it was made for, or both are dirty.
Made(p, c) == owner[c] = p \/ (owner[c] \in dirty /\ p \in dirty)

HolderInv ==
  /\ \A p \in PeerIds : pconn[p] # 0 => Made(p, pconn[p])
  /\ \A c \in ConnIds : Unadopted(c) =>
       /\ \A p \in PeerIds : pconn[p] = c => owner[c] = p
       /\ \A t \in Threads : at[t] = c /\ who[t] # 0 /\ Present(who[t]) => owner[c] = who[t]
  /\ \A t \in Threads :
       /\ pc[t] = "adopt" /\ Present(owner[at[t]]) => owner[at[t]] \in dirty
       /\ at[t] # 0 /\ who[t] # 0 /\ (Present(who[t]) \/ pc[t] # "store") =>
            Made(who[t], at[t])

\* The connection may still become or is one that a peer can use.
Alive(c) == link[c] \in {"connecting", "up"}

\* A thread in connectToPeer that has not stored a connection id yet.
Connects(t, p) == who[t] = p /\ pc[t] \in {"connect", "undo", "store"}

\* A connection that removePeer() has abandoned and no thread comes back to report.
Left(c) ==
  /\ c \in abandoned
  /\ \A t \in Threads : at[t] = c => pc[t] \notin {"flag", "erase", "find", "update"}

\* While a thread is inside connectToPeer nobody else works on the peer, but for a
\* message that an abandoned connection still had, and no other connection of the peer
\* is of any use.
ConnectInv(p) ==
  \A t \in Threads : Connects(t, p) =>
    /\ \A u \in Threads : who[u] = p => u = t \/ pc[u] = "active"
    /\ pstate[p] = "CONNECTING"
    /\ pconn[p] # 0 => link[pconn[p]] \in {"failed", "dead"} \/ Left(pconn[p])
    /\ \A c \in ConnIds : owner[c] = p /\ Alive(c) => pc[t] = "store" /\ at[t] = c
    /\ pc[t] = "store" =>
         /\ pconn[p] # at[t] /\ link[at[t]] # "down"
         /\ link[at[t]] = "up" => \E u \in Threads : pc[u] = "lookup" /\ at[u] = at[t]

\* A connection that is of use is stored, or about to be; a peer that onConnect has just
\* added has no other.
AliveInv(p) ==
  /\ \A t \in Threads : pc[t] = "adoptSet" /\ who[t] = p =>
       pconn[p] = 0 /\ \A c \in ConnIds : owner[c] = p => c = at[t]
  /\ \A c \in ConnIds : owner[c] = p /\ Alive(c) =>
       /\ \/ pconn[p] = c
          \/ \E t \in Threads : pc[t] \in {"store", "adoptSet"} /\ at[t] = c /\ who[t] = p
       /\ \A t \in Threads : ~(pc[t] = "update" /\ who[t] = p)
       /\ link[c] = "up" =>
            \/ \E t \in Threads : pc[t] \in OnConnectSteps /\ at[t] = c
            \/ IsConnected(p) \/ pstate[p] = "DISCONNECTING"

\* A connection that went down is still stored only while onDisconnect is on its way,
\* or when it is abandoned.
DownInv(p) ==
  /\ pconn[p] # 0 /\ link[pconn[p]] = "down" =>
       \/ \E t \in Threads : pc[t] \in {"erase", "find", "update"} /\ at[t] = pconn[p]
       \/ pconn[p] \in abandoned
  /\ IsConnected(p) => pconn[p] # 0 /\ link[pconn[p]] \in {"up", "down"}

Clean(p) == Present(p) /\ p \notin dirty

CleanInv == \A p \in PeerIds : Clean(p) => ConnectInv(p) /\ AliveInv(p) /\ DownInv(p)

\* The connections that may have brought a peer.
Adopted ==
  {c \in ConnIds : /\ link[c] \in {"up", "down"}
                   /\ \A t \in Threads : pc[t] \in {"lookup", "adopt"} => at[t] # c}

RoomInv == nextPeer <= MaxAdds + 1 + Cardinality(Adopted)

IInv == /\ TypeOK /\ MutexInv /\ PlaceInv /\ LinkInv /\ FreshInv /\ HolderInv
        /\ CleanInv /\ RoomInv

-----------------------------------------------------------------------------
(* Operators and constants *)

\* What the proofs use of the constants.
Facts ==
  /\ None \notin Threads /\ Users \subseteq Threads /\ IoThreads \subseteq Threads
  /\ \A p \in PeerIds : p \in Nat /\ p # 0
  /\ \A c \in ConnIds : c \in Nat /\ c # 0
  /\ 1..MaxAdds \subseteq PeerIds

LEMMA ConstantFacts == Facts
  BY ThreadsAssumption, BoundsAssumption DEF Facts, Threads, PeerIds, ConnIds

\* A set of peer ids has a least element.
LEMMA LeastPeer ==
  ASSUME NEW S \in SUBSET PeerIds, S # {}
  PROVE  \E p \in S : \A q \in S : p <= q
<1> DEFINE R == {ss \in Nat \X Nat : ss[1] < ss[2]}
<1>1. S \subseteq Nat
  BY ConstantFacts DEF Facts
<1>2. IsWellFoundedOn(R, Nat)
  BY NatLessThanWellFounded DEF OpToRel
<1>3. \A p, q \in Nat : p < q => <<p, q>> \in R
  OBVIOUS
<1> HIDE DEF R
<1>4. PICK p \in S : \A q \in S : ~(<<q, p>> \in R)
  BY <1>1, <1>2, WFMin
<1>5. \A q \in S : ~(q < p)
  BY <1>1, <1>3, <1>4
<1>6. \A q \in S : p <= q
  BY <1>1, <1>5
<1> QED
  BY <1>6

\* findPeerByConnectionId returns a peer with the connection, or 0 for none.
LEMMA FindPeerIs ==
  ASSUME NEW c
  PROVE  IF Holders(c) = {} THEN FindPeer(c) = 0 ELSE FindPeer(c) \in Holders(c)
<1>1. ASSUME Holders(c) # {} PROVE FindPeer(c) \in Holders(c)
  <2>1. Holders(c) \in SUBSET PeerIds
    BY DEF Holders
  <2>2. PICK p \in Holders(c) : \A q \in Holders(c) : p <= q
    BY <1>1, <2>1, LeastPeer
  <2>3. (CHOOSE r \in Holders(c) : \A q \in Holders(c) : r <= q) \in Holders(c)
    BY <2>2
  <2> QED
    BY <1>1, <2>3 DEF FindPeer
<1> QED
  BY <1>1 DEF FindPeer

\* The same in terms of the tables, and 0 is no peer.
LEMMA FoundIs ==
  ASSUME NEW c
  PROVE  \/ FindPeer(c) = 0 /\ \A p \in PeerIds : Present(p) => pconn[p] # c
         \/ /\ FindPeer(c) \in PeerIds /\ FindPeer(c) # 0
            /\ Present(FindPeer(c)) /\ pconn[FindPeer(c)] = c
  BY FindPeerIs, ConstantFacts DEF Holders, Facts

\* Adopt has a peer id to give.
Spare == \A t \in Threads : pc[t] = "adopt" => nextPeer \in PeerIds

-----------------------------------------------------------------------------
(* Types, mutexes, and what the threads work on *)

\* addPeer() with an id to give.
LEMMA InsertIs ==
  ASSUME TypeOK, Insert, nextPeer \in PeerIds
  PROVE  /\ pstate' \in [PeerIds -> PeerStates \cup {"absent"}]
         /\ pconn' \in [PeerIds -> ConnIds \cup {0}]
         /\ nextPeer' \in 1..(MaxAdds + MaxConns + 1)
<1>1. nextPeer + 1 \in 1..(MaxAdds + MaxConns + 1)
  BY BoundsAssumption DEF PeerIds
<1> QED
  BY <1>1 DEF TypeOK, Insert, PeerStates

\* Types are kept.
LEMMA TypesStep ==
  ASSUME TypeOK, MutexInv, PlaceInv, LinkInv, FreshInv, Spare, Next
  PROVE  TypeOK'
<1> USE DEF Facts, Goto, Move, Return, Insert, AfterClose, SetPeerState, Present,
        IsConnected, peerVars, netVars, history, TypeOK, PeerStates, LinkStates, Steps,
        ConnectSteps, OnConnectSteps, CloseSteps
<1>0. Facts /\ TypeOK /\ MutexInv /\ PlaceInv /\ LinkInv /\ FreshInv /\ Spare
  BY ConstantFacts
<1>1. ASSUME NEW t \in Threads, AddPeer(t) PROVE TypeOK'
  <2>1. nextPeer \in PeerIds
    BY <1>0, <1>1, BoundsAssumption DEF AddPeer, PeerIds
  <2>2. /\ pstate' \in [PeerIds -> PeerStates \cup {"absent"}]
        /\ pconn' \in [PeerIds -> ConnIds \cup {0}]
        /\ nextPeer' \in 1..(MaxAdds + MaxConns + 1)
    BY <1>0, <1>1, <2>1, InsertIs DEF AddPeer
  <2> QED
    BY <1>0, <1>1, <2>2 DEF AddPeer
<1>2. ASSUME NEW t \in Threads, ConnectBegin(t) PROVE TypeOK'
  BY <1>0, <1>2, FoundIs DEF ConnectBegin, MutexInv, PlaceInv, LinkInv, FreshInv, Spare
<1>3. ASSUME NEW t \in Threads, DisconnectPeer(t) PROVE TypeOK'
  BY <1>0, <1>3, FoundIs DEF DisconnectPeer, MutexInv, PlaceInv, LinkInv, FreshInv,
     Spare
<1>4. ASSUME NEW t \in Threads, RemovePeer(t) PROVE TypeOK'
  <2>1. removals' \in 0..MaxRemovals
    BY <1>0, <1>4, BoundsAssumption DEF RemovePeer
  <2> QED
    BY <1>0, <1>4, <2>1 DEF RemovePeer
<1>5. ASSUME NEW t \in Threads, ConnectFails(t) PROVE TypeOK'
  BY <1>0, <1>5, FoundIs DEF ConnectFails, MutexInv, PlaceInv, LinkInv, FreshInv, Spare
<1>6. ASSUME NEW t \in Threads, Established(t) PROVE TypeOK'
  BY <1>0, <1>6, FoundIs DEF Established, MutexInv, PlaceInv, LinkInv, FreshInv, Spare
<1>7. ASSUME NEW t \in Threads, StartFails(t) PROVE TypeOK'
  BY <1>0, <1>7, FoundIs DEF StartFails, MutexInv, PlaceInv, LinkInv, FreshInv, Spare
<1>8. ASSUME NEW t \in Threads, OnMessage(t) PROVE TypeOK'
  <2>1. armed' \in [ConnIds -> BOOLEAN]
    <3>1. PICK c \in ConnIds : armed' = [armed EXCEPT ![c] = link[c] = "up"]
                                \/ armed' = [armed EXCEPT ![c] = FALSE]
      BY <1>8 DEF OnMessage
    <3> QED
      BY <1>0, <3>1
  <2> QED
    BY <1>0, <1>8, <2>1, FoundIs DEF OnMessage
<1>9. ASSUME NEW t \in Threads, ReadError(t) PROVE TypeOK'
  BY <1>0, <1>9, FoundIs DEF ReadError, MutexInv, PlaceInv, LinkInv, FreshInv, Spare
<1>10. ASSUME NEW t \in Threads, ConnectCall(t) PROVE TypeOK'
  BY <1>0, <1>10, FoundIs DEF ConnectCall, MutexInv, PlaceInv, LinkInv, FreshInv, Spare
<1>11. ASSUME NEW t \in Threads, ConnectStore(t) PROVE TypeOK'
  BY <1>0, <1>11, FoundIs DEF ConnectStore, MutexInv, PlaceInv, LinkInv, FreshInv, Spare
<1>12. ASSUME NEW t \in Threads, ConnectUndo(t) PROVE TypeOK'
  BY <1>0, <1>12, FoundIs DEF ConnectUndo, MutexInv, PlaceInv, LinkInv, FreshInv, Spare
<1>13. ASSUME NEW t \in Threads, Lookup(t) PROVE TypeOK'
  BY <1>0, <1>13, FoundIs DEF Lookup, MutexInv, PlaceInv, LinkInv, FreshInv, Spare
<1>14. ASSUME NEW t \in Threads, Adopt(t) PROVE TypeOK'
  <2>1. nextPeer \in PeerIds
    BY <1>0, <1>14 DEF Adopt, Spare
  <2>2. /\ pstate' \in [PeerIds -> PeerStates \cup {"absent"}]
        /\ pconn' \in [PeerIds -> ConnIds \cup {0}]
        /\ nextPeer' \in 1..(MaxAdds + MaxConns + 1)
    BY <1>0, <1>14, <2>1, InsertIs DEF Adopt
  <2> QED
    BY <1>0, <1>14, <2>1, <2>2 DEF Adopt
<1>15. ASSUME NEW t \in Threads, AdoptSet(t) PROVE TypeOK'
  BY <1>0, <1>15, FoundIs DEF AdoptSet, MutexInv, PlaceInv, LinkInv, FreshInv, Spare
<1>16. ASSUME NEW t \in Threads, Connected(t) PROVE TypeOK'
  BY <1>0, <1>16, FoundIs DEF Connected, MutexInv, PlaceInv, LinkInv, FreshInv, Spare
<1>17. ASSUME NEW t \in Threads, Handshake(t) PROVE TypeOK'
  BY <1>0, <1>17, FoundIs DEF Handshake, MutexInv, PlaceInv, LinkInv, FreshInv, Spare
<1>18. ASSUME NEW t \in Threads, Activate(t) PROVE TypeOK'
  BY <1>0, <1>18, FoundIs DEF Activate, MutexInv, PlaceInv, LinkInv, FreshInv, Spare
<1>19. ASSUME NEW t \in Threads, NetDisconnect(t) PROVE TypeOK'
  BY <1>0, <1>19, FoundIs DEF NetDisconnect, MutexInv, PlaceInv, LinkInv, FreshInv,
     Spare
<1>20. ASSUME NEW t \in Threads, Close(t) PROVE TypeOK'
  BY <1>0, <1>20, FoundIs DEF Close, MutexInv, PlaceInv, LinkInv, FreshInv, Spare
<1>21. ASSUME NEW t \in Threads, CloseFlag(t) PROVE TypeOK'
  BY <1>0, <1>21, FoundIs DEF CloseFlag, MutexInv, PlaceInv, LinkInv, FreshInv, Spare
<1>22. ASSUME NEW t \in Threads, EraseConnection(t) PROVE TypeOK'
  BY <1>0, <1>22, FoundIs DEF EraseConnection, MutexInv, PlaceInv, LinkInv, FreshInv,
     Spare
<1>23. ASSUME NEW t \in Threads, FindDisconnected(t) PROVE TypeOK'
  BY <1>0, <1>23, FoundIs DEF FindDisconnected, MutexInv, PlaceInv, LinkInv, FreshInv,
     Spare
<1>24. ASSUME NEW t \in Threads, Update(t) PROVE TypeOK'
  BY <1>0, <1>24, FoundIs DEF Update, MutexInv, PlaceInv, LinkInv, FreshInv, Spare
<1>25. ASSUME NEW t \in Threads, RemoveErase(t) PROVE TypeOK'
  BY <1>0, <1>25, FoundIs DEF RemoveErase, MutexInv, PlaceInv, LinkInv, FreshInv, Spare
<1>26. ASSUME NEW t \in Threads, RemoveThrows(t) PROVE TypeOK'
  BY <1>0, <1>26, FoundIs DEF RemoveThrows, MutexInv, PlaceInv, LinkInv, FreshInv, Spare
<1> QED
  BY <1>1, <1>2, <1>3, <1>4, <1>5, <1>6, <1>7, <1>8, <1>9, <1>10, <1>11, <1>12, <1>13,
     <1>14, <1>15, <1>16, <1>17, <1>18, <1>19, <1>20, <1>21, <1>22, <1>23, <1>24, <1>25,
     <1>26 DEF Next, Call, Complete, Continue

\* The mutexes are held where they should be.
LEMMA MutexStep ==
  ASSUME TypeOK, MutexInv, PlaceInv, LinkInv, FreshInv, Spare, TypeOK', Next
  PROVE  MutexInv'
<1> USE DEF Facts, Goto, Move, Return, Insert, AfterClose, SetPeerState, Present,
        IsConnected, peerVars, netVars, history, TypeOK, MutexInv, PlaceInv,
        RemoveSteps, ConnectSteps, OnConnectSteps, CloseSteps
<1>0. /\ Facts
      /\ TypeOK /\ MutexInv /\ PlaceInv /\ LinkInv /\ FreshInv /\ Spare
      /\ TypeOK'
  BY ConstantFacts
<1>1. ASSUME NEW t \in Threads, AddPeer(t) PROVE MutexInv'
  BY <1>0, <1>1 DEF AddPeer
<1>2. ASSUME NEW t \in Threads, ConnectBegin(t) PROVE MutexInv'
  BY <1>0, <1>2 DEF ConnectBegin
<1>3. ASSUME NEW t \in Threads, DisconnectPeer(t) PROVE MutexInv'
  BY <1>0, <1>3 DEF DisconnectPeer
<1>4. ASSUME NEW t \in Threads, RemovePeer(t) PROVE MutexInv'
  BY <1>0, <1>4 DEF RemovePeer
<1>5. ASSUME NEW t \in Threads, ConnectFails(t) PROVE MutexInv'
  BY <1>0, <1>5 DEF ConnectFails
<1>6. ASSUME NEW t \in Threads, Established(t) PROVE MutexInv'
  BY <1>0, <1>6 DEF Established
<1>7. ASSUME NEW t \in Threads, StartFails(t) PROVE MutexInv'
  BY <1>0, <1>7 DEF StartFails
<1>8. ASSUME NEW t \in Threads, OnMessage(t) PROVE MutexInv'
  BY <1>0, <1>8 DEF OnMessage
<1>9. ASSUME NEW t \in Threads, ReadError(t) PROVE MutexInv'
  BY <1>0, <1>9 DEF ReadError
<1>10. ASSUME NEW t \in Threads, ConnectCall(t) PROVE MutexInv'
  BY <1>0, <1>10 DEF ConnectCall
<1>11. ASSUME NEW t \in Threads, ConnectStore(t) PROVE MutexInv'
  BY <1>0, <1>11 DEF ConnectStore
<1>12. ASSUME NEW t \in Threads, ConnectUndo(t) PROVE MutexInv'
  BY <1>0, <1>12 DEF ConnectUndo
<1>13. ASSUME NEW t \in Threads, Lookup(t) PROVE MutexInv'
  BY <1>0, <1>13 DEF Lookup
<1>14. ASSUME NEW t \in Threads, Adopt(t) PROVE MutexInv'
  BY <1>0, <1>14 DEF Adopt
<1>15. ASSUME NEW t \in Threads, AdoptSet(t) PROVE MutexInv'
  BY <1>0, <1>15 DEF AdoptSet
<1>16. ASSUME NEW t \in Threads, Connected(t) PROVE MutexInv'
  BY <1>0, <1>16 DEF Connected
<1>17. ASSUME NEW t \in Threads, Handshake(t) PROVE MutexInv'
  BY <1>0, <1>17 DEF Handshake
<1>18. ASSUME NEW t \in Threads, Activate(t) PROVE MutexInv'
  BY <1>0, <1>18 DEF Activate
<1>19. ASSUME NEW t \in Threads, NetDisconnect(t) PROVE MutexInv'
  BY <1>0, <1>19 DEF NetDisconnect
<1>20. ASSUME NEW t \in Threads, Close(t) PROVE MutexInv'
  BY <1>0, <1>20 DEF Close
<1>21. ASSUME NEW t \in Threads, CloseFlag(t) PROVE MutexInv'
  BY <1>0, <1>21 DEF CloseFlag
<1>22. ASSUME NEW t \in Threads, EraseConnection(t) PROVE MutexInv'
  BY <1>0, <1>22 DEF EraseConnection
<1>23. ASSUME NEW t \in Threads, FindDisconnected(t) PROVE MutexInv'
  BY <1>0, <1>23 DEF FindDisconnected
<1>24. ASSUME NEW t \in Threads, Update(t) PROVE MutexInv'
  BY <1>0, <1>24 DEF Update
<1>25. ASSUME NEW t \in Threads, RemoveErase(t) PROVE MutexInv'
  BY <1>0, <1>25 DEF RemoveErase
<1>26. ASSUME NEW t \in Threads, RemoveThrows(t) PROVE MutexInv'
  BY <1>0, <1>26 DEF RemoveThrows
<1> QED
  BY <1>1, <1>2, <1>3, <1>4, <1>5, <1>6, <1>7, <1>8, <1>9, <1>10, <1>11, <1>12, <1>13,
     <1>14, <1>15, <1>16, <1>17, <1>18, <1>19, <1>20, <1>21, <1>22, <1>23, <1>24, <1>25,
     <1>26 DEF Next, Call, Complete, Continue

\* Each thread keeps what its step needs.
LEMMA PlaceStep ==
  ASSUME TypeOK, MutexInv, PlaceInv, LinkInv, FreshInv, Spare, TypeOK', Next
  PROVE  PlaceInv'
<1> USE DEF Facts, Goto, Move, Return, Insert, AfterClose, SetPeerState, Present,
        IsConnected, peerVars, netVars, history, TypeOK, MutexInv, PlaceInv,
        ConnectSteps, OnConnectSteps, CloseSteps
<1>0. /\ Facts
      /\ TypeOK /\ MutexInv /\ PlaceInv /\ LinkInv /\ FreshInv /\ Spare
      /\ TypeOK'
  BY ConstantFacts
<1>1. ASSUME NEW t \in Threads, AddPeer(t) PROVE PlaceInv'
  BY <1>0, <1>1, FoundIs DEF AddPeer
<1>2. ASSUME NEW t \in Threads, ConnectBegin(t) PROVE PlaceInv'
  BY <1>0, <1>2, FoundIs DEF ConnectBegin
<1>3. ASSUME NEW t \in Threads, DisconnectPeer(t) PROVE PlaceInv'
  BY <1>0, <1>3, FoundIs DEF DisconnectPeer
<1>4. ASSUME NEW t \in Threads, RemovePeer(t) PROVE PlaceInv'
  BY <1>0, <1>4, FoundIs DEF RemovePeer
<1>5. ASSUME NEW t \in Threads, ConnectFails(t) PROVE PlaceInv'
  BY <1>0, <1>5, FoundIs DEF ConnectFails
<1>6. ASSUME NEW t \in Threads, Established(t) PROVE PlaceInv'
  BY <1>0, <1>6, FoundIs DEF Established
<1>7. ASSUME NEW t \in Threads, StartFails(t) PROVE PlaceInv'
  BY <1>0, <1>7, FoundIs DEF StartFails
<1>8. ASSUME NEW t \in Threads, OnMessage(t) PROVE PlaceInv'
  BY <1>0, <1>8, FoundIs DEF OnMessage
<1>9. ASSUME NEW t \in Threads, ReadError(t) PROVE PlaceInv'
  BY <1>0, <1>9, FoundIs DEF ReadError
<1>10. ASSUME NEW t \in Threads, ConnectCall(t) PROVE PlaceInv'
  BY <1>0, <1>10, FoundIs DEF ConnectCall
<1>11. ASSUME NEW t \in Threads, ConnectStore(t) PROVE PlaceInv'
  BY <1>0, <1>11, FoundIs DEF ConnectStore
<1>12. ASSUME NEW t \in Threads, ConnectUndo(t) PROVE PlaceInv'
  BY <1>0, <1>12, FoundIs DEF ConnectUndo
<1>13. ASSUME NEW t \in Threads, Lookup(t) PROVE PlaceInv'
  BY <1>0, <1>13, FoundIs DEF Lookup
<1>14. ASSUME NEW t \in Threads, Adopt(t) PROVE PlaceInv'
  BY <1>0, <1>14, FoundIs DEF Adopt
<1>15. ASSUME NEW t \in Threads, AdoptSet(t) PROVE PlaceInv'
  BY <1>0, <1>15, FoundIs DEF AdoptSet
<1>16. ASSUME NEW t \in Threads, Connected(t) PROVE PlaceInv'
  BY <1>0, <1>16, FoundIs DEF Connected
<1>17. ASSUME NEW t \in Threads, Handshake(t) PROVE PlaceInv'
  BY <1>0, <1>17, FoundIs DEF Handshake
<1>18. ASSUME NEW t \in Threads, Activate(t) PROVE PlaceInv'
  BY <1>0, <1>18, FoundIs DEF Activate
<1>19. ASSUME NEW t \in Threads, NetDisconnect(t) PROVE PlaceInv'
  BY <1>0, <1>19, FoundIs DEF NetDisconnect
<1>20. ASSUME NEW t \in Threads, Close(t) PROVE PlaceInv'
  BY <1>0, <1>20, FoundIs DEF Close
<1>21. ASSUME NEW t \in Threads, CloseFlag(t) PROVE PlaceInv'
  BY <1>0, <1>21, FoundIs DEF CloseFlag
<1>22. ASSUME NEW t \in Threads, EraseConnection(t) PROVE PlaceInv'
  BY <1>0, <1>22, FoundIs DEF EraseConnection
<1>23. ASSUME NEW t \in Threads, FindDisconnected(t) PROVE PlaceInv'
  BY <1>0, <1>23, FoundIs DEF FindDisconnected
<1>24. ASSUME NEW t \in Threads, Update(t) PROVE PlaceInv'
  BY <1>0, <1>24, FoundIs DEF Update
<1>25. ASSUME NEW t \in Threads, RemoveErase(t) PROVE PlaceInv'
  BY <1>0, <1>25, FoundIs DEF RemoveErase
<1>26. ASSUME NEW t \in Threads, RemoveThrows(t) PROVE PlaceInv'
  BY <1>0, <1>26, FoundIs DEF RemoveThrows
<1> QED
  BY <1>1, <1>2, <1>3, <1>4, <1>5, <1>6, <1>7, <1>8, <1>9, <1>10, <1>11, <1>12, <1>13,
     <1>14, <1>15, <1>16, <1>17, <1>18, <1>19, <1>20, <1>21, <1>22, <1>23, <1>24, <1>25,
     <1>26 DEF Next, Call, Complete, Continue

\* Connections are as far as their threads need.
LEMMA LinkStep ==
  ASSUME TypeOK, MutexInv, PlaceInv, LinkInv, FreshInv, Spare, TypeOK', Next
  PROVE  LinkInv'
<1> USE DEF Facts, Goto, Move, Return, Insert, AfterClose, SetPeerState, Present,
        IsConnected, peerVars, netVars, history, TypeOK, MutexInv, PlaceInv, LinkInv,
        ConnectSteps, OnConnectSteps, CloseSteps
<1>0. /\ Facts
      /\ TypeOK /\ MutexInv /\ PlaceInv /\ LinkInv /\ FreshInv /\ Spare
      /\ TypeOK'
  BY ConstantFacts
<1>1. ASSUME NEW t \in Threads, AddPeer(t) PROVE LinkInv'
  <2>1. \A u \in Threads : who[u] # nextPeer
    BY <1>0 DEF FreshInv
  <2> QED
    BY <1>0, <1>1, <2>1 DEF AddPeer
<1>2. ASSUME NEW t \in Threads, ConnectBegin(t) PROVE LinkInv'
  BY <1>0, <1>2, FoundIs DEF ConnectBegin
<1>3. ASSUME NEW t \in Threads, DisconnectPeer(t) PROVE LinkInv'
  BY <1>0, <1>3, FoundIs DEF DisconnectPeer
<1>4. ASSUME NEW t \in Threads, RemovePeer(t) PROVE LinkInv'
  BY <1>0, <1>4, FoundIs DEF RemovePeer
<1>5. ASSUME NEW t \in Threads, ConnectFails(t) PROVE LinkInv'
  BY <1>0, <1>5, FoundIs DEF ConnectFails
<1>6. ASSUME NEW t \in Threads, Established(t) PROVE LinkInv'
  BY <1>0, <1>6, FoundIs DEF Established
<1>7. ASSUME NEW t \in Threads, StartFails(t) PROVE LinkInv'
  BY <1>0, <1>7, FoundIs DEF StartFails
<1>8. ASSUME NEW t \in Threads, OnMessage(t) PROVE LinkInv'
  BY <1>0, <1>8, FoundIs DEF OnMessage
<1>9. ASSUME NEW t \in Threads, ReadError(t) PROVE LinkInv'
  BY <1>0, <1>9, FoundIs DEF ReadError
<1>10. ASSUME NEW t \in Threads, ConnectCall(t) PROVE LinkInv'
  BY <1>0, <1>10, FoundIs DEF ConnectCall
<1>11. ASSUME NEW t \in Threads, ConnectStore(t) PROVE LinkInv'
  BY <1>0, <1>11, FoundIs DEF ConnectStore
<1>12. ASSUME NEW t \in Threads, ConnectUndo(t) PROVE LinkInv'
  BY <1>0, <1>12, FoundIs DEF ConnectUndo
<1>13. ASSUME NEW t \in Threads, Lookup(t) PROVE LinkInv'
  BY <1>0, <1>13, FoundIs DEF Lookup
<1>14. ASSUME NEW t \in Threads, Adopt(t) PROVE LinkInv'
  <2>1. nextPeer # 0 /\ \A u \in Threads : who[u] # nextPeer
    BY <1>0 DEF FreshInv
  <2> QED
    BY <1>0, <1>14, <2>1 DEF Adopt
<1>15. ASSUME NEW t \in Threads, AdoptSet(t) PROVE LinkInv'
  BY <1>0, <1>15, FoundIs DEF AdoptSet
<1>16. ASSUME NEW t \in Threads, Connected(t) PROVE LinkInv'
  BY <1>0, <1>16, FoundIs DEF Connected
<1>17. ASSUME NEW t \in Threads, Handshake(t) PROVE LinkInv'
  BY <1>0, <1>17, FoundIs DEF Handshake
<1>18. ASSUME NEW t \in Threads, Activate(t) PROVE LinkInv'
  BY <1>0, <1>18, FoundIs DEF Activate
<1>19. ASSUME NEW t \in Threads, NetDisconnect(t) PROVE LinkInv'
  BY <1>0, <1>19, FoundIs DEF NetDisconnect
<1>20. ASSUME NEW t \in Threads, Close(t) PROVE LinkInv'
  BY <1>0, <1>20, FoundIs DEF Close
<1>21. ASSUME NEW t \in Threads, CloseFlag(t) PROVE LinkInv'
  BY <1>0, <1>21, FoundIs DEF CloseFlag
<1>22. ASSUME NEW t \in Threads, EraseConnection(t) PROVE LinkInv'
  BY <1>0, <1>22, FoundIs DEF EraseConnection
<1>23. ASSUME NEW t \in Threads, FindDisconnected(t) PROVE LinkInv'
  BY <1>0, <1>23, FoundIs DEF FindDisconnected
<1>24. ASSUME NEW t \in Threads, Update(t) PROVE LinkInv'
  BY <1>0, <1>24, FoundIs DEF Update
<1>25. ASSUME NEW t \in Threads, RemoveErase(t) PROVE LinkInv'
  BY <1>0, <1>25, FoundIs DEF RemoveErase
<1>26. ASSUME NEW t \in Threads, RemoveThrows(t) PROVE LinkInv'
  BY <1>0, <1>26, FoundIs DEF RemoveThrows
<1> QED
  BY <1>1, <1>2, <1>3, <1>4, <1>5, <1>6, <1>7, <1>8, <1>9, <1>10, <1>11, <1>12, <1>13,
     <1>14, <1>15, <1>16, <1>17, <1>18, <1>19, <1>20, <1>21, <1>22, <1>23, <1>24, <1>25,
     <1>26 DEF Next, Call, Complete, Continue

\* Ids of peers stay fresh.
LEMMA FreshStep ==
  ASSUME TypeOK, MutexInv, PlaceInv, LinkInv, FreshInv, Spare, TypeOK', Next
  PROVE  FreshInv'
<1> USE DEF Facts, Goto, Move, Return, Insert, AfterClose, SetPeerState, Present,
        IsConnected, peerVars, netVars, history, TypeOK, MutexInv, PlaceInv, FreshInv,
        ConnectSteps, OnConnectSteps, CloseSteps
<1>0. /\ Facts
      /\ TypeOK /\ MutexInv /\ PlaceInv /\ LinkInv /\ FreshInv /\ Spare
      /\ TypeOK'
  BY ConstantFacts
<1>1. ASSUME NEW t \in Threads, AddPeer(t) PROVE FreshInv'
  BY <1>0, <1>1, FoundIs DEF AddPeer
<1>2. ASSUME NEW t \in Threads, ConnectBegin(t) PROVE FreshInv'
  BY <1>0, <1>2, FoundIs DEF ConnectBegin
<1>3. ASSUME NEW t \in Threads, DisconnectPeer(t) PROVE FreshInv'
  BY <1>0, <1>3, FoundIs DEF DisconnectPeer
<1>4. ASSUME NEW t \in Threads, RemovePeer(t) PROVE FreshInv'
  BY <1>0, <1>4, FoundIs DEF RemovePeer
<1>5. ASSUME NEW t \in Threads, ConnectFails(t) PROVE FreshInv'
  BY <1>0, <1>5, FoundIs DEF ConnectFails
<1>6. ASSUME NEW t \in Threads, Established(t) PROVE FreshInv'
  BY <1>0, <1>6, FoundIs DEF Established
<1>7. ASSUME NEW t \in Threads, StartFails(t) PROVE FreshInv'
  BY <1>0, <1>7, FoundIs DEF StartFails
<1>8. ASSUME NEW t \in Threads, OnMessage(t) PROVE FreshInv'
  BY <1>0, <1>8, FoundIs DEF OnMessage
<1>9. ASSUME NEW t \in Threads, ReadError(t) PROVE FreshInv'
  BY <1>0, <1>9, FoundIs DEF ReadError
<1>10. ASSUME NEW t \in Threads, ConnectCall(t) PROVE FreshInv'
  BY <1>0, <1>10, FoundIs DEF ConnectCall
<1>11. ASSUME NEW t \in Threads, ConnectStore(t) PROVE FreshInv'
  BY <1>0, <1>11, FoundIs DEF ConnectStore
<1>12. ASSUME NEW t \in Threads, ConnectUndo(t) PROVE FreshInv'
  BY <1>0, <1>12, FoundIs DEF ConnectUndo
<1>13. ASSUME NEW t \in Threads, Lookup(t) PROVE FreshInv'
  BY <1>0, <1>13, FoundIs DEF Lookup
<1>14. ASSUME NEW t \in Threads, Adopt(t) PROVE FreshInv'
  BY <1>0, <1>14, FoundIs DEF Adopt
<1>15. ASSUME NEW t \in Threads, AdoptSet(t) PROVE FreshInv'
  BY <1>0, <1>15, FoundIs DEF AdoptSet
<1>16. ASSUME NEW t \in Threads, Connected(t) PROVE FreshInv'
  BY <1>0, <1>16, FoundIs DEF Connected
<1>17. ASSUME NEW t \in Threads, Handshake(t) PROVE FreshInv'
  BY <1>0, <1>17, FoundIs DEF Handshake
<1>18. ASSUME NEW t \in Threads, Activate(t) PROVE FreshInv'
  BY <1>0, <1>18, FoundIs DEF Activate
<1>19. ASSUME NEW t \in Threads, NetDisconnect(t) PROVE FreshInv'
  BY <1>0, <1>19, FoundIs DEF NetDisconnect
<1>20. ASSUME NEW t \in Threads, Close(t) PROVE FreshInv'
  BY <1>0, <1>20, FoundIs DEF Close
<1>21. ASSUME NEW t \in Threads, CloseFlag(t) PROVE FreshInv'
  BY <1>0, <1>21, FoundIs DEF CloseFlag
<1>22. ASSUME NEW t \in Threads, EraseConnection(t) PROVE FreshInv'
  BY <1>0, <1>22, FoundIs DEF EraseConnection
<1>23. ASSUME NEW t \in Threads, FindDisconnected(t) PROVE FreshInv'
  BY <1>0, <1>23, FoundIs DEF FindDisconnected
<1>24. ASSUME NEW t \in Threads, Update(t) PROVE FreshInv'
  BY <1>0, <1>24, FoundIs DEF Update
<1>25. ASSUME NEW t \in Threads, RemoveErase(t) PROVE FreshInv'
  BY <1>0, <1>25, FoundIs DEF RemoveErase
<1>26. ASSUME NEW t \in Threads, RemoveThrows(t) PROVE FreshInv'
  BY <1>0, <1>26, FoundIs DEF RemoveThrows
<1> QED
  BY <1>1, <1>2, <1>3, <1>4, <1>5, <1>6, <1>7, <1>8, <1>9, <1>10, <1>11, <1>12, <1>13,
     <1>14, <1>15, <1>16, <1>17, <1>18, <1>19, <1>20, <1>21, <1>22, <1>23, <1>24, <1>25,
     <1>26 DEF Next, Call, Complete, Continue

\* A connection keeps its peer.
LEMMA HolderStep ==
  ASSUME TypeOK, MutexInv, PlaceInv, LinkInv, FreshInv, Spare, HolderInv, TypeOK', Next
  PROVE  HolderInv'
<1> USE DEF Facts, Goto, Move, Return, Insert, AfterClose, SetPeerState, Present,
        IsConnected, peerVars, netVars, history, TypeOK, MutexInv, PlaceInv, LinkInv,
        FreshInv, HolderInv, Unadopted, Made, Holders, ConnectSteps, OnConnectSteps, CloseSteps
<1>0. /\ Facts
      /\ TypeOK /\ MutexInv /\ PlaceInv /\ LinkInv /\ FreshInv /\ Spare
      /\ HolderInv /\ TypeOK'
  BY ConstantFacts
<1>1. ASSUME NEW t \in Threads, AddPeer(t) PROVE HolderInv'
  BY <1>0, <1>1, FoundIs DEF AddPeer
<1>2. ASSUME NEW t \in Threads, ConnectBegin(t) PROVE HolderInv'
  BY <1>0, <1>2, FoundIs DEF ConnectBegin
<1>3. ASSUME NEW t \in Threads, DisconnectPeer(t) PROVE HolderInv'
  BY <1>0, <1>3, FoundIs DEF DisconnectPeer
<1>4. ASSUME NEW t \in Threads, RemovePeer(t) PROVE HolderInv'
  BY <1>0, <1>4, FoundIs DEF RemovePeer
<1>5. ASSUME NEW t \in Threads, ConnectFails(t) PROVE HolderInv'
  BY <1>0, <1>5, FoundIs DEF ConnectFails
<1>6. ASSUME NEW t \in Threads, Established(t) PROVE HolderInv'
  BY <1>0, <1>6, FoundIs DEF Established
<1>7. ASSUME NEW t \in Threads, StartFails(t) PROVE HolderInv'
  BY <1>0, <1>7, FoundIs DEF StartFails
<1>8. ASSUME NEW t \in Threads, OnMessage(t) PROVE HolderInv'
  BY <1>0, <1>8, FoundIs DEF OnMessage
<1>9. ASSUME NEW t \in Threads, ReadError(t) PROVE HolderInv'
  BY <1>0, <1>9, FoundIs DEF ReadError
<1>10. ASSUME NEW t \in Threads, ConnectCall(t) PROVE HolderInv'
  BY <1>0, <1>10, FoundIs DEF ConnectCall
<1>11. ASSUME NEW t \in Threads, ConnectStore(t) PROVE HolderInv'
  BY <1>0, <1>11, FoundIs DEF ConnectStore
<1>12. ASSUME NEW t \in Threads, ConnectUndo(t) PROVE HolderInv'
  BY <1>0, <1>12, FoundIs DEF ConnectUndo
<1>13. ASSUME NEW t \in Threads, Lookup(t) PROVE HolderInv'
  BY <1>0, <1>13, FoundIs DEF Lookup
<1>14. ASSUME NEW t \in Threads, Adopt(t) PROVE HolderInv'
  <2> DEFINE c == at[t]
  <2>1. /\ nextPeer \in PeerIds /\ nextPeer # 0 /\ ~Present(nextPeer)
        /\ \A u \in Threads : who[u] # nextPeer
        /\ \A d \in ConnIds : owner[d] # nextPeer
    BY <1>0, <1>14 DEF Adopt, Spare
  <2>2. c \in ConnIds /\ Unadopted(c) /\ pc[t] = "adopt"
    BY <1>0, <1>14 DEF Adopt
  <2>3. CASE Present(owner[c])
    BY <1>0, <1>14, <2>1, <2>2, <2>3 DEF Adopt
  <2>4. CASE ~Present(owner[c])
    <3>1. /\ \A p \in PeerIds : pconn[p] # c
          /\ \A u \in Threads : at[u] = c /\ who[u] # 0 => ~Present(who[u])
      BY <1>0, <2>2, <2>4
    <3>2. /\ ~Unadopted(c)'
          /\ \A d \in ConnIds : Unadopted(d)' => Unadopted(d)
      BY <1>0, <1>14, <2>2 DEF Adopt
    <3>3. ASSUME NEW u \in Threads \ {t}, at[u] = c, who[u] # 0
          PROVE  pc[u] = "store" /\ ~Present(who[u])'
      <4>1. pc[u] \notin OnConnectSteps
        BY <1>0, <2>2
      <4>2. pc[u] \notin CloseSteps \cup {"active"}
        BY <1>0, <2>2, <3>3
      <4>3. pc[u] \notin {"rmDisconnect", "rmErase"}
        BY <1>0, <1>14 DEF Adopt
      <4>4. pc[u] \notin {"idle", "connect", "undo", "netDisconnect"}
        BY <1>0, <2>2, <3>3
      <4>5. pc[u] = "store"
        BY <1>0, <4>1, <4>2, <4>3, <4>4 DEF Steps
      <4>6. ~Present(who[u]) /\ who[u] \in PeerIds /\ who[u] # nextPeer
        BY <1>0, <2>1, <3>1, <3>3
      <4>7. pstate'[who[u]] = pstate[who[u]] /\ who'[u] = who[u]
        BY <1>0, <1>14, <2>1, <4>6 DEF Adopt
      <4> QED
        BY <4>5, <4>6, <4>7
    <3>4. /\ owner'[c] = nextPeer /\ \A d \in ConnIds \ {c} : owner'[d] = owner[d]
          /\ at' = at /\ who' = [who EXCEPT ![t] = nextPeer]
          /\ pc' = [pc EXCEPT ![t] = "adoptSet"] /\ dirty' = dirty
          /\ pconn' = [pconn EXCEPT ![nextPeer] = 0]
          /\ pstate' = [pstate EXCEPT ![nextPeer] = "DISCONNECTED"]
      BY <1>0, <1>14, <2>2, <2>4 DEF Adopt
    <3>5. \A p \in PeerIds : pconn'[p] # 0 => Made(p, pconn[p])'
      BY <1>0, <2>1, <2>2, <3>1, <3>4
    <3>6. \A d \in ConnIds : Unadopted(d)' =>
            /\ \A p \in PeerIds : pconn'[p] = d => owner'[d] = p
            /\ \A u \in Threads :
                 at'[u] = d /\ who'[u] # 0 /\ Present(who[u])' => owner'[d] = who'[u]
      <4> SUFFICES ASSUME NEW d \in ConnIds, Unadopted(d)'
                   PROVE  /\ \A p \in PeerIds : pconn'[p] = d => owner'[d] = p
                          /\ \A u \in Threads :
                               at'[u] = d /\ who'[u] # 0 /\ Present(who[u])' =>
                                 owner'[d] = who'[u]
        OBVIOUS
      <4>1. d # c /\ Unadopted(d) /\ owner'[d] = owner[d]
        BY <3>2, <3>4
      <4>2. /\ \A p \in PeerIds : pconn[p] = d => owner[d] = p
            /\ \A u \in Threads :
                 at[u] = d /\ who[u] # 0 /\ Present(who[u]) => owner[d] = who[u]
        BY <1>0, <4>1
      <4> HIDE DEF HolderInv, LinkInv, MutexInv, PlaceInv, FreshInv, Unadopted
      <4> QED
        BY <1>0, <2>1, <2>2, <3>4, <4>1, <4>2
    <3>7. ASSUME NEW u \in Threads
          PROVE  /\ pc'[u] = "adopt" /\ Present(owner[at[u]])' => owner'[at'[u]] \in dirty'
                 /\ /\ at'[u] # 0 /\ who'[u] # 0
                    /\ Present(who[u])' \/ pc'[u] # "store"
                    => Made(who[u], at[u])'
      <4>1. CASE u = t
        BY <1>0, <2>1, <2>2, <3>4, <4>1
      <4>2. CASE u # t /\ at[u] = c
        <5>1. pc[u] \notin OnConnectSteps
          BY <1>0, <2>2, <4>2
        <5> QED
          BY <1>0, <3>3, <3>4, <4>2, <5>1
      <4>3. CASE u # t /\ at[u] # c
        <5>1. /\ pc'[u] = pc[u] /\ at'[u] = at[u] /\ who'[u] = who[u]
              /\ who[u] # nextPeer
          BY <1>0, <2>1, <3>4, <4>3
        <5>2. pc[u] # "adopt"
          BY <1>0, <2>2, <4>3
        <5>3. who[u] # 0 => (Present(who[u])' <=> Present(who[u]))
          BY <1>0, <2>1, <3>4, <5>1
        <5>4. at[u] # 0 => owner'[at[u]] = owner[at[u]]
          BY <1>0, <3>4, <4>3
        <5> QED
          BY <1>0, <3>4, <5>1, <5>2, <5>3, <5>4
      <4> QED
        BY <4>1, <4>2, <4>3
    <3> HIDE DEF Unadopted, Made, Present
    <3> QED
      BY <3>5, <3>6, <3>7
  <2> QED
    BY <2>3, <2>4
<1>15. ASSUME NEW t \in Threads, AdoptSet(t) PROVE HolderInv'
  BY <1>0, <1>15, FoundIs DEF AdoptSet
<1>16. ASSUME NEW t \in Threads, Connected(t) PROVE HolderInv'
  BY <1>0, <1>16, FoundIs DEF Connected
<1>17. ASSUME NEW t \in Threads, Handshake(t) PROVE HolderInv'
  BY <1>0, <1>17, FoundIs DEF Handshake
<1>18. ASSUME NEW t \in Threads, Activate(t) PROVE HolderInv'
  BY <1>0, <1>18, FoundIs DEF Activate
<1>19. ASSUME NEW t \in Threads, NetDisconnect(t) PROVE HolderInv'
  BY <1>0, <1>19, FoundIs DEF NetDisconnect
<1>20. ASSUME NEW t \in Threads, Close(t) PROVE HolderInv'
  BY <1>0, <1>20, FoundIs DEF Close
<1>21. ASSUME NEW t \in Threads, CloseFlag(t) PROVE HolderInv'
  BY <1>0, <1>21, FoundIs DEF CloseFlag
<1>22. ASSUME NEW t \in Threads, EraseConnection(t) PROVE HolderInv'
  BY <1>0, <1>22, FoundIs DEF EraseConnection
<1>23. ASSUME NEW t \in Threads, FindDisconnected(t) PROVE HolderInv'
  BY <1>0, <1>23, FoundIs DEF FindDisconnected
<1>24. ASSUME NEW t \in Threads, Update(t) PROVE HolderInv'
  BY <1>0, <1>24, FoundIs DEF Update
<1>25. ASSUME NEW t \in Threads, RemoveErase(t) PROVE HolderInv'
  BY <1>0, <1>25, FoundIs DEF RemoveErase
<1>26. ASSUME NEW t \in Threads, RemoveThrows(t) PROVE HolderInv'
  BY <1>0, <1>26, FoundIs DEF RemoveThrows
<1> QED
  BY <1>1, <1>2, <1>3, <1>4, <1>5, <1>6, <1>7, <1>8, <1>9, <1>10, <1>11, <1>12, <1>13,
     <1>14, <1>15, <1>16, <1>17, <1>18, <1>19, <1>20, <1>21, <1>22, <1>23, <1>24, <1>25,
     <1>26 DEF Next, Call, Complete, Continue

-----------------------------------------------------------------------------
(* Peers that are not dirty *)

\* connectToPeer has its peer to itself.
LEMMA ConnectStep ==
  ASSUME TypeOK, MutexInv, PlaceInv, LinkInv, FreshInv, Spare, HolderInv,
         CleanInv, TypeOK', Next
  PROVE  \A p \in PeerIds : Clean(p)' => ConnectInv(p)'
<1> USE DEF Facts, Goto, Move, Return, Insert, AfterClose, SetPeerState, Present,
        IsConnected, peerVars, netVars, history, TypeOK, MutexInv, PlaceInv, LinkInv,
        FreshInv, HolderInv, Unadopted, Made, Holders, Clean, ConnectInv, AliveInv,
        DownInv, Alive, Left, Connects, Over, ConnectSteps, OnConnectSteps, CloseSteps
<1> SUFFICES ASSUME NEW p \in PeerIds, Clean(p)'
             PROVE  ConnectInv(p)'
  OBVIOUS
<1>0. /\ Facts
      /\ TypeOK /\ MutexInv /\ PlaceInv /\ LinkInv /\ FreshInv /\ Spare
      /\ HolderInv /\ TypeOK'
      /\ Clean(p) => ConnectInv(p) /\ AliveInv(p) /\ DownInv(p)
  BY ConstantFacts DEF CleanInv
<1>1. ASSUME NEW t \in Threads, AddPeer(t)
     PROVE ConnectInv(p)'
  BY SMTT(30), <1>0, <1>1, FoundIs DEF AddPeer
<1>2. ASSUME NEW t \in Threads, ConnectBegin(t)
     PROVE ConnectInv(p)'
  <2>1. PICK q \in PeerIds :
          /\ pc[t] = "idle" /\ at[t] = 0 /\ who[t] = 0 /\ Present(q)
          /\ pstate' = [pstate EXCEPT ![q] = "CONNECTING"]
          /\ pc' = [pc EXCEPT ![t] = "connect"] /\ at' = [at EXCEPT ![t] = 0]
          /\ who' = [who EXCEPT ![t] = q]
          /\ dirty' = IF \/ \E c \in ConnIds : owner[c] = q /\ ~Over(c)
                         \/ \E u \in Threads : who[u] = q
                      THEN dirty \cup {q} ELSE dirty
          /\ UNCHANGED <<pconn, link, inMap, armed, owner, abandoned>>
    BY <1>0, <1>2 DEF ConnectBegin
  <2>2. Clean(p) /\ ConnectInv(p) /\ AliveInv(p) /\ DownInv(p)
    BY <1>0, <2>1
  <2>3. CASE p = q
    <3>1. /\ \A c \in ConnIds : owner[c] = p => Over(c)
          /\ \A u \in Threads : who[u] # p
      BY <2>1, <2>3
    <3>2. pconn[p] # 0 => link[pconn[p]] \in {"failed", "dead"} \/ Left(pconn[p])
      <4> SUFFICES ASSUME pconn[p] # 0
                   PROVE  link[pconn[p]] \in {"failed", "dead"} \/ Left(pconn[p])
        OBVIOUS
      <4>1. pconn[p] \in ConnIds /\ owner[pconn[p]] = p
        BY <1>0, <2>2
      <4> QED
        BY <1>0, <2>2, <3>1, <4>1
    <3>3. \A u \in Threads : Connects(u, p)' => u = t
      BY <1>0, <2>1, <3>1
    <3>4. pconn[p] # 0 => link'[pconn'[p]] \in {"failed", "dead"} \/ Left(pconn[p])'
      BY <1>0, <2>1, <3>2
    <3> QED
      BY <1>0, <2>1, <2>3, <3>1, <3>3, <3>4
  <2>4. CASE p # q
    <3> SUFFICES ASSUME NEW x \in Threads, Connects(x, p)'
                 PROVE  /\ \A u \in Threads : who'[u] = p => u = x \/ pc'[u] = "active"
                        /\ pstate'[p] = "CONNECTING"
                        /\ pconn'[p] # 0 =>
                             link'[pconn'[p]] \in {"failed", "dead"} \/ Left(pconn[p])'
                        /\ \A c \in ConnIds : owner'[c] = p /\ Alive(c)' =>
                             pc'[x] = "store" /\ at'[x] = c
                        /\ pc'[x] = "store" =>
                             /\ pconn'[p] # at'[x] /\ link'[at'[x]] # "down"
                             /\ link'[at'[x]] = "up" =>
                                  \E u \in Threads : pc'[u] = "lookup" /\ at'[u] = at'[x]
      OBVIOUS
    <3>1. x # t /\ Connects(x, p)
      BY <1>0, <2>1, <2>4
    <3>2. Left(pconn[p]) => Left(pconn[p])'
      BY <1>0, <2>1
    <3> QED
      BY <1>0, <2>1, <2>2, <2>4, <3>1, <3>2
  <2> QED
    BY <2>3, <2>4
<1>3. ASSUME NEW t \in Threads, DisconnectPeer(t)
     PROVE ConnectInv(p)'
  BY SMTT(30), <1>0, <1>3, FoundIs DEF DisconnectPeer
<1>4. ASSUME NEW t \in Threads, RemovePeer(t)
     PROVE ConnectInv(p)'
  BY SMTT(30), <1>0, <1>4, FoundIs DEF RemovePeer
<1>5. ASSUME NEW t \in Threads, ConnectFails(t)
     PROVE ConnectInv(p)'
  BY SMTT(30), <1>0, <1>5, FoundIs DEF ConnectFails
<1>6. ASSUME NEW t \in Threads, Established(t)
     PROVE ConnectInv(p)'
  BY SMTT(30), <1>0, <1>6, FoundIs DEF Established
<1>7. ASSUME NEW t \in Threads, StartFails(t)
     PROVE ConnectInv(p)'
  BY SMTT(30), <1>0, <1>7, FoundIs DEF StartFails
<1>8. ASSUME NEW t \in Threads, OnMessage(t)
     PROVE ConnectInv(p)'
  BY SMTT(30), <1>0, <1>8, FoundIs DEF OnMessage
<1>9. ASSUME NEW t \in Threads, ReadError(t)
     PROVE ConnectInv(p)'
  BY SMTT(30), <1>0, <1>9, FoundIs DEF ReadError
<1>10. ASSUME NEW t \in Threads, ConnectCall(t)
     PROVE ConnectInv(p)'
  BY SMTT(30), <1>0, <1>10, FoundIs DEF ConnectCall
<1>11. ASSUME NEW t \in Threads, ConnectStore(t)
     PROVE ConnectInv(p)'
  BY SMTT(30), <1>0, <1>11, FoundIs DEF ConnectStore
<1>12. ASSUME NEW t \in Threads, ConnectUndo(t)
     PROVE ConnectInv(p)'
  BY SMTT(30), <1>0, <1>12, FoundIs DEF ConnectUndo
<1>13. ASSUME NEW t \in Threads, Lookup(t)
     PROVE ConnectInv(p)'
  <2> DEFINE c == at[t]
             q == FindPeer(c)
  <2>1. /\ pc[t] = "lookup" /\ c \in ConnIds /\ who[t] = 0 /\ link[c] = "up"
        /\ Unadopted(c) /\ q \in PeerIds \cup {0}
        /\ q = 0 => \A r \in PeerIds : Present(r) => pconn[r] # c
        /\ q # 0 => Present(q) /\ pconn[q] = c
    BY <1>0, <1>13, FoundIs DEF Lookup
  <2>2. /\ pc' = [pc EXCEPT ![t] = IF q = 0 THEN "adopt" ELSE "connected"]
        /\ at' = [at EXCEPT ![t] = c] /\ who' = [who EXCEPT ![t] = q]
        /\ dirty' = IF q = 0 /\ Present(owner[c]) THEN dirty \cup {owner[c]} ELSE dirty
        /\ UNCHANGED <<pstate, pconn, link, inMap, armed, owner, abandoned>>
    BY <1>13 DEF Lookup
  <2>3. Clean(p) /\ ConnectInv(p)
    BY <1>0, <2>2
  <2> HIDE DEF q
  <2> SUFFICES ASSUME NEW x \in Threads, Connects(x, p)'
               PROVE  /\ \A u \in Threads : who'[u] = p => u = x \/ pc'[u] = "active"
                      /\ pstate'[p] = "CONNECTING"
                      /\ pconn'[p] # 0 =>
                           link'[pconn'[p]] \in {"failed", "dead"} \/ Left(pconn[p])'
                      /\ \A d \in ConnIds : owner'[d] = p /\ Alive(d)' =>
                           pc'[x] = "store" /\ at'[x] = d
                      /\ pc'[x] = "store" =>
                           /\ pconn'[p] # at'[x] /\ link'[at'[x]] # "down"
                           /\ link'[at'[x]] = "up" =>
                                \E u \in Threads : pc'[u] = "lookup" /\ at'[u] = at'[x]
    OBVIOUS
  <2>4. x # t /\ Connects(x, p)
    BY <1>0, <2>1, <2>2
  <2>5. Left(pconn[p]) => Left(pconn[p])'
    BY <1>0, <2>1, <2>2
  <2>6. q # p
    BY <1>0, <2>1, <2>3, <2>4
  <2>7. ~(pc[x] = "store" /\ at[x] = c)
    <3> SUFFICES ASSUME pc[x] = "store", at[x] = c PROVE FALSE
      OBVIOUS
    <3>1. owner[c] = p
      BY <1>0, <2>3, <2>4
    <3>2. CASE q = 0
      BY <2>2, <2>3, <3>1, <3>2
    <3>3. CASE q # 0
      BY <1>0, <2>1, <2>6, <3>1, <3>3
    <3> QED
      BY <3>2, <3>3
  <2> QED
    BY <1>0, <2>1, <2>2, <2>3, <2>4, <2>5, <2>6, <2>7
<1>14. ASSUME NEW t \in Threads, Adopt(t)
     PROVE ConnectInv(p)'
  BY SMTT(30), <1>0, <1>14, FoundIs DEF Adopt
<1>15. ASSUME NEW t \in Threads, AdoptSet(t)
     PROVE ConnectInv(p)'
  BY SMTT(30), <1>0, <1>15, FoundIs DEF AdoptSet
<1>16. ASSUME NEW t \in Threads, Connected(t)
     PROVE ConnectInv(p)'
  BY SMTT(30), <1>0, <1>16, FoundIs DEF Connected
<1>17. ASSUME NEW t \in Threads, Handshake(t)
     PROVE ConnectInv(p)'
  BY SMTT(30), <1>0, <1>17, FoundIs DEF Handshake
<1>18. ASSUME NEW t \in Threads, Activate(t)
     PROVE ConnectInv(p)'
  BY SMTT(30), <1>0, <1>18, FoundIs DEF Activate
<1>19. ASSUME NEW t \in Threads, NetDisconnect(t)
     PROVE ConnectInv(p)'
  BY SMTT(30), <1>0, <1>19, FoundIs DEF NetDisconnect
<1>20. ASSUME NEW t \in Threads, Close(t)
     PROVE ConnectInv(p)'
  BY SMTT(30), <1>0, <1>20, FoundIs DEF Close
<1>21. ASSUME NEW t \in Threads, CloseFlag(t)
     PROVE ConnectInv(p)'
  BY SMTT(30), <1>0, <1>21, FoundIs DEF CloseFlag
<1>22. ASSUME NEW t \in Threads, EraseConnection(t)
     PROVE ConnectInv(p)'
  BY SMTT(30), <1>0, <1>22, FoundIs DEF EraseConnection
<1>23. ASSUME NEW t \in Threads, FindDisconnected(t)
     PROVE ConnectInv(p)'
  BY SMTT(30), <1>0, <1>23, FoundIs DEF FindDisconnected
<1>24. ASSUME NEW t \in Threads, Update(t)
     PROVE ConnectInv(p)'
  BY SMTT(30), <1>0, <1>24, FoundIs DEF Update
<1>25. ASSUME NEW t \in Threads, RemoveErase(t)
     PROVE ConnectInv(p)'
  BY SMTT(30), <1>0, <1>25, FoundIs DEF RemoveErase
<1>26. ASSUME NEW t \in Threads, RemoveThrows(t)
     PROVE ConnectInv(p)'
  BY SMTT(30), <1>0, <1>26, FoundIs DEF RemoveThrows
<1> QED
  BY <1>1, <1>2, <1>3, <1>4, <1>5, <1>6, <1>7, <1>8, <1>9, <1>10, <1>11, <1>12, <1>13,
     <1>14, <1>15, <1>16, <1>17, <1>18, <1>19, <1>20, <1>21, <1>22, <1>23, <1>24, <1>25,
     <1>26 DEF Next, Call, Complete, Continue

\* A connection that is of use stays stored.
LEMMA AliveStep ==
  ASSUME TypeOK, MutexInv, PlaceInv, LinkInv, FreshInv, Spare, HolderInv,
         CleanInv, TypeOK', Next
  PROVE  \A p \in PeerIds : Clean(p)' => AliveInv(p)'
<1> USE DEF Facts, Goto, Move, Return, Insert, AfterClose, SetPeerState, Present,
        IsConnected, peerVars, netVars, history, TypeOK, MutexInv, PlaceInv, LinkInv,
        FreshInv, HolderInv, Unadopted, Made, Holders, Clean, ConnectInv, AliveInv,
        DownInv, Alive, Left, Connects, Over, ConnectSteps, OnConnectSteps, CloseSteps
<1> SUFFICES ASSUME NEW p \in PeerIds, Clean(p)'
             PROVE  AliveInv(p)'
  OBVIOUS
<1>0. /\ Facts
      /\ TypeOK /\ MutexInv /\ PlaceInv /\ LinkInv /\ FreshInv /\ Spare
      /\ HolderInv /\ TypeOK'
      /\ Clean(p) => ConnectInv(p) /\ AliveInv(p) /\ DownInv(p)
  BY ConstantFacts DEF CleanInv
<1>1. ASSUME NEW t \in Threads, AddPeer(t)
     PROVE AliveInv(p)'
  BY SMTT(30), <1>0, <1>1, FoundIs DEF AddPeer
<1>2. ASSUME NEW t \in Threads, ConnectBegin(t)
     PROVE AliveInv(p)'
  BY SMTT(30), <1>0, <1>2, FoundIs DEF ConnectBegin
<1>3. ASSUME NEW t \in Threads, DisconnectPeer(t)
     PROVE AliveInv(p)'
  BY SMTT(30), <1>0, <1>3, FoundIs DEF DisconnectPeer
<1>4. ASSUME NEW t \in Threads, RemovePeer(t)
     PROVE AliveInv(p)'
  BY SMTT(30), <1>0, <1>4, FoundIs DEF RemovePeer
<1>5. ASSUME NEW t \in Threads, ConnectFails(t)
     PROVE AliveInv(p)'
  BY SMTT(30), <1>0, <1>5, FoundIs DEF ConnectFails
<1>6. ASSUME NEW t \in Threads, Established(t)
     PROVE AliveInv(p)'
  BY SMTT(30), <1>0, <1>6, FoundIs DEF Established
<1>7. ASSUME NEW t \in Threads, StartFails(t)
     PROVE AliveInv(p)'
  BY SMTT(30), <1>0, <1>7, FoundIs DEF StartFails
<1>8. ASSUME NEW t \in Threads, OnMessage(t)
     PROVE AliveInv(p)'
  BY SMTT(30), <1>0, <1>8, FoundIs DEF OnMessage
<1>9. ASSUME NEW t \in Threads, ReadError(t)
     PROVE AliveInv(p)'
  BY SMTT(30), <1>0, <1>9, FoundIs DEF ReadError
<1>10. ASSUME NEW t \in Threads, ConnectCall(t)
     PROVE AliveInv(p)'
  BY SMTT(30), <1>0, <1>10, FoundIs DEF ConnectCall
<1>11. ASSUME NEW t \in Threads, ConnectStore(t)
     PROVE AliveInv(p)'
  BY SMTT(30), <1>0, <1>11, FoundIs DEF ConnectStore
<1>12. ASSUME NEW t \in Threads, ConnectUndo(t)
     PROVE AliveInv(p)'
  BY SMTT(30), <1>0, <1>12, FoundIs DEF ConnectUndo
<1>13. ASSUME NEW t \in Threads, Lookup(t)
     PROVE AliveInv(p)'
  BY SMTT(30), <1>0, <1>13, FoundIs DEF Lookup
<1>14. ASSUME NEW t \in Threads, Adopt(t)
     PROVE AliveInv(p)'
  BY SMTT(30), <1>0, <1>14, FoundIs DEF Adopt
<1>15. ASSUME NEW t \in Threads, AdoptSet(t)
     PROVE AliveInv(p)'
  BY SMTT(30), <1>0, <1>15, FoundIs DEF AdoptSet
<1>16. ASSUME NEW t \in Threads, Connected(t)
     PROVE AliveInv(p)'
  BY SMTT(30), <1>0, <1>16, FoundIs DEF Connected
<1>17. ASSUME NEW t \in Threads, Handshake(t)
     PROVE AliveInv(p)'
  BY SMTT(30), <1>0, <1>17, FoundIs DEF Handshake
<1>18. ASSUME NEW t \in Threads, Activate(t)
     PROVE AliveInv(p)'
  BY SMTT(30), <1>0, <1>18, FoundIs DEF Activate
<1>19. ASSUME NEW t \in Threads, NetDisconnect(t)
     PROVE AliveInv(p)'
  BY SMTT(30), <1>0, <1>19, FoundIs DEF NetDisconnect
<1>20. ASSUME NEW t \in Threads, Close(t)
     PROVE AliveInv(p)'
  BY SMTT(30), <1>0, <1>20, FoundIs DEF Close
<1>21. ASSUME NEW t \in Threads, CloseFlag(t)
     PROVE AliveInv(p)'
  BY SMTT(30), <1>0, <1>21, FoundIs DEF CloseFlag
<1>22. ASSUME NEW t \in Threads, EraseConnection(t)
     PROVE AliveInv(p)'
  BY SMTT(30), <1>0, <1>22, FoundIs DEF EraseConnection
<1>23. ASSUME NEW t \in Threads, FindDisconnected(t)
     PROVE AliveInv(p)'
  BY SMTT(30), <1>0, <1>23, FoundIs DEF FindDisconnected
<1>24. ASSUME NEW t \in Threads, Update(t)
     PROVE AliveInv(p)'
  BY SMTT(30), <1>0, <1>24, FoundIs DEF Update
<1>25. ASSUME NEW t \in Threads, RemoveErase(t)
     PROVE AliveInv(p)'
  BY SMTT(30), <1>0, <1>25, FoundIs DEF RemoveErase
<1>26. ASSUME NEW t \in Threads, RemoveThrows(t)
     PROVE AliveInv(p)'
  BY SMTT(30), <1>0, <1>26, FoundIs DEF RemoveThrows
<1> QED
  BY <1>1, <1>2, <1>3, <1>4, <1>5, <1>6, <1>7, <1>8, <1>9, <1>10, <1>11, <1>12, <1>13,
     <1>14, <1>15, <1>16, <1>17, <1>18, <1>19, <1>20, <1>21, <1>22, <1>23, <1>24, <1>25,
     <1>26 DEF Next, Call, Complete, Continue

\* A connection that went down is stored no longer than onDisconnect takes.
LEMMA DownStep ==
  ASSUME TypeOK, MutexInv, PlaceInv, LinkInv, FreshInv, Spare, HolderInv,
         CleanInv, TypeOK', Next
  PROVE  \A p \in PeerIds : Clean(p)' => DownInv(p)'
<1> USE DEF Facts, Goto, Move, Return, Insert, AfterClose, SetPeerState, Present,
        IsConnected, peerVars, netVars, history, TypeOK, MutexInv, PlaceInv, LinkInv,
        FreshInv, HolderInv, Unadopted, Made, Holders, Clean, ConnectInv, AliveInv,
        DownInv, Alive, Left, Connects, Over, ConnectSteps, OnConnectSteps, CloseSteps
<1> SUFFICES ASSUME NEW p \in PeerIds, Clean(p)'
             PROVE  DownInv(p)'
  OBVIOUS
<1>0. /\ Facts
      /\ TypeOK /\ MutexInv /\ PlaceInv /\ LinkInv /\ FreshInv /\ Spare
      /\ HolderInv /\ TypeOK'
      /\ Clean(p) => ConnectInv(p) /\ AliveInv(p) /\ DownInv(p)
  BY ConstantFacts DEF CleanInv
<1>1. ASSUME NEW t \in Threads, AddPeer(t)
     PROVE DownInv(p)'
  BY <1>0, <1>1, FoundIs DEF AddPeer
<1>2. ASSUME NEW t \in Threads, ConnectBegin(t)
     PROVE DownInv(p)'
  BY <1>0, <1>2, FoundIs DEF ConnectBegin
<1>3. ASSUME NEW t \in Threads, DisconnectPeer(t)
     PROVE DownInv(p)'
  BY <1>0, <1>3, FoundIs DEF DisconnectPeer
<1>4. ASSUME NEW t \in Threads, RemovePeer(t)
     PROVE DownInv(p)'
  BY <1>0, <1>4, FoundIs DEF RemovePeer
<1>5. ASSUME NEW t \in Threads, ConnectFails(t)
     PROVE DownInv(p)'
  BY <1>0, <1>5, FoundIs DEF ConnectFails
<1>6. ASSUME NEW t \in Threads, Established(t)
     PROVE DownInv(p)'
  BY <1>0, <1>6, FoundIs DEF Established
<1>7. ASSUME NEW t \in Threads, StartFails(t)
     PROVE DownInv(p)'
  BY <1>0, <1>7, FoundIs DEF StartFails
<1>8. ASSUME NEW t \in Threads, OnMessage(t)
     PROVE DownInv(p)'
  BY <1>0, <1>8, FoundIs DEF OnMessage
<1>9. ASSUME NEW t \in Threads, ReadError(t)
     PROVE DownInv(p)'
  BY <1>0, <1>9, FoundIs DEF ReadError
<1>10. ASSUME NEW t \in Threads, ConnectCall(t)
     PROVE DownInv(p)'
  BY <1>0, <1>10, FoundIs DEF ConnectCall
<1>11. ASSUME NEW t \in Threads, ConnectStore(t)
     PROVE DownInv(p)'
  BY <1>0, <1>11, FoundIs DEF ConnectStore
<1>12. ASSUME NEW t \in Threads, ConnectUndo(t)
     PROVE DownInv(p)'
  BY <1>0, <1>12, FoundIs DEF ConnectUndo
<1>13. ASSUME NEW t \in Threads, Lookup(t)
     PROVE DownInv(p)'
  BY <1>0, <1>13, FoundIs DEF Lookup
<1>14. ASSUME NEW t \in Threads, Adopt(t)
     PROVE DownInv(p)'
  BY <1>0, <1>14, FoundIs DEF Adopt
<1>15. ASSUME NEW t \in Threads, AdoptSet(t)
     PROVE DownInv(p)'
  BY <1>0, <1>15, FoundIs DEF AdoptSet
<1>16. ASSUME NEW t \in Threads, Connected(t)
     PROVE DownInv(p)'
  BY <1>0, <1>16, FoundIs DEF Connected
<1>17. ASSUME NEW t \in Threads, Handshake(t)
     PROVE DownInv(p)'
  BY <1>0, <1>17, FoundIs DEF Handshake
<1>18. ASSUME NEW t \in Threads, Activate(t)
     PROVE DownInv(p)'
  BY <1>0, <1>18, FoundIs DEF Activate
<1>19. ASSUME NEW t \in Threads, NetDisconnect(t)
     PROVE DownInv(p)'
  BY <1>0, <1>19, FoundIs DEF NetDisconnect
<1>20. ASSUME NEW t \in Threads, Close(t)
     PROVE DownInv(p)'
  BY <1>0, <1>20, FoundIs DEF Close
<1>21. ASSUME NEW t \in Threads, CloseFlag(t)
     PROVE DownInv(p)'
  BY <1>0, <1>21, FoundIs DEF CloseFlag
<1>22. ASSUME NEW t \in Threads, EraseConnection(t)
     PROVE DownInv(p)'
  BY <1>0, <1>22, FoundIs DEF EraseConnection
<1>23. ASSUME NEW t \in Threads, FindDisconnected(t)
     PROVE DownInv(p)'
  BY <1>0, <1>23, FoundIs DEF FindDisconnected
<1>24. ASSUME NEW t \in Threads, Update(t)
     PROVE DownInv(p)'
  BY <1>0, <1>24, FoundIs DEF Update
<1>25. ASSUME NEW t \in Threads, RemoveErase(t)
     PROVE DownInv(p)'
  BY <1>0, <1>25, FoundIs DEF RemoveErase
<1>26. ASSUME NEW t \in Threads, RemoveThrows(t)
     PROVE DownInv(p)'
  BY <1>0, <1>26, FoundIs DEF RemoveThrows
<1> QED
  BY <1>1, <1>2, <1>3, <1>4, <1>5, <1>6, <1>7, <1>8, <1>9, <1>10, <1>11, <1>12, <1>13,
     <1>14, <1>15, <1>16, <1>17, <1>18, <1>19, <1>20, <1>21, <1>22, <1>23, <1>24, <1>25,
     <1>26 DEF Next, Call, Complete, Continue

-----------------------------------------------------------------------------
(* Peer ids suffice *)

Counted == IsFiniteSet(Adopted) /\ Cardinality(Adopted) \in Nat

\* There are MaxConns connections ...
LEMMA ConnIdsFinite == IsFiniteSet(ConnIds) /\ Cardinality(ConnIds) = MaxConns
  BY BoundsAssumption, FS_Interval DEF ConnIds

\* ... and no more that may have brought a peer.
LEMMA AdoptedFinite == Counted
<1>1. IsFiniteSet(ConnIds) /\ Cardinality(ConnIds) = MaxConns
  BY ConnIdsFinite
<1>2. Adopted \subseteq ConnIds
  BY DEF Adopted
<1> HIDE DEF Adopted
<1> QED
  BY <1>1, <1>2, FS_Subset, FS_CardinalityType DEF Counted

\* A connection whose peer onConnect has yet to add is not counted, so that ids are left.
LEMMA SpareIs ==
  ASSUME TypeOK, PlaceInv, LinkInv, RoomInv
  PROVE  Spare
<1>1. SUFFICES ASSUME NEW t \in Threads, pc[t] = "adopt" PROVE nextPeer \in PeerIds
  BY DEF Spare
<1>2. at[t] \in ConnIds /\ at[t] \notin Adopted
  BY <1>1 DEF TypeOK, PlaceInv, Adopted
<1>3. Adopted \subseteq ConnIds /\ IsFiniteSet(ConnIds)
     /\ Cardinality(ConnIds) = MaxConns
  BY ConnIdsFinite DEF Adopted
<1> HIDE DEF Adopted
<1>4. Cardinality(ConnIds \ {at[t]}) = MaxConns - 1
  BY <1>2, <1>3, FS_RemoveElement
<1>5. IsFiniteSet(ConnIds \ {at[t]}) /\ Adopted \subseteq ConnIds \ {at[t]}
  BY <1>2, <1>3, FS_RemoveElement
<1>6. Cardinality(Adopted) <= MaxConns - 1
  BY <1>4, <1>5, FS_Subset
<1>7. nextPeer <= MaxAdds + MaxConns
  BY <1>6, AdoptedFinite, BoundsAssumption DEF Counted, RoomInv, TypeOK
<1> QED
  BY <1>7 DEF TypeOK, PeerIds

\* Connections that have brought a peer stay counted, and no step but Insert takes an id.
LEMMA AdoptedStep ==
  ASSUME TypeOK, MutexInv, PlaceInv, LinkInv, FreshInv, Next
  PROVE  /\ Adopted \subseteq Adopted'
         /\ nextPeer' = nextPeer \/ \E u \in Threads : AddPeer(u) \/ Adopt(u)
<1> DEFINE AdoptedGoal ==
       /\ Adopted \subseteq Adopted'
       /\ nextPeer' = nextPeer \/ \E u \in Threads : AddPeer(u) \/ Adopt(u)
<1> USE DEF Facts, Goto, Move, Return, Insert, AfterClose, SetPeerState, Present,
        IsConnected, peerVars, netVars, history, TypeOK, MutexInv, PlaceInv, LinkInv,
        Adopted, ConnectSteps, OnConnectSteps, CloseSteps
<1>0. Facts /\ TypeOK /\ MutexInv /\ PlaceInv /\ LinkInv /\ FreshInv
  BY ConstantFacts
<1>1. ASSUME NEW t \in Threads, AddPeer(t) PROVE AdoptedGoal
  BY <1>0, <1>1, FoundIs DEF AddPeer
<1>2. ASSUME NEW t \in Threads, ConnectBegin(t) PROVE AdoptedGoal
  BY <1>0, <1>2, FoundIs DEF ConnectBegin
<1>3. ASSUME NEW t \in Threads, DisconnectPeer(t) PROVE AdoptedGoal
  BY <1>0, <1>3, FoundIs DEF DisconnectPeer
<1>4. ASSUME NEW t \in Threads, RemovePeer(t) PROVE AdoptedGoal
  BY <1>0, <1>4, FoundIs DEF RemovePeer
<1>5. ASSUME NEW t \in Threads, ConnectFails(t) PROVE AdoptedGoal
  BY <1>0, <1>5, FoundIs DEF ConnectFails
<1>6. ASSUME NEW t \in Threads, Established(t) PROVE AdoptedGoal
  BY <1>0, <1>6, FoundIs DEF Established
<1>7. ASSUME NEW t \in Threads, StartFails(t) PROVE AdoptedGoal
  BY <1>0, <1>7, FoundIs DEF StartFails
<1>8. ASSUME NEW t \in Threads, OnMessage(t) PROVE AdoptedGoal
  BY <1>0, <1>8, FoundIs DEF OnMessage
<1>9. ASSUME NEW t \in Threads, ReadError(t) PROVE AdoptedGoal
  BY <1>0, <1>9, FoundIs DEF ReadError
<1>10. ASSUME NEW t \in Threads, ConnectCall(t) PROVE AdoptedGoal
  BY <1>0, <1>10, FoundIs DEF ConnectCall
<1>11. ASSUME NEW t \in Threads, ConnectStore(t) PROVE AdoptedGoal
  BY <1>0, <1>11, FoundIs DEF ConnectStore
<1>12. ASSUME NEW t \in Threads, ConnectUndo(t) PROVE AdoptedGoal
  BY <1>0, <1>12, FoundIs DEF ConnectUndo
<1>13. ASSUME NEW t \in Threads, Lookup(t) PROVE AdoptedGoal
  BY <1>0, <1>13, FoundIs DEF Lookup
<1>14. ASSUME NEW t \in Threads, Adopt(t) PROVE AdoptedGoal
  <2>1. Adopted \subseteq Adopted'
    BY <1>0, <1>14 DEF Adopt
  <2> QED
    BY <1>14, <2>1
<1>15. ASSUME NEW t \in Threads, AdoptSet(t) PROVE AdoptedGoal
  BY <1>0, <1>15, FoundIs DEF AdoptSet
<1>16. ASSUME NEW t \in Threads, Connected(t) PROVE AdoptedGoal
  BY <1>0, <1>16, FoundIs DEF Connected
<1>17. ASSUME NEW t \in Threads, Handshake(t) PROVE AdoptedGoal
  BY <1>0, <1>17, FoundIs DEF Handshake
<1>18. ASSUME NEW t \in Threads, Activate(t) PROVE AdoptedGoal
  BY <1>0, <1>18, FoundIs DEF Activate
<1>19. ASSUME NEW t \in Threads, NetDisconnect(t) PROVE AdoptedGoal
  BY <1>0, <1>19, FoundIs DEF NetDisconnect
<1>20. ASSUME NEW t \in Threads, Close(t) PROVE AdoptedGoal
  BY <1>0, <1>20, FoundIs DEF Close
<1>21. ASSUME NEW t \in Threads, CloseFlag(t) PROVE AdoptedGoal
  BY <1>0, <1>21, FoundIs DEF CloseFlag
<1>22. ASSUME NEW t \in Threads, EraseConnection(t) PROVE AdoptedGoal
  BY <1>0, <1>22, FoundIs DEF EraseConnection
<1>23. ASSUME NEW t \in Threads, FindDisconnected(t) PROVE AdoptedGoal
  BY <1>0, <1>23, FoundIs DEF FindDisconnected
<1>24. ASSUME NEW t \in Threads, Update(t) PROVE AdoptedGoal
  BY <1>0, <1>24, FoundIs DEF Update
<1>25. ASSUME NEW t \in Threads, RemoveErase(t) PROVE AdoptedGoal
  BY <1>0, <1>25, FoundIs DEF RemoveErase
<1>26. ASSUME NEW t \in Threads, RemoveThrows(t) PROVE AdoptedGoal
  BY <1>0, <1>26, FoundIs DEF RemoveThrows
<1> QED
  BY <1>1, <1>2, <1>3, <1>4, <1>5, <1>6, <1>7, <1>8, <1>9, <1>10, <1>11, <1>12, <1>13,
     <1>14, <1>15, <1>16, <1>17, <1>18, <1>19, <1>20, <1>21, <1>22, <1>23, <1>24, <1>25,
     <1>26 DEF Next, Call, Complete, Continue

\* An id is taken by addPeer(), which has a bound, or for a connection that is
\* counted from then on.
LEMMA RoomStep ==
  ASSUME TypeOK, MutexInv, PlaceInv, LinkInv, FreshInv, RoomInv, Next, TypeOK'
  PROVE  RoomInv'
<1>1. /\ IsFiniteSet(Adopted) /\ IsFiniteSet(Adopted')
      /\ Cardinality(Adopted) \in Nat /\ Cardinality(Adopted') \in Nat
  <2>1. Counted /\ Counted'
    BY AdoptedFinite, PTL
  <2> QED
    BY <2>1 DEF Counted
<1>2. /\ Adopted \subseteq Adopted'
      /\ nextPeer' = nextPeer \/ \E u \in Threads : AddPeer(u) \/ Adopt(u)
  BY AdoptedStep
<1>3. Cardinality(Adopted) <= Cardinality(Adopted')
  <2> HIDE DEF Adopted
  <2> QED
    BY <1>1, <1>2, FS_Subset
<1>4. CASE nextPeer' = nextPeer
  BY <1>1, <1>3, <1>4, BoundsAssumption DEF RoomInv, TypeOK
<1>5. ASSUME NEW u \in Threads, AddPeer(u) PROVE RoomInv'
  BY <1>1, <1>5, BoundsAssumption DEF RoomInv, TypeOK, AddPeer, Insert
<1>6. ASSUME NEW u \in Threads, Adopt(u) PROVE RoomInv'
  <2>1. at[u] \notin Adopted /\ at[u] \in Adopted'
    BY <1>6, ConstantFacts DEF Adopt, Move, Goto, netVars, Adopted, Facts, TypeOK,
       MutexInv, PlaceInv, LinkInv, OnConnectSteps
  <2> DEFINE a == at[u]
  <2>2. a \notin Adopted /\ a \in Adopted'
    BY <2>1
  <2> HIDE DEF Adopted, a
  <2>3. /\ IsFiniteSet(Adopted \cup {a})
        /\ Cardinality(Adopted \cup {a}) = Cardinality(Adopted) + 1
    BY <1>1, <2>2, FS_AddElement
  <2>4. Adopted \cup {a} \subseteq Adopted'
    BY <1>2, <2>2
  <2>5. Cardinality(Adopted) + 1 <= Cardinality(Adopted')
    BY <1>1, <2>3, <2>4, FS_Subset
  <2>6. nextPeer' = nextPeer + 1
    BY <1>6 DEF Adopt, Insert
  <2> QED
    BY <1>1, <2>5, <2>6, BoundsAssumption DEF RoomInv, TypeOK
<1> QED
  BY <1>2, <1>4, <1>5, <1>6

-----------------------------------------------------------------------------
(* The invariant and what it says *)

\* There are no peers and no connections at first.
LEMMA InitInductive == Init => IInv
<1> SUFFICES ASSUME Init PROVE IInv
  OBVIOUS
<1>1. Facts
  BY ConstantFacts
<1>2. TypeOK
  <2>1. 1 \in 1..(MaxAdds + MaxConns + 1) /\ 0 \in 0..MaxRemovals
    BY BoundsAssumption
  <2> QED
    BY <2>1 DEF Init, TypeOK, PeerStates, LinkStates, Steps
<1>3. MutexInv /\ PlaceInv /\ LinkInv /\ FreshInv /\ HolderInv
  BY <1>1 DEF Init, Facts, MutexInv, PlaceInv, LinkInv, FreshInv, HolderInv, Present,
              RemoveSteps, OnConnectSteps, CloseSteps
<1>4. CleanInv
  BY DEF Init, CleanInv, Clean, Present
<1>5. RoomInv
  BY AdoptedFinite, BoundsAssumption DEF Counted, Init, RoomInv
<1> QED
  BY <1>2, <1>3, <1>4, <1>5 DEF IInv

\* Every step keeps the invariant.
LEMMA NextInductive == IInv /\ Next => IInv'
<1> SUFFICES ASSUME IInv, Next PROVE IInv'
  OBVIOUS
<1>1. /\ TypeOK /\ MutexInv /\ PlaceInv /\ LinkInv /\ FreshInv /\ HolderInv
      /\ CleanInv /\ RoomInv
  BY DEF IInv
<1>2. Spare
  BY <1>1, SpareIs
<1>3. TypeOK'
  BY <1>1, <1>2, TypesStep
<1>4. MutexInv' /\ PlaceInv' /\ LinkInv' /\ FreshInv'
  BY <1>1, <1>2, <1>3, MutexStep, PlaceStep, LinkStep, FreshStep
<1>5. HolderInv'
  BY <1>1, <1>2, <1>3, HolderStep
<1>6. \A p \in PeerIds : Clean(p)' => ConnectInv(p)'
  BY <1>1, <1>2, <1>3, <1>4, <1>5, ConnectStep
<1>7. \A p \in PeerIds : Clean(p)' => AliveInv(p)'
  BY <1>1, <1>2, <1>3, <1>4, <1>5, AliveStep
<1>8. \A p \in PeerIds : Clean(p)' => DownInv(p)'
  BY <1>1, <1>2, <1>3, <1>4, <1>5, DownStep
<1>9. CleanInv'
  BY <1>6, <1>7, <1>8 DEF CleanInv
<1>10. RoomInv'
  BY <1>1, <1>3, RoomStep
<1> QED
  BY <1>3, <1>4, <1>5, <1>9, <1>10 DEF IInv

\* So does a step that changes nothing.
LEMMA StutterInductive == IInv /\ UNCHANGED vars => IInv'
  BY DEF IInv, vars, TypeOK, MutexInv, PlaceInv, LinkInv, FreshInv, HolderInv, CleanInv,
         RoomInv, Present, IsConnected, Unadopted, Made, Clean, ConnectInv, AliveInv, DownInv,
              Alive,
         Left, Connects, Adopted

\* The invariant holds in every behaviour.
LEMMA Invariant == Spec => []IInv
  BY InitInductive, NextInductive, StutterInductive, PTL DEF Spec

\* Every variable of the peer table, the connections and the threads keeps its type; above
\* all the ids of peers that addPeer() and onConnect give never run out.
THEOREM TypeCorrect == Spec => []TypeOK
  BY Invariant, PTL DEF IInv

\* Two entries of peers_ never name the same connection, unless onConnect overtook the
\* thread that stores the id or connectToPeer was called before an earlier connection of
\* the same peer was over.
THEOREM OnePeerCorrect == Spec => []OnePeerPerConnection
<1>1. IInv => OnePeerPerConnection
  BY ConstantFacts DEF IInv, HolderInv, Made, OnePeerPerConnection, TypeOK, Facts
<1> QED
  BY <1>1, Invariant, PTL

\* A peer that isConnected() reports has a live connection, or the thread that closed it
\* is on its way to onDisconnect, or removePeer() has abandoned the connection when it
\* locked peersMutex_ twice, unless the connections of the peer were mixed up in the two
\* ways that dirty records.
THEOREM DeadPeerCorrect == Spec => []NoDeadPeer
<1>1. IInv => NoDeadPeer
  <2> SUFFICES ASSUME IInv, NEW p \in PeerIds \ dirty, IsConnected(p)
      PROVE /\ pconn[p] > 0
            /\ link[pconn[p]] = "up" \/ Closing(pconn[p]) \/ pconn[p] \in abandoned
    BY DEF NoDeadPeer
  <2>1. Clean(p)
    BY DEF Clean, Present, IsConnected
  <2>2. DownInv(p)
    BY <2>1 DEF IInv, CleanInv
  <2>3. pconn[p] > 0
    BY <2>2, ConstantFacts DEF IInv, TypeOK, DownInv, Facts
  <2> QED
    BY <2>2, <2>3 DEF DownInv, Closing, CloseSteps
<1> QED
  BY <1>1, Invariant, PTL

\* A connection that is up can be reached through the peer connectToPeer made it for:
\* the peer has its id, and is connected or being disconnected, unless it is dirty; a
\* connection that removePeer() abandoned before is no exception.
THEOREM LostConnectionCorrect == Spec => []NoLostConnection
<1>1. IInv => NoLostConnection
  <2> SUFFICES ASSUME IInv, NEW c \in ConnIds, link[c] = "up", ~Connecting(c),
                      Present(owner[c]), owner[c] \notin dirty
      PROVE /\ pconn[owner[c]] = c
            /\ IsConnected(owner[c]) \/ pstate[owner[c]] = "DISCONNECTING"
    BY DEF NoLostConnection
  <2>1. owner[c] \in PeerIds
    BY DEF IInv, LinkInv, TypeOK
  <2>2. AliveInv(owner[c])
    BY <2>1 DEF IInv, CleanInv, Clean
  <2> QED
    BY <2>2 DEF AliveInv, Alive, Connecting, OnConnectSteps
<1> QED
  BY <1>1, Invariant, PTL
============================================================================
