------------------------ MODULE NetworkManagerProofs ------------------------
(***************************************************************************)
(* Proofs about NetworkManager for every number of threads and             *)
(* connections: no connection is left in the map by mistake, none is       *)
(* forgotten when the manager is destroyed, and a connection that only its *)
(* read handler ends leaves no handler behind.                             *)
(***************************************************************************)
EXTENDS NetworkManager, WellFoundedInduction, TLAPS

\* A thread works on a connection.
Working == {"start", "message", "send", "rearm", "close", "shutdown", "erase"}

\* The connection has been established.
Made(c) == socket[c] \in {"open", "lost", "closed"}

\* Everything but connect() and its handler works on established connections.
MadeInv ==
  /\ \A c \in Conns : c >= nextId => socket[c] = "none"
  /\ \A c \in connections : Made(c)
  /\ \A c \in Conns : reading[c] \/ Writes(c) => Made(c)
  /\ \A t \in Threads :
       /\ pc[t] \in Working => at[t] \in Conns /\ Made(at[t])
       /\ \A c \in todo[t] : Made(c)

\* start() runs with connectionsMutex_ locked; handlers run in threads of the pool,
\* and work on one connection.
ThreadInv ==
  /\ \A t \in Threads :
       /\ pc[t] = "start" => mutex = t
       /\ pc[t] \in {"start", "message", "rearm"} => t \in IoThreads
  /\ \A t \in IoThreads : todo[t] = {}

\* A thread of the pool runs a handler of the connection, or what it calls.
Handles(t, c) == pc[t] \in Working /\ at[t] = c

\* What holds of a connection that no caller closed and nobody wrote to.  Of its
\* read and its read handler there is one at most, and only while the connection
\* is in the map: the handler that erases it was the last.
CleanInv ==
  /\ \A t \in Callers : pc[t] = "erase" => at[t] \in foreign
  /\ \A c \in Conns \ foreign :
       /\ writing[c] = "none"
       /\ reading[c] => c \in connections
       /\ \A t \in IoThreads : Handles(t, c) =>
            /\ c \in connections /\ ~reading[c]
            /\ \A u \in IoThreads \ {t} : ~Handles(u, c)

\* A caller is going to close the connection.
Closes(t, c) ==
  \/ pc[t] \in {"close", "shutdown"} /\ (at[t] = c \/ c \in todo[t])
  \/ pc[t] = "erase" /\ c \in todo[t]

\* One thread destroys the manager and the other callers are gone.  While it
\* does, an entry of the map is going to be closed, is being started or erased,
\* or is one of those that stay.
DestroyInv ==
  /\ phase # "running" =>
       \A t, u \in Callers : t # u => pc[t] = "idle" \/ pc[u] = "idle"
  /\ phase \in {"closing", "stopped"} =>
       \A c \in connections :
         \/ c \in late \cup spoiled
         \/ \E t \in Threads : at[t] = c /\ pc[t] \in {"start", "erase"}
         \/ \E t \in Callers : Closes(t, c)

IInv ==
  /\ TypeOK /\ MadeInv /\ ThreadInv
  /\ NoGhost /\ CleanInv /\ DestroyInv /\ NoneForgotten

-----------------------------------------------------------------------------
\* A set of numbers has a least element.
LEMMA SetMin ==
  ASSUME NEW S \in SUBSET Nat, S # {}
  PROVE  Min(S) \in S
<1> DEFINE R == {ss \in Nat \X Nat : ss[1] < ss[2]}
<1>1. IsWellFoundedOn(R, Nat)
  BY NatLessThanWellFounded DEF OpToRel
<1>2. \A a, b \in Nat : a < b => <<a, b>> \in R
  OBVIOUS
<1> HIDE DEF R
<1>3. PICK x \in S : \A y \in S : ~(<<y, x>> \in R)
  BY <1>1, WFMin
<1>4. \A y \in S : ~(y < x)
  BY <1>2, <1>3
<1>5. \A y \in S : x <= y
  <2>1. \A y \in S : y \in Nat /\ x \in Nat
    OBVIOUS
  <2> QED
    BY <1>4, <2>1
<1> QED
  BY <1>5 DEF Min

\* What the steps need to know of Min.
Minima ==
  /\ \A S \in SUBSET Conns : S # {} => Min(S) \in S
  /\ \A c \in Conns : Min({c}) = c

\* The ids that are taken and found as least elements are ids.
LEMMA ConnMin == Minima
<1>1. \A S \in SUBSET Conns : S # {} => Min(S) \in S
  BY SetMin, BoundsAssumption DEF Conns
<1>2. \A c \in Conns : Min({c}) \in {c}
  BY <1>1
<1> QED
  BY <1>1, <1>2 DEF Minima

-----------------------------------------------------------------------------
(* The steps, one action at a time *)

\* What the constants give.
Facts ==
  /\ Minima /\ MaxConns \in Nat
  /\ Callers \cap IoThreads = {} /\ None \notin Threads
  /\ Threads = Callers \cup IoThreads
  /\ 0 \notin Conns /\ \A c \in Conns : c \in Nat /\ c <= MaxConns

LEMMA ConstantFacts == Facts
BY ConnMin, BoundsAssumption, ThreadsAssumption DEF Facts, Threads, Conns

\* Types are kept.
LEMMA TypesStep ==
  ASSUME TypeOK, MadeInv, ThreadInv, Next
  PROVE  TypeOK'
<1> USE DEF TypeOK, managerVars, mapVars, linkVars, opVars, threadVars, history
<1>0. Facts /\ TypeOK /\ MadeInv /\ ThreadInv
  BY ConstantFacts
<1>1. ASSUME NEW t \in Threads, Start(t) PROVE TypeOK'
  BY <1>0, <1>1 DEF Start, Leave, Facts, Minima, MadeInv, Working, Steps
<1>2. ASSUME NEW t \in Threads, StartFails(t) PROVE TypeOK'
  BY <1>0, <1>2 DEF StartFails, Leave, Facts, Minima, MadeInv, Working, Steps
<1>3. ASSUME NEW t \in Threads, OnConnectThrows(t) PROVE TypeOK'
  BY <1>0, <1>3 DEF OnConnectThrows, Leave, Facts, Minima, MadeInv, Working, Steps
<1>4. ASSUME NEW t \in Threads, OnConnectBlocks(t) PROVE TypeOK'
  <2>1. at[t] \in Conns
    BY <1>0, <1>4 DEF OnConnectBlocks, MadeInv, Working
  <2>2. connected' \in [Conns -> BOOLEAN]
    <3>1. CASE connected' = [connected EXCEPT ![at[t]] = TRUE]
      BY <3>1
    <3>2. CASE UNCHANGED connected
      BY <3>2
    <3> QED
      BY <1>4, <3>1, <3>2 DEF OnConnectBlocks
  <2> QED
    BY <1>4, <2>1, <2>2 DEF OnConnectBlocks, Goto, Steps
<1>5. ASSUME NEW t \in Threads, Answer(t) PROVE TypeOK'
  BY <1>0, <1>5 DEF Answer, Facts, Minima, MadeInv, Working, Steps
<1>6. ASSUME NEW t \in Threads, MessageThrows(t) PROVE TypeOK'
  BY <1>0, <1>6 DEF MessageThrows, Leave, Facts, Minima, MadeInv, Working, Steps
<1>7. ASSUME NEW t \in Threads, Rearm(t) PROVE TypeOK'
  BY <1>0, <1>7 DEF Rearm, Leave, Facts, Minima, MadeInv, Working, Steps
<1>8. ASSUME NEW t \in Threads, SendTo(t) PROVE TypeOK'
  BY <1>0, <1>8 DEF SendTo, Return, Leave, Facts, Minima, MadeInv, Working, Steps
<1>9. ASSUME NEW t \in Threads, CloseNothing(t) PROVE TypeOK'
  BY <1>0, <1>9 DEF CloseNothing, Return, Leave, Facts, Minima, MadeInv, Working, Steps
<1>10. ASSUME NEW t \in Threads, CloseTest(t) PROVE TypeOK'
  BY <1>0, <1>10 DEF CloseTest, Goto, Facts, Minima, MadeInv, Working, Steps
<1>11. ASSUME NEW t \in Threads, Close(t) PROVE TypeOK'
  BY <1>0, <1>11 DEF Close, Goto, Facts, Minima, MadeInv, Working, Steps
<1>12. ASSUME NEW t \in Threads, Erase(t) PROVE TypeOK'
  BY <1>0, <1>12 DEF Erase, Return, Leave, Facts, Minima, MadeInv, Working, Steps
<1>13. ASSUME NEW t \in Threads, Stop(t) PROVE TypeOK'
  BY <1>0, <1>13 DEF Stop, Facts, Minima, MadeInv, Working, Steps
<1>14. ASSUME NEW t \in Threads, Joined(t) PROVE TypeOK'
  BY <1>0, <1>14 DEF Joined, Goto, Facts, Minima, MadeInv, Working, Steps
<1>15. ASSUME NEW t \in Threads, Connect(t) PROVE TypeOK'
  <2>1. nextId' \in 1..(MaxConns + 1)
    <3>1. nextId \in 1..(MaxConns + 1) /\ nextId <= MaxConns /\ nextId' = nextId + 1
      BY <1>15 DEF Connect
    <3> QED
      BY <1>0, <3>1 DEF Facts
  <2>2. nextId \in Conns
    BY <1>0, <1>15 DEF Connect, Facts, Conns
  <2>3. socket' \in
          [Conns -> {"none", "connecting", "refused", "open", "lost", "closed"}]
    BY <1>15, <2>2 DEF Connect
  <2> QED
    BY <1>15, <2>1, <2>3 DEF Connect
<1>16. ASSUME NEW t \in Threads, Send(t) PROVE TypeOK'
  BY <1>0, <1>16 DEF Send, Begin, MayCall, Facts, Minima, MadeInv, Working, Steps
<1>17. ASSUME NEW t \in Threads, Broadcast(t) PROVE TypeOK'
  BY <1>0, <1>17 DEF Broadcast, Begin, MayCall, Facts, Minima, MadeInv, Working, Steps
<1>18. ASSUME NEW t \in Threads, Disconnect(t) PROVE TypeOK'
  BY <1>0, <1>18 DEF Disconnect, Begin, MayCall, Facts, Minima, MadeInv, Working, Steps
<1>19. ASSUME NEW t \in Threads, DisconnectAll(t) PROVE TypeOK'
  BY <1>0, <1>19 DEF DisconnectAll, Begin, MayCall, Facts, Minima, MadeInv, Working,
     Steps
<1>20. ASSUME NEW t \in Threads, Destroy(t) PROVE TypeOK'
  BY <1>0, <1>20 DEF Destroy, MayCall, Begin, Leave, Facts, Minima, MadeInv, Working,
     Steps
<1>21. ASSUME NEW t \in IoThreads, ConnectFails(t) PROVE TypeOK'
  BY <1>0, <1>21 DEF ConnectFails, Waiting, Facts, Minima, MadeInv, Working, Steps
<1>22. ASSUME NEW t \in IoThreads, Established(t) PROVE TypeOK'
  BY <1>0, <1>22 DEF Established, Begin, Waiting, Facts, Minima, MadeInv, Working, Steps
<1>23. ASSUME NEW t \in IoThreads, ReadOk(t) PROVE TypeOK'
  BY <1>0, <1>23 DEF ReadOk, Enter, Waiting, Facts, Minima, MadeInv, Working, Steps
<1>24. ASSUME NEW t \in IoThreads, ReadError(t) PROVE TypeOK'
  BY <1>0, <1>24 DEF ReadError, Enter, Waiting, Facts, Minima, MadeInv, Working, Steps
<1>25. ASSUME NEW t \in IoThreads, WriteOk(t) PROVE TypeOK'
  BY <1>0, <1>25 DEF WriteOk, Enter, Waiting, Facts, Minima, MadeInv, Working, Steps
<1>26. ASSUME NEW t \in IoThreads, WriteError(t) PROVE TypeOK'
  BY <1>0, <1>26 DEF WriteError, Enter, Waiting, Facts, Minima, MadeInv, Working, Steps
<1>27. ASSUME NEW t \in IoThreads, Crash(t) PROVE TypeOK'
  BY <1>0, <1>27 DEF Crash, Facts, Minima, MadeInv, Working, Steps
<1>28. CASE PeerFails
  BY <1>0, <1>28 DEF PeerFails, Facts, Minima, MadeInv, Working, Steps
<1> QED
  BY <1>1, <1>2, <1>3, <1>4, <1>5, <1>6, <1>7, <1>8, <1>9, <1>10, <1>11, <1>12, <1>13,
     <1>14, <1>15, <1>16, <1>17, <1>18, <1>19, <1>20, <1>21, <1>22, <1>23, <1>24, <1>25,
     <1>26, <1>27, <1>28 DEF Next, Continue, Call, Complete

\* Connections are made in the order of their ids, and nothing works on one before
\* its async_connect is done.
LEMMA MadeStep ==
  ASSUME TypeOK, MadeInv, ThreadInv, Next, TypeOK'
  PROVE  MadeInv'
<1> USE DEF Facts, Minima, TypeOK, MadeInv, Made, Working, Writes, ThreadInv,
        managerVars, mapVars, linkVars, opVars, threadVars, history
<1>0. Facts /\ TypeOK /\ TypeOK' /\ MadeInv /\ ThreadInv
  BY ConstantFacts
<1>1. ASSUME NEW t \in Threads, Start(t) PROVE MadeInv'
  BY <1>0, <1>1 DEF Start, Leave
<1>2. ASSUME NEW t \in Threads, StartFails(t) PROVE MadeInv'
  BY <1>0, <1>2 DEF StartFails, Leave
<1>3. ASSUME NEW t \in Threads, OnConnectThrows(t) PROVE MadeInv'
  BY <1>0, <1>3 DEF OnConnectThrows, Leave
<1>4. ASSUME NEW t \in Threads, OnConnectBlocks(t) PROVE MadeInv'
  BY <1>0, <1>4 DEF OnConnectBlocks, Goto
<1>5. ASSUME NEW t \in Threads, Answer(t) PROVE MadeInv'
  BY <1>0, <1>5 DEF Answer
<1>6. ASSUME NEW t \in Threads, MessageThrows(t) PROVE MadeInv'
  BY <1>0, <1>6 DEF MessageThrows, Leave
<1>7. ASSUME NEW t \in Threads, Rearm(t) PROVE MadeInv'
  BY <1>0, <1>7 DEF Rearm, Leave
<1>8. ASSUME NEW t \in Threads, SendTo(t) PROVE MadeInv'
  BY <1>0, <1>8 DEF SendTo, Return, Leave
<1>9. ASSUME NEW t \in Threads, CloseNothing(t) PROVE MadeInv'
  BY <1>0, <1>9 DEF CloseNothing, Return, Leave
<1>10. ASSUME NEW t \in Threads, CloseTest(t) PROVE MadeInv'
  BY <1>0, <1>10 DEF CloseTest, Goto
<1>11. ASSUME NEW t \in Threads, Close(t) PROVE MadeInv'
  BY <1>0, <1>11 DEF Close, Goto
<1>12. ASSUME NEW t \in Threads, Erase(t) PROVE MadeInv'
  BY <1>0, <1>12 DEF Erase, Return, Leave
<1>13. ASSUME NEW t \in Threads, Stop(t) PROVE MadeInv'
  BY <1>0, <1>13 DEF Stop
<1>14. ASSUME NEW t \in Threads, Joined(t) PROVE MadeInv'
  BY <1>0, <1>14 DEF Joined, Goto
<1>15. ASSUME NEW t \in Threads, Connect(t) PROVE MadeInv'
  BY <1>0, <1>15 DEF Connect, MayCall
<1>16. ASSUME NEW t \in Threads, Send(t) PROVE MadeInv'
  BY <1>0, <1>16 DEF Send, Begin, MayCall
<1>17. ASSUME NEW t \in Threads, Broadcast(t) PROVE MadeInv'
  BY <1>0, <1>17 DEF Broadcast, Begin, MayCall
<1>18. ASSUME NEW t \in Threads, Disconnect(t) PROVE MadeInv'
  BY <1>0, <1>18 DEF Disconnect, Begin, MayCall
<1>19. ASSUME NEW t \in Threads, DisconnectAll(t) PROVE MadeInv'
  BY <1>0, <1>19 DEF DisconnectAll, Begin, MayCall
<1>20. ASSUME NEW t \in Threads, Destroy(t) PROVE MadeInv'
  BY <1>0, <1>20 DEF Destroy, MayCall, Begin, Leave
<1>21. ASSUME NEW t \in IoThreads, ConnectFails(t) PROVE MadeInv'
  BY <1>0, <1>21 DEF ConnectFails, Waiting
<1>22. ASSUME NEW t \in IoThreads, Established(t) PROVE MadeInv'
  BY <1>0, <1>22 DEF Established, Begin, Waiting
<1>23. ASSUME NEW t \in IoThreads, ReadOk(t) PROVE MadeInv'
  BY <1>0, <1>23 DEF ReadOk, Enter, Waiting
<1>24. ASSUME NEW t \in IoThreads, ReadError(t) PROVE MadeInv'
  BY <1>0, <1>24 DEF ReadError, Enter, Waiting
<1>25. ASSUME NEW t \in IoThreads, WriteOk(t) PROVE MadeInv'
  BY <1>0, <1>25 DEF WriteOk, Enter, Waiting
<1>26. ASSUME NEW t \in IoThreads, WriteError(t) PROVE MadeInv'
  BY <1>0, <1>26 DEF WriteError, Enter, Waiting
<1>27. ASSUME NEW t \in IoThreads, Crash(t) PROVE MadeInv'
  BY <1>0, <1>27 DEF Crash
<1>28. CASE PeerFails
  BY <1>0, <1>28 DEF PeerFails
<1> QED
  BY <1>1, <1>2, <1>3, <1>4, <1>5, <1>6, <1>7, <1>8, <1>9, <1>10, <1>11, <1>12, <1>13,
     <1>14, <1>15, <1>16, <1>17, <1>18, <1>19, <1>20, <1>21, <1>22, <1>23, <1>24, <1>25,
     <1>26, <1>27, <1>28 DEF Next, Continue, Call, Complete

\* Established() takes the mutex, and start() gives it back.
LEMMA ThreadStep ==
  ASSUME TypeOK, MadeInv, ThreadInv, Next, TypeOK'
  PROVE  ThreadInv'
<1> USE DEF Facts, Minima, TypeOK, MadeInv, Working, ThreadInv, managerVars, mapVars,
        linkVars, opVars, threadVars, history
<1>0. Facts /\ TypeOK /\ TypeOK' /\ MadeInv /\ ThreadInv
  BY ConstantFacts
<1>1. ASSUME NEW t \in Threads, Start(t) PROVE ThreadInv'
  BY <1>0, <1>1 DEF Start, Leave
<1>2. ASSUME NEW t \in Threads, StartFails(t) PROVE ThreadInv'
  BY <1>0, <1>2 DEF StartFails, Leave
<1>3. ASSUME NEW t \in Threads, OnConnectThrows(t) PROVE ThreadInv'
  BY <1>0, <1>3 DEF OnConnectThrows, Leave
<1>4. ASSUME NEW t \in Threads, OnConnectBlocks(t) PROVE ThreadInv'
  BY <1>0, <1>4 DEF OnConnectBlocks, Goto
<1>5. ASSUME NEW t \in Threads, Answer(t) PROVE ThreadInv'
  BY <1>0, <1>5 DEF Answer
<1>6. ASSUME NEW t \in Threads, MessageThrows(t) PROVE ThreadInv'
  BY <1>0, <1>6 DEF MessageThrows, Leave
<1>7. ASSUME NEW t \in Threads, Rearm(t) PROVE ThreadInv'
  BY <1>0, <1>7 DEF Rearm, Leave
<1>8. ASSUME NEW t \in Threads, SendTo(t) PROVE ThreadInv'
  BY <1>0, <1>8 DEF SendTo, Return, Leave
<1>9. ASSUME NEW t \in Threads, CloseNothing(t) PROVE ThreadInv'
  BY <1>0, <1>9 DEF CloseNothing, Return, Leave
<1>10. ASSUME NEW t \in Threads, CloseTest(t) PROVE ThreadInv'
  BY <1>0, <1>10 DEF CloseTest, Goto
<1>11. ASSUME NEW t \in Threads, Close(t) PROVE ThreadInv'
  BY <1>0, <1>11 DEF Close, Goto
<1>12. ASSUME NEW t \in Threads, Erase(t) PROVE ThreadInv'
  BY <1>0, <1>12 DEF Erase, Return, Leave
<1>13. ASSUME NEW t \in Threads, Stop(t) PROVE ThreadInv'
  BY <1>0, <1>13 DEF Stop
<1>14. ASSUME NEW t \in Threads, Joined(t) PROVE ThreadInv'
  BY <1>0, <1>14 DEF Joined, Goto
<1>15. ASSUME NEW t \in Threads, Connect(t) PROVE ThreadInv'
  BY <1>0, <1>15 DEF Connect, MayCall
<1>16. ASSUME NEW t \in Threads, Send(t) PROVE ThreadInv'
  BY <1>0, <1>16 DEF Send, Begin, MayCall
<1>17. ASSUME NEW t \in Threads, Broadcast(t) PROVE ThreadInv'
  BY <1>0, <1>17 DEF Broadcast, Begin, MayCall
<1>18. ASSUME NEW t \in Threads, Disconnect(t) PROVE ThreadInv'
  BY <1>0, <1>18 DEF Disconnect, Begin, MayCall
<1>19. ASSUME NEW t \in Threads, DisconnectAll(t) PROVE ThreadInv'
  BY <1>0, <1>19 DEF DisconnectAll, Begin, MayCall
<1>20. ASSUME NEW t \in Threads, Destroy(t) PROVE ThreadInv'
  BY <1>0, <1>20 DEF Destroy, MayCall, Begin, Leave
<1>21. ASSUME NEW t \in IoThreads, ConnectFails(t) PROVE ThreadInv'
  BY <1>0, <1>21 DEF ConnectFails, Waiting
<1>22. ASSUME NEW t \in IoThreads, Established(t) PROVE ThreadInv'
  BY <1>0, <1>22 DEF Established, Begin, Waiting
<1>23. ASSUME NEW t \in IoThreads, ReadOk(t) PROVE ThreadInv'
  BY <1>0, <1>23 DEF ReadOk, Enter, Waiting
<1>24. ASSUME NEW t \in IoThreads, ReadError(t) PROVE ThreadInv'
  BY <1>0, <1>24 DEF ReadError, Enter, Waiting
<1>25. ASSUME NEW t \in IoThreads, WriteOk(t) PROVE ThreadInv'
  BY <1>0, <1>25 DEF WriteOk, Enter, Waiting
<1>26. ASSUME NEW t \in IoThreads, WriteError(t) PROVE ThreadInv'
  BY <1>0, <1>26 DEF WriteError, Enter, Waiting
<1>27. ASSUME NEW t \in IoThreads, Crash(t) PROVE ThreadInv'
  BY <1>0, <1>27 DEF Crash
<1>28. CASE PeerFails
  BY <1>0, <1>28 DEF PeerFails
<1> QED
  BY <1>1, <1>2, <1>3, <1>4, <1>5, <1>6, <1>7, <1>8, <1>9, <1>10, <1>11, <1>12, <1>13,
     <1>14, <1>15, <1>16, <1>17, <1>18, <1>19, <1>20, <1>21, <1>22, <1>23, <1>24, <1>25,
     <1>26, <1>27, <1>28 DEF Next, Continue, Call, Complete

\* Whoever resets connected_ goes on to erase the entry, and an entry is made for
\* start().
LEMMA GhostStep ==
  ASSUME TypeOK, MadeInv, ThreadInv, Next, TypeOK', NoGhost
  PROVE  NoGhost'
<1> USE DEF Facts, TypeOK, NoGhost, Working, MadeInv, ThreadInv, managerVars, mapVars,
        linkVars, opVars, threadVars, history
<1>0. Facts /\ TypeOK /\ TypeOK' /\ MadeInv /\ ThreadInv /\ NoGhost
  BY ConstantFacts
<1>1. ASSUME NEW t \in Threads, Start(t) PROVE NoGhost'
  BY <1>0, <1>1 DEF Start, Leave
<1>2. ASSUME NEW t \in Threads, StartFails(t) PROVE NoGhost'
  BY <1>0, <1>2 DEF StartFails, Leave
<1>3. ASSUME NEW t \in Threads, OnConnectThrows(t) PROVE NoGhost'
  BY <1>0, <1>3 DEF OnConnectThrows, Leave
<1>4. ASSUME NEW t \in Threads, OnConnectBlocks(t) PROVE NoGhost'
  BY <1>0, <1>4 DEF OnConnectBlocks, Goto
<1>5. ASSUME NEW t \in Threads, Answer(t) PROVE NoGhost'
  BY <1>0, <1>5 DEF Answer
<1>6. ASSUME NEW t \in Threads, MessageThrows(t) PROVE NoGhost'
  BY <1>0, <1>6 DEF MessageThrows, Leave
<1>7. ASSUME NEW t \in Threads, Rearm(t) PROVE NoGhost'
  BY <1>0, <1>7 DEF Rearm, Leave
<1>8. ASSUME NEW t \in Threads, SendTo(t) PROVE NoGhost'
  BY <1>0, <1>8 DEF SendTo, Return, Leave
<1>9. ASSUME NEW t \in Threads, CloseNothing(t) PROVE NoGhost'
  BY <1>0, <1>9 DEF CloseNothing, Return, Leave
<1>10. ASSUME NEW t \in Threads, CloseTest(t) PROVE NoGhost'
  BY <1>0, <1>10 DEF CloseTest, Goto
<1>11. ASSUME NEW t \in Threads, Close(t) PROVE NoGhost'
  BY <1>0, <1>11 DEF Close, Goto
<1>12. ASSUME NEW t \in Threads, Erase(t) PROVE NoGhost'
  BY <1>0, <1>12 DEF Erase, Return, Leave
<1>13. ASSUME NEW t \in Threads, Stop(t) PROVE NoGhost'
  BY <1>0, <1>13 DEF Stop
<1>14. ASSUME NEW t \in Threads, Joined(t) PROVE NoGhost'
  BY <1>0, <1>14 DEF Joined, Goto
<1>15. ASSUME NEW t \in Threads, Connect(t) PROVE NoGhost'
  BY <1>0, <1>15 DEF Connect, MayCall
<1>16. ASSUME NEW t \in Threads, Send(t) PROVE NoGhost'
  BY <1>0, <1>16 DEF Send, Begin, MayCall
<1>17. ASSUME NEW t \in Threads, Broadcast(t) PROVE NoGhost'
  BY <1>0, <1>17 DEF Broadcast, Begin, MayCall
<1>18. ASSUME NEW t \in Threads, Disconnect(t) PROVE NoGhost'
  BY <1>0, <1>18 DEF Disconnect, Begin, MayCall
<1>19. ASSUME NEW t \in Threads, DisconnectAll(t) PROVE NoGhost'
  BY <1>0, <1>19 DEF DisconnectAll, Begin, MayCall
<1>20. ASSUME NEW t \in Threads, Destroy(t) PROVE NoGhost'
  BY <1>0, <1>20 DEF Destroy, MayCall, Begin, Leave
<1>21. ASSUME NEW t \in IoThreads, ConnectFails(t) PROVE NoGhost'
  BY <1>0, <1>21 DEF ConnectFails, Waiting
<1>22. ASSUME NEW t \in IoThreads, Established(t) PROVE NoGhost'
  BY <1>0, <1>22 DEF Established, Begin, Waiting, Minima
<1>23. ASSUME NEW t \in IoThreads, ReadOk(t) PROVE NoGhost'
  BY <1>0, <1>23 DEF ReadOk, Enter, Waiting
<1>24. ASSUME NEW t \in IoThreads, ReadError(t) PROVE NoGhost'
  BY <1>0, <1>24 DEF ReadError, Enter, Waiting
<1>25. ASSUME NEW t \in IoThreads, WriteOk(t) PROVE NoGhost'
  BY <1>0, <1>25 DEF WriteOk, Enter, Waiting
<1>26. ASSUME NEW t \in IoThreads, WriteError(t) PROVE NoGhost'
  BY <1>0, <1>26 DEF WriteError, Enter, Waiting
<1>27. ASSUME NEW t \in IoThreads, Crash(t) PROVE NoGhost'
  BY <1>0, <1>27 DEF Crash
<1>28. CASE PeerFails
  BY <1>0, <1>28 DEF PeerFails
<1> QED
  BY <1>1, <1>2, <1>3, <1>4, <1>5, <1>6, <1>7, <1>8, <1>9, <1>10, <1>11, <1>12, <1>13,
     <1>14, <1>15, <1>16, <1>17, <1>18, <1>19, <1>20, <1>21, <1>22, <1>23, <1>24, <1>25,
     <1>26, <1>27, <1>28 DEF Next, Continue, Call, Complete

\* A read is armed by the one handler of the connection as its last action, and the
\* handler of its error, the only one then, is the one that erases the entry.
LEMMA CleanStep ==
  ASSUME TypeOK, MadeInv, ThreadInv, Next, TypeOK', CleanInv
  PROVE  CleanInv'
<1> USE DEF Facts, TypeOK, CleanInv, Handles, Working, Made, Writes, MadeInv, ThreadInv,
        managerVars, mapVars, linkVars, opVars, threadVars, history
<1>0. Facts /\ TypeOK /\ TypeOK' /\ MadeInv /\ ThreadInv /\ CleanInv
  BY ConstantFacts
<1>1. ASSUME NEW t \in Threads, Start(t) PROVE CleanInv'
  BY <1>0, <1>1 DEF Start, Leave
<1>2. ASSUME NEW t \in Threads, StartFails(t) PROVE CleanInv'
  BY <1>0, <1>2 DEF StartFails, Leave
<1>3. ASSUME NEW t \in Threads, OnConnectThrows(t) PROVE CleanInv'
  BY <1>0, <1>3 DEF OnConnectThrows, Leave
<1>4. ASSUME NEW t \in Threads, OnConnectBlocks(t) PROVE CleanInv'
  BY <1>0, <1>4 DEF OnConnectBlocks, Goto
<1>5. ASSUME NEW t \in Threads, Answer(t) PROVE CleanInv'
  BY <1>0, <1>5 DEF Answer
<1>6. ASSUME NEW t \in Threads, MessageThrows(t) PROVE CleanInv'
  BY <1>0, <1>6 DEF MessageThrows, Leave
<1>7. ASSUME NEW t \in Threads, Rearm(t) PROVE CleanInv'
  BY <1>0, <1>7 DEF Rearm, Leave
<1>8. ASSUME NEW t \in Threads, SendTo(t) PROVE CleanInv'
  BY <1>0, <1>8 DEF SendTo, Return, Leave
<1>9. ASSUME NEW t \in Threads, CloseNothing(t) PROVE CleanInv'
  BY <1>0, <1>9 DEF CloseNothing, Return, Leave
<1>10. ASSUME NEW t \in Threads, CloseTest(t) PROVE CleanInv'
  BY <1>0, <1>10 DEF CloseTest, Goto
<1>11. ASSUME NEW t \in Threads, Close(t) PROVE CleanInv'
  BY <1>0, <1>11 DEF Close, Goto
<1>12. ASSUME NEW t \in Threads, Erase(t) PROVE CleanInv'
  BY <1>0, <1>12 DEF Erase, Return, Leave
<1>13. ASSUME NEW t \in Threads, Stop(t) PROVE CleanInv'
  BY <1>0, <1>13 DEF Stop
<1>14. ASSUME NEW t \in Threads, Joined(t) PROVE CleanInv'
  BY <1>0, <1>14 DEF Joined, Goto
<1>15. ASSUME NEW t \in Threads, Connect(t) PROVE CleanInv'
  BY <1>0, <1>15 DEF Connect, MayCall
<1>16. ASSUME NEW t \in Threads, Send(t) PROVE CleanInv'
  BY <1>0, <1>16 DEF Send, Begin, MayCall
<1>17. ASSUME NEW t \in Threads, Broadcast(t) PROVE CleanInv'
  BY <1>0, <1>17 DEF Broadcast, Begin, MayCall
<1>18. ASSUME NEW t \in Threads, Disconnect(t) PROVE CleanInv'
  BY <1>0, <1>18 DEF Disconnect, Begin, MayCall
<1>19. ASSUME NEW t \in Threads, DisconnectAll(t) PROVE CleanInv'
  BY <1>0, <1>19 DEF DisconnectAll, Begin, MayCall
<1>20. ASSUME NEW t \in Threads, Destroy(t) PROVE CleanInv'
  BY <1>0, <1>20 DEF Destroy, MayCall, Begin, Leave
<1>21. ASSUME NEW t \in IoThreads, ConnectFails(t) PROVE CleanInv'
  BY <1>0, <1>21 DEF ConnectFails, Waiting
<1>22. ASSUME NEW t \in IoThreads, Established(t) PROVE CleanInv'
  BY <1>0, <1>22 DEF Established, Begin, Waiting, Minima
<1>23. ASSUME NEW t \in IoThreads, ReadOk(t) PROVE CleanInv'
  BY <1>0, <1>23 DEF ReadOk, Enter, Waiting
<1>24. ASSUME NEW t \in IoThreads, ReadError(t) PROVE CleanInv'
  BY <1>0, <1>24 DEF ReadError, Enter, Waiting
<1>25. ASSUME NEW t \in IoThreads, WriteOk(t) PROVE CleanInv'
  BY <1>0, <1>25 DEF WriteOk, Enter, Waiting
<1>26. ASSUME NEW t \in IoThreads, WriteError(t) PROVE CleanInv'
  BY <1>0, <1>26 DEF WriteError, Enter, Waiting
<1>27. ASSUME NEW t \in IoThreads, Crash(t) PROVE CleanInv'
  BY <1>0, <1>27 DEF Crash
<1>28. CASE PeerFails
  BY <1>0, <1>28 DEF PeerFails
<1> QED
  BY <1>1, <1>2, <1>3, <1>4, <1>5, <1>6, <1>7, <1>8, <1>9, <1>10, <1>11, <1>12, <1>13,
     <1>14, <1>15, <1>16, <1>17, <1>18, <1>19, <1>20, <1>21, <1>22, <1>23, <1>24, <1>25,
     <1>26, <1>27, <1>28 DEF Next, Continue, Call, Complete

\* A connection the destructor passes over was not connected: by NoGhost it is being
\* started or erased, or stays.
LEMMA DestroyStep ==
  ASSUME TypeOK, MadeInv, ThreadInv, Next, TypeOK', NoGhost, DestroyInv
  PROVE  DestroyInv'
<1> USE DEF Facts, TypeOK, DestroyInv, Closes, NoGhost, Working, MadeInv, ThreadInv,
        managerVars, mapVars, linkVars, opVars, threadVars, history
<1>0. Facts /\ TypeOK /\ TypeOK' /\ MadeInv /\ ThreadInv /\ NoGhost /\ DestroyInv
  BY ConstantFacts
<1>1. ASSUME NEW t \in Threads, Start(t) PROVE DestroyInv'
  BY <1>0, <1>1 DEF Start, Leave
<1>2. ASSUME NEW t \in Threads, StartFails(t) PROVE DestroyInv'
  BY <1>0, <1>2 DEF StartFails, Leave
<1>3. ASSUME NEW t \in Threads, OnConnectThrows(t) PROVE DestroyInv'
  BY <1>0, <1>3 DEF OnConnectThrows, Leave
<1>4. ASSUME NEW t \in Threads, OnConnectBlocks(t) PROVE DestroyInv'
  BY <1>0, <1>4 DEF OnConnectBlocks, Goto
<1>5. ASSUME NEW t \in Threads, Answer(t) PROVE DestroyInv'
  BY <1>0, <1>5 DEF Answer
<1>6. ASSUME NEW t \in Threads, MessageThrows(t) PROVE DestroyInv'
  BY <1>0, <1>6 DEF MessageThrows, Leave
<1>7. ASSUME NEW t \in Threads, Rearm(t) PROVE DestroyInv'
  BY <1>0, <1>7 DEF Rearm, Leave
<1>8. ASSUME NEW t \in Threads, SendTo(t) PROVE DestroyInv'
  BY <1>0, <1>8 DEF SendTo, Return, Leave
<1>9. ASSUME NEW t \in Threads, CloseNothing(t) PROVE DestroyInv'
  BY <1>0, <1>9 DEF CloseNothing, Return, Leave
<1>10. ASSUME NEW t \in Threads, CloseTest(t) PROVE DestroyInv'
  BY <1>0, <1>10 DEF CloseTest, Goto
<1>11. ASSUME NEW t \in Threads, Close(t) PROVE DestroyInv'
  BY <1>0, <1>11 DEF Close, Goto
<1>12. ASSUME NEW t \in Threads, Erase(t) PROVE DestroyInv'
  BY SMTT(30), <1>0, <1>12 DEF Erase, Return, Leave
<1>13. ASSUME NEW t \in Threads, Stop(t) PROVE DestroyInv'
  BY <1>0, <1>13 DEF Stop
<1>14. ASSUME NEW t \in Threads, Joined(t) PROVE DestroyInv'
  BY <1>0, <1>14 DEF Joined, Goto
<1>15. ASSUME NEW t \in Threads, Connect(t) PROVE DestroyInv'
  BY <1>0, <1>15 DEF Connect, MayCall
<1>16. ASSUME NEW t \in Threads, Send(t) PROVE DestroyInv'
  BY <1>0, <1>16 DEF Send, Begin, MayCall
<1>17. ASSUME NEW t \in Threads, Broadcast(t) PROVE DestroyInv'
  BY <1>0, <1>17 DEF Broadcast, Begin, MayCall
<1>18. ASSUME NEW t \in Threads, Disconnect(t) PROVE DestroyInv'
  BY <1>0, <1>18 DEF Disconnect, Begin, MayCall
<1>19. ASSUME NEW t \in Threads, DisconnectAll(t) PROVE DestroyInv'
  BY <1>0, <1>19 DEF DisconnectAll, Begin, MayCall
<1>20. ASSUME NEW t \in Threads, Destroy(t) PROVE DestroyInv'
  BY <1>0, <1>20 DEF Destroy, MayCall, Begin, Leave
<1>21. ASSUME NEW t \in IoThreads, ConnectFails(t) PROVE DestroyInv'
  BY <1>0, <1>21 DEF ConnectFails, Waiting
<1>22. ASSUME NEW t \in IoThreads, Established(t) PROVE DestroyInv'
  BY <1>0, <1>22 DEF Established, Begin, Waiting, Minima
<1>23. ASSUME NEW t \in IoThreads, ReadOk(t) PROVE DestroyInv'
  BY <1>0, <1>23 DEF ReadOk, Enter, Waiting
<1>24. ASSUME NEW t \in IoThreads, ReadError(t) PROVE DestroyInv'
  BY <1>0, <1>24 DEF ReadError, Enter, Waiting
<1>25. ASSUME NEW t \in IoThreads, WriteOk(t) PROVE DestroyInv'
  BY <1>0, <1>25 DEF WriteOk, Enter, Waiting
<1>26. ASSUME NEW t \in IoThreads, WriteError(t) PROVE DestroyInv'
  BY <1>0, <1>26 DEF WriteError, Enter, Waiting
<1>27. ASSUME NEW t \in IoThreads, Crash(t) PROVE DestroyInv'
  BY <1>0, <1>27 DEF Crash
<1>28. CASE PeerFails
  BY <1>0, <1>28 DEF PeerFails
<1> QED
  BY <1>1, <1>2, <1>3, <1>4, <1>5, <1>6, <1>7, <1>8, <1>9, <1>10, <1>11, <1>12, <1>13,
     <1>14, <1>15, <1>16, <1>17, <1>18, <1>19, <1>20, <1>21, <1>22, <1>23, <1>24, <1>25,
     <1>26, <1>27, <1>28 DEF Next, Continue, Call, Complete

\* When the threads of the pool have left and the destructor is done with its list,
\* of the entries only those of the exceptions are left.
LEMMA ForgottenStep ==
  ASSUME TypeOK, MadeInv, ThreadInv, Next, TypeOK', DestroyInv, NoneForgotten
  PROVE  NoneForgotten'
<1> USE DEF Facts, TypeOK, NoneForgotten, MadeInv, Working, ThreadInv, managerVars,
        mapVars, linkVars, opVars, threadVars, history
<1>0. Facts /\ TypeOK /\ TypeOK' /\ MadeInv /\ ThreadInv /\ DestroyInv /\ NoneForgotten
  BY ConstantFacts
<1>1. ASSUME NEW t \in Threads, Start(t) PROVE NoneForgotten'
  BY <1>0, <1>1 DEF Start, Leave
<1>2. ASSUME NEW t \in Threads, StartFails(t) PROVE NoneForgotten'
  BY <1>0, <1>2 DEF StartFails, Leave
<1>3. ASSUME NEW t \in Threads, OnConnectThrows(t) PROVE NoneForgotten'
  BY <1>0, <1>3 DEF OnConnectThrows, Leave
<1>4. ASSUME NEW t \in Threads, OnConnectBlocks(t) PROVE NoneForgotten'
  BY <1>0, <1>4 DEF OnConnectBlocks, Goto
<1>5. ASSUME NEW t \in Threads, Answer(t) PROVE NoneForgotten'
  BY <1>0, <1>5 DEF Answer
<1>6. ASSUME NEW t \in Threads, MessageThrows(t) PROVE NoneForgotten'
  BY <1>0, <1>6 DEF MessageThrows, Leave
<1>7. ASSUME NEW t \in Threads, Rearm(t) PROVE NoneForgotten'
  BY <1>0, <1>7 DEF Rearm, Leave
<1>8. ASSUME NEW t \in Threads, SendTo(t) PROVE NoneForgotten'
  BY <1>0, <1>8 DEF SendTo, Return, Leave
<1>9. ASSUME NEW t \in Threads, CloseNothing(t) PROVE NoneForgotten'
  BY <1>0, <1>9 DEF CloseNothing, Return, Leave
<1>10. ASSUME NEW t \in Threads, CloseTest(t) PROVE NoneForgotten'
  BY <1>0, <1>10 DEF CloseTest, Goto
<1>11. ASSUME NEW t \in Threads, Close(t) PROVE NoneForgotten'
  BY <1>0, <1>11 DEF Close, Goto
<1>12. ASSUME NEW t \in Threads, Erase(t) PROVE NoneForgotten'
  BY <1>0, <1>12 DEF Erase, Return, Leave
<1>13. ASSUME NEW t \in Threads, Stop(t) PROVE NoneForgotten'
  BY <1>0, <1>13 DEF Stop
<1>14. ASSUME NEW t \in Threads, Joined(t) PROVE NoneForgotten'
  BY <1>0, <1>14 DEF Joined, Goto, DestroyInv, Closes
<1>15. ASSUME NEW t \in Threads, Connect(t) PROVE NoneForgotten'
  BY <1>0, <1>15 DEF Connect, MayCall
<1>16. ASSUME NEW t \in Threads, Send(t) PROVE NoneForgotten'
  BY <1>0, <1>16 DEF Send, Begin, MayCall
<1>17. ASSUME NEW t \in Threads, Broadcast(t) PROVE NoneForgotten'
  BY <1>0, <1>17 DEF Broadcast, Begin, MayCall
<1>18. ASSUME NEW t \in Threads, Disconnect(t) PROVE NoneForgotten'
  BY <1>0, <1>18 DEF Disconnect, Begin, MayCall
<1>19. ASSUME NEW t \in Threads, DisconnectAll(t) PROVE NoneForgotten'
  BY <1>0, <1>19 DEF DisconnectAll, Begin, MayCall
<1>20. ASSUME NEW t \in Threads, Destroy(t) PROVE NoneForgotten'
  BY <1>0, <1>20 DEF Destroy, MayCall, Begin, Leave
<1>21. ASSUME NEW t \in IoThreads, ConnectFails(t) PROVE NoneForgotten'
  BY <1>0, <1>21 DEF ConnectFails, Waiting
<1>22. ASSUME NEW t \in IoThreads, Established(t) PROVE NoneForgotten'
  BY <1>0, <1>22 DEF Established, Begin, Waiting
<1>23. ASSUME NEW t \in IoThreads, ReadOk(t) PROVE NoneForgotten'
  BY <1>0, <1>23 DEF ReadOk, Enter, Waiting
<1>24. ASSUME NEW t \in IoThreads, ReadError(t) PROVE NoneForgotten'
  BY <1>0, <1>24 DEF ReadError, Enter, Waiting
<1>25. ASSUME NEW t \in IoThreads, WriteOk(t) PROVE NoneForgotten'
  BY <1>0, <1>25 DEF WriteOk, Enter, Waiting
<1>26. ASSUME NEW t \in IoThreads, WriteError(t) PROVE NoneForgotten'
  BY <1>0, <1>26 DEF WriteError, Enter, Waiting
<1>27. ASSUME NEW t \in IoThreads, Crash(t) PROVE NoneForgotten'
  BY <1>0, <1>27 DEF Crash
<1>28. CASE PeerFails
  BY <1>0, <1>28 DEF PeerFails
<1> QED
  BY <1>1, <1>2, <1>3, <1>4, <1>5, <1>6, <1>7, <1>8, <1>9, <1>10, <1>11, <1>12, <1>13,
     <1>14, <1>15, <1>16, <1>17, <1>18, <1>19, <1>20, <1>21, <1>22, <1>23, <1>24, <1>25,
     <1>26, <1>27, <1>28 DEF Next, Continue, Call, Complete

-----------------------------------------------------------------------------
\* There are no connections at first.
LEMMA InitInductive == Init => IInv
<1> SUFFICES ASSUME Init PROVE IInv
  OBVIOUS
<1> USE DEF Init
<1>1. TypeOK
  <2>1. nextId \in 1..(MaxConns + 1)
    BY BoundsAssumption
  <2> QED
    BY <2>1 DEF TypeOK, Steps
<1>2. MadeInv /\ ThreadInv
  BY DEF MadeInv, ThreadInv, Writes, Working, Threads
<1>3. NoGhost /\ CleanInv /\ DestroyInv /\ NoneForgotten
  BY DEF NoGhost, CleanInv, Handles, Working, DestroyInv, NoneForgotten, Threads
<1> QED
  BY <1>1, <1>2, <1>3 DEF IInv

\* Every step keeps the invariant.
LEMMA NextInductive == IInv /\ [Next]_vars => IInv'
<1> SUFFICES ASSUME IInv, [Next]_vars PROVE IInv'
  OBVIOUS
<1>1. CASE Next
  <2>1. TypeOK'
    BY <1>1, TypesStep DEF IInv
  <2> QED
    BY <1>1, <2>1, MadeStep, ThreadStep, GhostStep, CleanStep, DestroyStep,
       ForgottenStep
       DEF IInv
<1>2. CASE UNCHANGED vars
  BY <1>2 DEF vars, IInv, TypeOK, MadeInv, Made, Writes, ThreadInv, NoGhost, CleanInv,
     Handles, DestroyInv, Closes, NoneForgotten
<1> QED
  BY <1>1, <1>2

\* The invariant holds in every behaviour.
LEMMA Invariant == Spec => []IInv
BY InitInductive, NextInductive, PTL DEF Spec

\* The map, the sockets and the places of the threads keep their types, and no call
\* works on a connection that does not exist.
THEOREM TypeCorrect == Spec => []TypeOK
<1>1. IInv => TypeOK
  BY DEF IInv
<1> QED
  BY <1>1, Invariant, PTL

\* However many threads close a connection at once, its entry leaves connections_
\* unless its start() failed or its onConnect threw.
THEOREM GhostCorrect == Spec => []NoGhost
<1>1. IInv => NoGhost
  BY DEF IInv
<1> QED
  BY <1>1, Invariant, PTL

\* A connection that is ended by its own read handler, and by nothing else, is
\* destroyed with no handler left that would run on its memory.
THEOREM CleanCorrect == Spec => []QuietEndIsClean
<1>1. IInv => QuietEndIsClean
  <2> SUFFICES ASSUME IInv, NEW c \in Conns \ foreign, ~Alive(c)
               PROVE  ~reading[c] /\ ~Writes(c) /\ \A t \in IoThreads : ~UsesRaw(t, c)
    BY DEF QuietEndIsClean
  <2>1. c \notin connections
    BY DEF Alive
  <2> QED
    BY <2>1 DEF IInv, CleanInv, Writes, UsesRaw, Handles, Working
<1> QED
  BY <1>1, Invariant, PTL

\* When the destructor returns, the event handler has heard of the end of every
\* connection it heard of, but for those that were established after the destructor
\* had looked at the map and those whose onConnect threw.
THEOREM ForgottenCorrect == Spec => []NoneForgotten
<1>1. IInv => NoneForgotten
  BY DEF IInv
<1> QED
  BY <1>1, Invariant, PTL
=============================================================================
