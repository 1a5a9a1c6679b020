------------------------ MODULE NetworkClientProofs ------------------------
(***************************************************************************)
(* Proofs about NetworkClient for every number of io threads and           *)
(* connections: "connected" is only shown for a connection that is alive,  *)
(* and a live connection belongs to the client.                            *)
(***************************************************************************)
EXTENDS NetworkClient, TLAPS

\* The parts of a callback or of disconnect().
OnConnectSteps == {"compare", "setConnected", "arm"}
ClosingSteps   == {"close", "flag"}
ClosedSteps    == {"erase", "match", "clearConnected", "clearId"}
DisconnectSteps == {"disconnect", "manager", "resetId", "resetConnected"}
                     \cup ClosingSteps \cup ClosedSteps

-----------------------------------------------------------------------------
(* What holds of the threads whatever the user does *)

\* onConnect runs with connectionsMutex_ locked, and in io threads only.
MutexInv ==
  \A t \in Threads :
    /\ pc[t] \in OnConnectSteps => t \in IoThreads /\ connMutex = t
    /\ pc[t] \in UiSteps => t = Ui

\* A thread works on a connection that has been established, and has seen its
\* end when it reports it.
WorkInv ==
  \A t \in Threads :
    /\ pc[t] \in OnConnectSteps \cup ClosingSteps \cup ClosedSteps => at[t] \in ConnIds
    /\ pc[t] \in ClosingSteps => link[at[t]] \in {"up", "down"}
    /\ pc[t] \in ClosedSteps => link[at[t]] = "down"

\* As long as onConnect runs, no other callback about the connection does, and
\* disconnect() has not found it.
AloneInv ==
  \A t \in IoThreads : pc[t] \in OnConnectSteps =>
    /\ link[at[t]] = "up" /\ ~armed[at[t]]
    /\ \A u \in IoThreads \ {t} : at[u] # at[t]
    /\ pc[Ui] \in ClosingSteps \cup ClosedSteps => at[Ui] # at[t]

\* Nothing happens on a connection that was never established, and a live one
\* is in the map.
LinkInv ==
  \A c \in ConnIds :
    /\ link[c] \in {"none", "connecting", "failed"} =>
         ~inMap[c] /\ ~armed[c] /\ \A t \in IoThreads : at[t] # c
    /\ link[c] = "up" => inMap[c]

\* connectionId_ names a connection that exists, and gets a new one's id only
\* when connect() returns.
IdInv ==
  /\ connId \in ConnIds => link[connId] # "none"
  /\ pc[Ui] = "store" /\ at[Ui] \in ConnIds => link[at[Ui]] # "none" /\ connId # at[Ui]
  /\ pc[Ui] = "manager" => at[Ui] \in ConnIds

\* Once the window is closed, the thread only disconnects.
QuitInv == Quitting => pc[Ui] \in DisconnectSteps \cup {"destroy", "quit"}

Basics == TypeOK /\ MutexInv /\ WorkInv /\ AloneInv /\ LinkInv /\ IdInv /\ QuitInv

-----------------------------------------------------------------------------
(* What holds as long as connect() waits for what was there before, and the *)
(* client is not being destroyed *)

Sane == ~mixed /\ ~Quitting

\* Nothing that matters is still to come of the connection.
Dead(c) ==
  /\ link[c] \in {"none", "down", "failed"}
  /\ \A t \in IoThreads : at[t] = c => pc[t] = "close"

\* One connection at most is not dead, and connect() stores the id of none
\* but that one.
OneAlive ==
  /\ \A c, d \in ConnIds : c # d => Dead(c) \/ Dead(d)
  /\ pc[Ui] = "store" => \A c \in ConnIds : c # at[Ui] => Dead(c)

\* onDisconnect is going to reset connected_ for the connection.
Clearing(c) ==
  \/ \E t \in Threads : at[t] = c /\ pc[t] \in {"erase", "match", "clearConnected"}
  \/ pc[Ui] = "resetId" /\ at[Ui] = c

\* connected_ is not set before onConnect sets it, and not once it was reset.
ConnectedInv ==
  /\ connected => \/ pc[Ui] = "resetConnected"
                  \/ connId \in ConnIds /\ (link[connId] = "up" \/ Clearing(connId))
  /\ \A c \in ConnIds : link[c] = "connecting" => ~connected
  /\ \A t \in Threads : pc[t] \in {"compare", "setConnected", "clearId"} => ~connected
  /\ pc[Ui] = "store" => ~connected

\* disconnect() runs only when nothing is being connected.
DisconnectInv ==
  pc[Ui] \in DisconnectSteps =>
    /\ \A c \in ConnIds : link[c] # "connecting"
    /\ \A t \in IoThreads : pc[t] \notin {"compare", "setConnected"}

\* onConnect finds the id, unless it has overtaken connect().
FoundInv ==
  /\ \A c \in ConnIds : link[c] = "connecting" =>
       connId = c \/ (pc[Ui] = "store" /\ at[Ui] = c)
  /\ \A t \in IoThreads :
       /\ pc[t] = "compare" => connId = at[t] \/ (pc[Ui] = "store" /\ at[Ui] = at[t])
       /\ pc[t] = "setConnected" => connId = at[t]

\* A live connection is shown, and is the one that disconnect() works on.
ShownInv ==
  \A c \in ConnIds :
    link[c] = "up" /\ c \notin overtaken
      /\ (\A t \in IoThreads : at[t] = c => pc[t] \notin {"compare", "setConnected"}) =>
    /\ connId = c /\ connected
    /\ pc[Ui] \in ClosingSteps \cup ClosedSteps \cup {"manager"} => at[Ui] = c
    /\ pc[Ui] \notin {"resetId", "resetConnected"}

SaneInv == OneAlive /\ ConnectedInv /\ DisconnectInv /\ FoundInv /\ ShownInv

IInv == Basics /\ (Sane => SaneInv)

-----------------------------------------------------------------------------
\* 0 is no connection.
LEMMA Ids == 0 \notin ConnIds /\ \A c \in ConnIds \cup {0} : c > 0 <=> c \in ConnIds
BY BoundsAssumption DEF ConnIds

\* Nothing is connected at first.
LEMMA InitInductive == Init => IInv
<1> SUFFICES ASSUME Init PROVE IInv
  OBVIOUS
<1> USE DEF Init
<1>1. Basics
  <2>1. TypeOK
    BY DEF TypeOK, LinkStates, Steps
  <2>2. MutexInv /\ WorkInv /\ AloneInv
    BY DEF MutexInv, WorkInv, AloneInv, OnConnectSteps, ClosingSteps, ClosedSteps,
       UiSteps,
       Threads
  <2>3. LinkInv /\ IdInv /\ QuitInv
    BY Ids, ThreadsAssumption DEF LinkInv, IdInv, QuitInv, Quitting, Threads
  <2> QED
    BY <2>1, <2>2, <2>3 DEF Basics
<1>2. SaneInv
  <2>1. OneAlive
    BY Ids DEF OneAlive, Dead, Threads
  <2>2. ConnectedInv /\ DisconnectInv /\ FoundInv /\ ShownInv
    BY DEF ConnectedInv, DisconnectInv, FoundInv, ShownInv, DisconnectSteps,
       ClosingSteps,
       ClosedSteps, Threads
  <2> QED
    BY <2>1, <2>2 DEF SaneInv
<1> QED
  BY <1>1, <1>2 DEF IInv

-----------------------------------------------------------------------------
(* The steps, one action at a time *)

\* What the constants give: the thread of the user interface is no io thread,
\* and 0 is no connection.
Facts ==
  /\ Ui \notin IoThreads /\ None \notin Threads
  /\ 0 \notin ConnIds /\ \A c \in ConnIds \cup {0} : c > 0 <=> c \in ConnIds

\* Types are kept.
LEMMA TypesStep ==
  ASSUME Basics, Next
  PROVE  TypeOK'
<1> USE DEF TypeOK, Goto, Move, Return, netVars, history
<1>0. TypeOK /\ MutexInv /\ WorkInv /\ Ui \in Threads /\ IoThreads \subseteq Threads
  BY DEF Basics, Threads
<1> HIDE DEF Threads
<1>1. CASE Look
  BY <1>0, <1>1 DEF Look, Steps, LinkStates, UiSteps
<1>2. CASE PressConnect
  BY <1>0, <1>2 DEF PressConnect, Steps, LinkStates, UiSteps
<1>3. CASE PressDisconnect
  BY <1>0, <1>3 DEF PressDisconnect, Steps, LinkStates, UiSteps
<1>4. CASE PressNothing
  BY <1>0, <1>4 DEF PressNothing, Steps, LinkStates, UiSteps
<1>5. CASE Quit
  BY <1>0, <1>5 DEF Quit, Steps, LinkStates, UiSteps
<1>6. CASE Destroy
  BY <1>0, <1>6 DEF Destroy, Steps, LinkStates, UiSteps
<1>7. CASE ConnectTest
  BY <1>0, <1>7 DEF ConnectTest, Steps, LinkStates, UiSteps
<1>8. CASE ConnectCall
  BY <1>0, <1>8 DEF ConnectCall, Steps, LinkStates, UiSteps
<1>9. CASE Store
  BY <1>0, <1>9 DEF Store, Steps, LinkStates, UiSteps
<1>10. CASE DisconnectTest
  BY <1>0, <1>10 DEF DisconnectTest, Steps, LinkStates, UiSteps
<1>11. CASE ManagerDisconnect
  BY <1>0, <1>11 DEF ManagerDisconnect, Steps, LinkStates, UiSteps
<1>12. CASE ResetId
  BY <1>0, <1>12 DEF ResetId, Steps, LinkStates, UiSteps
<1>13. CASE ResetConnected
  BY <1>0, <1>13 DEF ResetConnected, Steps, LinkStates, UiSteps
<1>14. ASSUME NEW t \in Threads, Compare(t) PROVE TypeOK'
  BY <1>0, <1>14 DEF Compare, Steps, UiSteps, WorkInv, OnConnectSteps
<1>15. ASSUME NEW t \in Threads, SetConnected(t) PROVE TypeOK'
  BY <1>0, <1>15 DEF SetConnected, Steps, LinkStates, UiSteps
<1>16. ASSUME NEW t \in Threads, Arm(t) PROVE TypeOK'
  BY <1>0, <1>16 DEF Arm, Steps, LinkStates, UiSteps, MutexInv, OnConnectSteps,
     AfterClose
<1>17. ASSUME NEW t \in Threads, Close(t) PROVE TypeOK'
  BY <1>0, <1>17 DEF Close, Steps, LinkStates, UiSteps, MutexInv, OnConnectSteps,
     AfterClose
<1>18. ASSUME NEW t \in Threads, CloseFlag(t) PROVE TypeOK'
  BY <1>0, <1>18 DEF CloseFlag, Steps, LinkStates, UiSteps, MutexInv, OnConnectSteps,
     AfterClose
<1>19. ASSUME NEW t \in Threads, EraseConnection(t) PROVE TypeOK'
  BY <1>0, <1>19 DEF EraseConnection, Steps, LinkStates, UiSteps, MutexInv,
     OnConnectSteps, AfterClose
<1>20. ASSUME NEW t \in Threads, Match(t) PROVE TypeOK'
  BY <1>0, <1>20 DEF Match, Steps, LinkStates, UiSteps, MutexInv, OnConnectSteps,
     AfterClose
<1>21. ASSUME NEW t \in Threads, ClearConnected(t) PROVE TypeOK'
  BY <1>0, <1>21 DEF ClearConnected, Steps, LinkStates, UiSteps, MutexInv,
     OnConnectSteps, AfterClose
<1>22. ASSUME NEW t \in Threads, ClearId(t) PROVE TypeOK'
  BY <1>0, <1>22 DEF ClearId, Steps, LinkStates, UiSteps, MutexInv, OnConnectSteps,
     AfterClose
<1>23. ASSUME NEW t \in Threads, ConnectFails(t) PROVE TypeOK'
  BY <1>0, <1>23 DEF ConnectFails, Steps, LinkStates, UiSteps, MutexInv, OnConnectSteps,
     AfterClose
<1>24. ASSUME NEW t \in Threads, Established(t) PROVE TypeOK'
  BY <1>0, <1>24 DEF Established, Steps, LinkStates, UiSteps, MutexInv, OnConnectSteps,
     AfterClose
<1>25. ASSUME NEW t \in Threads, ReadError(t) PROVE TypeOK'
  BY <1>0, <1>25 DEF ReadError, Steps, LinkStates, UiSteps, MutexInv, OnConnectSteps,
     AfterClose
<1> QED
  BY <1>1, <1>2, <1>3, <1>4, <1>5, <1>6, <1>7, <1>8, <1>9, <1>10, <1>11, <1>12, <1>13,
       <1>14, <1>15, <1>16, <1>17, <1>18, <1>19, <1>20, <1>21, <1>22, <1>23, <1>24,
            <1>25 DEF Next, Frame, UiStep, Callback, Complete

\* onConnect stays in its io thread, with the mutex.
LEMMA MutexStep ==
  ASSUME Basics, Next
  PROVE  MutexInv'
<1> USE DEF Basics, TypeOK, Goto, Move, Return, netVars, history, Threads,
        OnConnectSteps, UiSteps, MutexInv
<1> USE ThreadsAssumption
<1>1. CASE Frame
  BY <1>1 DEF Frame, Look, PressConnect, PressDisconnect, PressNothing, Quit, Destroy
<1>2. CASE UiStep
  BY <1>2 DEF UiStep, ConnectTest, ConnectCall, Store, DisconnectTest,
     ManagerDisconnect, ResetId, ResetConnected
<1>3. ASSUME NEW t \in Threads, Callback(t) PROVE MutexInv'
  BY <1>3 DEF Callback, Compare, SetConnected, Arm, Close, CloseFlag, EraseConnection,
     Match, ClearConnected, ClearId, AfterClose
<1>4. ASSUME NEW t \in Threads, Complete(t) PROVE MutexInv'
  BY <1>4 DEF Complete, ConnectFails, Established, ReadError
<1> QED
  BY <1>1, <1>2, <1>3, <1>4 DEF Next

\* A callback takes up a connection that is established, or armed; disconnect()
\* takes up one it has found in the map.
LEMMA WorkStep ==
  ASSUME Basics, TypeOK', Next
  PROVE  WorkInv'
<1> USE DEF Facts, Basics, TypeOK, Goto, Move, Return, netVars, history, Threads,
        OnConnectSteps, ClosingSteps, ClosedSteps, UiSteps, MutexInv, WorkInv, AloneInv,
        IdInv, LinkInv
<1>0. Facts /\ TypeOK /\ TypeOK' /\ MutexInv /\ WorkInv /\ AloneInv /\ LinkInv /\ IdInv
     /\ QuitInv
  BY Ids, ThreadsAssumption DEF Basics, Facts
<1>1. CASE Frame
  BY <1>0, <1>1 DEF Frame, Look, PressConnect, PressDisconnect, PressNothing, Quit,
     Destroy
<1>2. CASE ConnectTest
  BY <1>0, <1>2 DEF ConnectTest
<1>3. CASE ConnectCall
  BY <1>0, <1>3 DEF ConnectCall, Over
<1>4. CASE Store
  BY <1>0, <1>4 DEF Store
<1>5. CASE DisconnectTest
  BY <1>0, <1>5 DEF DisconnectTest
<1>6. CASE ManagerDisconnect
  BY <1>0, <1>6 DEF ManagerDisconnect, LinkStates
<1>7. CASE ResetId
  BY <1>0, <1>7 DEF ResetId
<1>8. CASE ResetConnected
  BY <1>0, <1>8 DEF ResetConnected
<1>9. ASSUME NEW t \in Threads, Compare(t) PROVE WorkInv'
  BY <1>0, <1>9 DEF Compare
<1>10. ASSUME NEW t \in Threads, SetConnected(t) PROVE WorkInv'
  BY <1>0, <1>10 DEF SetConnected
<1>11. ASSUME NEW t \in Threads, Arm(t) PROVE WorkInv'
  BY <1>0, <1>11 DEF Arm
<1>12. ASSUME NEW t \in Threads, Close(t) PROVE WorkInv'
  BY <1>0, <1>12 DEF Close, AfterClose
<1>13. ASSUME NEW t \in Threads, CloseFlag(t) PROVE WorkInv'
  BY <1>0, <1>13 DEF CloseFlag
<1>14. ASSUME NEW t \in Threads, EraseConnection(t) PROVE WorkInv'
  BY <1>0, <1>14 DEF EraseConnection
<1>15. ASSUME NEW t \in Threads, Match(t) PROVE WorkInv'
  BY <1>0, <1>15 DEF Match, AfterClose
<1>16. ASSUME NEW t \in Threads, ClearConnected(t) PROVE WorkInv'
  BY <1>0, <1>16 DEF ClearConnected
<1>17. ASSUME NEW t \in Threads, ClearId(t) PROVE WorkInv'
  BY <1>0, <1>17 DEF ClearId, AfterClose
<1>18. ASSUME NEW t \in Threads, ConnectFails(t) PROVE WorkInv'
  BY <1>0, <1>18 DEF ConnectFails
<1>19. ASSUME NEW t \in Threads, Established(t) PROVE WorkInv'
  BY <1>0, <1>19 DEF Established
<1>20. ASSUME NEW t \in Threads, ReadError(t) PROVE WorkInv'
  BY <1>0, <1>20 DEF ReadError, LinkStates
<1> QED
  BY <1>1, <1>2, <1>3, <1>4, <1>5, <1>6, <1>7, <1>8, <1>9, <1>10, <1>11, <1>12, <1>13,
       <1>14, <1>15, <1>16, <1>17, <1>18, <1>19, <1>20 DEF Next, UiStep, Callback,
            Complete

\* onConnect keeps connectionsMutex_: disconnect() cannot find the connection,
\* and its first read is not armed before onConnect is over.
LEMMA AloneStep ==
  ASSUME Basics, TypeOK', Next
  PROVE  AloneInv'
<1> USE DEF Facts, Basics, TypeOK, Goto, Move, Return, netVars, history, Threads,
        OnConnectSteps, ClosingSteps, ClosedSteps, UiSteps, MutexInv, WorkInv, AloneInv,
        IdInv, LinkInv
<1>0. Facts /\ TypeOK /\ TypeOK' /\ MutexInv /\ WorkInv /\ AloneInv /\ LinkInv /\ IdInv
     /\ QuitInv
  BY Ids, ThreadsAssumption DEF Basics, Facts
<1>1. CASE Frame
  BY <1>0, <1>1 DEF Frame, Look, PressConnect, PressDisconnect, PressNothing, Quit,
     Destroy
<1>2. CASE ConnectTest
  BY <1>0, <1>2 DEF ConnectTest
<1>3. CASE ConnectCall
  BY <1>0, <1>3 DEF ConnectCall, Over
<1>4. CASE Store
  BY <1>0, <1>4 DEF Store
<1>5. CASE DisconnectTest
  BY <1>0, <1>5 DEF DisconnectTest
<1>6. CASE ManagerDisconnect
  BY <1>0, <1>6 DEF ManagerDisconnect, LinkStates
<1>7. CASE ResetId
  BY <1>0, <1>7 DEF ResetId
<1>8. CASE ResetConnected
  BY <1>0, <1>8 DEF ResetConnected
<1>9. ASSUME NEW t \in Threads, Compare(t) PROVE AloneInv'
  BY <1>0, <1>9 DEF Compare
<1>10. ASSUME NEW t \in Threads, SetConnected(t) PROVE AloneInv'
  BY <1>0, <1>10 DEF SetConnected
<1>11. ASSUME NEW t \in Threads, Arm(t) PROVE AloneInv'
  BY <1>0, <1>11 DEF Arm
<1>12. ASSUME NEW t \in Threads, Close(t) PROVE AloneInv'
  BY <1>0, <1>12 DEF Close, AfterClose
<1>13. ASSUME NEW t \in Threads, CloseFlag(t) PROVE AloneInv'
  BY <1>0, <1>13 DEF CloseFlag
<1>14. ASSUME NEW t \in Threads, EraseConnection(t) PROVE AloneInv'
  BY <1>0, <1>14 DEF EraseConnection
<1>15. ASSUME NEW t \in Threads, Match(t) PROVE AloneInv'
  BY <1>0, <1>15 DEF Match, AfterClose
<1>16. ASSUME NEW t \in Threads, ClearConnected(t) PROVE AloneInv'
  BY <1>0, <1>16 DEF ClearConnected
<1>17. ASSUME NEW t \in Threads, ClearId(t) PROVE AloneInv'
  BY <1>0, <1>17 DEF ClearId, AfterClose
<1>18. ASSUME NEW t \in Threads, ConnectFails(t) PROVE AloneInv'
  BY <1>0, <1>18 DEF ConnectFails
<1>19. ASSUME NEW t \in Threads, Established(t) PROVE AloneInv'
  BY <1>0, <1>19 DEF Established
<1>20. ASSUME NEW t \in Threads, ReadError(t) PROVE AloneInv'
  BY <1>0, <1>20 DEF ReadError, LinkStates
<1> QED
  BY <1>1, <1>2, <1>3, <1>4, <1>5, <1>6, <1>7, <1>8, <1>9, <1>10, <1>11, <1>12, <1>13,
       <1>14, <1>15, <1>16, <1>17, <1>18, <1>19, <1>20 DEF Next, UiStep, Callback,
            Complete

\* A live connection stays in the map.
LEMMA LinkStep ==
  ASSUME Basics, TypeOK', Next
  PROVE  LinkInv'
<1> USE DEF Facts, Basics, TypeOK, Goto, Move, Return, netVars, history, Threads,
        OnConnectSteps, ClosingSteps, ClosedSteps, UiSteps, MutexInv, WorkInv, AloneInv,
        IdInv, LinkInv
<1>0. Facts /\ TypeOK /\ TypeOK' /\ MutexInv /\ WorkInv /\ AloneInv /\ LinkInv /\ IdInv
     /\ QuitInv
  BY Ids, ThreadsAssumption DEF Basics, Facts
<1>1. CASE Frame
  BY <1>0, <1>1 DEF Frame, Look, PressConnect, PressDisconnect, PressNothing, Quit,
     Destroy
<1>2. CASE ConnectTest
  BY <1>0, <1>2 DEF ConnectTest
<1>3. CASE ConnectCall
  BY <1>0, <1>3 DEF ConnectCall, Over
<1>4. CASE Store
  BY <1>0, <1>4 DEF Store
<1>5. CASE DisconnectTest
  BY <1>0, <1>5 DEF DisconnectTest
<1>6. CASE ManagerDisconnect
  BY <1>0, <1>6 DEF ManagerDisconnect, LinkStates
<1>7. CASE ResetId
  BY <1>0, <1>7 DEF ResetId
<1>8. CASE ResetConnected
  BY <1>0, <1>8 DEF ResetConnected
<1>9. ASSUME NEW t \in Threads, Compare(t) PROVE LinkInv'
  BY <1>0, <1>9 DEF Compare
<1>10. ASSUME NEW t \in Threads, SetConnected(t) PROVE LinkInv'
  BY <1>0, <1>10 DEF SetConnected
<1>11. ASSUME NEW t \in Threads, Arm(t) PROVE LinkInv'
  BY <1>0, <1>11 DEF Arm
<1>12. ASSUME NEW t \in Threads, Close(t) PROVE LinkInv'
  BY <1>0, <1>12 DEF Close, AfterClose
<1>13. ASSUME NEW t \in Threads, CloseFlag(t) PROVE LinkInv'
  BY <1>0, <1>13 DEF CloseFlag
<1>14. ASSUME NEW t \in Threads, EraseConnection(t) PROVE LinkInv'
  BY <1>0, <1>14 DEF EraseConnection
<1>15. ASSUME NEW t \in Threads, Match(t) PROVE LinkInv'
  BY <1>0, <1>15 DEF Match, AfterClose
<1>16. ASSUME NEW t \in Threads, ClearConnected(t) PROVE LinkInv'
  BY <1>0, <1>16 DEF ClearConnected
<1>17. ASSUME NEW t \in Threads, ClearId(t) PROVE LinkInv'
  BY <1>0, <1>17 DEF ClearId, AfterClose
<1>18. ASSUME NEW t \in Threads, ConnectFails(t) PROVE LinkInv'
  BY <1>0, <1>18 DEF ConnectFails
<1>19. ASSUME NEW t \in Threads, Established(t) PROVE LinkInv'
  BY <1>0, <1>19 DEF Established
<1>20. ASSUME NEW t \in Threads, ReadError(t) PROVE LinkInv'
  BY <1>0, <1>20 DEF ReadError, LinkStates
<1> QED
  BY <1>1, <1>2, <1>3, <1>4, <1>5, <1>6, <1>7, <1>8, <1>9, <1>10, <1>11, <1>12, <1>13,
       <1>14, <1>15, <1>16, <1>17, <1>18, <1>19, <1>20 DEF Next, UiStep, Callback,
            Complete

\* The stored id is that of a connection that was made.
LEMMA IdStep ==
  ASSUME Basics, TypeOK', Next
  PROVE  IdInv'
<1> USE DEF Facts, Basics, TypeOK, Goto, Move, Return, netVars, history, Threads,
        OnConnectSteps, ClosingSteps, ClosedSteps, UiSteps, MutexInv, WorkInv, AloneInv,
        IdInv, LinkInv
<1>0. Facts /\ TypeOK /\ TypeOK' /\ MutexInv /\ WorkInv /\ AloneInv /\ LinkInv /\ IdInv
     /\ QuitInv
  BY Ids, ThreadsAssumption DEF Basics, Facts
<1>1. CASE Frame
  BY <1>0, <1>1 DEF Frame, Look, PressConnect, PressDisconnect, PressNothing, Quit,
     Destroy
<1>2. CASE ConnectTest
  BY <1>0, <1>2 DEF ConnectTest
<1>3. CASE ConnectCall
  BY <1>0, <1>3 DEF ConnectCall, Over
<1>4. CASE Store
  BY <1>0, <1>4 DEF Store
<1>5. CASE DisconnectTest
  BY <1>0, <1>5 DEF DisconnectTest
<1>6. CASE ManagerDisconnect
  BY <1>0, <1>6 DEF ManagerDisconnect, LinkStates
<1>7. CASE ResetId
  BY <1>0, <1>7 DEF ResetId
<1>8. CASE ResetConnected
  BY <1>0, <1>8 DEF ResetConnected
<1>9. ASSUME NEW t \in Threads, Compare(t) PROVE IdInv'
  BY <1>0, <1>9 DEF Compare
<1>10. ASSUME NEW t \in Threads, SetConnected(t) PROVE IdInv'
  BY <1>0, <1>10 DEF SetConnected
<1>11. ASSUME NEW t \in Threads, Arm(t) PROVE IdInv'
  BY <1>0, <1>11 DEF Arm
<1>12. ASSUME NEW t \in Threads, Close(t) PROVE IdInv'
  BY <1>0, <1>12 DEF Close, AfterClose
<1>13. ASSUME NEW t \in Threads, CloseFlag(t) PROVE IdInv'
  BY <1>0, <1>13 DEF CloseFlag
<1>14. ASSUME NEW t \in Threads, EraseConnection(t) PROVE IdInv'
  BY <1>0, <1>14 DEF EraseConnection
<1>15. ASSUME NEW t \in Threads, Match(t) PROVE IdInv'
  BY <1>0, <1>15 DEF Match, AfterClose
<1>16. ASSUME NEW t \in Threads, ClearConnected(t) PROVE IdInv'
  BY <1>0, <1>16 DEF ClearConnected
<1>17. ASSUME NEW t \in Threads, ClearId(t) PROVE IdInv'
  BY <1>0, <1>17 DEF ClearId, AfterClose
<1>18. ASSUME NEW t \in Threads, ConnectFails(t) PROVE IdInv'
  BY <1>0, <1>18 DEF ConnectFails
<1>19. ASSUME NEW t \in Threads, Established(t) PROVE IdInv'
  BY <1>0, <1>19 DEF Established
<1>20. ASSUME NEW t \in Threads, ReadError(t) PROVE IdInv'
  BY <1>0, <1>20 DEF ReadError, LinkStates
<1> QED
  BY <1>1, <1>2, <1>3, <1>4, <1>5, <1>6, <1>7, <1>8, <1>9, <1>10, <1>11, <1>12, <1>13,
       <1>14, <1>15, <1>16, <1>17, <1>18, <1>19, <1>20 DEF Next, UiStep, Callback,
            Complete

\* After the window is closed its thread only disconnects.
LEMMA QuitStep ==
  ASSUME Basics, TypeOK', Next
  PROVE  QuitInv'
<1> USE DEF Facts, Basics, TypeOK, Goto, Move, Return, netVars, history, Threads,
        OnConnectSteps, ClosingSteps, ClosedSteps, UiSteps, MutexInv, QuitInv, Quitting,
        DisconnectSteps
<1>0. Facts /\ TypeOK /\ TypeOK' /\ MutexInv /\ WorkInv /\ AloneInv /\ LinkInv /\ IdInv
     /\ QuitInv
  BY Ids, ThreadsAssumption DEF Basics, Facts
<1>1. CASE Frame
  BY <1>0, <1>1 DEF Frame, Look, PressConnect, PressDisconnect, PressNothing, Quit,
     Destroy
<1>2. CASE ConnectTest
  BY <1>0, <1>2 DEF ConnectTest
<1>3. CASE ConnectCall
  BY <1>0, <1>3 DEF ConnectCall, Over
<1>4. CASE Store
  BY <1>0, <1>4 DEF Store
<1>5. CASE DisconnectTest
  BY <1>0, <1>5 DEF DisconnectTest
<1>6. CASE ManagerDisconnect
  BY <1>0, <1>6 DEF ManagerDisconnect
<1>7. CASE ResetId
  BY <1>0, <1>7 DEF ResetId
<1>8. CASE ResetConnected
  BY <1>0, <1>8 DEF ResetConnected
<1>9. ASSUME NEW t \in Threads, Compare(t) PROVE QuitInv'
  BY <1>0, <1>9 DEF Compare
<1>10. ASSUME NEW t \in Threads, SetConnected(t) PROVE QuitInv'
  BY <1>0, <1>10 DEF SetConnected
<1>11. ASSUME NEW t \in Threads, Arm(t) PROVE QuitInv'
  BY <1>0, <1>11 DEF Arm
<1>12. ASSUME NEW t \in Threads, Close(t) PROVE QuitInv'
  BY <1>0, <1>12 DEF Close, AfterClose
<1>13. ASSUME NEW t \in Threads, CloseFlag(t) PROVE QuitInv'
  BY <1>0, <1>13 DEF CloseFlag
<1>14. ASSUME NEW t \in Threads, EraseConnection(t) PROVE QuitInv'
  BY <1>0, <1>14 DEF EraseConnection
<1>15. ASSUME NEW t \in Threads, Match(t) PROVE QuitInv'
  BY <1>0, <1>15 DEF Match, AfterClose
<1>16. ASSUME NEW t \in Threads, ClearConnected(t) PROVE QuitInv'
  BY <1>0, <1>16 DEF ClearConnected
<1>17. ASSUME NEW t \in Threads, ClearId(t) PROVE QuitInv'
  BY <1>0, <1>17 DEF ClearId, AfterClose
<1>18. ASSUME NEW t \in Threads, ConnectFails(t) PROVE QuitInv'
  BY <1>0, <1>18 DEF ConnectFails
<1>19. ASSUME NEW t \in Threads, Established(t) PROVE QuitInv'
  BY <1>0, <1>19 DEF Established
<1>20. ASSUME NEW t \in Threads, ReadError(t) PROVE QuitInv'
  BY <1>0, <1>20 DEF ReadError
<1> QED
  BY <1>1, <1>2, <1>3, <1>4, <1>5, <1>6, <1>7, <1>8, <1>9, <1>10, <1>11, <1>12, <1>13,
       <1>14, <1>15, <1>16, <1>17, <1>18, <1>19, <1>20 DEF Next, UiStep, Callback,
            Complete

\* What has gone wrong stays so: the exceptions are permanent.
LEMMA SaneStep ==
  ASSUME Basics, Next, Sane'
  PROVE  Sane
<1> USE DEF Sane, Quitting, QuitInv, DisconnectSteps, ClosingSteps, ClosedSteps,
        netVars, history
<1>0. QuitInv
  BY DEF Basics
<1>1. CASE Frame
  BY <1>0, <1>1 DEF Frame, Look, PressConnect, PressDisconnect, PressNothing, Quit,
     Destroy
<1>2. CASE UiStep
  <2>1. CASE ConnectCall
    <3>1. ~mixed' /\ (mixed => mixed')
      BY <2>1 DEF ConnectCall
    <3> QED
      BY <2>1, <3>1 DEF ConnectCall
  <2>2. CASE ConnectTest
    BY <1>0, <2>2 DEF ConnectTest
  <2> QED
    BY <1>2, <2>1, <2>2 DEF UiStep, Store, DisconnectTest, ManagerDisconnect, ResetId,
       ResetConnected
<1>3. ASSUME NEW t \in Threads, Callback(t) PROVE Sane
  BY <1>3 DEF Callback, Compare, SetConnected, Arm, Close, CloseFlag, EraseConnection,
     Match, ClearConnected, ClearId, AfterClose
<1>4. ASSUME NEW t \in Threads, Complete(t) PROVE Sane
  BY <1>4 DEF Complete, ConnectFails, Established, ReadError
<1> QED
  BY <1>1, <1>2, <1>3, <1>4 DEF Next

\* connect() starts a connection only when all others are over, and nothing but
\* a new connection becomes alive.
LEMMA OneAliveStep ==
  ASSUME Basics, TypeOK', Next, Sane, Sane', SaneInv
  PROVE  OneAlive'
<1> USE DEF SaneInv, Facts, Basics, TypeOK, Goto, Move, Return, netVars, history,
        Threads, OnConnectSteps, ClosingSteps, ClosedSteps, UiSteps, MutexInv, WorkInv,
        AloneInv, LinkInv, IdInv, Sane, Quitting, LinkStates, Dead, Clearing,
        OneAlive, ConnectedInv, DisconnectInv, FoundInv, ShownInv,
        DisconnectSteps
<1>0. Facts /\ Basics /\ TypeOK' /\ Sane /\ Sane' /\ SaneInv
  BY Ids, ThreadsAssumption DEF Facts
<1>1. CASE Frame
  BY <1>0, <1>1 DEF Frame, Look, PressConnect, PressDisconnect, PressNothing, Quit,
     Destroy
<1>2. CASE ConnectTest
  BY <1>0, <1>2 DEF ConnectTest
<1>3. CASE ConnectCall
  <2>1. \A c \in ConnIds : Over(c)
    BY <1>0, <1>3 DEF ConnectCall
  <2>2. \A c \in ConnIds : Dead(c)
    BY <2>1 DEF Over
  <2>3. PICK c \in ConnIds \cup {0} :
          /\ \A d \in ConnIds : d # c => link'[d] = link[d]
          /\ pc' = [pc EXCEPT ![Ui] = "store"] /\ at' = [at EXCEPT ![Ui] = c]
    BY <1>0, <1>3 DEF ConnectCall
  <2>4. \A d \in ConnIds : d # c => Dead(d)'
    BY <1>0, <2>2, <2>3
  <2> QED
    BY <1>0, <2>3, <2>4
<1>4. CASE Store
  BY <1>0, <1>4 DEF Store
<1>5. CASE DisconnectTest
  BY <1>0, <1>5 DEF DisconnectTest
<1>6. CASE ManagerDisconnect
  BY <1>0, <1>6 DEF ManagerDisconnect
<1>7. CASE ResetId
  BY <1>0, <1>7 DEF ResetId
<1>8. CASE ResetConnected
  BY <1>0, <1>8 DEF ResetConnected
<1>9. ASSUME NEW t \in Threads, Compare(t) PROVE OneAlive'
  BY <1>0, <1>9 DEF Compare
<1>10. ASSUME NEW t \in Threads, SetConnected(t) PROVE OneAlive'
  BY <1>0, <1>10 DEF SetConnected
<1>11. ASSUME NEW t \in Threads, Arm(t) PROVE OneAlive'
  BY <1>0, <1>11 DEF Arm
<1>12. ASSUME NEW t \in Threads, Close(t) PROVE OneAlive'
  BY <1>0, <1>12 DEF Close, AfterClose
<1>13. ASSUME NEW t \in Threads, CloseFlag(t) PROVE OneAlive'
  BY <1>0, <1>13 DEF CloseFlag
<1>14. ASSUME NEW t \in Threads, EraseConnection(t) PROVE OneAlive'
  BY <1>0, <1>14 DEF EraseConnection
<1>15. ASSUME NEW t \in Threads, Match(t) PROVE OneAlive'
  BY <1>0, <1>15 DEF Match, AfterClose
<1>16. ASSUME NEW t \in Threads, ClearConnected(t) PROVE OneAlive'
  BY <1>0, <1>16 DEF ClearConnected
<1>17. ASSUME NEW t \in Threads, ClearId(t) PROVE OneAlive'
  BY <1>0, <1>17 DEF ClearId, AfterClose
<1>18. ASSUME NEW t \in Threads, ConnectFails(t) PROVE OneAlive'
  BY <1>0, <1>18 DEF ConnectFails
<1>19. ASSUME NEW t \in Threads, Established(t) PROVE OneAlive'
  BY <1>0, <1>19 DEF Established
<1>20. ASSUME NEW t \in Threads, ReadError(t) PROVE OneAlive'
  BY <1>0, <1>20 DEF ReadError
<1> QED
  BY <1>1, <1>2, <1>3, <1>4, <1>5, <1>6, <1>7, <1>8, <1>9, <1>10, <1>11, <1>12, <1>13,
       <1>14, <1>15, <1>16, <1>17, <1>18, <1>19, <1>20 DEF Next, UiStep, Callback,
            Complete

\* connected_ is set in onConnect, for the connection connectionId_ names; an end
\* that is reported for another one resets nothing, and connect() calls the
\* NetworkManager only when it is not set.
LEMMA ConnectedStep ==
  ASSUME Basics, TypeOK', Next, Sane, Sane', SaneInv
  PROVE  ConnectedInv'
<1> USE DEF SaneInv, Facts, Basics, TypeOK, Goto, Move, Return, netVars, history,
        Threads, OnConnectSteps, ClosingSteps, ClosedSteps, UiSteps, MutexInv, WorkInv,
        AloneInv, LinkInv, IdInv, Sane, Quitting, LinkStates, Dead, Clearing,
        OneAlive, ConnectedInv, DisconnectInv, FoundInv, ShownInv,
        DisconnectSteps
<1>0. Facts /\ Basics /\ TypeOK' /\ Sane /\ Sane' /\ SaneInv
  BY Ids, ThreadsAssumption DEF Facts
<1>1. CASE Frame
  BY <1>0, <1>1 DEF Frame, Look, PressConnect, PressDisconnect, PressNothing, Quit,
     Destroy
<1>2. CASE ConnectTest
  BY <1>0, <1>2 DEF ConnectTest
<1>3. CASE ConnectCall
  BY <1>0, <1>3 DEF ConnectCall, Over
<1>4. CASE Store
  BY <1>0, <1>4 DEF Store
<1>5. CASE DisconnectTest
  BY <1>0, <1>5 DEF DisconnectTest
<1>6. CASE ManagerDisconnect
  BY <1>0, <1>6 DEF ManagerDisconnect
<1>7. CASE ResetId
  BY <1>0, <1>7 DEF ResetId
<1>8. CASE ResetConnected
  BY <1>0, <1>8 DEF ResetConnected
<1>9. ASSUME NEW t \in Threads, Compare(t) PROVE ConnectedInv'
  BY <1>0, <1>9 DEF Compare
<1>10. ASSUME NEW t \in Threads, SetConnected(t) PROVE ConnectedInv'
  BY <1>0, <1>10 DEF SetConnected
<1>11. ASSUME NEW t \in Threads, Arm(t) PROVE ConnectedInv'
  BY <1>0, <1>11 DEF Arm
<1>12. ASSUME NEW t \in Threads, Close(t) PROVE ConnectedInv'
  BY <1>0, <1>12 DEF Close, AfterClose
<1>13. ASSUME NEW t \in Threads, CloseFlag(t) PROVE ConnectedInv'
  BY <1>0, <1>13 DEF CloseFlag
<1>14. ASSUME NEW t \in Threads, EraseConnection(t) PROVE ConnectedInv'
  BY <1>0, <1>14 DEF EraseConnection
<1>15. ASSUME NEW t \in Threads, Match(t) PROVE ConnectedInv'
  BY <1>0, <1>15 DEF Match, AfterClose
<1>16. ASSUME NEW t \in Threads, ClearConnected(t) PROVE ConnectedInv'
  BY <1>0, <1>16 DEF ClearConnected
<1>17. ASSUME NEW t \in Threads, ClearId(t) PROVE ConnectedInv'
  BY <1>0, <1>17 DEF ClearId, AfterClose
<1>18. ASSUME NEW t \in Threads, ConnectFails(t) PROVE ConnectedInv'
  BY <1>0, <1>18 DEF ConnectFails
<1>19. ASSUME NEW t \in Threads, Established(t) PROVE ConnectedInv'
  BY <1>0, <1>19 DEF Established
<1>20. ASSUME NEW t \in Threads, ReadError(t) PROVE ConnectedInv'
  BY <1>0, <1>20 DEF ReadError
<1> QED
  BY <1>1, <1>2, <1>3, <1>4, <1>5, <1>6, <1>7, <1>8, <1>9, <1>10, <1>11, <1>12, <1>13,
       <1>14, <1>15, <1>16, <1>17, <1>18, <1>19, <1>20 DEF Next, UiStep, Callback,
            Complete

\* disconnect() begins when connected_ is set: then nothing is connecting, and
\* only the thread of the user interface could start a connection.
LEMMA DisconnectStep ==
  ASSUME Basics, TypeOK', Next, Sane, Sane', SaneInv
  PROVE  DisconnectInv'
<1> USE DEF SaneInv, Facts, Basics, TypeOK, Goto, Move, Return, netVars, history,
        Threads, OnConnectSteps, ClosingSteps, ClosedSteps, UiSteps, MutexInv, WorkInv,
        AloneInv, LinkInv, IdInv, Sane, Quitting, LinkStates, Dead, Clearing,
        OneAlive, ConnectedInv, DisconnectInv, FoundInv, ShownInv,
        DisconnectSteps
<1>0. Facts /\ Basics /\ TypeOK' /\ Sane /\ Sane' /\ SaneInv
  BY Ids, ThreadsAssumption DEF Facts
<1>1. CASE Frame
  BY <1>0, <1>1 DEF Frame, Look, PressConnect, PressDisconnect, PressNothing, Quit,
     Destroy
<1>2. CASE ConnectTest
  BY <1>0, <1>2 DEF ConnectTest
<1>3. CASE ConnectCall
  BY <1>0, <1>3 DEF ConnectCall, Over
<1>4. CASE Store
  BY <1>0, <1>4 DEF Store
<1>5. CASE DisconnectTest
  BY <1>0, <1>5 DEF DisconnectTest
<1>6. CASE ManagerDisconnect
  BY <1>0, <1>6 DEF ManagerDisconnect
<1>7. CASE ResetId
  BY <1>0, <1>7 DEF ResetId
<1>8. CASE ResetConnected
  BY <1>0, <1>8 DEF ResetConnected
<1>9. ASSUME NEW t \in Threads, Compare(t) PROVE DisconnectInv'
  BY <1>0, <1>9 DEF Compare
<1>10. ASSUME NEW t \in Threads, SetConnected(t) PROVE DisconnectInv'
  BY <1>0, <1>10 DEF SetConnected
<1>11. ASSUME NEW t \in Threads, Arm(t) PROVE DisconnectInv'
  BY <1>0, <1>11 DEF Arm
<1>12. ASSUME NEW t \in Threads, Close(t) PROVE DisconnectInv'
  BY <1>0, <1>12 DEF Close, AfterClose
<1>13. ASSUME NEW t \in Threads, CloseFlag(t) PROVE DisconnectInv'
  BY <1>0, <1>13 DEF CloseFlag
<1>14. ASSUME NEW t \in Threads, EraseConnection(t) PROVE DisconnectInv'
  BY <1>0, <1>14 DEF EraseConnection
<1>15. ASSUME NEW t \in Threads, Match(t) PROVE DisconnectInv'
  BY <1>0, <1>15 DEF Match, AfterClose
<1>16. ASSUME NEW t \in Threads, ClearConnected(t) PROVE DisconnectInv'
  BY <1>0, <1>16 DEF ClearConnected
<1>17. ASSUME NEW t \in Threads, ClearId(t) PROVE DisconnectInv'
  BY <1>0, <1>17 DEF ClearId, AfterClose
<1>18. ASSUME NEW t \in Threads, ConnectFails(t) PROVE DisconnectInv'
  BY <1>0, <1>18 DEF ConnectFails
<1>19. ASSUME NEW t \in Threads, Established(t) PROVE DisconnectInv'
  BY <1>0, <1>19 DEF Established
<1>20. ASSUME NEW t \in Threads, ReadError(t) PROVE DisconnectInv'
  BY <1>0, <1>20 DEF ReadError
<1> QED
  BY <1>1, <1>2, <1>3, <1>4, <1>5, <1>6, <1>7, <1>8, <1>9, <1>10, <1>11, <1>12, <1>13,
       <1>14, <1>15, <1>16, <1>17, <1>18, <1>19, <1>20 DEF Next, UiStep, Callback,
            Complete

\* Whoever resets connectionId_ works on the one connection that is alive, so
\* none is connecting then.
LEMMA FoundStep ==
  ASSUME Basics, TypeOK', Next, Sane, Sane', SaneInv
  PROVE  FoundInv'
<1> USE DEF SaneInv, Facts, Basics, TypeOK, Goto, Move, Return, netVars, history,
        Threads, OnConnectSteps, ClosingSteps, ClosedSteps, UiSteps, MutexInv, WorkInv,
        AloneInv, LinkInv, IdInv, Sane, Quitting, LinkStates, Dead, Clearing,
        OneAlive, ConnectedInv, DisconnectInv, FoundInv, ShownInv,
        DisconnectSteps
<1>0. Facts /\ Basics /\ TypeOK' /\ Sane /\ Sane' /\ SaneInv
  BY Ids, ThreadsAssumption DEF Facts
<1>1. CASE Frame
  BY <1>0, <1>1 DEF Frame, Look, PressConnect, PressDisconnect, PressNothing, Quit,
     Destroy
<1>2. CASE ConnectTest
  BY <1>0, <1>2 DEF ConnectTest
<1>3. CASE ConnectCall
  BY <1>0, <1>3 DEF ConnectCall, Over
<1>4. CASE Store
  BY <1>0, <1>4 DEF Store
<1>5. CASE DisconnectTest
  BY <1>0, <1>5 DEF DisconnectTest
<1>6. CASE ManagerDisconnect
  BY <1>0, <1>6 DEF ManagerDisconnect
<1>7. CASE ResetId
  BY <1>0, <1>7 DEF ResetId
<1>8. CASE ResetConnected
  BY <1>0, <1>8 DEF ResetConnected
<1>9. ASSUME NEW t \in Threads, Compare(t) PROVE FoundInv'
  BY <1>0, <1>9 DEF Compare
<1>10. ASSUME NEW t \in Threads, SetConnected(t) PROVE FoundInv'
  BY <1>0, <1>10 DEF SetConnected
<1>11. ASSUME NEW t \in Threads, Arm(t) PROVE FoundInv'
  BY <1>0, <1>11 DEF Arm
<1>12. ASSUME NEW t \in Threads, Close(t) PROVE FoundInv'
  BY <1>0, <1>12 DEF Close, AfterClose
<1>13. ASSUME NEW t \in Threads, CloseFlag(t) PROVE FoundInv'
  BY <1>0, <1>13 DEF CloseFlag
<1>14. ASSUME NEW t \in Threads, EraseConnection(t) PROVE FoundInv'
  BY <1>0, <1>14 DEF EraseConnection
<1>15. ASSUME NEW t \in Threads, Match(t) PROVE FoundInv'
  BY <1>0, <1>15 DEF Match, AfterClose
<1>16. ASSUME NEW t \in Threads, ClearConnected(t) PROVE FoundInv'
  BY <1>0, <1>16 DEF ClearConnected
<1>17. ASSUME NEW t \in Threads, ClearId(t) PROVE FoundInv'
  <2>1. CASE t = Ui
    BY <1>0, <1>17, <2>1 DEF ClearId, AfterClose
  <2>2. CASE t \in IoThreads
    <3>1. at[t] \in ConnIds /\ link[at[t]] = "down" /\ ~Dead(at[t])
      BY <1>0, <1>17, <2>2 DEF ClearId
    <3>2. \A c \in ConnIds : link[c] # "connecting"
      BY <1>0, <3>1
    <3>3. \A u \in IoThreads : pc[u] \notin {"compare", "setConnected"}
      BY <1>0, <3>1
    <3> QED
      BY <1>0, <1>17, <2>2, <3>2, <3>3 DEF ClearId, AfterClose
  <2> QED
    BY <2>1, <2>2
<1>18. ASSUME NEW t \in Threads, ConnectFails(t) PROVE FoundInv'
  BY <1>0, <1>18 DEF ConnectFails
<1>19. ASSUME NEW t \in Threads, Established(t) PROVE FoundInv'
  BY <1>0, <1>19 DEF Established
<1>20. ASSUME NEW t \in Threads, ReadError(t) PROVE FoundInv'
  BY <1>0, <1>20 DEF ReadError
<1> QED
  BY <1>1, <1>2, <1>3, <1>4, <1>5, <1>6, <1>7, <1>8, <1>9, <1>10, <1>11, <1>12, <1>13,
       <1>14, <1>15, <1>16, <1>17, <1>18, <1>19, <1>20 DEF Next, UiStep, Callback,
            Complete

\* A live connection is the only one alive, so that nobody resets the fields for
\* another.
LEMMA ShownStep ==
  ASSUME Basics, TypeOK', Next, Sane, Sane', SaneInv
  PROVE  ShownInv'
<1> USE DEF SaneInv, Facts, Basics, TypeOK, Goto, Move, Return, netVars, history,
        Threads, OnConnectSteps, ClosingSteps, ClosedSteps, UiSteps, MutexInv, WorkInv,
        AloneInv, LinkInv, IdInv, Sane, Quitting, LinkStates, Dead, Clearing,
        OneAlive, ConnectedInv, DisconnectInv, FoundInv, ShownInv,
        DisconnectSteps
<1>0. Facts /\ Basics /\ TypeOK' /\ Sane /\ Sane' /\ SaneInv
  BY Ids, ThreadsAssumption DEF Facts
<1>1. CASE Frame
  BY <1>0, <1>1 DEF Frame, Look, PressConnect, PressDisconnect, PressNothing, Quit,
     Destroy
<1>2. CASE ConnectTest
  BY <1>0, <1>2 DEF ConnectTest
<1>3. CASE ConnectCall
  BY <1>0, <1>3 DEF ConnectCall, Over
<1>4. CASE Store
  BY <1>0, <1>4 DEF Store
<1>5. CASE DisconnectTest
  BY <1>0, <1>5 DEF DisconnectTest
<1>6. CASE ManagerDisconnect
  BY <1>0, <1>6 DEF ManagerDisconnect
<1>7. CASE ResetId
  BY <1>0, <1>7 DEF ResetId
<1>8. CASE ResetConnected
  BY <1>0, <1>8 DEF ResetConnected
<1>9. ASSUME NEW t \in Threads, Compare(t) PROVE ShownInv'
  BY <1>0, <1>9 DEF Compare
<1>10. ASSUME NEW t \in Threads, SetConnected(t) PROVE ShownInv'
  BY <1>0, <1>10 DEF SetConnected
<1>11. ASSUME NEW t \in Threads, Arm(t) PROVE ShownInv'
  BY <1>0, <1>11 DEF Arm
<1>12. ASSUME NEW t \in Threads, Close(t) PROVE ShownInv'
  BY <1>0, <1>12 DEF Close, AfterClose
<1>13. ASSUME NEW t \in Threads, CloseFlag(t) PROVE ShownInv'
  BY <1>0, <1>13 DEF CloseFlag
<1>14. ASSUME NEW t \in Threads, EraseConnection(t) PROVE ShownInv'
  BY <1>0, <1>14 DEF EraseConnection
<1>15. ASSUME NEW t \in Threads, Match(t) PROVE ShownInv'
  BY <1>0, <1>15 DEF Match, AfterClose
<1>16. ASSUME NEW t \in Threads, ClearConnected(t) PROVE ShownInv'
  BY <1>0, <1>16 DEF ClearConnected
<1>17. ASSUME NEW t \in Threads, ClearId(t) PROVE ShownInv'
  BY <1>0, <1>17 DEF ClearId, AfterClose
<1>18. ASSUME NEW t \in Threads, ConnectFails(t) PROVE ShownInv'
  BY <1>0, <1>18 DEF ConnectFails
<1>19. ASSUME NEW t \in Threads, Established(t) PROVE ShownInv'
  BY <1>0, <1>19 DEF Established
<1>20. ASSUME NEW t \in Threads, ReadError(t) PROVE ShownInv'
  BY <1>0, <1>20 DEF ReadError
<1> QED
  BY <1>1, <1>2, <1>3, <1>4, <1>5, <1>6, <1>7, <1>8, <1>9, <1>10, <1>11, <1>12, <1>13,
       <1>14, <1>15, <1>16, <1>17, <1>18, <1>19, <1>20 DEF Next, UiStep, Callback,
            Complete

-----------------------------------------------------------------------------
\* Every step keeps the invariant.
LEMMA NextInductive == IInv /\ [Next]_vars => IInv'
<1> SUFFICES ASSUME IInv, [Next]_vars PROVE IInv'
  OBVIOUS
<1>1. CASE Next
  <2>1. Basics'
    BY <1>1, TypesStep, MutexStep, WorkStep, AloneStep, LinkStep, IdStep, QuitStep
       DEF IInv, Basics
  <2>2. ASSUME Sane' PROVE SaneInv'
    <3>1. Basics /\ TypeOK' /\ Sane /\ SaneInv
      BY <1>1, <2>1, <2>2, SaneStep DEF IInv, Basics
    <3> QED
      BY <1>1, <2>2, <3>1, OneAliveStep, ConnectedStep, DisconnectStep, FoundStep,
         ShownStep DEF SaneInv
  <2> QED
    BY <2>1, <2>2 DEF IInv
<1>2. CASE UNCHANGED vars
  BY <1>2 DEF vars, IInv, Basics, TypeOK, MutexInv, WorkInv, AloneInv, LinkInv, IdInv,
     QuitInv, Quitting, Sane, SaneInv, OneAlive, Dead, ConnectedInv, Clearing,
     DisconnectInv, FoundInv, ShownInv
<1> QED
  BY <1>1, <1>2

\* The invariant holds in every behaviour.
LEMMA Invariant == Spec => []IInv
BY InitInductive, NextInductive, PTL DEF Spec

\* Whatever the threads do in whatever order, the fields, the map and the places
\* of the threads keep their types.
THEOREM TypeCorrect == Spec => []TypeOK
<1>1. IInv => TypeOK
  BY DEF IInv, Basics
<1> QED
  BY <1>1, Invariant, PTL

\* isClientConnected() is true only while connectionId_ names a live connection
\* or one whose end is just being reported, unless connect() did not wait for
\* an earlier connection or the client is being destroyed.
THEOREM ConnectedCorrect == Spec => []ConnectedIsLive
<1>1. IInv => ConnectedIsLive
  <2> SUFFICES ASSUME IInv, connected, Sane, ~ResetsConnected
               PROVE  connId > 0 /\ (link[connId] = "up" \/ Closing(connId))
    BY DEF ConnectedIsLive, Sane
  <2>1. connId \in ConnIds /\ (link[connId] = "up" \/ Clearing(connId))
    BY DEF IInv, SaneInv, ConnectedInv, ResetsConnected
  <2>2. Clearing(connId) => Closing(connId)
    BY DEF Clearing, Closing, Threads
  <2> QED
    BY <2>1, <2>2, Ids
<1> QED
  BY <1>1, Invariant, PTL

\* A live connection is the client's and shown as connected, unless onConnect
\* overtook the assignment of its id, or one of the exceptions above holds.
THEOREM StrayCorrect == Spec => []NoStrayConnection
<1>1. IInv => NoStrayConnection
  <2> SUFFICES ASSUME IInv, Sane, NEW c \in ConnIds, link[c] = "up", ~Connecting(c),
                      c \notin overtaken
               PROVE  connId = c /\ connected
    BY DEF NoStrayConnection, Sane
  <2>1. ShownInv
    BY DEF IInv, SaneInv
  <2> QED
    BY <2>1 DEF ShownInv, Connecting
<1> QED
  BY <1>1, Invariant, PTL
=============================================================================
