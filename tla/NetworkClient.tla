--------------------------- MODULE NetworkClient ---------------------------
(***************************************************************************)
(* The client of the application: NetworkClient over its own               *)
(* wrap_boost::NetworkManager, driven by the one thread that draws the     *)
(* user interface and by the io threads that run the callbacks.            *)
(*                                                                         *)
(* connected_ and connectionId_ are plain fields that all of them read and *)
(* write without a mutex.  A step is one access to one of them, or one     *)
(* critical section of connectionsMutex_; the data race itself is taken to *)
(* be no worse than some order of these steps.  Of a connection the module *)
(* keeps what the client sees; NetworkConnection.tla has the rest.         *)
(***************************************************************************)
EXTENDS Naturals, FiniteSets

CONSTANTS
  Ui,           \* the thread of the user interface
  IoThreads,    \* threads inside ioContext_.run()
  None,         \* no thread
  MaxConns      \* bound: connections NetworkManager::connect() makes

Threads == IoThreads \cup {Ui}
ConnIds == 1..MaxConns

ASSUME ThreadsAssumption == Ui \notin IoThreads /\ None \notin Threads
ASSUME BoundsAssumption  == MaxConns \in Nat

VARIABLES
  connected,    \* connected_
  connId,       \* connectionId_, 0 for none
  link,         \* the state of each connection
  inMap,        \* connections_ holds the connection
  armed,        \* the connection has an outstanding read
  connMutex,    \* who keeps connectionsMutex_ across steps
  pc,           \* where each thread is
  at,           \* the connection it works on, 0 for none
  back,         \* where disconnect() goes on after it
  mixed,        \* history: connect() did not wait for what was there before
  overtaken     \* history: connections whose onConnect came before Store

vars == <<connected, connId, link, inMap, armed, connMutex, pc, at, back, mixed,
          overtaken>>

netVars == <<link, inMap, armed, connMutex>>
history == <<mixed, overtaken>>

\* "connecting": async_connect is outstanding; "up": the connection's own
\* connected_ is true; "down": it was and is no more; "failed": it never was.
LinkStates == {"none", "connecting", "up", "down", "failed"}

UiSteps == {"online", "offline", "connect", "call", "store", "disconnect", "manager",
            "resetId", "resetConnected", "destroy", "quit"}
Steps == {"idle", "compare", "setConnected", "arm", "close", "flag", "erase",
          "match", "clearConnected", "clearId"} \cup UiSteps

Goto(t, step) == pc' = [pc EXCEPT ![t] = step]
Move(t, step, c) == Goto(t, step) /\ at' = [at EXCEPT ![t] = c]
Return(t) == Move(t, "idle", 0)

Init ==
  /\ connected = FALSE /\ connId = 0
  /\ link = [c \in ConnIds |-> "none"]
  /\ inMap = [c \in ConnIds |-> FALSE] /\ armed = [c \in ConnIds |-> FALSE]
  /\ connMutex = None
  /\ pc = [t \in Threads |-> "idle"] /\ at = [t \in Threads |-> 0]
  /\ back = "idle" /\ mixed = FALSE /\ overtaken = {}

-----------------------------------------------------------------------------
(* connect() and disconnect(), in the thread of the user interface *)

\* A frame asks isClientConnected(), and draws one of the two forms ...
Look ==
  /\ pc[Ui] = "idle"
  /\ Goto(Ui, IF connected THEN "online" ELSE "offline")
  /\ UNCHANGED <<connected, connId, netVars, at, back, history>>

\* ... and the user may press its button, or not.
PressConnect ==
  /\ pc[Ui] = "offline"
  /\ Goto(Ui, "connect")
  /\ UNCHANGED <<connected, connId, netVars, at, back, history>>

\* disconnectClient() asks isConnected() again.
PressDisconnect ==
  /\ pc[Ui] = "online"
  /\ IF connected THEN Goto(Ui, "disconnect") /\ back' = "idle"
                  ELSE Goto(Ui, "idle") /\ UNCHANGED back
  /\ UNCHANGED <<connected, connId, netVars, at, history>>

PressNothing ==
  /\ pc[Ui] \in {"online", "offline"}
  /\ Goto(Ui, "idle")
  /\ UNCHANGED <<connected, connId, netVars, at, back, history>>

\* The window is closed after the frame: disconnectClient() ...
Quit ==
  /\ pc[Ui] = "idle"
  /\ Goto(Ui, IF connected THEN "disconnect" ELSE "destroy") /\ back' = "destroy"
  /\ UNCHANGED <<connected, connId, netVars, at, history>>

\* ... and the destructor of the client, which disconnects whatever was
\* connected.
Destroy ==
  /\ pc[Ui] = "destroy"
  /\ Goto(Ui, "disconnect") /\ back' = "quit"
  /\ UNCHANGED <<connected, connId, netVars, at, history>>

ConnectTest ==
  /\ pc[Ui] = "connect"
  /\ IF connected THEN Goto(Ui, "disconnect") /\ back' = "call"
                  ELSE Goto(Ui, "call") /\ UNCHANGED back
  /\ UNCHANGED <<connected, connId, netVars, at, history>>

\* Nothing of connection c is still to come.
Over(c) ==
  /\ link[c] \in {"none", "down", "failed"}
  /\ \A t \in IoThreads : at[t] # c

\* NetworkManager::connect.  History: mixed when an earlier connection is not
\* over.
ConnectCall ==
  /\ pc[Ui] = "call"
  /\ \/ \E c \in ConnIds :
          /\ link[c] = "none" /\ \A d \in ConnIds : d < c => link[d] # "none"
          /\ link' = [link EXCEPT ![c] = "connecting"]
          /\ Move(Ui, "store", c)
     \/ Move(Ui, "store", 0) /\ UNCHANGED link
  /\ mixed' = (mixed \/ \E c \in ConnIds : ~Over(c))
  /\ UNCHANGED <<connected, connId, inMap, armed, connMutex, back, overtaken>>

\* Mutation: an id is only stored when there is none.
StoreIfNone ==
  /\ pc[Ui] = "store"
  /\ connId' = IF connId = 0 THEN at[Ui] ELSE connId
  /\ Return(Ui)
  /\ UNCHANGED <<connected, netVars, back, history>>

\* The id is assigned when connect() returns, and the io threads may already
\* have called onConnect with it.
Store ==
  /\ pc[Ui] = "store"
  /\ connId' = at[Ui]
  /\ Return(Ui)
  /\ UNCHANGED <<connected, netVars, back, history>>

\* disconnect() returns at once when there is nothing, and goes on to the
\* NetworkManager when there is an id.
DisconnectTest ==
  /\ pc[Ui] = "disconnect"
  /\ IF connId > 0 THEN Move(Ui, "manager", connId)
     ELSE IF connected THEN Move(Ui, "resetConnected", 0)
     ELSE Move(Ui, back, 0)
  /\ UNCHANGED <<connected, connId, netVars, back, history>>

\* NetworkManager::disconnect: only an established connection is found; one
\* that is still connecting is not, and goes on connecting.
ManagerDisconnect ==
  /\ pc[Ui] = "manager" /\ connMutex = None
  /\ Goto(Ui, IF inMap[at[Ui]] THEN "close" ELSE "resetId")
  /\ UNCHANGED <<connected, connId, netVars, at, back, history>>

ResetId ==
  /\ pc[Ui] = "resetId"
  /\ connId' = 0
  /\ Move(Ui, "resetConnected", 0)
  /\ UNCHANGED <<connected, netVars, back, history>>

ResetConnected ==
  /\ pc[Ui] = "resetConnected"
  /\ connected' = FALSE
  /\ Move(Ui, back, 0)
  /\ UNCHANGED <<connId, netVars, back, history>>

-----------------------------------------------------------------------------
(* The completion of async_connect, and onConnect *)

ConnectFails(t) ==
  \E c \in ConnIds :
    /\ t \in IoThreads /\ pc[t] = "idle"
    /\ link[c] = "connecting"
    /\ link' = [link EXCEPT ![c] = "failed"]
    /\ UNCHANGED <<connected, connId, inMap, armed, connMutex, pc, at, back, history>>

Established(t) ==
  \E c \in ConnIds :
    /\ t \in IoThreads /\ pc[t] = "idle" /\ connMutex = None
    /\ link[c] = "connecting"
    /\ link' = [link EXCEPT ![c] = "up"]
    /\ inMap' = [inMap EXCEPT ![c] = TRUE]
    /\ connMutex' = t
    /\ Move(t, "compare", c)
    /\ UNCHANGED <<connected, connId, armed, back, history>>

Compare(t) ==
  /\ pc[t] = "compare"
  /\ Goto(t, IF connId = at[t] THEN "setConnected" ELSE "arm")
  /\ overtaken' = IF at[Ui] = at[t] /\ pc[Ui] = "store" THEN overtaken \cup {at[t]}
                                                        ELSE overtaken
  /\ UNCHANGED <<connected, connId, netVars, at, back, mixed>>

SetConnected(t) ==
  /\ pc[t] = "setConnected"
  /\ connected' = TRUE
  /\ Goto(t, "arm")
  /\ UNCHANGED <<connId, netVars, at, back, history>>

\* The end of start(): the first read, and connectionsMutex_ is released.
Arm(t) ==
  /\ pc[t] = "arm"
  /\ armed' = [armed EXCEPT ![at[t]] = link[at[t]] = "up"]
  /\ connMutex' = None
  /\ Return(t)
  /\ UNCHANGED <<connected, connId, link, inMap, back, history>>

-----------------------------------------------------------------------------
(* close() and onDisconnect *)

\* The server has gone, or close() has ended the outstanding read.
ReadError(t) ==
  \E c \in ConnIds :
    /\ t \in IoThreads /\ pc[t] = "idle"
    /\ armed[c]
    /\ armed' = [armed EXCEPT ![c] = FALSE]
    /\ Move(t, "close", c)
    /\ UNCHANGED <<connected, connId, link, inMap, connMutex, back, history>>

\* disconnect() goes on after close(); an io thread is done.
AfterClose(t) == IF t = Ui THEN Goto(t, "resetId") /\ UNCHANGED at ELSE Return(t)

Close(t) ==
  /\ pc[t] = "close"
  /\ IF link[at[t]] = "up" THEN Goto(t, "flag") /\ UNCHANGED at ELSE AfterClose(t)
  /\ UNCHANGED <<connected, connId, netVars, back, history>>

CloseFlag(t) ==
  /\ pc[t] = "flag"
  /\ link' = [link EXCEPT ![at[t]] = "down"]
  /\ Goto(t, "erase")
  /\ UNCHANGED <<connected, connId, inMap, armed, connMutex, at, back, history>>

EraseConnection(t) ==
  /\ pc[t] = "erase" /\ connMutex = None
  /\ inMap' = [inMap EXCEPT ![at[t]] = FALSE]
  /\ Goto(t, "match")
  /\ UNCHANGED <<connected, connId, link, armed, connMutex, at, back, history>>

\* onDisconnect compares the id, and resets both fields.
Match(t) ==
  /\ pc[t] = "match"
  /\ IF connId = at[t] THEN Goto(t, "clearConnected") /\ UNCHANGED at ELSE AfterClose(t)
  /\ UNCHANGED <<connected, connId, netVars, back, history>>

\* Mutation: only the id is reset.
ClearConnectedNot(t) ==
  /\ pc[t] = "clearConnected"
  /\ Goto(t, "clearId")
  /\ UNCHANGED <<connected, connId, netVars, at, back, history>>

ClearConnected(t) ==
  /\ pc[t] = "clearConnected"
  /\ connected' = FALSE
  /\ Goto(t, "clearId")
  /\ UNCHANGED <<connId, netVars, at, back, history>>

ClearId(t) ==
  /\ pc[t] = "clearId"
  /\ connId' = 0
  /\ AfterClose(t)
  /\ UNCHANGED <<connected, netVars, back, history>>

-----------------------------------------------------------------------------
UiStep ==
  \/ ConnectTest \/ ConnectCall \/ Store
  \/ DisconnectTest \/ ManagerDisconnect \/ ResetId \/ ResetConnected
Frame == Look \/ PressConnect \/ PressDisconnect \/ PressNothing \/ Quit \/ Destroy

Callback(t) ==
  \/ Compare(t) \/ SetConnected(t) \/ Arm(t)
  \/ Close(t) \/ CloseFlag(t) \/ EraseConnection(t)
  \/ Match(t) \/ ClearConnected(t) \/ ClearId(t)

Complete(t) == ConnectFails(t) \/ Established(t) \/ ReadError(t)

Next == Frame \/ UiStep \/ \E t \in Threads : Callback(t) \/ Complete(t)

Spec == Init /\ [][Next]_vars

-----------------------------------------------------------------------------
TypeOK ==
  /\ connected \in BOOLEAN /\ connId \in ConnIds \cup {0}
  /\ link \in [ConnIds -> LinkStates]
  /\ inMap \in [ConnIds -> BOOLEAN] /\ armed \in [ConnIds -> BOOLEAN]
  /\ connMutex \in IoThreads \cup {None}
  /\ pc \in [Threads -> Steps] /\ at \in [Threads -> ConnIds \cup {0}]
  /\ back \in {"idle", "call", "destroy", "quit"}
  /\ mixed \in BOOLEAN /\ overtaken \subseteq ConnIds

\* Threads that run onConnect, or close() and onDisconnect, for a connection.
Connecting(c) == \E t \in IoThreads : at[t] = c /\ pc[t] \in {"compare", "setConnected"}
Closing(c) ==
  \E t \in Threads :
    at[t] = c /\ pc[t] \in {"manager", "close", "flag", "erase", "match", "clearConnected",
                            "clearId", "resetId"}
ResetsConnected == pc[Ui] = "resetConnected"
Quitting == back \in {"destroy", "quit"}

\* "Connected" is shown only for a connection that is alive, or whose end is
\* just being reported, unless connect() did not wait for an earlier connection
\* or the client is being destroyed.
ConnectedIsLive ==
  connected /\ ~mixed /\ ~Quitting =>
    \/ ResetsConnected
    \/ connId > 0 /\ (link[connId] = "up" \/ Closing(connId))

\* A live connection belongs to the client: it is shown and can be closed,
\* unless onConnect overtook the assignment of its id, or connect() did not
\* wait for what was there before, or the client is being destroyed.
NoStrayConnection ==
  \A c \in ConnIds :
    link[c] = "up" /\ ~Quitting /\ ~Connecting(c) /\ ~Closing(c) /\ ~mixed
      /\ c \notin overtaken =>
      connId = c /\ connected
=============================================================================
