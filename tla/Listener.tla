------------------------------ MODULE Listener ------------------------------
(***************************************************************************)
(* The listening side: startServer and stopServer of the application over  *)
(* NetworkServer::start and stop and the startListening, startAccept,      *)
(* handleAccept and stopListening of wrap_boost::NetworkManager, with      *)
(* remote clients that connect.  One thread starts and stops the server.   *)
(*                                                                         *)
(* A client whose TCP connection the kernel has completed waits in the     *)
(* backlog until an async_accept takes it.  What follows the accept is     *)
(* NetworkConnection.tla's.                                                *)
(***************************************************************************)
EXTENDS FiniteSets

CONSTANT Clients

VARIABLES
  isRunning,    \* NetworkServer::isRunning_
  listening,    \* NetworkManager::listening_
  acceptor,     \* acceptor_: "closed", "open", or "listening" on its port
  armed,        \* an async_accept is outstanding
  backlog,      \* clients that wait for an accept
  connections,  \* clients in connections_
  starting      \* startServer() has made a server and not yet started it

vars == <<isRunning, listening, acceptor, armed, backlog, connections, starting>>

Fresh ==
  /\ isRunning' = FALSE /\ listening' = FALSE /\ acceptor' = "closed"
  /\ armed' = FALSE /\ backlog' = {} /\ connections' = {}

Init ==
  /\ isRunning = FALSE /\ listening = FALSE /\ acceptor = "closed"
  /\ armed = FALSE /\ backlog = {} /\ connections = {} /\ starting = FALSE

\* startServer() stops the server and makes a new one, with a NetworkManager of
\* its own ...
StartServer ==
  /\ ~starting
  /\ Fresh /\ starting' = TRUE

\* startAccept() does nothing unless listening_ is set.
StartAccept == armed' = listening

\* ... and starts it: the accept is armed before listening_ is set.
StartListening ==
  /\ starting
  /\ acceptor' = "listening"
  /\ StartAccept
  /\ listening' = TRUE /\ isRunning' = TRUE
  /\ starting' = FALSE
  /\ UNCHANGED <<backlog, connections>>

\* The port is in use.
StartFails ==
  /\ starting
  /\ acceptor' = "open"
  /\ starting' = FALSE
  /\ UNCHANGED <<isRunning, listening, armed, backlog, connections>>

\* stopListening() and disconnectAll(): the kernel resets who still waits.
Stop ==
  /\ isRunning /\ ~starting
  /\ Fresh /\ UNCHANGED starting

\* An async_accept completes, and the next one is armed.
HandleAccept(c) ==
  /\ armed /\ c \in backlog
  /\ backlog' = backlog \ {c}
  /\ connections' = connections \cup {c}
  /\ StartAccept
  /\ UNCHANGED <<isRunning, listening, acceptor, starting>>

ClientConnects(c) ==
  /\ acceptor = "listening" /\ c \notin backlog \cup connections
  /\ backlog' = backlog \cup {c}
  /\ UNCHANGED <<isRunning, listening, acceptor, armed, connections, starting>>

ClientLeaves(c) ==
  /\ c \in backlog \cup connections
  /\ backlog' = backlog \ {c} /\ connections' = connections \ {c}
  /\ UNCHANGED <<isRunning, listening, acceptor, armed, starting>>

Next ==
  \/ StartServer \/ StartListening \/ StartFails \/ Stop
  \/ \E c \in Clients : HandleAccept(c) \/ ClientConnects(c) \/ ClientLeaves(c)

\* The io threads run what is armed, and the kernel hands out the backlog in order.
FairSpec == Init /\ [][Next]_vars /\ \A c \in Clients : WF_vars(HandleAccept(c))
-----------------------------------------------------------------------------
\* A client that has connected to a running server is served: it does not wait
\* for ever to be accepted.
ClientIsServed == \A c \in Clients : c \in backlog ~> c \notin backlog
=============================================================================
