------------------------ MODULE PeerDiscoveryProofs ------------------------
(***************************************************************************)
(* Proofs about PeerDiscovery for every number of connections, endpoints   *)
(* and messages: announcements follow the switch, a message is ignored     *)
(* only for another node's sender id, and discovery adds at most one entry *)
(* per connection beyond those of users and of onConnect.                  *)
(***************************************************************************)
EXTENDS PeerDiscovery, FiniteSetTheorems, SequenceTheorems, TLAPS

\* Discovery is off while stop() is under way, and one task runs exactly while
\* it is on.
SwitchInv ==
  /\ DiscoveryFollowsSwitch
  /\ opc # "idle" => ~discovery /\ running
  /\ tasks = IF discovery THEN {taskId} ELSE {}

\* A remembered id was heard from somebody, and nobody sends an id twice.
CacheInv ==
  /\ OnlyStrangersIgnored
  /\ \A id \in recent : heard[id] # {}
  /\ \A id \in SenderIds : \A c \in heard[id] : id <= sent[c]

\* A handler that looks at an endpoint, or connects one, has one.
TodoInv ==
  \A c \in Conns : pc[c] \in {"look", "add", "connecting", "adopt"} => todo[c] # <<>>

\* The handlers that have found the endpoint missing and are going to add it.
Adders(e) == {c \in Conns : pc[c] = "add" /\ Head(todo[c]) = e}

\* FewTwins counts them in: each has yet to add its entry.
TwinsInv ==
  \A e \in Endpoints :
    peers[e] + Cardinality(Adders(e)) <= added[e] + adopted[e] + Cardinality(Conns)

IInv == TypeOK /\ SwitchInv /\ CacheInv /\ TodoInv /\ TwinsInv

-----------------------------------------------------------------------------
(* Lists of endpoints *)

\* The lists of the model are sequences of bounded length ...
LEMMA ListSeq ==
  ASSUME NEW list \in Lists
  PROVE  list \in Seq(Endpoints) /\ Len(list) \in 0..MaxList
<1>1. PICK n \in 0..MaxList : list \in [1..n -> Endpoints]
  BY DEF Lists
<1>2. n \in Nat
  BY <1>1, BoundAssumption
<1>3. list \in Seq(Endpoints)
  BY <1>1, <1>2, SeqDef
<1>4. Len(list) = n
  BY <1>1, <1>2, <1>3, LenProperties
<1> QED
  BY <1>1, <1>3, <1>4

\* ... and the other way round.
LEMMA SeqList ==
  ASSUME NEW list \in Seq(Endpoints), Len(list) <= MaxList
  PROVE  list \in Lists
<1>1. list \in [1..Len(list) -> Endpoints] /\ Len(list) \in 0..MaxList
  BY LenProperties, BoundAssumption
<1> QED
  BY <1>1 DEF Lists

\* Taking the first endpoint of a list.
LEMMA ListTail ==
  ASSUME NEW list \in Lists, list # <<>>
  PROVE  /\ Head(list) \in Endpoints /\ Tail(list) \in Lists
         /\ Tail(list) = <<>> <=> Len(list) = 1
<1>1. list \in Seq(Endpoints) /\ Len(list) \in 0..MaxList
  BY ListSeq
<1>2. /\ Head(list) \in Endpoints /\ Tail(list) \in Seq(Endpoints)
      /\ Len(Tail(list)) = Len(list) - 1
  BY <1>1, HeadTailProperties
<1>3. Len(Tail(list)) <= MaxList
  BY <1>1, <1>2, BoundAssumption
<1>4. \A tail \in Seq(Endpoints) : tail = <<>> <=> Len(tail) = 0
  OBVIOUS
<1>5. Tail(list) = <<>> <=> Len(list) = 1
  <2>1. Len(Tail(list)) = 0 <=> Len(list) = 1
    BY <1>1, <1>2
  <2> QED
    BY <1>2, <1>4, <2>1
<1> QED
  BY <1>2, <1>3, <1>5, SeqList

\* The empty list.
LEMMA EmptyList == <<>> \in Lists
<1>1. <<>> \in Seq(Endpoints) /\ Len(<<>>) = 0
  OBVIOUS
<1>2. 0 <= MaxList
  BY BoundAssumption
<1> QED
  BY <1>1, <1>2, SeqList

\* The list of the endpoint that a connection is made to.
LEMMA SingleList ==
  ASSUME NEW e \in Endpoints
  PROVE  <<e>> \in Lists /\ <<e>> # <<>>
<1>1. <<e>> \in Seq(Endpoints) /\ Len(<<e>>) = 1
  OBVIOUS
<1>2. 1 <= MaxList
  BY BoundAssumption
<1> QED
  BY <1>1, <1>2, SeqList

-----------------------------------------------------------------------------
(* Types *)

\* Discovery is off and nobody is known at first.
LEMMA InitInductive == Init => IInv
<1> SUFFICES ASSUME Init PROVE IInv
  OBVIOUS
<1> USE DEF Init
<1>1. TypeOK
  <2>1. /\ running \in BOOLEAN /\ enabled \in BOOLEAN /\ discovery \in BOOLEAN
        /\ early \in BOOLEAN
    OBVIOUS
  <2>2. taskId \in 0..MaxTasks /\ tasks \subseteq TaskIds /\ made \in 0..MaxTasks
    BY BoundAssumption
  <2>3. opc \in {"idle", "disconnect", "join"}
    OBVIOUS
  <2>4. /\ peers \in [Endpoints -> Nat] /\ added \in [Endpoints -> 0..MaxAdds]
        /\ adopted \in [Endpoints -> Nat]
    BY BoundAssumption
  <2>5. peersMutex \in Conns \cup {None} /\ connMutex \in Conns \cup {None}
    OBVIOUS
  <2>6. recent \subseteq SenderIds
    OBVIOUS
  <2>7. pc \in [Conns -> Steps]
    BY DEF Steps
  <2>8. todo \in [Conns -> Lists]
    BY EmptyList
  <2>9. sent \in [Conns -> 0..MaxSender] /\ announced \subseteq Conns
    BY BoundAssumption
  <2>10. heard \in [SenderIds -> SUBSET Conns] /\ ignored \subseteq Conns \X SenderIds
    OBVIOUS
  <2> QED
    BY <2>1, <2>2, <2>3, <2>4, <2>5, <2>6, <2>7, <2>8, <2>9, <2>10 DEF TypeOK
<1>2. SwitchInv
  BY DEF SwitchInv, DiscoveryFollowsSwitch
<1>3. CacheInv /\ TodoInv
  BY DEF CacheInv, OnlyStrangersIgnored, TodoInv
<1>4. TwinsInv
  <2> SUFFICES ASSUME NEW e \in Endpoints
               PROVE  peers[e] + Cardinality(Adders(e))
                        <= added[e] + adopted[e] + Cardinality(Conns)
    BY DEF TwinsInv
  <2>1. Adders(e) = {}
    BY DEF Adders
  <2>2. Cardinality(Adders(e)) = 0 /\ Cardinality(Conns) \in Nat
    BY <2>1, FS_EmptySet, FS_CardinalityType, ConnsAssumption
  <2>3. peers[e] = 0 /\ added[e] = 0 /\ adopted[e] = 0
    OBVIOUS
  <2> QED
    BY <2>2, <2>3
<1> QED
  BY <1>1, <1>2, <1>3, <1>4 DEF IInv

\* The types, in the groups of variables that the actions leave alone together.
SwitchTyped ==
  /\ running \in BOOLEAN /\ enabled \in BOOLEAN
  /\ discovery \in BOOLEAN /\ early \in BOOLEAN
  /\ taskId \in 0..MaxTasks /\ tasks \subseteq TaskIds /\ made \in 0..MaxTasks
  /\ opc \in {"idle", "disconnect", "join"}
TableTyped ==
  /\ peers \in [Endpoints -> Nat] /\ added \in [Endpoints -> 0..MaxAdds]
  /\ adopted \in [Endpoints -> Nat]
MutexTyped ==
  peersMutex \in Conns \cup {None} /\ connMutex \in Conns \cup {None}
ReadTyped ==
  /\ recent \subseteq SenderIds
  /\ pc \in [Conns -> Steps]
  /\ todo \in [Conns -> Lists]
  /\ sent \in [Conns -> 0..MaxSender] /\ announced \subseteq Conns
  /\ heard \in [SenderIds -> SUBSET Conns] /\ ignored \subseteq Conns \X SenderIds

\* The type invariant by groups of variables that change together.
LEMMA TypesGrouped ==
  /\ TypeOK  <=> SwitchTyped /\ TableTyped /\ MutexTyped /\ ReadTyped
  /\ TypeOK' <=> SwitchTyped' /\ TableTyped' /\ MutexTyped' /\ ReadTyped'
BY DEF TypeOK, SwitchTyped, TableTyped, MutexTyped, ReadTyped

\* Each group keeps its types when its variables do not change.
LEMMA SwitchFrame ==
  UNCHANGED switchVars /\ SwitchTyped => SwitchTyped'
BY DEF switchVars, SwitchTyped

LEMMA TableFrame ==
  UNCHANGED tableVars /\ TableTyped => TableTyped'
BY DEF tableVars, TableTyped

LEMMA MutexFrame ==
  UNCHANGED mutexVars /\ MutexTyped => MutexTyped'
BY DEF mutexVars, MutexTyped

LEMMA ReadFrame ==
  UNCHANGED readVars /\ ReadTyped => ReadTyped'
BY DEF readVars, ReadTyped

\* Starting and stopping the announcement task.
LEMMA TaskTyped ==
  ASSUME SwitchTyped, NEW a, NEW b, StartDiscovery(a, b) \/ StopDiscovery
  PROVE  /\ discovery' \in BOOLEAN
         /\ taskId' \in 0..MaxTasks /\ tasks' \subseteq TaskIds /\ made' \in 0..MaxTasks
<1>1. CASE StopDiscovery
  <2>1. 0 \in 0..MaxTasks
    BY BoundAssumption
  <2> QED
    BY <1>1, <2>1 DEF StopDiscovery, SwitchTyped
<1>2. CASE StartDiscovery(a, b)
  <2>1. CASE ~(a /\ b /\ ~discovery)
    BY <1>2, <2>1 DEF StartDiscovery, SwitchTyped
  <2>2. CASE a /\ b /\ ~discovery
    <3>1. /\ made < MaxTasks /\ made' = made + 1 /\ taskId' = made'
          /\ tasks' = tasks \cup {made'} /\ discovery' = TRUE
      BY <1>2, <2>2 DEF StartDiscovery
    <3>2. made' \in 1..MaxTasks
      BY <3>1, BoundAssumption DEF SwitchTyped
    <3> QED
      BY <3>1, <3>2, BoundAssumption DEF SwitchTyped, TaskIds
  <2> QED
    BY <2>1, <2>2
<1> QED
  BY <1>1, <1>2

\* start(), stop() and the switch keep types.
LEMMA OwnerTyped ==
  ASSUME TypeOK, Owner
  PROVE  TypeOK'
<1>1. SwitchTyped /\ TableTyped /\ MutexTyped /\ ReadTyped
  BY TypesGrouped
<1>2. CASE Start
  <2>1. SwitchTyped'
    BY <1>1, <1>2, TaskTyped DEF Start, SwitchTyped
  <2> QED
    BY <1>1, <1>2, <2>1, TableFrame, MutexFrame, ReadFrame, TypesGrouped DEF Start
<1>3. ASSUME NEW b \in BOOLEAN, EnablePeerDiscovery(b) PROVE TypeOK'
  <2>1. /\ discovery' \in BOOLEAN /\ taskId' \in 0..MaxTasks
        /\ tasks' \subseteq TaskIds /\ made' \in 0..MaxTasks
    <3>1. CASE ~running
      BY <1>1, <1>3, <3>1 DEF EnablePeerDiscovery, SwitchTyped
    <3>2. CASE running
      BY <1>1, <1>3, <3>2, TaskTyped DEF EnablePeerDiscovery
    <3> QED
      BY <3>1, <3>2
  <2>2. SwitchTyped'
    BY <1>1, <1>3, <2>1 DEF EnablePeerDiscovery, SwitchTyped
  <2> QED
    BY <1>1, <1>3, <2>2, TableFrame, MutexFrame, ReadFrame, TypesGrouped
       DEF EnablePeerDiscovery
<1>4. CASE StopBegin
  <2>1. /\ discovery' \in BOOLEAN /\ taskId' \in 0..MaxTasks
        /\ tasks' \subseteq TaskIds /\ made' \in 0..MaxTasks
    <3>1. CASE ~enabled
      BY <1>1, <1>4, <3>1 DEF StopBegin, SwitchTyped
    <3>2. CASE enabled
      BY <1>1, <1>4, <3>2, TaskTyped DEF StopBegin
    <3> QED
      BY <3>1, <3>2
  <2>2. SwitchTyped'
    BY <1>1, <1>4, <2>1 DEF StopBegin, SwitchTyped
  <2> QED
    BY <1>1, <1>4, <2>2, TableFrame, MutexFrame, ReadFrame, TypesGrouped DEF StopBegin
<1>5. CASE StopDisconnect
  <2>1. SwitchTyped'
    BY <1>1, <1>5 DEF StopDisconnect, SwitchTyped
  <2> QED
    BY <1>1, <1>5, <2>1, TableFrame, MutexFrame, ReadFrame, TypesGrouped
       DEF StopDisconnect
<1>6. CASE StopJoined
  <2>1. SwitchTyped'
    BY <1>1, <1>6 DEF StopJoined, SwitchTyped
  <2>2. ReadTyped'
    BY <1>1, <1>6, EmptyList DEF StopJoined, ReadTyped, Steps
  <2> QED
    BY <1>1, <1>6, <2>1, <2>2, TableFrame, MutexFrame, TypesGrouped DEF StopJoined
<1> QED
  BY <1>2, <1>3, <1>4, <1>5, <1>6 DEF Owner

\* Users and the announcement task keep types.
LEMMA UserTyped ==
  ASSUME TypeOK, User \/ Announce
  PROVE  TypeOK'
<1>1. SwitchTyped /\ TableTyped /\ MutexTyped /\ ReadTyped
  BY TypesGrouped
<1>2. ASSUME NEW e \in Endpoints, AddPeer(e) PROVE TypeOK'
  <2>1. added[e] + 1 \in 0..MaxAdds
    <3>1. added[e] + (IF e = e THEN 1 ELSE 0) <= MaxAdds
      BY <1>2 DEF AddPeer
    <3>2. added[e] \in 0..MaxAdds
      BY <1>1 DEF TableTyped
    <3> QED
      BY <3>1, <3>2, BoundAssumption
  <2>2. TableTyped'
    BY <1>1, <1>2, <2>1 DEF AddPeer, TableTyped
  <2> QED
    BY <1>1, <1>2, <2>2, SwitchFrame, MutexFrame, ReadFrame, TypesGrouped DEF AddPeer
<1>3. ASSUME NEW e \in Endpoints, RemovePeer(e) PROVE TypeOK'
  <2>1. TableTyped'
    BY <1>1, <1>3 DEF RemovePeer, TableTyped
  <2> QED
    BY <1>1, <1>3, <2>1, SwitchFrame, MutexFrame, ReadFrame, TypesGrouped DEF RemovePeer
<1>4. CASE Announce
  <2>1. ReadTyped'
    BY <1>1, <1>4 DEF Announce, ReadTyped
  <2> QED
    BY <1>1, <1>4, <2>1, SwitchFrame, TableFrame, MutexFrame, TypesGrouped DEF Announce
<1> QED
  BY <1>2, <1>3, <1>4 DEF User

\* Going on to the next endpoint of a list.
LEMMA NextEndpointTyped ==
  ASSUME ReadTyped, NEW c \in Conns, todo[c] # <<>>, NextEndpoint(c)
  PROVE  /\ todo' \in [Conns -> Lists]
         /\ pc' \in [Conns -> Steps]
         /\ \A d \in Conns \ {c} : pc'[d] = pc[d] /\ todo'[d] = todo[d]
         /\ pc'[c] \in {"reading", "look"}
         /\ pc'[c] = "look" => todo'[c] # <<>>
<1>1. todo[c] \in Lists
  BY DEF ReadTyped
<1>2. Tail(todo[c]) \in Lists /\ (Tail(todo[c]) = <<>> <=> Len(todo[c]) = 1)
  BY <1>1, ListTail
<1> QED
  BY <1>2 DEF NextEndpoint, Goto, ReadTyped, Steps

\* Receiving a message keeps types.
LEMMA ReceiveTyped ==
  ASSUME ReadTyped, NEW c \in Conns, Receive(c)
  PROVE  ReadTyped'
<1> USE DEF ReadTyped, Goto
<1>1. PICK id \in (sent[c] + 1)..MaxSender :
        /\ sent' = [sent EXCEPT ![c] = id]
        /\ IF ~enabled \/ ~running THEN UNCHANGED <<recent, pc, todo, heard, ignored>>
           ELSE IF id \in recent
                THEN /\ ignored' = ignored \cup {<<c, id>>}
                     /\ UNCHANGED <<recent, pc, todo, heard>>
           ELSE /\ recent' = recent \cup {id}
                /\ heard' = [heard EXCEPT ![id] = @ \cup {c}]
                /\ \/ Goto(c, "list") /\ UNCHANGED todo
                   \/ \E list \in Lists :
                        /\ todo' = [todo EXCEPT ![c] = list]
                        /\ Goto(c, IF list = <<>> THEN "reading" ELSE "look")
                /\ UNCHANGED ignored
  BY DEF Receive
<1>2. id \in SenderIds /\ id \in 0..MaxSender
  BY <1>1, BoundAssumption DEF SenderIds
<1>3. sent' \in [Conns -> 0..MaxSender]
  BY <1>1, <1>2
<1>4. announced' = announced
  BY DEF Receive
<1>5. CASE ~enabled \/ ~running
  BY <1>1, <1>3, <1>4, <1>5
<1>6. CASE enabled /\ running /\ id \in recent
  <2>1. ignored' = ignored \cup {<<c, id>>} /\ UNCHANGED <<recent, pc, todo, heard>>
    BY <1>1, <1>6
  <2>2. ignored' \subseteq Conns \X SenderIds
    BY <1>2, <2>1
  <2> QED
    BY <1>3, <1>4, <2>1, <2>2
<1>7. CASE enabled /\ running /\ id \notin recent
  <2>1. /\ recent' = recent \cup {id} /\ heard' = [heard EXCEPT ![id] = @ \cup {c}]
        /\ ignored' = ignored
    BY <1>1, <1>7
  <2>2. recent' \subseteq SenderIds /\ heard' \in [SenderIds -> SUBSET Conns]
    BY <1>2, <2>1
  <2>3. /\ pc' \in [Conns -> Steps]
        /\ todo' \in [Conns -> Lists]
    BY <1>1, <1>7 DEF Steps
  <2> QED
    BY <1>3, <1>4, <2>1, <2>2, <2>3
<1> QED
  BY <1>5, <1>6, <1>7

\* Connections come up and go with types kept.
LEMMA ConnectTyped ==
  ASSUME TypeOK, TodoInv, NEW c \in Conns, Connect(c) \/ Disconnect(c)
  PROVE  TypeOK'
<1>1. SwitchTyped /\ TableTyped /\ MutexTyped /\ ReadTyped
  BY TypesGrouped
<1>2. ASSUME Greet(c)
      PROVE  /\ pc' \in [Conns -> Steps] /\ todo' \in [Conns -> Lists]
             /\ connMutex' \in Conns \cup {None}
  BY <1>1, <1>2, EmptyList DEF Greet, Goto, ReadTyped, Steps
<1>3. CASE ConnectToPeer(c)
  <2>1. ReadTyped'
    BY <1>1, <1>3, SingleList DEF ConnectToPeer, Goto, ReadTyped, Steps
  <2> QED
    BY <1>1, <1>3, <2>1, SwitchFrame, TableFrame, MutexFrame, TypesGrouped
       DEF ConnectToPeer
<1>4. CASE ConnectFails(c)
  <2>1. ReadTyped'
    BY <1>1, <1>4, EmptyList DEF ConnectFails, Goto, ReadTyped, Steps
  <2> QED
    BY <1>1, <1>4, <2>1, SwitchFrame, TableFrame, MutexFrame, TypesGrouped
       DEF ConnectFails
<1>5. CASE OnConnect(c)
  <2>1. /\ pc' \in [Conns -> Steps] /\ todo' \in [Conns -> Lists]
        /\ connMutex' \in Conns \cup {None}
    BY <1>1, <1>2, <1>5 DEF OnConnect, Goto, ReadTyped, Steps
  <2>2. ReadTyped' /\ MutexTyped'
    BY <1>1, <1>5, <2>1 DEF OnConnect, ReadTyped, MutexTyped
  <2> QED
    BY <1>1, <1>5, <2>2, SwitchFrame, TableFrame, TypesGrouped DEF OnConnect
<1>6. CASE AdoptPeer(c)
  <2>1. ReadTyped' /\ MutexTyped'
    BY <1>1, <1>2, <1>6 DEF AdoptPeer, ReadTyped, MutexTyped
  <2>2. TableTyped'
    <3>1. Head(todo[c]) \in Endpoints
      BY <1>1, <1>6, ListTail DEF AdoptPeer, TodoInv, ReadTyped
    <3>2. /\ peers[Head(todo[c])] + 1 \in Nat
          /\ adopted[Head(todo[c])] + 1 \in Nat
      BY <1>1, <3>1 DEF TableTyped
    <3> QED
      BY <1>1, <1>6, <3>2 DEF AdoptPeer, TableTyped
  <2> QED
    BY <1>1, <1>6, <2>1, <2>2, SwitchFrame, TypesGrouped DEF AdoptPeer
<1>7. CASE Disconnect(c)
  <2>1. ReadTyped'
    BY <1>1, <1>7 DEF Disconnect, Goto, ReadTyped, Steps
  <2> QED
    BY <1>1, <1>7, <2>1, SwitchFrame, TableFrame, MutexFrame, TypesGrouped
       DEF Disconnect
<1> QED
  BY <1>3, <1>4, <1>5, <1>6, <1>7 DEF Connect

\* The handlers keep types.
LEMMA IoTyped ==
  ASSUME TypeOK, TodoInv, NEW c \in Conns, Receive(c) \/ Handle(c)
  PROVE  TypeOK'
<1>1. SwitchTyped /\ TableTyped /\ MutexTyped /\ ReadTyped
  BY TypesGrouped
<1>2. CASE SendNothing(c) \/ RelockThrows(c) \/ SendPeerList(c) \/ RelockBlocks(c)
  <2>1. MutexTyped'
    BY <1>1, <1>2
    DEF SendNothing, RelockThrows, SendPeerList, RelockBlocks, MutexTyped,
         mutexVars
  <2>2. ReadTyped'
    BY <1>1, <1>2
    DEF SendNothing, RelockThrows, SendPeerList, RelockBlocks, Goto,
         ReadTyped, Steps
  <2>3. UNCHANGED switchVars /\ UNCHANGED tableVars
    BY <1>2 DEF SendNothing, RelockThrows, SendPeerList, RelockBlocks
  <2> QED
    BY <1>1, <2>1, <2>2, <2>3, SwitchFrame, TableFrame, TypesGrouped
<1>3. CASE Receive(c)
  <2>1. UNCHANGED switchVars /\ UNCHANGED tableVars /\ UNCHANGED mutexVars
    BY <1>3 DEF Receive
  <2> QED
    BY <1>1, <1>3, <2>1, ReceiveTyped, SwitchFrame, TableFrame, MutexFrame, TypesGrouped
<1>4. CASE Lookup(c)
  <2>1. todo[c] # <<>>
    BY <1>4 DEF Lookup, TodoInv
  <2>2. /\ todo' \in [Conns -> Lists]
        /\ pc' \in [Conns -> Steps]
    <3>1. CASE peers[Head(todo[c])] > 0
      BY <1>1, <1>4, <2>1, <3>1, NextEndpointTyped DEF Lookup
    <3>2. CASE ~(peers[Head(todo[c])] > 0)
      BY <1>1, <1>4, <3>2 DEF Lookup, Goto, ReadTyped, Steps
    <3> QED
      BY <3>1, <3>2
  <2>3. ReadTyped'
    BY <1>1, <1>4, <2>2 DEF Lookup, ReadTyped
  <2>4. UNCHANGED switchVars /\ UNCHANGED tableVars /\ UNCHANGED mutexVars
    BY <1>4 DEF Lookup
  <2> QED
    BY <1>1, <2>3, <2>4, SwitchFrame, TableFrame, MutexFrame, TypesGrouped
<1>5. CASE AddDiscovered(c)
  <2>1. todo[c] # <<>> /\ NextEndpoint(c)
    BY <1>5 DEF AddDiscovered, TodoInv
  <2>2. /\ todo' \in [Conns -> Lists]
        /\ pc' \in [Conns -> Steps]
    BY <1>1, <2>1, NextEndpointTyped
  <2>3. ReadTyped'
    BY <1>1, <1>5, <2>2 DEF AddDiscovered, ReadTyped
  <2>4. TableTyped'
    <3>1. Head(todo[c]) \in Endpoints
      BY <1>1, <2>1, ListTail DEF ReadTyped
    <3>2. peers[Head(todo[c])] + 1 \in Nat
      BY <1>1, <3>1 DEF TableTyped
    <3> QED
      BY <1>1, <1>5, <3>2 DEF AddDiscovered, TableTyped
  <2>5. UNCHANGED switchVars /\ UNCHANGED mutexVars
    BY <1>5 DEF AddDiscovered
  <2> QED
    BY <1>1, <2>3, <2>4, <2>5, SwitchFrame, MutexFrame, TypesGrouped
<1> QED
  BY <1>2, <1>3, <1>4, <1>5 DEF Handle

\* Types are kept.
LEMMA StepTyped ==
  ASSUME TypeOK, TodoInv, [Next]_vars
  PROVE  TypeOK'
<1>1. ASSUME NEW id \in SenderIds, Expire(id) PROVE TypeOK'
  <2>1. ReadTyped'
    BY <1>1, TypesGrouped DEF Expire, ReadTyped
  <2> QED
    BY <1>1, <2>1, SwitchFrame, TableFrame, MutexFrame, TypesGrouped DEF Expire
<1>2. CASE UNCHANGED vars
  BY <1>2, SwitchFrame, TableFrame, MutexFrame, ReadFrame, TypesGrouped DEF vars
<1> QED
  BY <1>1, <1>2, OwnerTyped, UserTyped, ConnectTyped, IoTyped DEF Next

-----------------------------------------------------------------------------
(* The switch *)

\* The announcement task follows the switch.
LEMMA StepSwitch ==
  ASSUME TypeOK, SwitchInv, [Next]_vars
  PROVE  SwitchInv'
<1> USE DEF SwitchInv, DiscoveryFollowsSwitch
<1>1. CASE UNCHANGED switchVars
  BY <1>1 DEF switchVars
<1>2. CASE Start
  BY <1>2 DEF Start, StartDiscovery, TypeOK
<1>3. ASSUME NEW b \in BOOLEAN, EnablePeerDiscovery(b) PROVE SwitchInv'
  <2>1. CASE ~running
    BY <1>3, <2>1 DEF EnablePeerDiscovery
  <2>2. CASE running /\ b = TRUE
    <3>1. opc' = "idle" /\ running' /\ enabled' /\ ~early'
      BY <1>3, <2>2 DEF EnablePeerDiscovery
    <3>2. StartDiscovery(TRUE, TRUE) /\ opc = "idle"
      BY <1>3, <2>2 DEF EnablePeerDiscovery, StartDiscovery
    <3>3. discovery' /\ tasks' = {taskId'}
      BY <3>2 DEF StartDiscovery
    <3> QED
      BY <3>1, <3>3
  <2>3. CASE running /\ b = FALSE
    BY <1>3, <2>3 DEF EnablePeerDiscovery, StopDiscovery
  <2> QED
    BY <1>3, <2>1, <2>2, <2>3
<1>4. CASE StopBegin
  BY <1>4 DEF StopBegin, StopDiscovery
<1>5. CASE StopDisconnect
  BY <1>5 DEF StopDisconnect
<1>6. CASE StopJoined
  BY <1>6 DEF StopJoined
<1>7. ASSUME User \/ Announce \/ (\E id \in SenderIds : Expire(id))
      PROVE  UNCHANGED switchVars
  BY <1>7 DEF User, AddPeer, RemovePeer, Announce, Expire
<1>8. ASSUME NEW c \in Conns, Connect(c) \/ Disconnect(c) \/ Receive(c) \/ Handle(c)
      PROVE  UNCHANGED switchVars
  BY <1>8
  DEF Connect, ConnectToPeer, ConnectFails, OnConnect, AdoptPeer, Disconnect, Receive,
       Handle, SendNothing, SendPeerList, RelockThrows, RelockBlocks,
      Lookup, AddDiscovered
<1> QED
  BY <1>1, <1>2, <1>3, <1>4, <1>5, <1>6, <1>7, <1>8 DEF Next, Owner, vars

-----------------------------------------------------------------------------
(* The cache *)

\* Ids are remembered only when heard.
LEMMA StepCache ==
  ASSUME TypeOK, CacheInv, [Next]_vars
  PROVE  CacheInv'
<1> USE DEF CacheInv, OnlyStrangersIgnored
<1>1. CASE UNCHANGED <<recent, heard, sent, ignored>>
  BY <1>1
<1>2. ASSUME NEW id \in SenderIds, Expire(id) PROVE CacheInv'
  BY <1>2 DEF Expire
<1>3. ASSUME NEW c \in Conns, Receive(c) PROVE CacheInv'
  <2>1. PICK id \in (sent[c] + 1)..MaxSender :
          /\ sent' = [sent EXCEPT ![c] = id]
          /\ \/ UNCHANGED <<recent, heard, ignored>>
             \/ /\ id \in recent /\ ignored' = ignored \cup {<<c, id>>}
                /\ UNCHANGED <<recent, heard>>
             \/ /\ recent' = recent \cup {id} /\ ignored' = ignored
                /\ heard' = [heard EXCEPT ![id] = @ \cup {c}]
    BY <1>3 DEF Receive
  <2>2. sent[c] \in Nat /\ id \in SenderIds /\ sent[c] < id
    BY <2>1, BoundAssumption DEF TypeOK, SenderIds
  <2>3. /\ sent'[c] = id /\ \A d \in Conns \ {c} : sent'[d] = sent[d]
        /\ \A i \in SenderIds : heard[i] \subseteq Conns
    BY <2>1 DEF TypeOK
  <2>4. \A i \in SenderIds : \A d \in heard[i] : i <= sent'[d]
    <3> SUFFICES ASSUME NEW i \in SenderIds, NEW d \in heard[i] PROVE i <= sent'[d]
      OBVIOUS
    <3>1. i <= sent[d] /\ i \in Nat
      BY DEF SenderIds
    <3>2. CASE d = c
      BY <2>2, <2>3, <3>1, <3>2 DEF SenderIds
    <3>3. CASE d # c
      BY <2>3, <3>1, <3>3
    <3> QED
      BY <3>2, <3>3
  <2>5. CASE UNCHANGED <<recent, heard, ignored>>
    BY <2>4, <2>5
  <2>6. CASE /\ id \in recent /\ ignored' = ignored \cup {<<c, id>>}
             /\ UNCHANGED <<recent, heard>>
    <3>1. c \notin heard[id]
      BY <2>2 DEF SenderIds
    <3>2. heard[id] \ {c} # {}
      BY <2>6, <3>1
    <3>3. \A x \in ignored' : heard[x[2]] \ {x[1]} # {}
      BY <2>6, <3>2
    <3> QED
      BY <2>4, <2>6, <3>3
  <2>7. CASE /\ recent' = recent \cup {id} /\ ignored' = ignored
             /\ heard' = [heard EXCEPT ![id] = @ \cup {c}]
    <3>1. \A i \in SenderIds :
            heard[i] \subseteq heard'[i] /\ heard'[i] \subseteq heard[i] \cup {c}
      BY <2>7 DEF TypeOK
    <3>2. c \in heard'[id] /\ \A i \in SenderIds \ {id} : heard'[i] = heard[i]
      BY <2>2, <2>7 DEF TypeOK
    <3>3. \A i \in recent' : heard'[i] # {}
      BY <2>7, <3>1, <3>2 DEF TypeOK
    <3>4. \A x \in ignored' : heard'[x[2]] \ {x[1]} # {}
      <4> SUFFICES ASSUME NEW x \in ignored PROVE heard'[x[2]] \ {x[1]} # {}
        BY <2>7
      <4>1. x[2] \in SenderIds /\ heard[x[2]] \ {x[1]} # {}
        BY DEF TypeOK
      <4> QED
        BY <3>1, <4>1
    <3>5. \A i \in SenderIds : \A d \in heard'[i] : i <= sent'[d]
      <4> SUFFICES ASSUME NEW i \in SenderIds, NEW d \in heard'[i] PROVE i <= sent'[d]
        OBVIOUS
      <4>1. CASE d \in heard[i]
        BY <2>4, <4>1
      <4>2. CASE d \notin heard[i]
        <5>1. d = c /\ i = id
          BY <3>1, <3>2, <4>2
        <5> QED
          BY <2>3, <5>1 DEF SenderIds
      <4> QED
        BY <4>1, <4>2
    <3> QED
      BY <3>3, <3>4, <3>5
  <2> QED
    BY <2>1, <2>5, <2>6, <2>7
<1>4. ASSUME Owner \/ User \/ Announce PROVE UNCHANGED <<recent, heard, sent, ignored>>
  BY <1>4
  DEF Owner, Start, EnablePeerDiscovery, StopBegin, StopDisconnect, StopJoined, User,
      AddPeer, RemovePeer, Announce, readVars
<1>5. ASSUME NEW c \in Conns, Connect(c) \/ Disconnect(c) \/ Handle(c)
      PROVE  UNCHANGED <<recent, heard, sent, ignored>>
  BY <1>5
  DEF Connect, ConnectToPeer, ConnectFails, OnConnect, AdoptPeer, Disconnect, Handle,
       SendNothing, SendPeerList, RelockThrows, RelockBlocks, Lookup,
      AddDiscovered
<1> QED
  BY <1>1, <1>2, <1>3, <1>4, <1>5 DEF Next, vars, readVars

-----------------------------------------------------------------------------
(* The table *)

\* No action but Lookup makes a handler go on to "add", and those that are there
\* stay until AddDiscovered.
LEMMA StepTodo ==
  ASSUME TypeOK, TodoInv, [Next]_vars
  PROVE  TodoInv'
<1> USE DEF TodoInv, TypeOK, Goto
<1>1. CASE UNCHANGED <<pc, todo>>
  BY <1>1
<1>2. CASE StopJoined
  BY <1>2 DEF StopJoined
<1>3. ASSUME NEW c \in Conns,
             Connect(c) \/ Disconnect(c) \/ SendNothing(c) \/ SendPeerList(c)
               \/ RelockThrows(c) \/ RelockBlocks(c)
      PROVE  TodoInv'
  <2>1. \A e \in Endpoints : <<e>> # <<>>
    BY SingleList
  <2> QED
    BY <1>3, <2>1
    DEF Connect, ConnectToPeer, ConnectFails, OnConnect, AdoptPeer, Greet, Disconnect,
        SendNothing, SendPeerList, RelockThrows, RelockBlocks
<1>4. ASSUME NEW c \in Conns, Receive(c) PROVE TodoInv'
  BY <1>4 DEF Receive
<1>5. ASSUME NEW c \in Conns, Lookup(c) PROVE TodoInv'
  <2>1. todo[c] # <<>>
    BY <1>5 DEF Lookup
  <2>2. CASE peers[Head(todo[c])] > 0
    BY <1>5, <2>1, <2>2, NextEndpointTyped, TypesGrouped DEF Lookup
  <2>3. CASE ~(peers[Head(todo[c])] > 0)
    BY <1>5, <2>1, <2>3 DEF Lookup
  <2> QED
    BY <2>2, <2>3
<1>6. ASSUME NEW c \in Conns, AddDiscovered(c) PROVE TodoInv'
  BY <1>6, NextEndpointTyped, TypesGrouped DEF AddDiscovered
<1>7. ASSUME Start \/ (\E b \in BOOLEAN : EnablePeerDiscovery(b)) \/ StopBegin
               \/ StopDisconnect \/ User \/ Announce \/ (\E id \in SenderIds : Expire(id))
      PROVE  UNCHANGED <<pc, todo>>
  BY <1>7
  DEF Start, EnablePeerDiscovery, StopBegin, StopDisconnect, User, AddPeer, RemovePeer,
      Announce, Expire, readVars
<1> QED
  BY <1>1, <1>2, <1>3, <1>4, <1>5, <1>6, <1>7 DEF Next, Owner, Handle, vars, readVars

\* The pending additions are at most one per connection.
LEMMA AddersFinite ==
  ASSUME NEW e
  PROVE  /\ IsFiniteSet(Adders(e)) /\ Cardinality(Adders(e)) \in Nat
         /\ Cardinality(Conns) \in Nat /\ Cardinality(Adders(e)) <= Cardinality(Conns)
<1>1. Adders(e) \in SUBSET Conns
  BY DEF Adders
<1> QED
  BY <1>1, FS_Subset, FS_CardinalityType, ConnsAssumption

\* When adders only leave, and no entry is added but by users and onConnect, the
\* bound stays.
LEMMA TwinsFrame ==
  ASSUME TypeOK, TypeOK', TwinsInv, NEW e \in Endpoints,
         Adders(e)' \subseteq Adders(e),
         peers'[e] - added'[e] - adopted'[e] <= peers[e] - added[e] - adopted[e]
  PROVE  peers'[e] + Cardinality(Adders(e)')
           <= added'[e] + adopted'[e] + Cardinality(Conns)
<1>1. IsFiniteSet(Adders(e)) /\ Cardinality(Adders(e)) \in Nat /\ Cardinality(Conns) \in Nat
  BY AddersFinite
<1>2. Cardinality(Adders(e)') <= Cardinality(Adders(e)) /\ Cardinality(Adders(e)') \in Nat
  BY <1>1, FS_Subset, FS_CardinalityType
<1>3. /\ peers[e] \in Nat /\ peers'[e] \in Nat /\ added[e] \in Nat /\ added'[e] \in Nat
      /\ adopted[e] \in Nat /\ adopted'[e] \in Nat
  BY BoundAssumption DEF TypeOK
<1>4. peers[e] + Cardinality(Adders(e)) <= added[e] + adopted[e] + Cardinality(Conns)
  BY DEF TwinsInv
<1> QED
  BY <1>1, <1>2, <1>3, <1>4

\* An entry of users and discovery can only be counted against its adders.
LEMMA StepTwins ==
  ASSUME TypeOK, TypeOK', TodoInv, TwinsInv, [Next]_vars
  PROVE  TwinsInv'
<1> SUFFICES ASSUME NEW e \in Endpoints
             PROVE  peers'[e] + Cardinality(Adders(e)')
                      <= added'[e] + adopted'[e] + Cardinality(Conns)
  BY DEF TwinsInv
<1> DEFINE Bound == peers'[e] + Cardinality(Adders(e)')
                      <= added'[e] + adopted'[e] + Cardinality(Conns)
<1>1. /\ peers[e] \in Nat /\ added[e] \in Nat /\ adopted[e] \in Nat
  BY BoundAssumption DEF TypeOK
<1>2. ASSUME Adders(e)' \subseteq Adders(e), UNCHANGED tableVars PROVE Bound
  BY <1>1, <1>2, TwinsFrame DEF tableVars
<1>3. ASSUME UNCHANGED <<pc, todo>> PROVE Adders(e)' = Adders(e)
  BY <1>3 DEF Adders
<1>4. ASSUME NEW c \in Conns, pc'[c] # "add",
             \A d \in Conns \ {c} : pc'[d] = pc[d] /\ todo'[d] = todo[d]
      PROVE  Adders(e)' = Adders(e) \ {c}
  BY <1>4 DEF Adders
<1>5. ASSUME NEW f \in Endpoints, AddPeer(f) \/ RemovePeer(f) PROVE Bound
  <2>1. Adders(e)' = Adders(e)
    BY <1>3, <1>5 DEF AddPeer, RemovePeer, readVars
  <2>2. peers'[e] - added'[e] - adopted'[e] <= peers[e] - added[e] - adopted[e]
    BY <1>1, <1>5 DEF AddPeer, RemovePeer, TypeOK
  <2> QED
    BY <2>1, <2>2, TwinsFrame
<1>6. CASE Start \/ (\E b \in BOOLEAN : EnablePeerDiscovery(b)) \/ StopBegin
             \/ StopDisconnect \/ Announce \/ (\E id \in SenderIds : Expire(id))
             \/ UNCHANGED vars
  <2>1. UNCHANGED <<pc, todo>> /\ UNCHANGED tableVars
    BY <1>6
    DEF Start, EnablePeerDiscovery, StopBegin, StopDisconnect, Announce, Expire, vars,
         readVars
  <2> QED
    BY <1>2, <1>3, <2>1
<1>7. CASE StopJoined
  <2>1. Adders(e)' = {} /\ UNCHANGED tableVars
    BY <1>7 DEF StopJoined, Adders
  <2> QED
    BY <1>2, <2>1
<1>8. ASSUME NEW c \in Conns,
             ConnectToPeer(c) \/ ConnectFails(c) \/ OnConnect(c) \/ Disconnect(c)
               \/ SendNothing(c) \/ SendPeerList(c) \/ RelockThrows(c) \/ RelockBlocks(c)
               \/ Receive(c)
      PROVE  Bound
  <2>1. pc[c] # "add" /\ UNCHANGED tableVars
    BY <1>8
    DEF ConnectToPeer, ConnectFails, OnConnect, Disconnect, SendNothing, SendPeerList,
        RelockThrows, RelockBlocks, Relocks, Receive
  <2>2. /\ \A d \in Conns \ {c} : pc'[d] = pc[d] /\ todo'[d] = todo[d]
        /\ pc'[c] # "add"
    BY SMTT(30), <1>8
    DEF ConnectToPeer, ConnectFails, OnConnect, Greet, Disconnect, SendNothing,
        SendPeerList, RelockThrows, RelockBlocks, Receive, Goto, TypeOK
  <2> QED
    BY <1>2, <1>4, <2>1, <2>2
<1>9. ASSUME NEW c \in Conns, Lookup(c) PROVE Bound
  <2>1. UNCHANGED tableVars /\ todo[c] # <<>> /\ pc[c] = "look"
    BY <1>9 DEF Lookup, TodoInv
  <2>2. CASE peers[Head(todo[c])] > 0
    <3>1. /\ pc'[c] # "add"
          /\ \A d \in Conns \ {c} : pc'[d] = pc[d] /\ todo'[d] = todo[d]
      BY <1>9, <2>1, <2>2, NextEndpointTyped, TypesGrouped DEF Lookup
    <3> QED
      BY <1>2, <1>4, <2>1, <3>1
  <2>3. CASE ~(peers[Head(todo[c])] > 0) /\ Head(todo[c]) = e
    <3>1. peers'[e] = 0 /\ added'[e] = added[e] /\ adopted'[e] = adopted[e]
      BY <1>1, <2>1, <2>3 DEF tableVars
    <3>2. Cardinality(Adders(e)') <= Cardinality(Conns) /\ Cardinality(Adders(e)') \in Nat
          /\ Cardinality(Conns) \in Nat
      <4>1. Adders(e)' \in SUBSET Conns
        BY DEF Adders
      <4> QED
        BY <4>1, FS_Subset, FS_CardinalityType, ConnsAssumption
    <3> QED
      BY <1>1, <3>1, <3>2
  <2>4. CASE ~(peers[Head(todo[c])] > 0) /\ Head(todo[c]) # e
    <3>1. pc' = [pc EXCEPT ![c] = "add"] /\ todo' = todo
      BY <1>9, <2>4 DEF Lookup, Goto
    <3>2. Adders(e)' = Adders(e)
      BY <2>1, <2>4, <3>1 DEF Adders, TypeOK
    <3> QED
      BY <1>2, <2>1, <3>2
  <2> QED
    BY <2>2, <2>3, <2>4
<1>10. ASSUME NEW c \in Conns, AddDiscovered(c) PROVE Bound
  <2>1. todo[c] # <<>> /\ pc[c] = "add" /\ NextEndpoint(c)
        /\ added' = added /\ adopted' = adopted
        /\ peers' = [peers EXCEPT ![Head(todo[c])] = @ + 1]
    BY <1>10 DEF AddDiscovered, TodoInv
  <2>2. /\ pc'[c] # "add"
        /\ \A d \in Conns \ {c} : pc'[d] = pc[d] /\ todo'[d] = todo[d]
    BY <2>1, NextEndpointTyped, TypesGrouped
  <2>3. Adders(e)' = Adders(e) \ {c}
    BY <1>4, <2>2
  <2>4. CASE Head(todo[c]) = e
    <3>1. c \in Adders(e)
      BY <2>1, <2>4 DEF Adders
    <3>2. Cardinality(Adders(e)') = Cardinality(Adders(e)) - 1
      BY <2>3, <3>1, AddersFinite, FS_RemoveElement
    <3>3. peers'[e] = peers[e] + 1 /\ added'[e] = added[e] /\ adopted'[e] = adopted[e]
      BY <2>1, <2>4 DEF TypeOK
    <3>4. peers[e] + Cardinality(Adders(e)) <= added[e] + adopted[e] + Cardinality(Conns)
      BY DEF TwinsInv
    <3> QED
      BY <1>1, <3>2, <3>3, <3>4, AddersFinite
  <2>5. CASE Head(todo[c]) # e
    <3>1. peers'[e] = peers[e] /\ added'[e] = added[e] /\ adopted'[e] = adopted[e]
      BY <2>1, <2>5 DEF TypeOK
    <3>2. peers'[e] - added'[e] - adopted'[e] <= peers[e] - added[e] - adopted[e]
      BY <1>1, <3>1
    <3> QED
      BY <2>3, <3>2, TwinsFrame
  <2> QED
    BY <2>4, <2>5
<1>11. ASSUME NEW c \in Conns, AdoptPeer(c) PROVE Bound
  <2>1. /\ pc[c] = "adopt" /\ added' = added /\ Head(todo[c]) \in Endpoints
        /\ peers' = [peers EXCEPT ![Head(todo[c])] = @ + 1]
        /\ adopted' = [adopted EXCEPT ![Head(todo[c])] = @ + 1]
    BY <1>11, ListTail DEF AdoptPeer, TodoInv, TypeOK
  <2>2. /\ pc'[c] # "add"
        /\ \A d \in Conns \ {c} : pc'[d] = pc[d] /\ todo'[d] = todo[d]
    BY <1>11 DEF AdoptPeer, Greet, Goto, TypeOK
  <2>3. Adders(e)' = Adders(e) \ {c}
    BY <1>4, <2>2
  <2>4. peers'[e] - added'[e] - adopted'[e] <= peers[e] - added[e] - adopted[e]
    <3>1. CASE Head(todo[c]) = e
      BY <1>1, <2>1, <3>1 DEF TypeOK
    <3>2. CASE Head(todo[c]) # e
      BY <1>1, <2>1, <3>2 DEF TypeOK
    <3> QED
      BY <3>1, <3>2
  <2> QED
    BY <2>3, <2>4, TwinsFrame
<1> QED
  BY <1>5, <1>6, <1>7, <1>8, <1>9, <1>10, <1>11 DEF Next, Owner, User, Connect, Handle

-----------------------------------------------------------------------------
(* Theorems *)

\* The invariant holds in every behaviour.
LEMMA Inductive == Spec => []IInv
<1>1. IInv /\ [Next]_vars => IInv'
  BY StepTyped, StepSwitch, StepCache, StepTodo, StepTwins DEF IInv
<1> QED
  BY InitInductive, <1>1, PTL DEF Spec

\* The variables of PeerDiscovery keep their types; that a handler never takes
\* an endpoint from an empty list is part of it.
THEOREM TypeCorrect == Spec => []TypeOK
BY Inductive, PTL DEF IInv

\* Between calls of start(), stop() and enablePeerDiscovery(), one announcement
\* task runs exactly when discovery is enabled in a running manager that was
\* not started with it.
THEOREM SwitchCorrect == Spec => []DiscoveryFollowsSwitch
BY Inductive, PTL DEF IInv, SwitchInv

\* recentDiscoveryMessages_ never drops the message of a node for its own
\* earlier one.
THEOREM CacheCorrect == Spec => []OnlyStrangersIgnored
BY Inductive, PTL DEF IInv, CacheInv

\* Handlers that search and add in two critical sections add at most one entry
\* per connection, however many messages name the endpoint; all other entries
\* are those of users, and those of onConnect when it does not find the peer.
THEOREM TwinsCorrect == Spec => []FewTwins
<1>1. IInv => FewTwins
  <2> SUFFICES ASSUME IInv, NEW e \in Endpoints
               PROVE  peers[e] <= added[e] + adopted[e] + Cardinality(Conns)
    BY DEF FewTwins
  <2>1. peers[e] \in Nat /\ added[e] \in Nat /\ adopted[e] \in Nat
    BY BoundAssumption DEF IInv, TypeOK
  <2>2. peers[e] + Cardinality(Adders(e)) <= added[e] + adopted[e] + Cardinality(Conns)
    BY DEF IInv, TwinsInv
  <2> QED
    BY <2>1, <2>2, AddersFinite
<1> QED
  BY Inductive, <1>1, PTL
=============================================================================
