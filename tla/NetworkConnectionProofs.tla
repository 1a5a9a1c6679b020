---------------------- MODULE NetworkConnectionProofs ----------------------
(***************************************************************************)
(* Proofs about NetworkConnection for every number of caller and io        *)
(* threads and every number of messages.  The write loop never has two     *)
(* async_writes outstanding, and the connection implements FifoLink; one   *)
(* read owns the buffer, the handler hears of the connection before        *)
(* anything else and of its end, and writing stops only by the relock.     *)
(***************************************************************************)
EXTENDS NetworkConnection, TLAPS

USE ThreadsAssumption, GarbageAssumption, BoundsAssumption

\* None of the four parts is inductive without another one: pop() in
\* handleWrite is defined, and pops the message that was written, only because
\* the one outstanding write is for the head of the queue.
IInv ==
  /\ TypeOK
  /\ OneWriteOutstanding
  /\ MutexHeldInRewrite
  /\ QueueContinuesStream

-----------------------------------------------------------------------------
(* Sequences *)

\* pop() of a queue of messages.
LEMMA TailTyped ==
  ASSUME NEW S, NEW s \in Seq(S), s # <<>>
  PROVE  /\ Tail(s) \in Seq(S) /\ Head(s) \in S
         /\ Len(s) \in Nat \ {0} /\ Len(Tail(s)) = Len(s) - 1
         /\ Head(s) = s[1]
         /\ \A i \in 1..Len(Tail(s)) : Tail(s)[i] = s[i + 1]
  OBVIOUS

\* push() to a queue with room.
LEMMA AppendTyped ==
  ASSUME NEW S, NEW s \in Seq(S), NEW e \in S
  PROVE  /\ Append(s, e) \in Seq(S) /\ Append(s, e) # <<>>
         /\ Len(s) \in Nat /\ Len(Append(s, e)) = Len(s) + 1
         /\ Append(s, e)[Len(s) + 1] = e
         /\ \A i \in 1..Len(s) : Append(s, e)[i] = s[i]
  OBVIOUS

\* The empty queue.
LEMMA EmptyTyped ==
  ASSUME NEW S, NEW s \in Seq(S)
  PROVE  s = <<>> <=> Len(s) = 0
  OBVIOUS

-----------------------------------------------------------------------------
(* Types *)

\* Types hold at first.
LEMMA InitTyped == Init => TypeOK
<1> SUFFICES ASSUME Init PROVE TypeOK
  OBVIOUS
<1>1. pc \in [Threads -> Steps]
  <2>1. PICK t \in IoThreads : pc = [u \in Threads |-> IF u = t THEN "start" ELSE "idle"]
    BY DEF Init
  <2> QED
    BY <2>1 DEF Steps
<1>2. cont \in [Threads -> {"idle", "startRead"}]
  BY DEF Init
<1>3. outbound \in BOOLEAN /\ reachable \in BOOLEAN /\ connected \in BOOLEAN
  BY Zenon DEF Init
<1>4. sock \in {"open", "closed"} /\ peerUp \in BOOLEAN /\ connectSeen \in BOOLEAN
  BY DEF Init
<1>5. disconnects \in Nat /\ readOps \in Nat /\ reads \in Nat /\ calls \in Nat /\ accepted \in Nat
  BY DEF Init
<1>6. queue \in Seq(Nat) /\ writing \in Seq(Nat) /\ wire \in Seq(Nat \cup {Garbage})
  BY DEF Init
<1>7. writeMutex \in Threads \cup {None}
  BY DEF Init
<1> QED
  BY <1>1, <1>2, <1>3, <1>4, <1>5, <1>6, <1>7 DEF TypeOK

\* Types are kept.
LEMMA StepTyped ==
  ASSUME TypeOK, OneWriteOutstanding, [Next]_vars
  PROVE  TypeOK'
<1> USE DEF TypeOK, Goto, Steps, SendSteps, CloseSteps, Threads,
            lifeVars, readVars, writeVars
<1>1. ASSUME NEW t \in Threads, Continue(t) PROVE TypeOK'
  <2>1. CASE StartOk(t) \/ StartFails(t) \/ OnConnect(t)
    BY <2>1 DEF StartOk, StartFails, OnConnect
  <2>2. CASE FirstRead(t)
    BY <2>2 DEF FirstRead
  <2>3. CASE StartRead(t)
    BY <2>3 DEF StartRead
  <2>4. CASE SendCheck(t) \/ StartWriteCheck(t)
    BY <2>4 DEF SendCheck, StartWriteCheck
  <2>5. CASE Push(t)
    BY <2>5 DEF Push
  <2>6. CASE InitWrite(t)
    BY <2>6 DEF InitWrite
  <2>7. CASE RewriteSkipped(t) \/ RelockBlocks(t) \/ RelockThrows(t)
    BY <2>7 DEF RewriteSkipped, RelockBlocks, RelockThrows
  <2>8. CASE CloseCheck(t) \/ CloseSocket(t)
    BY <2>8 DEF CloseCheck, CloseSocket
  <2>9. CASE CloseFlag(t)
    BY <2>9 DEF CloseFlag
  <2>10. CASE CloseNotify(t)
    <3>1. /\ outbound' \in BOOLEAN /\ reachable' \in BOOLEAN /\ connected' \in BOOLEAN
          /\ sock' \in {"open", "closed"} /\ peerUp' \in BOOLEAN /\ connectSeen' \in BOOLEAN
      BY <2>10 DEF CloseNotify
    <3>2. disconnects' \in Nat
      BY <2>10 DEF CloseNotify
    <3>3. /\ readOps' \in Nat /\ reads' \in Nat /\ calls' \in Nat /\ accepted' \in Nat
          /\ queue' \in Seq(Nat) /\ writing' \in Seq(Nat)
          /\ wire' \in Seq(Nat \cup {Garbage}) /\ writeMutex' \in Threads \cup {None}
      BY <2>10 DEF CloseNotify
    <3>4. pc' \in [Threads -> Steps] /\ cont' \in [Threads -> {"idle", "startRead"}]
      BY <2>10 DEF CloseNotify
    <3> QED
      BY <3>1, <3>2, <3>3, <3>4
  <2> QED
    BY <1>1, <2>1, <2>2, <2>3, <2>4, <2>5, <2>6, <2>7, <2>8, <2>9, <2>10
    DEF Continue
<1>2. ASSUME NEW t \in Threads, Complete(t) PROVE TypeOK'
  <2>1. CASE HandleReadOk(t)
    <3>1. /\ outbound' \in BOOLEAN /\ reachable' \in BOOLEAN /\ connected' \in BOOLEAN
          /\ sock' \in {"open", "closed"} /\ peerUp' \in BOOLEAN /\ connectSeen' \in BOOLEAN
      BY <2>1 DEF HandleReadOk
    <3>2. readOps' \in Nat /\ reads' \in Nat /\ calls' \in Nat
      BY <2>1 DEF HandleReadOk
    <3>3. /\ disconnects' \in Nat /\ accepted' \in Nat
          /\ queue' \in Seq(Nat) /\ writing' \in Seq(Nat)
          /\ wire' \in Seq(Nat \cup {Garbage}) /\ writeMutex' \in Threads \cup {None}
      BY <2>1 DEF HandleReadOk
    <3>4. pc' \in [Threads -> Steps] /\ cont' \in [Threads -> {"idle", "startRead"}]
      BY <2>1 DEF HandleReadOk
    <3> QED
      BY <3>1, <3>2, <3>3, <3>4
  <2>2. CASE HandleReadError(t)
    BY <2>2 DEF HandleReadError
  <2>3. CASE HandleWriteOk(t)
    <3>1. queue # <<>>
      BY <2>3 DEF HandleWriteOk, OneWriteOutstanding
    <3>2. queue' \in Seq(Nat) /\ writing' \in Seq(Nat)
      BY <2>3, <3>1, TailTyped DEF HandleWriteOk
    <3>3. wire' \in Seq(Nat \cup {Garbage})
      <4>1. Head(writing) \in Nat \cup {Garbage}
        BY <2>3, TailTyped DEF HandleWriteOk
      <4>2. wire' = Append(wire, Head(writing)) \/ wire' = Append(wire, Garbage)
        BY <2>3 DEF HandleWriteOk
      <4>3. wire \in Seq(Nat \cup {Garbage}) /\ Garbage \in Nat \cup {Garbage}
        OBVIOUS
      <4>4. \A e \in Nat \cup {Garbage} : Append(wire, e) \in Seq(Nat \cup {Garbage})
        BY <4>3, AppendTyped
      <4> QED
        BY <4>1, <4>2, <4>3, <4>4
    <3>4. /\ outbound' \in BOOLEAN /\ reachable' \in BOOLEAN /\ connected' \in BOOLEAN
          /\ sock' \in {"open", "closed"} /\ peerUp' \in BOOLEAN /\ connectSeen' \in BOOLEAN
      BY <2>3 DEF HandleWriteOk
    <3>5. /\ disconnects' \in Nat /\ readOps' \in Nat /\ reads' \in Nat
          /\ calls' \in Nat /\ accepted' \in Nat /\ writeMutex' \in Threads \cup {None}
      BY <2>3 DEF HandleWriteOk
    <3>6. pc' \in [Threads -> Steps] /\ cont' \in [Threads -> {"idle", "startRead"}]
      BY <2>3 DEF HandleWriteOk
    <3> QED
      BY <3>2, <3>3, <3>4, <3>5, <3>6
  <2>4. CASE HandleWriteError(t)
    BY <2>4 DEF HandleWriteError
  <2> QED
    BY <1>2, <2>1, <2>2, <2>3, <2>4 DEF Complete
<1>3. ASSUME NEW t \in Threads, Call(t) PROVE TypeOK'
  <2>1. CASE CallSend(t)
    BY <2>1 DEF CallSend
  <2>2. CASE CallClose(t)
    BY <2>2 DEF CallClose
  <2> QED
    BY <1>3, <2>1, <2>2 DEF Call
<1>4. CASE PeerFails
  BY <1>4 DEF PeerFails
<1>5. CASE UNCHANGED vars
  BY <1>5 DEF vars
<1> QED
  BY <1>1, <1>2, <1>3, <1>4, <1>5 DEF Next

-----------------------------------------------------------------------------
(* The write loop *)

\* A step that leaves the write loop's state alone and moves one thread between
\* steps that do not belong to it.
LEMMA Frame ==
  ASSUME IInv, NEW t \in Threads, UNCHANGED writeVars,
         pc[t] \notin {"rewrite", "stuck"},
         NEW step, pc' = [pc EXCEPT ![t] = step],
         step \notin {"startWrite", "initWrite", "rewrite", "stuck"}
  PROVE  OneWriteOutstanding' /\ MutexHeldInRewrite'
<1> USE DEF IInv, TypeOK, writeVars
<1>1. /\ pc'[t] = step
      /\ \A u \in Threads \ {t} : pc'[u] = pc[u]
  OBVIOUS
<1>2. OneWriteOutstanding'
  BY <1>1 DEF OneWriteOutstanding, Starting
<1>3. MutexHeldInRewrite'
  BY <1>1 DEF MutexHeldInRewrite
<1> QED
  BY <1>2, <1>3

\* The completion of a write leaves none outstanding.
LEMMA LastWrite ==
  ASSUME IInv, writing # <<>>
  PROVE  Tail(writing) = <<>>
<1>1. writing \in Seq(Nat)
  BY DEF IInv, TypeOK
<1>2. Len(writing) <= 1
  BY DEF IInv, OneWriteOutstanding
<1>3. Tail(writing) \in Seq(Nat) /\ Len(writing) \in Nat \ {0} /\ Len(Tail(writing)) = Len(writing) - 1
  BY <1>1, TailTyped
<1>4. Len(Tail(writing)) = 0
  BY <1>2, <1>3, SMT
<1> QED
  BY <1>3, <1>4, EmptyTyped

\* A second write is never started.
LEMMA StepWriteLoop ==
  ASSUME IInv, [Next]_vars
  PROVE  OneWriteOutstanding' /\ MutexHeldInRewrite'
<1> USE DEF IInv
<1>1. ASSUME NEW t \in Threads, Continue(t) PROVE OneWriteOutstanding' /\ MutexHeldInRewrite'
  <2> USE DEF Goto, writeVars, lifeVars, readVars
  <2>1. CASE StartOk(t)
    BY <2>1, Frame DEF StartOk
  <2>2. CASE StartFails(t)
    BY <2>2, Frame DEF StartFails
  <2>3. CASE OnConnect(t)
    BY <2>3, Frame DEF OnConnect
  <2>4. CASE FirstRead(t)
    BY <2>4, Frame DEF FirstRead
  <2>5. CASE StartRead(t)
    BY <2>5, Frame DEF StartRead
  <2>6. CASE SendCheck(t)
    BY <2>6, Frame DEF SendCheck, TypeOK
  <2>7. CASE Push(t)
    <3>1. queue' # <<>> /\ (queue # <<>> => Head(queue') = Head(queue))
      BY <2>7, AppendTyped, EmptyTyped DEF Push, TypeOK
    <3>2. queue = <<>> => writing = <<>> /\ \A u \in Threads : ~Starting(u)
      BY DEF OneWriteOutstanding
    <3>3. pc'[t] \in {"startWrite", "idle", "startRead"} /\ (pc'[t] = "startWrite" => queue = <<>>)
      BY <2>7 DEF Push, TypeOK
    <3>4. \A u \in Threads \ {t} : pc'[u] = pc[u]
      BY <2>7 DEF Push, TypeOK
    <3>5. writing' = writing /\ writeMutex' = writeMutex /\ writeMutex = None
      BY <2>7 DEF Push
    <3>6. OneWriteOutstanding'
      BY <3>1, <3>2, <3>3, <3>4, <3>5 DEF OneWriteOutstanding, Starting
    <3>7. MutexHeldInRewrite'
      BY <3>3, <3>4, <3>5 DEF MutexHeldInRewrite
    <3> QED
      BY <3>6, <3>7
  <2>8. CASE StartWriteCheck(t)
    <3>1. /\ pc[t] = "startWrite" /\ pc'[t] \in {"initWrite", "idle", "startRead"}
          /\ \A u \in Threads \ {t} : pc'[u] = pc[u]
          /\ UNCHANGED writeVars
      BY <2>8 DEF StartWriteCheck, TypeOK
    <3>2. OneWriteOutstanding'
      BY <3>1 DEF OneWriteOutstanding, Starting
    <3>3. MutexHeldInRewrite'
      BY <3>1 DEF MutexHeldInRewrite, TypeOK
    <3> QED
      BY <3>2, <3>3
  <2>9. CASE InitWrite(t)
    <3>1. /\ pc'[t] \in {"idle", "startRead"} /\ \A u \in Threads \ {t} : pc'[u] = pc[u]
          /\ queue' = queue /\ writeMutex' = None /\ writeMutex = None
      BY <2>9 DEF InitWrite, TypeOK
    <3>2. Starting(t) /\ queue # <<>> /\ writing = <<>> /\ \A u \in Threads \ {t} : ~Starting(u)
      BY <2>9 DEF InitWrite, OneWriteOutstanding, Starting
    <3>3. writing' = <<Head(queue)>>
      BY <2>9, <3>2 DEF InitWrite
    <3>4. OneWriteOutstanding'
      BY <3>1, <3>2, <3>3 DEF OneWriteOutstanding, Starting
    <3>5. MutexHeldInRewrite'
      BY <3>1 DEF MutexHeldInRewrite
    <3> QED
      BY <3>4, <3>5
  <2>10. CASE RewriteSkipped(t) \/ RelockThrows(t)
    <3>1. /\ pc[t] = "rewrite" /\ pc'[t] \in {"idle", "gone"}
          /\ \A u \in Threads \ {t} : pc'[u] = pc[u]
          /\ queue' = queue /\ writing' = writing /\ writeMutex' = None
      BY <2>10 DEF RewriteSkipped, RelockThrows, TypeOK
    <3>2. \A u \in Threads \ {t} : pc[u] \notin {"rewrite", "stuck"}
      BY <3>1 DEF MutexHeldInRewrite
    <3>3. OneWriteOutstanding'
      BY <3>1 DEF OneWriteOutstanding, Starting
    <3>4. MutexHeldInRewrite'
      BY <3>1, <3>2 DEF MutexHeldInRewrite
    <3> QED
      BY <3>3, <3>4
  <2>11. CASE RelockBlocks(t)
    <3>1. /\ pc[t] = "rewrite" /\ pc'[t] = "stuck"
          /\ \A u \in Threads \ {t} : pc'[u] = pc[u]
          /\ UNCHANGED writeVars
      BY <2>11 DEF RelockBlocks, TypeOK
    <3>2. OneWriteOutstanding'
      BY <3>1 DEF OneWriteOutstanding, Starting
    <3>3. MutexHeldInRewrite'
      BY <3>1 DEF MutexHeldInRewrite
    <3> QED
      BY <3>2, <3>3
  <2>12. CASE CloseCheck(t)
    BY <2>12, Frame DEF CloseCheck
  <2>13. CASE CloseSocket(t)
    BY <2>13, Frame DEF CloseSocket
  <2>14. CASE CloseFlag(t)
    BY <2>14, Frame DEF CloseFlag
  <2>15. CASE CloseNotify(t)
    BY <2>15, Frame DEF CloseNotify
  <2> QED
    BY <1>1, <2>1, <2>2, <2>3, <2>4, <2>5, <2>6, <2>7, <2>8, <2>9, <2>10, <2>11,
       <2>12, <2>13, <2>14, <2>15
    DEF Continue
<1>2. ASSUME NEW t \in Threads, Complete(t) PROVE OneWriteOutstanding' /\ MutexHeldInRewrite'
  <2> USE DEF Goto, writeVars, lifeVars, readVars
  <2>1. CASE HandleReadOk(t)
    BY <2>1, Frame DEF HandleReadOk
  <2>2. CASE HandleReadError(t)
    BY <2>2, Frame DEF HandleReadError
  <2>3. CASE HandleWriteOk(t)
    <3>1. writing # <<>> /\ queue # <<>> /\ pc[t] = "idle" /\ writing' = Tail(writing)
      BY <2>3 DEF HandleWriteOk, OneWriteOutstanding
    <3>2. writing' = <<>>
      BY <3>1, LastWrite
    <3>3. \A u \in Threads : ~Starting(u) /\ pc[u] \notin {"rewrite", "stuck"}
      BY <3>1 DEF OneWriteOutstanding, MutexHeldInRewrite
    <3>4. /\ \A u \in Threads \ {t} : pc'[u] = pc[u]
          /\ \/ queue' = <<>> /\ pc'[t] = "idle" /\ writeMutex' = None
             \/ queue' # <<>> /\ pc'[t] = "rewrite" /\ writeMutex' = t
      BY <2>3, <3>1 DEF HandleWriteOk, TypeOK
    <3>5. OneWriteOutstanding'
      BY <3>2, <3>3, <3>4 DEF OneWriteOutstanding, Starting
    <3>6. MutexHeldInRewrite'
      BY <3>2, <3>3, <3>4 DEF MutexHeldInRewrite
    <3> QED
      BY <3>5, <3>6
  <2>4. CASE HandleWriteError(t)
    <3>1. writing # <<>> /\ pc[t] = "idle" /\ writing' = Tail(writing)
      BY <2>4 DEF HandleWriteError
    <3>2. writing' = <<>>
      BY <3>1, LastWrite
    <3>3. /\ pc'[t] = "close" /\ \A u \in Threads \ {t} : pc'[u] = pc[u]
          /\ queue' = queue /\ writeMutex' = writeMutex
      BY <2>4 DEF HandleWriteError, TypeOK
    <3>4. OneWriteOutstanding'
      BY <3>2, <3>3 DEF OneWriteOutstanding, Starting
    <3>5. MutexHeldInRewrite'
      BY <3>1, <3>2, <3>3 DEF MutexHeldInRewrite, TypeOK
    <3> QED
      BY <3>4, <3>5
  <2> QED
    BY <1>2, <2>1, <2>2, <2>3, <2>4 DEF Complete
<1>3. ASSUME NEW t \in Threads, Call(t) PROVE OneWriteOutstanding' /\ MutexHeldInRewrite'
  BY <1>3, Frame DEF Call, CallSend, CallClose, Goto
<1>4. CASE UNCHANGED <<writeVars, pc>>
  BY <1>4 DEF writeVars, OneWriteOutstanding, Starting, MutexHeldInRewrite
<1> QED
  BY <1>1, <1>2, <1>3, <1>4 DEF Next, PeerFails, vars, writeVars

-----------------------------------------------------------------------------
(* The stream *)

\* Every step maps to a step of the link or to none, and the queue continues the stream.
LEMMA StepStream ==
  ASSUME IInv, [Next]_vars
  PROVE  /\ QueueContinuesStream'
         /\ [Link!Next]_(Link!vars)
<1> USE DEF IInv
<1>1. CASE UNCHANGED <<queue, accepted, wire>>
  BY <1>1 DEF QueueContinuesStream, Link!vars
<1>2. ASSUME NEW t \in Threads, Push(t)
      PROVE  QueueContinuesStream' /\ Link!Accept
  <2>1. accepted' = accepted + 1 /\ queue' = Append(queue, accepted + 1) /\ wire' = wire
    BY <1>2 DEF Push
  <2>2. accepted \in Nat /\ queue \in Seq(Nat) /\ wire \in Seq(Nat \cup {Garbage})
    BY DEF TypeOK
  <2>3. /\ Len(queue') = Len(queue) + 1 /\ Len(queue) \in Nat /\ Len(wire) \in Nat
        /\ queue'[Len(queue) + 1] = accepted + 1
        /\ \A i \in 1..Len(queue) : queue'[i] = queue[i]
    BY <2>1, <2>2, AppendTyped, SMT
  <2>4. Len(wire') + Len(queue') = accepted'
    <3>1. Len(wire) + Len(queue) = accepted
      BY DEF QueueContinuesStream
    <3>2. Len(wire') = Len(wire) /\ Len(wire) \in Nat /\ Len(queue) \in Nat
      BY <2>1, <2>3
    <3>3. Len(queue') = Len(queue) + 1 /\ accepted' = accepted + 1
      BY <2>1, <2>3
    <3> QED
      BY <3>1, <3>2, <3>3
  <2>5. \A i \in 1..Len(queue') : queue'[i] = Len(wire') + i
    <3> SUFFICES ASSUME NEW i \in 1..Len(queue') PROVE queue'[i] = Len(wire') + i
      OBVIOUS
    <3>1. CASE i \in 1..Len(queue)
      BY <2>1, <2>3, <3>1 DEF QueueContinuesStream
    <3>2. CASE i = Len(queue) + 1
      <4>1. Len(wire) + Len(queue) = accepted
        BY DEF QueueContinuesStream
      <4>2. queue'[i] = accepted + 1 /\ Len(wire') = Len(wire)
        BY <2>1, <2>3, <3>2
      <4> QED
        BY <2>2, <2>3, <3>2, <4>1, <4>2
    <3> QED
      BY <2>3, <3>1, <3>2
  <2> QED
    BY <2>1, <2>4, <2>5 DEF QueueContinuesStream, Link!Accept
<1>3. ASSUME NEW t \in Threads, HandleWriteOk(t)
      PROVE  QueueContinuesStream' /\ Link!Transfer
  <2>1. writing # <<>> /\ queue # <<>> /\ Head(writing) = Head(queue)
    BY <1>3 DEF HandleWriteOk, OneWriteOutstanding
  <2>2. accepted \in Nat /\ queue \in Seq(Nat) /\ wire \in Seq(Nat \cup {Garbage})
    BY DEF TypeOK
  <2>3. /\ Len(queue) \in Nat \ {0} /\ Head(queue) = queue[1] /\ queue' = Tail(queue)
        /\ Len(queue') = Len(queue) - 1
        /\ \A i \in 1..Len(queue') : queue'[i] = queue[i + 1]
    BY <1>3, <2>1, <2>2, TailTyped DEF HandleWriteOk
  <2>4. Head(queue) = Len(wire) + 1 /\ Len(wire) \in Nat
    BY <2>2, <2>3 DEF QueueContinuesStream
  <2>5. PICK m \in {Len(wire) + 1, Garbage} : wire' = Append(wire, m)
    BY <1>3, <2>1, <2>4 DEF HandleWriteOk
  <2>6. /\ Len(wire') = Len(wire) + 1 /\ wire'[Len(wire) + 1] = m
        /\ \A i \in 1..Len(wire) : wire'[i] = wire[i]
    <3>1. m \in Nat \cup {Garbage}
      BY <2>4, <2>5
    <3> QED
      BY <2>2, <2>5, <3>1, AppendTyped
  <2>7. accepted' = accepted
    BY <1>3 DEF HandleWriteOk
  <2>8. Len(wire') + Len(queue') = accepted'
    <3>1. Len(wire) + Len(queue) = accepted
      BY DEF QueueContinuesStream
    <3>2. Len(wire') = Len(wire) + 1 /\ Len(queue') = Len(queue) - 1
      BY <2>3, <2>6
    <3>3. Len(wire) \in Nat /\ Len(queue) \in Nat
      BY <2>3, <2>4
    <3> QED
      BY <2>7, <3>1, <3>2, <3>3
  <2>9. \A i \in 1..Len(queue') : queue'[i] = Len(wire') + i
    BY <2>2, <2>3, <2>4, <2>6 DEF QueueContinuesStream
  <2>10. \A i \in 1..Len(wire') : wire'[i] \in {i, Garbage}
    <3> SUFFICES ASSUME NEW i \in 1..Len(wire') PROVE wire'[i] \in {i, Garbage}
      OBVIOUS
    <3>1. CASE i \in 1..Len(wire)
      BY <2>6, <3>1 DEF QueueContinuesStream
    <3>2. CASE i = Len(wire) + 1
      BY <2>5, <2>6, <3>2
    <3> QED
      BY <2>4, <2>6, <3>1, <3>2
  <2>11. Link!Transfer
    BY <2>2, <2>3, <2>4, <2>5, <2>7 DEF QueueContinuesStream, Link!Transfer
  <2> QED
    BY <2>8, <2>9, <2>10, <2>11 DEF QueueContinuesStream
<1>4. ASSUME NEW t \in Threads, Continue(t), ~Push(t)
      PROVE  UNCHANGED <<queue, accepted, wire>>
  BY <1>4
  DEF Continue, StartOk, StartFails, OnConnect, FirstRead, StartRead, SendCheck,
      StartWriteCheck, InitWrite, RewriteSkipped, RelockBlocks, RelockThrows,
      CloseCheck, CloseSocket, CloseFlag, CloseNotify, writeVars
<1>5. ASSUME NEW t \in Threads, Complete(t) \/ Call(t), ~HandleWriteOk(t)
      PROVE  UNCHANGED <<queue, accepted, wire>>
  BY <1>5
  DEF Complete, Call, HandleReadOk, HandleReadError, HandleWriteError, CallSend,
      CallClose, writeVars
<1>6. ASSUME PeerFails \/ UNCHANGED vars
      PROVE  UNCHANGED <<queue, accepted, wire>>
  BY <1>6 DEF PeerFails, vars, writeVars
<1> QED
  BY <1>1, <1>2, <1>3, <1>4, <1>5, <1>6 DEF Next, Link!Next

-----------------------------------------------------------------------------
(* Theorems *)

\* Nothing is queued or outstanding at first.
LEMMA InitInductive == Init => IInv
<1> SUFFICES ASSUME Init PROVE IInv
  OBVIOUS
<1>1. TypeOK
  BY InitTyped
<1>2. queue = <<>> /\ writing = <<>> /\ wire = <<>> /\ accepted = 0 /\ writeMutex = None
  BY DEF Init
<1>3. \A t \in Threads : pc[t] \in {"start", "idle"}
  BY DEF Init
<1>4. OneWriteOutstanding /\ MutexHeldInRewrite
  BY <1>2, <1>3 DEF OneWriteOutstanding, MutexHeldInRewrite, Starting
<1>5. QueueContinuesStream
  BY <1>2 DEF QueueContinuesStream
<1> QED
  BY <1>1, <1>4, <1>5 DEF IInv

\* The invariant of the write loop holds in every behaviour.
LEMMA Inductive == Spec => []IInv
<1>1. IInv /\ [Next]_vars => IInv'
  BY StepTyped, StepWriteLoop, StepStream DEF IInv
<1> QED
  BY InitInductive, <1>1, PTL DEF Spec

\* The variables of NetworkConnection keep their types; that pop() is never
\* called on an empty writeQueue_ is part of it.
THEOREM TypeCorrect == Spec => []TypeOK
BY Inductive, PTL DEF IInv

\* However many threads call send(), at most one async_write is outstanding,
\* and it is for the head of writeQueue_.
THEOREM WriteLoopCorrect == Spec => []OneWriteOutstanding
BY Inductive, PTL DEF IInv

\* writeMutex_ is held across steps only by a thread that relocks it in
\* handleWrite, with messages waiting and no write outstanding.
THEOREM MutexCorrect == Spec => []MutexHeldInRewrite
BY Inductive, PTL DEF IInv

\* The queue is what is left to write of the stream.
THEOREM StreamCorrect == Spec => []QueueContinuesStream
BY Inductive, PTL DEF IInv

\* The connection implements the FIFO link: the peer gets the messages in the
\* order send() accepted them, none skipped and none twice.
THEOREM ImplementsLink == Spec => LinkSpec
<1>1. Init => Link!Init
  BY DEF Init, Link!Init
<1>2. IInv /\ [Next]_vars => [Link!Next]_(Link!vars)
  BY StepStream
<1> QED
  BY Inductive, <1>1, <1>2, PTL DEF Spec, LinkSpec, Link!Spec

-----------------------------------------------------------------------------
(* The life of the connection and the read loop *)

\* Until start() has looked at the socket nothing happens to the connection: callers
\* that find it see connected_ false.
StartInv ==
  \A t \in Threads : pc[t] = "start" =>
    /\ ~connected /\ ~connectSeen /\ disconnects = 0 /\ readOps = 0
    /\ queue = <<>> /\ writing = <<>>
    /\ \A u \in Threads : pc[u] \in {"idle", "start", "send", "close"}

\* A thread comes back to startRead() only from a send() in between.
ContInv ==
  \A t \in Threads : cont[t] = "startRead" => pc[t] \in SendSteps \cup {"startRead"}

\* A thread that arms the next read when it gets there.
Reader(t) == Reading(t) \/ pc[t] = "start"

\* One thread or one outstanding read owns the buffer, from start() on.
ReadInv ==
  /\ readOps <= 1
  /\ \A t \in Threads : Reader(t) =>
       readOps = 0 /\ \A u \in Threads : Reader(u) => u = t

\* As long as the handler has not heard of an outgoing connection nobody has done
\* anything to it: callers cannot find it, or start() has failed for good.
OutboundInv ==
  outbound /\ ~connectSeen =>
    /\ disconnects = 0 /\ readOps = 0 /\ writing = <<>>
    /\ \A t \in Threads : cont[t] = "idle"
    /\ IF reachable
       THEN ~connected /\ \A t \in Threads : pc[t] \in {"idle", "send", "close"}
       ELSE \A t \in Threads : pc[t] \in {"idle", "start", "onConnect"}

\* connected_ goes down with a thread that will call onDisconnect, whether the
\* handler has heard onConnect yet or not.
ReportInv ==
  (connectSeen \/ \E t \in Threads : pc[t] = "onConnect") /\ ~connected =>
    disconnects > 0 \/ \E t \in Threads : pc[t] = "notify"

LifeInv ==
  /\ StartInv /\ ContInv /\ ReadInv /\ OutboundInv /\ ReportInv
  /\ StallOnlyByRelock

\* Only start() leaves its first step.
LEMMA StartStep ==
  ASSUME IInv, LifeInv, Next
  PROVE  StartInv'
<1> USE DEF TypeOK, Goto, Steps, SendSteps, CloseSteps, lifeVars, readVars, writeVars,
        StartInv, ContInv, ReadInv, Reader, Reading
<1>0. /\ TypeOK /\ StartInv /\ ContInv /\ ReadInv /\ OutboundInv /\ ReportInv
      /\ OneWriteOutstanding
  BY DEF IInv, LifeInv
<1>1. ASSUME NEW t \in Threads, StartOk(t) PROVE StartInv'
  BY <1>0, <1>1 DEF StartOk
<1>2. ASSUME NEW t \in Threads, StartFails(t) PROVE StartInv'
  BY <1>0, <1>2 DEF StartFails
<1>3. ASSUME NEW t \in Threads, OnConnect(t) PROVE StartInv'
  BY <1>0, <1>3 DEF OnConnect
<1>4. ASSUME NEW t \in Threads, FirstRead(t) PROVE StartInv'
  BY <1>0, <1>4 DEF FirstRead
<1>5. ASSUME NEW t \in Threads, StartRead(t) PROVE StartInv'
  BY <1>0, <1>5 DEF StartRead
<1>6. ASSUME NEW t \in Threads, SendCheck(t) PROVE StartInv'
  BY <1>0, <1>6 DEF SendCheck
<1>7. ASSUME NEW t \in Threads, Push(t) PROVE StartInv'
  BY <1>0, <1>7 DEF Push
<1>8. ASSUME NEW t \in Threads, StartWriteCheck(t) PROVE StartInv'
  BY <1>0, <1>8 DEF StartWriteCheck
<1>9. ASSUME NEW t \in Threads, InitWrite(t) PROVE StartInv'
  BY <1>0, <1>9 DEF InitWrite
<1>10. ASSUME NEW t \in Threads, RewriteSkipped(t) PROVE StartInv'
  BY <1>0, <1>10 DEF RewriteSkipped
<1>11. ASSUME NEW t \in Threads, RelockBlocks(t) PROVE StartInv'
  BY <1>0, <1>11 DEF RelockBlocks
<1>12. ASSUME NEW t \in Threads, RelockThrows(t) PROVE StartInv'
  BY <1>0, <1>12 DEF RelockThrows
<1>13. ASSUME NEW t \in Threads, CloseCheck(t) PROVE StartInv'
  BY <1>0, <1>13 DEF CloseCheck
<1>14. ASSUME NEW t \in Threads, CloseSocket(t) PROVE StartInv'
  BY <1>0, <1>14 DEF CloseSocket
<1>15. ASSUME NEW t \in Threads, CloseFlag(t) PROVE StartInv'
  BY <1>0, <1>15 DEF CloseFlag
<1>16. ASSUME NEW t \in Threads, CloseNotify(t) PROVE StartInv'
  BY <1>0, <1>16 DEF CloseNotify
<1>17. ASSUME NEW t \in Threads, HandleReadOk(t) PROVE StartInv'
  BY <1>0, <1>17 DEF HandleReadOk
<1>18. ASSUME NEW t \in Threads, HandleReadError(t) PROVE StartInv'
  BY <1>0, <1>18 DEF HandleReadError
<1>19. ASSUME NEW t \in Threads, HandleWriteOk(t) PROVE StartInv'
  BY <1>0, <1>19 DEF HandleWriteOk
<1>20. ASSUME NEW t \in Threads, HandleWriteError(t) PROVE StartInv'
  BY <1>0, <1>20 DEF HandleWriteError
<1>21. ASSUME NEW t \in Threads, CallSend(t) PROVE StartInv'
  BY <1>0, <1>21 DEF CallSend
<1>22. ASSUME NEW t \in Threads, CallClose(t) PROVE StartInv'
  BY <1>0, <1>22 DEF CallClose
<1>23. CASE PeerFails
  BY <1>0, <1>23 DEF PeerFails
<1> QED
  BY <1>1, <1>2, <1>3, <1>4, <1>5, <1>6, <1>7, <1>8, <1>9, <1>10, <1>11, <1>12, <1>13,
     <1>14, <1>15, <1>16, <1>17, <1>18, <1>19, <1>20, <1>21, <1>22, <1>23 DEF Next,
     Continue, Complete, Call

\* send() returns to where it was called.
LEMMA ContStep ==
  ASSUME IInv, LifeInv, Next
  PROVE  ContInv'
<1> USE DEF TypeOK, Goto, Steps, SendSteps, CloseSteps, lifeVars, readVars, writeVars,
        ContInv
<1>0. TypeOK /\ StartInv /\ ContInv /\ ReadInv /\ OutboundInv /\ ReportInv
  BY DEF IInv, LifeInv
<1>1. ASSUME NEW t \in Threads, StartOk(t) PROVE ContInv'
  BY <1>0, <1>1 DEF StartOk
<1>2. ASSUME NEW t \in Threads, StartFails(t) PROVE ContInv'
  BY <1>0, <1>2 DEF StartFails
<1>3. ASSUME NEW t \in Threads, OnConnect(t) PROVE ContInv'
  BY <1>0, <1>3 DEF OnConnect
<1>4. ASSUME NEW t \in Threads, FirstRead(t) PROVE ContInv'
  BY <1>0, <1>4 DEF FirstRead
<1>5. ASSUME NEW t \in Threads, StartRead(t) PROVE ContInv'
  BY <1>0, <1>5 DEF StartRead
<1>6. ASSUME NEW t \in Threads, SendCheck(t) PROVE ContInv'
  BY <1>0, <1>6 DEF SendCheck
<1>7. ASSUME NEW t \in Threads, Push(t) PROVE ContInv'
  BY <1>0, <1>7 DEF Push
<1>8. ASSUME NEW t \in Threads, StartWriteCheck(t) PROVE ContInv'
  BY <1>0, <1>8 DEF StartWriteCheck
<1>9. ASSUME NEW t \in Threads, InitWrite(t) PROVE ContInv'
  BY <1>0, <1>9 DEF InitWrite
<1>10. ASSUME NEW t \in Threads, RewriteSkipped(t) PROVE ContInv'
  BY <1>0, <1>10 DEF RewriteSkipped
<1>11. ASSUME NEW t \in Threads, RelockBlocks(t) PROVE ContInv'
  BY <1>0, <1>11 DEF RelockBlocks
<1>12. ASSUME NEW t \in Threads, RelockThrows(t) PROVE ContInv'
  BY <1>0, <1>12 DEF RelockThrows
<1>13. ASSUME NEW t \in Threads, CloseCheck(t) PROVE ContInv'
  BY <1>0, <1>13 DEF CloseCheck
<1>14. ASSUME NEW t \in Threads, CloseSocket(t) PROVE ContInv'
  BY <1>0, <1>14 DEF CloseSocket
<1>15. ASSUME NEW t \in Threads, CloseFlag(t) PROVE ContInv'
  BY <1>0, <1>15 DEF CloseFlag
<1>16. ASSUME NEW t \in Threads, CloseNotify(t) PROVE ContInv'
  BY <1>0, <1>16 DEF CloseNotify
<1>17. ASSUME NEW t \in Threads, HandleReadOk(t) PROVE ContInv'
  BY <1>0, <1>17 DEF HandleReadOk
<1>18. ASSUME NEW t \in Threads, HandleReadError(t) PROVE ContInv'
  BY <1>0, <1>18 DEF HandleReadError
<1>19. ASSUME NEW t \in Threads, HandleWriteOk(t) PROVE ContInv'
  BY <1>0, <1>19 DEF HandleWriteOk
<1>20. ASSUME NEW t \in Threads, HandleWriteError(t) PROVE ContInv'
  BY <1>0, <1>20 DEF HandleWriteError
<1>21. ASSUME NEW t \in Threads, CallSend(t) PROVE ContInv'
  BY <1>0, <1>21 DEF CallSend
<1>22. ASSUME NEW t \in Threads, CallClose(t) PROVE ContInv'
  BY <1>0, <1>22 DEF CallClose
<1>23. CASE PeerFails
  BY <1>0, <1>23 DEF PeerFails
<1> QED
  BY <1>1, <1>2, <1>3, <1>4, <1>5, <1>6, <1>7, <1>8, <1>9, <1>10, <1>11, <1>12, <1>13,
     <1>14, <1>15, <1>16, <1>17, <1>18, <1>19, <1>20, <1>21, <1>22, <1>23 DEF Next,
     Continue, Complete, Call

\* The buffer changes hands.
LEMMA ReadStep ==
  ASSUME IInv, LifeInv, Next
  PROVE  ReadInv'
<1> USE DEF TypeOK, Goto, Steps, SendSteps, CloseSteps, lifeVars, readVars, writeVars,
        StartInv, ContInv, ReadInv, Reader, Reading
<1>0. TypeOK /\ StartInv /\ ContInv /\ ReadInv /\ OutboundInv /\ ReportInv
  BY DEF IInv, LifeInv
<1>1. ASSUME NEW t \in Threads, StartOk(t) PROVE ReadInv'
  BY <1>0, <1>1 DEF StartOk
<1>2. ASSUME NEW t \in Threads, StartFails(t) PROVE ReadInv'
  BY <1>0, <1>2 DEF StartFails
<1>3. ASSUME NEW t \in Threads, OnConnect(t) PROVE ReadInv'
  BY <1>0, <1>3 DEF OnConnect
<1>4. ASSUME NEW t \in Threads, FirstRead(t) PROVE ReadInv'
  BY <1>0, <1>4 DEF FirstRead
<1>5. ASSUME NEW t \in Threads, StartRead(t) PROVE ReadInv'
  BY <1>0, <1>5 DEF StartRead
<1>6. ASSUME NEW t \in Threads, SendCheck(t) PROVE ReadInv'
  BY <1>0, <1>6 DEF SendCheck
<1>7. ASSUME NEW t \in Threads, Push(t) PROVE ReadInv'
  BY <1>0, <1>7 DEF Push
<1>8. ASSUME NEW t \in Threads, StartWriteCheck(t) PROVE ReadInv'
  BY <1>0, <1>8 DEF StartWriteCheck
<1>9. ASSUME NEW t \in Threads, InitWrite(t) PROVE ReadInv'
  BY <1>0, <1>9 DEF InitWrite
<1>10. ASSUME NEW t \in Threads, RewriteSkipped(t) PROVE ReadInv'
  BY <1>0, <1>10 DEF RewriteSkipped
<1>11. ASSUME NEW t \in Threads, RelockBlocks(t) PROVE ReadInv'
  BY <1>0, <1>11 DEF RelockBlocks
<1>12. ASSUME NEW t \in Threads, RelockThrows(t) PROVE ReadInv'
  BY <1>0, <1>12 DEF RelockThrows
<1>13. ASSUME NEW t \in Threads, CloseCheck(t) PROVE ReadInv'
  BY <1>0, <1>13 DEF CloseCheck
<1>14. ASSUME NEW t \in Threads, CloseSocket(t) PROVE ReadInv'
  BY <1>0, <1>14 DEF CloseSocket
<1>15. ASSUME NEW t \in Threads, CloseFlag(t) PROVE ReadInv'
  BY <1>0, <1>15 DEF CloseFlag
<1>16. ASSUME NEW t \in Threads, CloseNotify(t) PROVE ReadInv'
  BY <1>0, <1>16 DEF CloseNotify
<1>17. ASSUME NEW t \in Threads, HandleReadOk(t) PROVE ReadInv'
  BY <1>0, <1>17 DEF HandleReadOk
<1>18. ASSUME NEW t \in Threads, HandleReadError(t) PROVE ReadInv'
  BY <1>0, <1>18 DEF HandleReadError
<1>19. ASSUME NEW t \in Threads, HandleWriteOk(t) PROVE ReadInv'
  BY SMTT(30), <1>0, <1>19 DEF HandleWriteOk
<1>20. ASSUME NEW t \in Threads, HandleWriteError(t) PROVE ReadInv'
  BY <1>0, <1>20 DEF HandleWriteError
<1>21. ASSUME NEW t \in Threads, CallSend(t) PROVE ReadInv'
  BY <1>0, <1>21 DEF CallSend
<1>22. ASSUME NEW t \in Threads, CallClose(t) PROVE ReadInv'
  BY <1>0, <1>22 DEF CallClose
<1>23. CASE PeerFails
  BY <1>0, <1>23 DEF PeerFails
<1> QED
  BY <1>1, <1>2, <1>3, <1>4, <1>5, <1>6, <1>7, <1>8, <1>9, <1>10, <1>11, <1>12, <1>13,
     <1>14, <1>15, <1>16, <1>17, <1>18, <1>19, <1>20, <1>21, <1>22, <1>23 DEF Next,
     Continue, Complete, Call

\* connect() lets nobody in before start() has returned.
LEMMA OutboundStep ==
  ASSUME IInv, LifeInv, Next
  PROVE  OutboundInv'
<1> USE DEF TypeOK, Goto, Steps, SendSteps, CloseSteps, lifeVars, readVars, writeVars,
        StartInv, ContInv, ReadInv, Reader, Reading, OutboundInv
<1>0. TypeOK /\ StartInv /\ ContInv /\ ReadInv /\ OutboundInv /\ ReportInv /\ MutexHeldInRewrite
  BY DEF IInv, LifeInv
<1>1. ASSUME NEW t \in Threads, StartOk(t) PROVE OutboundInv'
  BY <1>0, <1>1 DEF StartOk
<1>2. ASSUME NEW t \in Threads, StartFails(t) PROVE OutboundInv'
  BY <1>0, <1>2 DEF StartFails
<1>3. ASSUME NEW t \in Threads, OnConnect(t) PROVE OutboundInv'
  BY <1>0, <1>3 DEF OnConnect
<1>4. ASSUME NEW t \in Threads, FirstRead(t) PROVE OutboundInv'
  BY <1>0, <1>4 DEF FirstRead
<1>5. ASSUME NEW t \in Threads, StartRead(t) PROVE OutboundInv'
  BY <1>0, <1>5 DEF StartRead
<1>6. ASSUME NEW t \in Threads, SendCheck(t) PROVE OutboundInv'
  BY <1>0, <1>6 DEF SendCheck
<1>7. ASSUME NEW t \in Threads, Push(t) PROVE OutboundInv'
  BY <1>0, <1>7 DEF Push
<1>8. ASSUME NEW t \in Threads, StartWriteCheck(t) PROVE OutboundInv'
  BY <1>0, <1>8 DEF StartWriteCheck
<1>9. ASSUME NEW t \in Threads, InitWrite(t) PROVE OutboundInv'
  BY <1>0, <1>9 DEF InitWrite
<1>10. ASSUME NEW t \in Threads, RewriteSkipped(t) PROVE OutboundInv'
  BY <1>0, <1>10 DEF RewriteSkipped
<1>11. ASSUME NEW t \in Threads, RelockBlocks(t) PROVE OutboundInv'
  BY <1>0, <1>11 DEF RelockBlocks
<1>12. ASSUME NEW t \in Threads, RelockThrows(t) PROVE OutboundInv'
  BY <1>0, <1>12 DEF RelockThrows
<1>13. ASSUME NEW t \in Threads, CloseCheck(t) PROVE OutboundInv'
  BY <1>0, <1>13 DEF CloseCheck
<1>14. ASSUME NEW t \in Threads, CloseSocket(t) PROVE OutboundInv'
  BY <1>0, <1>14 DEF CloseSocket
<1>15. ASSUME NEW t \in Threads, CloseFlag(t) PROVE OutboundInv'
  BY <1>0, <1>15 DEF CloseFlag
<1>16. ASSUME NEW t \in Threads, CloseNotify(t) PROVE OutboundInv'
  BY <1>0, <1>16 DEF CloseNotify
<1>17. ASSUME NEW t \in Threads, HandleReadOk(t) PROVE OutboundInv'
  BY <1>0, <1>17 DEF HandleReadOk
<1>18. ASSUME NEW t \in Threads, HandleReadError(t) PROVE OutboundInv'
  BY <1>0, <1>18 DEF HandleReadError
<1>19. ASSUME NEW t \in Threads, HandleWriteOk(t) PROVE OutboundInv'
  BY <1>0, <1>19 DEF HandleWriteOk
<1>20. ASSUME NEW t \in Threads, HandleWriteError(t) PROVE OutboundInv'
  BY <1>0, <1>20 DEF HandleWriteError
<1>21. ASSUME NEW t \in Threads, CallSend(t) PROVE OutboundInv'
  BY <1>0, <1>21 DEF CallSend
<1>22. ASSUME NEW t \in Threads, CallClose(t) PROVE OutboundInv'
  BY <1>0, <1>22 DEF CallClose
<1>23. CASE PeerFails
  BY <1>0, <1>23 DEF PeerFails
<1> QED
  BY <1>1, <1>2, <1>3, <1>4, <1>5, <1>6, <1>7, <1>8, <1>9, <1>10, <1>11, <1>12, <1>13,
     <1>14, <1>15, <1>16, <1>17, <1>18, <1>19, <1>20, <1>21, <1>22, <1>23 DEF Next,
     Continue, Complete, Call

\* Who resets connected_ goes on to onDisconnect.
LEMMA ReportStep ==
  ASSUME IInv, LifeInv, Next
  PROVE  ReportInv'
<1> USE DEF TypeOK, Goto, Steps, SendSteps, CloseSteps, lifeVars, readVars, writeVars,
        StartInv, ReportInv
<1>0. TypeOK /\ StartInv /\ ContInv /\ ReadInv /\ OutboundInv /\ ReportInv
  BY DEF IInv, LifeInv
<1>1. ASSUME NEW t \in Threads, StartOk(t) PROVE ReportInv'
  BY <1>0, <1>1 DEF StartOk
<1>2. ASSUME NEW t \in Threads, StartFails(t) PROVE ReportInv'
  BY <1>0, <1>2 DEF StartFails
<1>3. ASSUME NEW t \in Threads, OnConnect(t) PROVE ReportInv'
  BY <1>0, <1>3 DEF OnConnect
<1>4. ASSUME NEW t \in Threads, FirstRead(t) PROVE ReportInv'
  BY <1>0, <1>4 DEF FirstRead
<1>5. ASSUME NEW t \in Threads, StartRead(t) PROVE ReportInv'
  BY <1>0, <1>5 DEF StartRead
<1>6. ASSUME NEW t \in Threads, SendCheck(t) PROVE ReportInv'
  BY <1>0, <1>6 DEF SendCheck
<1>7. ASSUME NEW t \in Threads, Push(t) PROVE ReportInv'
  BY <1>0, <1>7 DEF Push
<1>8. ASSUME NEW t \in Threads, StartWriteCheck(t) PROVE ReportInv'
  BY <1>0, <1>8 DEF StartWriteCheck
<1>9. ASSUME NEW t \in Threads, InitWrite(t) PROVE ReportInv'
  BY <1>0, <1>9 DEF InitWrite
<1>10. ASSUME NEW t \in Threads, RewriteSkipped(t) PROVE ReportInv'
  BY <1>0, <1>10 DEF RewriteSkipped
<1>11. ASSUME NEW t \in Threads, RelockBlocks(t) PROVE ReportInv'
  BY <1>0, <1>11 DEF RelockBlocks
<1>12. ASSUME NEW t \in Threads, RelockThrows(t) PROVE ReportInv'
  BY <1>0, <1>12 DEF RelockThrows
<1>13. ASSUME NEW t \in Threads, CloseCheck(t) PROVE ReportInv'
  BY <1>0, <1>13 DEF CloseCheck
<1>14. ASSUME NEW t \in Threads, CloseSocket(t) PROVE ReportInv'
  BY <1>0, <1>14 DEF CloseSocket
<1>15. ASSUME NEW t \in Threads, CloseFlag(t) PROVE ReportInv'
  BY <1>0, <1>15 DEF CloseFlag
<1>16. ASSUME NEW t \in Threads, CloseNotify(t) PROVE ReportInv'
  BY <1>0, <1>16 DEF CloseNotify
<1>17. ASSUME NEW t \in Threads, HandleReadOk(t) PROVE ReportInv'
  BY <1>0, <1>17 DEF HandleReadOk
<1>18. ASSUME NEW t \in Threads, HandleReadError(t) PROVE ReportInv'
  BY <1>0, <1>18 DEF HandleReadError
<1>19. ASSUME NEW t \in Threads, HandleWriteOk(t) PROVE ReportInv'
  BY <1>0, <1>19 DEF HandleWriteOk
<1>20. ASSUME NEW t \in Threads, HandleWriteError(t) PROVE ReportInv'
  BY <1>0, <1>20 DEF HandleWriteError
<1>21. ASSUME NEW t \in Threads, CallSend(t) PROVE ReportInv'
  BY <1>0, <1>21 DEF CallSend
<1>22. ASSUME NEW t \in Threads, CallClose(t) PROVE ReportInv'
  BY <1>0, <1>22 DEF CallClose
<1>23. CASE PeerFails
  BY <1>0, <1>23 DEF PeerFails
<1> QED
  BY <1>1, <1>2, <1>3, <1>4, <1>5, <1>6, <1>7, <1>8, <1>9, <1>10, <1>11, <1>12, <1>13,
     <1>14, <1>15, <1>16, <1>17, <1>18, <1>19, <1>20, <1>21, <1>22, <1>23 DEF Next,
     Continue, Complete, Call

\* Whoever leaves the write loop leaves it to somebody else.
LEMMA StallStep ==
  ASSUME IInv, LifeInv, Next
  PROVE  StallOnlyByRelock'
<1> USE DEF TypeOK, Goto, Steps, SendSteps, CloseSteps, lifeVars, readVars, writeVars,
        StartInv, StallOnlyByRelock, Starting, Relocking, Relocked, Closing
<1>0. /\ TypeOK /\ StartInv /\ ContInv /\ ReadInv /\ OutboundInv /\ ReportInv
      /\ StallOnlyByRelock /\ OneWriteOutstanding
  BY DEF IInv, LifeInv
<1>1. ASSUME NEW t \in Threads, StartOk(t) PROVE StallOnlyByRelock'
  BY <1>0, <1>1 DEF StartOk
<1>2. ASSUME NEW t \in Threads, StartFails(t) PROVE StallOnlyByRelock'
  BY <1>0, <1>2 DEF StartFails
<1>3. ASSUME NEW t \in Threads, OnConnect(t) PROVE StallOnlyByRelock'
  BY <1>0, <1>3 DEF OnConnect
<1>4. ASSUME NEW t \in Threads, FirstRead(t) PROVE StallOnlyByRelock'
  BY <1>0, <1>4 DEF FirstRead
<1>5. ASSUME NEW t \in Threads, StartRead(t) PROVE StallOnlyByRelock'
  BY <1>0, <1>5 DEF StartRead
<1>6. ASSUME NEW t \in Threads, SendCheck(t) PROVE StallOnlyByRelock'
  BY <1>0, <1>6 DEF SendCheck
<1>7. ASSUME NEW t \in Threads, Push(t) PROVE StallOnlyByRelock'
  BY <1>0, <1>7 DEF Push
<1>8. ASSUME NEW t \in Threads, StartWriteCheck(t) PROVE StallOnlyByRelock'
  BY <1>0, <1>8 DEF StartWriteCheck
<1>9. ASSUME NEW t \in Threads, InitWrite(t) PROVE StallOnlyByRelock'
  <2>1. Starting(t) /\ queue # <<>> /\ writing' = Append(writing, Head(queue))
    BY <1>0, <1>9 DEF InitWrite, OneWriteOutstanding
  <2>2. Len(writing') > 0
    <3>1. Head(queue) \in Nat /\ writing \in Seq(Nat)
      BY <1>0, <2>1, TailTyped
    <3> QED
      BY <2>1, <3>1, AppendTyped
  <2> QED
    BY <2>2
<1>10. ASSUME NEW t \in Threads, RewriteSkipped(t) PROVE StallOnlyByRelock'
  BY <1>0, <1>10 DEF RewriteSkipped
<1>11. ASSUME NEW t \in Threads, RelockBlocks(t) PROVE StallOnlyByRelock'
  BY <1>0, <1>11 DEF RelockBlocks
<1>12. ASSUME NEW t \in Threads, RelockThrows(t) PROVE StallOnlyByRelock'
  BY <1>0, <1>12 DEF RelockThrows
<1>13. ASSUME NEW t \in Threads, CloseCheck(t) PROVE StallOnlyByRelock'
  BY <1>0, <1>13 DEF CloseCheck
<1>14. ASSUME NEW t \in Threads, CloseSocket(t) PROVE StallOnlyByRelock'
  BY <1>0, <1>14 DEF CloseSocket
<1>15. ASSUME NEW t \in Threads, CloseFlag(t) PROVE StallOnlyByRelock'
  BY <1>0, <1>15 DEF CloseFlag
<1>16. ASSUME NEW t \in Threads, CloseNotify(t) PROVE StallOnlyByRelock'
  BY <1>0, <1>16 DEF CloseNotify
<1>17. ASSUME NEW t \in Threads, HandleReadOk(t) PROVE StallOnlyByRelock'
  BY <1>0, <1>17 DEF HandleReadOk
<1>18. ASSUME NEW t \in Threads, HandleReadError(t) PROVE StallOnlyByRelock'
  BY <1>0, <1>18 DEF HandleReadError
<1>19. ASSUME NEW t \in Threads, HandleWriteOk(t) PROVE StallOnlyByRelock'
  BY <1>0, <1>19 DEF HandleWriteOk
<1>20. ASSUME NEW t \in Threads, HandleWriteError(t) PROVE StallOnlyByRelock'
  BY <1>0, <1>20 DEF HandleWriteError
<1>21. ASSUME NEW t \in Threads, CallSend(t) PROVE StallOnlyByRelock'
  BY <1>0, <1>21 DEF CallSend
<1>22. ASSUME NEW t \in Threads, CallClose(t) PROVE StallOnlyByRelock'
  BY <1>0, <1>22 DEF CallClose
<1>23. CASE PeerFails
  BY <1>0, <1>23 DEF PeerFails
<1> QED
  BY <1>1, <1>2, <1>3, <1>4, <1>5, <1>6, <1>7, <1>8, <1>9, <1>10, <1>11, <1>12, <1>13,
     <1>14, <1>15, <1>16, <1>17, <1>18, <1>19, <1>20, <1>21, <1>22, <1>23 DEF Next,
     Continue, Complete, Call

\* The invariant of the read loop and of the callbacks holds in every behaviour.
LEMMA LifeInductive == Spec => []LifeInv
<1>1. Init => LifeInv
  <2> SUFFICES ASSUME Init PROVE LifeInv
    OBVIOUS
  <2>1. PICK t \in IoThreads : pc = [u \in Threads |-> IF u = t THEN "start" ELSE "idle"]
    BY DEF Init
  <2>2. /\ \A u \in Threads : pc[u] = IF u = t THEN "start" ELSE "idle"
        /\ cont = [u \in Threads |-> "idle"] /\ reachable = ~outbound
        /\ outbound \in BOOLEAN /\ connected = FALSE /\ connectSeen = FALSE
        /\ disconnects = 0 /\ readOps = 0 /\ queue = <<>> /\ writing = <<>>
    BY <2>1 DEF Init
  <2>3. StartInv /\ ContInv /\ StallOnlyByRelock
    BY <2>2 DEF StartInv, ContInv, StallOnlyByRelock
  <2>4. ReadInv
    BY <2>2 DEF ReadInv, Reader, Reading, SendSteps
  <2>5. OutboundInv
    BY <2>2 DEF OutboundInv
  <2>6. ReportInv
    BY <2>2 DEF ReportInv
  <2> QED
    BY <2>3, <2>4, <2>5, <2>6 DEF LifeInv
<1>2. IInv /\ LifeInv /\ [Next]_vars => LifeInv'
  <2> SUFFICES ASSUME IInv, LifeInv, [Next]_vars PROVE LifeInv'
    OBVIOUS
  <2>1. CASE Next
    BY <2>1, StartStep, ContStep, ReadStep, OutboundStep, ReportStep, StallStep
       DEF LifeInv
  <2>2. CASE UNCHANGED vars
    BY <2>2 DEF vars, LifeInv, StartInv, ContInv, ReadInv, Reader, Reading,
       OutboundInv, ReportInv, StallOnlyByRelock, Starting, Relocking, Relocked,
       Closing, SendSteps
  <2> QED
    BY <2>1, <2>2
<1> QED
  BY Inductive, <1>1, <1>2, PTL DEF Spec

\* The write loop stops with a message left only when the connection is closed or a
\* thread has relocked writeMutex_.
THEOREM StallCorrect == Spec => []StallOnlyByRelock
BY LifeInductive, PTL DEF LifeInv

\* readBuffer_ has one owner at a time: an outstanding async_read_some, or one thread
\* between the completion of a read and the next startRead().
THEOREM ReadLoopCorrect == Spec => []OneReadOutstanding
<1>1. LifeInv => OneReadOutstanding
  BY DEF LifeInv, ReadInv, Reader, OneReadOutstanding
<1> QED
  BY <1>1, LifeInductive, PTL

\* Whoever resets connected_ tells the handler, of an incoming connection that was
\* closed inside onConnect as well.
THEOREM ReportCorrect == Spec => []DisconnectReported
<1>1. LifeInv => DisconnectReported
  BY DEF LifeInv, ReportInv, DisconnectReported
<1> QED
  BY <1>1, LifeInductive, PTL

\* The handler of an outgoing connection hears onConnect before onDisconnect, because
\* connect() keeps connectionsMutex_ until start() has returned.
THEOREM OrderCorrect == Spec => []OutboundConnectFirst
<1>1. LifeInv => OutboundConnectFirst
  <2> SUFFICES ASSUME LifeInv, outbound, disconnects > 0, ~connectSeen PROVE FALSE
    BY DEF OutboundConnectFirst
  <2> QED
    BY DEF LifeInv, OutboundInv
<1> QED
  BY <1>1, LifeInductive, PTL
=============================================================================
