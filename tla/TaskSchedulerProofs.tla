------------------------ MODULE TaskSchedulerProofs ------------------------
(***************************************************************************)
(* Proofs about TaskScheduler for every number of users, tasks and starts  *)
(* and all delays and intervals: the map and the queue hold the same       *)
(* tasks, a task that is not recurring is executed once, the thread does   *)
(* not oversleep, and executions keep their distance.                      *)
(***************************************************************************)
EXTENDS TaskScheduler, TLAPS

\* An id that generateTaskId() has not drawn yet is nowhere.
FreshIds ==
  \A i \in Ids : i >= nextId => i \notin queue /\ pops[i] = 0

\* An id a user is about to insert is its alone, and in neither structure.
PendingIds ==
  \A u \in Users : upc[u] > 0 =>
    /\ upc[u] < nextId /\ upc[u] \notin queue /\ pops[upc[u]] = 0
    /\ \A v \in Users \ {u} : upc[v] # upc[u]

\* The copies in the queue are never earlier than those of the map, and are one
\* interval after the last execution unless a cancellation has put them back.
DueInTime ==
  \A i \in queue :
    /\ due[i] >= first[i]
    /\ pops[i] > 0 /\ i \notin stale => due[i] >= lastPop[i] + interval[i]

\* SameTasks and NoOversleep carry themselves; OnceMeansOnce and Spacing need
\* that a task is inserted once, before its first execution.
IInv ==
  /\ TypeOK
  /\ SameTasks
  /\ OnceMeansOnce
  /\ NoOversleep
  /\ FreshIds
  /\ PendingIds
  /\ DueInTime

-----------------------------------------------------------------------------
(* Initial states and types *)

\* Nothing is scheduled at first.
LEMMA InitInductive == Init => IInv
<1> SUFFICES ASSUME Init PROVE IInv
  OBVIOUS
<1>1. TypeOK
  <2> USE DEF Init, Ids
  <2>1. now \in 0..MaxTime /\ nextId \in 1..(MaxTasks + 1) /\ starts \in 0..MaxStarts
    BY BoundsAssumption
  <2>6. running \in BOOLEAN /\ stopReq \in BOOLEAN
    OBVIOUS
  <2>2. /\ scheduled \subseteq Ids /\ queue \subseteq Ids /\ stale \subseteq Ids
        /\ first \in [Ids -> Nat] /\ due \in [Ids -> Nat]
    OBVIOUS
  <2>3. interval \in [Ids -> Intervals \cup {0}] /\ upc \in [Users -> Ids \cup {0}]
    OBVIOUS
  <2>4. /\ spc \in {"off", "loop", "look", "wait", "sleep", "execute"}
        /\ opc \in {"idle", "join", "clear"}
        /\ target \in Nat /\ popped \in Ids \cup {0}
    OBVIOUS
  <2>5. pops \in [Ids -> Nat] /\ lastPop \in [Ids -> 0..MaxTime]
    BY BoundsAssumption
  <2> QED
    BY <2>1, <2>2, <2>3, <2>4, <2>5, <2>6 DEF TypeOK
<1>2. SameTasks /\ OnceMeansOnce /\ NoOversleep
  BY DEF Init, SameTasks, OnceMeansOnce, NoOversleep
<1>3. FreshIds /\ PendingIds /\ DueInTime
  BY DEF Init, FreshIds, PendingIds, DueInTime
<1> QED
  BY <1>1, <1>2, <1>3 DEF IInv

\* The times and counts are natural numbers.
LEMMA Numbers ==
  ASSUME TypeOK
  PROVE  /\ now \in Nat
         /\ \A i \in Ids : /\ first[i] \in Nat /\ due[i] \in Nat /\ interval[i] \in Nat
                           /\ pops[i] \in Nat /\ lastPop[i] \in Nat
<1>1. now \in Nat
  BY BoundsAssumption DEF TypeOK
<1>2. \A i \in Ids : first[i] \in Nat /\ due[i] \in Nat /\ pops[i] \in Nat
  BY DEF TypeOK
<1>3. \A i \in Ids : lastPop[i] \in Nat
  BY BoundsAssumption DEF TypeOK
<1>4. \A i \in Ids : interval[i] \in Nat
  <2>1. Intervals \cup {0} \subseteq Nat
    BY TimesAssumption
  <2>2. interval \in [Ids -> Intervals \cup {0}]
    BY DEF TypeOK
  <2> QED
    BY <2>1, <2>2
<1> QED
  BY <1>1, <1>2, <1>3, <1>4

\* Types are kept.
LEMMA StepTyped ==
  ASSUME TypeOK, [Next]_vars
  PROVE  TypeOK'
<1> USE DEF TypeOK, taskVars, threadVars, ownerVars, history
<1>1. CASE Tick
  BY <1>1, BoundsAssumption DEF Tick
<1>2. CASE Start
  <2>1. starts' \in 0..MaxStarts
    BY <1>2, BoundsAssumption DEF Start
  <2> QED
    BY <1>2, <2>1 DEF Start
<1>3. CASE StopRequest
  BY <1>3 DEF StopRequest
<1>4. CASE StopStep
  BY <1>4 DEF StopStep, StopJoined, StopClear
<1>5. ASSUME NEW u \in Users, Schedule(u) PROVE TypeOK'
  <2>1. PICK delay \in Delays, every \in Intervals \cup {0} :
          /\ nextId <= MaxTasks
          /\ nextId' = nextId + 1
          /\ upc' = [upc EXCEPT ![u] = nextId]
          /\ first' = [first EXCEPT ![nextId] = now + delay]
          /\ interval' = [interval EXCEPT ![nextId] = every]
          /\ UNCHANGED <<now, scheduled, queue, due, threadVars, ownerVars, history>>
    BY <1>5 DEF Schedule
  <2>2. nextId \in Ids /\ nextId' \in 1..(MaxTasks + 1)
    BY <2>1, BoundsAssumption DEF Ids
  <2>3. now + delay \in Nat
    BY TimesAssumption, BoundsAssumption
  <2>4. upc' \in [Users -> Ids \cup {0}] /\ first' \in [Ids -> Nat]
        /\ interval' \in [Ids -> Intervals \cup {0}]
    BY <2>1, <2>2, <2>3
  <2> QED
    BY <2>1, <2>2, <2>4
<1>6. ASSUME NEW u \in Users, Insert(u) PROVE TypeOK'
  BY <1>6 DEF Insert, Notified
<1>7. ASSUME NEW u \in Users, Cancel(u) PROVE TypeOK'
  BY <1>7 DEF Cancel
<1>8. CASE Loop \/ LookEmpty \/ WakeUp \/ Execute \/ SpuriousWakeUp
  BY <1>8 DEF Loop, LookEmpty, WakeUp, Execute, SpuriousWakeUp
<1>9. CASE LookEarly
  BY <1>9 DEF LookEarly
<1>10. CASE LookDue
  <2>1. PICK i \in Ids :
          /\ due' = [due EXCEPT ![i] = now + interval[i]] \/ UNCHANGED due
          /\ queue' \subseteq queue /\ scheduled' \subseteq scheduled
          /\ popped' = i /\ spc' = "execute"
          /\ pops' = [pops EXCEPT ![i] = IF interval[i] > 0 THEN 1 ELSE @ + 1]
          /\ lastPop' = [lastPop EXCEPT ![i] = now]
          /\ stale' = stale \ {i}
          /\ UNCHANGED <<now, nextId, first, interval, target, upc, ownerVars>>
    BY <1>10 DEF LookDue
  <2>2. now + interval[i] \in Nat
    BY Numbers
  <2>3. due' \in [Ids -> Nat] /\ lastPop' \in [Ids -> 0..MaxTime]
    BY <2>1, <2>2
  <2>4. pops' \in [Ids -> Nat]
    BY <2>1
  <2> QED
    BY <2>1, <2>3, <2>4
<1>11. CASE UNCHANGED vars
  BY <1>11 DEF vars
<1> QED
  BY <1>1, <1>2, <1>3, <1>4, <1>5, <1>6, <1>7, <1>8, <1>9, <1>10, <1>11
  DEF Next, Thread

-----------------------------------------------------------------------------
(* Steps *)

\* What the invariant says of tasks is kept by steps that leave them alone.
LEMMA Frame ==
  ASSUME IInv, UNCHANGED <<nextId, taskVars, upc, history>>
  PROVE  SameTasks' /\ OnceMeansOnce' /\ FreshIds' /\ PendingIds' /\ DueInTime'
BY DEF IInv, SameTasks, OnceMeansOnce, FreshIds, PendingIds, DueInTime, taskVars,
   history

\* Drawing an id.
LEMMA StepSchedule ==
  ASSUME IInv, NEW u \in Users, Schedule(u)
  PROVE  /\ SameTasks' /\ OnceMeansOnce' /\ NoOversleep'
         /\ FreshIds' /\ PendingIds' /\ DueInTime'
<1> USE DEF IInv, TypeOK, Ids, threadVars, ownerVars, history
<1>1. PICK delay \in Delays, every \in Intervals \cup {0} :
        /\ upc[u] = 0 /\ nextId <= MaxTasks
        /\ nextId' = nextId + 1
        /\ upc' = [upc EXCEPT ![u] = nextId]
        /\ first' = [first EXCEPT ![nextId] = now + delay]
        /\ interval' = [interval EXCEPT ![nextId] = every]
        /\ UNCHANGED <<now, scheduled, queue, due, threadVars, ownerVars, history>>
  BY DEF Schedule
<1>2. nextId \in Ids /\ nextId \notin queue /\ pops[nextId] = 0
  BY <1>1 DEF FreshIds
<1>3. SameTasks' /\ NoOversleep'
  BY <1>1 DEF SameTasks, NoOversleep
<1>4. OnceMeansOnce'
  BY <1>1, <1>2 DEF OnceMeansOnce
<1>5. FreshIds'
  BY <1>1 DEF FreshIds
<1>6. PendingIds'
  BY <1>1, <1>2 DEF PendingIds
<1>7. DueInTime'
  BY <1>1, <1>2 DEF DueInTime
<1> QED
  BY <1>3, <1>4, <1>5, <1>6, <1>7

\* Inserting a task into the map and the queue.
LEMMA StepInsert ==
  ASSUME IInv, NEW u \in Users, Insert(u)
  PROVE  /\ SameTasks' /\ OnceMeansOnce' /\ NoOversleep'
         /\ FreshIds' /\ PendingIds' /\ DueInTime'
<1> USE DEF IInv, TypeOK, Ids, ownerVars, history
<1> DEFINE i == upc[u]
<1>1. i \in Ids /\ i < nextId /\ i \notin queue /\ pops[i] = 0
  BY DEF Insert, PendingIds
<1>2. /\ scheduled' = scheduled \cup {i} /\ queue' = queue \cup {i}
      /\ due' = [due EXCEPT ![i] = first[i]] /\ spc' = Notified(queue', due')
      /\ upc' = [upc EXCEPT ![u] = 0]
      /\ UNCHANGED <<now, nextId, first, interval, target, popped, ownerVars, history>>
  BY DEF Insert
<1>3. SameTasks'
  BY <1>2 DEF SameTasks
<1>4. OnceMeansOnce'
  BY <1>1, <1>2 DEF OnceMeansOnce
<1>5. NoOversleep'
  <2>1. due' \in [Ids -> Nat] /\ queue' \subseteq Ids
    BY <1>1, <1>2
  <2>2. spc' # "wait"
    BY <1>2 DEF Notified
  <2>3. spc' = "sleep" => \A j \in queue' : due'[j] >= target'
    BY <1>2, <2>1 DEF Notified, SleepsTooLong
  <2> QED
    BY <2>2, <2>3 DEF NoOversleep
<1>6. FreshIds'
  BY <1>1, <1>2 DEF FreshIds
<1>7. PendingIds'
  BY <1>1, <1>2 DEF PendingIds
<1>8. DueInTime'
  BY <1>1, <1>2 DEF DueInTime
<1> QED
  BY <1>3, <1>4, <1>5, <1>6, <1>7, <1>8

\* Cancelling, which rebuilds the queue.
LEMMA StepCancel ==
  ASSUME IInv, NEW u \in Users, Cancel(u)
  PROVE  /\ SameTasks' /\ OnceMeansOnce' /\ NoOversleep'
         /\ FreshIds' /\ PendingIds' /\ DueInTime'
<1> USE DEF IInv, TypeOK, Ids, threadVars, ownerVars
<1>1. PICK i \in scheduled :
        /\ scheduled' = scheduled \ {i} /\ queue' = scheduled'
        /\ due' = [j \in Ids |-> IF j \in scheduled' THEN first[j] ELSE due[j]]
        /\ stale' = (stale \cup {j \in scheduled' : due[j] # first[j]}) \ {i}
        /\ UNCHANGED <<now, nextId, first, interval, threadVars, upc, ownerVars, pops,
                       lastPop>>
  BY DEF Cancel
<1>2. queue' = queue \ {i}
  BY <1>1 DEF SameTasks
<1>3. \A j \in queue' : due'[j] = first[j] /\ (j \notin stale' => due'[j] = due[j] /\ j \notin stale)
  BY <1>1, <1>2
<1>4. SameTasks'
  BY <1>1 DEF SameTasks
<1>5. OnceMeansOnce'
  BY <1>1, <1>2 DEF OnceMeansOnce
<1>6. NoOversleep'
  BY <1>1, <1>2, <1>3 DEF NoOversleep
<1>7. FreshIds' /\ PendingIds'
  BY <1>1, <1>2 DEF FreshIds, PendingIds
<1>8. DueInTime'
  BY <1>1, <1>2, <1>3 DEF DueInTime
<1> QED
  BY <1>4, <1>5, <1>6, <1>7, <1>8

\* Executing what is due, and requeueing it.
LEMMA StepDue ==
  ASSUME IInv, LookDue
  PROVE  /\ SameTasks' /\ OnceMeansOnce' /\ NoOversleep'
         /\ FreshIds' /\ PendingIds' /\ DueInTime'
<1> USE DEF IInv, TypeOK, Ids, ownerVars
<1>1. PICK i \in Ids :
        /\ spc = "look" /\ Top(i) /\ due[i] <= now
        /\ IF interval[i] > 0
           THEN due' = [due EXCEPT ![i] = now + interval[i]] /\ UNCHANGED <<scheduled, queue>>
           ELSE queue' = queue \ {i} /\ scheduled' = scheduled \ {i} /\ UNCHANGED due
        /\ popped' = i /\ spc' = "execute"
        /\ pops' = [pops EXCEPT ![i] = IF interval[i] > 0 THEN 1 ELSE @ + 1]
        /\ lastPop' = [lastPop EXCEPT ![i] = now]
        /\ stale' = stale \ {i}
        /\ UNCHANGED <<now, nextId, first, interval, target, upc, ownerVars>>
  BY DEF LookDue
<1>2. i \in queue /\ i < nextId
  BY <1>1 DEF Top, FreshIds
<1>3. SameTasks' /\ NoOversleep'
  BY <1>1 DEF SameTasks, NoOversleep
<1>4. interval[i] = 0 => pops[i] = 0
  BY <1>2 DEF OnceMeansOnce
<1>5. OnceMeansOnce'
  BY <1>1, <1>4 DEF OnceMeansOnce
<1>6. queue' \subseteq queue /\ \A j \in Ids \ {i} : pops'[j] = pops[j]
  BY <1>1
<1>7. FreshIds'
  BY <1>1, <1>2, <1>6 DEF FreshIds
<1>8. PendingIds'
  BY <1>1, <1>2, <1>6 DEF PendingIds
<1>9. DueInTime'
  <2>1. \A j \in queue' \ {i} : /\ due'[j] = due[j] /\ first'[j] = first[j]
                                /\ pops'[j] = pops[j] /\ lastPop'[j] = lastPop[j]
                                /\ interval'[j] = interval[j]
                                /\ j \notin stale' => j \notin stale
    BY <1>1
  <2>2. i \in queue' => due'[i] = now + interval[i] /\ lastPop'[i] = now
    BY <1>1
  <2>3. due[i] >= first[i] /\ due[i] <= now /\ first' = first /\ interval' = interval
    BY <1>1, <1>2 DEF DueInTime
  <2>4. \A j \in queue' \ {i} : /\ due'[j] >= first'[j]
                                /\ pops'[j] > 0 /\ j \notin stale' => due'[j] >= lastPop'[j] + interval'[j]
    BY <1>6, <2>1 DEF DueInTime
  <2>5. i \in queue' => due'[i] >= first'[i] /\ due'[i] >= lastPop'[i] + interval'[i]
    <3>1. now \in Nat /\ first[i] \in Nat /\ due[i] \in Nat /\ interval[i] \in Nat
      BY Numbers
    <3> QED
      BY <2>2, <2>3, <3>1
  <2> QED
    BY <2>4, <2>5 DEF DueInTime
<1> QED
  BY <1>3, <1>5, <1>7, <1>8, <1>9

\* Every step keeps the invariant.
LEMMA StepInductive == IInv /\ [Next]_vars => IInv'
<1> SUFFICES ASSUME IInv, [Next]_vars
             PROVE  /\ SameTasks' /\ OnceMeansOnce' /\ NoOversleep'
                    /\ FreshIds' /\ PendingIds' /\ DueInTime'
  BY StepTyped DEF IInv
<1> DEFINE Kept == UNCHANGED <<nextId, taskVars, upc, history>>
<1>1. CASE Tick \/ Start \/ StopRequest \/ StopJoined
  <2>1. Kept /\ target' = target /\ (spc' = spc \/ spc' = "loop")
    BY <1>1 DEF Tick, Start, StopRequest, StopJoined, taskVars, threadVars, ownerVars,
       history
  <2>2. NoOversleep'
    BY <2>1 DEF IInv, NoOversleep, taskVars, history
  <2> QED
    BY <2>1, <2>2, Frame
<1>2. CASE StopClear
  BY <1>2
  DEF IInv, StopClear, SameTasks, OnceMeansOnce, NoOversleep, FreshIds, PendingIds,
      DueInTime, threadVars
<1>3. CASE Loop \/ LookEmpty \/ WakeUp \/ Execute \/ SpuriousWakeUp
  <2>1. Kept /\ spc' # "sleep" /\ (spc' = "wait" => queue = {})
    BY <1>3
    DEF Loop, LookEmpty, WakeUp, Execute, SpuriousWakeUp, taskVars, ownerVars, history
  <2>2. NoOversleep'
    BY <2>1 DEF NoOversleep, taskVars
  <2> QED
    BY <2>1, <2>2, Frame
<1>4. CASE LookEarly
  <2>1. PICK i \in Ids : Top(i) /\ target' = due[i]
    BY <1>4 DEF LookEarly
  <2>2. Kept /\ spc' # "wait"
    BY <1>4 DEF LookEarly, taskVars, ownerVars, history
  <2>3. \A j \in queue : due[j] >= due[i]
    BY <2>1 DEF Top, IInv, TypeOK
  <2>4. NoOversleep'
    BY <2>1, <2>2, <2>3 DEF NoOversleep, taskVars, history
  <2> QED
    BY <2>2, <2>4, Frame
<1>5. CASE LookDue
  BY <1>5, StepDue
<1>6. ASSUME NEW u \in Users, Schedule(u) \/ Insert(u) \/ Cancel(u)
      PROVE  /\ SameTasks' /\ OnceMeansOnce' /\ NoOversleep'
             /\ FreshIds' /\ PendingIds' /\ DueInTime'
  BY <1>6, StepSchedule, StepInsert, StepCancel
<1>7. CASE UNCHANGED vars
  <2>1. Kept /\ spc' = spc /\ target' = target
    BY <1>7 DEF vars, taskVars, history
  <2>2. NoOversleep'
    BY <2>1 DEF IInv, NoOversleep, taskVars, history
  <2> QED
    BY <2>1, <2>2, Frame
<1> QED
  BY <1>1, <1>2, <1>3, <1>4, <1>5, <1>6, <1>7 DEF Next, Thread, StopStep

\* The invariant holds in every behaviour.
LEMMA Inductive == Spec => []IInv
BY InitInductive, StepInductive, PTL DEF Spec

-----------------------------------------------------------------------------
(* Theorems *)

\* The variables of TaskScheduler keep their types.
THEOREM TypeCorrect == Spec => []TypeOK
BY Inductive, PTL DEF IInv

\* scheduledTasks_ and taskQueue_ hold the same tasks, whoever schedules,
\* cancels, stops and restarts.
THEOREM SameTasksCorrect == Spec => []SameTasks
BY Inductive, PTL DEF IInv

\* A task of scheduleOnce() is executed once at most.
THEOREM OnceCorrect == Spec => []OnceMeansOnce
BY Inductive, PTL DEF IInv

\* schedulerThread() sleeps until the first task is due at most, and waits only
\* with an empty queue.
THEOREM SleepCorrect == Spec => []NoOversleep
BY Inductive, PTL DEF IInv

\* A task is not executed before its delay is over, nor twice within its
\* interval.
THEOREM SpacingCorrect == Spec => Spacing
<1> DEFINE Apart(i) == spc = "look" /\ spc' = "execute" /\ popped' = i =>
                         /\ now >= first[i]
                         /\ pops[i] > 0 /\ i \notin stale => now >= lastPop[i] + interval[i]
<1>1. IInv /\ [Next]_vars => [\A i \in Ids : Apart(i)]_vars
  <2> SUFFICES ASSUME IInv, Next, NEW i \in Ids, spc = "look", spc' = "execute", popped' = i
               PROVE  /\ now >= first[i]
                      /\ pops[i] > 0 /\ i \notin stale => now >= lastPop[i] + interval[i]
    OBVIOUS
  <2>1. LookDue
    BY DEF Next, Tick, Start, StopRequest, StopStep, StopJoined, StopClear, Thread,
       Loop,
           LookEmpty, LookEarly, WakeUp, Execute, SpuriousWakeUp, Schedule, Insert,
           Notified, Cancel, threadVars, ownerVars
  <2>2. i \in queue /\ due[i] <= now
    BY <2>1 DEF LookDue, Top
  <2>3. /\ due[i] >= first[i]
        /\ pops[i] > 0 /\ i \notin stale => due[i] >= lastPop[i] + interval[i]
    BY <2>2 DEF IInv, DueInTime
  <2>4. /\ now \in Nat /\ first[i] \in Nat /\ due[i] \in Nat
        /\ lastPop[i] \in Nat /\ interval[i] \in Nat
    BY Numbers DEF IInv
  <2> QED
    BY <2>2, <2>3, <2>4
<1> QED
  BY Inductive, <1>1, PTL DEF Spec, Spacing
=============================================================================
