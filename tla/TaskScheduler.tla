--------------------------- MODULE TaskScheduler ---------------------------
(***************************************************************************)
(* wrap_boost::TaskScheduler: the map and the priority queue of scheduled  *)
(* tasks, which both hold a copy of each, the thread that sleeps until the *)
(* next of them is due, the users that schedule and cancel, and the owner  *)
(* that starts and stops the scheduler.  Time is a counter.                *)
(*                                                                         *)
(* A step is a critical section of tasksMutex_ or a read of the clock.     *)
(* The executor gets each task in one step; TaskExecutor.tla has the rest. *)
(***************************************************************************)
EXTENDS Naturals, FiniteSets

CONSTANTS
  Users,        \* threads that schedule and cancel
  Delays,       \* delays and initial delays they ask for
  Intervals,    \* intervals of recurring tasks
  MaxTasks,     \* bound: calls of generateTaskId()
  MaxTime,      \* bound: the clock
  MaxStarts     \* bound: calls of start() on a stopped scheduler

Ids == 1..MaxTasks

ASSUME TimesAssumption  == Delays \subseteq Nat /\ Intervals \subseteq Nat \ {0}
ASSUME BoundsAssumption == MaxTasks \in Nat /\ MaxTime \in Nat /\ MaxStarts \in Nat

VARIABLES
  now,          \* steady_clock::now()
  running,      \* running_
  stopReq,      \* stopRequested_
  nextId,       \* nextTaskId_
  scheduled,    \* the keys of scheduledTasks_
  queue,        \* the ids in taskQueue_
  first,        \* nextExecutionTime in the copy that scheduledTasks_ keeps
  due,          \* nextExecutionTime in the copy in taskQueue_
  interval,     \* 0 for a task that is not recurring
  spc,          \* where the scheduler thread is
  target,       \* the time it sleeps until
  popped,       \* the task it is going to execute, or 0
  upc,          \* the id a user inside schedule...() is going to insert, or 0
  opc,          \* where the owner is in stop()
  starts,       \* calls of start(), for MaxStarts
  pops,         \* history: how often each task was taken from the queue
  lastPop,      \* history: when it was last
  stale         \* history: tasks whose copy in the queue was put back in time

vars == <<now, running, stopReq, nextId, scheduled, queue, first, due, interval, spc,
          target, popped, upc, opc, starts, pops, lastPop, stale>>

taskVars   == <<scheduled, queue, first, due, interval>>
threadVars == <<spc, target, popped>>
ownerVars  == <<running, stopReq, opc, starts>>
history    == <<pops, lastPop, stale>>

Init ==
  /\ now = 0 /\ running = FALSE /\ stopReq = FALSE /\ nextId = 1
  /\ scheduled = {} /\ queue = {}
  /\ first = [i \in Ids |-> 0] /\ due = [i \in Ids |-> 0]
  /\ interval = [i \in Ids |-> 0]
  /\ spc = "off" /\ target = 0 /\ popped = 0
  /\ upc = [u \in Users |-> 0] /\ opc = "idle" /\ starts = 0
  /\ pops = [i \in Ids |-> 0] /\ lastPop = [i \in Ids |-> 0] /\ stale = {}

Tick ==
  /\ now < MaxTime
  /\ now' = now + 1
  /\ UNCHANGED <<nextId, taskVars, threadVars, upc, ownerVars, history>>

-----------------------------------------------------------------------------
(* start() and stop() *)

Start ==
  /\ opc = "idle" /\ ~running /\ starts < MaxStarts
  /\ running' = TRUE /\ stopReq' = FALSE
  /\ starts' = starts + 1
  /\ spc' = "loop"
  /\ UNCHANGED <<now, nextId, taskVars, target, popped, upc, opc, history>>

StopRequest ==
  /\ opc = "idle" /\ running
  /\ stopReq' = TRUE
  /\ spc' = IF spc \in {"wait", "sleep"} THEN "loop" ELSE spc
  /\ opc' = "join"
  /\ UNCHANGED <<now, running, starts, nextId, taskVars, target, popped, upc, history>>

StopJoined ==
  /\ opc = "join" /\ spc = "off"
  /\ running' = FALSE
  /\ opc' = "clear"
  /\ UNCHANGED <<now, stopReq, starts, nextId, taskVars, threadVars, upc, history>>

StopClear ==
  /\ opc = "clear"
  /\ scheduled' = {} /\ queue' = {} /\ stale' = {}
  /\ opc' = "idle"
  /\ UNCHANGED <<now, running, stopReq, starts, nextId, first, due, interval,
                 threadVars, upc, pops, lastPop>>

-----------------------------------------------------------------------------
(* scheduleOnce(), scheduleRecurring(), cancelScheduledTask() *)

\* The clock is read and the id drawn before the mutex is taken.
Schedule(u) ==
  \E delay \in Delays, every \in Intervals \cup {0} :
    /\ upc[u] = 0 /\ nextId <= MaxTasks
    /\ nextId' = nextId + 1
    /\ upc' = [upc EXCEPT ![u] = nextId]
    /\ first' = [first EXCEPT ![nextId] = now + delay]
    /\ interval' = [interval EXCEPT ![nextId] = every]
    /\ UNCHANGED <<now, scheduled, queue, due, threadVars, ownerVars, history>>

\* The predicate of wait_for: something in the queue is due before the thread
\* would wake up.
SleepsTooLong(q, d) == \E j \in q : d[j] < target

\* What notify_all does to the thread, with the new queue.
Notified(q, d) ==
  IF spc = "wait" \/ (spc = "sleep" /\ SleepsTooLong(q, d)) THEN "loop" ELSE spc

InsertUnheard(u) ==
  LET i == upc[u] IN
  /\ i > 0
  /\ scheduled' = scheduled \cup {i}
  /\ queue' = queue \cup {i}
  /\ due' = [due EXCEPT ![i] = first[i]]
  /\ upc' = [upc EXCEPT ![u] = 0]
  /\ UNCHANGED <<now, nextId, first, interval, threadVars, ownerVars, history>>

Insert(u) ==
  LET i == upc[u] IN
  /\ i > 0
  /\ scheduled' = scheduled \cup {i}
  /\ queue' = queue \cup {i}
  /\ due' = [due EXCEPT ![i] = first[i]]
  /\ spc' = Notified(queue', due')
  /\ upc' = [upc EXCEPT ![u] = 0]
  /\ UNCHANGED <<now, nextId, first, interval, target, popped, ownerVars, history>>

CancelInMapOnly(u) ==
  \E i \in scheduled :
    /\ upc[u] = 0
    /\ scheduled' = scheduled \ {i}
    /\ UNCHANGED <<now, nextId, queue, first, due, interval, threadVars, upc, ownerVars,
                   history>>

\* The queue is built again from scheduledTasks_, whose copies still have the
\* times of the first execution; the thread is not notified.
Cancel(u) ==
  \E i \in scheduled :
    /\ upc[u] = 0
    /\ scheduled' = scheduled \ {i}
    /\ queue' = scheduled'
    /\ due' = [j \in Ids |-> IF j \in scheduled' THEN first[j] ELSE due[j]]
    /\ stale' = (stale \cup {j \in scheduled' : due[j] # first[j]}) \ {i}
    /\ UNCHANGED <<now, nextId, first, interval, threadVars, upc, ownerVars, pops,
                   lastPop>>

-----------------------------------------------------------------------------
(* schedulerThread() *)

Loop ==
  /\ spc = "loop"
  /\ spc' = IF running /\ ~stopReq THEN "look" ELSE "off"
  /\ UNCHANGED <<now, nextId, taskVars, target, popped, upc, ownerVars, history>>

\* What the thread does in its critical section depends on the top of the queue.
Top(i) == i \in queue /\ \A j \in queue : due[i] <= due[j]

LookEmpty ==
  /\ spc = "look" /\ queue = {}
  /\ spc' = IF stopReq THEN "off" ELSE "wait"
  /\ UNCHANGED <<now, nextId, taskVars, target, popped, upc, ownerVars, history>>

LookEarly ==
  \E i \in Ids :
    /\ spc = "look" /\ Top(i) /\ due[i] > now
    /\ spc' = IF stopReq THEN "loop" ELSE "sleep"
    /\ target' = due[i]
    /\ UNCHANGED <<now, nextId, taskVars, popped, upc, ownerVars, history>>

\* A task that is due is taken; a recurring one goes back for its next time,
\* in the queue but not in scheduledTasks_.
LookDueKeepsCopy ==
  \E i \in Ids :
    /\ spc = "look" /\ Top(i) /\ due[i] <= now
    /\ IF interval[i] > 0
       THEN due' = [due EXCEPT ![i] = now + interval[i]] /\ UNCHANGED queue
       ELSE queue' = queue \ {i} /\ UNCHANGED due
    /\ popped' = i /\ spc' = "execute"
    /\ pops' = [pops EXCEPT ![i] = IF interval[i] > 0 THEN 1 ELSE @ + 1]
    /\ lastPop' = [lastPop EXCEPT ![i] = now]
    /\ stale' = stale \ {i}
    /\ UNCHANGED <<now, nextId, scheduled, first, interval, target, upc, ownerVars>>

LookDueAtOldTime ==
  \E i \in Ids :
    /\ spc = "look" /\ Top(i) /\ due[i] <= now
    /\ IF interval[i] > 0
       THEN due' = [due EXCEPT ![i] = @ + interval[i]] /\ UNCHANGED <<scheduled, queue>>
       ELSE queue' = queue \ {i} /\ scheduled' = scheduled \ {i} /\ UNCHANGED due
    /\ popped' = i /\ spc' = "execute"
    /\ pops' = [pops EXCEPT ![i] = IF interval[i] > 0 THEN 1 ELSE @ + 1]
    /\ lastPop' = [lastPop EXCEPT ![i] = now]
    /\ stale' = stale \ {i}
    /\ UNCHANGED <<now, nextId, first, interval, target, upc, ownerVars>>

LookDue ==
  \E i \in Ids :
    /\ spc = "look" /\ Top(i) /\ due[i] <= now
    /\ IF interval[i] > 0
       THEN due' = [due EXCEPT ![i] = now + interval[i]] /\ UNCHANGED <<scheduled, queue>>
       ELSE queue' = queue \ {i} /\ scheduled' = scheduled \ {i} /\ UNCHANGED due
    /\ popped' = i /\ spc' = "execute"
    /\ pops' = [pops EXCEPT ![i] = IF interval[i] > 0 THEN 1 ELSE @ + 1]
    /\ lastPop' = [lastPop EXCEPT ![i] = now]
    /\ stale' = stale \ {i}
    /\ UNCHANGED <<now, nextId, first, interval, target, upc, ownerVars>>

WakeUp ==
  /\ spc = "sleep" /\ now >= target
  /\ spc' = "loop"
  /\ UNCHANGED <<now, nextId, taskVars, target, popped, upc, ownerVars, history>>

\* A wake-up without a notification: the predicate decides.
SpuriousWakeUp ==
  /\ spc = "sleep" /\ SleepsTooLong(queue, due)
  /\ spc' = "loop"
  /\ UNCHANGED <<now, nextId, taskVars, target, popped, upc, ownerVars, history>>

\* executeTask(): the task is submitted, cancelled meanwhile or not.
Execute ==
  /\ spc = "execute"
  /\ popped' = 0
  /\ spc' = "loop"
  /\ UNCHANGED <<now, nextId, taskVars, target, upc, ownerVars, history>>

-----------------------------------------------------------------------------
Thread   == Loop \/ LookEmpty \/ LookEarly \/ LookDue \/ WakeUp \/ Execute
StopStep == StopJoined \/ StopClear

Next ==
  \/ Tick \/ Start \/ StopRequest \/ StopStep \/ Thread \/ SpuriousWakeUp
  \/ \E u \in Users : Schedule(u) \/ Insert(u) \/ Cancel(u)

\* Time passes and every thread runs; nothing wakes up without a reason.
Fairness ==
  /\ WF_vars(Tick) /\ WF_vars(Thread) /\ WF_vars(StopStep)
  /\ \A u \in Users : WF_vars(Insert(u))

Spec     == Init /\ [][Next]_vars
FairSpec == Spec /\ Fairness

-----------------------------------------------------------------------------
TypeOK ==
  /\ now \in 0..MaxTime /\ running \in BOOLEAN /\ stopReq \in BOOLEAN
  /\ nextId \in 1..(MaxTasks + 1)
  /\ scheduled \subseteq Ids /\ queue \subseteq Ids /\ stale \subseteq Ids
  /\ first \in [Ids -> Nat] /\ due \in [Ids -> Nat]
  /\ interval \in [Ids -> Intervals \cup {0}]
  /\ spc \in {"off", "loop", "look", "wait", "sleep", "execute"}
  /\ target \in Nat /\ popped \in Ids \cup {0}
  /\ upc \in [Users -> Ids \cup {0}]
  /\ opc \in {"idle", "join", "clear"} /\ starts \in 0..MaxStarts
  /\ pops \in [Ids -> Nat] /\ lastPop \in [Ids -> 0..MaxTime]

\* The map and the queue hold the same tasks, through executions,
\* cancellations, stops and restarts: what is cancelled is not taken from the
\* queue again, and what is not cancelled is not forgotten.  A task that has been
\* taken and is cancelled before it is executed does run once more.
SameTasks == queue = scheduled

\* A task that is not recurring is executed at most once, and not after it was
\* put back: it is in neither structure any more.
OnceMeansOnce ==
  \A i \in Ids : interval[i] = 0 => pops[i] <= 1 /\ (pops[i] = 1 => i \notin queue)

\* The thread sleeps no longer than until the first task is due, and waits only
\* for a task to come, except for tasks a cancellation put back in time.
NoOversleep ==
  /\ spc = "sleep" => \A i \in queue \ stale : due[i] >= target
  /\ spc = "wait" => queue = {}

\* A task is executed neither before its delay is over nor, if it is recurring,
\* within its interval after the last time, unless another task was cancelled
\* in between.
Spacing ==
  [][\A i \in Ids :
       spc = "look" /\ spc' = "execute" /\ popped' = i =>
         /\ now >= first[i]
         /\ pops[i] > 0 /\ i \notin stale => now >= lastPop[i] + interval[i]]_vars

\* A task that is due is executed, cancelled or dropped by stop().
DueIsExecuted ==
  \A i \in Ids :
    (i \in queue /\ i \notin stale /\ due[i] <= now /\ running) ~>
      (i \notin queue \/ due[i] > now \/ stopReq \/ i \in stale)
=============================================================================
