---------------------------- MODULE TaskExecutor ----------------------------
(***************************************************************************)
(* wrap_boost::TaskExecutor and the Task it executes: the priority queue   *)
(* with its condition variable, the worker threads, activeTasks_, the      *)
(* users that submit, cancel and wait, and the owner that starts and stops *)
(* the executor and may start it again.                                    *)
(*                                                                         *)
(* Each task is submitted once.  A step is a critical section of           *)
(* queueMutex_, tasksMapMutex_ or resultMutex_, or an access to an atomic. *)
(* Pausing is left out: nothing calls checkForPause(), so that no task is  *)
(* ever PAUSED and pauseTask() and resumeTask() change nothing one can see.*)
(***************************************************************************)
EXTENDS Naturals, FiniteSets

CONSTANTS
  Tasks,        \* Task objects
  Priority,     \* priority_ of each
  Workers,      \* the threads of threads_
  Users,        \* threads that submit, cancel and wait
  None,         \* no task
  MaxStarts     \* bound: calls of start() on a stopped executor

ASSUME PriorityAssumption == Priority \in [Tasks -> Nat]
ASSUME WorkersAssumption  == IsFiniteSet(Workers) /\ Workers # {}
ASSUME NoneAssumption     == None \notin Tasks
ASSUME StartsAssumption   == MaxStarts \in Nat

VARIABLES
  running,      \* running_
  stopReq,      \* stopRequested_
  queue,        \* taskQueue_
  active,       \* activeTasks_
  busy,         \* runningTaskCount_
  state,        \* TaskBase::state_
  cancelReq,    \* cancellationRequested_
  result,       \* result_, "none" until hasResult_
  threw,        \* the completion callback of the task has thrown
  wpc,          \* where each worker is
  cur,          \* the task it has popped, or None
  outcome,      \* what it is going to publish
  upc,          \* where each user is
  arg,          \* the task it submits or waits for, or None
  snap,         \* history: what was queued or running when waitForCompletion began
  opc,          \* where the owner is in start() or stop()
  starts,       \* calls of start(), for MaxStarts
  called,       \* history: how often the function of each task was called
  lost          \* history: tasks that stop() dropped or submit() refused

vars == <<running, stopReq, queue, active, busy, state, cancelReq, result, threw,
          wpc, cur, outcome, upc, arg, snap, opc, starts, called, lost>>

poolVars  == <<running, stopReq, queue, active, busy>>
taskVars  == <<state, cancelReq, result, threw, called>>
wVars     == <<wpc, cur, outcome>>
uVars     == <<upc, arg, snap>>
ownerVars == <<opc, starts>>

TaskStates == {"PENDING", "RUNNING", "COMPLETED", "FAILED", "CANCELED"}
Results    == {"value", "error", "cancelled"}
\* notifyComplete has three steps, once in the try and once in the catch block.
WSteps == {"off", "loop", "next", "wait", "count", "check", "setRunning", "cancel1",
           "function", "cancel2", "setState", "publish", "callback", "catch1",
           "catch2", "catch3", "uncount", "erase"}
USteps == {"idle", "insert", "push", "await", "readQueue", "readBusy"}
OSteps == {"idle", "join", "clearActive", "clearQueue"}

WGoto(w, step) == wpc' = [wpc EXCEPT ![w] = step]
UGoto(u, step) == upc' = [upc EXCEPT ![u] = step]

Init ==
  /\ running = FALSE /\ stopReq = FALSE
  /\ queue = {} /\ active = {} /\ busy = 0
  /\ state = [k \in Tasks |-> "PENDING"]
  /\ cancelReq = [k \in Tasks |-> FALSE]
  /\ result = [k \in Tasks |-> "none"]
  /\ threw = [k \in Tasks |-> FALSE]
  /\ wpc = [w \in Workers |-> "off"]
  /\ cur = [w \in Workers |-> None]
  /\ outcome = [w \in Workers |-> "value"]
  /\ upc = [u \in Users |-> "idle"] /\ arg = [u \in Users |-> None]
  /\ snap = [u \in Users |-> {}]
  /\ opc = "idle" /\ starts = 0
  /\ called = [k \in Tasks |-> 0] /\ lost = {}

-----------------------------------------------------------------------------
(* start() and stop() *)

Start ==
  /\ opc = "idle" /\ ~running /\ starts < MaxStarts
  /\ running' = TRUE /\ stopReq' = FALSE
  /\ wpc' = [w \in Workers |-> "loop"]
  /\ starts' = starts + 1
  /\ UNCHANGED <<queue, active, busy, taskVars, cur, outcome, uVars, opc, lost>>

\* Mutation: the waiting workers are not woken.
StopRequestUnheard ==
  /\ opc = "idle" /\ running
  /\ stopReq' = TRUE
  /\ opc' = "join"
  /\ UNCHANGED <<running, queue, active, busy, taskVars, wVars, uVars, starts, lost>>

\* stopRequested_ is set under queueMutex_ and every worker is woken.
StopRequest ==
  /\ opc = "idle" /\ running
  /\ stopReq' = TRUE
  /\ wpc' = [w \in Workers |-> IF wpc[w] = "wait" THEN "next" ELSE wpc[w]]
  /\ opc' = "join"
  /\ UNCHANGED <<running, queue, active, busy, taskVars, cur, outcome, uVars, starts,
                 lost>>

StopJoined ==
  /\ opc = "join" /\ \A w \in Workers : wpc[w] = "off"
  /\ running' = FALSE
  /\ opc' = "clearActive"
  /\ UNCHANGED <<stopReq, queue, active, busy, taskVars, wVars, uVars, starts, lost>>

StopClearActive ==
  /\ opc = "clearActive"
  /\ cancelReq' = [k \in Tasks |-> cancelReq[k] \/ k \in active]
  /\ active' = {}
  /\ opc' = "clearQueue"
  /\ UNCHANGED <<running, stopReq, queue, busy, state, result, threw, called, wVars,
                 uVars, starts, lost>>

\* cancel() only sets a flag: nobody publishes a result for what is dropped.
StopClearQueue ==
  /\ opc = "clearQueue"
  /\ cancelReq' = [k \in Tasks |-> cancelReq[k] \/ k \in queue]
  /\ queue' = {} /\ lost' = lost \cup queue
  /\ busy' = 0
  /\ opc' = "idle"
  /\ UNCHANGED <<running, stopReq, active, state, result, threw, called, wVars,
                 uVars, starts>>

-----------------------------------------------------------------------------
(* submit(), cancelTask(), getResult() and waitForCompletion() *)

\* A user is inside submit() with the task; submit() has returned for it.
Submitting(k) == \E u \in Users : upc[u] \in {"insert", "push"} /\ arg[u] = k
Submitted(k)  == \/ k \in queue \cup lost \/ result[k] # "none"
                 \/ \E w \in Workers : cur[w] = k

\* submit() returns 0 when the executor does not run, and the task is lost.
Submit(u) ==
  \E k \in Tasks :
    /\ upc[u] = "idle" /\ ~Submitting(k) /\ ~Submitted(k)
    /\ IF running
       THEN UGoto(u, "insert") /\ arg' = [arg EXCEPT ![u] = k] /\ UNCHANGED lost
       ELSE lost' = lost \cup {k} /\ UNCHANGED <<upc, arg>>
    /\ UNCHANGED <<poolVars, taskVars, wVars, snap, ownerVars>>

SubmitInsert(u) ==
  /\ upc[u] = "insert"
  /\ active' = active \cup {arg[u]}
  /\ UGoto(u, "push")
  /\ UNCHANGED <<running, stopReq, queue, busy, taskVars, wVars, arg, snap, ownerVars,
                 lost>>

\* Mutation: no worker is woken.
SubmitPushUnheard(u) ==
  /\ upc[u] = "push"
  /\ queue' = queue \cup {arg[u]}
  /\ UGoto(u, "idle") /\ arg' = [arg EXCEPT ![u] = None]
  /\ UNCHANGED <<running, stopReq, active, busy, taskVars, wVars, snap, ownerVars, lost>>

\* notify_one wakes one of the waiting workers, if there is one.
SubmitPush(u) ==
  /\ upc[u] = "push"
  /\ queue' = queue \cup {arg[u]}
  /\ IF \E w \in Workers : wpc[w] = "wait"
     THEN \E w \in Workers : wpc[w] = "wait" /\ WGoto(w, "next")
     ELSE UNCHANGED wpc
  /\ UGoto(u, "idle") /\ arg' = [arg EXCEPT ![u] = None]
  /\ UNCHANGED <<running, stopReq, active, busy, taskVars, cur, outcome, snap,
                 ownerVars, lost>>

CancelTask(u) ==
  \E k \in active :
    /\ upc[u] = "idle" /\ ~cancelReq[k]
    /\ cancelReq' = [cancelReq EXCEPT ![k] = TRUE]
    /\ UNCHANGED <<poolVars, state, result, threw, called, wVars, uVars, ownerVars, lost>>

GetResult(u) ==
  \E k \in Tasks :
    /\ upc[u] = "idle" /\ Submitted(k)
    /\ UGoto(u, "await") /\ arg' = [arg EXCEPT ![u] = k]
    /\ UNCHANGED <<poolVars, taskVars, wVars, snap, ownerVars, lost>>

GotResult(u) ==
  /\ upc[u] = "await" /\ result[arg[u]] # "none"
  /\ UGoto(u, "idle") /\ arg' = [arg EXCEPT ![u] = None]
  /\ UNCHANGED <<poolVars, taskVars, wVars, snap, ownerVars, lost>>

\* waitForCompletion reads the length of the queue, and then the counter.
WaitBegin(u) ==
  /\ upc[u] = "idle"
  /\ UGoto(u, "readQueue")
  /\ snap' = [snap EXCEPT ![u] = queue \cup ({cur[w] : w \in Workers} \ {None})]
  /\ UNCHANGED <<poolVars, taskVars, wVars, arg, ownerVars, lost>>

WaitReadQueue(u) ==
  /\ upc[u] = "readQueue" /\ queue = {}
  /\ UGoto(u, "readBusy")
  /\ UNCHANGED <<poolVars, taskVars, wVars, arg, snap, ownerVars, lost>>

WaitReadBusy(u) ==
  /\ upc[u] = "readBusy"
  /\ IF busy = 0 THEN UGoto(u, "idle") /\ snap' = [snap EXCEPT ![u] = {}]
                 ELSE UGoto(u, "readQueue") /\ UNCHANGED snap
  /\ UNCHANGED <<poolVars, taskVars, wVars, arg, ownerVars, lost>>

-----------------------------------------------------------------------------
(* workerThread() and getNextTask() *)

WorkerLoop(w) ==
  /\ wpc[w] = "loop"
  /\ WGoto(w, IF running /\ ~stopReq THEN "next" ELSE "off")
  /\ UNCHANGED <<poolVars, taskVars, cur, outcome, uVars, ownerVars, lost>>

\* The condition variable releases queueMutex_ while the worker waits.
WorkerWait(w) ==
  /\ wpc[w] = "next" /\ queue = {} /\ ~stopReq
  /\ WGoto(w, "wait")
  /\ UNCHANGED <<poolVars, taskVars, cur, outcome, uVars, ownerVars, lost>>

WorkerStop(w) ==
  /\ wpc[w] = "next" /\ stopReq
  /\ WGoto(w, "loop")
  /\ UNCHANGED <<poolVars, taskVars, cur, outcome, uVars, ownerVars, lost>>

\* Mutation: top() without pop().
WorkerTop(w) ==
  \E k \in queue :
    /\ wpc[w] = "next" /\ ~stopReq
    /\ \A j \in queue : Priority[j] <= Priority[k]
    /\ cur' = [cur EXCEPT ![w] = k]
    /\ WGoto(w, "count")
    /\ UNCHANGED <<poolVars, taskVars, outcome, uVars, ownerVars, lost>>

WorkerPop(w) ==
  \E k \in queue :
    /\ wpc[w] = "next" /\ ~stopReq
    /\ \A j \in queue : Priority[j] <= Priority[k]
    /\ queue' = queue \ {k}
    /\ cur' = [cur EXCEPT ![w] = k]
    /\ WGoto(w, "count")
    /\ UNCHANGED <<running, stopReq, active, busy, taskVars, outcome, uVars, ownerVars,
                   lost>>

\* Mutation: the task is not counted before it is executed.
WorkerCountsLate(w) ==
  /\ wpc[w] = "count"
  /\ WGoto(w, "check")
  /\ UNCHANGED <<poolVars, taskVars, cur, outcome, uVars, ownerVars, lost>>

WorkerCount(w) ==
  /\ wpc[w] = "count"
  /\ busy' = busy + 1
  /\ WGoto(w, "check")
  /\ UNCHANGED <<running, stopReq, queue, active, taskVars, cur, outcome, uVars,
                 ownerVars, lost>>

WorkerUncount(w) ==
  /\ wpc[w] = "uncount"
  /\ busy' = busy - 1
  /\ WGoto(w, "erase")
  /\ UNCHANGED <<running, stopReq, queue, active, taskVars, cur, outcome, uVars,
                 ownerVars, lost>>

\* A task in a final state leaves activeTasks_.
WorkerErase(w) ==
  /\ wpc[w] = "erase"
  /\ active' = IF state[cur[w]] \in {"COMPLETED", "FAILED", "CANCELED"}
               THEN active \ {cur[w]} ELSE active
  /\ cur' = [cur EXCEPT ![w] = None] /\ outcome' = [outcome EXCEPT ![w] = "value"]
  /\ WGoto(w, "loop")
  /\ UNCHANGED <<running, stopReq, queue, busy, taskVars, uVars, ownerVars, lost>>

-----------------------------------------------------------------------------
(* Task::execute() and notifyComplete() *)

\* A task that was executed already is not executed again.
ExecCheck(w) ==
  /\ wpc[w] = "check"
  /\ WGoto(w, IF state[cur[w]] = "PENDING" THEN "setRunning" ELSE "uncount")
  /\ UNCHANGED <<poolVars, taskVars, cur, outcome, uVars, ownerVars, lost>>

ExecSetRunning(w) ==
  /\ wpc[w] = "setRunning"
  /\ state' = [state EXCEPT ![cur[w]] = "RUNNING"]
  /\ WGoto(w, "cancel1")
  /\ UNCHANGED <<poolVars, cancelReq, result, threw, called, cur, outcome, uVars,
                 ownerVars, lost>>

\* Mutation: a cancelled task returns from execute() without notifyComplete().
CancellationUnpublished(w, here, otherwise) ==
  /\ wpc[w] = here
  /\ IF cancelReq[cur[w]]
     THEN state' = [state EXCEPT ![cur[w]] = "CANCELED"] /\ WGoto(w, "uncount")
     ELSE WGoto(w, otherwise) /\ UNCHANGED state
  /\ UNCHANGED <<poolVars, cancelReq, result, threw, called, cur, outcome, uVars,
                 ownerVars, lost>>

\* checkForCancellation, before the function and after it.
CheckForCancellation(w, here, otherwise) ==
  /\ wpc[w] = here
  /\ IF cancelReq[cur[w]]
     THEN /\ state' = [state EXCEPT ![cur[w]] = "CANCELED"]
          /\ outcome' = [outcome EXCEPT ![w] = "cancelled"]
          /\ WGoto(w, "setState")
     ELSE WGoto(w, otherwise) /\ UNCHANGED <<state, outcome>>
  /\ UNCHANGED <<poolVars, cancelReq, result, threw, called, cur, uVars, ownerVars, lost>>

ExecCancel1(w) == CheckForCancellation(w, "cancel1", "function")
ExecCancel2(w) == CheckForCancellation(w, "cancel2", "setState")

\* The function returns or throws; an exception skips the second check, and its
\* result is published in the catch block.
ExecFunction(w) ==
  /\ wpc[w] = "function"
  /\ called' = [called EXCEPT ![cur[w]] = @ + 1]
  /\ \/ outcome' = [outcome EXCEPT ![w] = "value"] /\ WGoto(w, "cancel2")
     \/ outcome' = [outcome EXCEPT ![w] = "error"] /\ WGoto(w, "catch1")
  /\ UNCHANGED <<poolVars, state, cancelReq, result, threw, cur, uVars, ownerVars, lost>>

\* Mutation: a final state is not changed any more.
NotifyStateFinal(w, here, next) ==
  /\ wpc[w] = here
  /\ state' = [state EXCEPT ![cur[w]] =
                 IF @ = "COMPLETED" THEN @
                 ELSE IF outcome[w] = "value" THEN "COMPLETED" ELSE "FAILED"]
  /\ WGoto(w, next)
  /\ UNCHANGED <<poolVars, cancelReq, result, threw, called, cur, outcome, uVars,
                 ownerVars, lost>>

\* notifyComplete has no CANCELED: whatever is not a value is FAILED.
NotifyState(w, here, next) ==
  /\ wpc[w] = here
  /\ state' = [state EXCEPT ![cur[w]] =
                 IF outcome[w] = "value" THEN "COMPLETED" ELSE "FAILED"]
  /\ WGoto(w, next)
  /\ UNCHANGED <<poolVars, cancelReq, result, threw, called, cur, outcome, uVars,
                 ownerVars, lost>>

NotifyResult(w, here, next) ==
  /\ wpc[w] = here
  /\ result' = [result EXCEPT ![cur[w]] = outcome[w]]
  /\ WGoto(w, next)
  /\ UNCHANGED <<poolVars, state, cancelReq, threw, called, cur, outcome, uVars,
                 ownerVars, lost>>

\* Mutation: the result is moved into the callback.
CallbackTakesResult(w) ==
  /\ wpc[w] \in {"callback", "catch3"}
  /\ result' = [result EXCEPT ![cur[w]] = "none"]
  /\ WGoto(w, "uncount")
  /\ UNCHANGED <<poolVars, state, cancelReq, threw, called, cur, outcome, uVars,
                 ownerVars, lost>>

\* The completion callback, if there is one, returns ...
CallbackReturns(w) ==
  /\ wpc[w] \in {"callback", "catch3"}
  /\ WGoto(w, "uncount")
  /\ UNCHANGED <<poolVars, taskVars, cur, outcome, uVars, ownerVars, lost>>

\* ... or throws.  In the try block execute() catches that, too, and publishes
\* the exception as the result; in the catch block it leaves execute().
CallbackThrows(w) ==
  /\ wpc[w] \in {"callback", "catch3"}
  /\ threw' = [threw EXCEPT ![cur[w]] = TRUE]
  /\ IF wpc[w] = "callback"
     THEN outcome' = [outcome EXCEPT ![w] = "error"] /\ WGoto(w, "catch1")
     ELSE UNCHANGED outcome /\ WGoto(w, "uncount")
  /\ UNCHANGED <<poolVars, state, cancelReq, result, called, cur, uVars, ownerVars, lost>>

Execute(w) ==
  \/ ExecCheck(w) \/ ExecSetRunning(w) \/ ExecCancel1(w) \/ ExecFunction(w)
  \/ ExecCancel2(w)
  \/ NotifyState(w, "setState", "publish") \/ NotifyResult(w, "publish", "callback")
  \/ NotifyState(w, "catch1", "catch2") \/ NotifyResult(w, "catch2", "catch3")
  \/ CallbackReturns(w) \/ CallbackThrows(w)

-----------------------------------------------------------------------------
Worker(w) ==
  \/ WorkerLoop(w) \/ WorkerWait(w) \/ WorkerStop(w) \/ WorkerPop(w)
  \/ WorkerCount(w) \/ Execute(w) \/ WorkerUncount(w) \/ WorkerErase(w)

\* A user inside a call goes on; it starts calls as it likes.
UserStep(u) ==
  SubmitInsert(u) \/ SubmitPush(u) \/ GotResult(u) \/ WaitReadQueue(u) \/ WaitReadBusy(u)
UserCall(u) == Submit(u) \/ CancelTask(u) \/ GetResult(u) \/ WaitBegin(u)

StopStep == StopJoined \/ StopClearActive \/ StopClearQueue

Next ==
  \/ Start \/ StopRequest \/ StopStep
  \/ \E w \in Workers : Worker(w)
  \/ \E u \in Users : UserStep(u) \/ UserCall(u)

\* Every thread runs, and the functions and callbacks of tasks return.
Fairness ==
  /\ \A w \in Workers : WF_vars(Worker(w))
  /\ \A u \in Users : WF_vars(UserStep(u))
  /\ WF_vars(StopStep)

Spec     == Init /\ [][Next]_vars
FairSpec == Spec /\ Fairness
-----------------------------------------------------------------------------
TypeOK ==
  /\ running \in BOOLEAN /\ stopReq \in BOOLEAN
  /\ queue \subseteq Tasks /\ active \subseteq Tasks
  /\ busy \in 0..Cardinality(Workers)
  /\ state \in [Tasks -> TaskStates]
  /\ cancelReq \in [Tasks -> BOOLEAN] /\ threw \in [Tasks -> BOOLEAN]
  /\ result \in [Tasks -> Results \cup {"none"}]
  /\ wpc \in [Workers -> WSteps]
  /\ cur \in [Workers -> Tasks \cup {None}]
  /\ outcome \in [Workers -> Results]
  /\ upc \in [Users -> USteps]
  /\ arg \in [Users -> Tasks \cup {None}]
  /\ snap \in [Users -> SUBSET Tasks]
  /\ opc \in OSteps /\ starts \in 0..MaxStarts
  /\ called \in [Tasks -> Nat] /\ lost \subseteq Tasks

\* What cancel() has reached before the worker's first look at the task.
Revoked(k) ==
  /\ cancelReq[k]
  /\ \A w \in Workers : cur[w] = k =>
       wpc[w] \in {"count", "check", "setRunning", "cancel1", "setState", "publish"}

\* The executor implements the task pool: no task is called twice, on two
\* workers, unsubmitted, after stop() dropped it or after it was cancelled in
\* time, through restarts, too.
Status(k) ==
  IF called[k] > 1 THEN "called again"
  ELSE IF called[k] = 1 THEN IF result[k] = "none" THEN "called" ELSE "done"
  ELSE IF k \in lost THEN "dropped"
  ELSE IF result[k] # "none" THEN "done"
  ELSE IF k \in queue THEN IF Revoked(k) THEN "revoked" ELSE "queued"
  ELSE IF \E w \in Workers : cur[w] = k THEN IF Revoked(k) THEN "revoked" ELSE "taken"
  ELSE "new"
Pool     == INSTANCE TaskPool WITH status <- [k \in Tasks |-> Status(k)]
PoolSpec == Pool!Spec

\* No wakeup is lost: tasks never wait while every worker waits, too.
NoIdlePool ==
  running /\ ~stopReq /\ queue # {} =>
    \E w \in Workers : wpc[w] \notin {"off", "wait"}

\* What a task publishes and its state agree once no worker is changing them,
\* also when the callback throws and the exception replaces the value: a task is
\* COMPLETED exactly when its result is a value.  Whether a cancelled task is to
\* be CANCELED or FAILED is left open.
StateMatchesResult ==
  \A k \in Tasks :
    /\ \A w \in Workers :
         cur[w] = k => wpc[w] \in {"callback", "catch3", "uncount", "erase"}
    /\ result[k] # "none"
    => IF result[k] = "value" THEN state[k] = "COMPLETED"
                              ELSE state[k] \in {"FAILED", "CANCELED"}

\* getResult() has one answer: a published result never changes, except when
\* the completion callback throws, which publishes its exception over it.
ResultStable ==
  [][\A k \in Tasks : result[k] # "none" /\ ~threw[k] => result'[k] = result[k]]_vars

\* waitForCompletion returns only when what was queued or running before it has
\* been executed, except for a task that a worker has popped and not counted.
WaitSeesAll ==
  [][\A u \in Users : upc[u] = "readBusy" /\ upc'[u] = "idle" =>
       \A k \in snap[u] \ lost :
         \/ result[k] # "none"
         \/ \E w \in Workers : cur[w] = k /\ wpc[w] = "count"]_vars

\* stop() returns: the owner is outside it again and again.
StopReturns == []<>(opc = "idle")

\* getResult() returns, except for a task that was dropped or refused, or whose
\* submit() overlapped a stop().
GetResultReturns ==
  \A u \in Users :
    []<>(\/ upc[u] # "await" \/ arg[u] \in lost
         \/ ~running /\ arg[u] \in queue)
=============================================================================
