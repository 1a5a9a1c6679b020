------------------------- MODULE TaskExecutorProofs -------------------------
(***************************************************************************)
(* Proofs about TaskExecutor for every number of tasks, workers and users: *)
(* no wakeup is lost, a task is in one place at a time and its state and   *)
(* result agree, waitForCompletion waits, and the executor implements the  *)
(* task pool.                                                              *)
(***************************************************************************)
EXTENDS TaskExecutor, FiniteSetTheorems, TLAPS

\* A worker has a task, and is counted in runningTaskCount_.
Counted == {"check", "setRunning", "cancel1", "function", "cancel2", "setState",
            "publish", "callback", "catch1", "catch2", "catch3", "uncount"}
Doing   == {"count", "erase"} \cup Counted
CountedWorkers == {w \in Workers : wpc[w] \in Counted}

\* A worker leaves only when stop() was called, and stop() waits for all of them.
OwnerInv ==
  /\ running => opc \in {"idle", "join"}
  /\ running /\ opc = "idle" => ~stopReq
  /\ \A w \in Workers : wpc[w] = "off" => ~running \/ stopReq
  /\ ~running => opc # "join" /\ \A w \in Workers : wpc[w] = "off"

\* The running count is the number of workers between count and discount.
BusyInv == busy = Cardinality(CountedWorkers)

\* Nothing has been done about the task yet.
Fresh(k) == state[k] = "PENDING" /\ result[k] = "none" /\ called[k] = 0

\* A task is in one place: with a user inside submit(), in the queue, with one
\* worker, lost, or done.
PlaceInv ==
  /\ \A w \in Workers : cur[w] # None <=> wpc[w] \in Doing
  /\ \A v, w \in Workers : v # w /\ cur[v] # None => cur[v] # cur[w]
  /\ queue \cap lost = {}
  /\ \A k \in queue \cup lost : result[k] = "none" /\ \A w \in Workers : cur[w] # k
  /\ \A k \in Tasks :
       result[k] = "none" /\ (\A w \in Workers : cur[w] # k) => Fresh(k)
  /\ \A u \in Users : upc[u] \in {"insert", "push"} =>
       /\ arg[u] \in Tasks /\ ~Submitted(arg[u])
       /\ \A v \in Users \ {u} : upc[v] \in {"insert", "push"} => arg[v] # arg[u]

\* The state that goes with a result.
Match(k, res) == state[k] = IF res = "value" THEN "COMPLETED" ELSE "FAILED"

\* What a worker has done about its task.
WorkInv ==
  \A w \in Workers :
    LET k == cur[w] IN
      /\ wpc[w] \in {"count", "check", "setRunning"} => Fresh(k)
      /\ wpc[w] \in {"cancel1", "function"} =>
           state[k] = "RUNNING" /\ result[k] = "none" /\ called[k] = 0
      /\ wpc[w] = "cancel2" =>
           state[k] = "RUNNING" /\ result[k] = "none" /\ called[k] = 1
             /\ outcome[w] = "value"
      /\ wpc[w] \in {"setState", "publish"} =>
           /\ result[k] = "none"
           /\ called[k] = 1 \/ (called[k] = 0 /\ outcome[w] = "cancelled"
                /\ cancelReq[k])
      /\ wpc[w] \in {"publish", "catch2"} => Match(k, outcome[w])
      /\ wpc[w] \in {"callback", "catch3", "uncount", "erase"} =>
           result[k] # "none" /\ Match(k, result[k])
      /\ wpc[w] \in {"catch1", "catch2"} =>
           /\ outcome[w] = "error"
           /\ IF result[k] = "none" THEN called[k] = 1 ELSE threw[k]

\* A task that no worker has is as its last worker left it.
DoneInv ==
  \A k \in Tasks :
    result[k] # "none" /\ (\A w \in Workers : cur[w] # k) => Match(k, result[k])

\* The function of a task is called once at most.
CalledInv == \A k \in Tasks : called[k] \in {0, 1}

\* What waitForCompletion began with was submitted, and is not queued again.
SnapInv ==
  \A u \in Users :
    /\ \A k \in snap[u] : Submitted(k)
    /\ upc[u] = "readBusy" => snap[u] \cap queue = {}

IInv ==
  /\ TypeOK /\ OwnerInv /\ BusyInv /\ PlaceInv /\ WorkInv /\ DoneInv /\ CalledInv
  /\ SnapInv /\ NoIdlePool

-----------------------------------------------------------------------------
(* The steps, one action at a time *)

\* The types but that of the counter, which follows from BusyInv.
TypesInv ==
  /\ running \in BOOLEAN /\ stopReq \in BOOLEAN
  /\ queue \subseteq Tasks /\ active \subseteq Tasks
  /\ state \in [Tasks -> TaskStates]
  /\ cancelReq \in [Tasks -> BOOLEAN] /\ threw \in [Tasks -> BOOLEAN]
  /\ result \in [Tasks -> Results \cup {"none"}]
  /\ wpc \in [Workers -> WSteps]
  /\ cur \in [Workers -> Tasks \cup {None}]
  /\ outcome \in [Workers -> Results]
  /\ upc \in [Users -> USteps]
  /\ arg \in [Users -> Tasks \cup {None}]
  /\ snap \in [Users -> SUBSET Tasks]
  /\ opc \in OSteps /\ starts \in 0..MaxStarts
  /\ called \in [Tasks -> Nat] /\ lost \subseteq Tasks

\* Types are kept.
LEMMA TypesStep ==
  ASSUME TypesInv, PlaceInv, Next
  PROVE  TypesInv'
<1> USE DEF TypesInv, poolVars, taskVars, wVars, uVars, ownerVars, WGoto, UGoto
<1>0. TypesInv /\ PlaceInv
  OBVIOUS
<1>1. CASE Start
  <2>1. starts' \in 0..MaxStarts
    <3>1. starts \in 0..MaxStarts /\ starts < MaxStarts /\ starts' = starts + 1
      BY <1>1 DEF Start
    <3> QED
      BY <3>1, StartsAssumption
  <2> QED
    BY <1>1, <2>1 DEF Start, WSteps
<1>2. CASE StopRequest
  BY <1>0, <1>2 DEF StopRequest, PlaceInv, Counted, Doing, TaskStates, Results, WSteps,
     USteps, OSteps
<1>3. CASE StopJoined
  BY <1>0, <1>3 DEF StopJoined, PlaceInv, Counted, Doing, TaskStates, Results, WSteps,
     USteps, OSteps
<1>4. CASE StopClearActive
  BY <1>0, <1>4 DEF StopClearActive, PlaceInv, Counted, Doing, TaskStates, Results,
     WSteps, USteps, OSteps
<1>5. CASE StopClearQueue
  BY <1>0, <1>5 DEF StopClearQueue, PlaceInv, Counted, Doing, TaskStates, Results,
     WSteps, USteps, OSteps
<1>6. ASSUME NEW w \in Workers, WorkerLoop(w) PROVE TypesInv'
  BY <1>0, <1>6 DEF WorkerLoop, PlaceInv, Counted, Doing, TaskStates, Results, WSteps,
     USteps, OSteps
<1>7. ASSUME NEW w \in Workers, WorkerWait(w) PROVE TypesInv'
  BY <1>0, <1>7 DEF WorkerWait, PlaceInv, Counted, Doing, TaskStates, Results, WSteps,
     USteps, OSteps
<1>8. ASSUME NEW w \in Workers, WorkerStop(w) PROVE TypesInv'
  BY <1>0, <1>8 DEF WorkerStop, PlaceInv, Counted, Doing, TaskStates, Results, WSteps,
     USteps, OSteps
<1>9. ASSUME NEW w \in Workers, WorkerPop(w) PROVE TypesInv'
  BY <1>0, <1>9 DEF WorkerPop, PlaceInv, Counted, Doing, TaskStates, Results, WSteps,
     USteps, OSteps
<1>10. ASSUME NEW w \in Workers, WorkerCount(w) PROVE TypesInv'
  BY <1>0, <1>10 DEF WorkerCount, PlaceInv, Counted, Doing, TaskStates, Results, WSteps,
     USteps, OSteps
<1>11. ASSUME NEW w \in Workers, WorkerUncount(w) PROVE TypesInv'
  BY <1>0, <1>11 DEF WorkerUncount, PlaceInv, Counted, Doing, TaskStates, Results,
     WSteps, USteps, OSteps
<1>12. ASSUME NEW w \in Workers, WorkerErase(w) PROVE TypesInv'
  BY <1>0, <1>12 DEF WorkerErase, PlaceInv, Counted, Doing, TaskStates, Results, WSteps,
     USteps, OSteps
<1>13. ASSUME NEW w \in Workers, ExecCheck(w) PROVE TypesInv'
  BY <1>0, <1>13 DEF ExecCheck, PlaceInv, Counted, Doing, TaskStates, Results, WSteps,
     USteps, OSteps
<1>14. ASSUME NEW w \in Workers, ExecSetRunning(w) PROVE TypesInv'
  BY <1>0, <1>14 DEF ExecSetRunning, PlaceInv, Counted, Doing, TaskStates, Results,
     WSteps, USteps, OSteps
<1>15. ASSUME NEW w \in Workers, ExecCancel1(w) PROVE TypesInv'
  BY <1>0, <1>15 DEF ExecCancel1, CheckForCancellation, PlaceInv, Counted, Doing,
     TaskStates, Results, WSteps, USteps, OSteps
<1>16. ASSUME NEW w \in Workers, ExecFunction(w) PROVE TypesInv'
  BY <1>0, <1>16 DEF ExecFunction, PlaceInv, Counted, Doing, TaskStates, Results,
     WSteps, USteps, OSteps
<1>17. ASSUME NEW w \in Workers, ExecCancel2(w) PROVE TypesInv'
  BY SMTT(30), <1>0, <1>17 DEF ExecCancel2, CheckForCancellation, PlaceInv, Counted,
     Doing, TaskStates, Results, WSteps, USteps, OSteps
<1>18. ASSUME NEW w \in Workers, CallbackReturns(w) PROVE TypesInv'
  BY <1>0, <1>18 DEF CallbackReturns, PlaceInv, Counted, Doing, TaskStates, Results,
     WSteps, USteps, OSteps
<1>19. ASSUME NEW w \in Workers, CallbackThrows(w) PROVE TypesInv'
  BY <1>0, <1>19 DEF CallbackThrows, PlaceInv, Counted, Doing, TaskStates, Results,
     WSteps, USteps, OSteps
<1>20. ASSUME NEW w \in Workers, NotifyState(w, "setState", "publish") PROVE TypesInv'
  BY <1>0, <1>20 DEF NotifyState, PlaceInv, Counted, Doing, TaskStates, Results, WSteps,
     USteps, OSteps
<1>21. ASSUME NEW w \in Workers, NotifyResult(w, "publish", "callback") PROVE TypesInv'
  BY <1>0, <1>21 DEF NotifyResult, PlaceInv, Counted, Doing, TaskStates, Results,
     WSteps, USteps, OSteps
<1>22. ASSUME NEW w \in Workers, NotifyState(w, "catch1", "catch2")
     PROVE TypesInv'
  BY <1>0, <1>22 DEF NotifyState, PlaceInv, Counted, Doing, TaskStates, Results, WSteps,
     USteps, OSteps
<1>23. ASSUME NEW w \in Workers, NotifyResult(w, "catch2", "catch3") PROVE TypesInv'
  BY <1>0, <1>23 DEF NotifyResult, PlaceInv, Counted, Doing, TaskStates, Results,
     WSteps, USteps, OSteps
<1>24. ASSUME NEW u \in Users, SubmitInsert(u) PROVE TypesInv'
  BY <1>0, <1>24 DEF SubmitInsert, PlaceInv, Counted, Doing, TaskStates, Results,
     WSteps, USteps, OSteps
<1>25. ASSUME NEW u \in Users, SubmitPush(u) PROVE TypesInv'
  BY <1>0, <1>25 DEF SubmitPush, PlaceInv, Counted, Doing, TaskStates, Results, WSteps,
     USteps, OSteps
<1>26. ASSUME NEW u \in Users, GotResult(u) PROVE TypesInv'
  BY <1>0, <1>26 DEF GotResult, PlaceInv, Counted, Doing, TaskStates, Results, WSteps,
     USteps, OSteps
<1>27. ASSUME NEW u \in Users, WaitReadQueue(u) PROVE TypesInv'
  BY <1>0, <1>27 DEF WaitReadQueue, PlaceInv, Counted, Doing, TaskStates, Results,
     WSteps, USteps, OSteps
<1>28. ASSUME NEW u \in Users, WaitReadBusy(u) PROVE TypesInv'
  BY <1>0, <1>28 DEF WaitReadBusy, PlaceInv, Counted, Doing, TaskStates, Results,
     WSteps, USteps, OSteps
<1>29. ASSUME NEW u \in Users, Submit(u) PROVE TypesInv'
  BY <1>0, <1>29 DEF Submit, Submitting, PlaceInv, Counted, Doing, TaskStates, Results,
     WSteps, USteps, OSteps
<1>30. ASSUME NEW u \in Users, CancelTask(u) PROVE TypesInv'
  BY <1>0, <1>30 DEF CancelTask, PlaceInv, Counted, Doing, TaskStates, Results, WSteps,
     USteps, OSteps
<1>31. ASSUME NEW u \in Users, GetResult(u) PROVE TypesInv'
  BY <1>0, <1>31 DEF GetResult, PlaceInv, Counted, Doing, TaskStates, Results, WSteps,
     USteps, OSteps
<1>32. ASSUME NEW u \in Users, WaitBegin(u) PROVE TypesInv'
  BY <1>0, <1>32 DEF WaitBegin, PlaceInv, Counted, Doing, TaskStates, Results, WSteps,
     USteps, OSteps
<1> QED
  BY <1>1, <1>2, <1>3, <1>4, <1>5, <1>6, <1>7, <1>8, <1>9, <1>10, <1>11, <1>12, <1>13,
     <1>14, <1>15, <1>16, <1>17, <1>18, <1>19, <1>20, <1>21, <1>22, <1>23, <1>24, <1>25,
     <1>26, <1>27, <1>28, <1>29, <1>30, <1>31, <1>32 DEF Next, StopStep, Worker,
     Execute, UserStep, UserCall

\* start() and stop() are where the flags say.
LEMMA OwnerStep ==
  ASSUME TypesInv, TypesInv', OwnerInv, Next
  PROVE  OwnerInv'
<1> USE DEF TypesInv, OwnerInv, poolVars, taskVars, wVars, uVars, ownerVars, WGoto,
        UGoto
<1>0. TypesInv /\ TypesInv' /\ OwnerInv /\ Workers # {}
  BY WorkersAssumption
<1>1. CASE Start
  BY <1>0, <1>1 DEF Start
<1>2. CASE StopRequest
  BY <1>0, <1>2 DEF StopRequest
<1>3. CASE StopJoined
  BY <1>0, <1>3 DEF StopJoined
<1>4. CASE StopClearActive
  BY <1>0, <1>4 DEF StopClearActive
<1>5. CASE StopClearQueue
  BY <1>0, <1>5 DEF StopClearQueue
<1>6. ASSUME NEW w \in Workers, WorkerLoop(w) PROVE OwnerInv'
  BY <1>0, <1>6 DEF WorkerLoop
<1>7. ASSUME NEW w \in Workers, WorkerWait(w) PROVE OwnerInv'
  BY <1>0, <1>7 DEF WorkerWait
<1>8. ASSUME NEW w \in Workers, WorkerStop(w) PROVE OwnerInv'
  BY <1>0, <1>8 DEF WorkerStop
<1>9. ASSUME NEW w \in Workers, WorkerPop(w) PROVE OwnerInv'
  BY <1>0, <1>9 DEF WorkerPop
<1>10. ASSUME NEW w \in Workers, WorkerCount(w) PROVE OwnerInv'
  BY <1>0, <1>10 DEF WorkerCount
<1>11. ASSUME NEW w \in Workers, WorkerUncount(w) PROVE OwnerInv'
  BY <1>0, <1>11 DEF WorkerUncount
<1>12. ASSUME NEW w \in Workers, WorkerErase(w) PROVE OwnerInv'
  BY <1>0, <1>12 DEF WorkerErase
<1>13. ASSUME NEW w \in Workers, ExecCheck(w) PROVE OwnerInv'
  BY <1>0, <1>13 DEF ExecCheck
<1>14. ASSUME NEW w \in Workers, ExecSetRunning(w) PROVE OwnerInv'
  BY <1>0, <1>14 DEF ExecSetRunning
<1>15. ASSUME NEW w \in Workers, ExecCancel1(w) PROVE OwnerInv'
  BY <1>0, <1>15 DEF ExecCancel1, CheckForCancellation
<1>16. ASSUME NEW w \in Workers, ExecFunction(w) PROVE OwnerInv'
  BY <1>0, <1>16 DEF ExecFunction
<1>17. ASSUME NEW w \in Workers, ExecCancel2(w) PROVE OwnerInv'
  BY <1>0, <1>17 DEF ExecCancel2, CheckForCancellation
<1>18. ASSUME NEW w \in Workers, CallbackReturns(w) PROVE OwnerInv'
  BY <1>0, <1>18 DEF CallbackReturns
<1>19. ASSUME NEW w \in Workers, CallbackThrows(w) PROVE OwnerInv'
  BY <1>0, <1>19 DEF CallbackThrows
<1>20. ASSUME NEW w \in Workers, NotifyState(w, "setState", "publish") PROVE OwnerInv'
  BY <1>0, <1>20 DEF NotifyState
<1>21. ASSUME NEW w \in Workers, NotifyResult(w, "publish", "callback") PROVE OwnerInv'
  BY <1>0, <1>21 DEF NotifyResult
<1>22. ASSUME NEW w \in Workers, NotifyState(w, "catch1", "catch2")
     PROVE OwnerInv'
  BY <1>0, <1>22 DEF NotifyState
<1>23. ASSUME NEW w \in Workers, NotifyResult(w, "catch2", "catch3") PROVE OwnerInv'
  BY <1>0, <1>23 DEF NotifyResult
<1>24. ASSUME NEW u \in Users, SubmitInsert(u) PROVE OwnerInv'
  BY <1>0, <1>24 DEF SubmitInsert
<1>25. ASSUME NEW u \in Users, SubmitPush(u) PROVE OwnerInv'
  BY <1>0, <1>25 DEF SubmitPush
<1>26. ASSUME NEW u \in Users, GotResult(u) PROVE OwnerInv'
  BY <1>0, <1>26 DEF GotResult
<1>27. ASSUME NEW u \in Users, WaitReadQueue(u) PROVE OwnerInv'
  BY <1>0, <1>27 DEF WaitReadQueue
<1>28. ASSUME NEW u \in Users, WaitReadBusy(u) PROVE OwnerInv'
  BY <1>0, <1>28 DEF WaitReadBusy
<1>29. ASSUME NEW u \in Users, Submit(u) PROVE OwnerInv'
  BY <1>0, <1>29 DEF Submit, Submitting
<1>30. ASSUME NEW u \in Users, CancelTask(u) PROVE OwnerInv'
  BY <1>0, <1>30 DEF CancelTask
<1>31. ASSUME NEW u \in Users, GetResult(u) PROVE OwnerInv'
  BY <1>0, <1>31 DEF GetResult
<1>32. ASSUME NEW u \in Users, WaitBegin(u) PROVE OwnerInv'
  BY <1>0, <1>32 DEF WaitBegin
<1> QED
  BY <1>1, <1>2, <1>3, <1>4, <1>5, <1>6, <1>7, <1>8, <1>9, <1>10, <1>11, <1>12, <1>13,
     <1>14, <1>15, <1>16, <1>17, <1>18, <1>19, <1>20, <1>21, <1>22, <1>23, <1>24, <1>25,
     <1>26, <1>27, <1>28, <1>29, <1>30, <1>31, <1>32 DEF Next, StopStep, Worker,
     Execute, UserStep, UserCall

\* No notification is lost.
LEMMA WakeStep ==
  ASSUME TypesInv, TypesInv', OwnerInv, NoIdlePool, Next
  PROVE  NoIdlePool'
<1> USE DEF TypesInv, OwnerInv, NoIdlePool, poolVars, taskVars, wVars, uVars, ownerVars,
        WGoto, UGoto
<1>0. TypesInv /\ TypesInv' /\ OwnerInv /\ NoIdlePool /\ Workers # {}
  BY WorkersAssumption
<1>1. CASE Start
  BY <1>0, <1>1 DEF Start
<1>2. CASE StopRequest
  BY <1>0, <1>2 DEF StopRequest
<1>3. CASE StopJoined
  BY <1>0, <1>3 DEF StopJoined
<1>4. CASE StopClearActive
  BY <1>0, <1>4 DEF StopClearActive
<1>5. CASE StopClearQueue
  BY <1>0, <1>5 DEF StopClearQueue
<1>6. ASSUME NEW w \in Workers, WorkerLoop(w) PROVE NoIdlePool'
  BY <1>0, <1>6 DEF WorkerLoop
<1>7. ASSUME NEW w \in Workers, WorkerWait(w) PROVE NoIdlePool'
  BY <1>0, <1>7 DEF WorkerWait
<1>8. ASSUME NEW w \in Workers, WorkerStop(w) PROVE NoIdlePool'
  BY <1>0, <1>8 DEF WorkerStop
<1>9. ASSUME NEW w \in Workers, WorkerPop(w) PROVE NoIdlePool'
  BY <1>0, <1>9 DEF WorkerPop
<1>10. ASSUME NEW w \in Workers, WorkerCount(w) PROVE NoIdlePool'
  BY <1>0, <1>10 DEF WorkerCount
<1>11. ASSUME NEW w \in Workers, WorkerUncount(w) PROVE NoIdlePool'
  BY <1>0, <1>11 DEF WorkerUncount
<1>12. ASSUME NEW w \in Workers, WorkerErase(w) PROVE NoIdlePool'
  BY <1>0, <1>12 DEF WorkerErase
<1>13. ASSUME NEW w \in Workers, ExecCheck(w) PROVE NoIdlePool'
  BY <1>0, <1>13 DEF ExecCheck
<1>14. ASSUME NEW w \in Workers, ExecSetRunning(w) PROVE NoIdlePool'
  BY <1>0, <1>14 DEF ExecSetRunning
<1>15. ASSUME NEW w \in Workers, ExecCancel1(w) PROVE NoIdlePool'
  BY <1>0, <1>15 DEF ExecCancel1, CheckForCancellation
<1>16. ASSUME NEW w \in Workers, ExecFunction(w) PROVE NoIdlePool'
  BY <1>0, <1>16 DEF ExecFunction
<1>17. ASSUME NEW w \in Workers, ExecCancel2(w) PROVE NoIdlePool'
  BY <1>0, <1>17 DEF ExecCancel2, CheckForCancellation
<1>18. ASSUME NEW w \in Workers, CallbackReturns(w) PROVE NoIdlePool'
  BY <1>0, <1>18 DEF CallbackReturns
<1>19. ASSUME NEW w \in Workers, CallbackThrows(w) PROVE NoIdlePool'
  BY <1>0, <1>19 DEF CallbackThrows
<1>20. ASSUME NEW w \in Workers, NotifyState(w, "setState", "publish") PROVE NoIdlePool'
  BY <1>0, <1>20 DEF NotifyState
<1>21. ASSUME NEW w \in Workers, NotifyResult(w, "publish", "callback")
     PROVE NoIdlePool'
  BY <1>0, <1>21 DEF NotifyResult
<1>22. ASSUME NEW w \in Workers, NotifyState(w, "catch1", "catch2")
     PROVE NoIdlePool'
  BY <1>0, <1>22 DEF NotifyState
<1>23. ASSUME NEW w \in Workers, NotifyResult(w, "catch2", "catch3")
     PROVE NoIdlePool'
  BY <1>0, <1>23 DEF NotifyResult
<1>24. ASSUME NEW u \in Users, SubmitInsert(u) PROVE NoIdlePool'
  BY <1>0, <1>24 DEF SubmitInsert
<1>25. ASSUME NEW u \in Users, SubmitPush(u) PROVE NoIdlePool'
  BY <1>0, <1>25 DEF SubmitPush
<1>26. ASSUME NEW u \in Users, GotResult(u) PROVE NoIdlePool'
  BY <1>0, <1>26 DEF GotResult
<1>27. ASSUME NEW u \in Users, WaitReadQueue(u) PROVE NoIdlePool'
  BY <1>0, <1>27 DEF WaitReadQueue
<1>28. ASSUME NEW u \in Users, WaitReadBusy(u) PROVE NoIdlePool'
  BY <1>0, <1>28 DEF WaitReadBusy
<1>29. ASSUME NEW u \in Users, Submit(u) PROVE NoIdlePool'
  BY <1>0, <1>29 DEF Submit, Submitting
<1>30. ASSUME NEW u \in Users, CancelTask(u) PROVE NoIdlePool'
  BY <1>0, <1>30 DEF CancelTask
<1>31. ASSUME NEW u \in Users, GetResult(u) PROVE NoIdlePool'
  BY <1>0, <1>31 DEF GetResult
<1>32. ASSUME NEW u \in Users, WaitBegin(u) PROVE NoIdlePool'
  BY <1>0, <1>32 DEF WaitBegin
<1> QED
  BY <1>1, <1>2, <1>3, <1>4, <1>5, <1>6, <1>7, <1>8, <1>9, <1>10, <1>11, <1>12, <1>13,
     <1>14, <1>15, <1>16, <1>17, <1>18, <1>19, <1>20, <1>21, <1>22, <1>23, <1>24, <1>25,
     <1>26, <1>27, <1>28, <1>29, <1>30, <1>31, <1>32 DEF Next, StopStep, Worker,
     Execute, UserStep, UserCall

\* A queued task is in the queue once and nowhere else.
LEMMA PlaceStep ==
  ASSUME TypesInv, TypesInv', OwnerInv, PlaceInv, WorkInv, Next
  PROVE  PlaceInv'
<1> USE DEF TypesInv, OwnerInv, PlaceInv, WorkInv, Fresh, Submitted, Counted, Doing,
        OSteps, poolVars, taskVars, wVars, uVars, ownerVars, WGoto, UGoto
<1>0. TypesInv /\ TypesInv' /\ OwnerInv /\ PlaceInv /\ WorkInv /\ None \notin Tasks
  BY NoneAssumption
<1>1. CASE Start
  BY <1>0, <1>1 DEF Start
<1>2. CASE StopRequest
  BY <1>0, <1>2 DEF StopRequest
<1>3. CASE StopJoined
  BY <1>0, <1>3 DEF StopJoined
<1>4. CASE StopClearActive
  BY <1>0, <1>4 DEF StopClearActive
<1>5. CASE StopClearQueue
  BY <1>0, <1>5 DEF StopClearQueue
<1>6. ASSUME NEW w \in Workers, WorkerLoop(w) PROVE PlaceInv'
  BY <1>0, <1>6 DEF WorkerLoop
<1>7. ASSUME NEW w \in Workers, WorkerWait(w) PROVE PlaceInv'
  BY <1>0, <1>7 DEF WorkerWait
<1>8. ASSUME NEW w \in Workers, WorkerStop(w) PROVE PlaceInv'
  BY <1>0, <1>8 DEF WorkerStop
<1>9. ASSUME NEW w \in Workers, WorkerPop(w) PROVE PlaceInv'
  BY <1>0, <1>9 DEF WorkerPop
<1>10. ASSUME NEW w \in Workers, WorkerCount(w) PROVE PlaceInv'
  BY <1>0, <1>10 DEF WorkerCount
<1>11. ASSUME NEW w \in Workers, WorkerUncount(w) PROVE PlaceInv'
  BY <1>0, <1>11 DEF WorkerUncount
<1>12. ASSUME NEW w \in Workers, WorkerErase(w) PROVE PlaceInv'
  BY <1>0, <1>12 DEF WorkerErase
<1>13. ASSUME NEW w \in Workers, ExecCheck(w) PROVE PlaceInv'
  BY <1>0, <1>13 DEF ExecCheck
<1>14. ASSUME NEW w \in Workers, ExecSetRunning(w) PROVE PlaceInv'
  BY <1>0, <1>14 DEF ExecSetRunning
<1>15. ASSUME NEW w \in Workers, ExecCancel1(w) PROVE PlaceInv'
  <2>1. /\ UNCHANGED <<queue, lost, result, called, cur, upc, arg>>
        /\ wpc[w] = "cancel1" /\ \E step \in {"setState", "function"} :
             wpc' = [wpc EXCEPT ![w] = step]
        /\ \A k \in Tasks : cur[w] # k => state'[k] = state[k]
    BY <1>0, <1>15 DEF ExecCancel1, CheckForCancellation
  <2> QED
    BY <1>0, <2>1
<1>16. ASSUME NEW w \in Workers, ExecFunction(w) PROVE PlaceInv'
  BY <1>0, <1>16 DEF ExecFunction
<1>17. ASSUME NEW w \in Workers, ExecCancel2(w) PROVE PlaceInv'
  <2>1. /\ UNCHANGED <<queue, lost, result, called, cur, upc, arg>>
        /\ wpc[w] = "cancel2" /\ wpc' = [wpc EXCEPT ![w] = "setState"]
        /\ \A k \in Tasks : cur[w] # k => state'[k] = state[k]
    BY <1>0, <1>17 DEF ExecCancel2, CheckForCancellation
  <2> QED
    BY <1>0, <2>1
<1>18. ASSUME NEW w \in Workers, CallbackReturns(w) PROVE PlaceInv'
  BY <1>0, <1>18 DEF CallbackReturns
<1>19. ASSUME NEW w \in Workers, CallbackThrows(w) PROVE PlaceInv'
  <2>1. /\ UNCHANGED <<queue, lost, result, called, state, cur, upc, arg>>
        /\ wpc[w] \in {"callback", "catch3"} /\ \E step \in {"catch1", "uncount"} :
             wpc' = [wpc EXCEPT ![w] = step]
    BY <1>0, <1>19 DEF CallbackThrows
  <2> QED
    BY <1>0, <2>1
<1>20. ASSUME NEW w \in Workers, NotifyState(w, "setState", "publish") PROVE PlaceInv'
  BY <1>0, <1>20 DEF NotifyState
<1>21. ASSUME NEW w \in Workers, NotifyResult(w, "publish", "callback") PROVE PlaceInv'
  BY <1>0, <1>21 DEF NotifyResult
<1>22. ASSUME NEW w \in Workers, NotifyState(w, "catch1", "catch2")
     PROVE PlaceInv'
  BY <1>0, <1>22 DEF NotifyState
<1>23. ASSUME NEW w \in Workers, NotifyResult(w, "catch2", "catch3") PROVE PlaceInv'
  BY <1>0, <1>23 DEF NotifyResult
<1>24. ASSUME NEW u \in Users, SubmitInsert(u) PROVE PlaceInv'
  BY <1>0, <1>24 DEF SubmitInsert
<1>25. ASSUME NEW u \in Users, SubmitPush(u) PROVE PlaceInv'
  BY <1>0, <1>25 DEF SubmitPush
<1>26. ASSUME NEW u \in Users, GotResult(u) PROVE PlaceInv'
  BY <1>0, <1>26 DEF GotResult
<1>27. ASSUME NEW u \in Users, WaitReadQueue(u) PROVE PlaceInv'
  BY <1>0, <1>27 DEF WaitReadQueue
<1>28. ASSUME NEW u \in Users, WaitReadBusy(u) PROVE PlaceInv'
  BY <1>0, <1>28 DEF WaitReadBusy
<1>29. ASSUME NEW u \in Users, Submit(u) PROVE PlaceInv'
  BY SMTT(30), <1>0, <1>29 DEF Submit, Submitting
<1>30. ASSUME NEW u \in Users, CancelTask(u) PROVE PlaceInv'
  BY <1>0, <1>30 DEF CancelTask
<1>31. ASSUME NEW u \in Users, GetResult(u) PROVE PlaceInv'
  BY <1>0, <1>31 DEF GetResult
<1>32. ASSUME NEW u \in Users, WaitBegin(u) PROVE PlaceInv'
  BY <1>0, <1>32 DEF WaitBegin
<1> QED
  BY <1>1, <1>2, <1>3, <1>4, <1>5, <1>6, <1>7, <1>8, <1>9, <1>10, <1>11, <1>12, <1>13,
     <1>14, <1>15, <1>16, <1>17, <1>18, <1>19, <1>20, <1>21, <1>22, <1>23, <1>24, <1>25,
     <1>26, <1>27, <1>28, <1>29, <1>30, <1>31, <1>32 DEF Next, StopStep, Worker,
     Execute, UserStep, UserCall

\* A worker has a task to itself.
LEMMA WorkStep ==
  ASSUME TypesInv, TypesInv', OwnerInv, PlaceInv, WorkInv, Next
  PROVE  WorkInv'
<1> USE DEF TypesInv, OwnerInv, PlaceInv, WorkInv, Fresh, Match, Counted, Doing, OSteps,
        Results, poolVars, taskVars, wVars, uVars, ownerVars, WGoto, UGoto
<1>0. TypesInv /\ TypesInv' /\ OwnerInv /\ PlaceInv /\ WorkInv /\ None \notin Tasks
  BY NoneAssumption
<1>1. CASE Start
  BY <1>0, <1>1 DEF Start
<1>2. CASE StopRequest
  BY <1>0, <1>2 DEF StopRequest
<1>3. CASE StopJoined
  BY <1>0, <1>3 DEF StopJoined
<1>4. CASE StopClearActive
  BY <1>0, <1>4 DEF StopClearActive
<1>5. CASE StopClearQueue
  BY <1>0, <1>5 DEF StopClearQueue
<1>6. ASSUME NEW w \in Workers, WorkerLoop(w) PROVE WorkInv'
  BY <1>0, <1>6 DEF WorkerLoop
<1>7. ASSUME NEW w \in Workers, WorkerWait(w) PROVE WorkInv'
  BY <1>0, <1>7 DEF WorkerWait
<1>8. ASSUME NEW w \in Workers, WorkerStop(w) PROVE WorkInv'
  BY <1>0, <1>8 DEF WorkerStop
<1>9. ASSUME NEW w \in Workers, WorkerPop(w) PROVE WorkInv'
  BY <1>0, <1>9 DEF WorkerPop
<1>10. ASSUME NEW w \in Workers, WorkerCount(w) PROVE WorkInv'
  BY <1>0, <1>10 DEF WorkerCount
<1>11. ASSUME NEW w \in Workers, WorkerUncount(w) PROVE WorkInv'
  BY <1>0, <1>11 DEF WorkerUncount
<1>12. ASSUME NEW w \in Workers, WorkerErase(w) PROVE WorkInv'
  BY <1>0, <1>12 DEF WorkerErase
<1>13. ASSUME NEW w \in Workers, ExecCheck(w) PROVE WorkInv'
  BY <1>0, <1>13 DEF ExecCheck
<1>14. ASSUME NEW w \in Workers, ExecSetRunning(w) PROVE WorkInv'
  BY <1>0, <1>14 DEF ExecSetRunning
<1>15. ASSUME NEW w \in Workers, ExecCancel1(w) PROVE WorkInv'
  BY <1>0, <1>15 DEF ExecCancel1, CheckForCancellation
<1>16. ASSUME NEW w \in Workers, ExecFunction(w) PROVE WorkInv'
  BY <1>0, <1>16 DEF ExecFunction
<1>17. ASSUME NEW w \in Workers, ExecCancel2(w) PROVE WorkInv'
  BY <1>0, <1>17 DEF ExecCancel2, CheckForCancellation
<1>18. ASSUME NEW w \in Workers, CallbackReturns(w) PROVE WorkInv'
  BY <1>0, <1>18 DEF CallbackReturns
<1>19. ASSUME NEW w \in Workers, CallbackThrows(w) PROVE WorkInv'
  BY <1>0, <1>19 DEF CallbackThrows
<1>20. ASSUME NEW w \in Workers, NotifyState(w, "setState", "publish") PROVE WorkInv'
  BY <1>0, <1>20 DEF NotifyState
<1>21. ASSUME NEW w \in Workers, NotifyResult(w, "publish", "callback") PROVE WorkInv'
  BY <1>0, <1>21 DEF NotifyResult
<1>22. ASSUME NEW w \in Workers, NotifyState(w, "catch1", "catch2") PROVE WorkInv'
  BY <1>0, <1>22 DEF NotifyState
<1>23. ASSUME NEW w \in Workers, NotifyResult(w, "catch2", "catch3") PROVE WorkInv'
  BY <1>0, <1>23 DEF NotifyResult
<1>24. ASSUME NEW u \in Users, SubmitInsert(u) PROVE WorkInv'
  BY <1>0, <1>24 DEF SubmitInsert
<1>25. ASSUME NEW u \in Users, SubmitPush(u) PROVE WorkInv'
  BY <1>0, <1>25 DEF SubmitPush
<1>26. ASSUME NEW u \in Users, GotResult(u) PROVE WorkInv'
  BY <1>0, <1>26 DEF GotResult
<1>27. ASSUME NEW u \in Users, WaitReadQueue(u) PROVE WorkInv'
  BY <1>0, <1>27 DEF WaitReadQueue
<1>28. ASSUME NEW u \in Users, WaitReadBusy(u) PROVE WorkInv'
  BY <1>0, <1>28 DEF WaitReadBusy
<1>29. ASSUME NEW u \in Users, Submit(u) PROVE WorkInv'
  BY <1>0, <1>29 DEF Submit, Submitting
<1>30. ASSUME NEW u \in Users, CancelTask(u) PROVE WorkInv'
  BY <1>0, <1>30 DEF CancelTask
<1>31. ASSUME NEW u \in Users, GetResult(u) PROVE WorkInv'
  BY <1>0, <1>31 DEF GetResult
<1>32. ASSUME NEW u \in Users, WaitBegin(u) PROVE WorkInv'
  BY <1>0, <1>32 DEF WaitBegin
<1> QED
  BY <1>1, <1>2, <1>3, <1>4, <1>5, <1>6, <1>7, <1>8, <1>9, <1>10, <1>11, <1>12, <1>13,
     <1>14, <1>15, <1>16, <1>17, <1>18, <1>19, <1>20, <1>21, <1>22, <1>23, <1>24, <1>25,
     <1>26, <1>27, <1>28, <1>29, <1>30, <1>31, <1>32 DEF Next, StopStep, Worker,
     Execute, UserStep, UserCall

\* A task that has its result stays as it is.
LEMMA DoneStep ==
  ASSUME TypesInv, TypesInv', OwnerInv, PlaceInv, WorkInv, DoneInv, CalledInv, Next
  PROVE  (DoneInv /\ CalledInv)'
<1> USE DEF TypesInv, OwnerInv, PlaceInv, WorkInv, DoneInv, CalledInv, Fresh, Match,
        Counted, Doing, OSteps, poolVars, taskVars, wVars, uVars, ownerVars, WGoto,
        UGoto
<1>0. TypesInv /\ TypesInv' /\ OwnerInv /\ PlaceInv /\ WorkInv /\ DoneInv /\ CalledInv
     /\ None \notin Tasks
  BY NoneAssumption
<1>1. CASE Start
  BY <1>0, <1>1 DEF Start
<1>2. CASE StopRequest
  BY <1>0, <1>2 DEF StopRequest
<1>3. CASE StopJoined
  BY <1>0, <1>3 DEF StopJoined
<1>4. CASE StopClearActive
  BY <1>0, <1>4 DEF StopClearActive
<1>5. CASE StopClearQueue
  BY <1>0, <1>5 DEF StopClearQueue
<1>6. ASSUME NEW w \in Workers, WorkerLoop(w) PROVE (DoneInv /\ CalledInv)'
  BY <1>0, <1>6 DEF WorkerLoop
<1>7. ASSUME NEW w \in Workers, WorkerWait(w) PROVE (DoneInv /\ CalledInv)'
  BY <1>0, <1>7 DEF WorkerWait
<1>8. ASSUME NEW w \in Workers, WorkerStop(w) PROVE (DoneInv /\ CalledInv)'
  BY <1>0, <1>8 DEF WorkerStop
<1>9. ASSUME NEW w \in Workers, WorkerPop(w) PROVE (DoneInv /\ CalledInv)'
  BY <1>0, <1>9 DEF WorkerPop
<1>10. ASSUME NEW w \in Workers, WorkerCount(w) PROVE (DoneInv /\ CalledInv)'
  BY <1>0, <1>10 DEF WorkerCount
<1>11. ASSUME NEW w \in Workers, WorkerUncount(w) PROVE (DoneInv /\ CalledInv)'
  BY <1>0, <1>11 DEF WorkerUncount
<1>12. ASSUME NEW w \in Workers, WorkerErase(w) PROVE (DoneInv /\ CalledInv)'
  BY <1>0, <1>12 DEF WorkerErase
<1>13. ASSUME NEW w \in Workers, ExecCheck(w) PROVE (DoneInv /\ CalledInv)'
  BY <1>0, <1>13 DEF ExecCheck
<1>14. ASSUME NEW w \in Workers, ExecSetRunning(w) PROVE (DoneInv /\ CalledInv)'
  BY <1>0, <1>14 DEF ExecSetRunning
<1>15. ASSUME NEW w \in Workers, ExecCancel1(w) PROVE (DoneInv /\ CalledInv)'
  BY <1>0, <1>15 DEF ExecCancel1, CheckForCancellation
<1>16. ASSUME NEW w \in Workers, ExecFunction(w) PROVE (DoneInv /\ CalledInv)'
  BY <1>0, <1>16 DEF ExecFunction
<1>17. ASSUME NEW w \in Workers, ExecCancel2(w) PROVE (DoneInv /\ CalledInv)'
  BY <1>0, <1>17 DEF ExecCancel2, CheckForCancellation
<1>18. ASSUME NEW w \in Workers, CallbackReturns(w) PROVE (DoneInv /\ CalledInv)'
  BY <1>0, <1>18 DEF CallbackReturns
<1>19. ASSUME NEW w \in Workers, CallbackThrows(w) PROVE (DoneInv /\ CalledInv)'
  BY <1>0, <1>19 DEF CallbackThrows
<1>20. ASSUME NEW w \in Workers, NotifyState(w, "setState", "publish") PROVE (DoneInv
     /\ CalledInv)'
  BY <1>0, <1>20 DEF NotifyState
<1>21. ASSUME NEW w \in Workers, NotifyResult(w, "publish", "callback") PROVE (DoneInv
     /\ CalledInv)'
  BY <1>0, <1>21 DEF NotifyResult
<1>22. ASSUME NEW w \in Workers, NotifyState(w, "catch1", "catch2")
     PROVE (DoneInv /\ CalledInv)'
  BY <1>0, <1>22 DEF NotifyState
<1>23. ASSUME NEW w \in Workers, NotifyResult(w, "catch2", "catch3") PROVE (DoneInv
     /\ CalledInv)'
  BY <1>0, <1>23 DEF NotifyResult
<1>24. ASSUME NEW u \in Users, SubmitInsert(u) PROVE (DoneInv /\ CalledInv)'
  BY <1>0, <1>24 DEF SubmitInsert
<1>25. ASSUME NEW u \in Users, SubmitPush(u) PROVE (DoneInv /\ CalledInv)'
  BY <1>0, <1>25 DEF SubmitPush
<1>26. ASSUME NEW u \in Users, GotResult(u) PROVE (DoneInv /\ CalledInv)'
  BY <1>0, <1>26 DEF GotResult
<1>27. ASSUME NEW u \in Users, WaitReadQueue(u) PROVE (DoneInv /\ CalledInv)'
  BY <1>0, <1>27 DEF WaitReadQueue
<1>28. ASSUME NEW u \in Users, WaitReadBusy(u) PROVE (DoneInv /\ CalledInv)'
  BY <1>0, <1>28 DEF WaitReadBusy
<1>29. ASSUME NEW u \in Users, Submit(u) PROVE (DoneInv /\ CalledInv)'
  BY <1>0, <1>29 DEF Submit, Submitting
<1>30. ASSUME NEW u \in Users, CancelTask(u) PROVE (DoneInv /\ CalledInv)'
  BY <1>0, <1>30 DEF CancelTask
<1>31. ASSUME NEW u \in Users, GetResult(u) PROVE (DoneInv /\ CalledInv)'
  BY <1>0, <1>31 DEF GetResult
<1>32. ASSUME NEW u \in Users, WaitBegin(u) PROVE (DoneInv /\ CalledInv)'
  BY <1>0, <1>32 DEF WaitBegin
<1> QED
  BY <1>1, <1>2, <1>3, <1>4, <1>5, <1>6, <1>7, <1>8, <1>9, <1>10, <1>11, <1>12, <1>13,
     <1>14, <1>15, <1>16, <1>17, <1>18, <1>19, <1>20, <1>21, <1>22, <1>23, <1>24, <1>25,
     <1>26, <1>27, <1>28, <1>29, <1>30, <1>31, <1>32 DEF Next, StopStep, Worker,
     Execute, UserStep, UserCall

\* The tasks waitForCompletion() began with stay submitted.
LEMMA SnapStep ==
  ASSUME TypesInv, TypesInv', PlaceInv, WorkInv, SnapInv, Next
  PROVE  SnapInv'
<1> USE DEF TypesInv, PlaceInv, WorkInv, SnapInv, Submitted, Counted, Doing, Results,
        poolVars, taskVars, wVars, uVars, ownerVars, WGoto, UGoto
<1>0. TypesInv /\ TypesInv' /\ PlaceInv /\ WorkInv /\ SnapInv /\ None \notin Tasks
  BY NoneAssumption
<1>1. CASE Start
  BY <1>0, <1>1 DEF Start
<1>2. CASE StopRequest
  BY <1>0, <1>2 DEF StopRequest
<1>3. CASE StopJoined
  BY <1>0, <1>3 DEF StopJoined
<1>4. CASE StopClearActive
  BY <1>0, <1>4 DEF StopClearActive
<1>5. CASE StopClearQueue
  BY <1>0, <1>5 DEF StopClearQueue
<1>6. ASSUME NEW w \in Workers, WorkerLoop(w) PROVE SnapInv'
  BY <1>0, <1>6 DEF WorkerLoop
<1>7. ASSUME NEW w \in Workers, WorkerWait(w) PROVE SnapInv'
  BY <1>0, <1>7 DEF WorkerWait
<1>8. ASSUME NEW w \in Workers, WorkerStop(w) PROVE SnapInv'
  BY <1>0, <1>8 DEF WorkerStop
<1>9. ASSUME NEW w \in Workers, WorkerPop(w) PROVE SnapInv'
  BY <1>0, <1>9 DEF WorkerPop
<1>10. ASSUME NEW w \in Workers, WorkerCount(w) PROVE SnapInv'
  BY <1>0, <1>10 DEF WorkerCount
<1>11. ASSUME NEW w \in Workers, WorkerUncount(w) PROVE SnapInv'
  BY <1>0, <1>11 DEF WorkerUncount
<1>12. ASSUME NEW w \in Workers, WorkerErase(w) PROVE SnapInv'
  BY <1>0, <1>12 DEF WorkerErase
<1>13. ASSUME NEW w \in Workers, ExecCheck(w) PROVE SnapInv'
  BY <1>0, <1>13 DEF ExecCheck
<1>14. ASSUME NEW w \in Workers, ExecSetRunning(w) PROVE SnapInv'
  BY <1>0, <1>14 DEF ExecSetRunning
<1>15. ASSUME NEW w \in Workers, ExecCancel1(w) PROVE SnapInv'
  BY <1>0, <1>15 DEF ExecCancel1, CheckForCancellation
<1>16. ASSUME NEW w \in Workers, ExecFunction(w) PROVE SnapInv'
  BY <1>0, <1>16 DEF ExecFunction
<1>17. ASSUME NEW w \in Workers, ExecCancel2(w) PROVE SnapInv'
  BY <1>0, <1>17 DEF ExecCancel2, CheckForCancellation
<1>18. ASSUME NEW w \in Workers, CallbackReturns(w) PROVE SnapInv'
  BY <1>0, <1>18 DEF CallbackReturns
<1>19. ASSUME NEW w \in Workers, CallbackThrows(w) PROVE SnapInv'
  BY <1>0, <1>19 DEF CallbackThrows
<1>20. ASSUME NEW w \in Workers, NotifyState(w, "setState", "publish") PROVE SnapInv'
  BY <1>0, <1>20 DEF NotifyState
<1>21. ASSUME NEW w \in Workers, NotifyResult(w, "publish", "callback") PROVE SnapInv'
  BY <1>0, <1>21 DEF NotifyResult
<1>22. ASSUME NEW w \in Workers, NotifyState(w, "catch1", "catch2") PROVE SnapInv'
  BY <1>0, <1>22 DEF NotifyState
<1>23. ASSUME NEW w \in Workers, NotifyResult(w, "catch2", "catch3") PROVE SnapInv'
  BY <1>0, <1>23 DEF NotifyResult
<1>24. ASSUME NEW u \in Users, SubmitInsert(u) PROVE SnapInv'
  BY <1>0, <1>24 DEF SubmitInsert
<1>25. ASSUME NEW u \in Users, SubmitPush(u) PROVE SnapInv'
  BY <1>0, <1>25 DEF SubmitPush
<1>26. ASSUME NEW u \in Users, GotResult(u) PROVE SnapInv'
  BY <1>0, <1>26 DEF GotResult
<1>27. ASSUME NEW u \in Users, WaitReadQueue(u) PROVE SnapInv'
  BY <1>0, <1>27 DEF WaitReadQueue
<1>28. ASSUME NEW u \in Users, WaitReadBusy(u) PROVE SnapInv'
  BY <1>0, <1>28 DEF WaitReadBusy
<1>29. ASSUME NEW u \in Users, Submit(u) PROVE SnapInv'
  BY <1>0, <1>29 DEF Submit, Submitting
<1>30. ASSUME NEW u \in Users, CancelTask(u) PROVE SnapInv'
  BY <1>0, <1>30 DEF CancelTask
<1>31. ASSUME NEW u \in Users, GetResult(u) PROVE SnapInv'
  BY <1>0, <1>31 DEF GetResult
<1>32. ASSUME NEW u \in Users, WaitBegin(u) PROVE SnapInv'
  BY <1>0, <1>32 DEF WaitBegin
<1> QED
  BY <1>1, <1>2, <1>3, <1>4, <1>5, <1>6, <1>7, <1>8, <1>9, <1>10, <1>11, <1>12, <1>13,
     <1>14, <1>15, <1>16, <1>17, <1>18, <1>19, <1>20, <1>21, <1>22, <1>23, <1>24, <1>25,
     <1>26, <1>27, <1>28, <1>29, <1>30, <1>31, <1>32 DEF Next, StopStep, Worker,
     Execute, UserStep, UserCall

\* The workers that count as busy are finitely many.
LEMMA CountedFinite == IsFiniteSet(CountedWorkers)
     /\ Cardinality(CountedWorkers) \in Nat
BY WorkersAssumption, FS_Subset, FS_CardinalityType DEF CountedWorkers

\* The counter of running tasks is the number of workers that count as busy.
LEMMA BusyStep ==
  ASSUME TypesInv, TypesInv', OwnerInv, PlaceInv, BusyInv, Next
  PROVE  BusyInv'
<1> USE DEF TypesInv, OwnerInv, PlaceInv, BusyInv, CountedWorkers, Counted, Doing,
        OSteps, poolVars, taskVars, wVars, uVars, ownerVars, WGoto, UGoto
<1>0. CountedWorkers' = CountedWorkers /\ busy' = busy => BusyInv'
  OBVIOUS
<1>1. CASE Start
  <2>1. CountedWorkers' = CountedWorkers /\ busy' = busy
    BY <1>1 DEF Start
  <2> QED
    BY <1>0, <2>1
<1>2. CASE StopRequest
  <2>1. CountedWorkers' = CountedWorkers /\ busy' = busy
    BY <1>2 DEF StopRequest
  <2> QED
    BY <1>0, <2>1
<1>3. CASE StopJoined
  <2>1. CountedWorkers' = CountedWorkers /\ busy' = busy
    BY <1>3 DEF StopJoined
  <2> QED
    BY <1>0, <2>1
<1>4. CASE StopClearActive
  <2>1. CountedWorkers' = CountedWorkers /\ busy' = busy
    BY <1>4 DEF StopClearActive
  <2> QED
    BY <1>0, <2>1
<1>5. CASE StopClearQueue
  <2>1. CountedWorkers' = {} /\ busy' = 0
    BY <1>5 DEF StopClearQueue
  <2> QED
    BY <2>1, FS_EmptySet
<1>6. ASSUME NEW w \in Workers, WorkerLoop(w) PROVE BusyInv'
  <2>1. CountedWorkers' = CountedWorkers /\ busy' = busy
    BY <1>6 DEF WorkerLoop
  <2> QED
    BY <1>0, <2>1
<1>7. ASSUME NEW w \in Workers, WorkerWait(w) PROVE BusyInv'
  <2>1. CountedWorkers' = CountedWorkers /\ busy' = busy
    BY <1>7 DEF WorkerWait
  <2> QED
    BY <1>0, <2>1
<1>8. ASSUME NEW w \in Workers, WorkerStop(w) PROVE BusyInv'
  <2>1. CountedWorkers' = CountedWorkers /\ busy' = busy
    BY <1>8 DEF WorkerStop
  <2> QED
    BY <1>0, <2>1
<1>9. ASSUME NEW w \in Workers, WorkerPop(w) PROVE BusyInv'
  <2>1. CountedWorkers' = CountedWorkers /\ busy' = busy
    BY <1>9 DEF WorkerPop
  <2> QED
    BY <1>0, <2>1
<1>10. ASSUME NEW w \in Workers, WorkerCount(w) PROVE BusyInv'
  <2>1. CountedWorkers' = CountedWorkers \cup {w} /\ w \notin CountedWorkers
    BY <1>10 DEF WorkerCount
  <2> HIDE DEF CountedWorkers, BusyInv
  <2>2. Cardinality(CountedWorkers') = Cardinality(CountedWorkers) + 1
    BY <2>1, CountedFinite, FS_AddElement
  <2> QED
    BY <1>10, <2>2 DEF WorkerCount, BusyInv
<1>11. ASSUME NEW w \in Workers, WorkerUncount(w) PROVE BusyInv'
  <2>1. CountedWorkers' = CountedWorkers \ {w} /\ w \in CountedWorkers
    BY <1>11 DEF WorkerUncount
  <2> HIDE DEF CountedWorkers, BusyInv
  <2>2. Cardinality(CountedWorkers') = Cardinality(CountedWorkers) - 1
    BY <2>1, CountedFinite, FS_RemoveElement
  <2> QED
    BY <1>11, <2>2 DEF WorkerUncount, BusyInv
<1>12. ASSUME NEW w \in Workers, WorkerErase(w) PROVE BusyInv'
  <2>1. CountedWorkers' = CountedWorkers /\ busy' = busy
    BY <1>12 DEF WorkerErase
  <2> QED
    BY <1>0, <2>1
<1>13. ASSUME NEW w \in Workers, ExecCheck(w) PROVE BusyInv'
  <2>1. CountedWorkers' = CountedWorkers /\ busy' = busy
    BY <1>13 DEF ExecCheck
  <2> QED
    BY <1>0, <2>1
<1>14. ASSUME NEW w \in Workers, ExecSetRunning(w) PROVE BusyInv'
  <2>1. CountedWorkers' = CountedWorkers /\ busy' = busy
    BY <1>14 DEF ExecSetRunning
  <2> QED
    BY <1>0, <2>1
<1>15. ASSUME NEW w \in Workers, ExecCancel1(w) PROVE BusyInv'
  <2>1. CountedWorkers' = CountedWorkers /\ busy' = busy
    BY <1>15 DEF ExecCancel1, CheckForCancellation
  <2> QED
    BY <1>0, <2>1
<1>16. ASSUME NEW w \in Workers, ExecFunction(w) PROVE BusyInv'
  <2>1. CountedWorkers' = CountedWorkers /\ busy' = busy
    BY <1>16 DEF ExecFunction
  <2> QED
    BY <1>0, <2>1
<1>17. ASSUME NEW w \in Workers, ExecCancel2(w) PROVE BusyInv'
  <2>1. CountedWorkers' = CountedWorkers /\ busy' = busy
    BY <1>17 DEF ExecCancel2, CheckForCancellation
  <2> QED
    BY <1>0, <2>1
<1>18. ASSUME NEW w \in Workers, CallbackReturns(w) PROVE BusyInv'
  <2>1. CountedWorkers' = CountedWorkers /\ busy' = busy
    BY <1>18 DEF CallbackReturns
  <2> QED
    BY <1>0, <2>1
<1>19. ASSUME NEW w \in Workers, CallbackThrows(w) PROVE BusyInv'
  <2>1. CountedWorkers' = CountedWorkers /\ busy' = busy
    BY <1>19 DEF CallbackThrows
  <2> QED
    BY <1>0, <2>1
<1>20. ASSUME NEW w \in Workers, NotifyState(w, "setState", "publish") PROVE BusyInv'
  <2>1. CountedWorkers' = CountedWorkers /\ busy' = busy
    BY <1>20 DEF NotifyState
  <2> QED
    BY <1>0, <2>1
<1>21. ASSUME NEW w \in Workers, NotifyResult(w, "publish", "callback") PROVE BusyInv'
  <2>1. CountedWorkers' = CountedWorkers /\ busy' = busy
    BY <1>21 DEF NotifyResult
  <2> QED
    BY <1>0, <2>1
<1>22. ASSUME NEW w \in Workers, NotifyState(w, "catch1", "catch2") PROVE BusyInv'
  <2>1. CountedWorkers' = CountedWorkers /\ busy' = busy
    BY <1>22 DEF NotifyState
  <2> QED
    BY <1>0, <2>1
<1>23. ASSUME NEW w \in Workers, NotifyResult(w, "catch2", "catch3") PROVE BusyInv'
  <2>1. CountedWorkers' = CountedWorkers /\ busy' = busy
    BY <1>23 DEF NotifyResult
  <2> QED
    BY <1>0, <2>1
<1>24. ASSUME NEW u \in Users, UserStep(u) \/ UserCall(u) PROVE BusyInv'
  <2>1. CountedWorkers' = CountedWorkers /\ busy' = busy
    BY <1>24 DEF UserStep, UserCall, SubmitInsert, SubmitPush, GotResult, WaitReadQueue,
       WaitReadBusy, Submit, CancelTask, GetResult, WaitBegin
  <2> QED
    BY <1>0, <2>1
<1> QED
  BY <1>1, <1>2, <1>3, <1>4, <1>5, <1>6, <1>7, <1>8, <1>9, <1>10, <1>11, <1>12, <1>13,
     <1>14, <1>15, <1>16, <1>17, <1>18, <1>19, <1>20, <1>21, <1>22, <1>23, <1>24
     DEF Next, StopStep, Worker, Execute

\* The counter is within its bound because the workers are.
LEMMA TypesCorrect == TypesInv /\ BusyInv => TypeOK
<1> SUFFICES ASSUME TypesInv, BusyInv PROVE TypeOK
  OBVIOUS
<1>1. Cardinality(CountedWorkers) <= Cardinality(Workers)
     /\ Cardinality(Workers) \in Nat
  BY WorkersAssumption, FS_Subset, FS_CardinalityType DEF CountedWorkers
<1>2. busy \in 0..Cardinality(Workers)
  BY <1>1, CountedFinite DEF BusyInv
<1> QED
  BY <1>2 DEF TypesInv, TypeOK

-----------------------------------------------------------------------------
\* Nothing is submitted or running at first.
LEMMA InitInductive == Init => IInv
<1> SUFFICES ASSUME Init PROVE IInv
  OBVIOUS
<1> USE DEF Init
<1>1. TypesInv
  <2>1. starts \in 0..MaxStarts
    BY StartsAssumption
  <2> QED
    BY <2>1 DEF TypesInv, TaskStates, Results, WSteps, USteps, OSteps
<1>2. OwnerInv /\ NoIdlePool
  BY DEF OwnerInv, NoIdlePool
<1>3. BusyInv
  <2>1. CountedWorkers = {}
    BY DEF CountedWorkers, Counted
  <2> QED
    BY <2>1, FS_EmptySet DEF BusyInv
<1>4. PlaceInv
  BY NoneAssumption DEF PlaceInv, Fresh, Counted, Doing, Submitted
<1>5. WorkInv /\ DoneInv /\ CalledInv /\ SnapInv
  BY DEF WorkInv, DoneInv, CalledInv, SnapInv
<1> QED
  BY <1>1, <1>2, <1>3, <1>4, <1>5, TypesCorrect DEF IInv

LEMMA TypesHold == IInv => TypesInv
BY DEF IInv, TypeOK, TypesInv

\* Every step keeps the invariant.
LEMMA NextInductive == IInv /\ [Next]_vars => IInv'
<1> SUFFICES ASSUME IInv, [Next]_vars PROVE IInv'
  OBVIOUS
<1>1. CASE Next
  <2>1. TypesInv /\ TypesInv'
    BY <1>1, TypesHold, TypesStep DEF IInv
  <2>2. BusyInv' /\ TypeOK'
    <3>1. BusyInv'
      BY <1>1, <2>1, BusyStep DEF IInv
    <3> QED
      BY <2>1, <3>1, TypesCorrect, PTL
  <2>3. OwnerInv' /\ NoIdlePool' /\ PlaceInv' /\ WorkInv'
    BY <1>1, <2>1, OwnerStep, WakeStep, PlaceStep, WorkStep DEF IInv
  <2>4. DoneInv' /\ CalledInv' /\ SnapInv'
    BY <1>1, <2>1, DoneStep, SnapStep DEF IInv
  <2> QED
    BY <2>2, <2>3, <2>4 DEF IInv
<1>2. CASE UNCHANGED vars
  BY <1>2 DEF vars, IInv, TypeOK, OwnerInv, BusyInv, CountedWorkers, PlaceInv, Fresh,
     Submitted, WorkInv, Match, DoneInv, CalledInv, SnapInv, NoIdlePool
<1> QED
  BY <1>1, <1>2

\* The invariant holds in every behaviour.
LEMMA Invariant == Spec => []IInv
BY InitInductive, NextInductive, PTL DEF Spec

\* The queue, the tasks and the places of the threads keep their types, and
\* runningTaskCount_ never leaves 0 .. the number of workers.
THEOREM TypeCorrect == Spec => []TypeOK
<1>1. IInv => TypeOK
  BY DEF IInv
<1> QED
  BY <1>1, Invariant, PTL

\* notify_one under queueMutex_ is enough: whenever tasks are queued in an executor
\* that runs, some worker is awake.
THEOREM WakeCorrect == Spec => []NoIdlePool
<1>1. IInv => NoIdlePool
  BY DEF IInv
<1> QED
  BY <1>1, Invariant, PTL

\* Once no worker changes a task any more, getState() and getResult() agree: it is
\* COMPLETED exactly when the result is a value.
THEOREM MatchCorrect == Spec => []StateMatchesResult
<1>1. IInv => StateMatchesResult
  <2> SUFFICES ASSUME IInv, NEW k \in Tasks, result[k] # "none",
                      \A w \in Workers : cur[w] = k =>
                        wpc[w] \in {"callback", "catch3", "uncount", "erase"}
               PROVE  Match(k, result[k])
    BY DEF StateMatchesResult, Match
  <2>1. CASE \E w \in Workers : cur[w] = k
    BY <2>1 DEF IInv, WorkInv
  <2>2. CASE \A w \in Workers : cur[w] # k
    BY <2>2 DEF IInv, DoneInv
  <2> QED
    BY <2>1, <2>2
<1> QED
  BY <1>1, Invariant, PTL

\* A published result is replaced only by the exception of a completion callback:
\* whoever has seen it has seen what others see.
THEOREM StableCorrect == Spec => ResultStable
<1>1. ASSUME IInv, Next, NEW k \in Tasks, result[k] # "none", ~threw[k]
      PROVE  result'[k] = result[k]
  <2>1. ASSUME NEW w \in Workers, NotifyResult(w, "publish", "callback")
        PROVE  result'[k] = result[k]
    BY <1>1, <2>1 DEF IInv, TypeOK, WorkInv, NotifyResult
  <2>2. ASSUME NEW w \in Workers, NotifyResult(w, "catch2", "catch3")
        PROVE  result'[k] = result[k]
    BY <1>1, <2>2 DEF IInv, TypeOK, WorkInv, NotifyResult
  <2>3. UNCHANGED result \/ \E w \in Workers :
          NotifyResult(w, "publish", "callback") \/ NotifyResult(w, "catch2", "catch3")
    BY <1>1 DEF Next, Start, StopRequest, StopStep, StopJoined, StopClearActive,
       StopClearQueue, Worker, WorkerLoop, WorkerWait, WorkerStop, WorkerPop,
            WorkerCount,
       WorkerUncount, WorkerErase, Execute, ExecCheck, ExecSetRunning, ExecCancel1,
       ExecCancel2, CheckForCancellation, ExecFunction, NotifyState, CallbackReturns,
       CallbackThrows, UserStep, UserCall, SubmitInsert, SubmitPush, GotResult,
       WaitReadQueue, WaitReadBusy, Submit, CancelTask, GetResult, WaitBegin, taskVars
  <2> QED
    BY <2>1, <2>2, <2>3
<1>2. ASSUME UNCHANGED vars, NEW k \in Tasks
      PROVE  result'[k] = result[k]
  BY <1>2 DEF vars
<1>3. IInv /\ [Next]_vars =>
        [\A k \in Tasks : result[k] # "none"
             /\ ~threw[k] => result'[k] = result[k]]_vars
  BY <1>1, <1>2
<1> QED
  BY <1>3, Invariant, PTL DEF Spec, ResultStable

\* waitForCompletion() looks at the queue and then at the counter, and still misses
\* only a task that a worker has popped and not counted.
THEOREM WaitCorrect == Spec => WaitSeesAll
<1> DEFINE Seen(u) == \A k \in snap[u] \ lost :
             \/ result[k] # "none"
             \/ \E w \in Workers : cur[w] = k /\ wpc[w] = "count"
<1>1. ASSUME IInv, Next, NEW u \in Users, upc[u] = "readBusy", upc'[u] = "idle"
      PROVE  Seen(u)
  <2>1. busy = 0
    <3>1. WaitReadBusy(u)
      BY <1>1 DEF IInv, TypeOK, Next, Start, StopRequest, StopStep, StopJoined,
         StopClearActive, StopClearQueue, Worker, WorkerLoop, WorkerWait, WorkerStop,
         WorkerPop, WorkerCount, WorkerUncount, WorkerErase, Execute, ExecCheck,
         ExecSetRunning, ExecCancel1, ExecCancel2, CheckForCancellation, ExecFunction,
         NotifyState, NotifyResult, CallbackReturns, CallbackThrows, UserStep, UserCall,
         SubmitInsert, SubmitPush, GotResult, WaitReadQueue, WaitReadBusy, Submit,
         CancelTask, GetResult, WaitBegin, UGoto, uVars
    <3> QED
      BY <1>1, <3>1 DEF IInv, TypeOK, WaitReadBusy, UGoto
  <2>2. CountedWorkers = {}
    BY <1>1, <2>1, CountedFinite, FS_EmptySet DEF IInv, BusyInv
  <2>3. ASSUME NEW k \in snap[u] \ lost, result[k] = "none"
        PROVE  \E w \in Workers : cur[w] = k /\ wpc[w] = "count"
    <3>1. k \in Tasks /\ Submitted(k) /\ k \notin queue
      BY <1>1, <2>3 DEF IInv, TypeOK, SnapInv
    <3>2. PICK w \in Workers : cur[w] = k
      BY <2>3, <3>1 DEF Submitted
    <3>3. wpc[w] \in Doing \ Counted
      BY <1>1, <2>2, <3>1, <3>2, NoneAssumption DEF IInv, PlaceInv, CountedWorkers
    <3>4. wpc[w] # "erase"
      BY <1>1, <2>3, <3>2 DEF IInv, WorkInv
    <3> QED
      BY <3>2, <3>3, <3>4 DEF Doing
  <2> QED
    BY <2>3
<1>2. IInv /\ [Next]_vars =>
        [\A u \in Users : upc[u] = "readBusy" /\ upc'[u] = "idle" => Seen(u)]_vars
  BY <1>1
<1> QED
  BY <1>2, Invariant, PTL DEF Spec, WaitSeesAll

-----------------------------------------------------------------------------
(* The executor implements the task pool *)

Stays(k) == Status(k)' = Status(k)

\* A step that moves the tasks of K, and one that moves none.
LEMMA PoolStep ==
  ASSUME NEW K \in SUBSET Tasks, NEW from, NEW to,
         \A k \in K : Status(k) \in from /\ Status(k)' = to,
         \A k \in Tasks \ K : Stays(k)
  PROVE  Pool!Step(K, from, to)
BY DEF Pool!Step, Stays

\* When no task changes its status, the pool does not move.
LEMMA PoolStutter ==
  ASSUME \A k \in Tasks : Stays(k)
  PROVE  UNCHANGED [k \in Tasks |-> Status(k)]
BY DEF Stays

\* The pool starts with all tasks new.
LEMMA PoolInit == Init => Pool!Init
<1> SUFFICES ASSUME Init, NEW k \in Tasks PROVE Status(k) = "new"
  BY DEF Pool!Init
<1> QED
  BY NoneAssumption DEF Init, Status

\* The status of a task that a worker has, and of one that none has.
WorkStatus(w) ==
  IF called[cur[w]] = 1 THEN IF result[cur[w]] = "none" THEN "called" ELSE "done"
  ELSE IF result[cur[w]] # "none" THEN "done"
  ELSE IF cancelReq[cur[w]] /\ wpc[w] \in {"count", "check", "setRunning", "cancel1",
                                         "setState", "publish"}
       THEN "revoked" ELSE "taken"
FreeStatus(k) ==
  IF k \in lost THEN "dropped"
  ELSE IF result[k] # "none" THEN "done"
  ELSE IF k \in queue THEN IF cancelReq[k] THEN "revoked" ELSE "queued"
  ELSE "new"

StatusInv ==
  /\ \A w \in Workers : cur[w] # None => Status(cur[w]) = WorkStatus(w)
  /\ \A k \in Tasks : (\A w \in Workers : cur[w] # k) => Status(k) = FreeStatus(k)

\* The status of a task in the pool, by where the task is.
LEMMA StatusIs == IInv => StatusInv
<1> SUFFICES ASSUME IInv PROVE StatusInv
  OBVIOUS
<1>0. TypesInv /\ PlaceInv /\ CalledInv
  BY TypesHold DEF IInv
<1>1. ASSUME NEW w \in Workers, cur[w] # None
      PROVE  Status(cur[w]) = WorkStatus(w)
  <2>1. Revoked(cur[w]) <=> cancelReq[cur[w]] /\ wpc[w] \in
          {"count", "check", "setRunning", "cancel1", "setState", "publish"}
    BY <1>0, <1>1 DEF Revoked, PlaceInv, TypesInv
  <2>2. /\ cur[w] \in Tasks /\ called[cur[w]] \in {0, 1}
        /\ cur[w] \notin queue \cup lost
    BY <1>0, <1>1 DEF PlaceInv, CalledInv, TypesInv
  <2>3. ~(called[cur[w]] > 1)
    BY <2>2
  <2>4. \E v \in Workers : cur[v] = cur[w]
    OBVIOUS
  <2>5. CASE called[cur[w]] = 1
    BY <2>3, <2>5 DEF Status, WorkStatus
  <2>6. CASE called[cur[w]] # 1 /\ Revoked(cur[w])
    BY <2>1, <2>2, <2>3, <2>4, <2>6 DEF Status, WorkStatus
  <2>7. CASE called[cur[w]] # 1 /\ ~Revoked(cur[w])
    BY <2>1, <2>2, <2>3, <2>4, <2>7 DEF Status, WorkStatus
  <2> QED
    BY <2>5, <2>6, <2>7
<1>2. ASSUME NEW k \in Tasks, \A w \in Workers : cur[w] # k
      PROVE  Status(k) = FreeStatus(k)
  <2>1. /\ called[k] \in {0, 1}
        /\ called[k] = 1 => result[k] # "none" /\ k \notin lost
        /\ k \in lost \cup queue => result[k] = "none"
    BY <1>0, <1>2 DEF PlaceInv, CalledInv, Fresh
  <2>2. Revoked(k) <=> cancelReq[k]
    BY <1>0, <1>2 DEF Revoked, TypesInv
  <2>3. ~(called[k] > 1)
    BY <2>1
  <2>4. CASE called[k] = 1
    BY <2>1, <2>3, <2>4 DEF Status, FreeStatus
  <2>5. CASE called[k] # 1
    BY <1>2, <2>1, <2>2, <2>3, <2>5 DEF Status, FreeStatus
  <2> QED
    BY <2>4, <2>5
<1> QED
  BY <1>1, <1>2 DEF StatusInv

\* A step of one worker inside execute() that does not change the status of its task.
LEMMA WorkerStays ==
  ASSUME StatusInv, StatusInv', TypesInv, NEW w \in Workers,
         UNCHANGED <<queue, lost, result, called, cancelReq, cur>>,
         \A v \in Workers : v # w => wpc'[v] = wpc[v],
         cur[w] # None => WorkStatus(w)' = WorkStatus(w)
  PROVE  \A k \in Tasks : Stays(k)
<1> SUFFICES ASSUME NEW k \in Tasks PROVE Status(k)' = Status(k)
  BY DEF Stays
<1>1. CASE \A v \in Workers : cur[v] # k
  <2>1. Status(k) = FreeStatus(k) /\ Status(k)' = FreeStatus(k)'
    BY <1>1 DEF StatusInv
  <2> QED
    BY <2>1 DEF FreeStatus
<1>2. ASSUME NEW v \in Workers, cur[v] = k PROVE Status(k)' = Status(k)
  <2>1. k # None
    BY NoneAssumption
  <2>2. WorkStatus(v)' = WorkStatus(v)
    <3>1. CASE v = w
      BY <1>2, <2>1, <3>1
    <3>2. CASE v # w
      BY <3>2 DEF WorkStatus
    <3> QED
      BY <3>1, <3>2
  <2>3. Status(cur[v]) = WorkStatus(v)
    BY <1>2, <2>1 DEF StatusInv
  <2>4. cur'[v] = k /\ Status(k)' = WorkStatus(v)'
    BY <1>2, <2>1 DEF StatusInv
  <2> QED
    BY <1>2, <2>2, <2>3, <2>4
<1> QED
  BY <1>1, <1>2

Implements == Pool!Next \/ UNCHANGED [k \in Tasks |-> Status(k)]

\* Only these steps move a task: submit() and its refusal, the two loops of stop(),
\* cancel(), the pop of a worker, the call of the function, and the first result.
LEMMA RefineStep ==
  ASSUME IInv, IInv', TypesInv, TypesInv', Next
  PROVE  Implements
<1> USE DEF TypesInv, Stays, StatusInv, WorkStatus, FreeStatus, OSteps, PlaceInv,
        WorkInv, OwnerInv, Counted, Doing, Fresh, CalledInv, poolVars, taskVars, wVars,
        uVars, ownerVars, WGoto, UGoto
<1>0. TypesInv /\ TypesInv' /\ PlaceInv /\ WorkInv /\ OwnerInv /\ CalledInv
     /\ None \notin Tasks /\ StatusInv /\ StatusInv'
  <2>1. StatusInv /\ StatusInv'
    BY StatusIs, PTL
  <2> QED
    BY <2>1, NoneAssumption DEF IInv
<1>1. CASE Start
  <2>1. \A k \in Tasks : Stays(k)
    BY <1>0, <1>1 DEF Start
  <2> QED
    BY <2>1, PoolStutter DEF Implements
<1>2. CASE StopRequest
  <2>1. \A k \in Tasks : Stays(k)
    BY <1>0, <1>2 DEF StopRequest
  <2> QED
    BY <2>1, PoolStutter DEF Implements
<1>3. CASE StopJoined
  <2>1. \A k \in Tasks : Stays(k)
    BY <1>0, <1>3 DEF StopJoined
  <2> QED
    BY <2>1, PoolStutter DEF Implements
<1>4. CASE StopClearActive
  <2> DEFINE K == {k \in Tasks : Status(k)' # Status(k)}
  <2>1. \A k \in K : Status(k) \in {"queued", "taken"} /\ Status(k)' = "revoked"
    BY <1>0, <1>4 DEF StopClearActive
  <2>2. \A k \in Tasks \ K : Stays(k)
    OBVIOUS
  <2> HIDE DEF K
  <2>3. K \in SUBSET Tasks
    BY DEF K
  <2> QED
    BY <2>1, <2>2, <2>3, PoolStep DEF Implements, Pool!Next, Pool!Revoke
<1>5. CASE StopClearQueue
  <2>1. \A k \in queue : Status(k) \in {"queued", "revoked"} /\ Status(k)' = "dropped"
    BY <1>0, <1>5 DEF StopClearQueue
  <2>2. \A k \in Tasks \ queue : Stays(k)
    BY <1>0, <1>5 DEF StopClearQueue
  <2>3. Pool!Step(queue, {"queued", "revoked"}, "dropped")
    BY <1>0, <2>1, <2>2, PoolStep
  <2> QED
    BY <1>0, <2>3 DEF Implements, Pool!Next, Pool!Drop
<1>6. ASSUME NEW w \in Workers, WorkerLoop(w) PROVE Implements
  <2>1. \A k \in Tasks : Stays(k)
    BY <1>0, <1>6 DEF WorkerLoop
  <2> QED
    BY <2>1, PoolStutter DEF Implements
<1>7. ASSUME NEW w \in Workers, WorkerWait(w) PROVE Implements
  <2>1. \A k \in Tasks : Stays(k)
    BY <1>0, <1>7 DEF WorkerWait
  <2> QED
    BY <2>1, PoolStutter DEF Implements
<1>8. ASSUME NEW w \in Workers, WorkerStop(w) PROVE Implements
  <2>1. \A k \in Tasks : Stays(k)
    BY SMTT(30), <1>0, <1>8 DEF WorkerStop
  <2> QED
    BY <2>1, PoolStutter DEF Implements
<1>9. ASSUME NEW w \in Workers, WorkerCount(w) PROVE Implements
  <2>1. /\ UNCHANGED <<queue, lost, result, called, cancelReq, cur>>
        /\ \A v \in Workers : v # w => wpc'[v] = wpc[v]
    BY <1>0, <1>9 DEF WorkerCount
  <2>2. cur[w] # None => WorkStatus(w)' = WorkStatus(w)
    BY <1>0, <1>9, <2>1 DEF WorkerCount
  <2>3. \A k \in Tasks : Stays(k)
    BY <1>0, <2>1, <2>2, WorkerStays
  <2> QED
    BY <2>3, PoolStutter DEF Implements
<1>10. ASSUME NEW w \in Workers, WorkerUncount(w) PROVE Implements
  <2>1. /\ UNCHANGED <<queue, lost, result, called, cancelReq, cur>>
        /\ \A v \in Workers : v # w => wpc'[v] = wpc[v]
    BY <1>0, <1>10 DEF WorkerUncount
  <2>2. cur[w] # None => WorkStatus(w)' = WorkStatus(w)
    BY <1>0, <1>10, <2>1 DEF WorkerUncount
  <2>3. \A k \in Tasks : Stays(k)
    BY <1>0, <2>1, <2>2, WorkerStays
  <2> QED
    BY <2>3, PoolStutter DEF Implements
<1>11. ASSUME NEW w \in Workers, WorkerErase(w) PROVE Implements
  <2>1. \A k \in Tasks : Stays(k)
    BY <1>0, <1>11 DEF WorkerErase
  <2> QED
    BY <2>1, PoolStutter DEF Implements
<1>12. ASSUME NEW w \in Workers, ExecCheck(w) PROVE Implements
  <2>1. /\ UNCHANGED <<queue, lost, result, called, cancelReq, cur>>
        /\ \A v \in Workers : v # w => wpc'[v] = wpc[v]
    BY <1>0, <1>12 DEF ExecCheck
  <2>2. cur[w] # None => WorkStatus(w)' = WorkStatus(w)
    BY <1>0, <1>12, <2>1 DEF ExecCheck
  <2>3. \A k \in Tasks : Stays(k)
    BY <1>0, <2>1, <2>2, WorkerStays
  <2> QED
    BY <2>3, PoolStutter DEF Implements
<1>13. ASSUME NEW w \in Workers, ExecSetRunning(w) PROVE Implements
  <2>1. /\ UNCHANGED <<queue, lost, result, called, cancelReq, cur>>
        /\ \A v \in Workers : v # w => wpc'[v] = wpc[v]
    BY <1>0, <1>13 DEF ExecSetRunning
  <2>2. cur[w] # None => WorkStatus(w)' = WorkStatus(w)
    BY <1>0, <1>13, <2>1 DEF ExecSetRunning
  <2>3. \A k \in Tasks : Stays(k)
    BY <1>0, <2>1, <2>2, WorkerStays
  <2> QED
    BY <2>3, PoolStutter DEF Implements
<1>14. ASSUME NEW w \in Workers, ExecCancel1(w) PROVE Implements
  <2>1. /\ UNCHANGED <<queue, lost, result, called, cancelReq, cur>>
        /\ \A v \in Workers : v # w => wpc'[v] = wpc[v]
    BY <1>0, <1>14 DEF ExecCancel1, CheckForCancellation
  <2>2. cur[w] # None => WorkStatus(w)' = WorkStatus(w)
    BY <1>0, <1>14, <2>1 DEF ExecCancel1, CheckForCancellation
  <2>3. \A k \in Tasks : Stays(k)
    BY <1>0, <2>1, <2>2, WorkerStays
  <2> QED
    BY <2>3, PoolStutter DEF Implements
<1>15. ASSUME NEW w \in Workers, ExecCancel2(w) PROVE Implements
  <2>1. /\ UNCHANGED <<queue, lost, result, called, cancelReq, cur>>
        /\ \A v \in Workers : v # w => wpc'[v] = wpc[v]
    BY <1>0, <1>15 DEF ExecCancel2, CheckForCancellation
  <2>2. cur[w] # None => WorkStatus(w)' = WorkStatus(w)
    BY <1>0, <1>15, <2>1 DEF ExecCancel2, CheckForCancellation
  <2>3. \A k \in Tasks : Stays(k)
    BY <1>0, <2>1, <2>2, WorkerStays
  <2> QED
    BY <2>3, PoolStutter DEF Implements
<1>16. ASSUME NEW w \in Workers, CallbackReturns(w) PROVE Implements
  <2>1. /\ UNCHANGED <<queue, lost, result, called, cancelReq, cur>>
        /\ \A v \in Workers : v # w => wpc'[v] = wpc[v]
    BY <1>0, <1>16 DEF CallbackReturns
  <2>2. cur[w] # None => WorkStatus(w)' = WorkStatus(w)
    BY <1>0, <1>16, <2>1 DEF CallbackReturns
  <2>3. \A k \in Tasks : Stays(k)
    BY <1>0, <2>1, <2>2, WorkerStays
  <2> QED
    BY <2>3, PoolStutter DEF Implements
<1>17. ASSUME NEW w \in Workers, CallbackThrows(w) PROVE Implements
  <2>1. /\ UNCHANGED <<queue, lost, result, called, cancelReq, cur>>
        /\ \A v \in Workers : v # w => wpc'[v] = wpc[v]
    BY <1>0, <1>17 DEF CallbackThrows
  <2>2. cur[w] # None => WorkStatus(w)' = WorkStatus(w)
    BY <1>0, <1>17, <2>1 DEF CallbackThrows
  <2>3. \A k \in Tasks : Stays(k)
    BY <1>0, <2>1, <2>2, WorkerStays
  <2> QED
    BY <2>3, PoolStutter DEF Implements
<1>18. ASSUME NEW w \in Workers, WorkerPop(w) PROVE Implements
  <2>1. PICK k \in queue :
          /\ wpc[w] = "next" /\ queue' = queue \ {k}
          /\ cur' = [cur EXCEPT ![w] = k] /\ wpc' = [wpc EXCEPT ![w] = "count"]
          /\ UNCHANGED <<called, result, lost, cancelReq>>
    BY <1>0, <1>18 DEF WorkerPop
  <2>2. \A j \in Tasks \ {k} : Stays(j)
    BY SMTT(30), <1>0, <2>1
  <2>3. CASE cancelReq[k]
    <3>1. Stays(k)
      BY <1>0, <2>1, <2>3
    <3> QED
      BY <2>2, <3>1, PoolStutter DEF Implements
  <2>4. CASE ~cancelReq[k]
    <3>1. Status(k) = "queued" /\ Status(k)' = "taken"
      BY <1>0, <2>1, <2>4
    <3>2. Pool!Step({k}, {"queued"}, "taken")
      BY SMTT(30), <1>0, <2>2, <3>1, PoolStep
    <3> QED
      BY <1>0, <3>2 DEF Implements, Pool!Next, Pool!Take
  <2> QED
    BY <2>3, <2>4
<1>19. ASSUME NEW w \in Workers, ExecFunction(w) PROVE Implements
  <2>1. cur[w] \in Tasks /\ \A j \in Tasks \ {cur[w]} : Stays(j)
    BY SMTT(30), <1>0, <1>19 DEF ExecFunction
  <2>2. Status(cur[w]) = "taken"
    BY <1>0, <1>19 DEF ExecFunction
  <2>3. Status(cur[w])' = "called" /\ cur' = cur
    BY <1>0, <1>19 DEF ExecFunction
  <2>4. \A k \in {cur[w]} : Status(k) \in {"taken"} /\ Status(k)' = "called"
    BY <1>0, <1>19, <2>1, <2>2, <2>3
  <2>5. Pool!Step({cur[w]}, {"taken"}, "called")
    BY <2>1, <2>4, PoolStep
  <2> QED
    BY <2>1, <2>5 DEF Implements, Pool!Next, Pool!Call
<1>20. ASSUME NEW w \in Workers, NotifyState(w, "setState", "publish") PROVE Implements
  <2>1. \A k \in Tasks : Stays(k)
    BY <1>0, <1>20 DEF NotifyState
  <2> QED
    BY <2>1, PoolStutter DEF Implements
<1>21. ASSUME NEW w \in Workers, NotifyResult(w, "publish", "callback") PROVE Implements
  <2>1. cur[w] \in Tasks /\ \A j \in Tasks \ {cur[w]} : Stays(j)
    BY <1>0, <1>21 DEF NotifyResult
  <2>2. Status(cur[w]) \in {"called", "revoked"}
    BY <1>0, <1>21 DEF NotifyResult
  <2>3. \A k \in {cur[w]} : Status(k)' = "done"
    BY <1>0, <1>21, <2>1 DEF NotifyResult, Results
  <2>4. Pool!Step({cur[w]}, {Status(cur[w])}, "done")
    BY <2>1, <2>3, PoolStep
  <2> QED
    BY <2>1, <2>2, <2>4 DEF Implements, Pool!Next, Pool!Finish, Pool!Skip
<1>22. ASSUME NEW w \in Workers, NotifyState(w, "catch1", "catch2")
     PROVE Implements
  <2>1. \A k \in Tasks : Stays(k)
    BY <1>0, <1>22 DEF NotifyState
  <2> QED
    BY <2>1, PoolStutter DEF Implements
<1>23. ASSUME NEW w \in Workers, NotifyResult(w, "catch2", "catch3") PROVE Implements
  <2>1. cur[w] \in Tasks /\ \A j \in Tasks \ {cur[w]} : Stays(j)
    BY SMTT(30), <1>0, <1>23 DEF NotifyResult
  <2>2. CASE result[cur[w]] = "none"
    <3>1. Status(cur[w]) = "called"
      BY <1>0, <1>23, <2>2 DEF NotifyResult
    <3>2. \A k \in {cur[w]} : Status(k)' = "done"
      BY <1>0, <1>23, <2>1 DEF NotifyResult, Results
    <3>3. Pool!Step({cur[w]}, {Status(cur[w])}, "done")
      BY <2>1, <3>2, PoolStep
    <3> QED
      BY <2>1, <3>1, <3>3 DEF Implements, Pool!Next, Pool!Finish
  <2>3. CASE result[cur[w]] # "none"
    <3>1. \A k \in {cur[w]} : Stays(k)
      BY <1>0, <1>23, <2>1, <2>3 DEF NotifyResult, Results
    <3> DEFINE Kept(k) == Stays(k)
    <3>2. /\ \A k \in {cur[w]} : Kept(k)
          /\ \A k \in Tasks \ {cur[w]} : Kept(k)
      BY <2>1, <3>1
    <3> HIDE DEF Kept
    <3>3. \A k \in Tasks : Kept(k)
      BY <3>2
    <3>4. \A k \in Tasks : Stays(k)
      BY <3>3 DEF Kept
    <3> QED
      BY <3>4, PoolStutter DEF Implements
  <2> QED
    BY <2>2, <2>3
<1>24. ASSUME NEW u \in Users, SubmitInsert(u) PROVE Implements
  <2>1. \A k \in Tasks : Stays(k)
    BY <1>0, <1>24 DEF SubmitInsert
  <2> QED
    BY <2>1, PoolStutter DEF Implements
<1>25. ASSUME NEW u \in Users, GotResult(u) PROVE Implements
  <2>1. \A k \in Tasks : Stays(k)
    BY <1>0, <1>25 DEF GotResult
  <2> QED
    BY <2>1, PoolStutter DEF Implements
<1>26. ASSUME NEW u \in Users, WaitReadQueue(u) PROVE Implements
  <2>1. \A k \in Tasks : Stays(k)
    BY <1>0, <1>26 DEF WaitReadQueue
  <2> QED
    BY <2>1, PoolStutter DEF Implements
<1>27. ASSUME NEW u \in Users, WaitReadBusy(u) PROVE Implements
  <2>1. UNCHANGED <<queue, lost, result, called, cur, wpc, cancelReq>>
    BY <1>27 DEF WaitReadBusy
  <2>2. \A k \in Tasks : Stays(k)
    BY <2>1 DEF Status, Revoked
  <2> QED
    BY <2>2, PoolStutter DEF Implements
<1>28. ASSUME NEW u \in Users, GetResult(u) PROVE Implements
  <2>1. \A k \in Tasks : Stays(k)
    BY SMTT(30), <1>0, <1>28 DEF GetResult
  <2> QED
    BY <2>1, PoolStutter DEF Implements
<1>29. ASSUME NEW u \in Users, WaitBegin(u) PROVE Implements
  <2>1. \A k \in Tasks : Stays(k)
    BY <1>0, <1>29 DEF WaitBegin
  <2> QED
    BY <2>1, PoolStutter DEF Implements
<1>30. ASSUME NEW u \in Users, SubmitPush(u) PROVE Implements
  <2>1. arg[u] \in Tasks /\ \A j \in Tasks \ {arg[u]} : Stays(j)
    BY SMTT(30), <1>0, <1>30 DEF SubmitPush, Submitted
  <2>2. Status(arg[u]) = "new"
    BY <1>0, <1>30 DEF SubmitPush, Submitted
  <2>3. \A k \in {arg[u]} : Status(k)' = IF cancelReq[k] THEN "revoked" ELSE "queued"
    BY <1>0, <1>30 DEF SubmitPush, Submitted
  <2>4. \A to \in {"revoked", "queued"} : (\A k \in {arg[u]} : Status(k)' = to) =>
          Pool!Step({arg[u]}, {"new"}, to)
    BY <2>1, <2>2, PoolStep
  <2>5. Pool!Step({arg[u]}, {"new"}, "queued") \/ Pool!Step({arg[u]}, {"new"},
       "revoked")
    BY <2>3, <2>4
  <2> QED
    BY <2>1, <2>5 DEF Implements, Pool!Next, Pool!Submit
<1>31. ASSUME NEW u \in Users, Submit(u) PROVE Implements
  <2>1. CASE running
    <3>1. \A k \in Tasks : Stays(k)
      BY <1>0, <1>31, <2>1 DEF Submit
    <3> QED
      BY <3>1, PoolStutter DEF Implements
  <2>2. CASE ~running
    <3>1. PICK k \in Tasks : /\ ~Submitted(k) /\ lost' = lost \cup {k}
                             /\ UNCHANGED <<queue, cur, wpc, called, result, cancelReq>>
      BY <1>0, <1>31, <2>2 DEF Submit
    <3>2. \A j \in Tasks \ {k} : Stays(j)
      BY SMTT(30), <1>0, <3>1
    <3>3. Status(k) = "new" /\ Status(k)' = "dropped"
      BY <1>0, <3>1 DEF Submitted
    <3>4. Pool!Step({k}, {"new"}, "dropped")
      BY <3>2, <3>3, PoolStep
    <3> QED
      BY <3>4 DEF Implements, Pool!Next, Pool!Reject
  <2> QED
    BY <2>1, <2>2
<1>32. ASSUME NEW u \in Users, CancelTask(u) PROVE Implements
  <2> DEFINE K == {k \in Tasks : Status(k)' # Status(k)}
  <2>1. \A k \in K : Status(k) \in {"queued", "taken"} /\ Status(k)' = "revoked"
    BY <1>0, <1>32 DEF CancelTask
  <2>2. \A k \in Tasks \ K : Stays(k)
    OBVIOUS
  <2> HIDE DEF K
  <2>3. K \in SUBSET Tasks
    BY DEF K
  <2> QED
    BY <2>1, <2>2, <2>3, PoolStep DEF Implements, Pool!Next, Pool!Revoke
<1> QED
  BY <1>1, <1>2, <1>3, <1>4, <1>5, <1>6, <1>7, <1>8, <1>9, <1>10, <1>11, <1>12, <1>13,
     <1>14, <1>15, <1>16, <1>17, <1>18, <1>19, <1>20, <1>21, <1>22, <1>23, <1>24, <1>25,
     <1>26, <1>27, <1>28, <1>29, <1>30, <1>31, <1>32 DEF Next, StopStep, Worker,
     Execute, UserStep, UserCall

\* The executor keeps the promises of the pool: a task runs after it was submitted,
\* once and on one worker, and neither when stop() dropped it nor when it was
\* cancelled before a worker had looked at it, however often the executor restarts.
THEOREM ImplementsPool == Spec => PoolSpec
<1>1. IInv /\ IInv' /\ [Next]_vars => [Pool!Next]_[k \in Tasks |-> Status(k)]
  <2> SUFFICES ASSUME IInv, IInv', [Next]_vars PROVE Implements
    BY DEF Implements
  <2>1. CASE Next
    <3>1. TypesInv /\ TypesInv'
      BY TypesHold, PTL
    <3> QED
      BY <2>1, <3>1, RefineStep
  <2>2. CASE UNCHANGED vars
    <3>1. \A k \in Tasks : Stays(k)
      BY <2>2 DEF vars, Stays, Status, Revoked
    <3> QED
      BY <3>1, PoolStutter DEF Implements
  <2> QED
    BY <2>1, <2>2
<1> QED
  BY <1>1, PoolInit, Invariant, PTL DEF Spec, PoolSpec, Pool!Spec
=============================================================================
