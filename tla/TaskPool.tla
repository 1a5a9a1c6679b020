------------------------------ MODULE TaskPool ------------------------------
(***************************************************************************)
(* What a pool of workers promises about tasks that are each submitted     *)
(* once: a task runs only after it was submitted, its function is called   *)
(* at most once and by one worker, a task that was cancelled before a      *)
(* worker had looked at it is never called, and neither is one that was    *)
(* dropped.                                                                *)
(***************************************************************************)
CONSTANT Tasks

VARIABLE status    \* of each task

Init == status = [k \in Tasks |-> "new"]

\* Tasks K go from one status to another.
Step(K, from, to) ==
  /\ \A k \in K : status[k] \in from
  /\ status' = [k \in Tasks |-> IF k \in K THEN to ELSE status[k]]

Submit == \E k \in Tasks : Step({k}, {"new"}, "queued") \/ Step({k}, {"new"}, "revoked")
Reject == \E k \in Tasks : Step({k}, {"new"}, "dropped")
Revoke == \E K \in SUBSET Tasks : Step(K, {"queued", "taken"}, "revoked")
Take   == \E k \in Tasks : Step({k}, {"queued"}, "taken")
Call   == \E k \in Tasks : Step({k}, {"taken"}, "called")
Skip   == \E k \in Tasks : Step({k}, {"revoked"}, "done")
Finish == \E k \in Tasks : Step({k}, {"called"}, "done")
Drop   == \E K \in SUBSET Tasks : Step(K, {"queued", "revoked"}, "dropped")

Next == Submit \/ Reject \/ Revoke \/ Take \/ Call \/ Skip \/ Finish \/ Drop

Spec == Init /\ [][Next]_status
=============================================================================
