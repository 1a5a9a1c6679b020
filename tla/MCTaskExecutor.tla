--------------------------- MODULE MCTaskExecutor ---------------------------
(* Two tasks of different priority, two workers, one user. *)
EXTENDS TaskExecutor, TLC

CONSTANTS k1, k2, w1, w2, u1

TwoTasks   == {k1, k2}
Priorities == k1 :> 1 @@ k2 :> 2
TwoWorkers == {w1, w2}
OneUser    == {u1}
=============================================================================
