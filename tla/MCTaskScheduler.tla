-------------------------- MODULE MCTaskScheduler --------------------------
(* Two users, two tasks at a time, a clock of a few ticks. *)
EXTENDS TaskScheduler

CONSTANTS u1, u2

TwoUsers    == {u1, u2}
TwoDelays   == {0, 2}
OneInterval == {2}
=============================================================================
