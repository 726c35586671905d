------------------------------ MODULE MCScheduler ------------------------------
(* Three players and budgets that do not divide evenly.                         *)
EXTENDS Scheduler

CONSTANTS a, b, c

Three == {a, b, c}
AnyRequests == {0, 1}
=============================================================================
