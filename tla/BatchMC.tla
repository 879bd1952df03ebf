------------------------------- MODULE BatchMC -------------------------------
(***************************************************************************)
(* Jobs for TLC: none, fewer and more tasks than threads, and a number of  *)
(* threads that does not divide them.                                      *)
(***************************************************************************)
EXTENDS BatchProperties

Job(count, workers) == [count |-> count, workers |-> workers]
SmallJobs == {Job(0, 1), Job(1, 0), Job(1, 3), Job(2, 1), Job(3, 2), Job(4, 3)}
=============================================================================
