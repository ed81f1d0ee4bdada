---------------------------- MODULE MCScheduler -----------------------------
(***************************************************************************)
(* Scheduler for TLC.  The jobs and threads are model values, so that a    *)
(* configuration can say which jobs yield, hold or switch threads and what *)
(* they may be pinned to.                                                  *)
(***************************************************************************)
EXTENDS Scheduler

CONSTANTS j1, j2, p1, p2, c
=============================================================================
