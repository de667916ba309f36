----------------------------- MODULE MCScheduler -----------------------------
(***************************************************************************)
(* Instances of SchedulerDaemon for TLC.                                   *)
(***************************************************************************)
EXTENDS SchedulerInvariants

CONSTANTS j1, j2, a1, a2, a3, t1, t2

OneJob   == [a \in Atom |-> j1]
TwoJobs  == [a \in Atom |-> IF a = a1 THEN j1 ELSE j2]
=============================================================================
