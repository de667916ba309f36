----------------------------- MODULE MCExecutor -----------------------------
(***************************************************************************)
(* The instance of SingleThreadExecutor for TLC.                           *)
(***************************************************************************)
EXTENDS SingleThreadExecutor

CONSTANTS j1, a1, a2, t1

OneJob == [a \in Atom |-> j1]
=============================================================================
