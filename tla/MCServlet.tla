------------------------------ MODULE MCServlet ------------------------------
(***************************************************************************)
(* Instances of SchedulerServlet for TLC.  No definition tells the events, *)
(* or the pages, from each other.                                          *)
(***************************************************************************)
EXTENDS SchedulerServlet, TLC

CONSTANTS e1, e2, p1, p2

Symmetry == Permutations({e1, e2}) \cup Permutations(Page)
=============================================================================
