------------------------------- MODULE MCLRU -------------------------------
(***************************************************************************)
(* The instance of LRUCache for TLC: two threads, and one key more than    *)
(* there is room for.                                                      *)
(***************************************************************************)
EXTENDS LRUCache

CONSTANTS t1, t2, k1, k2, k3, k4
=============================================================================
