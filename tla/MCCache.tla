------------------------------- MODULE MCCache -------------------------------
(***************************************************************************)
(* The instance of DistributedCache for TLC: two threads of one server,    *)
(* and one of another that also uses a token that the first does not, with *)
(* one slot in each cache.                                                 *)
(***************************************************************************)
EXTENDS DistributedCache

CONSTANTS p1, p2, c1, c2, c3, k1, k2

TwoAndOne == [c \in Client |-> IF c = c3 THEN p2 ELSE p1]
Tokens    == [c \in Client |-> IF c = c3 THEN {k1, k2} ELSE {k1}]
OneSlot   == [p \in Peer |-> 1]
=============================================================================
