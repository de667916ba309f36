---------------------------- MODULE RecencyCache ----------------------------
(***************************************************************************)
(* What LRUCachePolicy promises: the keys of its entries in the order of   *)
(* their last use, newest first.  A get moves its key to the front, an     *)
(* insert that finds the cache full lets go what was the least recently    *)
(* used then, and flush lets go one after the other.                       *)
(***************************************************************************)
EXTENDS Naturals, Sequences

CONSTANTS Thread, Key, None, Capacity

VARIABLES
  recent,  \* keys, the most recently used first
  doing,   \* the call of each thread, with the key that it will let go
  broken   \* two calls have crossed on an entry: nothing is promised from then on

vars == <<recent, doing, broken>>

Free == [op |-> "none", key |-> None, victim |-> None]

Init ==
  /\ recent = <<>>
  /\ doing = [t \in Thread |-> Free]
  /\ broken = FALSE

Has(k)     == \E i \in 1 .. Len(recent) : recent[i] = k
Without(k) == SelectSeq(recent, LAMBDA l : l # k)

Begin(t) ==
  /\ doing[t] = Free
  /\ \E op \in {"get", "insert", "remove", "flush"}, k \in Key \cup {None} :
       doing' = [doing EXCEPT ![t] = [Free EXCEPT !.op = op, !.key = k]]
  /\ UNCHANGED <<recent, broken>>

\* get
Touch(t) ==
  /\ doing[t].op = "get"
  /\ Has(doing[t].key)
  /\ recent' = <<doing[t].key>> \o Without(doing[t].key)
  /\ doing' = [doing EXCEPT ![t] = Free]
  /\ UNCHANGED broken

\* insert and flush choose the least recently used.
Choose(t) ==
  /\ recent # <<>>
  /\ \/ doing[t].op = "insert" /\ doing[t].victim = None /\ Len(recent) = Capacity
     \/ doing[t].op = "flush"
  /\ doing' = [doing EXCEPT ![t].victim = recent[Len(recent)]]
  /\ UNCHANGED <<recent, broken>>

Drop(t) ==
  /\ \E k \in Key : /\ \/ doing[t].op = "remove" /\ k = doing[t].key
                       \/ doing[t].op \in {"insert", "flush"} /\ k = doing[t].victim
                    /\ Has(k)
                    /\ recent' = Without(k)
  /\ UNCHANGED <<doing, broken>>

\* A flush goes on with the next one; an insert has made room for its key, and adds it once.
Settle(t) ==
  /\ \/ doing[t].op = "flush"  /\ doing' = [doing EXCEPT ![t].victim = None]
     \/ doing[t].op = "insert" /\ doing' = [doing EXCEPT ![t].op = "add", ![t].victim = None]
  /\ UNCHANGED <<recent, broken>>

Add(t) ==
  /\ doing[t].op = "add"
  /\ ~Has(doing[t].key)
  /\ Len(recent) < Capacity
  /\ recent' = <<doing[t].key>> \o recent
  /\ doing' = [doing EXCEPT ![t].op = "added"]
  /\ UNCHANGED broken

End(t) ==
  /\ doing' = [doing EXCEPT ![t] = Free]
  /\ UNCHANGED <<recent, broken>>

Break ==
  /\ broken' = TRUE
  /\ recent' = <<>>
  /\ doing' = [t \in Thread |-> Free]

Next ==
  \/ \E t \in Thread : Begin(t) \/ Touch(t) \/ Choose(t) \/ Drop(t)
                    \/ Settle(t) \/ Add(t) \/ End(t)
  \/ Break

Spec == Init /\ [][~broken /\ Next]_vars
=============================================================================
