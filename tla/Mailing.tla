------------------------------- MODULE Mailing -------------------------------
(***************************************************************************)
(* What the scheduler promises to those who send messages with it: each    *)
(* message that it accepts goes out once, or its job is deleted before.    *)
(***************************************************************************)
EXTENDS Naturals

CONSTANT Message

VARIABLES
  accepted,    \* messages still to be delivered
  copies,      \* how many copies of each message have gone out
  withdrawn    \* messages that will not go out

vars == <<accepted, copies, withdrawn>>

Init ==
  /\ accepted = {}
  /\ copies = [m \in Message |-> 0]
  /\ withdrawn = {}

Accept(S) ==
  /\ S # {}
  /\ S \cap (accepted \cup withdrawn) = {}
  /\ \A m \in S : copies[m] = 0
  /\ accepted' = accepted \cup S
  /\ UNCHANGED <<copies, withdrawn>>

Deliver(m) ==
  /\ m \in accepted
  /\ accepted' = accepted \ {m}
  /\ copies' = [copies EXCEPT ![m] = @ + 1]
  /\ UNCHANGED withdrawn

Withdraw(S) ==
  /\ S # {}
  /\ S \subseteq accepted
  /\ accepted' = accepted \ S
  /\ withdrawn' = withdrawn \cup S
  /\ UNCHANGED copies

Next ==
  \/ \E S \in SUBSET Message : Accept(S) \/ Withdraw(S)
  \/ \E m \in Message : Deliver(m)

\* A message does not stay accepted for ever.
Spec ==
  /\ Init
  /\ [][Next]_vars
  /\ \A m \in Message : WF_vars(Deliver(m) \/ \E S \in SUBSET Message : m \in S /\ Withdraw(S))
=============================================================================
