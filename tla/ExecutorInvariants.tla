------------------------- MODULE ExecutorInvariants -------------------------
(***************************************************************************)
(* Inductive invariants of SingleThreadExecutor.  TLC checks them on small *)
(* instances; ExecutorProofs proves them.                                  *)
(***************************************************************************)
EXTENDS SingleThreadExecutor, SchedulerInvariants

\* What the types need to be inductive: the executor has a job, and an atom while
\* it works on one; every message that it counts was a row of its ResultSet.
ExecutorPlaced ==
  /\ exec.at # "off" => exec.job \in Job
  /\ exec.at \in {"process", "archive", "delete", "interrupt", "count"} => exec.atom \in Atom
  /\ exec.at = "query" => exec.count >= 0
  /\ exec.at \in {"next", "archive", "delete", "interrupt", "count"} =>
       exec.count >= Cardinality(exec.rows) - Cardinality(Atom)
  /\ exec.at = "process" => exec.count > Cardinality(exec.rows) - Cardinality(Atom)

ExecutorTypeInv == ExecutorTypeOK /\ TypeInv /\ ExecutorPlaced
-----------------------------------------------------------------------------
(* How many copies of a message there can be, whatever fails.              *)

\* Where the daemon is, the process was started; when it has died, its threads have
\* no connection.
Started == /\ daemon # "off" => starts > 0
           /\ daemon = "dead" => ~pool

\* The executor has read what was a row; it takes each one once from its ResultSet.
ExecutorKnows ==
  /\ exec.at # "off" => runs > 0
  /\ \A a \in exec.rows : Known(a)
  /\ exec.rows # {} => exec.at \in {"next", "process", "archive", "delete", "interrupt", "count"}
  /\ exec.at \in {"process", "archive", "delete", "interrupt"} =>
       Known(exec.atom) /\ exec.atom \notin exec.rows
  /\ exec.at = "delete" => Moved(exec.atom)

One(b) == IF b THEN 1 ELSE 0

\* The copies that the daemon has still to send: of what waits in the queue or at a
\* thread, and of a row that the feeder takes, or has taken.
Ready(a)   == pool /\ (Queued(a) \/ \E t \in Worker : atom[t] = a /\ at[t] = "mark")
Sending(a) == \E t \in Worker : atom[t] = a /\ at[t] \in {"load", "process"}
ToFeed(a)  == daemon \in {"push", "mark"} /\ a \in todo /\ ~(daemon = "mark" /\ current = a)

Waits(a)    == Ready(a) \/ Sending(a)
MayFeed(a)  == starts > 0 /\ ~Ready(a) /\ (atomStatus[a] = "pending" \/ ToFeed(a))

\* The copy that the executor has still to send.
MayTake(a) ==
  /\ exec.at # "off"
  /\ \/ a \in exec.rows
     \/ exec.at = "process" /\ exec.atom = a
     \/ atomStatus[a] = "pending" /\
        ~(exec.at \in {"archive", "delete", "interrupt"} /\ exec.atom = a)

\* What was sent and what may still be sent: a run of the executor, a statement that
\* fails and the daemon count for one each.
Balance ==
  \A a \in Atom : sent[a] + One(Waits(a)) + One(MayFeed(a)) + One(MayTake(a))
                    <= runs + faults + One(starts > 0)

CopiesInv == ExecutorTypeInv /\ HeldInv /\ Started /\ ExecutorKnows /\ Balance
-----------------------------------------------------------------------------
(* What the counter of a thread's Job instance is, when there is one       *)
(* thread, and no atom is added to a job that has some.                    *)

Alone == Calm /\ Listed = {} /\ "add" \notin Events /\ \A t, u \in Worker : t = u

\* An executor works on the job that it was given.
GivenInv ==
  /\ exec.at # "off" => exec.job \in ran
  /\ \A a \in exec.rows : JobOf[a] \in ran
  /\ exec.at \in {"process", "archive", "delete", "interrupt"} => JobOf[exec.atom] \in ran

\* The daemon feeds the queue before it launches its thread, and then waits for it.
InTurns == \A t \in Worker : at[t] # "dead" => daemon \in {"launch", "watch", "dead"}

\* What comes to the thread was neither archived nor interrupted, unless an executor
\* had the job too.
Waiting(a) == Queued(a) \/ ToFeed(a) \/ \E t \in Worker : atom[t] = a /\ at[t] = "mark"

Fresh ==
  \A a \in Atom : JobOf[a] \notin ran =>
    /\ atomStatus[a] = "pending" \/ Waiting(a) => archived[a] = NoRow
    /\ Waiting(a) => atomStatus[a] \in {NoRow, "pending", "running"}

\* The row is there while the thread works on it, and when processing fails.
AtWork ==
  \A t \in Worker :
    at[t] \notin Idle /\ JobOf[atom[t]] \notin ran /\ jobStatus[JobOf[atom[t]]] # Gone =>
      /\ at[t] \in {"load", "process", "archive", "delete"} => atomStatus[atom[t]] = "running"
      /\ at[t] = "interrupt" /\ pool => atomStatus[atom[t]] # NoRow

\* It counts in the Job instance of its atom.
InstanceKept == \A t \in Worker : at[t] = "interrupt" => job[t] = JobOf[atom[t]]

\* Nobody else counts.
Undamaged(j) == j \notin ran /\ jobStatus[j] # Gone /\ \A a \in AtomsOf(j) : atomStatus[a] # "interrupted"

Exact ==
  \A t \in Worker :
    job[t] # None /\ Undamaged(job[t]) /\ at[t] # "interrupt" /\ (pool \/ at[t] = "finish") =>
      pending[t] = Cardinality(OpenAtoms(job[t]) \ Leaving(t))

CountInv ==
  /\ CopiesInv
  /\ GivenInv /\ InTurns /\ Instances /\ InstanceKept
  /\ faults = 0 => Marked /\ Fresh /\ AtWork /\ Exact
=============================================================================
