------------------------- MODULE SchedulerInvariants -------------------------
(***************************************************************************)
(* Inductive invariants of SchedulerDaemon.  TLC checks them on small      *)
(* instances; the modules of proofs prove them.                            *)
(***************************************************************************)
EXTENDS SchedulerDaemon

\* What the types need to be inductive: a thread that is busy has an atom, and
\* the feeder leaves room in its batch for the atom that it has just pushed.
Placed ==
  /\ \A t \in Worker : at[t] \notin {"dead", "begin", "loop"} => atom[t] # None
  /\ daemon = "mark" => batch < MaxBatch

TypeInv == TypeOK /\ Placed
-----------------------------------------------------------------------------
(* Why nothing is sent twice, as long as the database works and nobody     *)
(* aborts, stops, retries or recycles.                                     *)

Calm == Events \cap {"view", "recycle", "abort", "stop"} = {}

Quiet == MaxFaults = 0 /\ Calm

Queued(a) == \E i \in DOMAIN queue : queue[i] = a
Taken(a)  == \E t \in Worker : atom[t] = a
Busy(a)   == Queued(a) \/ Taken(a)

\* An atom that cannot be inserted any more: both stay true once they are.
Moved(a) == archived[a] # NoRow \/ jobStatus[JobOf[a]] = Gone
Known(a) == atomStatus[a] # NoRow \/ Moved(a)

\* The queue and the threads share no atom.
OneCopy ==
  /\ \A i, k \in DOMAIN queue : queue[i] = queue[k] => i = k
  /\ \A t, u \in Worker : atom[t] = atom[u] => t = u \/ atom[t] = None
  /\ \A i \in DOMAIN queue : \A t \in Worker : queue[i] # atom[t]

Idle == {"dead", "begin", "loop"}

IdleHasNone == \A t \in Worker : at[t] \in Idle => atom[t] = None

\* What waits, in the queue or at a thread before Process, was never sent.
Unsent ==
  /\ \A i \in DOMAIN queue : sent[queue[i]] = 0
  /\ \A t \in Worker : at[t] \in {"mark", "load", "process"} => sent[atom[t]] = 0

\* From Mark on, the row of an atom is not pending.
Marked ==
  \A t \in Worker : at[t] \notin {"dead", "begin", "loop", "mark"} =>
                      atomStatus[atom[t]] # "pending"

\* A pending row was never sent, and it is in the queue or at a thread only
\* while the feeder, unless it died, is about to mark it.
PendingIsFree ==
  \A a \in Atom : atomStatus[a] = "pending" =>
    /\ sent[a] = 0
    /\ Busy(a) => daemon = "dead" \/ (daemon = "mark" /\ current = a)

\* No page and no list inserts an atom again that was ever taken or sent.
Remembered == \A a \in Atom : Busy(a) \/ sent[a] > 0 => Known(a)

\* Atom.archive deletes the row after it has copied it.
Copied == \A t \in Worker : at[t] = "delete" => Moved(atom[t])

\* What the feeder has still to push is nowhere else.
Snapshot ==
  daemon \in {"push", "mark"} =>
    \A a \in Atom : a \in todo =>
      /\ Known(a)
      /\ (daemon = "mark" /\ current = a) \/ (~Busy(a) /\ sent[a] = 0)

\* Neither stopAll nor abortJob was called.
Undisturbed ==
  /\ bContinue
  /\ abort = NoAbort
  /\ stop.at \in {"idle", "halt"}
  /\ daemon \notin {"drain", "reset", "resetJob", "close"}
  /\ daemon = "mark" => current \in Atom

OnceInv ==
  /\ TypeInv
  /\ OneCopy /\ IdleHasNone /\ Unsent /\ Marked /\ PendingIsFree
  /\ Remembered /\ Copied /\ Snapshot /\ Undisturbed
  /\ AtMostOnce
-----------------------------------------------------------------------------
(* Why an atom is in one place at a time, whatever statement fails.        *)

\* A pending row is held only by the feeder that is about to mark it, or died of that.
PendingHeld ==
  \A a \in Atom : atomStatus[a] = "pending" /\ Busy(a) =>
    daemon = "dead" \/ (daemon = "mark" /\ current = a)

\* What the feeder has still to push nobody holds.
TodoFree ==
  daemon \in {"push", "mark"} =>
    \A a \in Atom : a \in todo => Known(a) /\ (~Busy(a) \/ (daemon = "mark" /\ current = a))

HeldInv ==
  /\ TypeInv
  /\ OneCopy /\ IdleHasNone /\ Remembered /\ Copied
  /\ PendingHeld /\ TodoFree /\ Undisturbed
-----------------------------------------------------------------------------
(* What becomes of the rows, as long as nobody calls abortJob.             *)

Unaborted == "abort" \notin Events

\* Only what was sent is archived.
Evidence ==
  /\ \A t \in Worker : at[t] = "archive" => sent[atom[t]] > 0
  /\ \A a \in Atom : archived[a] # NoRow => sent[a] > 0

\* What the queue, the threads and the feeder have was a row once.
KnownHeld ==
  /\ \A i \in DOMAIN queue : Known(queue[i])
  /\ \A t \in Worker : at[t] \notin Idle => Known(atom[t])

RowsInv == TypeInv /\ abort = NoAbort /\ Evidence /\ KnownHeld /\ Copied /\
           (daemon \in {"push", "mark"} => \A a \in todo : a \in Atom /\ Known(a))

\* When an aborted job stays empty: no list and no page adds atoms to it.
Unfed == Listed = {} /\ "add" \notin Events

NoRowsOf(j) == \A a \in AtomsOf(j) : atomStatus[a] = NoRow

EmptyInv ==
  /\ TypeInv
  /\ \A j \in Job : jobStatus[j] \in {NoRow, "aborted"} => NoRowsOf(j)
  /\ abort.at # "idle" => abort.job \in Job /\ jobStatus[abort.job] # NoRow
  /\ abort.at = "job" => NoRowsOf(abort.job)
-----------------------------------------------------------------------------
(* Why an atom is in one place at a time, although people abort and stop.  *)

\* Nobody retries or recycles, and nobody adds atoms to a job that may be aborted.
Unretried == /\ Events \cap {"view", "recycle"} = {}
             /\ "abort" \in Events => Unfed

\* stopAll makes rows pending that threads still hold, when the daemon feeds no more.
PendingPlaced ==
  \A a \in Atom : atomStatus[a] = "pending" /\ Busy(a) =>
    ~Running \/ (daemon = "mark" /\ current = a)

\* abortJob deletes what it has archived.
AbortMoves ==
  abort.at = "delete" => \A a \in AtomsOf(abort.job) : atomStatus[a] # NoRow => Moved(a)

PlacesInv ==
  /\ TypeInv
  /\ OneCopy /\ IdleHasNone /\ Remembered /\ Copied
  /\ PendingPlaced /\ TodoFree /\ AbortMoves
  /\ "abort" \notin Events => abort = NoAbort
-----------------------------------------------------------------------------
(* When an atom is in both tables only for a moment.                       *)

\* Nobody stops, halts or kills the scheduler, and no list loses its job.
Uninterrupted == /\ Events \cap {"stop", "halt", "crash"} = {}
                 /\ "delete" \in Events => Listed = {}

\* The daemon goes on, with its DBBind, until a statement fails.
Lasting ==
  /\ faults = 0 => pool /\ daemon # "dead"
  /\ bContinue /\ stop = NoStop
  /\ daemon \notin {"drain", "reset", "resetJob", "close"}
  /\ daemon \in {"insert", "run"} /\ Listed # {} => \A j \in todo : j \in Job /\ HasRow(j)

Between(a) == \/ \E t \in Worker : atom[t] = a /\ at[t] = "delete"
              \/ abort.at = "delete" /\ abort.job = JobOf[a]

MovingInv ==
  /\ TypeInv
  /\ Lasting
  /\ faults = 0 => \A a \in Atom : atomStatus[a] # NoRow /\ archived[a] # NoRow => Between(a)
-----------------------------------------------------------------------------
(* When a row that is running has somebody who works on it: people may     *)
(* suspend, retry, recycle, add and delay, but nothing fails.              *)

Steady == MaxFaults = 0 /\ ~MayFail /\ Unaborted /\ Uninterrupted

RowsOfJobs == \A a \in Atom : atomStatus[a] # NoRow => HasRow(JobOf[a])

\* What a thread lets go is in no state to be running.
LetGo ==
  /\ \A t \in Worker : at[t] = "finish" => atomStatus[atom[t]] = NoRow
  /\ \A t \in Worker : at[t] = "interrupt" => Moved(atom[t])

TrackedInv ==
  /\ RowsInv /\ MovingInv /\ IdleHasNone /\ LetGo
  /\ RowsOfJobs
  /\ daemon = "off" => queue = <<>>
  /\ daemon = "mark" => current \in todo /\ (Busy(current) \/ atomStatus[current] = NoRow)
  /\ \A a \in Atom : atomStatus[a] = "running" => Busy(a)
-----------------------------------------------------------------------------
(* What a job that says it is finished rests on: no message fails either.  *)

Smooth == Quiet /\ ~MayFail

\* The rows say no more than pending and running, and each is archived once.
Clean ==
  /\ RowsOfJobs
  /\ \A a \in Atom : atomStatus[a] \in {NoRow, "pending", "running"}
  /\ \A t \in Worker : at[t] = "archive" => archived[atom[t]] = NoRow
  /\ \A t \in Worker : at[t] = "finish" => atomStatus[atom[t]] = NoRow
  /\ pool => \A t \in Worker : at[t] # "interrupt"

CleanInv == OnceInv /\ RowsInv /\ Clean

\* Nobody adds atoms to a job that has some already.
Undivided == Smooth /\ "add" \notin Events

Loaded(j) == \A a \in AtomsOf(j) : Known(a)

\* A list is loaded once, and before a thread has its job or finishes it.
LoadedOnce ==
  /\ \A j \in Listed : Loaded(j) \/ \A a \in AtomsOf(j) : ~Known(a)
  /\ \A t \in Worker : job[t] \in Listed => Loaded(job[t])
  /\ daemon \in {"insert", "run"} => \A j \in todo \cap Listed : jobStatus[j] = "finished" => Loaded(j)

\* What a thread has taken away from its job already, or is about to.
Leaving(t) == IF at[t] \in {"archive", "delete"} THEN {atom[t]} ELSE {}

\* A Job instance counts at least the atoms that are left, but for its own.
Counted ==
  pool => \A t \in Worker : job[t] # None /\ HasRow(job[t]) =>
            Cardinality(OpenAtoms(job[t]) \ Leaving(t)) <= pending[t]

Instances ==
  \A t \in Worker : /\ at[t] \in {"dead", "begin"} => job[t] = None
                    /\ at[t] \in {"process", "archive", "delete", "finish"} =>
                         job[t] = JobOf[atom[t]]
                    /\ job[t] # None => jobStatus[job[t]] # NoRow

CompleteInv ==
  /\ CleanInv
  /\ LoadedOnce
  /\ Counted
  /\ Instances
  /\ daemon = "finish" => \A j \in todo : j \in Job /\ jobStatus[j] # NoRow /\ OpenAtoms(j) = {}
  /\ FinishedIsComplete
-----------------------------------------------------------------------------
(* How the scheduler implements Mailing, but for its fairness: messages    *)
(* may fail, jobs may be deleted and processes may die.                    *)

\* What is deleted was there as a whole: no list is still to be loaded, and no
\* second message to come.
Whole == "delete" \in Events => Listed = {} /\ Late = {}

MailingInv ==
  /\ OnceInv /\ RowsInv
  /\ RowsOfJobs
  /\ "delete" \in Events => \A j \in Job : HasRow(j) => Loaded(j)

\* The steps of Mailing.
MailingSteps == M!Init /\ [][M!Next]_(M!vars)
=============================================================================
