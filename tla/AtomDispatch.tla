---------------------------- MODULE AtomDispatch ----------------------------
(***************************************************************************)
(* AtomQueue, AtomConsumer, WorkerThread and WorkerThreadPool: the threads *)
(* that take atoms out of the queue in memory, process them and archive    *)
(* them.  Each action is one synchronized method, one SQL statement or the *)
(* call of Job.process; the actions of the threads interleave freely.      *)
(***************************************************************************)
EXTENDS JobTables, Integers, Sequences

CONSTANTS
  Worker,     \* the threads of the pool (maxschedulerthreads of them)
  None,       \* no atom, no job
  MayFail,    \* TRUE if Job.process may throw
  MaxFaults   \* bound on the database errors that strike a thread

ASSUME AtomDispatchAssumption ==
  /\ None \notin Atom \cup Job \cup Worker
  /\ IsFiniteSet(Worker)
  /\ MayFail \in BOOLEAN
  /\ MaxFaults \in Nat

VARIABLES
  queue,    \* AtomQueue: a linked list of atoms
  at,       \* where each thread stands
  atom,     \* the atom a thread works on
  job,      \* the Job instance a thread keeps, by the GUID it was loaded with
  pending,  \* Job.iPendingAtoms of that instance
  halted,   \* ~WorkerThread.bContinue
  pool,     \* TRUE while the DBBind of the daemon gives connections
  sent,     \* how many times an atom was processed: the messages delivered
  faults    \* database errors so far

threads  == <<at, atom, job, pending, halted>>
dispatch == <<queue, threads, pool, sent, faults>>

Place == {"dead", "begin", "loop", "mark", "load", "process",
          "archive", "delete", "finish", "interrupt"}

DispatchTypeOK ==
  /\ queue   \in Seq(Atom)
  /\ at      \in [Worker -> Place]
  /\ atom    \in [Worker -> Atom \cup {None}]
  /\ job     \in [Worker -> Job \cup {None}]
  /\ pending \in [Worker -> Int]
  /\ halted  \in [Worker -> BOOLEAN]
  /\ pool    \in BOOLEAN
  /\ sent    \in [Atom -> Nat]
  /\ faults  \in 0 .. MaxFaults

DispatchInit ==
  /\ queue   = <<>>
  /\ at      = [t \in Worker |-> "dead"]
  /\ atom    = [t \in Worker |-> None]
  /\ job     = [t \in Worker |-> None]
  /\ pending = [t \in Worker |-> 0]
  /\ halted  = [t \in Worker |-> TRUE]
  /\ pool    = TRUE
  /\ sent    = [a \in Atom |-> 0]
  /\ faults  = 0

Alive(t) == at[t] # "dead"
Live     == {t \in Worker : Alive(t)}     \* WorkerThreadPool.livethreads

\* WorkerThread.activeAtom: the field is assigned when AtomConsumer.next returns.
ActiveAtom(t) == IF at[t] = "mark" THEN None ELSE atom[t]

\* An atom that was taken from the queue and is not processed yet.
Holds(t, a) == atom[t] = a /\ at[t] \in {"mark", "load", "process"}

Goto(t, place) == at' = [at EXCEPT ![t] = place]

\* The end of one round of the loop: oAtm = null in the finally clause.
NextRound(t) ==
  /\ Goto(t, "loop")
  /\ atom' = [atom EXCEPT ![t] = None]
  /\ UNCHANGED <<job, pending, halted>>

\* The end of WorkerThread.run, or Thread.stop: the Job instance is freed.  What
\* the object still holds is not read again; launchAll makes a new one.
Exit(t) ==
  /\ Goto(t, "dead")
  /\ atom' = [atom EXCEPT ![t] = None]
  /\ job' = [job EXCEPT ![t] = None]
  /\ pending' = [pending EXCEPT ![t] = 0]
  /\ halted' = [halted EXCEPT ![t] = TRUE]

\* A database call fails: always once the DBBind is closed, at most MaxFaults
\* times before.
DbFault ==
  \/ ~pool /\ UNCHANGED faults
  \/ pool /\ faults < MaxFaults /\ faults' = faults + 1
-----------------------------------------------------------------------------
(* AtomQueue                                                               *)

Push(a) == queue' = Append(queue, a)

\* The rest of the queue keeps its order.
RemoveAtoms(j) ==
  LET kept == {i \in DOMAIN queue : JobOf[queue[i]] # j}
  IN \E f \in [1 .. Cardinality(kept) -> kept] :
       /\ \A m, n \in DOMAIN f : m < n => f[m] < f[n]
       /\ queue' = [n \in DOMAIN f |-> queue[f[n]]]
-----------------------------------------------------------------------------
(* WorkerThread                                                            *)

\* run() starts by setting bContinue, so a halt() that came before is lost.
Begin(t) ==
  /\ at[t] = "begin"
  /\ Goto(t, "loop")
  /\ halted' = [halted EXCEPT ![t] = FALSE]
  /\ UNCHANGED <<tables, page, queue, atom, job, pending, pool, sent, faults>>

\* while (bContinue)
LeaveHalted(t) ==
  /\ at[t] = "loop"
  /\ halted[t]
  /\ Exit(t)
  /\ UNCHANGED <<tables, page, queue, pool, sent, faults>>

\* AtomConsumer.next is synchronized: from Pop to Mark it has one thread inside.
NextIsFree == \A u \in Worker : at[u] # "mark"

\* Mutant: the atom is read but not removed.
PopKeepsHead(t) ==
  /\ at[t] = "loop"
  /\ ~halted[t]
  /\ NextIsFree
  /\ queue # <<>>
  /\ atom' = [atom EXCEPT ![t] = Head(queue)]
  /\ Goto(t, "mark")
  /\ UNCHANGED <<tables, page, queue, job, pending, halted, pool, sent, faults>>

Pop(t) ==
  /\ at[t] = "loop"
  /\ ~halted[t]
  /\ NextIsFree
  /\ queue # <<>>
  /\ queue' = Tail(queue)
  /\ atom' = [atom EXCEPT ![t] = Head(queue)]
  /\ Goto(t, "mark")
  /\ UNCHANGED <<tables, page, job, pending, halted, pool, sent, faults>>

\* No more atoms to consume.
PopNothing(t) ==
  /\ at[t] = "loop"
  /\ ~halted[t]
  /\ NextIsFree
  /\ queue = <<>>
  /\ Exit(t)
  /\ UNCHANGED <<tables, page, queue, pool, sent, faults>>

\* Mutant: next() leaves the row as the feeder has it.
MarkNothing(t) ==
  /\ at[t] = "mark"
  /\ pool
  /\ Goto(t, "load")
  /\ UNCHANGED <<tables, page, queue, atom, job, pending, halted, pool, sent, faults>>

Mark(t) ==
  /\ at[t] = "mark"
  /\ pool
  /\ UpdateAtoms({atom[t]}, "running")
  /\ Goto(t, "load")
  /\ UNCHANGED <<jobStatus, jobTime, archived, page, queue, atom, job, pending,
                 halted, pool, sent, faults>>

\* The UPDATE fails: next() swallows the exception and returns the atom.
MarkFails(t) ==
  /\ at[t] = "mark"
  /\ pool
  /\ DbFault
  /\ Goto(t, "load")
  /\ UNCHANGED <<tables, page, queue, atom, job, pending, halted, pool, sent>>

\* There is no connection: the catch clause calls close() on null and the
\* exception ends the thread, which has lost the atom it took.
MarkFindsNoConnection(t) ==
  /\ at[t] = "mark"
  /\ DbFault
  /\ Exit(t)
  /\ UNCHANGED <<tables, page, queue, pool, sent>>

\* Mutant: the counter leaves out the atoms that are running.
LoadCountsPending(t) ==
  LET j == JobOf[atom[t]] IN
  /\ at[t] = "load"
  /\ \/ /\ job[t] = j
        /\ UNCHANGED <<job, pending>>
     \/ /\ job[t] # j
        /\ HasRow(j)
        /\ pool
        /\ job' = [job EXCEPT ![t] = j]
        /\ pending' = [pending EXCEPT ![t] =
                        Cardinality({a \in AtomsOf(j) : atomStatus[a] = "pending"})]
  /\ Goto(t, "process")
  /\ UNCHANGED <<tables, page, queue, atom, halted, pool, sent, faults>>

\* A Job instance of the same job is used again; another is loaded, with the
\* number of open atoms that its job has at that moment.
Load(t) ==
  LET j == JobOf[atom[t]] IN
  /\ at[t] = "load"
  /\ \/ /\ job[t] = j
        /\ UNCHANGED <<job, pending>>
     \/ /\ job[t] # j
        /\ HasRow(j)
        /\ pool
        /\ job' = [job EXCEPT ![t] = j]
        /\ pending' = [pending EXCEPT ![t] = Cardinality(OpenAtoms(j))]
  /\ Goto(t, "process")
  /\ UNCHANGED <<tables, page, queue, atom, halted, pool, sent, faults>>

\* Job.instantiate throws, because of the database or because the job was
\* deleted: the thread ends and drops the atom.
LoadFails(t) ==
  LET j == JobOf[atom[t]] IN
  /\ at[t] = "load"
  /\ job[t] # j
  /\ IF pool /\ ~HasRow(j) THEN UNCHANGED faults ELSE DbFault
  /\ Exit(t)
  /\ UNCHANGED <<tables, page, queue, pool, sent>>

\* Job.process: the message goes out, and the instance counts one atom less.
Process(t) ==
  /\ at[t] = "process"
  /\ sent' = [sent EXCEPT ![atom[t]] = @ + 1]
  /\ pending' = [pending EXCEPT ![t] = @ - 1]
  /\ Goto(t, "archive")
  /\ UNCHANGED <<tables, page, queue, atom, job, halted, pool, faults>>

\* Mutant: process() swallows its exception.
ProcessFailsSilently(t) ==
  /\ at[t] = "process"
  /\ MayFail
  /\ \E n \in {0, 1} : pending' = [pending EXCEPT ![t] = @ - n]
  /\ Goto(t, "archive")
  /\ UNCHANGED <<tables, page, queue, atom, job, halted, pool, sent, faults>>

\* MimeSender counts an atom that failed, EmailSender and the others do not.
ProcessFails(t) ==
  /\ at[t] = "process"
  /\ MayFail
  /\ \E n \in {0, 1} : pending' = [pending EXCEPT ![t] = @ - n]
  /\ Goto(t, "interrupt")
  /\ UNCHANGED <<tables, page, queue, atom, job, halted, pool, sent, faults>>

\* Mutant: only a row that is running is copied.
ArchiveInsertRunning(t) ==
  /\ at[t] = "archive"
  /\ pool
  /\ CanArchive({atom[t]})
  /\ ArchiveAtoms({a \in {atom[t]} : atomStatus[a] = "running"})
  /\ Goto(t, "delete")
  /\ UNCHANGED <<jobStatus, jobTime, atomStatus, page, queue, atom, job, pending,
                 halted, pool, sent, faults>>

\* Atom.archive is an INSERT ... SELECT and a DELETE.
ArchiveInsert(t) ==
  /\ at[t] = "archive"
  /\ pool
  /\ CanArchive({atom[t]})
  /\ ArchiveAtoms({atom[t]})
  /\ Goto(t, "delete")
  /\ UNCHANGED <<jobStatus, jobTime, atomStatus, page, queue, atom, job, pending,
                 halted, pool, sent, faults>>

\* The primary key refuses the row.
ArchiveRefused(t) ==
  /\ at[t] = "archive"
  /\ pool
  /\ ~CanArchive({atom[t]})
  /\ Goto(t, "interrupt")
  /\ UNCHANGED <<tables, page, queue, atom, job, pending, halted, pool, sent, faults>>

\* Mutant: archive() forgets its DELETE.
ArchiveKeeps(t) ==
  /\ at[t] = "delete"
  /\ pool
  /\ Goto(t, "finish")
  /\ UNCHANGED <<tables, page, queue, atom, job, pending, halted, pool, sent, faults>>

ArchiveDelete(t) ==
  /\ at[t] = "delete"
  /\ pool
  /\ DeleteAtoms({atom[t]})
  /\ Goto(t, "finish")
  /\ UNCHANGED <<jobStatus, jobTime, archived, page, queue, atom, job, pending,
                 halted, pool, sent, faults>>

\* if (oJob.pending()==0) oJob.setStatus(..., STATUS_FINISHED)
Finish(t) ==
  /\ at[t] = "finish"
  /\ pool
  /\ IF pending[t] = 0
       THEN UpdateJob(job[t], "finished")
       ELSE UNCHANGED jobStatus
  /\ NextRound(t)
  /\ UNCHANGED <<jobTime, atomStatus, archived, page, queue, pool, sent, faults>>

\* A statement of the three actions above fails.
ArchivingFails(t) ==
  /\ at[t] \in {"archive", "delete", "finish"}
  /\ DbFault
  /\ Goto(t, "interrupt")
  /\ UNCHANGED <<tables, page, queue, atom, job, pending, halted, pool, sent>>

\* The catch clause: Atom.setStatus(STATUS_INTERRUPTED).
Interrupt(t) ==
  /\ at[t] = "interrupt"
  /\ pool
  /\ UpdateAtoms({atom[t]}, "interrupted")
  /\ NextRound(t)
  /\ UNCHANGED <<jobStatus, jobTime, archived, page, queue, pool, sent, faults>>

\* The catch clause ignores a failure of its own statement ...
InterruptFails(t) ==
  /\ at[t] = "interrupt"
  /\ DbFault
  /\ NextRound(t)
  /\ UNCHANGED <<tables, page, queue, pool, sent>>

\* ... but a connection that it asks of a closed DBBind is null: the thread ends.
InterruptFindsNoConnection(t) ==
  /\ at[t] = "interrupt"
  /\ ~pool
  /\ Exit(t)
  /\ UNCHANGED <<tables, page, queue, pool, sent, faults>>

WorkerStep(t) ==
  \/ Begin(t) \/ LeaveHalted(t) \/ Pop(t) \/ PopNothing(t)
  \/ Mark(t) \/ Load(t) \/ Process(t) \/ ProcessFails(t)
  \/ ArchiveInsert(t) \/ ArchiveRefused(t) \/ ArchiveDelete(t)
  \/ Finish(t) \/ Interrupt(t)

WorkerFault(t) ==
  \/ MarkFails(t) \/ MarkFindsNoConnection(t) \/ LoadFails(t)
  \/ ArchivingFails(t) \/ InterruptFails(t) \/ InterruptFindsNoConnection(t)
=============================================================================
