--------------------------- MODULE ExecutorProofs ---------------------------
(***************************************************************************)
(* SingleThreadExecutor beside the daemon: its types, how many copies of a *)
(* message the two of them send, whatever fails, and what the counter of a *)
(* thread's Job instance is.                                               *)
(***************************************************************************)
EXTENDS ExecutorInvariants, SchedulerRowsProofs

\* The lines of the ResultSet can be counted.
LEMMA RowsCount ==
  ASSUME NEW S \in SUBSET Atom
  PROVE  /\ Cardinality(S) \in Nat /\ Cardinality(Atom) \in Nat
         /\ Cardinality(S) <= Cardinality(Atom)
         /\ \A a \in S : Cardinality(S \ {a}) = Cardinality(S) - 1
  <1>1. IsFiniteSet(Atom) /\ IsFiniteSet(S)
    BY JobTablesAssumption, FS_Subset
  <1>2. Cardinality(S) \in Nat /\ Cardinality(Atom) \in Nat
    BY <1>1, FS_CardinalityType
  <1>3. Cardinality(S) <= Cardinality(Atom)
    BY <1>1, FS_Subset
  <1>4. \A a \in S : Cardinality(S \ {a}) = Cardinality(S) - 1
    BY <1>1, FS_RemoveElement
  <1> QED
    BY <1>2, <1>3, <1>4

\* The executor leaves the types of what the scheduler has.
LEMMA BesideType ==
  ASSUME TypeInv, TablesTypeOK', sent' \in [Atom -> Nat], faults' \in 0 .. MaxFaults,
         events' \in 0 .. MaxEvents, UNCHANGED <<queue, threads, pool, daemonVars, callVars, starts>>
  PROVE  TypeInv'
  <1> USE DEF TypeInv, TypeOK, DispatchTypeOK, DaemonTypeOK, Placed, threads, daemonVars, callVars
  <1>1. DispatchTypeOK'
    OBVIOUS
  <1>2. DaemonTypeOK' /\ Placed'
    OBVIOUS
  <1> QED
    BY <1>1, <1>2

LEMMA BesideTables ==
  ASSUME TypeInv, Beside, TablesTypeOK' PROVE TypeInv'
  <1>1. /\ sent' \in [Atom -> Nat] /\ faults' \in 0 .. MaxFaults /\ events' \in 0 .. MaxEvents
        /\ UNCHANGED <<queue, threads, pool, daemonVars, callVars, starts>>
    BY DEF Beside, dispatch, TypeInv, TypeOK, DispatchTypeOK, DaemonTypeOK
  <1> QED
    BY <1>1, BesideType

LEMMA BesideSame ==
  ASSUME TypeInv, Beside, UNCHANGED tables PROVE TypeInv'
  <1>1. TablesTypeOK'
    BY DEF TypeInv, TypeOK, TablesTypeOK, tables, Beside
  <1> QED
    BY <1>1, BesideTables

\* It goes on with what it has.
LEMMA ExecGoes ==
  ASSUME ExecutorTypeInv, TypeInv', UNCHANGED <<runs, ran>>,
         NEW place \in ExecPlace, exec' = [exec EXCEPT !.at = place],
         exec.at \notin {"off", "process"},
         place \in {"select", "insert", "run", "load"} \/
           (place \in {"delete", "interrupt", "count"} /\ exec.at \in {"archive", "delete", "interrupt"})
  PROVE  ExecutorTypeInv'
  <1>1. exec \in Executor
    BY DEF ExecutorTypeInv, ExecutorTypeOK
  <1>2. exec' \in Executor
    BY <1>1 DEF Executor
  <1>3. /\ exec'.at = place /\ exec'.job = exec.job /\ exec'.count = exec.count
        /\ exec'.rows = exec.rows /\ exec'.atom = exec.atom
    BY <1>1 DEF Executor
  <1>4. ExecutorPlaced'
    BY <1>3 DEF ExecutorTypeInv, ExecutorPlaced
  <1> QED
    BY <1>2, <1>4 DEF ExecutorTypeInv, ExecutorTypeOK, TypeInv

\* It is over.
LEMMA ExecIsOff ==
  ASSUME ExecutorTypeInv, TypeInv', UNCHANGED <<runs, ran>>, exec' = NoExecutor
  PROVE  ExecutorTypeInv'
  <1>1. exec' \in Executor
    <2>1. Cardinality(Atom) \in Nat
      BY RowsCount
    <2> QED
      BY <2>1 DEF NoExecutor, Executor, ExecPlace
  <1>2. ExecutorPlaced'
    BY DEF NoExecutor, ExecutorPlaced
  <1> QED
    BY <1>1, <1>2 DEF ExecutorTypeInv, ExecutorTypeOK, TypeInv

\* Each step of the executor keeps the types.
LEMMA ExecStepType == ASSUME ExecutorTypeInv, ExecutorStep PROVE ExecutorTypeInv'
  <1>1. /\ TypeInv /\ TablesTypeOK /\ exec \in Executor /\ runs \in 0 .. MaxRuns /\ ran \in SUBSET Job
        /\ sent \in [Atom -> Nat]
    BY DEF ExecutorTypeInv, ExecutorTypeOK, TypeInv, TypeOK, DispatchTypeOK
  <1>2. /\ exec.rows \in SUBSET Atom /\ exec.count \in Int /\ exec.at \in ExecPlace
        /\ exec.count >= -Cardinality(Atom) /\ exec.count <= Cardinality(Atom)
        /\ Cardinality(exec.rows) \in Nat /\ Cardinality(Atom) \in Nat
    BY <1>1, RowsCount DEF Executor
  <1>3. ExecutorPlaced
    BY DEF ExecutorTypeInv
  <1>4. ASSUME TypeInv', UNCHANGED <<runs, ran>>, exec' \in Executor, ExecutorPlaced'
        PROVE  ExecutorTypeInv'
    BY <1>1, <1>4 DEF ExecutorTypeInv, ExecutorTypeOK, TypeInv
  <1>5. CASE ExecSelect
    <2>1. TypeInv' /\ UNCHANGED <<runs, ran>>
      BY <1>1, <1>5, BesideSame DEF ExecSelect, Beside
    <2> QED
      BY <1>5, <2>1, ExecGoes, ExecIsOff DEF ExecSelect, ExecPlace
  <1>6. CASE ExecInsert
    <2>1. TablesTypeOK'
      BY <1>1, <1>6 DEF ExecInsert, InsertAtoms, TablesTypeOK, Beside, Status
    <2>2. TypeInv' /\ UNCHANGED <<runs, ran>>
      BY <1>1, <1>6, <2>1, BesideTables DEF ExecInsert, Beside
    <2> QED
      BY <1>6, <2>2, ExecGoes DEF ExecInsert, ExecGoto, ExecPlace
  <1>7. CASE ExecRun
    <2>1. jobStatus' \in [Job -> Status \cup {NoRow, Gone}]
      BY <1>1, <1>7, UpdateJobType DEF ExecRun, Status
    <2>2. jobTime' \in [Job -> Time]
      BY <1>1, <1>7 DEF ExecRun, TablesTypeOK, Time
    <2>3. TablesTypeOK'
      BY <1>1, <1>7, <2>1, <2>2 DEF ExecRun, TablesTypeOK, Beside
    <2>4. TypeInv' /\ UNCHANGED <<runs, ran>>
      BY <1>1, <1>7, <2>3, BesideTables DEF ExecRun, Beside
    <2> QED
      BY <1>7, <2>4, ExecGoes DEF ExecRun, ExecGoto, ExecPlace
  <1>8. CASE ExecLoad
    <2>1. TypeInv' /\ UNCHANGED <<runs, ran>> /\ exec.at = "load"
      BY <1>1, <1>8, BesideSame DEF ExecLoad, Beside
    <2>2. PICK n : n = Cardinality(OpenAtoms(exec.job))
      OBVIOUS
    <2>3. n \in Nat /\ n <= Cardinality(Atom)
      BY <2>2, RowsCount DEF OpenAtoms, AtomsOf
    <2>4. exec' = [exec EXCEPT !.at = "query", !.count = n]
      BY <1>8, <2>2 DEF ExecLoad
    <2>5. exec' \in Executor
      <3>1. n \in -Cardinality(Atom) .. Cardinality(Atom)
        BY <1>2, <2>3
      <3> QED
        BY <1>1, <2>4, <3>1 DEF Executor, ExecPlace
    <2>6. ExecutorPlaced'
      BY <1>1, <1>3, <2>1, <2>3, <2>4 DEF ExecutorPlaced, Executor
    <2> QED
      BY <1>4, <2>1, <2>5, <2>6
  <1>9. CASE ExecQuery
    <2>1. TypeInv' /\ UNCHANGED <<runs, ran>> /\ exec.at = "query"
      BY <1>1, <1>9, BesideSame DEF ExecQuery, Beside
    <2>2. PICK S : S = {a \in AtomsOf(exec.job) : atomStatus[a] = "pending" /\ HasRow(exec.job)}
      OBVIOUS
    <2>3. S \in SUBSET Atom /\ Cardinality(S) \in Nat /\ Cardinality(S) <= Cardinality(Atom)
      BY <2>2, RowsCount DEF AtomsOf
    <2>4. exec' = [exec EXCEPT !.at = "next", !.rows = S]
      BY <1>9, <2>2 DEF ExecQuery
    <2>5. exec' \in Executor
      BY <1>1, <2>3, <2>4 DEF Executor, ExecPlace
    <2>6. ExecutorPlaced'
      BY <1>1, <1>2, <1>3, <2>1, <2>3, <2>4 DEF ExecutorPlaced, Executor
    <2> QED
      BY <1>4, <2>1, <2>5, <2>6
  <1>10. ASSUME NEW a \in Atom, ExecNext(a) PROVE ExecutorTypeInv'
    <2>1. TypeInv' /\ UNCHANGED <<runs, ran>> /\ exec.at = "next" /\ a \in exec.rows
      BY <1>1, <1>10, BesideSame DEF ExecNext, Beside
    <2>2. PICK S : S = exec.rows \ {a}
      OBVIOUS
    <2>3. S \in SUBSET Atom /\ Cardinality(S) = Cardinality(exec.rows) - 1
      BY <1>2, <2>1, <2>2, RowsCount
    <2>4. exec' = [exec EXCEPT !.at = "process", !.atom = a, !.rows = S]
      BY <1>10, <2>2 DEF ExecNext
    <2>5. exec' \in Executor
      BY <1>1, <2>3, <2>4 DEF Executor, ExecPlace
    <2>6. ExecutorPlaced'
      BY <1>1, <1>2, <1>3, <2>1, <2>3, <2>4 DEF ExecutorPlaced, Executor
    <2> QED
      BY <1>4, <2>1, <2>5, <2>6
  <1>11. CASE ExecNextIsOver
    <2>1. TypeInv' /\ UNCHANGED <<runs, ran>>
      BY <1>1, <1>11, BesideSame DEF ExecNextIsOver, Beside
    <2> QED
      BY <1>11, <2>1, ExecGoes DEF ExecNextIsOver, ExecGoto, ExecPlace
  <1>12. CASE ExecProcess
    <2>1. exec.at = "process" /\ exec.atom \in Atom /\ UNCHANGED <<runs, ran>>
      BY <1>3, <1>12 DEF ExecProcess, ExecutorPlaced
    <2>2. sent' \in [Atom -> Nat]
      BY <1>1, <1>12, <2>1 DEF ExecProcess
    <2>3. TablesTypeOK' /\ faults' \in 0 .. MaxFaults /\ events' \in 0 .. MaxEvents
      BY <1>1, <1>12 DEF ExecProcess, TablesTypeOK, tables, TypeInv, TypeOK, DispatchTypeOK, DaemonTypeOK
    <2>4. TypeInv'
      BY <1>1, <1>12, <2>2, <2>3, BesideType DEF ExecProcess
    <2>5. exec' = [exec EXCEPT !.at = "archive", !.count = exec.count - 1]
      BY <1>12 DEF ExecProcess
    <2>6. exec' \in Executor
      <3>1. exec.count - 1 \in -Cardinality(Atom) .. Cardinality(Atom)
        BY <1>2, <1>3, <2>1 DEF ExecutorPlaced
      <3> QED
        BY <1>1, <2>5, <3>1 DEF Executor, ExecPlace
    <2>7. ExecutorPlaced'
      BY <1>1, <1>2, <1>3, <2>1, <2>5 DEF ExecutorPlaced, Executor
    <2> QED
      BY <1>4, <2>1, <2>4, <2>6, <2>7
  <1>13. CASE ExecProcessFails
    <2>1. TypeInv' /\ UNCHANGED <<runs, ran>> /\ exec.at = "process" /\ exec.atom \in Atom
      BY <1>1, <1>3, <1>13, BesideSame DEF ExecProcessFails, Beside, ExecutorPlaced
    <2>2. PICK n \in {0, 1} : exec' = [exec EXCEPT !.at = "interrupt", !.count = exec.count - n]
      BY <1>13 DEF ExecProcessFails
    <2>3. exec' \in Executor
      <3>1. exec.count - n \in -Cardinality(Atom) .. Cardinality(Atom)
        BY <1>2, <1>3, <2>1 DEF ExecutorPlaced
      <3> QED
        BY <1>1, <2>2, <3>1 DEF Executor, ExecPlace
    <2>4. ExecutorPlaced'
      BY <1>1, <1>2, <1>3, <2>1, <2>2 DEF ExecutorPlaced, Executor
    <2> QED
      BY <1>4, <2>1, <2>3, <2>4
  <1>14. CASE ExecArchive
    <2>1. TablesTypeOK'
      BY <1>1, <1>14 DEF ExecArchive, ArchiveAtoms, TablesTypeOK, Beside
    <2>2. TypeInv' /\ UNCHANGED <<runs, ran>>
      BY <1>1, <1>14, <2>1, BesideTables DEF ExecArchive, Beside
    <2> QED
      BY <1>14, <2>2, ExecGoes DEF ExecArchive, ExecGoto, ExecPlace
  <1>15. CASE ExecArchiveRefused
    <2>1. TypeInv' /\ UNCHANGED <<runs, ran>>
      BY <1>1, <1>15, BesideSame DEF ExecArchiveRefused, Beside
    <2> QED
      BY <1>15, <2>1, ExecGoes DEF ExecArchiveRefused, ExecGoto, ExecPlace
  <1>16. CASE ExecDelete
    <2>1. TablesTypeOK'
      BY <1>1, <1>16 DEF ExecDelete, DeleteAtoms, TablesTypeOK, Beside
    <2>2. TypeInv' /\ UNCHANGED <<runs, ran>>
      BY <1>1, <1>16, <2>1, BesideTables DEF ExecDelete, Beside
    <2> QED
      BY <1>16, <2>2, ExecGoes DEF ExecDelete, ExecGoto, ExecPlace
  <1>17. CASE ExecInterrupt
    <2>1. TablesTypeOK'
      BY <1>1, <1>17 DEF ExecInterrupt, UpdateAtoms, TablesTypeOK, Beside, Status
    <2>2. TypeInv' /\ UNCHANGED <<runs, ran>>
      BY <1>1, <1>17, <2>1, BesideTables DEF ExecInterrupt, Beside
    <2> QED
      BY <1>17, <2>2, ExecGoes DEF ExecInterrupt, ExecGoto, ExecPlace
  <1>18. CASE ExecCount
    <2>1. jobStatus' \in [Job -> Status \cup {NoRow, Gone}]
      BY <1>1, <1>18, UpdateJobType DEF ExecCount, Status, TablesTypeOK
    <2>2. TablesTypeOK'
      BY <1>1, <1>18, <2>1 DEF ExecCount, TablesTypeOK, Beside
    <2>3. TypeInv' /\ UNCHANGED <<runs, ran>> /\ exec.at = "count"
      BY <1>1, <1>18, <2>2, BesideTables DEF ExecCount, Beside
    <2>4. PICK go \in BOOLEAN : exec' = [exec EXCEPT !.at = "next", !.atom = None, !.go = go]
      <3>1. exec.go \in BOOLEAN /\ exec = [exec EXCEPT !.go = exec.go]
        BY <1>1 DEF Executor
      <3>2. [exec EXCEPT !.at = "next", !.atom = None] =
              [exec EXCEPT !.at = "next", !.atom = None, !.go = exec.go]
        BY <1>1 DEF Executor
      <3> QED
        BY <1>18, <3>1, <3>2 DEF ExecCount
    <2>5. exec' \in Executor
      BY <1>1, <2>4 DEF Executor, ExecPlace
    <2>6. ExecutorPlaced'
      BY <1>1, <1>3, <2>3, <2>4 DEF ExecutorPlaced, Executor
    <2> QED
      BY <1>4, <2>3, <2>5, <2>6
  <1> QED
    BY <1>5, <1>6, <1>7, <1>8, <1>9, <1>10, <1>11, <1>12, <1>13, <1>14, <1>15, <1>16, <1>17, <1>18
       DEF ExecutorStep

\* So does what ends it, or fails.
LEMMA ExecEndType ==
  ASSUME ExecutorTypeInv, ExecArchiveFails \/ ExecInterruptFails \/ ExecFails \/ ExecDies
  PROVE  ExecutorTypeInv'
  <1>1. TypeInv /\ faults \in 0 .. MaxFaults /\ events \in 0 .. MaxEvents /\ sent \in [Atom -> Nat]
    BY DEF ExecutorTypeInv, TypeInv, TypeOK, DispatchTypeOK, DaemonTypeOK
  <1>2. UNCHANGED <<tables, page, queue, threads, pool, sent, daemonVars, callVars, starts, runs, ran>>
    BY DEF ExecArchiveFails, ExecInterruptFails, ExecFails, ExecDies, dispatch
  <1>3. faults' \in 0 .. MaxFaults
    BY <1>1, AtomDispatchAssumption
       DEF ExecArchiveFails, ExecInterruptFails, ExecFails, ExecDies, Fault, dispatch
  <1>4. events' \in 0 .. MaxEvents
    BY <1>1, SchedulerDaemonAssumption
       DEF ExecArchiveFails, ExecInterruptFails, ExecFails, ExecDies, Event
  <1>5. TablesTypeOK'
    BY <1>1, <1>2 DEF TypeInv, TypeOK, TablesTypeOK, tables
  <1>6. TypeInv'
    BY <1>1, <1>2, <1>3, <1>4, <1>5, BesideType
  <1>7. CASE ExecArchiveFails
    BY <1>2, <1>6, <1>7, ExecGoes DEF ExecArchiveFails, ExecPlace
  <1>8. CASE ExecInterruptFails
    BY <1>2, <1>6, <1>8, ExecGoes DEF ExecInterruptFails, ExecGoto, ExecPlace
  <1>9. CASE ExecFails \/ ExecDies
    BY <1>2, <1>6, <1>9, ExecIsOff DEF ExecFails, ExecDies
  <1> QED
    BY <1>7, <1>8, <1>9

\* So does who starts it.
LEMMA ExecStartType ==
  ASSUME ExecutorTypeInv, NEW j \in Job, AutoRun(j) \/ RunJob(j)
  PROVE  ExecutorTypeInv'
  <1>1. TypeInv /\ TablesTypeOK /\ faults \in 0 .. MaxFaults /\ events \in 0 .. MaxEvents /\ sent \in [Atom -> Nat]
    BY DEF ExecutorTypeInv, TypeInv, TypeOK, DispatchTypeOK, DaemonTypeOK
  <1>2. UNCHANGED <<page, dispatch, daemonVars, callVars, events, starts>>
    BY DEF AutoRun, RunJob, vars
  <1>3. TablesTypeOK'
    BY <1>1, <1>2 DEF AutoRun, RunJob, vars, tables, InsertAtoms, TablesTypeOK, Status
  <1>4. TypeInv'
    BY <1>1, <1>2, <1>3, BesideType DEF dispatch
  <1>5. Given(j)
    BY DEF AutoRun, RunJob
  <1>6. exec' = [at |-> "select", job |-> j, count |-> 0, rows |-> {}, atom |-> None, go |-> TRUE]
    BY <1>5 DEF Given, NoExecutor
  <1>7. exec' \in Executor
    <2>1. Cardinality(Atom) \in Nat
      BY RowsCount
    <2> QED
      BY <1>6, <2>1 DEF Executor, ExecPlace
  <1>8. ExecutorPlaced'
    BY <1>6 DEF ExecutorPlaced
  <1>9. runs' \in 0 .. MaxRuns /\ ran' \in SUBSET Job
    BY <1>5, SingleThreadExecutorAssumption DEF Given, ExecutorTypeInv, ExecutorTypeOK
  <1> QED
    BY <1>4, <1>7, <1>8, <1>9 DEF ExecutorTypeInv, ExecutorTypeOK, TypeInv

LEMMA ExecutorTypeInit == ExecutorInit => ExecutorTypeInv
  <1> SUFFICES ASSUME ExecutorInit PROVE ExecutorTypeInv
    OBVIOUS
  <1>1. TypeInv
    BY TypeInit DEF ExecutorInit
  <1>2. exec \in Executor
    <2>1. Cardinality(Atom) \in Nat
      BY RowsCount
    <2> QED
      BY <2>1 DEF ExecutorInit, NoExecutor, Executor, ExecPlace
  <1>3. ExecutorPlaced
    BY DEF ExecutorInit, NoExecutor, ExecutorPlaced
  <1>4. runs \in 0 .. MaxRuns /\ ran \in SUBSET Job
    BY SingleThreadExecutorAssumption DEF ExecutorInit
  <1> QED
    BY <1>1, <1>2, <1>3, <1>4 DEF ExecutorTypeInv, ExecutorTypeOK, TypeInv

LEMMA ExecutorTypeStep == ASSUME ExecutorTypeInv, [ExecutorNext]_xvars PROVE ExecutorTypeInv'
  <1>1. TypeInv
    BY DEF ExecutorTypeInv
  <1>2. CASE UNCHANGED <<exec, runs, ran>> /\ [Next]_vars
    <2>1. TypeInv'
      BY <1>1, <1>2, TypeStep
    <2>2. ExecutorPlaced'
      BY <1>2 DEF ExecutorTypeInv, ExecutorPlaced
    <2> QED
      BY <1>2, <2>1, <2>2 DEF ExecutorTypeInv, ExecutorTypeOK, TypeInv
  <1> QED
    BY <1>2, ExecStepType, ExecEndType, ExecStartType DEF ExecutorNext, xvars

\* The executor and the daemon write the same tables, and neither writes what is not a
\* status; the counter of the executor, which goes below zero when atoms become
\* pending after the job was loaded, goes no further than there are atoms.
THEOREM ExecutorTypeCorrect == ExecutorSpec => []ExecutorTypeOK
  <1>1. ExecutorTypeInv /\ [ExecutorNext]_xvars => ExecutorTypeInv'
    BY ExecutorTypeStep
  <1>2. ExecutorTypeInv => ExecutorTypeOK
    BY DEF ExecutorTypeInv
  <1> QED
    BY <1>1, <1>2, ExecutorTypeInit, PTL DEF ExecutorSpec
-----------------------------------------------------------------------------
(* The daemon pays for what it sends.                                      *)

\* No more is sent, and may be sent, than before, but for what has failed.
Pays(a) ==
  sent'[a] + One(Waits(a)') + One(MayFeed(a)') + faults + One(starts > 0)
    <= sent[a] + One(Waits(a)) + One(MayFeed(a)) + faults' + One(starts' > 0)

LEMMA PaysIf ==
  ASSUME TypeInv, TypeInv', NEW a \in Atom, sent'[a] = sent[a], faults <= faults', starts' = starts,
         Waits(a)' => Waits(a),
         MayFeed(a)' => MayFeed(a) \/ (Waits(a) /\ ~Waits(a)')
  PROVE  Pays(a)
  <1>1. sent[a] \in Nat /\ faults \in Nat /\ faults' \in Nat
    BY DEF TypeInv, TypeOK, DispatchTypeOK
  <1> QED
    BY <1>1 DEF Pays, One

\* A thread makes no row pending.
LEMMA ThreadMakesNothingPending ==
  ASSUME TypeInv, NEW t \in Worker, Threads(t), NEW a \in Atom, atomStatus'[a] = "pending"
  PROVE  atomStatus[a] = "pending" /\ (Mark(t) => a # atom[t])
  <1>1. CASE Mark(t)
    BY <1>1 DEF Mark, UpdateAtoms, NoRow
  <1>2. CASE Interrupt(t)
    BY <1>2 DEF Interrupt, UpdateAtoms, Mark
  <1>3. CASE ArchiveDelete(t)
    BY <1>3 DEF ArchiveDelete, DeleteAtoms, Mark, NoRow
  <1>4. CASE atomStatus' = atomStatus
    BY <1>1, <1>4
  <1> QED
    BY <1>1, <1>2, <1>3, <1>4
       DEF Threads, WorkerStep, WorkerFault, Begin, LeaveHalted, Pop, PopNothing,
           Load, Process, ProcessFails, ArchiveInsert, ArchiveRefused, Finish,
           MarkFails, MarkFindsNoConnection, LoadFails, ArchivingFails, InterruptFails,
           InterruptFindsNoConnection, tables

\* A thread that has an atom has it alone.
LEMMA HasAlone ==
  ASSUME HeldInv, NEW t \in Worker, NEW a \in Atom, atom[t] = a
  PROVE  /\ at[t] \notin Idle
         /\ ~Queued(a) /\ ~ToFeed(a)
         /\ \A u \in Worker : u # t => atom[u] # a
         /\ Ready(a) <=> pool /\ at[t] = "mark"
         /\ Sending(a) <=> at[t] \in {"load", "process"}
  <1>1. a # None /\ OneCopy /\ IdleHasNone /\ TodoFree /\ queue \in Seq(Atom)
    BY AtomDispatchAssumption DEF HeldInv, TypeInv, TypeOK, DispatchTypeOK
  <1>2. at[t] \notin Idle
    BY <1>1 DEF IdleHasNone
  <1>3. ~Queued(a) /\ \A u \in Worker : u # t => atom[u] # a
    BY <1>1 DEF OneCopy, Queued
  <1>4. Busy(a)
    BY DEF Busy, Taken
  <1>5. ~ToFeed(a)
    BY <1>1, <1>4 DEF TodoFree, ToFeed
  <1> QED
    BY <1>2, <1>3, <1>5 DEF Ready, Sending

\* What is in the queue after a pop.
LEMMA PopQueue ==
  ASSUME queue \in Seq(Atom), queue # <<>>, queue' = Tail(queue), NEW a, a # Head(queue)
  PROVE  Queued(a)' <=> Queued(a)
  <1>1. /\ Len(queue) \in Nat \ {0} /\ DOMAIN queue = 1 .. Len(queue)
        /\ DOMAIN queue' = 1 .. Len(queue) - 1 /\ Head(queue) = queue[1]
        /\ \A i \in DOMAIN queue' : i + 1 \in DOMAIN queue /\ queue'[i] = queue[i + 1]
    OBVIOUS
  <1>2. Queued(a)' => Queued(a)
    BY <1>1 DEF Queued
  <1>3. ASSUME NEW i \in DOMAIN queue, queue[i] = a PROVE \E k \in DOMAIN queue' : queue'[k] = a
    <2>1. i # 1 /\ i \in 1 .. Len(queue)
      BY <1>1, <1>3
    <2>2. i - 1 \in DOMAIN queue' /\ (i - 1) + 1 = i
      BY <1>1, <2>1
    <2> QED
      BY <1>1, <1>3, <2>2
  <1> QED
    BY <1>2, <1>3 DEF Queued

\* Each step of a thread pays.
LEMMA ThreadPays ==
  ASSUME HeldInv, NEW t \in Worker, Threads(t), NEW a \in Atom
  PROVE  Pays(a)
  <1>1. /\ TypeInv /\ TypeInv' /\ at \in [Worker -> Place] /\ atom \in [Worker -> Atom \cup {None}]
        /\ queue \in Seq(Atom) /\ sent \in [Atom -> Nat] /\ faults \in Nat /\ faults' \in Nat
    BY ThreadType DEF HeldInv, TypeInv, TypeOK, DispatchTypeOK
  <1>2. faults <= faults'
    BY <1>1, ThreadFaults
  <1>3. UNCHANGED <<starts, daemon, todo, current>>
    BY DEF Threads, daemonVars
  <1>4. pool' = pool
    BY DEF Threads, WorkerStep, WorkerFault, Begin, LeaveHalted, Pop, PopNothing, Mark,
           Load, Process, ProcessFails, ArchiveInsert, ArchiveRefused, ArchiveDelete, Finish, Interrupt,
           MarkFails, MarkFindsNoConnection, LoadFails, ArchivingFails, InterruptFails,
           InterruptFindsNoConnection
  <1>5. ToFeed(a)' <=> ToFeed(a)
    BY <1>3 DEF ToFeed
  <1>6. atomStatus'[a] = "pending" => atomStatus[a] = "pending"
    BY <1>1, ThreadMakesNothingPending
  <1>7. ASSUME sent'[a] = sent[a], Waits(a)' => Waits(a), Ready(a) => Ready(a)' \/ ~Waits(a)'
        PROVE  Pays(a)
    <2>1. MayFeed(a)' => MayFeed(a) \/ (Waits(a) /\ ~Waits(a)')
      BY <1>3, <1>5, <1>6, <1>7 DEF MayFeed, Waits
    <2> QED
      BY <1>1, <1>2, <1>3, <1>7, <2>1, PaysIf
  <1>8. \A u \in Worker : u # t => at'[u] = at[u] /\ atom'[u] = atom[u]
    BY <1>1, ThreadPlaces
  <1>9. queue' = queue \/ Pop(t)
    BY <1>1, ThreadPlaces
  <1>10. sent' = sent \/ Process(t)
    BY <1>1, ThreadPlaces
  <1>11. CASE Pop(t)
    <2>1. /\ queue # <<>> /\ queue' = Tail(queue) /\ at[t] = "loop" /\ sent' = sent
          /\ atom'[t] = Head(queue) /\ at'[t] = "mark"
      BY <1>1, <1>11 DEF Pop, Goto
    <2>2. atom[t] # a
      BY <2>1, AtomDispatchAssumption DEF HeldInv, IdleHasNone, Idle
    <2>3. Sending(a)' <=> Sending(a)
      BY <1>8, <2>1, <2>2 DEF Sending
    <2>4. CASE a = Head(queue)
      <3>1. Queued(a)
        BY <1>1, <2>1, <2>4 DEF Queued
      <3>2. Ready(a)' <=> Ready(a)
        BY <1>4, <2>1, <2>4, <3>1 DEF Ready
      <3> QED
        BY <1>7, <2>1, <2>3, <3>2 DEF Waits
    <2>5. CASE a # Head(queue)
      <3>1. Queued(a)' <=> Queued(a)
        BY <1>1, <2>1, <2>5, PopQueue
      <3>2. Ready(a)' <=> Ready(a)
        BY <1>4, <1>8, <2>1, <2>2, <2>5, <3>1 DEF Ready
      <3> QED
        BY <1>7, <2>1, <2>3, <3>2 DEF Waits
    <2> QED
      BY <2>4, <2>5
  <1>12. CASE ~Pop(t) /\ atom[t] # a
    <2>1. atom'[t] # a
      BY <1>1, <1>12, AtomDispatchAssumption
         DEF Threads, WorkerStep, WorkerFault, Begin, LeaveHalted, PopNothing, Mark,
             Load, Process, ProcessFails, ArchiveInsert, ArchiveRefused, ArchiveDelete, Finish, Interrupt,
             MarkFails, MarkFindsNoConnection, LoadFails, ArchivingFails, InterruptFails,
             InterruptFindsNoConnection, Exit, NextRound
    <2>2. sent'[a] = sent[a]
      BY <1>1, <1>10, <1>12 DEF Process
    <2>3. (Ready(a)' <=> Ready(a)) /\ (Sending(a)' <=> Sending(a))
      BY <1>4, <1>8, <1>9, <1>12, <2>1 DEF Ready, Sending, Queued
    <2> QED
      BY <1>7, <2>2, <2>3 DEF Waits
  <1>13. CASE ~Pop(t) /\ atom[t] = a
    <2>1. /\ at[t] \notin Idle /\ ~Queued(a) /\ ~ToFeed(a)
          /\ \A u \in Worker : u # t => atom[u] # a
          /\ Ready(a) <=> pool /\ at[t] = "mark"
          /\ Sending(a) <=> at[t] \in {"load", "process"}
      BY <1>13, HasAlone
    <2>2. ~Queued(a)' /\ queue' = queue
      BY <1>9, <1>13, <2>1 DEF Queued
    <2>3. /\ Ready(a)' <=> pool /\ atom'[t] = a /\ at'[t] = "mark"
          /\ Sending(a)' <=> atom'[t] = a /\ at'[t] \in {"load", "process"}
      BY <1>4, <1>8, <2>1, <2>2 DEF Ready, Sending
    <2>4. CASE Process(t)
      <3>1. /\ at[t] = "process" /\ at'[t] = "archive" /\ faults' = faults
            /\ sent'[a] = sent[a] + 1
        BY <1>1, <1>13, <2>4 DEF Process, Goto
      <3>2. Waits(a) /\ ~Waits(a)' /\ ~Ready(a) /\ ~Ready(a)'
        BY <2>1, <2>3, <3>1 DEF Waits
      <3>3. MayFeed(a)' => MayFeed(a)
        BY <1>3, <1>5, <1>6, <3>2 DEF MayFeed
      <3>4. sent[a] \in Nat
        BY <1>1
      <3> QED
        BY <1>1, <1>3, <3>1, <3>2, <3>3, <3>4 DEF Pays, One
    <2>5. CASE MarkFails(t)
      <3>1. at[t] = "mark" /\ pool /\ faults' = faults + 1 /\ sent' = sent
        BY <2>5 DEF MarkFails, DbFault
      <3>2. Waits(a) /\ ~MayFeed(a)
        BY <2>1, <3>1 DEF Waits, MayFeed
      <3>3. sent[a] \in Nat
        BY <1>1
      <3> QED
        BY <1>1, <1>3, <3>1, <3>2, <3>3 DEF Pays, One
    <2>6. CASE Mark(t)
      <3>1. at[t] = "mark" /\ pool /\ sent' = sent /\ atomStatus'[a] # "pending"
        BY <1>1, <1>13, <2>6, ThreadMakesNothingPending DEF Mark
      <3>2. Waits(a) /\ ~MayFeed(a)'
        BY <1>5, <2>1, <3>1 DEF Waits, MayFeed
      <3> QED
        BY <1>1, <1>2, <1>3, <3>1, <3>2, PaysIf
    <2>7. CASE MarkFindsNoConnection(t)
      <3>1. at'[t] = "dead" /\ sent' = sent
        BY <1>1, <2>7 DEF MarkFindsNoConnection, Exit, Goto
      <3>2. ~Waits(a)'
        BY <2>3, <3>1 DEF Waits
      <3> QED
        BY <1>7, <3>1, <3>2
    <2>8. CASE \/ Load(t) \/ ProcessFails(t) \/ ArchiveInsert(t) \/ ArchiveRefused(t)
               \/ ArchiveDelete(t) \/ Finish(t) \/ Interrupt(t) \/ LoadFails(t) \/ ArchivingFails(t)
               \/ InterruptFails(t) \/ InterruptFindsNoConnection(t)
      <3>1. at[t] # "mark" /\ sent' = sent
        BY <2>8 DEF Load, ProcessFails, ArchiveInsert, ArchiveRefused, ArchiveDelete, Finish, Interrupt,
                    LoadFails, ArchivingFails, InterruptFails, InterruptFindsNoConnection
      <3>2. at'[t] # "mark" /\ (at'[t] \in {"load", "process"} => at[t] = "load")
        BY <1>1, <2>8
           DEF Load, ProcessFails, ArchiveInsert, ArchiveRefused, ArchiveDelete, Finish, Interrupt,
               LoadFails, ArchivingFails, InterruptFails, InterruptFindsNoConnection, Goto, Exit, NextRound
      <3> QED
        BY <1>7, <2>1, <2>3, <3>1, <3>2 DEF Waits
    <2>9. ~(Begin(t) \/ LeaveHalted(t) \/ PopNothing(t))
      BY <2>1 DEF Begin, LeaveHalted, PopNothing, Idle
    <2> QED
      BY <1>13, <2>4, <2>5, <2>6, <2>7, <2>8, <2>9 DEF Threads, WorkerStep, WorkerFault
  <1> QED
    BY <1>11, <1>12, <1>13

\* What waits in the queue, or at a thread that has just taken it, does not wait elsewhere.
LEMMA ReadyIsNotSending ==
  ASSUME HeldInv, NEW a \in Atom, Ready(a) PROVE ~Sending(a)
  <1>1. a # None /\ OneCopy
    BY AtomDispatchAssumption DEF HeldInv
  <1> QED
    BY <1>1 DEF OneCopy, Ready, Sending, Queued

\* The threads and the queue stay, and the feeder takes no more up.
LEMMA StillPays ==
  ASSUME HeldInv, TypeInv', NEW a \in Atom, atomStatus'[a] = "pending" => atomStatus[a] = "pending",
         UNCHANGED <<sent, starts, atom, queue>>, faults <= faults', pool' => pool,
         \A t \in Worker : at'[t] = at[t] \/ (at[t] \in Idle /\ at'[t] \in Idle),
         ToFeed(a)' => ToFeed(a) \/ atomStatus[a] = "pending"
  PROVE  Pays(a)
  <1>1. TypeInv
    BY DEF HeldInv
  <1>2. Sending(a)' <=> Sending(a)
    BY DEF Sending, Idle
  <1>3. Ready(a)' => Ready(a)
    BY DEF Ready, Queued, Idle
  <1>4. CASE Ready(a)'
    BY <1>1, <1>2, <1>3, <1>4, PaysIf DEF Waits, MayFeed
  <1>5. CASE Ready(a) /\ ~Ready(a)'
    BY <1>1, <1>2, <1>5, ReadyIsNotSending, PaysIf DEF Waits, MayFeed
  <1>6. CASE ~Ready(a) /\ ~Ready(a)'
    BY <1>1, <1>2, <1>6, PaysIf DEF Waits, MayFeed
  <1> QED
    BY <1>3, <1>4, <1>5, <1>6

\* Each step of the daemon pays.
LEMMA DaemonPays ==
  ASSUME HeldInv, Started, DaemonStep \/ Fatal, NEW a \in Atom,
         atomStatus'[a] = "pending" => atomStatus[a] = "pending"
  PROVE  Pays(a)
  <1>1. /\ TypeInv /\ TypeInv' /\ at \in [Worker -> Place] /\ queue \in Seq(Atom)
        /\ faults \in Nat /\ faults' \in Nat /\ Undisturbed
    BY DaemonType DEF HeldInv, TypeInv, TypeOK, DispatchTypeOK
  <1>2. ASSUME UNCHANGED <<sent, starts, atom, queue, at, faults, pool>>,
               daemon' \notin {"push", "mark"}
        PROVE  Pays(a)
    <2>1. ~ToFeed(a)'
      BY <1>2 DEF ToFeed
    <2> QED
      BY <1>1, <1>2, <2>1, StillPays
  <1>3. CASE FinishSelect \/ Count \/ LoadSelect \/ LoadRun \/ LoadDone \/ FeedDone
             \/ LaunchDone \/ Watch
    BY <1>2, <1>3
       DEF FinishSelect, Count, LoadSelect, LoadRun, LoadDone, FeedDone, LaunchDone, Watch, dispatch, threads
  <1>4. ASSUME NEW j \in Job, FinishUpdate(j) \/ LoadInsert(j) PROVE Pays(a)
    BY <1>2, <1>4 DEF FinishUpdate, LoadInsert, dispatch, threads
  <1>5. CASE FeedQuery
    <2>1. ToFeed(a)' => atomStatus[a] = "pending"
      BY <1>5 DEF FeedQuery, ToFeed
    <2> QED
      BY <1>1, <1>5, <2>1, StillPays DEF FeedQuery, dispatch, threads
  <1>6. ASSUME NEW b \in Atom, FeedPush(b) PROVE Pays(a)
    <2>1. /\ daemon = "push" /\ b \in todo /\ queue' = Append(queue, b)
          /\ daemon' = "mark" /\ current' = b
          /\ UNCHANGED <<atomStatus, at, atom, sent, todo, faults, starts, pool>>
      BY <1>6 DEF FeedPush, Push, tables, threads
    <2>2. /\ \A i \in DOMAIN queue : i \in DOMAIN queue' /\ queue'[i] = queue[i]
          /\ \A i \in DOMAIN queue' : queue'[i] = b \/ (i \in DOMAIN queue /\ queue'[i] = queue[i])
          /\ \E i \in DOMAIN queue' : queue'[i] = b
      <3>1. /\ Len(queue) \in Nat /\ DOMAIN queue = 1 .. Len(queue)
            /\ DOMAIN queue' = 1 .. Len(queue) + 1 /\ queue'[Len(queue) + 1] = b
            /\ \A i \in DOMAIN queue : queue'[i] = queue[i]
        BY <1>1, <2>1
      <3> QED
        BY <3>1
    <2>3. Sending(a)' <=> Sending(a)
      BY <2>1 DEF Sending
    <2>4. CASE a # b
      <3>1. Ready(a)' <=> Ready(a)
        BY <2>1, <2>2, <2>4 DEF Ready, Queued
      <3>2. ToFeed(a)' => ToFeed(a)
        BY <2>1 DEF ToFeed
      <3> QED
        BY <1>1, <2>1, <2>3, <3>1, <3>2, PaysIf DEF Waits, MayFeed
    <2>5. CASE a = b
      <3>1. ToFeed(a) /\ ~ToFeed(a)'
        BY <2>1, <2>5 DEF ToFeed
      <3>2. ~Busy(a) /\ starts > 0
        BY <2>1, <2>5 DEF HeldInv, TodoFree, Started
      <3>3. MayFeed(a) /\ ~Waits(a)
        BY <3>1, <3>2 DEF MayFeed, Waits, Ready, Sending, Busy, Taken
      <3>4. Ready(a)' <=> pool
        BY <2>1, <2>2, <2>5 DEF Ready, Queued
      <3>5. sent[a] \in Nat
        BY <1>1 DEF TypeInv, TypeOK, DispatchTypeOK
      <3>6. CASE pool
        BY <1>1, <2>1, <3>3, <3>4, <3>5, <3>6 DEF Pays, One, MayFeed
      <3>7. CASE ~pool
        <4>1. ~Waits(a)'
          BY <2>3, <3>3, <3>4, <3>7 DEF Waits
        <4> QED
          BY <1>1, <2>1, <3>3, <3>5, <4>1 DEF Pays, One
      <3> QED
        BY <3>6, <3>7
    <2> QED
      BY <2>4, <2>5
  <1>7. CASE FeedMark
    <2>1. /\ current \in Atom /\ daemon = "mark" /\ daemon' = "push" /\ todo' = todo \ {current}
          /\ UNCHANGED <<queue, at, atom, sent, faults, starts, pool>>
      BY <1>1, <1>7 DEF FeedMark, Undisturbed, dispatch, threads
    <2>2. ToFeed(a)' => ToFeed(a)
      BY <2>1 DEF ToFeed
    <2> QED
      BY <1>1, <2>1, <2>2, StillPays
  <1>8. ASSUME NEW t \in Worker, Launch(t) PROVE Pays(a)
    <2>1. /\ daemon' = "launch" /\ UNCHANGED <<queue, atom, sent, faults, starts, pool>>
          /\ \A u \in Worker : at'[u] = at[u] \/ (at[u] \in Idle /\ at'[u] \in Idle)
      BY <1>1, <1>8 DEF Launch, Alive, Idle
    <2>2. ~ToFeed(a)'
      BY <2>1 DEF ToFeed
    <2> QED
      BY <1>1, <2>1, <2>2, StillPays
  <1>9. ASSUME Abnormal, faults <= faults' PROVE Pays(a)
    <2>1. daemon' \in {"off", "dead"} /\ ~pool' /\ UNCHANGED <<queue, at, atom, sent, starts>>
      BY <1>9 DEF Abnormal
    <2>2. ~ToFeed(a)'
      BY <2>1 DEF ToFeed
    <2> QED
      BY <1>1, <1>9, <2>1, <2>2, StillPays
  <1>10. ASSUME NEW j \in Job PROVE LoadRefused(j) => Pays(a)
    BY <1>1, <1>9 DEF LoadRefused
  <1>11. CASE Fatal
    BY <1>1, <1>9, <1>11, FaultCounts DEF Fatal
  <1>12. ~(Leave \/ Drain \/ DrainDone \/ ResetJob \/ ResetDone \/ Close)
    BY <1>1 DEF Leave, Drain, DrainDone, ResetJob, ResetDone, Close, Undisturbed
  <1>13. \A j \in Job : ~ResetAtoms(j)
    BY <1>1 DEF ResetAtoms, Undisturbed
  <1> QED
    BY <1>3, <1>4, <1>5, <1>6, <1>7, <1>8, <1>10, <1>11, <1>12, <1>13 DEF DaemonStep

\* So do the web pages and the calls ...
LEMMA OtherPays ==
  ASSUME HeldInv, Calm,
         Web \/ StopCall \/ HaltCall \/ StopStep \/ (\E j \in Job : AbortCall(j)) \/ AbortStep,
         NEW a \in Atom, atomStatus'[a] = "pending" => atomStatus[a] = "pending"
  PROVE  Pays(a)
  <1>1. /\ TypeInv /\ TypeInv' /\ Undisturbed /\ faults \in Nat
    BY WebType, StopType, AbortType DEF HeldInv, TypeInv, TypeOK, DispatchTypeOK
  <1>2. Web \/ HaltCall \/ HaltClose
    BY <1>1, OthersDisturbNothing
  <1>3. UNCHANGED <<queue, at, atom, sent, daemon, todo, current>>
    BY <1>1, OthersDisturbNothing
  <1>4. UNCHANGED <<faults, starts>> /\ (pool' => pool)
    BY <1>2 DEF Web, HaltCall, HaltClose, dispatch, StoppedUnchanged
  <1>5. ToFeed(a)' => ToFeed(a)
    BY <1>3 DEF ToFeed
  <1> QED
    BY <1>1, <1>3, <1>4, <1>5, StillPays

\* ... and a process that starts, for the first time or again, or dies.
LEMMA ProcessPays ==
  ASSUME HeldInv, Start \/ Crash, NEW a \in Atom
  PROVE  Pays(a)
  <1>1. /\ TypeInv /\ TypeInv' /\ faults \in Nat /\ starts \in Nat /\ sent[a] \in Nat /\ a # None
    BY ProcessType, AtomDispatchAssumption, SchedulerDaemonAssumption
       DEF HeldInv, TypeInv, TypeOK, DispatchTypeOK, DaemonTypeOK
  <1>2. /\ queue' = <<>> /\ \A t \in Worker : atom'[t] = None
        /\ UNCHANGED <<atomStatus, sent, faults>> /\ daemon' \in {"select", "off"}
    BY DEF Start, Crash, tables, threads, Live, Alive, HeldInv, IdleHasNone, Idle
  <1>3. ~Waits(a)' /\ ~Ready(a)' /\ ~ToFeed(a)'
    BY <1>1, <1>2 DEF Waits, Ready, Sending, Queued, ToFeed
  <1>4. CASE starts' = starts
    <2>1. MayFeed(a)' => MayFeed(a) \/ (Waits(a) /\ ~Waits(a)')
      BY <1>2, <1>3, <1>4 DEF MayFeed, Waits
    <2> QED
      BY <1>1, <1>2, <1>3, <1>4, <2>1, PaysIf
  <1>5. CASE starts' = starts + 1
    <2>1. CASE starts > 0
      <3>1. MayFeed(a)' => MayFeed(a) \/ Waits(a)
        BY <1>2, <1>3, <2>1 DEF MayFeed, Waits
      <3>2. starts' > 0
        BY <1>1, <1>5, <2>1
      <3> QED
        BY <1>1, <1>2, <1>3, <2>1, <3>1, <3>2 DEF Pays, One
    <2>2. CASE ~(starts > 0)
      <3>1. starts' > 0
        BY <1>1, <1>5
      <3> QED
        BY <1>1, <1>2, <1>3, <2>2, <3>1 DEF Pays, One
    <2> QED
      BY <2>1, <2>2
  <1> QED
    BY <1>4, <1>5 DEF Start, Crash

\* Each step of the scheduler, all of it together.
LEMMA NextPays ==
  ASSUME HeldInv, Started, Calm, [Next]_vars, NEW a \in Atom,
         atomStatus'[a] = "pending" => atomStatus[a] = "pending"
  PROVE  Pays(a)
  <1>1. CASE UNCHANGED vars
    <2>1. /\ TypeInv /\ TypeInv' /\ faults \in Nat
          /\ UNCHANGED <<sent, starts, atom, at, queue, faults, pool, daemon, todo, current>>
      BY <1>1, TypeStep DEF HeldInv, TypeInv, TypeOK, DispatchTypeOK, vars, dispatch, threads, daemonVars
    <2>2. ToFeed(a)' => ToFeed(a)
      BY <2>1 DEF ToFeed
    <2> QED
      BY <2>1, <2>2, StillPays
  <1> QED
    BY <1>1, ThreadPays, DaemonPays, OtherPays, ProcessPays DEF Next

\* Each step of the scheduler keeps the keys that are used, and makes no row pending
\* whose key is.
LEMMA NextKeepsRows == ASSUME HeldInv, Calm, [Next]_vars PROVE RowsKept
  <1>1. TypeInv /\ Undisturbed /\ Copied
    BY DEF HeldInv
  <1>2. CASE UNCHANGED vars
    BY <1>2, UnchangedKeepsRows DEF vars, tables
  <1>3. CASE Web \/ StopCall \/ HaltCall \/ StopStep \/ (\E j \in Job : AbortCall(j)) \/ AbortStep
    <2>1. Web \/ HaltCall \/ HaltClose
      BY <1>1, <1>3, OthersDisturbNothing
    <2> QED
      BY <1>1, <2>1, WebKeepsRows, CallsKeepRows DEF StopStep
  <1> QED
    BY <1>1, <1>2, <1>3, ThreadKeepsRows, DaemonKeepsRows, CallsKeepRows DEF Next, Undisturbed

\* The process was started, and a daemon that died has closed its DBBind.
LEMMA NextStarted == ASSUME HeldInv, Started, Calm, [Next]_vars PROVE Started'
  <1>1. TypeInv /\ Undisturbed /\ starts \in Nat
    BY SchedulerDaemonAssumption DEF HeldInv, TypeInv, TypeOK, DaemonTypeOK
  <1>2. CASE UNCHANGED vars
    BY <1>2 DEF Started, vars, daemonVars, dispatch
  <1>3. ASSUME NEW t \in Worker, Threads(t) PROVE Started'
    BY <1>3 DEF Started, Threads, daemonVars, WorkerStep, WorkerFault, Begin, LeaveHalted, Pop, PopNothing, Mark,
           Load, Process, ProcessFails, ArchiveInsert, ArchiveRefused, ArchiveDelete, Finish, Interrupt,
           MarkFails, MarkFindsNoConnection, LoadFails, ArchivingFails, InterruptFails,
           InterruptFindsNoConnection
  <1>4. CASE Web \/ StopCall \/ HaltCall \/ StopStep \/ (\E j \in Job : AbortCall(j)) \/ AbortStep
    <2>1. Web \/ HaltCall \/ HaltClose
      BY <1>1, <1>4, OthersDisturbNothing
    <2>2. UNCHANGED <<daemon, starts>> /\ (pool' => pool)
      BY <2>1 DEF Web, HaltCall, HaltClose, dispatch, daemonVars, StoppedUnchanged
    <2> QED
      BY <2>2 DEF Started
  <1>5. CASE Start
    BY <1>1, <1>5 DEF Start, Started
  <1>6. CASE Crash
    BY <1>6 DEF Crash, Started
  <1>7. CASE DaemonStep \/ Fatal
    <2>1. ASSUME starts' = starts, daemon # "off", daemon' # "dead" PROVE Started'
      BY <2>1 DEF Started
    <2>2. ASSUME Abnormal, daemon # "off" PROVE Started'
      BY <2>2 DEF Abnormal, Started
    <2>3. CASE Fatal
      BY <2>2, <2>3 DEF Fatal
    <2>4. ASSUME NEW j \in Job, LoadRefused(j) PROVE Started'
      BY <2>2, <2>4 DEF LoadRefused
    <2> QED
      BY <1>7, <2>1, <2>3, <2>4
         DEF DaemonStep, FinishSelect, FinishUpdate, Count, LoadSelect, LoadInsert, LoadRun, LoadDone,
             FeedQuery, FeedPush, FeedMark, FeedDone, Launch, LaunchDone, Watch, Leave, Drain, DrainDone,
             ResetAtoms, ResetJob, ResetDone, Close
  <1> QED
    BY <1>2, <1>3, <1>4, <1>5, <1>6, <1>7 DEF Next
-----------------------------------------------------------------------------
(* The executor pays for what it sends.                                    *)

\* Atoms that are new have nothing sent, nor to send.
LEMMA NewOwesNothing ==
  ASSUME HeldInv, Calm, ExecutorKnows, ExecutorTypeInv, NEW a \in Atom, ~Known(a)
  PROVE  /\ sent[a] = 0 /\ ~Busy(a) /\ ~ToFeed(a) /\ a \notin exec.rows
         /\ ~(exec.at = "process" /\ exec.atom = a)
  <1>1. sent[a] \in Nat
    BY DEF HeldInv, TypeInv, TypeOK, DispatchTypeOK
  <1>2. ~Busy(a) /\ sent[a] = 0
    BY <1>1 DEF HeldInv, Remembered
  <1>3. ~ToFeed(a)
    BY DEF HeldInv, TodoFree, ToFeed
  <1> QED
    BY <1>2, <1>3 DEF ExecutorKnows

\* Each step of the executor keeps the rows, and the scheduler as it is.
LEMMA ExecKeepsRows ==
  ASSUME ExecutorTypeInv, ExecutorKnows,
         \/ ExecutorStep \/ ExecArchiveFails \/ ExecInterruptFails \/ ExecFails \/ ExecDies
         \/ \E j \in Job : AutoRun(j) \/ RunJob(j)
  PROVE  /\ RowsKept
         /\ UNCHANGED <<queue, threads, pool, daemonVars, callVars, starts>>
         /\ faults' >= faults
  <1>1. TypeInv /\ TablesTypeOK /\ exec \in Executor /\ faults \in Nat /\ ExecutorPlaced
    BY AtomDispatchAssumption
       DEF ExecutorTypeInv, ExecutorTypeOK, TypeInv, TypeOK, DispatchTypeOK
  <1> USE DEF dispatch
  <1>2. CASE ExecSelect \/ ExecLoad \/ ExecQuery \/ (\E a \in Atom : ExecNext(a)) \/ ExecNextIsOver
             \/ ExecProcessFails \/ ExecArchiveRefused
    <2>1. UNCHANGED tables /\ Beside
      <3>1. ExecSelect \/ ExecLoad \/ ExecQuery => UNCHANGED tables /\ Beside
        BY DEF ExecSelect, ExecLoad, ExecQuery
      <3>2. \A a \in Atom : ExecNext(a) => UNCHANGED tables /\ Beside
        BY DEF ExecNext
      <3>3. ExecNextIsOver \/ ExecProcessFails \/ ExecArchiveRefused => UNCHANGED tables /\ Beside
        BY DEF ExecNextIsOver, ExecProcessFails, ExecArchiveRefused
      <3> QED
        BY <1>2, <3>1, <3>2, <3>3
    <2>2. RowsKept
      BY <2>1, UnchangedKeepsRows DEF tables
    <2> QED
      BY <1>1, <2>1, <2>2 DEF Beside
  <1>3. CASE ExecProcess
    BY <1>1, <1>3, UnchangedKeepsRows DEF ExecProcess, tables
  <1>4. CASE ExecArchiveFails \/ ExecInterruptFails \/ ExecFails \/ ExecDies
    BY <1>1, <1>4, UnchangedKeepsRows
       DEF ExecArchiveFails, ExecInterruptFails, ExecFails, ExecDies, Fault, tables
  <1>5. CASE ExecInsert
    <2>1. InsertAtoms(Inserts(exec.job)) /\ UNCHANGED <<jobStatus, archived>>
      BY <1>5 DEF ExecInsert
    <2>2. exec.job \in Job
      BY <1>1, <1>5 DEF ExecInsert, ExecGoto, ExecutorPlaced
    <2>3. \A a \in Inserts(exec.job) : ~Known(a)
      <3>1. Inserts(exec.job) = {} \/ jobStatus[exec.job] # Gone
        BY <1>5 DEF ExecInsert, HasRow, Status, Gone
      <3>2. \A a \in Inserts(exec.job) : a \in NewAtoms(AtomsOf(exec.job) \cap Atom)
        BY DEF Inserts, NewAtoms, AtomsOf
      <3> QED
        BY <2>2, <3>1, <3>2, NewIsUnknown
    <2>4. RowsKept
      BY <1>1, <2>1, <2>3, InsertKeepsRows
    <2> QED
      BY <1>1, <1>5, <2>4 DEF ExecInsert, Beside
  <1>6. CASE ExecRun
    BY <1>1, <1>6, UpdateJobKeepsRows DEF ExecRun, Beside
  <1>7. CASE ExecArchive
    <2>1. RowsKept
      BY <1>7 DEF ExecArchive, ArchiveAtoms, RowsKept, Known, Moved
    <2> QED
      BY <1>1, <1>7, <2>1 DEF ExecArchive, Beside
  <1>8. CASE ExecDelete
    <2>1. Moved(exec.atom)
      BY <1>8 DEF ExecDelete, ExecGoto, ExecutorKnows
    <2>2. RowsKept
      BY <1>8, <2>1 DEF ExecDelete, DeleteAtoms, RowsKept, Known, Moved, NoRow
    <2> QED
      BY <1>1, <1>8, <2>2 DEF ExecDelete, Beside
  <1>9. CASE ExecInterrupt
    BY <1>1, <1>9, UpdateKeepsRows DEF ExecInterrupt, Beside, Status
  <1>10. CASE ExecCount
    <2>1. RowsKept
      <3>1. UNCHANGED <<atomStatus, archived>>
        BY <1>10 DEF ExecCount
      <3>2. CASE UpdateJob(exec.job, "finished")
        BY <1>1, <3>1, <3>2, UpdateJobKeepsRows
      <3> QED
        BY <1>10, <3>1, <3>2, UnchangedKeepsRows DEF ExecCount
    <2> QED
      BY <1>1, <1>10, <2>1 DEF ExecCount, Beside
  <1>11. ASSUME NEW j \in Job, AutoRun(j)
         PROVE  /\ RowsKept /\ faults' >= faults
                /\ UNCHANGED <<queue, threads, pool, daemonVars, callVars, starts>>
    <2>1. \A a \in NewAtoms(AtomsOf(j) \ Late) : ~Known(a)
      BY <1>11, NewIsUnknown DEF AutoRun, NewAtoms, AtomsOf, NoRow, Gone
    <2>2. \A k \in Job : jobStatus[k] = Gone => jobStatus'[k] = Gone
      BY <1>1, <1>11 DEF AutoRun, TablesTypeOK, NoRow, Gone
    <2>3. InsertAtoms(NewAtoms(AtomsOf(j) \ Late)) /\ UNCHANGED archived
      BY <1>11 DEF AutoRun
    <2>4. RowsKept
      BY <1>1, <2>1, <2>2, <2>3, InsertKeepsRows
    <2> QED
      BY <1>1, <1>11, <2>4 DEF AutoRun
  <1>12. ASSUME NEW j \in Job, RunJob(j)
         PROVE  /\ RowsKept /\ faults' >= faults
                /\ UNCHANGED <<queue, threads, pool, daemonVars, callVars, starts>>
    BY <1>1, <1>12, UnchangedKeepsRows DEF RunJob, vars, tables
  <1> QED
    BY <1>2, <1>3, <1>4, <1>5, <1>6, <1>7, <1>8, <1>9, <1>10, <1>11, <1>12 DEF ExecutorStep

\* The executor goes from one place to another with what it has.
Passes(from, to) ==
  exec.at = from /\ exec'.at = to /\ exec'.rows = exec.rows /\ exec'.atom = exec.atom

LEMMA ExecPasses ==
  ASSUME exec \in Executor
  PROVE  /\ ExecSelect => exec' = NoExecutor \/ Passes("select", "insert")
         /\ ExecInsert => Passes("insert", "run")
         /\ ExecRun => Passes("run", "load")
         /\ ExecLoad => Passes("load", "query")
         /\ ExecNextIsOver => Passes("next", "select") /\ exec.rows = {}
         /\ ExecProcess => Passes("process", "archive")
         /\ ExecProcessFails => Passes("process", "interrupt")
         /\ ExecArchive => Passes("archive", "delete")
         /\ ExecArchiveRefused => Passes("archive", "interrupt")
         /\ ExecDelete => Passes("delete", "count")
         /\ ExecInterrupt \/ ExecInterruptFails => Passes("interrupt", "count")
         /\ ExecArchiveFails => Passes("archive", "interrupt") \/ Passes("delete", "interrupt")
  <1> USE DEF Executor, Passes
  <1>1. \A from, to : ExecGoto(from, to) => Passes(from, to)
    BY DEF ExecGoto
  <1>2. ExecSelect => exec' = NoExecutor \/ Passes("select", "insert")
    BY DEF ExecSelect
  <1>3. ExecLoad => Passes("load", "query")
    <2>1. \A n : exec' = [exec EXCEPT !.at = "query", !.count = n] =>
                   exec'.at = "query" /\ exec'.rows = exec.rows /\ exec'.atom = exec.atom
      OBVIOUS
    <2> QED
      BY <2>1 DEF ExecLoad
  <1>4. ExecProcess => Passes("process", "archive")
    BY DEF ExecProcess
  <1>5. ExecProcessFails => Passes("process", "interrupt")
    BY DEF ExecProcessFails
  <1>6. ExecArchiveFails => Passes("archive", "interrupt") \/ Passes("delete", "interrupt")
    BY DEF ExecArchiveFails
  <1> HIDE DEF Executor, Passes
  <1>7. /\ ExecInsert => Passes("insert", "run")
        /\ ExecRun => Passes("run", "load")
        /\ ExecNextIsOver => Passes("next", "select") /\ exec.rows = {}
    BY <1>1 DEF ExecInsert, ExecRun, ExecNextIsOver
  <1>8. /\ ExecArchive => Passes("archive", "delete")
        /\ ExecArchiveRefused => Passes("archive", "interrupt")
        /\ ExecDelete => Passes("delete", "count")
        /\ ExecInterrupt \/ ExecInterruptFails => Passes("interrupt", "count")
    BY <1>1 DEF ExecArchive, ExecArchiveRefused, ExecDelete, ExecInterrupt, ExecInterruptFails
  <1> QED
    BY <1>2, <1>3, <1>4, <1>5, <1>6, <1>7, <1>8

\* It reads the pending rows, takes one of them, and goes back for the next.
LEMMA ExecReads ==
  ASSUME exec \in Executor
  PROVE  /\ ExecQuery => /\ exec.at = "query" /\ exec'.at = "next" /\ exec'.atom = exec.atom
                         /\ \A a \in exec'.rows : a \in Atom /\ atomStatus[a] = "pending"
         /\ \A a \in Atom : ExecNext(a) =>
              /\ exec.at = "next" /\ a \in exec.rows
              /\ exec'.at = "process" /\ exec'.atom = a /\ exec'.rows = exec.rows \ {a}
         /\ ExecCount => exec.at = "count" /\ exec'.at = "next" /\ exec'.rows = exec.rows
         /\ exec' = NoExecutor => exec'.at = "off" /\ exec'.rows = {}
  <1> USE DEF Executor
  <1>1. ExecQuery => /\ exec.at = "query" /\ exec'.at = "next" /\ exec'.atom = exec.atom
                     /\ \A a \in exec'.rows : a \in Atom /\ atomStatus[a] = "pending"
    <2> SUFFICES ASSUME ExecQuery
                 PROVE  /\ exec.at = "query" /\ exec'.at = "next" /\ exec'.atom = exec.atom
                        /\ \A a \in exec'.rows : a \in Atom /\ atomStatus[a] = "pending"
      OBVIOUS
    <2>1. PICK S : S = {a \in AtomsOf(exec.job) : atomStatus[a] = "pending" /\ HasRow(exec.job)}
      OBVIOUS
    <2>2. exec.at = "query" /\ exec' = [exec EXCEPT !.at = "next", !.rows = S]
      BY <2>1 DEF ExecQuery
    <2>3. exec'.at = "next" /\ exec'.rows = S /\ exec'.atom = exec.atom
      BY <2>2
    <2> QED
      BY <2>1, <2>2, <2>3 DEF AtomsOf
  <1>2. \A a \in Atom : ExecNext(a) =>
              /\ exec.at = "next" /\ a \in exec.rows
              /\ exec'.at = "process" /\ exec'.atom = a /\ exec'.rows = exec.rows \ {a}
    BY DEF ExecNext
  <1>3. ExecCount => exec.at = "count" /\ exec'.at = "next" /\ exec'.rows = exec.rows
    BY DEF ExecCount
  <1>4. exec' = NoExecutor => exec'.at = "off" /\ exec'.rows = {}
    BY DEF NoExecutor
  <1> QED
    BY <1>1, <1>2, <1>3, <1>4

\* What the executor has read stays known to the tables.
LEMMA KnowsIf ==
  ASSUME ExecutorTypeInv, ExecutorKnows, RowsKept, runs' = runs, NEW from, NEW to, Passes(from, to),
         from # "off", from = "next" => exec.rows = {},
         from \notin {"next", "process", "archive", "delete", "interrupt", "count"} =>
           to \in {"insert", "run", "load", "query"},
         from \in {"next", "process", "archive", "delete", "interrupt", "count"} =>
           to \in {"select", "archive", "delete", "interrupt", "count"} /\ (to = "select" => from = "next"),
         to \in {"archive", "delete", "interrupt"} => from \in {"process", "archive", "delete"},
         to = "delete" => Moved(exec.atom)'
  PROVE  ExecutorKnows'
  <1>1. exec.rows \in SUBSET Atom /\ (exec.at \in {"process", "archive", "delete"} => exec.atom \in Atom)
    BY DEF ExecutorTypeInv, ExecutorTypeOK, Executor, ExecutorPlaced
  <1>2. PICK b : b = exec.atom
    OBVIOUS
  <1>3. exec'.atom = b /\ (to = "delete" => Moved(b)')
    BY <1>2 DEF Passes, Moved
  <1>4. \A a \in Atom : Known(a) => Known(a)'
    BY DEF RowsKept
  <1>5. PICK c : c = exec'.atom
    OBVIOUS
  <1> QED
    BY <1>1, <1>2, <1>3, <1>4, <1>5 DEF ExecutorKnows, Passes, Known, Moved

\* Each step of the executor, and what ends or starts it, leaves it so.
LEMMA ExecKnowsStep ==
  ASSUME ExecutorTypeInv, ExecutorKnows, RowsKept,
         \/ ExecutorStep \/ ExecArchiveFails \/ ExecInterruptFails \/ ExecFails \/ ExecDies
         \/ \E j \in Job : AutoRun(j) \/ RunJob(j)
  PROVE  ExecutorKnows'
  <1>1. exec \in Executor /\ runs \in Nat /\ ExecutorPlaced /\ exec.rows \in SUBSET Atom
    BY SingleThreadExecutorAssumption DEF ExecutorTypeInv, ExecutorTypeOK, Executor
  <1>2. ASSUME exec' = NoExecutor PROVE ExecutorKnows'
    BY <1>2 DEF ExecutorKnows, NoExecutor
  <1>3. runs' = runs \/ \E j \in Job : AutoRun(j) \/ RunJob(j)
    BY DEF ExecutorStep, ExecSelect, ExecInsert, ExecRun, ExecLoad, ExecQuery, ExecNext, ExecNextIsOver,
           ExecProcess, ExecProcessFails, ExecArchive, ExecArchiveRefused, ExecDelete, ExecInterrupt,
           ExecCount, ExecArchiveFails, ExecInterruptFails, ExecFails, ExecDies, Beside
  <1>4. CASE ExecSelect \/ ExecInsert \/ ExecRun \/ ExecLoad \/ ExecNextIsOver
    <2>1. runs' = runs
      BY <1>4 DEF ExecSelect, ExecInsert, ExecRun, ExecLoad, ExecNextIsOver, Beside
    <2>2. \/ exec' = NoExecutor \/ Passes("select", "insert") \/ Passes("insert", "run")
          \/ Passes("run", "load") \/ Passes("load", "query")
          \/ Passes("next", "select") /\ exec.rows = {}
      BY <1>1, <1>4, ExecPasses
    <2> QED
      BY <1>2, <2>1, <2>2, KnowsIf
  <1>5. CASE ExecProcess \/ ExecProcessFails \/ ExecArchiveRefused \/ ExecArchiveFails
             \/ ExecDelete \/ ExecInterrupt \/ ExecInterruptFails
    <2>1. runs' = runs
      BY <1>5 DEF ExecProcess, ExecProcessFails, ExecArchiveRefused, ExecArchiveFails,
                  ExecDelete, ExecInterrupt, ExecInterruptFails, Beside
    <2>2. \/ Passes("process", "archive") \/ Passes("process", "interrupt")
          \/ Passes("archive", "interrupt") \/ Passes("delete", "interrupt")
          \/ Passes("delete", "count") \/ Passes("interrupt", "count")
      BY <1>1, <1>5, ExecPasses
    <2> QED
      BY <2>1, <2>2, KnowsIf
  <1>6. CASE ExecArchive
    <2>1. runs' = runs /\ Passes("archive", "delete")
      BY <1>1, <1>6, ExecPasses DEF ExecArchive, Beside
    <2>2. PICK b \in Atom : b = exec.atom
      BY <1>1, <2>1 DEF ExecutorPlaced, Passes
    <2>3. Known(b)
      BY <2>1, <2>2 DEF ExecutorKnows, Passes, Known, Moved
    <2>4. atomStatus[b] # NoRow => archived'[b] # NoRow
      BY <1>6, <2>2 DEF ExecArchive, ArchiveAtoms
    <2>5. Moved(b)'
      BY <2>3, <2>4 DEF Known, Moved, RowsKept
    <2>6. Moved(exec.atom)'
      BY <2>1, <2>2, <2>5 DEF Moved, Passes
    <2> QED
      BY <2>1, <2>6, KnowsIf
  <1>7. CASE ExecQuery
    <2>1. /\ runs' = runs /\ exec.at = "query" /\ exec'.at = "next"
          /\ \A a \in exec'.rows : a \in Atom /\ Known(a)
      BY <1>1, <1>7, ExecReads DEF ExecQuery, Beside, Known, NoRow
    <2> QED
      BY <2>1 DEF ExecutorKnows, RowsKept
  <1>8. ASSUME NEW a \in Atom, ExecNext(a) PROVE ExecutorKnows'
    <2>1. /\ runs' = runs /\ exec.at = "next" /\ exec'.at = "process" /\ exec'.atom = a
          /\ a \in exec.rows /\ exec'.rows = exec.rows \ {a}
      BY <1>1, <1>8, ExecReads DEF ExecNext, Beside
    <2>2. Known(a)' /\ \A b \in exec.rows : Known(b)'
      BY <1>1, <2>1 DEF ExecutorKnows, RowsKept
    <2>3. Known(exec.atom)'
      BY <2>1, <2>2 DEF Known, Moved
    <2> QED
      BY <2>1, <2>2, <2>3 DEF ExecutorKnows
  <1>9. CASE ExecCount
    <2>1. runs' = runs /\ exec.at = "count" /\ exec'.at = "next" /\ exec'.rows = exec.rows
      BY <1>1, <1>9, ExecReads DEF ExecCount, Beside
    <2> QED
      BY <1>1, <2>1 DEF ExecutorKnows, RowsKept
  <1>10. CASE ExecFails \/ ExecDies
    BY <1>2, <1>10 DEF ExecFails, ExecDies
  <1>11. ASSUME NEW j \in Job, Given(j) PROVE ExecutorKnows'
    <2>1. exec'.at = "select" /\ exec'.rows = {} /\ runs' > 0
      BY <1>1, <1>11 DEF Given, NoExecutor
    <2> QED
      BY <2>1 DEF ExecutorKnows
  <1> QED
    BY <1>4, <1>5, <1>6, <1>7, <1>8, <1>9, <1>10, <1>11 DEF ExecutorStep, AutoRun, RunJob

\* It disturbs neither the queue nor the threads.
LEMMA ExecKeepsHeld ==
  ASSUME ExecutorTypeInv, HeldInv, Started, ExecutorKnows,
         \/ ExecutorStep \/ ExecArchiveFails \/ ExecInterruptFails \/ ExecFails \/ ExecDies
         \/ \E j \in Job : AutoRun(j) \/ RunJob(j)
  PROVE  HeldInv' /\ Started'
  <1>1. /\ RowsKept
        /\ UNCHANGED <<queue, threads, pool, daemonVars, callVars, starts>>
    BY ExecKeepsRows
  <1>2. TypeInv'
    BY ExecStepType, ExecEndType, ExecStartType DEF ExecutorTypeInv
  <1>3. UNCHANGED <<queue, at, atom, daemon, todo, current, bContinue, abort, stop, pool, starts>>
    BY <1>1 DEF threads, daemonVars, callVars
  <1>4. Undisturbed'
    BY <1>3 DEF HeldInv, Undisturbed
  <1>5. sent' = sent \/ ExecProcess
    BY DEF ExecutorStep, ExecSelect, ExecInsert, ExecRun, ExecLoad, ExecQuery, ExecNext, ExecNextIsOver,
           ExecProcessFails, ExecArchive, ExecArchiveRefused, ExecDelete, ExecInterrupt,
           ExecCount, ExecArchiveFails, ExecInterruptFails, ExecFails, ExecDies, Beside, dispatch,
           AutoRun, RunJob, vars
  <1>6. \A a \in Atom : sent'[a] > 0 => sent[a] > 0 \/ Known(a)
    <2>1. CASE ExecProcess
      <3>1. PICK b \in Atom : b = exec.atom
        BY <2>1 DEF ExecProcess, ExecutorTypeInv, ExecutorPlaced
      <3>2. Known(b) /\ sent' = [sent EXCEPT ![b] = sent[b] + 1] /\ sent \in [Atom -> Nat]
        BY <2>1, <3>1 DEF ExecProcess, ExecutorKnows, HeldInv, TypeInv, TypeOK, DispatchTypeOK,
                          Known, Moved
      <3> QED
        BY <3>2
    <2> QED
      BY <1>5, <2>1
  <1> QED
    BY <1>1, <1>2, <1>3, <1>4, <1>6, HeldRows DEF Started

\* Who has read an atom once does not get it again.
LEMMA TakesNoMore ==
  ASSUME NEW a \in Atom, NEW from, NEW to, Passes(from, to),
         from # "off", to # "process",
         atomStatus'[a] = "pending" => atomStatus[a] = "pending",
         from \in {"archive", "delete", "interrupt"} /\ to \notin {"archive", "delete", "interrupt"} =>
           exec.atom # a \/ atomStatus'[a] # "pending"
  PROVE  MayTake(a)' => MayTake(a)
  <1>1. ASSUME MayTake(a)' PROVE MayTake(a)
    <2>1. CASE a \in exec.rows
      BY <2>1 DEF MayTake, Passes
    <2>2. CASE a \notin exec.rows
      <3>1. atomStatus'[a] = "pending" /\ ~(to \in {"archive", "delete", "interrupt"} /\ exec.atom = a)
        BY <1>1, <2>2 DEF MayTake, Passes
      <3> QED
        BY <3>1 DEF MayTake, Passes
    <2> QED
      BY <2>1, <2>2
  <1> QED
    BY <1>1

\* Each step of the executor pays for what it sends; a new one pays in advance.
LEMMA ExecPays ==
  ASSUME ExecutorTypeInv, ExecutorTypeInv', ExecutorKnows, RowsKept,
         \/ ExecutorStep \/ ExecArchiveFails \/ ExecInterruptFails \/ ExecFails \/ ExecDies
         \/ \E j \in Job : AutoRun(j) \/ RunJob(j),
         NEW a \in Atom, Known(a)
  PROVE  sent'[a] + One(MayTake(a)') + runs + faults <= sent[a] + One(MayTake(a)) + runs' + faults'
  <1> DEFINE Paid == sent'[a] + One(MayTake(a)') + runs + faults
                       <= sent[a] + One(MayTake(a)) + runs' + faults'
  <1>1. /\ exec \in Executor /\ ExecutorPlaced /\ runs \in Nat /\ runs' \in Nat
        /\ faults \in Nat /\ faults' \in Nat /\ sent \in [Atom -> Nat] /\ sent[a] \in Nat
    BY SingleThreadExecutorAssumption
       DEF ExecutorTypeInv, ExecutorTypeOK, TypeInv, TypeOK, DispatchTypeOK
  <1>2. atomStatus'[a] = "pending" => atomStatus[a] = "pending"
    BY DEF RowsKept
  <1>3. ASSUME MayTake(a)' => MayTake(a), UNCHANGED <<sent, runs, faults>> PROVE Paid
    BY <1>1, <1>3 DEF One
  <1>4. CASE ExecSelect \/ ExecInsert \/ ExecRun \/ ExecLoad \/ ExecNextIsOver
             \/ ExecProcessFails \/ ExecArchive \/ ExecArchiveRefused
    <2>1. UNCHANGED <<sent, runs, faults>>
      BY <1>4 DEF ExecSelect, ExecInsert, ExecRun, ExecLoad, ExecNextIsOver, ExecProcessFails,
                  ExecArchive, ExecArchiveRefused, Beside, dispatch
    <2>2. \/ exec' = NoExecutor \/ Passes("select", "insert") \/ Passes("insert", "run")
          \/ Passes("run", "load") \/ Passes("load", "query") \/ Passes("next", "select")
          \/ Passes("process", "interrupt") \/ Passes("archive", "delete")
          \/ Passes("archive", "interrupt")
      BY <1>1, <1>4, ExecPasses
    <2>3. exec' = NoExecutor => ~MayTake(a)'
      BY DEF NoExecutor, MayTake
    <2>4. MayTake(a)' => MayTake(a)
      BY <1>2, <2>2, <2>3, TakesNoMore
    <2> QED
      BY <1>3, <2>1, <2>4
  <1>5. CASE ExecQuery
    <2>1. UNCHANGED <<sent, runs, faults>> /\ atomStatus' = atomStatus
      BY <1>5 DEF ExecQuery, Beside, dispatch, tables
    <2>2. /\ exec.at = "query" /\ exec'.at = "next"
          /\ \A b \in exec'.rows : b \in Atom /\ atomStatus[b] = "pending"
      BY <1>1, <1>5, ExecReads
    <2>3. MayTake(a)' => MayTake(a)
      BY <2>1, <2>2 DEF MayTake
    <2> QED
      BY <1>3, <2>1, <2>3
  <1>6. ASSUME NEW b \in Atom, ExecNext(b) PROVE Paid
    <2>1. UNCHANGED <<sent, runs, faults>> /\ atomStatus' = atomStatus
      BY <1>6 DEF ExecNext, Beside, dispatch, tables
    <2>2. /\ exec.at = "next" /\ b \in exec.rows
          /\ exec'.at = "process" /\ exec'.atom = b /\ exec'.rows = exec.rows \ {b}
      BY <1>1, <1>6, ExecReads
    <2>3. MayTake(a)' => MayTake(a)
      BY <2>1, <2>2 DEF MayTake
    <2> QED
      BY <1>3, <2>1, <2>3
  <1>7. CASE ExecProcess
    <2>1. /\ UNCHANGED <<atomStatus, runs, faults>>
          /\ sent' = [sent EXCEPT ![exec.atom] = sent[exec.atom] + 1] /\ Passes("process", "archive")
      BY <1>1, <1>7, ExecPasses DEF ExecProcess, tables
    <2>2. exec.atom \in Atom /\ exec.atom \notin exec.rows
      BY <1>1, <2>1 DEF Passes, ExecutorPlaced, ExecutorKnows
    <2>3. CASE a = exec.atom
      <3>1. MayTake(a) /\ ~MayTake(a)'
        BY <2>1, <2>2, <2>3 DEF MayTake, Passes
      <3>2. sent'[a] = sent[a] + 1
        BY <1>1, <2>1, <2>2, <2>3
      <3> QED
        BY <1>1, <2>1, <3>1, <3>2 DEF One
    <2>4. CASE a # exec.atom
      <3>1. MayTake(a)' => MayTake(a)
        BY <1>2, <2>1, TakesNoMore
      <3>2. sent'[a] = sent[a]
        BY <1>1, <2>1, <2>2, <2>4
      <3> QED
        BY <1>1, <2>1, <3>1, <3>2 DEF One
    <2> QED
      BY <2>3, <2>4
  <1>8. CASE ExecDelete \/ ExecInterrupt
    <2>1. /\ UNCHANGED <<sent, runs, faults>>
          /\ Passes("delete", "count") \/ Passes("interrupt", "count")
      BY <1>1, <1>8, ExecPasses DEF ExecDelete, ExecInterrupt, Beside, dispatch
    <2>2. exec.atom = a => atomStatus'[a] # "pending"
      BY <1>8 DEF ExecDelete, ExecInterrupt, DeleteAtoms, UpdateAtoms, NoRow
    <2>3. MayTake(a)' => MayTake(a)
      BY <1>2, <2>1, <2>2, TakesNoMore
    <2> QED
      BY <1>3, <2>1, <2>3
  <1>9. CASE ExecCount
    <2>1. UNCHANGED <<sent, runs, faults>> /\ atomStatus' = atomStatus
      BY <1>9 DEF ExecCount, Beside, dispatch
    <2>2. exec.at = "count" /\ exec'.at = "next" /\ exec'.rows = exec.rows
      BY <1>1, <1>9, ExecReads
    <2>3. MayTake(a)' => MayTake(a)
      BY <2>1, <2>2 DEF MayTake
    <2> QED
      BY <1>3, <2>1, <2>3
  <1>10. CASE ExecArchiveFails \/ ExecInterruptFails
    <2>1. UNCHANGED <<sent, runs>> /\ faults' = faults + 1
      BY <1>10 DEF ExecArchiveFails, ExecInterruptFails, Fault
    <2> QED
      BY <1>1, <2>1 DEF One
  <1>11. CASE ExecFails \/ ExecDies
    <2>1. ~MayTake(a)' /\ UNCHANGED <<sent, runs>>
      BY <1>11 DEF ExecFails, ExecDies, NoExecutor, MayTake, dispatch
    <2>2. faults' = faults \/ faults' = faults + 1
      BY <1>11 DEF ExecFails, ExecDies, dispatch, Fault
    <2> QED
      BY <1>1, <2>1, <2>2 DEF One
  <1>12. ASSUME NEW j \in Job, AutoRun(j) \/ RunJob(j) PROVE Paid
    <2>1. UNCHANGED <<sent, faults>> /\ runs' = runs + 1
      BY <1>12 DEF AutoRun, RunJob, Given, vars, dispatch
    <2> QED
      BY <1>1, <2>1 DEF One
  <1> QED
    BY <1>4, <1>5, <1>6, <1>7, <1>8, <1>9, <1>10, <1>11, <1>12 DEF ExecutorStep
-----------------------------------------------------------------------------
(* The two of them together.                                               *)

Balanced(a) ==
  sent[a] + One(Waits(a)) + One(MayFeed(a)) + One(MayTake(a)) <= runs + faults + One(starts > 0)

\* Who makes a row pending sends nothing, and gives it to nobody.
LEMMA NewIsFree ==
  ASSUME HeldInv, Calm, [Next]_vars, NEW a \in Atom,
         atomStatus'[a] = "pending", atomStatus[a] # "pending"
  PROVE  UNCHANGED <<sent, queue, at, atom>>
  <1>1. TypeInv /\ Undisturbed
    BY DEF HeldInv
  <1>2. ~UNCHANGED vars
    BY DEF vars, tables
  <1>3. ~(Start \/ Crash)
    BY DEF Start, Crash, tables
  <1>4. \A t \in Worker : ~Threads(t)
    BY <1>1, ThreadMakesNothingPending
  <1>5. CASE Web \/ StopCall \/ HaltCall \/ StopStep \/ (\E j \in Job : AbortCall(j)) \/ AbortStep
    BY <1>1, <1>5, OthersDisturbNothing
  <1>6. CASE DaemonStep \/ Fatal
    <2>1. ASSUME NEW j \in Job, LoadInsert(j) PROVE UNCHANGED <<sent, queue, at, atom>>
      BY <2>1 DEF LoadInsert, dispatch, threads
    <2>2. ~FeedMark
      BY DEF FeedMark, UpdateAtoms
    <2>3. \A j \in Job : ~ResetAtoms(j)
      BY <1>1 DEF ResetAtoms, Undisturbed
    <2>4. atomStatus' # atomStatus
      OBVIOUS
    <2>5. \E j \in Job : LoadInsert(j)
      BY <1>6, <2>2, <2>3, <2>4
         DEF DaemonStep, Fatal, Abnormal, LoadRefused, FinishSelect, FinishUpdate,
             Count, LoadSelect, LoadRun, LoadDone, FeedQuery, FeedPush, FeedDone, Launch,
             LaunchDone, Watch, Leave, Drain, DrainDone, ResetJob, ResetDone, Close, tables
    <2> QED
      BY <2>1, <2>5
  <1> QED
    BY <1>2, <1>3, <1>4, <1>5, <1>6 DEF Next

\* Whoever may come to send an atom that is new has paid for it.
LEMMA NewIsBalanced ==
  ASSUME ExecutorTypeInv, HeldInv, Calm, ExecutorKnows, NEW a \in Atom, ~Known(a),
         ExecutorTypeInv', ExecutorKnows', UNCHANGED <<queue, at, atom>>,
         sent'[a] = sent[a]
  PROVE  Balanced(a)'
  <1>1. /\ runs' \in Nat /\ faults' \in Nat /\ starts' \in Nat
    BY SingleThreadExecutorAssumption, SchedulerDaemonAssumption, AtomDispatchAssumption
       DEF ExecutorTypeInv, ExecutorTypeOK, TypeInv, TypeOK, DispatchTypeOK, DaemonTypeOK
  <1>2. sent[a] = 0 /\ ~Busy(a)
    BY NewOwesNothing
  <1>3. ~Waits(a)'
    BY <1>2 DEF Waits, Ready, Sending, Busy, Queued, Taken
  <1>4. MayFeed(a)' => starts' > 0
    BY DEF MayFeed
  <1>5. MayTake(a)' => runs' > 0
    BY DEF MayTake, ExecutorKnows
  <1> QED
    BY <1>1, <1>2, <1>3, <1>4, <1>5 DEF Balanced, One

\* Each step of the scheduler keeps the balance.
LEMMA CopiesNext ==
  ASSUME CopiesInv, Calm, [Next]_vars, UNCHANGED <<exec, runs, ran>> PROVE CopiesInv'
  <1>1. /\ ExecutorTypeInv /\ HeldInv /\ Started /\ ExecutorKnows /\ Balance
        /\ exec.rows \in SUBSET Atom
        /\ exec.at \in {"process", "archive", "delete", "interrupt"} => exec.atom \in Atom
    BY DEF CopiesInv, ExecutorTypeInv, ExecutorTypeOK, Executor, ExecutorPlaced
  <1>2. ExecutorTypeInv' /\ HeldInv' /\ Started' /\ RowsKept
    <2>1. [ExecutorNext]_xvars
      BY DEF ExecutorNext, xvars
    <2> QED
      BY <1>1, <2>1, ExecutorTypeStep, HeldStep, NextStarted, NextKeepsRows
  <1>3. ExecutorKnows'
    <2>1. \A a \in Atom : (Known(a) => Known(a)') /\ (Moved(a) => Moved(a)')
      BY <1>2 DEF RowsKept
    <2>2. PICK b : b = exec.atom
      OBVIOUS
    <2> QED
      BY <1>1, <2>1, <2>2 DEF ExecutorKnows, Known, Moved
  <1>4. ASSUME NEW a \in Atom PROVE Balanced(a)'
    <2>1. /\ sent[a] \in Nat /\ sent'[a] \in Nat /\ faults \in Nat /\ faults' \in Nat
          /\ runs \in Nat /\ Balanced(a)
      BY <1>1, <1>2, SingleThreadExecutorAssumption
         DEF ExecutorTypeInv, ExecutorTypeOK, TypeInv, TypeOK, DispatchTypeOK, Balance, Balanced
    <2>2. CASE atomStatus'[a] = "pending" => atomStatus[a] = "pending"
      <3>1. Pays(a)
        BY <1>1, <2>2, NextPays
      <3>2. MayTake(a)' => MayTake(a)
        BY <2>2 DEF MayTake
      <3> QED
        BY <2>1, <3>1, <3>2 DEF Pays, Balanced, One
    <2>3. CASE atomStatus'[a] = "pending" /\ atomStatus[a] # "pending"
      <3>1. ~Known(a)
        BY <1>2, <2>3 DEF RowsKept
      <3>2. UNCHANGED <<sent, queue, at, atom>>
        BY <1>1, <2>3, NewIsFree
      <3> QED
        BY <1>1, <1>2, <1>3, <3>1, <3>2, NewIsBalanced
    <2> QED
      BY <2>2, <2>3
  <1> QED
    BY <1>2, <1>3, <1>4 DEF CopiesInv, Balance, Balanced

\* So does each step of the executor.
LEMMA CopiesExec ==
  ASSUME CopiesInv, Calm,
         \/ ExecutorStep \/ ExecArchiveFails \/ ExecInterruptFails \/ ExecFails \/ ExecDies
         \/ \E j \in Job : AutoRun(j) \/ RunJob(j)
  PROVE  CopiesInv'
  <1>1. ExecutorTypeInv /\ HeldInv /\ Started /\ ExecutorKnows /\ Balance
    BY DEF CopiesInv
  <1>2. ExecutorTypeInv' /\ ExecutorTypeInv
    BY <1>1, ExecStepType, ExecEndType, ExecStartType
  <1>3. /\ RowsKept
        /\ UNCHANGED <<queue, threads, pool, daemonVars, callVars, starts>>
    BY <1>1, ExecKeepsRows
  <1>4. HeldInv' /\ Started' /\ ExecutorKnows'
    BY <1>1, <1>3, ExecKeepsHeld, ExecKnowsStep
  <1>5. UNCHANGED <<queue, at, atom, daemon, todo, current, pool, starts>>
    BY <1>3 DEF threads, daemonVars
  <1>6. ASSUME NEW a \in Atom PROVE Balanced(a)'
    <2>1. /\ sent[a] \in Nat /\ sent'[a] \in Nat /\ faults \in Nat /\ faults' \in Nat
          /\ runs \in Nat /\ runs' \in Nat /\ Balanced(a)
      BY <1>1, <1>2, SingleThreadExecutorAssumption
         DEF ExecutorTypeInv, ExecutorTypeOK, TypeInv, TypeOK, DispatchTypeOK, Balance, Balanced
    <2>2. CASE Known(a)
      <3>1. sent'[a] + One(MayTake(a)') + runs + faults <= sent[a] + One(MayTake(a)) + runs' + faults'
        BY <1>1, <1>2, <1>3, <2>2, ExecPays
      <3>2. (Waits(a)' <=> Waits(a)) /\ (Ready(a)' <=> Ready(a)) /\ (ToFeed(a)' <=> ToFeed(a))
        BY <1>5 DEF Waits, Ready, Sending, Queued, ToFeed
      <3>3. MayFeed(a)' => MayFeed(a)
        BY <1>3, <1>5, <2>2, <3>2 DEF MayFeed, RowsKept
      <3> QED
        BY <1>5, <2>1, <3>1, <3>2, <3>3 DEF Balanced, One
    <2>3. CASE ~Known(a)
      <3>1. sent'[a] = sent[a]
        <4>1. CASE ExecProcess
          <5>1. exec.at = "process" /\ exec.atom # a
            BY <1>1, <2>3, <4>1, NewOwesNothing DEF ExecProcess
          <5> QED
            BY <1>2, <4>1, <5>1
               DEF ExecProcess, ExecutorTypeInv, TypeInv, TypeOK, DispatchTypeOK
        <4>2. CASE ~ExecProcess
          BY <4>2 DEF ExecutorStep, ExecSelect, ExecInsert, ExecRun, ExecLoad, ExecQuery, ExecNext,
                      ExecNextIsOver, ExecProcessFails, ExecArchive, ExecArchiveRefused, ExecDelete,
                      ExecInterrupt, ExecCount, ExecArchiveFails, ExecInterruptFails, ExecFails, ExecDies,
                      Beside, dispatch, AutoRun, RunJob, vars
        <4> QED
          BY <4>1, <4>2
      <3> QED
        BY <1>1, <1>2, <1>4, <1>5, <2>3, <3>1, NewIsBalanced
    <2> QED
      BY <2>2, <2>3
  <1> QED
    BY <1>2, <1>4, <1>6 DEF CopiesInv, Balance, Balanced

LEMMA CopiesInit == ExecutorInit => CopiesInv
  <1> SUFFICES ASSUME ExecutorInit PROVE CopiesInv
    OBVIOUS
  <1>1. ExecutorTypeInv /\ HeldInv
    BY ExecutorTypeInit, HeldInit DEF ExecutorInit
  <1>2. /\ exec.at = "off" /\ exec.rows = {} /\ runs = 0 /\ faults = 0 /\ starts = 0 /\ daemon = "off"
        /\ queue = <<>> /\ \A t \in Worker : at[t] = "dead"
        /\ \A a \in Atom : sent[a] = 0
    BY DEF ExecutorInit, NoExecutor, Init, DispatchInit
  <1>3. Started /\ ExecutorKnows
    BY <1>2 DEF Started, ExecutorKnows
  <1>4. Balance
    BY <1>2 DEF Balance, One, Waits, Ready, Sending, Queued, MayFeed, MayTake
  <1> QED
    BY <1>1, <1>3, <1>4 DEF CopiesInv

LEMMA CopiesStep == ASSUME CopiesInv, Calm, [ExecutorNext]_xvars PROVE CopiesInv'
  <1>1. CASE UNCHANGED xvars
    BY <1>1, CopiesNext DEF xvars
  <1>2. CASE Next /\ UNCHANGED <<exec, runs, ran>>
    BY <1>2, CopiesNext
  <1> QED
    BY <1>1, <1>2, CopiesExec DEF ExecutorNext

\* What the scheduler and the executors have sent of a message, and may still send of
\* it, each of them has paid for.
THEOREM CopiesAlways == ASSUME Calm PROVE ExecutorSpec => []CopiesInv
  <1>1. ASSUME CopiesInv, [ExecutorNext]_xvars PROVE CopiesInv'
    BY <1>1, CopiesStep
  <1> QED
    BY <1>1, CopiesInit, PTL DEF ExecutorSpec

\* SingleThreadExecutor beside the daemon: the two of them take the same pending rows
\* and may send a message twice; but however often the executor reads its job again,
\* the processes die and statements fail, it is sent at most once for each executor
\* that was started, once for each statement that failed and once by the daemon.
THEOREM CopiesAreBounded == ASSUME Calm PROVE ExecutorSpec => []BoundedCopies
  <1>1. ASSUME CopiesInv, NEW a \in Atom
        PROVE  sent[a] <= runs + faults + (IF starts > 0 THEN 1 ELSE 0)
    <2>1. sent[a] \in Nat /\ faults \in Nat /\ runs \in Nat
      BY <1>1, SingleThreadExecutorAssumption
         DEF CopiesInv, ExecutorTypeInv, ExecutorTypeOK, TypeInv, TypeOK, DispatchTypeOK
    <2>2. Balanced(a)
      BY <1>1 DEF CopiesInv, Balance, Balanced
    <2> QED
      BY <2>1, <2>2 DEF Balanced, One
  <1>2. CopiesInv => BoundedCopies
    BY <1>1 DEF BoundedCopies
  <1> QED
    BY <1>2, CopiesAlways, PTL
-----------------------------------------------------------------------------
(* What the counter of a thread's Job instance says.                       *)

\* What the others may do to a row while a thread has its job.
RowLeft(a) ==
  \/ UNCHANGED <<atomStatus[a], archived[a]>>
  \/ /\ daemon = "mark" /\ archived'[a] = archived[a]
     /\ atomStatus'[a] = IF atomStatus[a] = NoRow THEN NoRow ELSE "running"
  \/ /\ ~Known(a) /\ jobStatus[JobOf[a]] = NoRow
     /\ archived'[a] = NoRow /\ atomStatus'[a] = "pending"
  \/ jobStatus'[JobOf[a]] = Gone /\ archived'[a] = NoRow /\ atomStatus'[a] = NoRow
  \/ JobOf[a] \in ran'

\* A job that is gone was not gone before it was.
LEMMA GoneStays ==
  ASSUME TypeInv, TypeInv', JobsKept, NEW j \in Job, jobStatus'[j] # Gone
  PROVE  jobStatus[j] # Gone
  <1>1. jobStatus'[j] \in Status \cup {NoRow, Gone}
    BY DEF TypeInv, TypeOK, TablesTypeOK
  <1> QED
    BY <1>1 DEF JobsKept, HasRow, Status, NoRow, Gone

\* What is left of a job that nobody else has stays.
LEMMA OpenStays ==
  ASSUME \A a \in Atom : RowLeft(a), daemon # "mark", NEW j \in Job, jobStatus[j] # NoRow, Undamaged(j)'
  PROVE  OpenAtoms(j)' = OpenAtoms(j) /\ \A a \in AtomsOf(j) : atomStatus[a] # "interrupted"
  <1>1. ASSUME NEW a \in AtomsOf(j) PROVE atomStatus'[a] = atomStatus[a]
    <2>1. a \in Atom /\ JobOf[a] = j /\ j \notin ran' /\ jobStatus'[j] # Gone
      BY <1>1 DEF AtomsOf, Undamaged
    <2> QED
      BY <2>1 DEF RowLeft
  <1>2. \A a \in AtomsOf(j) : atomStatus'[a] # "interrupted"
    BY DEF Undamaged, AtomsOf
  <1>3. AtomsOf(j)' = AtomsOf(j)
    BY DEF AtomsOf
  <1> QED
    BY <1>1, <1>2, <1>3 DEF OpenAtoms

\* The thread does nothing, and whoever does something leaves its rows.
LEMMA CountStill ==
  ASSUME CountInv, CopiesInv', GivenInv', InTurns', JobsKept, RowsKept, \A a \in Atom : RowLeft(a),
         ran \subseteq ran', faults' = 0 => faults = 0, UNCHANGED <<atom, job, pending>>, pool' => pool,
         \A t \in Worker : at'[t] = at[t] \/ (at[t] = "dead" /\ at'[t] = "begin"),
         \A a \in Atom : Waiting(a)' => Waiting(a) \/ atomStatus[a] = "pending"
  PROVE  CountInv'
  <1>1. /\ CopiesInv /\ InTurns /\ Instances /\ InstanceKept /\ HeldInv /\ TypeInv /\ TypeInv'
        /\ IdleHasNone /\ Remembered
    BY DEF CountInv, CopiesInv, HeldInv
  <1>2. /\ job \in [Worker -> Job \cup {None}] /\ None \notin Job
        /\ \A t \in Worker : at[t] \notin Idle => atom[t] \in Atom /\ Known(atom[t])
    BY <1>1, AtomDispatchAssumption DEF TypeInv, TypeOK, DispatchTypeOK, Placed, Idle, Remembered, Busy, Taken
  <1>3. \A j \in Job : jobStatus'[j] # Gone => jobStatus[j] # Gone
    BY <1>1, GoneStays
  <1>4. Instances' /\ InstanceKept'
    BY <1>1, <1>2 DEF Instances, InstanceKept, JobsKept
  <1>5. ASSUME faults' = 0 PROVE Marked' /\ Fresh' /\ AtWork' /\ Exact'
    <2>1. Marked /\ Fresh /\ AtWork /\ Exact
      BY <1>5 DEF CountInv
    <2>2. Marked'
      BY <1>2, <2>1 DEF Marked, RowsKept, Idle
    <2>3. Fresh'
      <3> SUFFICES ASSUME NEW a \in Atom, JobOf[a] \notin ran'
                   PROVE  /\ atomStatus'[a] = "pending" \/ Waiting(a)' => archived'[a] = NoRow
                          /\ Waiting(a)' => atomStatus'[a] \in {NoRow, "pending", "running"}
        BY DEF Fresh
      <3>1. /\ atomStatus[a] = "pending" \/ Waiting(a) => archived[a] = NoRow
            /\ Waiting(a) => atomStatus[a] \in {NoRow, "pending", "running"}
        BY <2>1 DEF Fresh
      <3> QED
        BY <3>1 DEF RowLeft, NoRow
    <2>4. AtWork'
      <3> SUFFICES ASSUME NEW t \in Worker, at'[t] \notin Idle, JobOf[atom'[t]] \notin ran',
                          jobStatus'[JobOf[atom'[t]]] # Gone
                   PROVE  /\ at'[t] \in {"load", "process", "archive", "delete"} =>
                               atomStatus'[atom'[t]] = "running"
                          /\ at'[t] = "interrupt" /\ pool' => atomStatus'[atom'[t]] # NoRow
        BY DEF AtWork
      <3>1. /\ at'[t] = at[t] /\ atom'[t] = atom[t] /\ atom[t] \in Atom /\ Known(atom[t])
            /\ JobOf[atom[t]] \notin ran /\ JobOf[atom[t]] \in Job
        BY <1>2, JobTablesAssumption DEF Idle
      <3>2. /\ at[t] \in {"load", "process", "archive", "delete"} => atomStatus[atom[t]] = "running"
            /\ at[t] = "interrupt" /\ pool => atomStatus[atom[t]] # NoRow
        BY <1>3, <2>1, <3>1 DEF AtWork
      <3> QED
        BY <3>1, <3>2 DEF RowLeft, NoRow
    <2>5. Exact'
      <3> SUFFICES ASSUME NEW t \in Worker, NEW j, j = job'[t], j # None, Undamaged(j)', at'[t] # "interrupt",
                          pool' \/ at'[t] = "finish"
                   PROVE  pending'[t] = Cardinality(OpenAtoms(j)' \ Leaving(t)')
        BY DEF Exact, Undamaged, OpenAtoms, AtomsOf
      <3>1. j \in Job /\ job[t] = j /\ at'[t] = at[t] /\ at[t] # "dead" /\ jobStatus[j] # NoRow
        BY <1>1, <1>2 DEF Instances
      <3>2. daemon # "mark"
        BY <1>1, <3>1 DEF InTurns
      <3>3. OpenAtoms(j)' = OpenAtoms(j) /\ \A a \in AtomsOf(j) : atomStatus[a] # "interrupted"
        BY <3>1, <3>2, OpenStays
      <3>4. Undamaged(j)
        BY <1>3, <3>1, <3>3 DEF Undamaged
      <3>5. pending[t] = Cardinality(OpenAtoms(j) \ Leaving(t))
        BY <2>1, <3>1, <3>4 DEF Exact
      <3>6. Leaving(t)' = Leaving(t)
        BY <3>1 DEF Leaving
      <3> QED
        BY <3>3, <3>5, <3>6
    <2> QED
      BY <2>2, <2>3, <2>4, <2>5
  <1> QED
    BY <1>4, <1>5 DEF CountInv

\* The executor leaves the rows of the other jobs, and their jobs.
LEMMA ExecLeavesRows ==
  ASSUME ExecutorTypeInv, ExecutorKnows, GivenInv, Listed = {},
         \/ ExecutorStep \/ ExecArchiveFails \/ ExecInterruptFails \/ ExecFails \/ ExecDies
         \/ \E j \in Job : AutoRun(j) \/ RunJob(j)
  PROVE  /\ \A a \in Atom : RowLeft(a)
         /\ JobsKept /\ ran \subseteq ran' /\ GivenInv'
  <1>1. /\ TypeInv /\ TablesTypeOK /\ exec \in Executor /\ ran \in SUBSET Job
        /\ {"running", "finished"} \subseteq Status /\ jobStatus \in [Job -> Status \cup {NoRow, Gone}]
        /\ atomStatus \in [Atom -> Status \cup {NoRow}] /\ archived \in [Atom -> Status \cup {NoRow}]
    BY DEF ExecutorTypeInv, ExecutorTypeOK, TypeInv, TypeOK, TablesTypeOK, Status
  <1>2. ASSUME exec' = NoExecutor, ran' = ran PROVE GivenInv'
    BY <1>2 DEF NoExecutor, GivenInv
  <1>3. ASSUME NEW from, NEW to, Passes(from, to), ran' = ran, from # "off", exec'.job = exec.job,
               to \in {"archive", "delete", "interrupt"} => from \in {"process", "archive", "delete"},
               to # "process"
        PROVE  GivenInv'
    BY <1>3 DEF GivenInv, Passes
  <1>4. \A place : exec' = [exec EXCEPT !.at = place] => exec'.job = exec.job
    BY <1>1 DEF Executor
  <1>5. ASSUME UNCHANGED tables PROVE JobsKept /\ \A a \in Atom : RowLeft(a)
    BY <1>1, <1>5, StatementsKeepJobs DEF RowLeft, tables
  <1>6. ASSUME NEW b \in Atom, b = exec.atom, JobOf[b] \in ran', UNCHANGED jobStatus,
               \A a \in Atom : a # b => UNCHANGED <<atomStatus[a], archived[a]>>
        PROVE  JobsKept /\ \A a \in Atom : RowLeft(a)
    BY <1>1, <1>6, StatementsKeepJobs DEF RowLeft
  <1>7. ASSUME exec.at \in {"archive", "delete", "interrupt"}, ran' = ran
        PROVE  exec.atom \in Atom /\ JobOf[exec.atom] \in ran'
    BY <1>7 DEF GivenInv, ExecutorTypeInv, ExecutorPlaced
  <1>8. CASE ExecSelect \/ ExecNextIsOver
    <2>1. ran' = ran /\ UNCHANGED tables
      BY <1>8 DEF ExecSelect, ExecNextIsOver, Beside
    <2>2. \/ exec' = NoExecutor
          \/ exec'.job = exec.job /\ (Passes("select", "insert") \/ Passes("next", "select"))
      BY <1>1, <1>4, <1>8, ExecPasses DEF ExecSelect, ExecNextIsOver, ExecGoto
    <2> QED
      BY <1>2, <1>3, <1>5, <2>1, <2>2
  <1>9. CASE ExecInsert
    <2>1. ran' = ran /\ UNCHANGED <<jobStatus, archived>> /\ InsertAtoms({})
      BY <1>9 DEF ExecInsert, Beside, Inserts
    <2>2. exec'.job = exec.job /\ Passes("insert", "run")
      BY <1>1, <1>4, <1>9, ExecPasses DEF ExecInsert, ExecGoto
    <2>3. \A a \in Atom : RowLeft(a)
      BY <2>1 DEF InsertAtoms, RowLeft
    <2>4. JobsKept
      BY <1>1, <2>1, StatementsKeepJobs
    <2> QED
      BY <1>3, <2>1, <2>2, <2>3, <2>4
  <1>10. CASE ExecRun
    <2>1. ran' = ran /\ UNCHANGED <<atomStatus, archived>> /\ UpdateJob(exec.job, "running")
      BY <1>10 DEF ExecRun, Beside
    <2>2. exec'.job = exec.job /\ Passes("run", "load")
      BY <1>1, <1>4, <1>10, ExecPasses DEF ExecRun, ExecGoto
    <2>3. \A a \in Atom : RowLeft(a)
      BY <2>1 DEF RowLeft
    <2>4. JobsKept
      BY <1>1, <2>1, StatementsKeepJobs
    <2> QED
      BY <1>3, <2>1, <2>2, <2>3, <2>4
  <1>11. CASE ExecLoad
    <2>1. ran' = ran /\ UNCHANGED tables /\ Passes("load", "query")
      BY <1>1, <1>11, ExecPasses DEF ExecLoad, Beside
    <2>2. exec'.job = exec.job
      <3>1. \A n : exec' = [exec EXCEPT !.at = "query", !.count = n] => exec'.job = exec.job
        BY <1>1 DEF Executor
      <3> QED
        BY <1>11, <3>1 DEF ExecLoad
    <2> QED
      BY <1>3, <1>5, <2>1, <2>2
  <1>12. CASE ExecQuery
    <2>1. ran' = ran /\ UNCHANGED tables
      BY <1>12 DEF ExecQuery, Beside
    <2>2. PICK S : S = {a \in AtomsOf(exec.job) : atomStatus[a] = "pending" /\ HasRow(exec.job)}
      OBVIOUS
    <2>3. exec.at = "query" /\ exec' = [exec EXCEPT !.at = "next", !.rows = S]
      BY <1>12, <2>2 DEF ExecQuery
    <2>4. exec'.at = "next" /\ exec'.rows = S /\ exec'.job = exec.job
      BY <1>1, <2>3 DEF Executor
    <2>5. \A a \in S : JobOf[a] = exec.job
      BY <2>2 DEF AtomsOf
    <2>6. GivenInv'
      BY <2>1, <2>3, <2>4, <2>5 DEF GivenInv
    <2> QED
      BY <1>5, <2>1, <2>6
  <1>13. ASSUME NEW b \in Atom, ExecNext(b)
         PROVE  JobsKept /\ ran' = ran /\ GivenInv' /\ \A a \in Atom : RowLeft(a)
    <2>1. ran' = ran /\ UNCHANGED tables
      BY <1>13 DEF ExecNext, Beside
    <2>2. /\ exec.at = "next" /\ b \in exec.rows /\ exec'.atom = b /\ exec'.rows = exec.rows \ {b}
      BY <1>1, <1>13, ExecReads
    <2>3. exec'.job = exec.job
      BY <1>1, <1>13 DEF ExecNext, Executor
    <2>4. GivenInv'
      BY <2>1, <2>2, <2>3 DEF GivenInv
    <2> QED
      BY <1>5, <2>1, <2>4
  <1>14. CASE ExecProcess \/ ExecProcessFails
    <2>1. ran' = ran /\ UNCHANGED tables /\ (Passes("process", "archive") \/ Passes("process", "interrupt"))
      BY <1>1, <1>14, ExecPasses DEF ExecProcess, ExecProcessFails, Beside
    <2>2. exec'.job = exec.job
      BY <1>1, <1>14 DEF ExecProcess, ExecProcessFails, Executor
    <2> QED
      BY <1>3, <1>5, <2>1, <2>2
  <1>15. CASE ExecArchive \/ ExecDelete \/ ExecInterrupt
    <2>1. ran' = ran /\ UNCHANGED jobStatus
      BY <1>15 DEF ExecArchive, ExecDelete, ExecInterrupt, Beside
    <2>2. /\ exec'.job = exec.job
          /\ Passes("archive", "delete") \/ Passes("delete", "count") \/ Passes("interrupt", "count")
      BY <1>1, <1>4, <1>15, ExecPasses DEF ExecArchive, ExecDelete, ExecInterrupt, ExecGoto
    <2>3. exec.atom \in Atom /\ JobOf[exec.atom] \in ran'
      BY <1>7, <2>1, <2>2 DEF Passes
    <2>4. \A a \in Atom : a # exec.atom => UNCHANGED <<atomStatus[a], archived[a]>>
      BY <1>15 DEF ExecArchive, ExecDelete, ExecInterrupt, ArchiveAtoms, DeleteAtoms, UpdateAtoms
    <2> QED
      BY <1>3, <1>6, <2>1, <2>2, <2>3, <2>4
  <1>16. CASE ExecArchiveRefused \/ ExecArchiveFails \/ ExecInterruptFails
    <2>1. ran' = ran /\ UNCHANGED tables
      BY <1>16 DEF ExecArchiveRefused, ExecArchiveFails, ExecInterruptFails, Beside
    <2>2. /\ exec'.job = exec.job
          /\ Passes("archive", "interrupt") \/ Passes("delete", "interrupt") \/ Passes("interrupt", "count")
      BY <1>1, <1>4, <1>16, ExecPasses
         DEF ExecArchiveRefused, ExecArchiveFails, ExecInterruptFails, ExecGoto
    <2> QED
      BY <1>3, <1>5, <2>1, <2>2
  <1>17. CASE ExecCount
    <2>1. /\ ran' = ran /\ UNCHANGED <<atomStatus, archived>>
          /\ jobStatus' = jobStatus \/ UpdateJob(exec.job, "finished")
      BY <1>17 DEF ExecCount, Beside
    <2>2. exec.at = "count" /\ exec'.at = "next" /\ exec'.rows = exec.rows
      BY <1>1, <1>17, ExecReads
    <2>3. exec'.job = exec.job
      BY <1>1, <1>17 DEF ExecCount, Executor
    <2>4. GivenInv'
      BY <2>1, <2>2, <2>3 DEF GivenInv
    <2>5. JobsKept
      BY <1>1, <2>1, StatementsKeepJobs
    <2> QED
      BY <2>1, <2>4, <2>5 DEF RowLeft
  <1>18. CASE ExecFails \/ ExecDies
    <2>1. ran' = ran /\ UNCHANGED tables /\ exec' = NoExecutor
      BY <1>18 DEF ExecFails, ExecDies
    <2> QED
      BY <1>2, <1>5, <2>1
  <1>19. ASSUME NEW j \in Job, AutoRun(j) \/ RunJob(j)
         PROVE  JobsKept /\ ran \subseteq ran' /\ GivenInv' /\ \A a \in Atom : RowLeft(a)
    <2>1. ran' = ran \cup {j} /\ exec'.at = "select" /\ exec'.job = j /\ exec'.rows = {}
      BY <1>19 DEF AutoRun, RunJob, Given, NoExecutor
    <2>2. GivenInv'
      BY <2>1 DEF GivenInv
    <2>3. CASE RunJob(j)
      BY <1>5, <2>1, <2>2, <2>3 DEF RunJob, vars
    <2>4. CASE AutoRun(j)
      <3>1. /\ InsertAtoms(NewAtoms(AtomsOf(j) \ Late)) /\ UNCHANGED archived
            /\ jobStatus[j] = NoRow /\ jobStatus' = [jobStatus EXCEPT ![j] = "suspended"]
        BY <2>4 DEF AutoRun
      <3>2. JobsKept
        BY <1>1, <3>1 DEF JobsKept, HasRow, NoRow, Status
      <3>3. \A a \in Atom : JobOf[a] # j => UNCHANGED <<atomStatus[a], archived[a]>>
        BY <3>1 DEF InsertAtoms, NewAtoms, AtomsOf
      <3> QED
        BY <2>1, <2>2, <3>2, <3>3 DEF RowLeft
    <2> QED
      BY <1>19, <2>3, <2>4
  <1> QED
    BY <1>8, <1>9, <1>10, <1>11, <1>12, <1>13, <1>14, <1>15, <1>16, <1>17, <1>18, <1>19 DEF ExecutorStep

LEMMA CountExec ==
  ASSUME CountInv, CopiesInv', Alone,
         \/ ExecutorStep \/ ExecArchiveFails \/ ExecInterruptFails \/ ExecFails \/ ExecDies
         \/ \E j \in Job : AutoRun(j) \/ RunJob(j)
  PROVE  CountInv'
  <1>1. ExecutorTypeInv /\ ExecutorKnows /\ GivenInv /\ InTurns /\ faults \in Nat /\ faults' \in Nat
    BY DEF CountInv, CopiesInv, ExecutorTypeInv, ExecutorTypeOK, TypeInv, TypeOK, DispatchTypeOK
  <1>2. /\ RowsKept /\ faults' >= faults
        /\ UNCHANGED <<queue, threads, pool, daemonVars, callVars, starts>>
    BY <1>1, ExecKeepsRows
  <1>3. /\ \A a \in Atom : RowLeft(a)
        /\ JobsKept /\ ran \subseteq ran' /\ GivenInv'
    BY <1>1, ExecLeavesRows DEF Alone
  <1>4. UNCHANGED <<queue, at, atom, job, pending, pool, daemon, todo, current>>
    BY <1>2 DEF threads, daemonVars
  <1>5. InTurns' /\ \A a \in Atom : Waiting(a)' => Waiting(a)
    BY <1>1, <1>4 DEF InTurns, Waiting, Queued, ToFeed
  <1>6. faults' = 0 => faults = 0
    BY <1>1, <1>2
  <1> QED
    BY <1>2, <1>3, <1>4, <1>5, <1>6, CountStill

\* The daemon feeds while its thread is dead, and waits while it lives.
LEMMA CountDaemon ==
  ASSUME CountInv, CopiesInv', GivenInv', JobsKept, RowsKept, ran' = ran, Alone, DaemonStep \/ Fatal
  PROVE  CountInv'
  <1>1. /\ TypeInv /\ TypeInv' /\ Undisturbed /\ Started /\ InTurns /\ Instances /\ queue \in Seq(Atom)
        /\ faults \in Nat /\ faults' \in Nat /\ at \in [Worker -> Place]
    BY DEF CountInv, CopiesInv, HeldInv, TypeInv, TypeOK, DispatchTypeOK
  <1>2. /\ ~(Leave \/ Drain \/ DrainDone \/ ResetJob \/ ResetDone \/ Close)
        /\ \A j \in Job : ~ResetAtoms(j) /\ ~LoadRefused(j)
    BY <1>1 DEF Leave, Drain, DrainDone, ResetJob, ResetDone, Close, Undisturbed, ResetAtoms,
                Alone, LoadRefused, Inserts
  <1>3. /\ UNCHANGED <<archived, atom, job, pending>>
        /\ \A t \in Worker : at'[t] = at[t] \/ (at[t] = "dead" /\ at'[t] = "begin")
    BY <1>1, DaemonPlaces
  <1>4. \A a \in Atom : RowLeft(a)
    <2>1. ASSUME NEW j \in Job, LoadInsert(j) PROVE atomStatus' = atomStatus
      <3>1. atomStatus' = [a \in Atom |-> atomStatus[a]]
        BY <2>1 DEF LoadInsert, Inserts, InsertAtoms, Alone
      <3> QED
        BY <1>1, <3>1 DEF TypeInv, TypeOK, TablesTypeOK
    <2>2. CASE FeedMark
      BY <1>3, <2>2 DEF FeedMark, UpdateAtoms, RowLeft
    <2>3. CASE atomStatus' = atomStatus
      BY <1>3, <2>3 DEF RowLeft
    <2> QED
      BY <1>2, <2>1, <2>2, <2>3
         DEF DaemonStep, Fatal, Abnormal, FinishSelect, FinishUpdate, Count, LoadSelect, LoadRun, LoadDone,
             FeedQuery, FeedPush, FeedDone, Launch, LaunchDone, Watch, tables
  <1>5. pool' => pool
    BY <1>2 DEF DaemonStep, Fatal, Abnormal, FinishSelect, FinishUpdate, Count, LoadSelect, LoadInsert, LoadRun,
             LoadDone, FeedQuery, FeedPush, FeedMark, FeedDone, Launch, LaunchDone, Watch, dispatch
  <1>6. faults' = 0 => faults = 0
    <2>1. CASE Fatal
      BY <1>1, <2>1, FaultCounts DEF Fatal
    <2>2. CASE faults' = faults
      BY <2>2
    <2> QED
      BY <1>2, <2>1, <2>2
         DEF DaemonStep, FinishSelect, FinishUpdate, Count, LoadSelect, LoadInsert, LoadRun,
             LoadDone, FeedQuery, FeedPush, FeedMark, FeedDone, Launch, LaunchDone, Watch, dispatch
  <1>7. InTurns'
    <2> SUFFICES ASSUME NEW t \in Worker, at'[t] # "dead" PROVE daemon' \in {"launch", "watch", "dead"}
      BY DEF InTurns
    <2>1. CASE at[t] = "dead"
      <3>1. \E u \in Worker : Launch(u)
        BY <1>2, <1>3, <2>1
           DEF DaemonStep, Fatal, Abnormal, FinishSelect, FinishUpdate, Count, LoadSelect, LoadInsert,
               LoadRun, LoadDone, FeedQuery, FeedPush, FeedMark, FeedDone, LaunchDone, Watch, dispatch, threads
      <3> QED
        BY <3>1 DEF Launch
    <2>2. CASE at[t] # "dead"
      <3>1. daemon \in {"launch", "watch", "dead"}
        BY <1>1, <2>2 DEF InTurns
      <3>2. Live = Worker
        BY <2>2 DEF Live, Alive, Alone
      <3> QED
        BY <1>2, <3>1, <3>2
           DEF DaemonStep, Fatal, FinishSelect, FinishUpdate, Count, LoadSelect, LoadInsert,
               LoadRun, LoadDone, FeedQuery, FeedPush, FeedMark, FeedDone, Launch, LaunchDone, Watch
    <2> QED
      BY <2>1, <2>2
  <1>8. ASSUME NEW a \in Atom, Waiting(a)' PROVE Waiting(a) \/ atomStatus[a] = "pending"
    <2>1. (\E t \in Worker : atom'[t] = a /\ at'[t] = "mark") => \E t \in Worker : atom[t] = a /\ at[t] = "mark"
      BY <1>3
    <2>2. Queued(a)' => Queued(a) \/ ToFeed(a)
      <3>1. ASSUME NEW b \in Atom, FeedPush(b), Queued(a)' PROVE Queued(a) \/ ToFeed(a)
        <4>1. daemon = "push" /\ b \in todo /\ queue' = Append(queue, b)
          BY <3>1 DEF FeedPush, Push
        <4>2. \A i \in DOMAIN queue' : queue'[i] = b \/ (i \in DOMAIN queue /\ queue'[i] = queue[i])
          <5>1. /\ Len(queue) \in Nat /\ DOMAIN queue = 1 .. Len(queue)
                /\ DOMAIN queue' = 1 .. Len(queue) + 1 /\ queue'[Len(queue) + 1] = b
                /\ \A i \in DOMAIN queue : queue'[i] = queue[i]
            BY <1>1, <4>1
          <5> QED
            BY <5>1
        <4> QED
          BY <3>1, <4>1, <4>2 DEF Queued, ToFeed
      <3>2. CASE queue' = queue
        BY <3>2 DEF Queued
      <3> QED
        BY <1>2, <3>1, <3>2
           DEF DaemonStep, Fatal, Abnormal, FinishSelect, FinishUpdate, Count, LoadSelect, LoadInsert,
               LoadRun, LoadDone, FeedQuery, FeedMark, FeedDone, Launch, LaunchDone, Watch, dispatch
    <2>3. ToFeed(a)' => ToFeed(a) \/ atomStatus[a] = "pending"
      <3>1. CASE FeedQuery
        BY <3>1 DEF FeedQuery, ToFeed
      <3>2. ASSUME NEW b \in Atom, FeedPush(b) PROVE ToFeed(a)' => ToFeed(a)
        BY <3>2 DEF FeedPush, ToFeed
      <3>3. CASE FeedMark
        BY <3>3 DEF FeedMark, ToFeed
      <3>4. CASE daemon' \notin {"push", "mark"}
        BY <3>4 DEF ToFeed
      <3> QED
        BY <1>2, <3>1, <3>2, <3>3, <3>4
           DEF DaemonStep, Fatal, Abnormal, FinishSelect, FinishUpdate, Count, LoadSelect, LoadInsert,
               LoadRun, LoadDone, FeedDone, Launch, LaunchDone, Watch
    <2> QED
      BY <1>8, <2>1, <2>2, <2>3 DEF Waiting
  <1> QED
    BY <1>3, <1>4, <1>5, <1>6, <1>7, <1>8, CountStill

\* The pages add no atoms to a job that has some, and a job goes with its rows.
LEMMA CountOther ==
  ASSUME CountInv, CopiesInv', GivenInv', JobsKept, RowsKept, ran' = ran, Alone,
         \/ Web \/ StopCall \/ HaltCall \/ StopStep \/ (\E j \in Job : AbortCall(j)) \/ AbortStep
         \/ UNCHANGED vars
  PROVE  CountInv'
  <1>1. TypeInv /\ Undisturbed /\ InTurns /\ Calm /\ TablesTypeOK
    BY DEF CountInv, CopiesInv, HeldInv, Alone, TypeInv, TypeOK
  <1>2. Web \/ HaltCall \/ HaltClose \/ UNCHANGED vars
    BY <1>1, OthersDisturbNothing
  <1>3. UNCHANGED <<queue, at, atom, daemon, todo, current>>
    <2>1. CASE UNCHANGED vars
      BY <2>1 DEF vars, dispatch, threads, daemonVars
    <2> QED
      BY <1>1, <2>1, OthersDisturbNothing
  <1>4. UNCHANGED <<job, pending, faults>> /\ (pool' => pool)
    BY <1>2 DEF Web, HaltCall, HaltClose, vars, dispatch, threads, StoppedUnchanged
  <1>5. \A a \in Atom : RowLeft(a)
    <2> SUFFICES ASSUME NEW a \in Atom PROVE RowLeft(a)
      OBVIOUS
    <2>1. CASE UNCHANGED <<atomStatus, archived>>
      BY <2>1 DEF RowLeft
    <2>2. ASSUME NEW j \in Job, NEW time, SendMail(j, time) PROVE RowLeft(a)
      <3>1. /\ jobStatus[j] = NoRow /\ archived' = archived
            /\ InsertAtoms(NewAtoms(AtomsOf(j) \ Late))
        BY <2>2 DEF SendMail
      <3>2. CASE a \in NewAtoms(AtomsOf(j) \ Late)
        BY <3>1, <3>2 DEF InsertAtoms, NewAtoms, AtomsOf, RowLeft, Known, Moved, NoRow, Gone
      <3>3. CASE a \notin NewAtoms(AtomsOf(j) \ Late)
        BY <3>1, <3>3 DEF InsertAtoms, RowLeft
      <3> QED
        BY <3>2, <3>3
    <2>3. ASSUME NEW j \in Job, DeleteJob(j) PROVE RowLeft(a)
      <3>1. JobOf[a] = j => jobStatus'[j] = Gone
        BY <1>1, <2>3 DEF DeleteJob, TablesTypeOK
      <3> QED
        BY <2>3, <3>1 DEF DeleteJob, DeleteAtoms, AtomsOf, RowLeft
    <2>4. CASE Created
      BY <2>1, <2>2, <2>4 DEF Created, CreateListJob, TimePasses
    <2>5. CASE WebEvent
      <3>1. ~Event("add") /\ ~Event("view") /\ ~Event("recycle")
        BY DEF Event, Alone, Calm
      <3> QED
        BY <2>1, <2>3, <2>5, <3>1 DEF WebEvent, DelayJob
    <2> QED
      BY <1>2, <2>1, <2>4, <2>5 DEF Web, HaltCall, HaltClose, vars, tables
  <1>6. InTurns' /\ \A a \in Atom : Waiting(a)' => Waiting(a)
    BY <1>1, <1>3 DEF InTurns, Waiting, Queued, ToFeed
  <1> QED
    BY <1>3, <1>4, <1>5, <1>6, CountStill

\* A process that starts, or dies, has no Job instance.
LEMMA CountProcess ==
  ASSUME CountInv, CopiesInv', GivenInv', JobsKept, ran' = ran, Start \/ Crash
  PROVE  CountInv'
  <1>1. Instances /\ IdleHasNone
    BY DEF CountInv, CopiesInv, HeldInv
  <1>2. /\ queue' = <<>> /\ UNCHANGED <<jobStatus, atomStatus, archived, faults>>
        /\ daemon' \in {"select", "off"}
        /\ \A t \in Worker : at'[t] = "dead" /\ atom'[t] = None /\ job'[t] = None
    BY <1>1 DEF Start, Crash, tables, threads, Live, Alive, Instances, IdleHasNone, Idle
  <1>3. InTurns' /\ Instances' /\ InstanceKept'
    BY <1>2 DEF InTurns, Instances, InstanceKept
  <1>4. Marked' /\ AtWork' /\ Exact'
    BY <1>2 DEF Marked, AtWork, Exact, Idle
  <1>5. \A a \in Atom : ~Waiting(a)'
    BY <1>2 DEF Waiting, Queued, ToFeed
  <1>6. Fresh => Fresh'
    BY <1>2, <1>5 DEF Fresh
  <1> QED
    BY <1>2, <1>3, <1>4, <1>6 DEF CountInv

\* What a step of the thread does to rows: it writes only that of its atom.
LEMMA ThreadRowOnly ==
  ASSUME TypeInv, NEW t \in Worker, Threads(t)
  PROVE  /\ \A a \in Atom : a # atom[t] => atomStatus'[a] = atomStatus[a]
         /\ \A a \in Atom : a # atom[t] \/ at[t] # "archive" => archived'[a] = archived[a]
         /\ Mark(t) \/ ArchiveDelete(t) \/ Interrupt(t) \/ atomStatus' = atomStatus
  <1>1. archived' = archived \/ ArchiveInsert(t)
    BY ThreadPlaces
  <1>2. Mark(t) \/ ArchiveDelete(t) \/ Interrupt(t) \/ atomStatus' = atomStatus
    BY DEF Threads, WorkerStep, WorkerFault, Begin, LeaveHalted, Pop, PopNothing,
           Load, Process, ProcessFails, ArchiveInsert, ArchiveRefused, Finish,
           MarkFails, MarkFindsNoConnection, LoadFails, ArchivingFails, InterruptFails,
           InterruptFindsNoConnection, tables
  <1>3. \A a \in Atom : a # atom[t] \/ at[t] # "archive" => archived'[a] = archived[a]
    BY <1>1 DEF ArchiveInsert, ArchiveAtoms
  <1>4. \A a \in Atom : a # atom[t] => atomStatus'[a] = atomStatus[a]
    BY <1>2 DEF Mark, ArchiveDelete, Interrupt, UpdateAtoms, DeleteAtoms
  <1> QED
    BY <1>2, <1>3, <1>4

\* As long as nothing has failed, a step of a thread is none that fails, unless the DBBind
\* is closed.
LEMMA ThreadWorks ==
  ASSUME TypeInv, NEW t \in Worker, Threads(t), faults' = 0
  PROVE  /\ faults = 0 /\ ~MarkFails(t)
         /\ (ArchivingFails(t) \/ InterruptFails(t) => ~pool)
         /\ pool' = pool
  <1>1. faults = 0
    BY ThreadFaults DEF TypeInv, TypeOK, DispatchTypeOK
  <1>2. ~(DbFault /\ pool)
    BY FaultCounts
  <1>3. pool' = pool
    BY DEF Threads, WorkerStep, WorkerFault, Begin, LeaveHalted, Pop, PopNothing, Mark,
           Load, Process, ProcessFails, ArchiveInsert, ArchiveRefused, ArchiveDelete, Finish, Interrupt,
           MarkFails, MarkFindsNoConnection, LoadFails, ArchivingFails, InterruptFails,
           InterruptFindsNoConnection
  <1> QED
    BY <1>1, <1>2, <1>3 DEF MarkFails, ArchivingFails, InterruptFails

\* Where a step of a thread leads.
LEMMA ThreadGoes ==
  ASSUME TypeInv, NEW t \in Worker, Threads(t)
  PROVE  /\ at'[t] = "mark" => Pop(t)
         /\ at'[t] = "load" => Mark(t) \/ MarkFails(t)
         /\ at'[t] = "process" => Load(t)
         /\ at'[t] = "interrupt" => ProcessFails(t) \/ ArchiveRefused(t) \/ ArchivingFails(t)
         /\ at'[t] \in {"dead", "begin"} => at'[t] = "dead" /\ job'[t] = None
         /\ at'[t] # "dead" => at[t] # "dead"
         /\ job'[t] # None => Load(t) \/ (job'[t] = job[t] /\ (pending'[t] = pending[t] \/
                                           Process(t) \/ ProcessFails(t)))
  <1>1. /\ at \in [Worker -> Place] /\ atom \in [Worker -> Atom \cup {None}]
        /\ job \in [Worker -> Job \cup {None}] /\ pending \in [Worker -> Int]
    BY DEF TypeInv, TypeOK, DispatchTypeOK
  <1> USE <1>1 DEF Goto, NextRound, Exit
  <1>2. CASE Begin(t) \/ LeaveHalted(t) \/ Pop(t) \/ PopNothing(t) \/ Mark(t) \/ MarkFails(t)
             \/ MarkFindsNoConnection(t)
    BY <1>2 DEF Begin, LeaveHalted, Pop, PopNothing, Mark, MarkFails, MarkFindsNoConnection
  <1>3. CASE Load(t) \/ LoadFails(t) \/ Process(t) \/ ProcessFails(t)
    BY <1>3 DEF Load, LoadFails, Process, ProcessFails
  <1>4. CASE ArchiveInsert(t) \/ ArchiveRefused(t) \/ ArchiveDelete(t) \/ Finish(t) \/ Interrupt(t)
    BY <1>4 DEF ArchiveInsert, ArchiveRefused, ArchiveDelete, Finish, Interrupt
  <1>5. CASE ArchivingFails(t) \/ InterruptFails(t) \/ InterruptFindsNoConnection(t)
    BY <1>5 DEF ArchivingFails, InterruptFails, InterruptFindsNoConnection
  <1> QED
    BY <1>2, <1>3, <1>4, <1>5 DEF Threads, WorkerStep, WorkerFault

\* What comes to the thread stays as it is until the thread takes it.
LEMMA ThreadFresh ==
  ASSUME CountInv, NEW t \in Worker, Threads(t), faults = 0, ran' = ran, \A u \in Worker : u = t
  PROVE  Fresh'
  <1>1. /\ TypeInv /\ HeldInv /\ Marked /\ Fresh /\ IdleHasNone
        /\ at \in [Worker -> Place] /\ queue \in Seq(Atom)
    BY DEF CountInv, CopiesInv, HeldInv, TypeInv, TypeOK, DispatchTypeOK
  <1> SUFFICES ASSUME NEW a \in Atom, JobOf[a] \notin ran
               PROVE  /\ atomStatus'[a] = "pending" \/ Waiting(a)' => archived'[a] = NoRow
                      /\ Waiting(a)' => atomStatus'[a] \in {NoRow, "pending", "running"}
    BY DEF Fresh
  <1>2. /\ atomStatus[a] = "pending" \/ Waiting(a) => archived[a] = NoRow
        /\ Waiting(a) => atomStatus[a] \in {NoRow, "pending", "running"}
    BY <1>1 DEF Fresh
  <1>3. atomStatus'[a] = "pending" => atomStatus[a] = "pending"
    BY <1>1, ThreadMakesNothingPending
  <1>4. ToFeed(a)' <=> ToFeed(a)
    BY DEF Threads, daemonVars, ToFeed
  <1>5. queue' = queue \/ Pop(t)
    BY <1>1, ThreadPlaces
  <1>6. CASE atom[t] # a
    <2>1. atomStatus'[a] = atomStatus[a] /\ archived'[a] = archived[a]
      BY <1>1, <1>6, ThreadRowOnly
    <2>2. Waiting(a)' => Waiting(a)
      <3>1. CASE Pop(t)
        <4>1. queue # <<>> /\ queue' = Tail(queue) /\ atom'[t] = Head(queue)
          BY <1>1, <3>1 DEF Pop, TypeInv, TypeOK, DispatchTypeOK
        <4>2. Queued(Head(queue))
          BY <1>1, <4>1 DEF Queued
        <4>3. CASE a = Head(queue)
          BY <4>2, <4>3 DEF Waiting
        <4>4. CASE a # Head(queue)
          <5>1. Queued(a)' <=> Queued(a)
            BY <1>1, <4>1, <4>4, PopQueue
          <5> QED
            BY <1>4, <4>1, <4>4, <5>1 DEF Waiting
        <4> QED
          BY <4>3, <4>4
      <3>2. CASE ~Pop(t)
        <4>1. queue' = queue /\ at'[t] # "mark"
          BY <1>1, <1>5, <3>2, ThreadGoes
        <4> QED
          BY <1>4, <4>1 DEF Waiting, Queued
      <3> QED
        BY <3>1, <3>2
    <2> QED
      BY <1>2, <2>1, <2>2
  <1>7. CASE atom[t] = a
    <2>1. at[t] \notin Idle /\ ~Queued(a) /\ ~ToFeed(a)
      BY <1>1, <1>7, HasAlone
    <2>2. ~Pop(t)
      BY <2>1 DEF Pop, Idle
    <2>3. ~Waiting(a)'
      <3>1. queue' = queue /\ at'[t] # "mark"
        BY <1>1, <1>5, <2>2, ThreadGoes
      <3> QED
        BY <1>4, <2>1, <3>1 DEF Waiting, Queued
    <2>4. CASE at[t] = "archive"
      <3>1. atomStatus[a] # "pending"
        BY <1>1, <1>7, <2>4 DEF Marked
      <3> QED
        BY <1>3, <2>3, <3>1
    <2>5. CASE at[t] # "archive"
      <3>1. archived'[a] = archived[a]
        BY <1>1, <2>5, ThreadRowOnly
      <3> QED
        BY <1>2, <1>3, <2>3, <3>1
    <2> QED
      BY <2>4, <2>5
  <1> QED
    BY <1>6, <1>7

\* The row is running from the UPDATE on.
LEMMA ThreadAtWork ==
  ASSUME CountInv, TypeInv', JobsKept, NEW t \in Worker, Threads(t), faults' = 0, ran' = ran,
         \A u \in Worker : u = t
  PROVE  Marked' /\ AtWork'
  <1>1. /\ TypeInv /\ HeldInv /\ faults = 0 /\ ~MarkFails(t) /\ pool' = pool
        /\ (ArchivingFails(t) => ~pool)
        /\ at \in [Worker -> Place] /\ atom \in [Worker -> Atom \cup {None}]
    BY ThreadWorks DEF CountInv, CopiesInv, HeldInv, TypeInv, TypeOK, DispatchTypeOK
  <1>2. Marked /\ Fresh /\ AtWork
    BY <1>1 DEF CountInv
  <1> SUFFICES ASSUME at'[t] \notin {"dead", "begin", "loop", "mark"}
               PROVE  /\ atomStatus'[atom'[t]] # "pending"
                      /\ JobOf[atom'[t]] \notin ran /\ jobStatus'[JobOf[atom'[t]]] # Gone =>
                           /\ at'[t] \in {"load", "process", "archive", "delete"} =>
                                atomStatus'[atom'[t]] = "running"
                           /\ at'[t] = "interrupt" /\ pool' => atomStatus'[atom'[t]] # NoRow
    BY DEF Marked, AtWork, Idle
  <1>3. at[t] \notin Idle /\ atom'[t] = atom[t]
    <2>1. Pop(t) => at'[t] = "mark"
      BY <1>1 DEF Pop, Goto
    <2> QED
      BY <1>1, <2>1, ThreadPlaces DEF Idle
  <1>4. PICK a \in Atom : a = atom[t]
    BY <1>1, <1>3 DEF TypeInv, Placed, Idle
  <1>5. Known(a) /\ JobOf[a] \in Job
    BY <1>1, <1>4, JobTablesAssumption DEF HeldInv, Remembered, Busy, Taken
  <1>6. jobStatus'[JobOf[a]] # Gone => jobStatus[JobOf[a]] # Gone
    BY <1>1, <1>5, GoneStays
  <1>7. CASE Mark(t)
    <2>1. /\ at[t] = "mark" /\ at'[t] = "load" /\ archived' = archived
          /\ atomStatus'[a] = IF atomStatus[a] # NoRow THEN "running" ELSE NoRow
      BY <1>1, <1>4, <1>7 DEF Mark, Goto, UpdateAtoms
    <2>2. ASSUME JobOf[a] \notin ran, jobStatus[JobOf[a]] # Gone PROVE atomStatus[a] # NoRow
      <3>1. archived[a] = NoRow
        BY <1>2, <1>4, <2>1, <2>2 DEF Fresh, Waiting
      <3> QED
        BY <1>5, <2>2, <3>1 DEF Known, Moved
    <2> QED
      BY <1>3, <1>4, <1>6, <2>1, <2>2 DEF NoRow
  <1>8. CASE ~Mark(t)
    <2>1. at[t] # "mark"
      BY <1>1, <1>3, <1>8
         DEF Threads, WorkerStep, WorkerFault, Begin, LeaveHalted, Pop, PopNothing,
             Load, Process, ProcessFails, ArchiveInsert, ArchiveRefused, ArchiveDelete, Finish, Interrupt,
             MarkFindsNoConnection, LoadFails, ArchivingFails, InterruptFails,
             InterruptFindsNoConnection, Exit, Goto
    <2>2. /\ atomStatus[a] # "pending"
          /\ JobOf[a] \notin ran /\ jobStatus[JobOf[a]] # Gone =>
               /\ at[t] \in {"load", "process", "archive", "delete"} => atomStatus[a] = "running"
               /\ at[t] = "interrupt" /\ pool => atomStatus[a] # NoRow
      BY <1>2, <1>3, <1>4, <2>1 DEF Marked, AtWork, Idle
    <2>3. atomStatus'[a] # "pending"
      BY <1>1, <2>2, ThreadMakesNothingPending
    <2>4. ASSUME at'[t] \in {"load", "process", "archive", "delete"}
          PROVE  at[t] \in {"load", "process", "archive", "delete"} /\ atomStatus'[a] = atomStatus[a]
      <3>1. at'[t] # "load"
        BY <1>1, <1>8, ThreadGoes
      <3>2. Load(t) \/ Process(t) \/ ArchiveInsert(t)
        BY <1>1, <2>4, <3>1, ThreadGoes, ThreadPlaces
      <3> QED
        BY <3>2 DEF Load, Process, ArchiveInsert, tables
    <2>5. ASSUME at'[t] = "interrupt", pool, JobOf[a] \notin ran, jobStatus[JobOf[a]] # Gone
          PROVE  atomStatus'[a] # NoRow
      <3>1. ProcessFails(t) \/ ArchiveRefused(t)
        BY <1>1, <2>5, ThreadGoes
      <3>2. CASE ProcessFails(t)
        BY <2>2, <2>5, <3>2 DEF ProcessFails, tables, NoRow
      <3>3. CASE ArchiveRefused(t)
        BY <1>4, <3>3 DEF ArchiveRefused, CanArchive, tables
      <3> QED
        BY <3>1, <3>2, <3>3
    <2> QED
      BY <1>1, <1>3, <1>4, <1>6, <2>2, <2>3, <2>4, <2>5
  <1> QED
    BY <1>7, <1>8

\* An atom in the hands of a thread is one that counts, when the thread is to process it.
LEMMA WorkCounts ==
  ASSUME CountInv, faults = 0, NEW t \in Worker, NEW j \in Job, job[t] = j, Undamaged(j)
  PROVE  /\ at[t] \in {"process", "archive", "delete"} => atom[t] \in OpenAtoms(j)
         /\ at[t] = "interrupt" /\ pool => atom[t] \in AtomsOf(j) /\ atomStatus[atom[t]] # NoRow
  <1>1. TypeInv /\ Instances /\ InstanceKept /\ AtWork /\ atom \in [Worker -> Atom \cup {None}]
    BY DEF CountInv, CopiesInv, HeldInv, TypeInv, TypeOK, DispatchTypeOK
  <1> SUFFICES ASSUME at[t] \in {"process", "archive", "delete", "interrupt"}
               PROVE  /\ at[t] # "interrupt" => atom[t] \in OpenAtoms(j)
                      /\ at[t] = "interrupt" /\ pool => atom[t] \in AtomsOf(j) /\ atomStatus[atom[t]] # NoRow
    OBVIOUS
  <1>2. atom[t] \in Atom /\ JobOf[atom[t]] = j
    BY <1>1 DEF TypeInv, Placed, Instances, InstanceKept
  <1>3. /\ at[t] # "interrupt" => atomStatus[atom[t]] = "running"
        /\ at[t] = "interrupt" /\ pool => atomStatus[atom[t]] # NoRow
    BY <1>1, <1>2 DEF AtWork, Undamaged, Idle
  <1> QED
    BY <1>2, <1>3 DEF OpenAtoms, AtomsOf, Open

\* A step of the thread does not make whole what was interrupted.
LEMMA DamageStays ==
  ASSUME CountInv, TypeInv', JobsKept, NEW t \in Worker, Threads(t), faults' = 0, ran' = ran,
         NEW j \in Job, job[t] = j, Undamaged(j)'
  PROVE  Undamaged(j)
  <1>1. /\ TypeInv /\ faults = 0 /\ Fresh /\ AtWork /\ Instances
        /\ atom \in [Worker -> Atom \cup {None}]
    BY ThreadWorks DEF CountInv, CopiesInv, HeldInv, TypeInv, TypeOK, DispatchTypeOK
  <1>2. j \notin ran /\ jobStatus[j] # Gone
    BY <1>1, GoneStays DEF Undamaged
  <1>3. ASSUME NEW a \in AtomsOf(j) PROVE atomStatus[a] # "interrupted"
    <2>1. a \in Atom /\ JobOf[a] = j /\ atomStatus'[a] # "interrupted"
      BY <1>3 DEF AtomsOf, Undamaged
    <2>2. CASE Mark(t) /\ atom[t] = a
      <3>1. Waiting(a)
        BY <2>2 DEF Mark, Waiting
      <3> QED
        BY <1>1, <1>2, <2>1, <3>1 DEF Fresh, NoRow
    <2>3. CASE ArchiveDelete(t) /\ atom[t] = a
      BY <1>1, <1>2, <2>1, <2>3 DEF AtWork, ArchiveDelete, Idle
    <2>4. CASE Interrupt(t) /\ atom[t] = a
      BY <2>1, <2>4 DEF Interrupt, UpdateAtoms, NoRow
    <2>5. CASE atomStatus'[a] = atomStatus[a]
      BY <2>1, <2>5
    <2> QED
      BY <1>1, <2>1, <2>2, <2>3, <2>4, <2>5, ThreadRowOnly
  <1> QED
    BY <1>2, <1>3 DEF Undamaged

\* The thread counts what it sends, and nothing else.
LEMMA ThreadExact ==
  ASSUME CountInv, TypeInv', JobsKept, NEW t \in Worker, Threads(t), faults' = 0, ran' = ran,
         \A u \in Worker : u = t
  PROVE  Exact'
  <1> SUFFICES ASSUME NEW j, j = job'[t], j # None, Undamaged(j)', at'[t] # "interrupt",
                      pool' \/ at'[t] = "finish"
               PROVE  pending'[t] = Cardinality(OpenAtoms(j)' \ Leaving(t)')
    BY DEF Exact, Undamaged, OpenAtoms, AtomsOf
  <1>1. /\ TypeInv /\ faults = 0 /\ ~MarkFails(t) /\ pool' = pool /\ Exact /\ Instances
        /\ (ArchivingFails(t) \/ InterruptFails(t) => ~pool)
        /\ at \in [Worker -> Place] /\ atom \in [Worker -> Atom \cup {None}]
        /\ job \in [Worker -> Job \cup {None}] /\ pending \in [Worker -> Int]
    BY ThreadWorks DEF CountInv, CopiesInv, HeldInv, TypeInv, TypeOK, DispatchTypeOK
  <1>2. j \in Job
    BY DEF TypeInv, TypeOK, DispatchTypeOK
  <1>3. pool /\ at'[t] # "dead"
    <2>1. at'[t] = "finish" => pool
      BY <1>1, ThreadPlaces DEF ArchiveDelete
    <2>2. at'[t] # "dead"
      BY <1>1, ThreadGoes
    <2> QED
      BY <1>1, <2>1, <2>2
  <1>4. CASE Load(t) /\ job[t] # JobOf[atom[t]]
    <2>1. pending'[t] = Cardinality(OpenAtoms(j)) /\ at'[t] = "process" /\ UNCHANGED tables
      BY <1>1, <1>4 DEF Load, Goto
    <2>2. OpenAtoms(j)' = OpenAtoms(j) /\ Leaving(t)' = {}
      BY <2>1 DEF OpenAtoms, AtomsOf, Leaving, tables
    <2> QED
      BY <2>1, <2>2
  <1>5. CASE ~(Load(t) /\ job[t] # JobOf[atom[t]])
    <2>1. job[t] = j
      BY <1>1, <1>5, ThreadGoes DEF Load
    <2>2. Undamaged(j)
      BY <1>2, <2>1, DamageStays
    <2>3. /\ at[t] \in {"process", "archive", "delete"} => atom[t] \in OpenAtoms(j)
          /\ at[t] = "interrupt" => atom[t] \in AtomsOf(j) /\ atomStatus[atom[t]] # NoRow
      BY <1>1, <1>2, <1>3, <2>1, <2>2, WorkCounts
    <2>4. at[t] # "interrupt"
      <3> SUFFICES ASSUME at[t] = "interrupt" PROVE FALSE
        OBVIOUS
      <3>1. Interrupt(t)
        BY <1>1, <1>3 DEF Threads, WorkerStep, WorkerFault, Begin, LeaveHalted, Pop, PopNothing, Mark,
             Load, Process, ProcessFails, ArchiveInsert, ArchiveRefused, ArchiveDelete, Finish,
             MarkFindsNoConnection, LoadFails, ArchivingFails, InterruptFindsNoConnection
      <3>2. PICK a \in Atom : a = atom[t] /\ JobOf[a] = j /\ atomStatus[a] # NoRow
        BY <2>3 DEF AtomsOf
      <3>3. atomStatus'[a] = "interrupted"
        BY <3>1, <3>2 DEF Interrupt, UpdateAtoms
      <3> QED
        BY <3>2, <3>3 DEF Undamaged, AtomsOf
    <2>5. pending[t] = Cardinality(OpenAtoms(j) \ Leaving(t)) /\ j # None
      BY <1>1, <1>3, <2>1, <2>2, <2>4 DEF Exact
    <2>6. ASSUME UNCHANGED atomStatus PROVE OpenAtoms(j)' = OpenAtoms(j)
      BY <2>6 DEF OpenAtoms, AtomsOf
    <2>7. CASE Pop(t) \/ Load(t) \/ Begin(t)
      <3>1. /\ UNCHANGED atomStatus /\ pending'[t] = pending[t]
            /\ at[t] \notin {"archive", "delete"} /\ at'[t] \notin {"archive", "delete"}
        BY <1>1, <1>5, <2>7 DEF Pop, Load, Begin, Goto, tables
      <3> QED
        BY <2>5, <2>6, <3>1 DEF Leaving
    <2>8. CASE Mark(t)
      <3>1. /\ pending'[t] = pending[t] /\ at[t] = "mark" /\ at'[t] = "load"
            /\ UpdateAtoms({atom[t]}, "running")
        BY <1>1, <2>8 DEF Mark, Goto
      <3>2. ASSUME NEW a \in AtomsOf(j) PROVE atomStatus'[a] \in Open <=> atomStatus[a] \in Open
        <4>1. a \in Atom /\ JobOf[a] = j /\ j \notin ran
          BY <2>2, <3>2 DEF AtomsOf, Undamaged
        <4>2. a = atom[t] => atomStatus[a] \in {NoRow, "pending", "running"}
          BY <1>1, <3>1, <4>1 DEF CountInv, Fresh, Waiting
        <4> QED
          BY <3>1, <4>1, <4>2 DEF UpdateAtoms, Open, NoRow
      <3>3. OpenAtoms(j)' = OpenAtoms(j)
        BY <3>2 DEF OpenAtoms, AtomsOf
      <3> QED
        BY <2>5, <3>1, <3>3 DEF Leaving
    <2>9. CASE Process(t)
      <3>1. /\ UNCHANGED atomStatus /\ pending'[t] = pending[t] - 1 /\ atom'[t] = atom[t]
            /\ at[t] = "process" /\ at'[t] = "archive"
        BY <1>1, <2>9 DEF Process, Goto, tables
      <3>2. Leaving(t) = {} /\ Leaving(t)' = {atom[t]}
        BY <3>1 DEF Leaving
      <3>3. OpenAtoms(j) \subseteq Atom /\ atom[t] \in OpenAtoms(j)
        BY <2>3, <3>1 DEF OpenAtoms, AtomsOf
      <3>4. Cardinality(OpenAtoms(j) \ {atom[t]}) = Cardinality(OpenAtoms(j)) - 1
        BY <3>3, CountWithout
      <3>5. OpenAtoms(j) \ {} = OpenAtoms(j)
        OBVIOUS
      <3> QED
        BY <2>5, <2>6, <3>1, <3>2, <3>4, <3>5
    <2>10. CASE ArchiveInsert(t)
      <3>1. /\ UNCHANGED atomStatus /\ pending'[t] = pending[t] /\ atom'[t] = atom[t]
            /\ at[t] = "archive" /\ at'[t] = "delete"
        BY <1>1, <2>10 DEF ArchiveInsert, Goto
      <3> QED
        BY <2>5, <2>6, <3>1 DEF Leaving
    <2>11. CASE ArchiveDelete(t)
      <3>1. /\ pending'[t] = pending[t] /\ at[t] = "delete" /\ at'[t] = "finish"
            /\ DeleteAtoms({atom[t]})
        BY <1>1, <2>11 DEF ArchiveDelete, Goto
      <3>2. PICK b : b = atom[t]
        OBVIOUS
      <3>3. OpenAtoms(j)' = OpenAtoms(j) \ {b}
        BY <3>1, <3>2 DEF DeleteAtoms, OpenAtoms, AtomsOf, Open, NoRow
      <3>4. Leaving(t) = {b} /\ Leaving(t)' = {}
        BY <3>1, <3>2 DEF Leaving
      <3>5. (OpenAtoms(j) \ {b}) \ {} = OpenAtoms(j) \ {b}
        OBVIOUS
      <3> QED
        BY <2>5, <3>1, <3>3, <3>4, <3>5
    <2>12. CASE Finish(t)
      <3>1. /\ UNCHANGED atomStatus /\ pending'[t] = pending[t]
            /\ at[t] = "finish" /\ at'[t] = "loop"
        BY <1>1, <2>12 DEF Finish, NextRound, Goto
      <3> QED
        BY <2>5, <2>6, <3>1 DEF Leaving
    <2> QED
      BY <1>1, <1>3, <2>4, <2>7, <2>8, <2>9, <2>10, <2>11, <2>12
         DEF Threads, WorkerStep, WorkerFault, LeaveHalted, PopNothing, ProcessFails, ArchiveRefused,
             Interrupt, MarkFindsNoConnection, LoadFails, ArchivingFails, InterruptFails,
             InterruptFindsNoConnection, Exit, Goto
  <1> QED
    BY <1>4, <1>5

\* Each step of the only thread keeps the count.
LEMMA CountThread ==
  ASSUME CountInv, CopiesInv', GivenInv', JobsKept, ran' = ran, Alone, NEW t \in Worker, Threads(t)
  PROVE  CountInv'
  <1>1. /\ TypeInv /\ TypeInv' /\ InTurns /\ Instances /\ InstanceKept /\ \A u \in Worker : u = t
        /\ at \in [Worker -> Place] /\ atom \in [Worker -> Atom \cup {None}]
        /\ job \in [Worker -> Job \cup {None}] /\ job'[t] \in Job \cup {None} /\ None \notin Job
    BY AtomDispatchAssumption DEF CountInv, CopiesInv, HeldInv, Alone, TypeInv, TypeOK, DispatchTypeOK
  <1>2. ASSUME faults' = 0 PROVE Marked' /\ Fresh' /\ AtWork' /\ Exact'
    BY <1>1, <1>2, ThreadWorks, ThreadFresh, ThreadAtWork, ThreadExact
  <1>3. InTurns'
    <2>1. daemon' = daemon
      BY DEF Threads, daemonVars
    <2> QED
      BY <1>1, <2>1, ThreadGoes DEF InTurns
  <1>4. ASSUME at'[t] \in {"process", "archive", "delete", "finish"} PROVE job'[t] = JobOf[atom'[t]]
    <2>1. Load(t) \/ Process(t) \/ ArchiveInsert(t) \/ ArchiveDelete(t)
      BY <1>1, <1>4, ThreadGoes, ThreadPlaces
    <2>2. Load(t) => job'[t] = JobOf[atom[t]] /\ atom' = atom
      BY <1>1 DEF Load
    <2>3. ~Load(t) => at[t] \in {"process", "archive", "delete"} /\ UNCHANGED <<job, atom>>
      BY <2>1 DEF Process, ArchiveInsert, ArchiveDelete
    <2> QED
      BY <1>1, <2>2, <2>3 DEF Instances
  <1>5. ASSUME job'[t] # None PROVE jobStatus'[job'[t]] # NoRow
    <2>1. jobStatus[job'[t]] # NoRow
      <3>1. CASE job'[t] = job[t]
        BY <1>1, <1>5, <3>1 DEF Instances
      <3>2. CASE job'[t] # job[t]
        <4>1. HasRow(job'[t])
          <5>1. PICK j : j = JobOf[atom[t]]
            OBVIOUS
          <5>2. job'[t] = j /\ HasRow(j)
            BY <1>1, <1>5, <3>2, <5>1, ThreadGoes DEF Load
          <5> QED
            BY <5>2 DEF HasRow
        <4> QED
          BY <4>1 DEF HasRow, Status, NoRow
      <3> QED
        BY <3>1, <3>2
    <2> QED
      BY <1>1, <1>5, <2>1 DEF JobsKept
  <1>6. Instances'
    <2>1. at'[t] \in {"dead", "begin"} => job'[t] = None
      BY <1>1, ThreadGoes
    <2> QED
      BY <1>1, <1>4, <1>5, <2>1 DEF Instances
  <1>7. ASSUME at'[t] = "interrupt" PROVE job'[t] = JobOf[atom'[t]]
    <2>1. ProcessFails(t) \/ ArchiveRefused(t) \/ ArchivingFails(t)
      BY <1>1, <1>7, ThreadGoes
    <2>2. at[t] \in {"process", "archive", "delete", "finish"} /\ UNCHANGED <<job, atom>>
      BY <2>1 DEF ProcessFails, ArchiveRefused, ArchivingFails
    <2> QED
      BY <1>1, <2>2 DEF Instances
  <1>8. InstanceKept'
    BY <1>1, <1>7 DEF InstanceKept
  <1> QED
    BY <1>2, <1>3, <1>6, <1>8 DEF CountInv

LEMMA CountInit == ExecutorInit => CountInv
  <1> SUFFICES ASSUME ExecutorInit PROVE CountInv
    OBVIOUS
  <1>1. /\ exec = NoExecutor /\ ran = {} /\ queue = <<>> /\ daemon = "off"
        /\ \A t \in Worker : at[t] = "dead" /\ atom[t] = None /\ job[t] = None
        /\ \A a \in Atom : atomStatus[a] = NoRow /\ archived[a] = NoRow
    BY DEF ExecutorInit, Init, DispatchInit, TablesInit
  <1>2. GivenInv
    BY <1>1 DEF GivenInv, NoExecutor
  <1>3. InTurns /\ Instances /\ InstanceKept
    BY <1>1 DEF InTurns, Instances, InstanceKept
  <1>4. Marked /\ AtWork /\ Exact
    BY <1>1 DEF Marked, AtWork, Exact, Idle
  <1>5. Fresh
    BY <1>1 DEF Fresh, Waiting, Queued, ToFeed, NoRow
  <1> QED
    BY <1>2, <1>3, <1>4, <1>5, CopiesInit DEF CountInv

LEMMA CountStep == ASSUME CountInv, Alone, [ExecutorNext]_xvars PROVE CountInv'
  <1>1. CopiesInv /\ HeldInv /\ TypeInv /\ GivenInv /\ Calm /\ abort = NoAbort /\ Unaborted
    BY DEF CountInv, CopiesInv, HeldInv, Undisturbed, Alone, Calm, Unaborted
  <1>2. CopiesInv'
    BY <1>1, CopiesStep
  <1>3. ASSUME [Next]_vars, UNCHANGED <<exec, runs, ran>> PROVE CountInv'
    <2>1. JobsKept /\ RowsKept
      BY <1>1, <1>3, NextKeepsJobs, NextKeepsRows
    <2>2. GivenInv'
      <3>1. PICK b : b = exec.atom
        OBVIOUS
      <3> QED
        BY <1>1, <1>3, <3>1 DEF GivenInv
    <2> QED
      BY <1>2, <1>3, <2>1, <2>2, CountThread, CountDaemon, CountOther, CountProcess DEF Next
  <1>4. CASE UNCHANGED xvars
    BY <1>3, <1>4 DEF xvars
  <1> QED
    BY <1>2, <1>3, <1>4, CountExec DEF ExecutorNext

\* With one thread, each atom that its Job instance counts is still there to be
\* processed, whatever the executors do with other jobs, and whoever halts or dies.
THEOREM CountAlways == ASSUME Alone PROVE ExecutorSpec => []CountInv
  <1>1. ASSUME CountInv, [ExecutorNext]_xvars PROVE CountInv'
    BY <1>1, CountStep
  <1> QED
    BY <1>1, CountInit, PTL DEF ExecutorSpec

\* WorkerThread keeps its Job instance from one atom to the next and finishes the job
\* when the counter of that instance is zero.  With one thread, lists and second
\* messages apart, the counter is the number of atoms that the job has still to
\* process, for any number of jobs, atoms, executors and processes, until something
\* fails, an executor is given the job or the job is deleted.
THEOREM CountIsRight == ASSUME Alone PROVE ExecutorSpec => []CountBeside
  <1>1. ASSUME CountInv, NEW t \in Worker, at[t] = "finish", NEW j, j = job[t], j \notin ran, HasRow(j),
               faults = 0, \A a \in Atom : atomStatus[a] # "interrupted"
        PROVE  pending[t] = Cardinality(OpenAtoms(j))
    <2>1. TypeInv /\ Instances /\ Exact /\ None \notin Job /\ at[t] # "interrupt"
      BY <1>1, AtomDispatchAssumption DEF CountInv, CopiesInv, HeldInv
    <2>2. j # None
      <3>1. atom[t] \in Atom /\ j = JobOf[atom[t]]
        BY <1>1, <2>1 DEF TypeInv, Placed, TypeOK, DispatchTypeOK, Instances
      <3> QED
        BY <2>1, <3>1, JobTablesAssumption
    <2>3. Undamaged(j) /\ Leaving(t) = {}
      BY <1>1 DEF Undamaged, HasRow, Status, Gone, AtomsOf, Leaving
    <2>4. pending[t] = Cardinality(OpenAtoms(j) \ {})
      BY <1>1, <2>1, <2>2, <2>3 DEF Exact
    <2>5. OpenAtoms(j) \ {} = OpenAtoms(j)
      OBVIOUS
    <2> QED
      BY <2>4, <2>5
  <1>2. CountInv => CountBeside
    BY <1>1 DEF CountBeside, OpenAtoms, AtomsOf, HasRow
  <1> QED
    BY <1>2, CountAlways, PTL
=============================================================================
