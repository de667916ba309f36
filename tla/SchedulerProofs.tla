--------------------------- MODULE SchedulerProofs ---------------------------
(***************************************************************************)
(* Type correctness of SchedulerDaemon.                                    *)
(***************************************************************************)
EXTENDS SchedulerInvariants, FiniteSetTheorems, SequenceTheorems, TLAPS

\* The count that Job.load makes is a number.
LEMMA OpenAtomsCount == ASSUME NEW j PROVE Cardinality(OpenAtoms(j)) \in Nat
  <1>1. OpenAtoms(j) \subseteq Atom
    BY DEF OpenAtoms, AtomsOf
  <1> QED
    BY <1>1, JobTablesAssumption, FS_Subset, FS_CardinalityType

\* WorkerThreadPool.runningJobs returns jobs.
LEMMA RunningJobsType == RunningJobs \subseteq Job
  BY DEF RunningJobs

\* AtomQueue.remove leaves a queue of atoms.
LEMMA RemoveAtomsType ==
  ASSUME queue \in Seq(Atom), NEW j, RemoveAtoms(j)
  PROVE  queue' \in Seq(Atom)
  <1> DEFINE kept == {i \in DOMAIN queue : JobOf[queue[i]] # j}
  <1>1. PICK f \in [1 .. Cardinality(kept) -> kept] : queue' = [n \in DOMAIN f |-> queue[f[n]]]
    BY DEF RemoveAtoms
  <1>2. Cardinality(kept) \in Nat
    <2>1. IsFiniteSet(DOMAIN queue)
      <3>1. DOMAIN queue = 1 .. Len(queue) /\ Len(queue) \in Nat
        OBVIOUS
      <3> QED
        BY <3>1, FS_Interval
    <2> QED
      BY <2>1, FS_Subset, FS_CardinalityType
  <1>3. \A n \in 1 .. Cardinality(kept) : queue[f[n]] \in Atom
    <2> HIDE DEF kept
    <2>1. kept \subseteq DOMAIN queue
      BY DEF kept
    <2> QED
      BY <2>1
  <1> HIDE DEF kept
  <1> QED
    BY <1>1, <1>2, <1>3

\* Statements keep the types of the tables.
LEMMA UpdateJobType ==
  ASSUME TablesTypeOK, NEW j, NEW status \in Status, UpdateJob(j, status)
  PROVE  jobStatus' \in [Job -> Status \cup {NoRow, Gone}]
  BY DEF TablesTypeOK, UpdateJob

LEMMA UpdateJobsType ==
  ASSUME TablesTypeOK, NEW jobs, NEW status \in Status, UpdateJobs(jobs, status)
  PROVE  jobStatus' \in [Job -> Status \cup {NoRow, Gone}]
  BY DEF TablesTypeOK, UpdateJobs

LEMMA UpdateAtomsType ==
  ASSUME TablesTypeOK, NEW S, NEW status \in Status, UpdateAtoms(S, status)
  PROVE  atomStatus' \in [Atom -> Status \cup {NoRow}]
  BY DEF TablesTypeOK, UpdateAtoms

LEMMA DeleteAtomsType ==
  ASSUME TablesTypeOK, NEW S, DeleteAtoms(S)
  PROVE  atomStatus' \in [Atom -> Status \cup {NoRow}]
  BY DEF TablesTypeOK, DeleteAtoms

LEMMA ArchiveAtomsType ==
  ASSUME TablesTypeOK, NEW S, ArchiveAtoms(S)
  PROVE  archived' \in [Atom -> Status \cup {NoRow}]
  BY DEF TablesTypeOK, ArchiveAtoms

\* A thread that ends has nothing any more.
LEMMA ExitType ==
  ASSUME DispatchTypeOK, Placed, NEW t, Exit(t),
         UNCHANGED <<queue, pool, sent, faults, daemon, batch>>
  PROVE  DispatchTypeOK' /\ Placed'
  <1>1. at' \in [Worker -> Place] /\ atom' \in [Worker -> Atom \cup {None}]
    BY DEF DispatchTypeOK, Exit, Goto, Place
  <1>2. job' \in [Worker -> Job \cup {None}]
    BY DEF DispatchTypeOK, Exit
  <1>3. pending' \in [Worker -> Int]
    <2>1. \A u \in Worker : pending'[u] \in Int
      BY DEF DispatchTypeOK, Exit
    <2>2. pending' = [u \in Worker |-> pending'[u]]
      BY DEF DispatchTypeOK, Exit
    <2> QED
      BY <2>1, <2>2
  <1>4. halted' \in [Worker -> BOOLEAN]
    BY DEF DispatchTypeOK, Exit
  <1>5. Placed'
    BY DEF DispatchTypeOK, Placed, Exit, Goto
  <1> QED
    BY <1>1, <1>2, <1>3, <1>4, <1>5 DEF DispatchTypeOK
-----------------------------------------------------------------------------
\* Each step of a worker thread keeps the types.
LEMMA ThreadType == ASSUME TypeInv, NEW t \in Worker, Threads(t) PROVE TypeInv'
  <1>1. UNCHANGED <<daemonVars, callVars, events, starts>>
    BY DEF Threads
  <1>2. atom[t] \in Atom \/ at[t] \in {"dead", "begin", "loop"}
    BY DEF TypeInv, TypeOK, DispatchTypeOK, Placed
  <1> USE DEF TypeInv, TypeOK, TablesTypeOK, DispatchTypeOK, DaemonTypeOK, Placed, Place,
              Status, NoRow, Gone, HasRow, Goto, NextRound, Exit, tables, daemonVars, callVars
  <1>3. CASE Begin(t)
    BY <1>1, <1>3 DEF Begin
  <1>4. CASE LeaveHalted(t)
    BY <1>1, <1>4 DEF LeaveHalted
  <1>5. CASE Pop(t)
    <2>1. Head(queue) \in Atom /\ Tail(queue) \in Seq(Atom)
      BY <1>5 DEF Pop
    <2>2. Head(queue) # None
      BY <2>1, AtomDispatchAssumption
    <2> QED
      BY <1>1, <1>5, <2>1, <2>2 DEF Pop
  <1>6. CASE PopNothing(t)
    BY <1>1, <1>6 DEF PopNothing
  <1>7. CASE Mark(t)
    BY <1>1, <1>7 DEF Mark, UpdateAtoms
  <1>8. CASE Load(t)
    <2>1. atom[t] \in Atom /\ JobOf[atom[t]] \in Job
      BY <1>2, <1>8, JobTablesAssumption DEF Load
    <2>2. Cardinality(OpenAtoms(JobOf[atom[t]])) \in Int
      BY OpenAtomsCount
    <2>3. \/ UNCHANGED <<job, pending>>
          \/ /\ job' = [job EXCEPT ![t] = JobOf[atom[t]]]
             /\ pending' = [pending EXCEPT ![t] = Cardinality(OpenAtoms(JobOf[atom[t]]))]
      BY <1>8 DEF Load
    <2>4. at' = [at EXCEPT ![t] = "process"] /\ UNCHANGED <<tables, page, queue, atom, halted, pool, sent, faults>>
      BY <1>8 DEF Load
    <2>5. job' \in [Worker -> Job \cup {None}]
      BY <2>1, <2>3
    <2>6. pending' \in [Worker -> Int]
      BY <2>2, <2>3
    <2>7. at' \in [Worker -> Place] /\ \A u \in Worker : at'[u] \notin {"dead", "begin", "loop"} => atom'[u] # None
      BY <1>8, <2>4 DEF Load
    <2> QED
      BY <1>1, <2>4, <2>5, <2>6, <2>7
  <1>9. CASE Process(t)
    <2>1. sent' \in [Atom -> Nat] /\ pending' \in [Worker -> Int]
      BY <1>2, <1>9 DEF Process
    <2>2. at' = [at EXCEPT ![t] = "archive"] /\ UNCHANGED <<tables, page, queue, atom, job, halted, pool, faults>>
      BY <1>9 DEF Process
    <2>3. at' \in [Worker -> Place] /\ \A u \in Worker : at'[u] \notin {"dead", "begin", "loop"} => atom'[u] # None
      BY <1>9, <2>2 DEF Process
    <2> QED
      BY <1>1, <2>1, <2>2, <2>3
  <1>10. CASE ProcessFails(t)
    BY <1>1, <1>10 DEF ProcessFails
  <1>11. CASE ArchiveInsert(t)
    BY <1>1, <1>11 DEF ArchiveInsert, ArchiveAtoms
  <1>12. CASE ArchiveRefused(t)
    BY <1>1, <1>12 DEF ArchiveRefused
  <1>13. CASE ArchiveDelete(t)
    BY <1>1, <1>13 DEF ArchiveDelete, DeleteAtoms
  <1>14. CASE Finish(t)
    <2>1. jobStatus' \in [Job -> Status \cup {NoRow, Gone}]
      BY <1>14, UpdateJobType DEF Finish
    <2> QED
      BY <1>1, <1>14, <2>1 DEF Finish
  <1>15. CASE Interrupt(t)
    BY <1>1, <1>15 DEF Interrupt, UpdateAtoms
  <1>16. CASE MarkFails(t)
    BY <1>1, <1>16, AtomDispatchAssumption DEF MarkFails, DbFault
  <1>17. CASE MarkFindsNoConnection(t)
    BY <1>1, <1>17, AtomDispatchAssumption DEF MarkFindsNoConnection, DbFault
  <1>18. CASE LoadFails(t)
    BY <1>1, <1>18, AtomDispatchAssumption DEF LoadFails, DbFault
  <1>19. CASE ArchivingFails(t)
    BY <1>1, <1>19, AtomDispatchAssumption DEF ArchivingFails, DbFault
  <1>20. CASE InterruptFails(t)
    BY <1>1, <1>20, AtomDispatchAssumption DEF InterruptFails, DbFault
  <1>21. CASE InterruptFindsNoConnection(t)
    BY <1>1, <1>21 DEF InterruptFindsNoConnection
  <1> QED
    BY <1>3, <1>4, <1>5, <1>6, <1>7, <1>8, <1>9, <1>10, <1>11, <1>12, <1>13, <1>14, <1>15,
       <1>16, <1>17, <1>18, <1>19, <1>20, <1>21
       DEF Threads, WorkerStep, WorkerFault
-----------------------------------------------------------------------------
\* Each step of the daemon keeps the types.
LEMMA DaemonType == ASSUME TypeInv, DaemonStep \/ Fatal PROVE TypeInv'
  <1> USE SchedulerDaemonAssumption
      DEF TypeInv, TypeOK, TablesTypeOK, DispatchTypeOK, DaemonTypeOK, Placed, DaemonPlace,
          Place, Status, NoRow, Gone, Time, tables, dispatch, threads, daemonVars, callVars
  <1>1. CASE FinishSelect
    BY <1>1 DEF FinishSelect, Finished
  <1>2. ASSUME NEW j \in Job, FinishUpdate(j) PROVE TypeInv'
    BY <1>2 DEF FinishUpdate, UpdateJob
  <1>3. CASE Count
    BY <1>3 DEF Count
  <1>4. CASE LoadSelect
    BY <1>4 DEF LoadSelect
  <1>5. ASSUME NEW j \in Job, LoadInsert(j) PROVE TypeInv'
    BY <1>5 DEF LoadInsert, InsertAtoms
  <1>6. CASE LoadRun
    <2>1. jobStatus' \in [Job -> Status \cup {NoRow, Gone}]
      BY <1>6, UpdateJobType DEF LoadRun
    <2>2. jobTime' \in [Job -> Time]
      BY <1>6 DEF LoadRun
    <2> QED
      BY <1>6, <2>1, <2>2 DEF LoadRun
  <1>7. CASE LoadDone
    BY <1>7 DEF LoadDone
  <1>8. CASE FeedQuery
    BY <1>8 DEF FeedQuery
  <1>9. ASSUME NEW a \in Atom, FeedPush(a) PROVE TypeInv'
    BY <1>9 DEF FeedPush, Push
  <1>10. CASE FeedMark
    BY <1>10 DEF FeedMark, UpdateAtoms
  <1>11. CASE FeedDone
    BY <1>11 DEF FeedDone
  <1>12. ASSUME NEW t \in Worker, Launch(t) PROVE TypeInv'
    BY <1>12 DEF Launch, Alive
  <1>13. CASE LaunchDone
    BY <1>13 DEF LaunchDone
  <1>14. CASE Watch
    BY <1>14 DEF Watch
  <1>15. CASE Leave
    BY <1>15 DEF Leave
  <1>16. CASE Drain
    <2>1. Head(queue) \in Atom /\ Tail(queue) \in Seq(Atom) /\ JobOf[Head(queue)] \in Job
      BY <1>16, JobTablesAssumption DEF Drain
    <2> QED
      BY <1>16, <2>1 DEF Drain
  <1>17. CASE DrainDone
    BY <1>17 DEF DrainDone
  <1>18. ASSUME NEW j \in Job, ResetAtoms(j) PROVE TypeInv'
    BY <1>18 DEF ResetAtoms, UpdateAtoms
  <1>19. CASE ResetJob
    <2>1. jobStatus' \in [Job -> Status \cup {NoRow, Gone}]
      BY <1>19, UpdateJobType DEF ResetJob
    <2>2. jobTime' \in [Job -> Time]
      BY <1>19 DEF ResetJob
    <2> QED
      BY <1>19, <2>1, <2>2 DEF ResetJob
  <1>20. CASE ResetDone
    BY <1>20 DEF ResetDone
  <1>21. CASE Close
    BY <1>21 DEF Close
  <1>22. ASSUME faults' \in 0 .. MaxFaults, Abnormal PROVE TypeInv'
    <2>1. halted' \in [Worker -> BOOLEAN]
      BY <1>22 DEF Abnormal
    <2>2. daemon' \in {"off", "dead"}
      BY <1>22 DEF Abnormal
    <2>3. /\ pool' = FALSE /\ todo' = {} /\ current' = None /\ batch' = 0
          /\ UNCHANGED <<tables, page, queue, at, atom, job, pending, sent, bContinue,
                         callVars, events, starts>>
      BY <1>22 DEF Abnormal
    <2>4. TablesTypeOK' /\ DispatchTypeOK'
      BY <1>22, <2>1, <2>3
    <2>5. DaemonTypeOK'
      BY <2>2, <2>3
    <2>6. Placed'
      BY <2>2, <2>3
    <2> QED
      BY <2>4, <2>5, <2>6
  <1>23. ASSUME NEW j \in Job, LoadRefused(j) PROVE TypeInv'
    BY <1>22, <1>23 DEF LoadRefused
  <1>24. CASE Fatal
    BY <1>22, <1>24, AtomDispatchAssumption DEF Fatal, DbFault
  <1> QED
    BY <1>1, <1>2, <1>3, <1>4, <1>5, <1>6, <1>7, <1>8, <1>9, <1>10, <1>11, <1>12, <1>13,
       <1>14, <1>15, <1>16, <1>17, <1>18, <1>19, <1>20, <1>21, <1>23, <1>24
       DEF DaemonStep

\* Each step of abortJob keeps the types.
LEMMA AbortType ==
  ASSUME TypeInv, (\E j \in Job : AbortCall(j)) \/ AbortStep
  PROVE  TypeInv'
  <1> TablesTypeOK /\ abort \in AbortState
    BY DEF TypeInv, TypeOK, DaemonTypeOK
  <1> DEFINE tablesOK == /\ jobStatus' \in [Job -> Status \cup {NoRow, Gone}]
                         /\ atomStatus' \in [Atom -> Status \cup {NoRow}]
                         /\ archived' \in [Atom -> Status \cup {NoRow}]
  <1>0. tablesOK \/ ~UNCHANGED tables
    BY DEF TablesTypeOK, tables
  <1>1. ASSUME NEW j \in Job, AbortCall(j) PROVE TypeInv'
    <2>1. queue' \in Seq(Atom)
      BY <1>1, RemoveAtomsType DEF AbortCall, TypeInv, TypeOK, DispatchTypeOK
    <2>2. abort' \in AbortState
      BY <1>1 DEF AbortCall, TypeInv, TypeOK, DaemonTypeOK, AbortState
    <2>3. events' \in 0 .. MaxEvents
      BY <1>1, SchedulerDaemonAssumption DEF AbortCall, Event, TypeInv, TypeOK, DaemonTypeOK
    <2> QED
      BY <1>1, <2>1, <2>2, <2>3
         DEF AbortCall, TypeInv, TypeOK, TablesTypeOK, DispatchTypeOK, DaemonTypeOK, Placed,
             tables, threads, daemonVars
  <1>2. ASSUME NEW place, AbortAt(place), tablesOK, abort' \in AbortState PROVE TypeInv'
    BY <1>2 DEF AbortAt, TypeInv, TypeOK, TablesTypeOK, DispatchTypeOK, DaemonTypeOK, Placed,
                dispatch, threads, daemonVars
  <1>3. NoAbort \in AbortState
    BY DEF NoAbort, AbortState
  <1>4. CASE AbortCheck
    <2>1. abort' \in AbortState
      BY <1>3, <1>4 DEF AbortCheck, AbortState
    <2> QED
      BY <1>2, <1>4, <2>1 DEF AbortCheck, TablesTypeOK
  <1>5. CASE AbortAtoms
    <2>1. abort' \in AbortState
      BY <1>5 DEF AbortAtoms, AbortState
    <2>2. atomStatus' \in [Atom -> Status \cup {NoRow}]
      BY <1>5, UpdateAtomsType DEF Status, AbortAtoms
    <2> QED
      BY <1>2, <1>5, <2>1, <2>2 DEF AbortAtoms, TablesTypeOK
  <1>6. CASE AbortArchive
    <2>1. abort' \in AbortState
      BY <1>3, <1>6 DEF AbortArchive, AbortState
    <2>2. archived' \in [Atom -> Status \cup {NoRow}]
      BY <1>6, ArchiveAtomsType DEF AbortArchive, TablesTypeOK
    <2> QED
      BY <1>2, <1>6, <2>1, <2>2 DEF AbortArchive, TablesTypeOK
  <1>7. CASE AbortDelete
    <2>1. abort' \in AbortState
      BY <1>7 DEF AbortDelete, AbortState
    <2>2. atomStatus' \in [Atom -> Status \cup {NoRow}]
      BY <1>7, DeleteAtomsType DEF AbortDelete
    <2> QED
      BY <1>2, <1>7, <2>1, <2>2 DEF AbortDelete, TablesTypeOK
  <1>8. CASE AbortJobRow
    <2>1. jobStatus' \in [Job -> Status \cup {NoRow, Gone}]
      BY <1>8, UpdateJobType DEF Status, AbortJobRow
    <2> QED
      BY <1>2, <1>3, <1>8, <2>1 DEF AbortJobRow, TablesTypeOK
  <1>9. CASE AbortFails
    BY <1>3, <1>9, AtomDispatchAssumption
       DEF AbortFails, DbFault, TypeInv, TypeOK, TablesTypeOK, DispatchTypeOK, DaemonTypeOK,
           Placed, tables, threads, daemonVars
  <1> QED
    BY <1>1, <1>4, <1>5, <1>6, <1>7, <1>8, <1>9 DEF AbortStep

\* Each step of stopAll and haltAll keeps the types.
LEMMA StopType ==
  ASSUME TypeInv, StopCall \/ HaltCall \/ StopStep
  PROVE  TypeInv'
  <1> TablesTypeOK /\ stop \in StopState
    BY DEF TypeInv, TypeOK, DaemonTypeOK
  <1>0. NoStop \in StopState
    BY DEF NoStop, StopState
  <1> USE DEF TypeInv, TypeOK, DispatchTypeOK, DaemonTypeOK, Placed,
              dispatch, threads, daemonVars, StoppedUnchanged
  <1>1. CASE StopCall
    <2>1. stop' \in StopState
      BY <1>1 DEF StopCall, StopState
    <2>2. events' \in 0 .. MaxEvents
      BY <1>1, SchedulerDaemonAssumption DEF StopCall, Event
    <2> QED
      BY <1>1, <2>1, <2>2 DEF StopCall, TablesTypeOK, tables
  <1>2. CASE HaltCall
    <2>1. stop' \in StopState
      BY <1>2, RunningJobsType DEF HaltCall, StopState
    <2>2. events' \in 0 .. MaxEvents
      BY <1>2, SchedulerDaemonAssumption DEF HaltCall, Event
    <2> QED
      BY <1>2, <2>1, <2>2 DEF HaltCall, TablesTypeOK, tables
  <1>3. CASE StopWake
    <2>1. stop' \in StopState
      BY <1>0, <1>3 DEF StopWake, StopState
    <2> QED
      BY <1>3, <2>1 DEF StopWake, TablesTypeOK, tables
  <1>4. ASSUME NEW t \in Worker, StopMark(t) PROVE TypeInv'
    <2>1. stop' \in StopState
      BY <1>4 DEF StopMark, StopState
    <2>2. atomStatus' \in [Atom -> Status \cup {NoRow}]
      BY <1>4, UpdateAtomsType DEF Status, StopMark, TablesTypeOK
    <2> QED
      BY <1>4, <2>1, <2>2 DEF StopMark, TablesTypeOK
  <1>5. CASE StopKill
    <2>1. stop' \in StopState
      BY <1>5 DEF StopKill, StopState
    <2>2. CASE UNCHANGED threads
      BY <1>5, <2>1, <2>2 DEF StopKill, TablesTypeOK, tables
    <2>3. CASE Exit(stop.victim)
      <3>1. UNCHANGED <<tables, page, queue, pool, sent, faults, daemonVars, abort, toStop,
                        unbound, events, starts>>
        BY <1>5 DEF StopKill
      <3>2. DispatchTypeOK' /\ Placed'
        BY <2>3, <3>1, ExitType
      <3> QED
        BY <2>1, <3>1, <3>2 DEF TablesTypeOK, tables
    <2> QED
      BY <1>5, <2>2, <2>3 DEF StopKill
  <1>6. CASE StopClose
    <2>1. jobStatus' \in [Job -> Status \cup {NoRow, Gone}]
      BY <1>6, UpdateJobsType DEF Status, StopClose, TablesTypeOK
    <2> QED
      BY <1>0, <1>6, <2>1 DEF StopClose, TablesTypeOK
  <1>7. CASE StopFails
    BY <1>0, <1>7, AtomDispatchAssumption DEF StopFails, DbFault, TablesTypeOK, tables
  <1>8. CASE HaltClose
    <2>1. jobStatus' \in [Job -> Status \cup {NoRow, Gone}]
      BY <1>8, UpdateJobsType DEF Status, HaltClose, TablesTypeOK
    <2> QED
      BY <1>0, <1>8, <2>1 DEF HaltClose, TablesTypeOK
  <1> QED
    BY <1>1, <1>2, <1>3, <1>4, <1>5, <1>6, <1>7, <1>8 DEF StopStep

\* The start and the death of the process keep the types.
LEMMA ProcessType == ASSUME TypeInv, Start \/ Crash PROVE TypeInv'
  <1> USE SchedulerDaemonAssumption
      DEF TypeInv, TypeOK, TablesTypeOK, DispatchTypeOK, DaemonTypeOK, Placed, DaemonPlace,
          Place, tables, threads, NoAbort, NoStop, AbortState, StopState
  <1>1. CASE Start
    <2>1. starts' \in 0 .. MaxStarts
      BY <1>1 DEF Start
    <2>2. daemon' = "select" /\ bContinue' = TRUE /\ pool' = TRUE /\ unbound' = FALSE
      BY <1>1 DEF Start
    <2>3. queue' = <<>> /\ todo' = {} /\ current' = None /\ batch' = 0
      BY <1>1 DEF Start
    <2>4. UNCHANGED <<tables, page, threads, sent, faults, abort, stop, toStop, events>>
      BY <1>1 DEF Start
    <2>5. TablesTypeOK' /\ DispatchTypeOK'
      BY <2>2, <2>3, <2>4
    <2>6. DaemonTypeOK'
      <3>1. UNCHANGED <<abort, stop, toStop, events>>
        BY <2>4
      <3>2. daemon' \in DaemonPlace
        BY <2>2
      <3>3. bContinue' \in BOOLEAN /\ unbound' \in BOOLEAN
        BY <2>2
      <3>4. todo' \in SUBSET (Job \cup Atom \cup Worker) /\ current' \in Job \cup Atom \cup {None}
        BY <2>3
      <3>5. batch' \in 0 .. MaxBatch
        BY <2>3
      <3> QED
        BY <2>1, <3>1, <3>2, <3>3, <3>4, <3>5
    <2>7. Placed'
      BY <2>2, <2>4
    <2> QED
      BY <2>5, <2>6, <2>7
  <1>2. CASE Crash
    BY <1>2 DEF Crash, Event
  <1> QED
    BY <1>1, <1>2

\* Each web page, and the clock, keep the types.
LEMMA WebType == ASSUME TypeInv, Web PROVE TypeInv'
  <1> USE DEF TypeInv, TypeOK, TablesTypeOK, DispatchTypeOK, DaemonTypeOK, Placed
  <1>1. UNCHANGED <<dispatch, daemonVars, callVars, starts>>
    BY DEF Web
  <1>2. ASSUME TablesTypeOK', events' \in 0 .. MaxEvents PROVE TypeInv'
    BY <1>1, <1>2 DEF dispatch, threads, daemonVars, callVars
  <1>3. events' \in 0 .. MaxEvents
    BY SchedulerDaemonAssumption DEF Web, Created, WebEvent, Event
  <1> USE DEF Status, Time, NoRow, Gone, HasRow, tables
  <1>4. CASE Created
    <2>1. Times \subseteq Time
      BY DEF Times
    <2>2. ASSUME NEW j \in Job, NEW time \in Times, SendMail(j, time) PROVE TablesTypeOK'
      BY <2>1, <2>2 DEF SendMail, InsertAtoms
    <2>3. ASSUME NEW j \in Job, NEW time \in Times, CreateListJob(j, time) PROVE TablesTypeOK'
      BY <2>1, <2>3 DEF CreateListJob
    <2>4. ASSUME NEW j \in Job, TimePasses(j) PROVE TablesTypeOK'
      BY <2>4 DEF TimePasses
    <2> QED
      BY <1>2, <1>3, <1>4, <2>2, <2>3, <2>4 DEF Created
  <1>5. ASSUME NEW j \in Job, AddRecipients(j) PROVE TablesTypeOK'
    BY <1>5 DEF AddRecipients, InsertAtoms
  <1>6. ASSUME NEW j \in Job, NEW status \in Status, ViewAtoms(j, status) PROVE TablesTypeOK'
    BY <1>6 DEF ViewAtoms, AtomsOf
  <1>7. ASSUME NEW j \in Job, NEW S, SuspendAtoms(S) PROVE TablesTypeOK'
    BY <1>7 DEF SuspendAtoms, UpdateAtoms
  <1>8. ASSUME NEW j \in Job, NEW S, RetryAtoms(j, S) PROVE TablesTypeOK'
    BY <1>8 DEF RetryAtoms, UpdateAtoms, UpdateJob
  <1>9. ASSUME NEW j \in Job, RecycleJob(j) PROVE TablesTypeOK'
    BY <1>9 DEF RecycleJob, UpdateAtoms, UpdateJob
  <1>10. ASSUME NEW j \in Job, DeleteJob(j) PROVE TablesTypeOK'
    BY <1>10 DEF DeleteJob, DeleteAtoms
  <1>11. ASSUME NEW j \in Job, NEW time \in Time, DelayJob(j, time) PROVE TablesTypeOK'
    BY <1>11 DEF DelayJob
  <1>12. CASE WebEvent
    BY <1>2, <1>3, <1>5, <1>6, <1>7, <1>8, <1>9, <1>10, <1>11, <1>12 DEF WebEvent
  <1> QED
    BY <1>4, <1>12 DEF Web
-----------------------------------------------------------------------------
\* The types are inductive, with what Placed adds to them.
LEMMA TypeInit == Init => TypeInv
  BY SchedulerDaemonAssumption, AtomDispatchAssumption
     DEF Init, TablesInit, DispatchInit, TypeInv, TypeOK, TablesTypeOK, DispatchTypeOK,
         DaemonTypeOK, Placed, DaemonPlace, Place, Time, NoAbort, NoStop, AbortState, StopState

LEMMA TypeStep == ASSUME TypeInv, [Next]_vars PROVE TypeInv'
  <1>1. CASE UNCHANGED vars
    BY <1>1 DEF vars, tables, dispatch, threads, daemonVars, callVars, TypeInv, TypeOK,
                TablesTypeOK, DispatchTypeOK, DaemonTypeOK, Placed
  <1> QED
    BY <1>1, ThreadType, DaemonType, AbortType, StopType, ProcessType, WebType DEF Next

\* All the variables keep their types: no thread works on an atom that it does
\* not have, no counter leaves its range, the batch of the feeder keeps its bound.
THEOREM TypeCorrect == Spec => []TypeOK
  <1>1. TypeInv => TypeOK
    BY DEF TypeInv
  <1> QED
    BY <1>1, TypeInit, TypeStep, PTL DEF Spec
=============================================================================
