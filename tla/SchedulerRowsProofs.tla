------------------------- MODULE SchedulerRowsProofs -------------------------
(***************************************************************************)
(* What becomes of the rows of atoms and jobs: an atom is in one place,    *)
(* what is archived was sent, no row is lost, an aborted or a finished job *)
(* has nothing left, a running row has somebody who works on it; and the   *)
(* scheduler implements Mailing.                                           *)
(***************************************************************************)
EXTENDS SchedulerOnceProofs

\* A key that is used stays used.
KeysKept == \A a \in Atom : (Known(a) => Known(a)') /\ (Moved(a) => Moved(a)')

\* What memory has of atoms gets less, and the archive too.
Wanes ==
  /\ \A i \in DOMAIN queue' : \E k \in DOMAIN queue : queue'[i] = queue[k]
  /\ \A t \in Worker : at'[t] \notin Idle => at'[t] = at[t] /\ atom'[t] = atom[t]
  /\ sent' = sent
  /\ \A a \in Atom : archived'[a] # NoRow => archived[a] # NoRow
-----------------------------------------------------------------------------
(* Where the steps of each actor lead.                                     *)

LEMMA ThreadPlaces ==
  ASSUME TypeInv, NEW t \in Worker, Threads(t)
  PROVE  /\ \A u \in Worker : u # t => at'[u] = at[u] /\ atom'[u] = atom[u]
         /\ at'[t] \notin Idle => Pop(t) \/ (at[t] \notin Idle /\ atom'[t] = atom[t])
         /\ at'[t] = "archive" => Process(t)
         /\ at'[t] = "delete" => ArchiveInsert(t)
         /\ at'[t] = "finish" => ArchiveDelete(t)
         /\ sent' = sent \/ Process(t)
         /\ archived' = archived \/ ArchiveInsert(t)
         /\ queue' = queue \/ Pop(t)
  <1>1. at \in [Worker -> Place] /\ atom \in [Worker -> Atom \cup {None}]
    BY DEF TypeInv, TypeOK, DispatchTypeOK
  <1> USE <1>1 DEF Idle, Goto, NextRound, Exit, tables
  <1>2. CASE Begin(t) \/ LeaveHalted(t) \/ PopNothing(t) \/ Finish(t) \/ Interrupt(t)
    BY <1>2 DEF Begin, LeaveHalted, PopNothing, Finish, Interrupt
  <1>3. CASE Pop(t) \/ Process(t)
    BY <1>3 DEF Pop, Process
  <1>4. CASE Mark(t) \/ Load(t) \/ ProcessFails(t) \/ ArchiveInsert(t) \/ ArchiveRefused(t)
             \/ ArchiveDelete(t)
    BY <1>4 DEF Mark, Load, ProcessFails, ArchiveInsert, ArchiveRefused, ArchiveDelete
  <1>5. CASE WorkerFault(t)
    BY <1>5 DEF WorkerFault, MarkFails, MarkFindsNoConnection, LoadFails, ArchivingFails,
                InterruptFails, InterruptFindsNoConnection
  <1> QED
    BY <1>2, <1>3, <1>4, <1>5 DEF Threads, WorkerStep

LEMMA TailIsPart ==
  ASSUME queue \in Seq(Atom), queue # <<>>, queue' = Tail(queue)
  PROVE  \A i \in DOMAIN queue' : \E k \in DOMAIN queue : queue'[i] = queue[k]
  <1>1. /\ Len(queue) \in Nat \ {0} /\ DOMAIN queue = 1 .. Len(queue)
        /\ DOMAIN queue' = 1 .. Len(queue) - 1
        /\ \A i \in DOMAIN queue' : i + 1 \in DOMAIN queue /\ queue'[i] = queue[i + 1]
    OBVIOUS
  <1> QED
    BY <1>1

LEMMA DaemonPlaces ==
  ASSUME TypeInv, DaemonStep \/ Fatal
  PROVE  /\ Wanes \/ \E a \in Atom : FeedPush(a)
         /\ UNCHANGED <<archived, atom, job, pending, sent, callVars, bContinue>> \/ Close
         /\ UNCHANGED <<archived, atom, job, pending, sent, abort, stop, bContinue>>
         /\ \A t \in Worker : at'[t] = at[t] \/ (at[t] = "dead" /\ at'[t] = "begin")
  <1>1. at \in [Worker -> Place] /\ queue \in Seq(Atom)
    BY DEF TypeInv, TypeOK, DispatchTypeOK
  <1>2. ASSUME UNCHANGED <<queue, at, atom, sent, archived>> PROVE Wanes
    BY <1>2 DEF Wanes
  <1>3. ASSUME NEW t \in Worker, Launch(t)
        PROVE  /\ Wanes /\ UNCHANGED <<archived, atom, job, pending, sent, callVars, bContinue>>
               /\ UNCHANGED <<abort, stop>>
               /\ \A u \in Worker : at'[u] = at[u] \/ (at[u] = "dead" /\ at'[u] = "begin")
    BY <1>1, <1>3 DEF Launch, Alive, Wanes, Idle, tables, callVars
  <1>4. CASE Drain
    BY <1>1, <1>4, TailIsPart DEF Drain, Wanes, tables, threads, callVars
  <1>5. ASSUME NEW a \in Atom, FeedPush(a)
        PROVE  /\ UNCHANGED <<archived, at, atom, job, pending, sent, callVars, bContinue>>
               /\ UNCHANGED <<abort, stop>>
    BY <1>5 DEF FeedPush, tables, threads, callVars
  <1> USE DEF tables, dispatch, threads, callVars
  <1>6. CASE FinishSelect \/ Count \/ LoadSelect \/ LoadRun \/ LoadDone \/ FeedQuery \/ FeedMark
             \/ FeedDone \/ LaunchDone \/ Watch \/ Leave \/ DrainDone \/ ResetJob \/ ResetDone
    BY <1>2, <1>6 DEF FinishSelect, Count, LoadSelect, LoadRun, LoadDone, FeedQuery, FeedMark,
            FeedDone, LaunchDone, Watch, Leave, DrainDone, ResetJob, ResetDone
  <1>7. CASE Close \/ Fatal
    BY <1>2, <1>7 DEF Close, Fatal, Abnormal
  <1>8. ASSUME NEW j \in Job, FinishUpdate(j) \/ LoadInsert(j) \/ LoadRefused(j) \/ ResetAtoms(j)
        PROVE  /\ Wanes /\ UNCHANGED <<archived, at, atom, job, pending, sent, callVars, bContinue>>
               /\ UNCHANGED <<abort, stop>>
    BY <1>2, <1>8 DEF FinishUpdate, LoadInsert, LoadRefused, ResetAtoms, Abnormal
  <1> QED
    BY <1>3, <1>4, <1>5, <1>6, <1>7, <1>8 DEF DaemonStep

\* The rest of the steps take no atom up, whatever they write in the rows.
LEMMA OtherPlaces ==
  ASSUME TypeInv, Start \/ Crash \/ Web \/ StopCall \/ HaltCall \/ StopStep
  PROVE  /\ Wanes
         /\ abort' = abort \/ abort' = NoAbort
         /\ daemon' = daemon \/ daemon' \in {"select", "off"}
         /\ todo' = todo \/ todo' = {}
  <1>1. at \in [Worker -> Place] /\ atom \in [Worker -> Atom \cup {None}]
    BY DEF TypeInv, TypeOK, DispatchTypeOK
  <1>2. CASE Start
    BY <1>2 DEF Start, Wanes, tables, threads
  <1>3. CASE Crash
    BY <1>3 DEF Crash, Wanes, Idle, tables
  <1>4. CASE Web
    <2>1. UNCHANGED <<queue, at, atom, sent, abort, daemon, todo>>
      BY <1>4 DEF Web, dispatch, threads, daemonVars, callVars
    <2>2. \A a \in Atom : archived'[a] # NoRow => archived[a] # NoRow
      BY <1>4 DEF Web, Created, WebEvent, SendMail, CreateListJob, TimePasses, AddRecipients,
                  ViewAtoms, SuspendAtoms, RetryAtoms, RecycleJob, DelayJob, DeleteJob, tables
    <2> QED
      BY <2>1, <2>2 DEF Wanes
  <1>5. CASE StopCall \/ HaltCall
    BY <1>5 DEF StopCall, HaltCall, Wanes, tables, dispatch, threads, daemonVars, StoppedUnchanged
  <1>6. CASE StopKill
    <2>1. UNCHANGED <<queue, archived, sent, daemon, todo, abort>>
      BY <1>6 DEF StopKill, tables, daemonVars, StoppedUnchanged
    <2>2. \A t \in Worker : at'[t] \notin Idle => at'[t] = at[t] /\ atom'[t] = atom[t]
      BY <1>1, <1>6 DEF StopKill, Exit, Goto, threads, Idle
    <2> QED
      BY <2>1, <2>2 DEF Wanes
  <1>7. CASE StopWake \/ (\E t \in Worker : StopMark(t)) \/ StopClose \/ StopFails \/ HaltClose
    BY <1>7 DEF StopWake, StopMark, StopClose, StopFails, HaltClose, Wanes, tables, dispatch,
                threads, daemonVars, StoppedUnchanged
  <1> QED
    BY <1>2, <1>3, <1>4, <1>5, <1>6, <1>7 DEF StopStep
-----------------------------------------------------------------------------
(* No row is lost                                                          *)

LEMMA KeptIsKept == ASSUME RowsKept PROVE KeysKept
  BY DEF RowsKept, KeysKept

LEMMA UpdateKeepsKeys ==
  ASSUME TablesTypeOK, NEW S, NEW status \in Status, UpdateAtoms(S, status),
         \A j \in Job : jobStatus[j] = Gone => jobStatus'[j] = Gone, UNCHANGED archived
  PROVE  KeysKept
  BY JobTablesAssumption DEF UpdateAtoms, KeysKept, Known, Moved, Status, NoRow

LEMMA UpdateJobsKeepsGone ==
  ASSUME TablesTypeOK, NEW S, NEW status, UpdateJobs(S, status) \/ (\E j \in Job : UpdateJob(j, status))
  PROVE  \A j \in Job : jobStatus[j] = Gone => jobStatus'[j] = Gone
  BY DEF TablesTypeOK, UpdateJobs, UpdateJob, HasRow, Status, Gone

LEMMA JobsKeepKeys ==
  ASSUME UNCHANGED <<atomStatus, archived>>,
         \A j \in Job : jobStatus[j] = Gone => jobStatus'[j] = Gone
  PROVE  KeysKept
  BY JobTablesAssumption DEF KeysKept, Known, Moved

LEMMA DaemonKeepsKeys == ASSUME TypeInv, DaemonStep \/ Fatal PROVE KeysKept
  <1>1. TablesTypeOK
    BY DEF TypeInv, TypeOK
  <1>2. CASE daemon \notin {"reset", "resetJob"}
    BY <1>2, DaemonKeepsRows, KeptIsKept
  <1>3. ASSUME NEW j \in Job, ResetAtoms(j) PROVE KeysKept
    BY <1>1, <1>3, UpdateKeepsKeys DEF ResetAtoms, Status
  <1>4. CASE ResetJob
    BY <1>1, <1>4, UpdateJobKeepsRows, KeptIsKept DEF ResetJob
  <1>5. CASE (ResetDone \/ Fatal \/ \E j \in Job : LoadRefused(j)) /\ daemon \in {"reset", "resetJob"}
    BY <1>5, UnchangedKeepsRows, KeptIsKept DEF ResetDone, Fatal, Abnormal, LoadRefused, tables
  <1> QED
    BY <1>2, <1>3, <1>4, <1>5
       DEF DaemonStep, FinishSelect, FinishUpdate, Count, LoadSelect, LoadInsert, LoadRun, LoadDone,
           FeedQuery, FeedPush, FeedMark, FeedDone, Launch, LaunchDone, Watch, Leave, Drain, DrainDone, Close

LEMMA WebKeepsKeys == ASSUME TypeInv, Web PROVE KeysKept
  <1>1. TablesTypeOK
    BY DEF TypeInv, TypeOK
  <1>3. ASSUME NEW j \in Job, NEW status, ViewAtoms(j, status) PROVE KeysKept
    BY <1>3, UnchangedKeepsRows, KeptIsKept DEF ViewAtoms, tables
  <1>4. ASSUME NEW S, SuspendAtoms(S) PROVE KeysKept
    BY <1>1, <1>4, UpdateKeepsKeys DEF SuspendAtoms, Status
  <1>5. ASSUME NEW j \in Job, NEW S, RetryAtoms(j, S) PROVE KeysKept
    <2>1. \A k \in Job : jobStatus[k] = Gone => jobStatus'[k] = Gone
      BY <1>1, <1>5, UpdateJobsKeepsGone DEF RetryAtoms
    <2> QED
      BY <1>1, <1>5, <2>1, UpdateKeepsKeys DEF RetryAtoms, Status
  <1>6. ASSUME NEW j \in Job, RecycleJob(j) PROVE KeysKept
    <2>1. \A k \in Job : jobStatus[k] = Gone => jobStatus'[k] = Gone
      BY <1>1, <1>6, UpdateJobsKeepsGone DEF RecycleJob
    <2> QED
      BY <1>1, <1>6, <2>1, UpdateKeepsKeys DEF RecycleJob, Status
  <1>7. ASSUME NEW j \in Job, NEW time,
               \/ SendMail(j, time) \/ CreateListJob(j, time) \/ TimePasses(j) \/ AddRecipients(j)
               \/ DelayJob(j, time) \/ DeleteJob(j)
        PROVE  KeysKept
    BY <1>7, PageKeepsRows, KeptIsKept
  <1>8. CASE Created
    BY <1>7, <1>8 DEF Created
  <1>9. CASE WebEvent
    BY <1>3, <1>4, <1>5, <1>6, <1>7, <1>9 DEF WebEvent
  <1> QED
    BY <1>8, <1>9 DEF Web

LEMMA CallsKeepKeys ==
  ASSUME TypeInv, Start \/ Crash \/ StopCall \/ HaltCall \/ StopStep
  PROVE  KeysKept
  <1>1. TablesTypeOK
    BY DEF TypeInv, TypeOK
  <1>2. CASE UNCHANGED <<jobStatus, atomStatus, archived>>
    BY <1>2, UnchangedKeepsRows, KeptIsKept
  <1>3. ASSUME NEW t \in Worker, StopMark(t) PROVE KeysKept
    BY <1>1, <1>2, <1>3, UpdateKeepsKeys DEF StopMark, Status
  <1>4. CASE StopClose \/ HaltClose
    <2>1. UNCHANGED <<atomStatus, archived>>
      BY <1>4 DEF StopClose, HaltClose
    <2>2. \A j \in Job : jobStatus[j] = Gone => jobStatus'[j] = Gone
      BY <1>1, <1>4, UpdateJobsKeepsGone DEF StopClose, HaltClose
    <2> QED
      BY <2>1, <2>2, JobsKeepKeys
  <1> QED
    BY <1>2, <1>3, <1>4 DEF Start, Crash, StopCall, HaltCall, StopStep, StopWake, StopKill, StopFails,
                            tables

\* Nobody is at an abort.
LEMMA NoAborts ==
  ASSUME Unaborted, abort = NoAbort
  PROVE  ~AbortStep /\ \A j \in Job : ~AbortCall(j)
  BY DEF Unaborted, AbortCall, Event, AbortStep, AbortCheck, AbortAtoms, AbortArchive, AbortDelete,
         AbortJobRow, AbortAt, AbortFails, NoAbort

LEMMA NextKeepsKeys ==
  ASSUME RowsInv, Unaborted, [Next]_vars
  PROVE  KeysKept
  <1>1. CASE UNCHANGED vars
    BY <1>1, UnchangedKeepsRows, KeptIsKept DEF vars, tables
  <1>2. ASSUME NEW t \in Worker, Threads(t) PROVE KeysKept
    BY <1>2, ThreadKeepsRows, KeptIsKept DEF RowsInv
  <1> QED
    BY <1>1, <1>2, NoAborts, DaemonKeepsKeys, WebKeepsKeys, CallsKeepKeys DEF Next, RowsInv

\* What waned still is what it was.
LEMMA WaneRows ==
  ASSUME RowsInv, KeysKept, Wanes, TypeInv', abort' = NoAbort,
         \/ daemon' \notin {"push", "mark"}
         \/ daemon \in {"push", "mark"} /\ todo' \subseteq todo
         \/ \A a \in todo' : a \in Atom /\ Known(a)
  PROVE  RowsInv'
  <1>1. Evidence'
    BY DEF RowsInv, Evidence, Wanes, Idle
  <1>2. \A t \in Worker : at[t] \notin Idle => atom[t] \in Atom
    BY DEF RowsInv, TypeInv, TypeOK, DispatchTypeOK, Placed, Idle
  <1>3. \A i \in DOMAIN queue : queue[i] \in Atom
    BY DEF RowsInv, TypeInv, TypeOK, DispatchTypeOK
  <1>4. \A i \in DOMAIN queue' : Known(queue[i])'
    <2> SUFFICES ASSUME NEW i \in DOMAIN queue' PROVE Known(queue[i])'
      OBVIOUS
    <2>1. PICK k \in DOMAIN queue : queue'[i] = queue[k]
      BY DEF Wanes
    <2>2. PICK a \in Atom : a = queue[k]
      BY <1>3
    <2>3. Known(a)'
      BY <2>2 DEF RowsInv, KnownHeld, KeysKept
    <2> QED
      BY <2>1, <2>2, <2>3 DEF Known, Moved
  <1>5. \A t \in Worker : at'[t] \notin Idle => Known(atom[t])' /\ atom'[t] = atom[t]
    BY <1>2 DEF RowsInv, KnownHeld, Wanes, KeysKept
  <1>6. \A t \in Worker : at'[t] = "delete" => Moved(atom[t])' /\ atom'[t] = atom[t]
    BY <1>2 DEF RowsInv, Copied, Wanes, KeysKept, Idle
  <1>7. daemon' \in {"push", "mark"} => \A a \in todo' : a \in Atom /\ Known(a)'
    BY DEF RowsInv, KeysKept
  <1>8. KnownHeld' /\ Copied'
    BY <1>4, <1>5, <1>6 DEF KnownHeld, Copied, Idle
  <1>9. (daemon \in {"push", "mark"} => \A a \in todo : a \in Atom /\ Known(a))'
    BY <1>7
  <1> QED
    BY <1>1, <1>8, <1>9 DEF RowsInv, NoAbort

\* Each step of a thread keeps what is known of the rows.
LEMMA ThreadRows ==
  ASSUME RowsInv, NEW t \in Worker, Threads(t)
  PROVE  RowsInv'
  <1>1. TypeInv /\ TypeInv'
    BY ThreadType DEF RowsInv
  <1>2. KeysKept
    BY ThreadKeepsRows, KeptIsKept DEF RowsInv
  <1>3. abort' = abort /\ daemon' = daemon /\ todo' = todo
    BY DEF Threads, callVars, daemonVars
  <1>4. \A u \in Worker : at[u] \notin Idle => atom[u] \in Atom
    BY <1>1 DEF TypeInv, TypeOK, DispatchTypeOK, Placed, Idle
  <1>5. /\ \A u \in Worker : u # t => at'[u] = at[u] /\ atom'[u] = atom[u]
        /\ at'[t] \notin Idle => Pop(t) \/ (at[t] \notin Idle /\ atom'[t] = atom[t])
        /\ at'[t] = "archive" => Process(t)
        /\ at'[t] = "delete" => ArchiveInsert(t)
        /\ sent' = sent \/ Process(t)
        /\ archived' = archived \/ ArchiveInsert(t)
        /\ queue' = queue \/ Pop(t)
    BY <1>1, ThreadPlaces
  <1>6. ASSUME NEW a \in Atom, sent[a] > 0 PROVE sent'[a] > 0
    <2>1. sent \in [Atom -> Nat]
      BY <1>1 DEF TypeInv, TypeOK, DispatchTypeOK
    <2>2. CASE Process(t)
      BY <1>6, <2>1, <2>2 DEF Process
    <2> QED
      BY <1>5, <1>6, <2>2
  <1>7. Process(t) => sent'[atom'[t]] > 0
    BY <1>1, <1>4 DEF Process, Idle, TypeInv, TypeOK, DispatchTypeOK
  <1>8. \A u \in Worker : at'[u] = "archive" => sent'[atom'[u]] > 0
    BY <1>4, <1>5, <1>6, <1>7 DEF RowsInv, Evidence, Idle
  <1>9. ASSUME NEW a \in Atom, archived'[a] # NoRow PROVE sent'[a] > 0
    <2>1. CASE archived' = archived
      BY <1>6, <1>9, <2>1 DEF RowsInv, Evidence
    <2>2. CASE ArchiveInsert(t)
      BY <1>6, <1>9, <2>2 DEF RowsInv, Evidence, ArchiveInsert, ArchiveAtoms
    <2> QED
      BY <1>5, <2>1, <2>2
  <1>10. Evidence'
    BY <1>8, <1>9 DEF Evidence
  <1>11. Pop(t) => /\ queue # <<>> /\ queue \in Seq(Atom) /\ queue' = Tail(queue)
                   /\ atom'[t] = queue[1] /\ 1 \in DOMAIN queue
    BY <1>1 DEF Pop, TypeInv, TypeOK, DispatchTypeOK
  <1>12. \A i \in DOMAIN queue' : \E k \in DOMAIN queue : queue'[i] = queue[k]
    BY <1>5, <1>11, TailIsPart
  <1>13. \A i \in DOMAIN queue : queue[i] \in Atom
    BY <1>1 DEF TypeInv, TypeOK, DispatchTypeOK
  <1>14. \A i \in DOMAIN queue' : \E a \in Atom : queue'[i] = a /\ Known(a)'
    BY <1>2, <1>12, <1>13 DEF RowsInv, KnownHeld, KeysKept
  <1>15. ASSUME NEW u \in Worker, at'[u] \notin Idle PROVE \E a \in Atom : atom'[u] = a /\ Known(a)'
    <2>1. CASE u = t /\ Pop(t)
      BY <1>2, <1>11, <1>13, <2>1 DEF RowsInv, KnownHeld, KeysKept
    <2>2. CASE ~(u = t /\ Pop(t))
      BY <1>2, <1>4, <1>5, <1>15, <2>2 DEF RowsInv, KnownHeld, KeysKept
    <2> QED
      BY <2>1, <2>2
  <1>16. KnownHeld'
    BY <1>14, <1>15 DEF KnownHeld, Idle, Known, Moved
  <1>17. ASSUME ArchiveInsert(t) PROVE Moved(atom[t])' /\ atom' = atom
    <2>1. atom[t] \in Atom /\ Known(atom[t])
      BY <1>4, <1>17 DEF ArchiveInsert, Idle, RowsInv, KnownHeld
    <2> QED
      BY <1>17, <2>1 DEF ArchiveInsert, ArchiveAtoms, Known, Moved
  <1>18. ASSUME NEW u \in Worker, at'[u] = "delete" PROVE Moved(atom[u])'
    <2>1. CASE u = t
      BY <1>5, <1>17, <1>18, <2>1
    <2>2. CASE u # t
      BY <1>2, <1>4, <1>5, <1>18, <2>2 DEF RowsInv, Copied, KeysKept, Idle, Moved
    <2> QED
      BY <2>1, <2>2
  <1>19. Copied'
    BY <1>18 DEF Copied
  <1>20. (daemon \in {"push", "mark"} => \A a \in todo : a \in Atom /\ Known(a))'
    BY <1>2, <1>3 DEF RowsInv, KeysKept
  <1> QED
    BY <1>1, <1>3, <1>10, <1>16, <1>19, <1>20 DEF RowsInv, NoAbort

\* Each step of the daemon does.
LEMMA DaemonRows ==
  ASSUME RowsInv, DaemonStep \/ Fatal
  PROVE  RowsInv'
  <1>1. TypeInv /\ TypeInv' /\ KeysKept
    BY DaemonType, DaemonKeepsKeys DEF RowsInv
  <1>2. abort' = NoAbort
    BY <1>1, DaemonPlaces DEF RowsInv
  <1>3. ASSUME NEW a \in Atom, FeedPush(a) PROVE RowsInv'
    <2>1. /\ daemon = "push" /\ a \in todo /\ queue' = Append(queue, a) /\ todo' = todo
          /\ UNCHANGED <<jobStatus, atomStatus, archived, at, atom, sent>>
      BY <1>3 DEF FeedPush, Push, tables, threads
    <2>2. queue \in Seq(Atom)
      BY <1>1 DEF TypeInv, TypeOK, DispatchTypeOK
    <2>3. \A i \in DOMAIN queue' : queue'[i] = a \/ (i \in DOMAIN queue /\ queue'[i] = queue[i])
      BY <2>1, <2>2
    <2>4. Known(a)
      BY <2>1 DEF RowsInv
    <2>5. KnownHeld'
      BY <2>1, <2>3, <2>4 DEF RowsInv, KnownHeld, Known, Moved
    <2>6. Evidence' /\ Copied'
      BY <2>1 DEF RowsInv, Evidence, Copied, Moved
    <2>7. (daemon \in {"push", "mark"} => \A b \in todo : b \in Atom /\ Known(b))'
      BY <2>1 DEF RowsInv, Known, Moved
    <2> QED
      BY <1>1, <1>2, <2>5, <2>6, <2>7 DEF RowsInv, NoAbort
  <1>4. \/ daemon' \notin {"push", "mark"}
        \/ daemon \in {"push", "mark"} /\ todo' \subseteq todo
        \/ \A a \in todo' : a \in Atom /\ Known(a)
    <2>1. CASE FeedQuery
      BY <2>1 DEF FeedQuery, Known, NoRow
    <2>2. CASE FeedMark \/ (\E a \in Atom : FeedPush(a))
      BY <2>2 DEF FeedMark, FeedPush
    <2>3. CASE daemon' \notin {"push", "mark"}
      BY <2>3
    <2> QED
      BY <2>1, <2>2, <2>3
         DEF DaemonStep, Fatal, Abnormal, LoadRefused, FinishSelect, FinishUpdate, Count, LoadSelect,
             LoadInsert, LoadRun, LoadDone, FeedDone, Launch, LaunchDone, Watch, Leave, Drain,
             DrainDone, ResetAtoms, ResetJob, ResetDone, Close
  <1> QED
    BY <1>1, <1>2, <1>3, <1>4, DaemonPlaces, WaneRows

LEMMA RowsNext == ASSUME RowsInv, Unaborted, [Next]_vars PROVE RowsInv'
  <1>1. TypeInv /\ TypeInv'
    BY TypeStep DEF RowsInv
  <1>2. CASE Start \/ Crash \/ Web \/ StopCall \/ HaltCall \/ StopStep
    <2>1. KeysKept
      BY <1>1, <1>2, WebKeepsKeys, CallsKeepKeys
    <2>2. /\ Wanes /\ abort' = NoAbort
          /\ daemon' = daemon \/ daemon' \in {"select", "off"}
          /\ todo' = todo \/ todo' = {}
      BY <1>1, <1>2, OtherPlaces DEF RowsInv
    <2> QED
      BY <1>1, <2>1, <2>2, WaneRows
  <1>3. CASE UNCHANGED vars
    <2>1. KeysKept /\ Wanes /\ abort' = NoAbort /\ daemon' = daemon /\ todo' = todo
      BY <1>3, UnchangedKeepsRows, KeptIsKept
         DEF vars, tables, dispatch, threads, callVars, daemonVars, Wanes, RowsInv
    <2> QED
      BY <1>1, <2>1, WaneRows
  <1> QED
    BY <1>2, <1>3, ThreadRows, DaemonRows, NoAborts DEF Next, RowsInv

LEMMA RowsInit == Init => RowsInv
  <1> SUFFICES ASSUME Init PROVE RowsInv
    OBVIOUS
  <1>1. TypeInv
    BY TypeInit
  <1> QED
    BY <1>1 DEF Init, TablesInit, DispatchInit, RowsInv, Evidence, KnownHeld, Copied, Idle

\* What everything else about the rows rests on, for any faults, failing messages, crashes,
\* stops, retries and recycles, but no abortJob: what anybody holds was a row once, and a
\* thread that deletes a row has archived it or its job is gone.
THEOREM RowsAlways == ASSUME Unaborted PROVE Spec => []RowsInv
  <1>1. RowsInv /\ [Next]_vars => RowsInv'
    BY RowsNext
  <1> QED
    BY <1>1, RowsInit, PTL DEF Spec

\* The statistics count as sent only what was sent: unless abortJob archives atoms that a
\* thread has just set running, WorkerThread.run archives after Job.process.
THEOREM StatisticsAreRight == ASSUME Unaborted PROVE Spec => []StatisticsCountSent
  <1>1. RowsInv => StatisticsCountSent
    BY DEF RowsInv, Evidence, StatisticsCountSent, NoRow
  <1> QED
    BY <1>1, RowsAlways, PTL

\* Unless abortJob deletes atoms that came after it archived the others, no statement of the
\* scheduler, whatever fails around it, deletes the row of an atom that is in no archive.
THEOREM NothingIsLost == ASSUME Unaborted PROVE Spec => RowsAreArchived
  <1>1. ASSUME RowsInv, [Next]_vars
        PROVE  [\A a \in Atom : atomStatus[a] # NoRow /\ atomStatus'[a] = NoRow =>
                  archived'[a] # NoRow \/ jobStatus'[JobOf[a]] = Gone]_vars
    BY <1>1, NextKeepsKeys DEF KeysKept, Known, Moved
  <1> QED
    BY <1>1, RowsAlways, PTL DEF Spec, RowsAreArchived
-----------------------------------------------------------------------------
(* An aborted job stays empty                                              *)

\* No row of an atom comes, and no job becomes aborted.
Fades ==
  /\ \A a \in Atom : atomStatus[a] = NoRow => atomStatus'[a] = NoRow
  /\ \A j \in Job : jobStatus'[j] \in {NoRow, "aborted"} => jobStatus[j] = jobStatus'[j]

\* The statements of which that is true.
LEMMA StatementsFade ==
  ASSUME TablesTypeOK,
         \/ atomStatus' = atomStatus
         \/ \E S, status : UpdateAtoms(S, status)
         \/ \E S : DeleteAtoms(S),
         \/ jobStatus' = jobStatus
         \/ \E j \in Job, status \in Status \ {"aborted"} : UpdateJob(j, status)
         \/ \E S : \E status \in Status \ {"aborted"} : UpdateJobs(S, status)
         \/ \E j \in Job : jobStatus' = [jobStatus EXCEPT ![j] = Gone]
  PROVE  Fades
  <1>1. \A a \in Atom : atomStatus[a] = NoRow => atomStatus'[a] = NoRow
    BY DEF UpdateAtoms, DeleteAtoms
  <1>2. \A j \in Job : jobStatus'[j] \in {NoRow, "aborted"} => jobStatus[j] = jobStatus'[j]
    BY DEF TablesTypeOK, UpdateJob, UpdateJobs, Status, NoRow, Gone
  <1> QED
    BY <1>1, <1>2 DEF Fades

LEMMA FadeEmpty ==
  ASSUME EmptyInv, Fades, TypeInv', abort' = abort \/ abort' = NoAbort
  PROVE  EmptyInv'
  <1>1. \A a \in Atom : JobOf[a] \in Job
    BY JobTablesAssumption
  <1>2. (\A j \in Job : jobStatus[j] \in {NoRow, "aborted"} => NoRowsOf(j))'
    BY <1>1 DEF EmptyInv, Fades, NoRowsOf, AtomsOf
  <1>3. (abort.at # "idle" => abort.job \in Job /\ jobStatus[abort.job] # NoRow)'
    BY DEF EmptyInv, Fades, NoAbort
  <1>4. (abort.at = "job" => NoRowsOf(abort.job))'
    BY DEF EmptyInv, Fades, NoAbort, NoRowsOf, AtomsOf
  <1> QED
    BY <1>2, <1>3, <1>4 DEF EmptyInv

LEMMA ThreadFades == ASSUME TypeInv, NEW t \in Worker, Threads(t) PROVE Fades
  <1>1. TablesTypeOK /\ "finished" \in Status \ {"aborted"}
    BY DEF TypeInv, TypeOK, Status
  <1>2. CASE Finish(t)
    <2>1. atomStatus' = atomStatus
      BY <1>2 DEF Finish
    <2>2. jobStatus' = jobStatus \/ UpdateJob(job[t], "finished")
      BY <1>2 DEF Finish
    <2>3. \A j \in Job : jobStatus'[j] \in {NoRow, "aborted"} => jobStatus[j] = jobStatus'[j]
      BY <1>1, <2>2 DEF TablesTypeOK, UpdateJob, NoRow
    <2> QED
      BY <2>1, <2>3 DEF Fades
  <1>3. CASE jobStatus' = jobStatus
    <2>1. \/ atomStatus' = atomStatus
          \/ \E S, status : UpdateAtoms(S, status)
          \/ \E S : DeleteAtoms(S)
      BY <1>3 DEF Threads, WorkerStep, WorkerFault, Begin, LeaveHalted, Pop, PopNothing, Mark, Load,
           Process, ProcessFails, ArchiveInsert, ArchiveRefused, ArchiveDelete, Finish, Interrupt,
           MarkFails, MarkFindsNoConnection, LoadFails, ArchivingFails, InterruptFails,
           InterruptFindsNoConnection, tables
    <2> QED
      BY <1>1, <1>3, <2>1, StatementsFade
  <1> QED
    BY <1>2, <1>3 DEF Threads, WorkerStep, WorkerFault, Begin, LeaveHalted, Pop, PopNothing, Mark, Load,
           Process, ProcessFails, ArchiveInsert, ArchiveRefused, ArchiveDelete, Interrupt,
           MarkFails, MarkFindsNoConnection, LoadFails, ArchivingFails, InterruptFails,
           InterruptFindsNoConnection, tables

LEMMA DaemonFades ==
  ASSUME TypeInv, Unfed, DaemonStep \/ Fatal PROVE Fades
  <1>1. TablesTypeOK /\ {"finished", "running", "pending"} \subseteq Status \ {"aborted"}
    BY DEF TypeInv, TypeOK, Status
  <1>2. ASSUME NEW j \in Job, FinishUpdate(j) PROVE Fades
    BY <1>1, <1>2, StatementsFade DEF FinishUpdate
  <1>3. ASSUME NEW j \in Job, LoadInsert(j) PROVE Fades
    <2>1. atomStatus' = [a \in Atom |-> atomStatus[a]] /\ jobStatus' = jobStatus
      BY <1>3 DEF LoadInsert, InsertAtoms, Inserts, Unfed
    <2> QED
      BY <1>1, <2>1 DEF Fades
  <1>4. CASE LoadRun \/ ResetJob
    <2>1. atomStatus' = atomStatus /\ (UpdateJob(current, "running") \/ UpdateJob(current, "pending"))
      BY <1>4 DEF LoadRun, ResetJob
    <2>2. \A j \in Job : jobStatus'[j] \in {NoRow, "aborted"} => jobStatus[j] = jobStatus'[j]
      BY <1>1, <2>1 DEF TablesTypeOK, UpdateJob, NoRow
    <2> QED
      BY <2>1, <2>2 DEF Fades
  <1>5. CASE FeedMark \/ \E j \in Job : ResetAtoms(j)
    BY <1>1, <1>5, StatementsFade DEF FeedMark, ResetAtoms
  <1>6. CASE UNCHANGED tables
    BY <1>1, <1>6, StatementsFade DEF tables
  <1> QED
    BY <1>2, <1>3, <1>4, <1>5, <1>6 DEF DaemonStep, Fatal, Abnormal, LoadRefused, FinishSelect, Count,
         LoadSelect, LoadDone, FeedQuery, FeedPush, FeedDone, Launch, LaunchDone, Watch, Leave, Drain,
         DrainDone, ResetDone, Close

\* A message creates its job with its atoms; the other pages add none.
LEMMA WebEmpty == ASSUME EmptyInv, Unfed, Web PROVE EmptyInv'
  <1>1. TypeInv /\ TypeInv' /\ TablesTypeOK
    BY WebType DEF EmptyInv, TypeInv, TypeOK
  <1>2. UNCHANGED abort
    BY DEF Web, callVars
  <1>3. ASSUME Fades PROVE EmptyInv'
    BY <1>1, <1>2, <1>3, FadeEmpty
  <1>4. ASSUME NEW j \in Job, NEW time, SendMail(j, time) PROVE EmptyInv'
    <2>1. /\ jobStatus[j] = NoRow /\ jobStatus' = [jobStatus EXCEPT ![j] = "pending"]
          /\ \A a \in Atom : JobOf[a] # j => atomStatus'[a] = atomStatus[a]
      BY <1>4 DEF SendMail, InsertAtoms, NewAtoms, AtomsOf
    <2>2. \A k \in Job : k # j => jobStatus'[k] = jobStatus[k] /\ (NoRowsOf(k) => NoRowsOf(k)')
      BY <1>1, <2>1 DEF TablesTypeOK, NoRowsOf, AtomsOf
    <2>3. jobStatus'[j] = "pending"
      BY <1>1, <2>1 DEF TablesTypeOK
    <2>4. (\A k \in Job : jobStatus[k] \in {NoRow, "aborted"} => NoRowsOf(k))'
      BY <2>2, <2>3 DEF EmptyInv, NoRow
    <2>5. abort.at # "idle" => abort.job # j
      BY <2>1 DEF EmptyInv
    <2>6. (abort.at # "idle" => abort.job \in Job /\ jobStatus[abort.job] # NoRow)'
      BY <1>2, <2>2, <2>5 DEF EmptyInv
    <2>7. (abort.at = "job" => NoRowsOf(abort.job))'
      BY <1>2, <2>1, <2>5 DEF EmptyInv, NoRowsOf, AtomsOf
    <2> QED
      BY <1>1, <2>4, <2>6, <2>7 DEF EmptyInv
  <1>5. ASSUME NEW j \in Job, NEW time, CreateListJob(j, time) PROVE FALSE
    BY <1>5 DEF CreateListJob, Unfed
  <1>6. ~Event("add")
    BY DEF Event, Unfed
  <1>7. CASE UNCHANGED <<jobStatus, atomStatus>>
    BY <1>1, <1>3, <1>7, StatementsFade
  <1>8. ASSUME NEW S, SuspendAtoms(S) PROVE EmptyInv'
    BY <1>1, <1>3, <1>8, StatementsFade DEF SuspendAtoms
  <1>9. ASSUME NEW j \in Job, NEW S, RetryAtoms(j, S) PROVE EmptyInv'
    BY <1>1, <1>3, <1>9, StatementsFade DEF RetryAtoms, Status
  <1>10. ASSUME NEW j \in Job, RecycleJob(j) PROVE EmptyInv'
    BY <1>1, <1>3, <1>10, StatementsFade DEF RecycleJob, Status
  <1>11. ASSUME NEW j \in Job, DeleteJob(j) PROVE EmptyInv'
    BY <1>1, <1>3, <1>11, StatementsFade DEF DeleteJob
  <1> QED
    BY <1>4, <1>5, <1>6, <1>7, <1>8, <1>9, <1>10, <1>11
       DEF Web, Created, WebEvent, TimePasses, ViewAtoms, DelayJob, tables

\* abortJob itself: it deletes the rows before it says that the job is aborted.
LEMMA AbortEmpty ==
  ASSUME EmptyInv, (\E j \in Job : AbortCall(j)) \/ AbortStep
  PROVE  EmptyInv'
  <1>1. TypeInv /\ TypeInv' /\ TablesTypeOK /\ abort \in AbortState
    BY AbortType DEF EmptyInv, TypeInv, TypeOK, DaemonTypeOK
  <1>2. ASSUME NEW j \in Job, AbortCall(j) PROVE EmptyInv'
    <2>1. /\ UNCHANGED <<jobStatus, atomStatus>> /\ jobStatus[j] # NoRow
          /\ abort' = [at |-> "check", job |-> j, own |-> unbound] \/ abort' = abort
      BY <1>2 DEF AbortCall, tables
    <2> QED
      BY <1>1, <2>1 DEF EmptyInv, NoRowsOf
  <1>3. CASE AbortFails
    BY <1>1, <1>3, StatementsFade, FadeEmpty DEF AbortFails, tables
  <1>4. CASE AbortCheck \/ AbortArchive \/ AbortAtoms
    <2>1. /\ jobStatus' = jobStatus
          /\ atomStatus' = atomStatus \/ \E S, status : UpdateAtoms(S, status)
          /\ abort.at # "idle"
      BY <1>4 DEF AbortCheck, AbortArchive, AbortAtoms, AbortAt
    <2>2. \/ abort' = NoAbort
          \/ abort'.at # "job" /\ abort'.job = abort.job
      BY <1>1, <1>4 DEF AbortCheck, AbortArchive, AbortAtoms, AbortState
    <2>3. Fades
      BY <1>1, <2>1, StatementsFade
    <2>4. (\A j \in Job : jobStatus[j] \in {NoRow, "aborted"} => NoRowsOf(j))'
      BY <2>1, <2>3, JobTablesAssumption DEF EmptyInv, Fades, NoRowsOf, AtomsOf
    <2> QED
      BY <1>1, <2>1, <2>2, <2>4 DEF EmptyInv, NoAbort
  <1>5. CASE AbortDelete
    <2>1. /\ jobStatus' = jobStatus /\ DeleteAtoms(AtomsOf(abort.job)) /\ abort.at = "delete"
          /\ abort' = [abort EXCEPT !.at = "job"]
      BY <1>5 DEF AbortDelete, AbortAt
    <2>2. abort'.at = "job" /\ abort'.job = abort.job
      BY <1>1, <2>1 DEF AbortState
    <2>3. NoRowsOf(abort.job)'
      BY <2>1, <2>2 DEF NoRowsOf, AtomsOf, DeleteAtoms
    <2>4. (\A j \in Job : jobStatus[j] \in {NoRow, "aborted"} => NoRowsOf(j))'
      BY <2>1 DEF EmptyInv, NoRowsOf, AtomsOf, DeleteAtoms
    <2> QED
      BY <1>1, <2>1, <2>2, <2>3, <2>4 DEF EmptyInv
  <1>6. CASE AbortJobRow
    <2>1. /\ atomStatus' = atomStatus /\ UpdateJob(abort.job, "aborted") /\ abort.at = "job"
          /\ abort' = NoAbort
      BY <1>6 DEF AbortJobRow, AbortAt
    <2>2. \A j \in Job : jobStatus'[j] = jobStatus[j] \/ j = abort.job
      BY <1>1, <2>1 DEF UpdateJob, TablesTypeOK
    <2>3. (\A j \in Job : jobStatus[j] \in {NoRow, "aborted"} => NoRowsOf(j))'
      BY <2>1, <2>2 DEF EmptyInv, NoRowsOf
    <2> QED
      BY <1>1, <2>1, <2>3 DEF EmptyInv, NoAbort
  <1> QED
    BY <1>2, <1>3, <1>4, <1>5, <1>6 DEF AbortStep

LEMMA CallsEmpty ==
  ASSUME EmptyInv, Start \/ Crash \/ StopCall \/ HaltCall \/ StopStep
  PROVE  EmptyInv'
  <1>1. TypeInv /\ TypeInv' /\ TablesTypeOK
    BY ProcessType, StopType DEF EmptyInv, TypeInv, TypeOK
  <1>2. abort' = abort \/ abort' = NoAbort
    BY <1>1, OtherPlaces
  <1>3. CASE UNCHANGED <<jobStatus, atomStatus>>
    BY <1>1, <1>2, <1>3, StatementsFade, FadeEmpty
  <1>4. ASSUME NEW t \in Worker, StopMark(t) PROVE EmptyInv'
    BY <1>1, <1>2, <1>4, StatementsFade, FadeEmpty DEF StopMark
  <1>5. CASE StopClose \/ HaltClose
    <2>1. \/ jobStatus' = jobStatus
          \/ UpdateJobs(RunningJobs, "interrupted")
          \/ UpdateJobs(stop.jobs \ RunningJobs, "suspended")
      BY <1>5 DEF StopClose, HaltClose
    <2>2. atomStatus' = atomStatus /\ {"interrupted", "suspended"} \subseteq Status \ {"aborted"}
      BY <1>5 DEF StopClose, HaltClose, Status
    <2>3. Fades
      BY <1>1, <2>1, <2>2, StatementsFade
    <2> QED
      BY <1>1, <1>2, <2>3, FadeEmpty
  <1> QED
    BY <1>3, <1>4, <1>5 DEF Start, Crash, StopCall, HaltCall, StopStep, StopWake, StopKill, StopFails,
                            tables

\* Unless a list or a page adds atoms to it, an aborted job has no row of an atom left and
\* gets none, whatever threads and feeder write while abortJob goes on, and whatever fails.
THEOREM EmptyAlways == ASSUME Unfed PROVE Spec => []EmptyInv
  <1>1. Init => EmptyInv
    <2> SUFFICES ASSUME Init PROVE EmptyInv
      OBVIOUS
    <2>1. TypeInv
      BY TypeInit
    <2> QED
      BY <2>1 DEF Init, TablesInit, EmptyInv, NoRowsOf, AtomsOf, NoAbort
  <1>2. ASSUME EmptyInv, [Next]_vars PROVE EmptyInv'
    <2>1. TypeInv /\ TypeInv' /\ TablesTypeOK
      BY <1>2, TypeStep DEF EmptyInv, TypeInv, TypeOK
    <2>2. CASE UNCHANGED vars
      BY <1>2, <2>1, <2>2, StatementsFade, FadeEmpty DEF vars, tables, callVars
    <2>3. ASSUME NEW t \in Worker, Threads(t) PROVE EmptyInv'
      BY <1>2, <2>1, <2>3, ThreadFades, FadeEmpty DEF Threads, callVars
    <2>4. CASE DaemonStep \/ Fatal
      BY <1>2, <2>1, <2>4, DaemonFades, DaemonPlaces, FadeEmpty
    <2> QED
      BY <1>2, <2>2, <2>3, <2>4, WebEmpty, AbortEmpty, CallsEmpty DEF Next
  <1> QED
    BY <1>1, <1>2, PTL DEF Spec

\* When abortJob has ended well nothing of the job is left to process.
THEOREM AbortedStaysEmpty == ASSUME Unfed PROVE Spec => []AbortedIsEmpty
  <1>1. EmptyInv => AbortedIsEmpty
    BY DEF EmptyInv, AbortedIsEmpty, NoRowsOf, OpenAtoms, Open, NoRow
  <1> QED
    BY <1>1, EmptyAlways, PTL
-----------------------------------------------------------------------------
(* An atom is in one place at a time, although people abort and stop       *)

\* AtomQueue.remove takes atoms away and makes no copies.
LEMMA RemoveAtomsHeld ==
  ASSUME TypeInv, OneCopy, NEW j, RemoveAtoms(j), UNCHANGED atom
  PROVE  OneCopy' /\ \A a \in Atom : Busy(a)' => Busy(a)
  <1> DEFINE kept == {i \in DOMAIN queue : JobOf[queue[i]] # j}
  <1>1. PICK f \in [1 .. Cardinality(kept) -> kept] :
               /\ \A m, n \in DOMAIN f : m < n => f[m] < f[n]
               /\ queue' = [n \in DOMAIN f |-> queue[f[n]]]
    BY DEF RemoveAtoms
  <1>2. kept \subseteq DOMAIN queue
    OBVIOUS
  <1>0. DOMAIN queue \subseteq Int
    BY DEF TypeInv, TypeOK, DispatchTypeOK
  <1> HIDE DEF kept
  <1>3. /\ DOMAIN queue' = 1 .. Cardinality(kept)
        /\ \A n \in DOMAIN queue' : f[n] \in DOMAIN queue /\ queue'[n] = queue[f[n]]
    BY <1>1, <1>2
  <1>4. \A m, n \in DOMAIN queue' : f[m] = f[n] => m = n
    <2> SUFFICES ASSUME NEW m \in DOMAIN queue', NEW n \in DOMAIN queue', f[m] = f[n], m # n
                 PROVE  FALSE
      OBVIOUS
    <2>1. m \in Int /\ n \in Int
      BY <1>3
    <2>2. m < n \/ n < m
      BY <2>1
    <2>3. f[m] < f[n] \/ f[n] < f[m]
      BY <1>1, <1>3, <2>2
    <2>4. f[m] \in Int /\ f[n] \in Int
      BY <1>0, <1>3
    <2> QED
      BY <2>3, <2>4
  <1>5. \A i, k \in DOMAIN queue' : queue'[i] = queue'[k] => i = k
    BY <1>3, <1>4 DEF OneCopy
  <1>6. \A i \in DOMAIN queue' : \A t \in Worker : queue'[i] # atom'[t]
    BY <1>3 DEF OneCopy
  <1>7. OneCopy'
    BY <1>5, <1>6 DEF OneCopy
  <1> QED
    BY <1>3, <1>7 DEF Busy, Queued, Taken

\* AtomConsumer.close takes atoms away and makes no copies.
LEMMA TailHeld ==
  ASSUME TypeInv, OneCopy, queue # <<>>, queue' = Tail(queue), UNCHANGED atom
  PROVE  OneCopy' /\ \A a \in Atom : Busy(a)' => Busy(a)
  <1>1. queue \in Seq(Atom)
    BY DEF TypeInv, TypeOK, DispatchTypeOK
  <1>2. /\ Len(queue) \in Nat \ {0} /\ DOMAIN queue = 1 .. Len(queue)
        /\ DOMAIN queue' = 1 .. Len(queue) - 1
        /\ \A i \in DOMAIN queue' : i \in Int /\ i + 1 \in DOMAIN queue /\ queue'[i] = queue[i + 1]
    BY <1>1
  <1>3. \A i, k \in DOMAIN queue' : queue'[i] = queue'[k] => i + 1 = k + 1
    BY <1>2 DEF OneCopy
  <1>4. \A i, k \in DOMAIN queue' : queue'[i] = queue'[k] => i = k
    BY <1>2, <1>3
  <1>5. \A i \in DOMAIN queue' : \A t \in Worker : queue'[i] # atom'[t]
    BY <1>2 DEF OneCopy
  <1>6. OneCopy'
    BY <1>4, <1>5 DEF OneCopy
  <1> QED
    BY <1>2, <1>6 DEF Busy, Queued, Taken

\* What is held, and what the feeder has, follows from the step of the rows.
LEMMA PlacesIf ==
  ASSUME PlacesInv, KeysKept, TypeInv', OneCopy', IdleHasNone', Copied', AbortMoves',
         "abort" \notin Events => abort' = NoAbort,
         \A a \in Atom : Busy(a)' => Busy(a),
         \A a \in Atom : sent'[a] > 0 => sent[a] > 0 \/ Known(a),
         \A a \in Atom : atomStatus'[a] = "pending" =>
           atomStatus[a] = "pending" \/ ~Known(a) \/ ~Running',
         \/ UNCHANGED <<daemon, todo, current>>
         \/ /\ daemon' \notin {"push", "mark"}
            /\ daemon = "mark" \/ ~Running => ~Running' \/ \A a \in Atom : ~Busy(a)'
  PROVE  PlacesInv'
  <1>1. Remembered'
    BY DEF PlacesInv, Remembered, KeysKept
  <1>2. ASSUME NEW a \in Atom, atomStatus'[a] = "pending", Busy(a)', Running'
        PROVE  daemon' = "mark" /\ current' = a
    <2>1. atomStatus[a] = "pending" /\ Busy(a)
      BY <1>2 DEF PlacesInv, Remembered
    <2>2. ~Running \/ (daemon = "mark" /\ current = a)
      BY <2>1 DEF PlacesInv, PendingPlaced
    <2> QED
      BY <1>2, <2>2 DEF Running
  <1>3. PendingPlaced'
    BY <1>2 DEF PendingPlaced
  <1>4. TodoFree'
    BY DEF PlacesInv, TodoFree, KeysKept
  <1> QED
    BY <1>1, <1>3, <1>4 DEF PlacesInv

\* Only rows change, and what the daemon does outside the feeding loop.
LEMMA PlacesRows ==
  ASSUME PlacesInv, KeysKept, TypeInv', UNCHANGED <<queue, at, atom, sent>>, AbortMoves',
         "abort" \notin Events => abort' = NoAbort,
         \A a \in Atom : atomStatus'[a] = "pending" =>
           atomStatus[a] = "pending" \/ ~Known(a) \/ ~Running',
         \/ UNCHANGED <<daemon, todo, current>>
         \/ daemon' \notin {"push", "mark"} /\ (daemon = "mark" \/ ~Running => ~Running')
  PROVE  PlacesInv'
  <1>1. OneCopy' /\ IdleHasNone'
    BY DEF PlacesInv, OneCopy, IdleHasNone, Idle
  <1>2. \A t \in Worker : at[t] = "delete" => atom[t] \in Atom
    BY DEF PlacesInv, TypeInv, TypeOK, DispatchTypeOK, Placed
  <1>3. Copied'
    BY <1>2 DEF PlacesInv, Copied, KeysKept
  <1>4. \A a \in Atom : Busy(a)' => Busy(a)
    BY DEF Busy, Queued, Taken
  <1> QED
    BY <1>1, <1>3, <1>4, PlacesIf

\* Between the INSERT and the DELETE of an abort, no row comes that it has not archived.
LEMMA AbortWaits ==
  ASSUME PlacesInv, Unretried, Unfed => EmptyInv, KeysKept,
         \/ \E t \in Worker : Threads(t)
         \/ DaemonStep \/ Fatal
         \/ Start \/ Crash \/ Web \/ StopCall \/ HaltCall \/ StopStep
  PROVE  AbortMoves' /\ ("abort" \notin Events => abort' = NoAbort)
  <1>1. TypeInv
    BY DEF PlacesInv
  <1>2. abort' = abort \/ abort' = NoAbort
    BY <1>1, DaemonPlaces, OtherPlaces DEF Threads, callVars
  <1>3. "abort" \notin Events => abort' = NoAbort
    BY <1>2 DEF PlacesInv
  <1>4. ASSUME abort' = abort, abort.at = "delete",
               NEW a \in AtomsOf(abort.job), atomStatus'[a] # NoRow
        PROVE  atomStatus[a] # NoRow
    <2>1. Unfed /\ EmptyInv
      BY <1>4 DEF PlacesInv, Unretried, NoAbort
    <2>2. a \in Atom /\ JobOf[a] = abort.job /\ abort.job \in Job /\ jobStatus[abort.job] # NoRow
      BY <1>4, <2>1 DEF AtomsOf, EmptyInv
    <2>3. CASE Fades
      BY <1>4, <2>2, <2>3 DEF Fades
    <2>4. ASSUME NEW j \in Job, NEW time, SendMail(j, time) PROVE atomStatus'[a] = atomStatus[a]
      BY <2>2, <2>4 DEF SendMail, InsertAtoms, NewAtoms, AtomsOf
    <2>5. CASE Web
      <3>1. ~Event("add")
        BY <2>1 DEF Event, Unfed
      <3>2. ASSUME NEW S, NEW status, UpdateAtoms(S, status) PROVE atomStatus[a] # NoRow
        BY <1>4, <2>2, <3>2 DEF UpdateAtoms
      <3>3. ASSUME NEW S, DeleteAtoms(S) PROVE atomStatus[a] # NoRow
        BY <1>4, <2>2, <3>3 DEF DeleteAtoms
      <3>4. ASSUME NEW S, SuspendAtoms(S) PROVE atomStatus[a] # NoRow
        BY <3>2, <3>4 DEF SuspendAtoms
      <3>5. ASSUME NEW j, NEW S, RetryAtoms(j, S) PROVE atomStatus[a] # NoRow
        BY <3>2, <3>5 DEF RetryAtoms
      <3>6. ASSUME NEW j, RecycleJob(j) PROVE atomStatus[a] # NoRow
        BY <3>2, <3>6 DEF RecycleJob
      <3>7. ASSUME NEW j, DeleteJob(j) PROVE atomStatus[a] # NoRow
        BY <3>3, <3>7 DEF DeleteJob
      <3> QED
        BY <1>4, <2>4, <2>5, <3>1, <3>4, <3>5, <3>6, <3>7
           DEF Web, Created, WebEvent, CreateListJob, TimePasses, ViewAtoms, DelayJob, tables
    <2>6. CASE StopStep
      <3>1. ASSUME NEW t \in Worker, StopMark(t) PROVE atomStatus[a] # NoRow
        BY <1>4, <2>2, <3>1 DEF StopMark, UpdateAtoms
      <3> QED
        BY <1>4, <2>6, <3>1 DEF StopStep, StopWake, StopKill, StopClose, StopFails, HaltClose, tables
    <2>7. CASE Start \/ Crash \/ StopCall \/ HaltCall
      BY <1>4, <2>7 DEF Start, Crash, StopCall, HaltCall, tables
    <2> QED
      BY <1>1, <2>1, <2>3, <2>5, <2>6, <2>7, ThreadFades, DaemonFades
  <1>5. AbortMoves'
    <2>1. CASE abort' = NoAbort
      BY <2>1 DEF AbortMoves, NoAbort
    <2>2. CASE abort' = abort
      <3>1. \A a \in AtomsOf(abort.job) : a \in Atom
        BY DEF AtomsOf
      <3> QED
        BY <1>4, <2>2, <3>1 DEF PlacesInv, AbortMoves, KeysKept, AtomsOf
    <2> QED
      BY <1>2, <2>1, <2>2
  <1> QED
    BY <1>3, <1>5

\* Each step of a thread.
LEMMA ThreadPlaced ==
  ASSUME PlacesInv, Unretried, Unfed => EmptyInv, NEW t \in Worker, Threads(t)
  PROVE  PlacesInv'
  <1>1. TypeInv /\ TypeInv'
    BY ThreadType DEF PlacesInv
  <1>2. RowsKept
    BY <1>1, ThreadKeepsRows DEF PlacesInv
  <1>3. KeysKept /\ UNCHANGED <<daemon, todo, current>>
    BY <1>2, KeptIsKept DEF Threads, daemonVars
  <1>4. /\ OneCopy' /\ IdleHasNone' /\ Copied'
        /\ \A a \in Atom : Busy(a)' => Busy(a)
        /\ \A a \in Atom : sent'[a] > 0 => sent[a] > 0 \/ Known(a)
    BY ThreadParts DEF PlacesInv
  <1>5. AbortMoves' /\ ("abort" \notin Events => abort' = NoAbort)
    BY <1>3, AbortWaits
  <1> HIDE DEF KeysKept
  <1> QED
    BY <1>1, <1>2, <1>3, <1>4, <1>5, PlacesIf DEF RowsKept

\* The steps of the daemon that neither feed nor launch.  From Leave on it runs no more.
LEMMA DaemonPlacedRows ==
  ASSUME PlacesInv, Unretried, Unfed => EmptyInv,
         DaemonStep \/ Fatal, UNCHANGED <<queue, at, atom, sent>>,
         \/ UNCHANGED <<daemon, todo, current>>
         \/ daemon' \notin {"push", "mark"} /\ (daemon = "mark" \/ ~Running => ~Running')
  PROVE  PlacesInv'
  <1>1. TypeInv /\ TypeInv'
    BY DaemonType DEF PlacesInv
  <1>2. KeysKept
    BY <1>1, DaemonKeepsKeys
  <1>3. AbortMoves' /\ ("abort" \notin Events => abort' = NoAbort)
    BY <1>2, AbortWaits
  <1>4. \A a \in Atom : atomStatus'[a] = "pending" =>
          atomStatus[a] = "pending" \/ ~Known(a) \/ ~Running'
    <2>1. CASE daemon \notin {"reset", "resetJob"}
      BY <1>1, <2>1, DaemonKeepsRows DEF RowsKept
    <2>2. CASE daemon \in {"reset", "resetJob"}
      BY <2>2 DEF Running
    <2> QED
      BY <2>1, <2>2
  <1> QED
    BY <1>1, <1>2, <1>3, <1>4, PlacesRows

\* Each step of the daemon.
LEMMA DaemonPlaced ==
  ASSUME PlacesInv, Unretried, Unfed => EmptyInv, DaemonStep \/ Fatal
  PROVE  PlacesInv'
  <1>1. TypeInv /\ TypeInv'
    BY DaemonType DEF PlacesInv
  <1>2. KeysKept
    BY <1>1, DaemonKeepsKeys
  <1>3. AbortMoves' /\ ("abort" \notin Events => abort' = NoAbort)
    BY <1>2, AbortWaits
  <1>4. ASSUME UNCHANGED <<queue, at, atom, sent>>, daemon' \notin {"push", "mark"},
               daemon = "mark" \/ ~Running => ~Running'
        PROVE  PlacesInv'
    BY <1>4, DaemonPlacedRows
  <1> USE DEF dispatch, threads, callVars
  <1>5. CASE FinishSelect \/ Count \/ LoadSelect \/ LoadRun \/ LoadDone \/ FeedDone
             \/ LaunchDone \/ Watch \/ Leave \/ DrainDone \/ ResetJob \/ ResetDone \/ Close
    BY <1>4, <1>5 DEF FinishSelect, Count, LoadSelect, LoadRun, LoadDone, FeedDone, LaunchDone, Watch,
                      Leave, DrainDone, ResetJob, ResetDone, Close, Running
  <1>6. ASSUME NEW j \in Job, FinishUpdate(j) \/ LoadInsert(j) \/ ResetAtoms(j) PROVE PlacesInv'
    BY <1>4, <1>6 DEF FinishUpdate, LoadInsert, ResetAtoms, Running
  <1>7. ASSUME Abnormal PROVE PlacesInv'
    BY <1>4, <1>7 DEF Abnormal, Running
  <1>8. ASSUME NEW j \in Job, LoadRefused(j) PROVE PlacesInv'
    BY <1>7, <1>8 DEF LoadRefused
  <1>9. CASE Fatal
    BY <1>7, <1>9 DEF Fatal
  <1>10. CASE FeedQuery
    <2>1. /\ daemon = "query" /\ daemon' = "push"
          /\ todo' \subseteq {a \in Atom : atomStatus[a] = "pending"}
          /\ UNCHANGED <<jobStatus, atomStatus, archived, queue, at, atom, sent>>
      BY <1>10 DEF FeedQuery, tables
    <2>2. TodoFree'
      BY <2>1 DEF PlacesInv, PendingPlaced, Running, TodoFree, Known, Busy, Queued, Taken, NoRow
    <2>3. PendingPlaced'
      BY <2>1 DEF PlacesInv, PendingPlaced, Running, Busy, Queued, Taken
    <2>4. OneCopy' /\ IdleHasNone' /\ Remembered' /\ Copied'
      BY <2>1 DEF PlacesInv, OneCopy, IdleHasNone, Idle, Remembered, Copied, Known, Moved, Busy, Queued, Taken
    <2> QED
      BY <1>1, <1>3, <2>2, <2>3, <2>4 DEF PlacesInv
  <1>11. ASSUME NEW a \in Atom, FeedPush(a) PROVE PlacesInv'
    <2>1. /\ daemon = "push" /\ a \in todo /\ queue' = Append(queue, a)
          /\ daemon' = "mark" /\ current' = a /\ todo' = todo
          /\ UNCHANGED <<jobStatus, atomStatus, archived, at, atom, sent>>
      BY <1>11 DEF FeedPush, Push, tables
    <2> HIDE DEF dispatch, threads, callVars
    <2>2. Known(a) /\ ~Busy(a)
      BY <2>1 DEF PlacesInv, TodoFree
    <2>3. OneCopy' /\ \A b \in Atom : Busy(b)' => Busy(b) \/ b = a
      BY <1>1, <2>1, <2>2, PushHeld DEF PlacesInv
    <2>4. Remembered'
      BY <2>1, <2>2, <2>3 DEF PlacesInv, Remembered, Known, Moved
    <2>5. IdleHasNone' /\ Copied'
      BY <2>1 DEF PlacesInv, IdleHasNone, Idle, Copied, Moved
    <2>6. PendingPlaced'
      BY <2>1, <2>3 DEF PlacesInv, PendingPlaced, Running
    <2>7. TodoFree'
      BY <2>1, <2>3 DEF PlacesInv, TodoFree, Known, Moved
    <2> QED
      BY <1>1, <1>3, <2>3, <2>4, <2>5, <2>6, <2>7 DEF PlacesInv
  <1>12. CASE FeedMark
    <2>1. /\ daemon = "mark" /\ daemon' = "push" /\ todo' = todo \ {current}
          /\ UNCHANGED <<queue, at, atom, sent>>
          /\ atomStatus' = [a \in Atom |-> IF a \in {current} /\ atomStatus[a] # NoRow
                                            THEN "running" ELSE atomStatus[a]]
      BY <1>12 DEF FeedMark, UpdateAtoms
    <2> HIDE DEF dispatch, threads, callVars
    <2>2. \A a \in Atom : Busy(a)' <=> Busy(a)
      BY <2>1 DEF Busy, Queued, Taken
    <2>3. PendingPlaced'
      BY <2>1, <2>2 DEF PlacesInv, PendingPlaced, Running, NoRow
    <2>4. TodoFree'
      BY <1>2, <2>1, <2>2 DEF PlacesInv, TodoFree, KeysKept
    <2>5. OneCopy' /\ IdleHasNone' /\ Remembered'
      BY <1>2, <2>1, <2>2 DEF PlacesInv, OneCopy, IdleHasNone, Idle, Remembered, KeysKept
    <2>6. Copied'
      <3>1. \A t \in Worker : at[t] = "delete" => atom[t] \in Atom
        BY <1>1 DEF TypeInv, TypeOK, DispatchTypeOK, Placed
      <3> QED
        BY <1>2, <2>1, <3>1 DEF PlacesInv, Copied, KeysKept
    <2> QED
      BY <1>1, <1>3, <2>3, <2>4, <2>5, <2>6 DEF PlacesInv
  <1>13. ASSUME NEW t \in Worker, Launch(t) PROVE PlacesInv'
    <2>1. /\ daemon = "launch" /\ UNCHANGED <<queue, atom, sent, daemon, atomStatus>>
          /\ \A u \in Worker : at'[u] = at[u] \/ (at[u] = "dead" /\ at'[u] = "begin")
      BY <1>1, <1>13 DEF Launch, Alive, TypeInv, TypeOK, DispatchTypeOK, tables
    <2> HIDE DEF dispatch, threads, callVars
    <2>2. OneCopy' /\ IdleHasNone' /\ \A a \in Atom : Busy(a)' => Busy(a)
      BY <2>1 DEF PlacesInv, OneCopy, IdleHasNone, Idle, Busy, Queued, Taken
    <2>3. \A u \in Worker : at'[u] = "delete" => at[u] = "delete" /\ atom[u] \in Atom
      BY <1>1, <2>1 DEF TypeInv, TypeOK, DispatchTypeOK, Placed
    <2>4. Copied'
      BY <1>2, <2>1, <2>3 DEF PlacesInv, Copied, KeysKept
    <2>5. daemon' \notin {"push", "mark"} /\ Running /\ daemon # "mark"
      BY <2>1 DEF Running
    <2> QED
      BY <1>1, <1>2, <1>3, <2>1, <2>2, <2>4, <2>5, PlacesIf
  <1>14. CASE Drain
    <2>1. /\ daemon = "drain" /\ queue # <<>> /\ queue' = Tail(queue)
          /\ UNCHANGED <<at, atom, sent, daemon, atomStatus>>
      BY <1>14 DEF Drain, tables
    <2> HIDE DEF dispatch, threads, callVars
    <2>2. OneCopy' /\ \A a \in Atom : Busy(a)' => Busy(a)
      BY <1>1, <2>1, TailHeld DEF PlacesInv
    <2>3. \A u \in Worker : at'[u] = "delete" => atom[u] \in Atom
      BY <1>1, <2>1 DEF TypeInv, TypeOK, DispatchTypeOK, Placed
    <2>4. IdleHasNone' /\ Copied'
      BY <1>2, <2>1, <2>3 DEF PlacesInv, IdleHasNone, Idle, Copied, KeysKept
    <2>5. daemon' \notin {"push", "mark"} /\ ~Running'
      BY <2>1 DEF Running
    <2> QED
      BY <1>1, <1>2, <1>3, <2>1, <2>2, <2>4, <2>5, PlacesIf
  <1> QED
    BY <1>5, <1>6, <1>8, <1>9, <1>10, <1>11, <1>12, <1>13, <1>14 DEF DaemonStep

\* Web pages: none of those that are left makes a row pending that there was.
LEMMA WebPlaced == ASSUME PlacesInv, Unretried, Unfed => EmptyInv, Web PROVE PlacesInv'
  <1>1. TypeInv /\ TypeInv'
    BY WebType DEF PlacesInv
  <1>2. KeysKept
    BY <1>1, WebKeepsKeys
  <1>3. AbortMoves' /\ ("abort" \notin Events => abort' = NoAbort)
    BY <1>2, AbortWaits
  <1>4. RowsKept
    <2>1. ~Event("view") /\ ~Event("recycle")
      BY DEF Unretried, Event
    <2> QED
      BY <1>1, <2>1, PageKeepsRows DEF Web, Created, WebEvent
  <1>5. UNCHANGED <<queue, at, atom, sent, daemon, todo, current>>
    BY DEF Web, dispatch, threads, daemonVars
  <1>6. \A a \in Atom : atomStatus'[a] = "pending" =>
          atomStatus[a] = "pending" \/ ~Known(a) \/ ~Running'
    BY <1>4 DEF RowsKept
  <1> QED
    BY <1>1, <1>2, <1>3, <1>5, <1>6, PlacesRows

\* A process that starts, or dies, has nothing in memory.
LEMMA ProcessPlaced ==
  ASSUME PlacesInv, Unretried, Unfed => EmptyInv, Start \/ Crash
  PROVE  PlacesInv'
  <1>1. TypeInv /\ TypeInv'
    BY ProcessType DEF PlacesInv
  <1>2. KeysKept
    BY <1>1, CallsKeepKeys
  <1>3. AbortMoves' /\ ("abort" \notin Events => abort' = NoAbort)
    BY <1>2, AbortWaits
  <1>4. /\ queue' = <<>> /\ \A t \in Worker : at'[t] = "dead" /\ atom'[t] = None
        /\ UNCHANGED <<sent, atomStatus>>
    BY DEF Start, Crash, tables, threads, Live, Alive, PlacesInv, IdleHasNone, Idle
  <1>5. daemon' \notin {"push", "mark"}
    BY DEF Start, Crash
  <1>6. \A a \in Atom : ~Busy(a)'
    BY <1>4, AtomDispatchAssumption DEF Busy, Queued, Taken
  <1>7. OneCopy' /\ IdleHasNone' /\ Copied'
    BY <1>4 DEF OneCopy, IdleHasNone, Idle, Copied
  <1> QED
    BY <1>1, <1>2, <1>3, <1>4, <1>5, <1>6, <1>7, PlacesIf

\* stopAll and haltAll: what a thread that is killed had, it has no more.
LEMMA StopPlaced ==
  ASSUME PlacesInv, Unretried, Unfed => EmptyInv, StopCall \/ HaltCall \/ StopStep
  PROVE  PlacesInv'
  <1>1. TypeInv /\ TypeInv'
    BY StopType DEF PlacesInv
  <1>2. KeysKept
    BY <1>1, CallsKeepKeys
  <1>3. AbortMoves' /\ ("abort" \notin Events => abort' = NoAbort)
    BY <1>2, AbortWaits
  <1>4. UNCHANGED <<queue, sent, daemon, todo, current>>
    BY DEF StopCall, HaltCall, StopStep, StopWake, StopMark, StopKill, StopClose, StopFails, HaltClose,
           dispatch, threads, daemonVars
  <1>5. \A a \in Atom : atomStatus'[a] = "pending" => atomStatus[a] = "pending"
    <2>1. ASSUME NEW t \in Worker, StopMark(t), NEW a \in Atom, atomStatus'[a] = "pending"
          PROVE  atomStatus[a] = "pending"
      BY <2>1 DEF StopMark, UpdateAtoms
    <2> QED
      BY <2>1 DEF StopCall, HaltCall, StopStep, StopWake, StopKill, StopClose, StopFails, HaltClose, tables
  <1>6. CASE UNCHANGED <<at, atom>>
    BY <1>1, <1>2, <1>3, <1>4, <1>5, <1>6, PlacesRows
  <1>7. CASE StopKill
    <2>1. at \in [Worker -> Place] /\ atom \in [Worker -> Atom \cup {None}]
      BY <1>1 DEF TypeInv, TypeOK, DispatchTypeOK
    <2>2. \A t \in Worker : (at'[t] = at[t] /\ atom'[t] = atom[t]) \/ (at'[t] = "dead" /\ atom'[t] = None)
      BY <1>7, <2>1 DEF StopKill, Exit, Goto, threads
    <2>3. \A i \in DOMAIN queue : queue[i] # None
      BY <1>1, AtomDispatchAssumption DEF TypeInv, TypeOK, DispatchTypeOK
    <2>4. OneCopy' /\ IdleHasNone'
      BY <1>4, <2>2, <2>3 DEF PlacesInv, OneCopy, IdleHasNone, Idle
    <2>5. \A a \in Atom : Busy(a)' => Busy(a)
      BY <1>4, <2>2, AtomDispatchAssumption DEF Busy, Queued, Taken
    <2>6. ASSUME NEW t \in Worker, at'[t] = "delete" PROVE Moved(atom[t])' /\ atom'[t] = atom[t]
      <3>1. at[t] = "delete" /\ atom'[t] = atom[t] /\ atom[t] \in Atom
        BY <1>1, <2>2, <2>6 DEF TypeInv, TypeOK, DispatchTypeOK, Placed
      <3> QED
        BY <1>2, <3>1 DEF PlacesInv, Copied, KeysKept
    <2>7. Copied'
      BY <2>6 DEF Copied
    <2> QED
      BY <1>1, <1>2, <1>3, <1>4, <1>5, <2>4, <2>5, <2>7, PlacesIf
  <1> QED
    BY <1>6, <1>7 DEF StopCall, HaltCall, StopStep, StopWake, StopMark, StopClose, StopFails, HaltClose,
                      dispatch, threads

\* A call of abortJob takes atoms out of the queue.
LEMMA AbortCallPlaced ==
  ASSUME PlacesInv, NEW j \in Job, AbortCall(j)
  PROVE  PlacesInv'
  <1>1. TypeInv /\ TypeInv'
    BY AbortType DEF PlacesInv
  <1>2. /\ UNCHANGED <<jobStatus, atomStatus, archived, at, atom, sent, daemon, todo, current>>
        /\ RemoveAtoms(j) /\ "abort" \in Events
        /\ abort' = [at |-> "check", job |-> j, own |-> unbound] \/ abort' = abort
    BY DEF AbortCall, Event, tables, threads, daemonVars
  <1>3. KeysKept
    BY <1>2, UnchangedKeepsRows, KeptIsKept
  <1>4. OneCopy' /\ \A a \in Atom : Busy(a)' => Busy(a)
    BY <1>1, <1>2, RemoveAtomsHeld DEF PlacesInv
  <1>5. IdleHasNone' /\ Copied'
    BY <1>2 DEF PlacesInv, IdleHasNone, Idle, Copied, Moved
  <1>6. AbortMoves'
    BY <1>2 DEF PlacesInv, AbortMoves, AtomsOf, Moved
  <1> QED
    BY <1>1, <1>2, <1>3, <1>4, <1>5, <1>6, PlacesIf

\* The statements of Job.abort: the one that deletes rows has archived them.
LEMMA AbortStepPlaced == ASSUME PlacesInv, AbortStep PROVE PlacesInv'
  <1>1. TypeInv /\ TypeInv' /\ TablesTypeOK /\ abort \in AbortState
    BY AbortType DEF PlacesInv, TypeInv, TypeOK, DaemonTypeOK
  <1>2. /\ UNCHANGED <<queue, at, atom, sent, daemon, todo, current>>
        /\ abort # NoAbort
    BY DEF AbortStep, AbortCheck, AbortAtoms, AbortArchive, AbortDelete, AbortJobRow, AbortFails, AbortAt,
           NoAbort, dispatch, threads, daemonVars
  <1>3. "abort" \in Events
    BY <1>2 DEF PlacesInv
  <1>4. KeysKept /\ AbortMoves' /\ \A a \in Atom : atomStatus'[a] = "pending" => atomStatus[a] = "pending"
    <2>1. CASE AbortCheck \/ AbortFails
      <3>1. UNCHANGED <<jobStatus, atomStatus, archived>> /\ abort'.at # "delete"
        BY <1>1, <2>1 DEF AbortCheck, AbortFails, AbortState, NoAbort, tables
      <3> QED
        BY <3>1, UnchangedKeepsRows, KeptIsKept DEF AbortMoves
    <2>2. CASE AbortAtoms
      <3>1. /\ UNCHANGED <<jobStatus, archived>> /\ abort'.at # "delete"
            /\ UpdateAtoms({a \in AtomsOf(abort.job) : atomStatus[a] # "finished"}, "aborted")
        BY <1>1, <2>2 DEF AbortAtoms, AbortState
      <3>2. KeysKept
        BY <1>1, <3>1, UpdateKeepsKeys DEF Status
      <3> QED
        BY <3>1, <3>2 DEF AbortMoves, UpdateAtoms
    <2>3. CASE AbortArchive
      <3>1. UNCHANGED <<jobStatus, atomStatus>> /\ abort.at = "archive"
        BY <2>3 DEF AbortArchive, AbortAt
      <3>2. CASE abort' = NoAbort /\ archived' = archived
        BY <3>1, <3>2, UnchangedKeepsRows, KeptIsKept DEF AbortMoves, NoAbort
      <3>3. CASE ArchiveAtoms(AtomsOf(abort.job)) /\ abort' = [abort EXCEPT !.at = "delete"]
        <4>1. KeysKept
          BY <3>1, <3>3 DEF ArchiveAtoms, KeysKept, Known, Moved
        <4>2. abort'.job = abort.job
          BY <1>1, <3>3 DEF AbortState
        <4>3. \A a \in AtomsOf(abort.job) : atomStatus[a] # NoRow => archived'[a] # NoRow
          BY <3>3 DEF ArchiveAtoms, AtomsOf
        <4>4. AbortMoves'
          BY <3>1, <4>2, <4>3 DEF AbortMoves, AtomsOf, Moved
        <4> QED
          BY <3>1, <4>1, <4>4
      <3> QED
        BY <2>3, <3>2, <3>3 DEF AbortArchive
    <2>4. CASE AbortDelete
      <3>1. /\ UNCHANGED <<jobStatus, archived>> /\ abort.at = "delete" /\ abort'.at # "delete"
            /\ DeleteAtoms(AtomsOf(abort.job))
        BY <1>1, <2>4 DEF AbortDelete, AbortAt, AbortState
      <3>2. \A a \in AtomsOf(abort.job) : atomStatus[a] # NoRow => Moved(a)
        BY <3>1 DEF PlacesInv, AbortMoves
      <3>3. KeysKept
        BY <3>1, <3>2 DEF KeysKept, Known, Moved, DeleteAtoms
      <3> QED
        BY <3>1, <3>3 DEF AbortMoves, DeleteAtoms, NoRow
    <2>5. CASE AbortJobRow
      <3>1. UNCHANGED <<atomStatus, archived>> /\ UpdateJob(abort.job, "aborted") /\ abort' = NoAbort
        BY <2>5 DEF AbortJobRow
      <3>2. \A k \in Job : jobStatus[k] = Gone => jobStatus'[k] = Gone
        BY <1>1, <3>1 DEF UpdateJob, HasRow, TablesTypeOK, Status, Gone
      <3> QED
        BY <3>1, <3>2, JobsKeepKeys DEF AbortMoves, NoAbort
    <2> QED
      BY <2>1, <2>2, <2>3, <2>4, <2>5 DEF AbortStep
  <1> QED
    BY <1>1, <1>2, <1>3, <1>4, PlacesRows

LEMMA PlacesInit == Init => PlacesInv
  <1>1. Init => TypeInv
    BY TypeInit
  <1>2. Init => OnceInv
    BY OnceInit
  <1>3. Init => abort = NoAbort /\ daemon = "off" /\ \A a \in Atom : atomStatus[a] = NoRow
    BY DEF Init, TablesInit
  <1>4. Init => PendingPlaced /\ TodoFree /\ AbortMoves
    BY <1>3 DEF PendingPlaced, TodoFree, AbortMoves, Running, NoAbort, NoRow
  <1> QED
    BY <1>1, <1>2, <1>3, <1>4 DEF OnceInv, PlacesInv

LEMMA PlacesStep ==
  ASSUME PlacesInv, Unretried, Unfed => EmptyInv, [Next]_vars
  PROVE  PlacesInv'
  <1>1. CASE UNCHANGED vars
    <2>1. TypeInv' /\ KeysKept
      BY <1>1, TypeStep, UnchangedKeepsRows, KeptIsKept DEF PlacesInv, vars, tables
    <2>2. UNCHANGED <<queue, at, atom, sent, daemon, todo, current, abort, atomStatus, archived, jobStatus>>
      BY <1>1 DEF vars, tables, dispatch, threads, daemonVars, callVars
    <2>3. AbortMoves' /\ ("abort" \notin Events => abort' = NoAbort)
      BY <2>2 DEF PlacesInv, AbortMoves, AtomsOf, Moved
    <2> QED
      BY <2>1, <2>2, <2>3, PlacesRows
  <1> QED
    BY <1>1, ThreadPlaced, DaemonPlaced, WebPlaced, ProcessPlaced, StopPlaced, AbortCallPlaced,
       AbortStepPlaced DEF Next

\* An atom is in one place at a time, in the queue or at one thread: AtomFeeder pushes it
\* while its row says pending, statements fail anywhere, the process dies and starts again,
\* jobs are aborted and the scheduler is halted or stopped, which makes rows pending that a
\* thread still holds, and nobody ever makes a second copy of it.
THEOREM HeldOnce == ASSUME Unretried PROVE Spec => []SingleHolder
  <1>1. ASSUME PlacesInv, Unfed => EmptyInv, [Next]_vars PROVE PlacesInv'
    BY <1>1, PlacesStep
  <1>2. PlacesInv => SingleHolder
    BY OneCopyIsSingle DEF PlacesInv
  <1>3. CASE Unfed
    <2>1. Spec => []EmptyInv
      BY <1>3, EmptyAlways
    <2> QED
      BY <1>1, <1>2, <2>1, PlacesInit, PTL DEF Spec
  <1>4. CASE ~Unfed
    <2>1. ASSUME PlacesInv, [Next]_vars PROVE PlacesInv'
      BY <1>1, <1>4, <2>1
    <2> QED
      BY <1>2, <2>1, PlacesInit, PTL DEF Spec
  <1> QED
    BY <1>3, <1>4
-----------------------------------------------------------------------------
(* An atom is in both tables only while it is moved                        *)

InBoth(a)  == atomStatus[a] # NoRow /\ archived[a] # NoRow
NoneTwice  == \A a \in Atom : InBoth(a)' => InBoth(a)
JobsRemain == \A j \in Job : HasRow(j) => HasRow(j)'

LEMMA StatementsMove ==
  ASSUME archived' = archived,
         \/ atomStatus' = atomStatus
         \/ \E S, status : UpdateAtoms(S, status)
         \/ \E S : DeleteAtoms(S)
         \/ \E S : InsertAtoms(NewAtoms(S))
  PROVE  NoneTwice
  BY DEF NoneTwice, InBoth, UpdateAtoms, DeleteAtoms, InsertAtoms, NewAtoms

LEMMA StatementsRemain ==
  ASSUME TablesTypeOK,
         \/ jobStatus' = jobStatus
         \/ \E j, status : status \in Status /\ UpdateJob(j, status)
         \/ \E S, status : status \in Status /\ UpdateJobs(S, status)
         \/ \E j \in Job : jobStatus' = [jobStatus EXCEPT ![j] = "pending"]
  PROVE  JobsRemain
  <1>1. "pending" \in Status
    BY DEF Status
  <1> QED
    BY <1>1 DEF TablesTypeOK, JobsRemain, HasRow, UpdateJob, UpdateJobs

\* Places and calls stay what they were, and no atom comes into both tables.
LEMMA MovingStays ==
  ASSUME MovingInv, TypeInv', Lasting', NoneTwice, faults' = 0 => faults = 0,
         \A t \in Worker : at[t] = "delete" => at'[t] = at[t] /\ atom'[t] = atom[t],
         abort.at = "delete" => abort' = abort
  PROVE  MovingInv'
  <1>1. ASSUME faults' = 0, NEW a \in Atom, InBoth(a)' PROVE Between(a)'
    <2>1. Between(a)
      BY <1>1 DEF MovingInv, NoneTwice, InBoth
    <2> QED
      BY <2>1 DEF Between
  <1> QED
    BY <1>1 DEF MovingInv, InBoth

\* What the calls that Uninterrupted excludes would disturb.
LEMMA LastingStays ==
  ASSUME TypeInv, Lasting, JobsRemain \/ Listed = {}, faults' = 0 => faults = 0, bContinue', stop' = NoStop,
         faults' = 0 => pool' = pool /\ daemon' # "dead",
         daemon' \notin {"drain", "reset", "resetJob", "close"},
         daemon' \in {"insert", "run"} /\ Listed # {} =>
           \/ daemon \in {"insert", "run"} /\ todo' \subseteq todo
           \/ todo' \subseteq {j \in Job : HasRow(j)}
  PROVE  Lasting'
  <1>1. (daemon \in {"insert", "run"} /\ Listed # {} => \A j \in todo : j \in Job /\ HasRow(j))'
    BY DEF Lasting, JobsRemain
  <1> QED
    BY <1>1 DEF Lasting, NoStop

\* A statement that fails is counted, as long as the DBBind is open.
LEMMA FaultCounts ==
  ASSUME TypeInv, DbFault
  PROVE  faults' >= faults /\ (pool => faults' # 0)
  BY DEF DbFault, TypeInv, TypeOK, DispatchTypeOK

LEMMA ThreadFaults ==
  ASSUME TypeInv, NEW t \in Worker, Threads(t)
  PROVE  faults' >= faults
  <1>1. CASE faults' = faults
    BY <1>1, AtomDispatchAssumption DEF TypeInv, TypeOK, DispatchTypeOK
  <1>2. CASE DbFault
    BY <1>2, FaultCounts
  <1> QED
    BY <1>1, <1>2 DEF Threads, WorkerStep, WorkerFault, Begin, LeaveHalted, Pop, PopNothing, Mark,
           Load, Process, ProcessFails, ArchiveInsert, ArchiveRefused, ArchiveDelete, Finish, Interrupt,
           MarkFails, MarkFindsNoConnection, LoadFails, ArchivingFails, InterruptFails,
           InterruptFindsNoConnection

LEMMA ThreadRemain == ASSUME TypeInv, NEW t \in Worker, Threads(t) PROVE JobsRemain
  <1>1. TablesTypeOK /\ "finished" \in Status
    BY DEF TypeInv, TypeOK, Status
  <1>2. jobStatus' = jobStatus \/ UpdateJob(job[t], "finished")
    BY DEF Threads, WorkerStep, WorkerFault, Begin, LeaveHalted, Pop, PopNothing, Mark,
           Load, Process, ProcessFails, ArchiveInsert, ArchiveRefused, ArchiveDelete, Finish, Interrupt,
           MarkFails, MarkFindsNoConnection, LoadFails, ArchivingFails, InterruptFails,
           InterruptFindsNoConnection, tables
  <1> QED
    BY <1>1, <1>2, StatementsRemain

LEMMA ThreadLasting == ASSUME TypeInv, Lasting, NEW t \in Worker, Threads(t) PROVE Lasting'
  <1>1. JobsRemain /\ faults' >= faults /\ faults \in Nat /\ faults' \in Nat
    BY ThreadRemain, ThreadFaults, ThreadType, AtomDispatchAssumption
       DEF TypeInv, TypeOK, DispatchTypeOK
  <1>2. UNCHANGED <<pool, daemon, todo, bContinue, stop>>
    BY DEF Threads, daemonVars, callVars, WorkerStep, WorkerFault, Begin, LeaveHalted, Pop, PopNothing, Mark,
           Load, Process, ProcessFails, ArchiveInsert, ArchiveRefused, ArchiveDelete, Finish, Interrupt,
           MarkFails, MarkFindsNoConnection, LoadFails, ArchivingFails, InterruptFails,
           InterruptFindsNoConnection
  <1>3. faults' = 0 => faults = 0
    BY <1>1
  <1> QED
    BY <1>1, <1>2, <1>3, LastingStays DEF Lasting

LEMMA ThreadMoving == ASSUME MovingInv, NEW t \in Worker, Threads(t) PROVE MovingInv'
  <1>1. TypeInv /\ TypeInv' /\ Lasting /\ Lasting'
    BY ThreadType, ThreadLasting DEF MovingInv
  <1>2. faults' = 0 => faults = 0 /\ pool
    BY <1>1, ThreadFaults, AtomDispatchAssumption DEF TypeInv, TypeOK, DispatchTypeOK, Lasting
  <1>3. abort' = abort
    BY DEF Threads, callVars
  <1>4. \A u \in Worker : u # t => at'[u] = at[u] /\ atom'[u] = atom[u]
    BY <1>1, ThreadPlaces
  <1>5. CASE ArchiveInsert(t)
    <2>1. /\ atom[t] \in Atom /\ atomStatus' = atomStatus /\ atom' = atom /\ at'[t] = "delete"
          /\ at[t] = "archive"
          /\ \A a \in Atom : a # atom[t] => archived'[a] = archived[a]
      BY <1>1, <1>5 DEF ArchiveInsert, ArchiveAtoms, Goto, TypeInv, TypeOK, DispatchTypeOK, Placed
    <2>2. ASSUME faults' = 0, NEW a \in Atom, InBoth(a)' PROVE Between(a)'
      <3>1. CASE a = atom[t]
        BY <2>1, <3>1 DEF Between
      <3>2. CASE a # atom[t]
        <4>1. Between(a)
          BY <1>2, <2>1, <2>2, <3>2 DEF MovingInv, InBoth
        <4> QED
          BY <1>3, <1>4, <2>1, <4>1 DEF Between
      <3> QED
        BY <3>1, <3>2
    <2> QED
      BY <1>1, <2>2 DEF MovingInv, InBoth
  <1>6. CASE ArchiveDelete(t)
    <2>1. /\ atom[t] \in Atom /\ archived' = archived /\ atom' = atom
          /\ DeleteAtoms({atom[t]}) /\ at[t] = "delete"
      BY <1>1, <1>6 DEF ArchiveDelete, TypeInv, TypeOK, DispatchTypeOK, Placed
    <2>2. ASSUME faults' = 0, NEW a \in Atom, InBoth(a)' PROVE Between(a)'
      <3>1. a # atom[t] /\ InBoth(a)
        BY <2>1, <2>2 DEF InBoth, DeleteAtoms
      <3>2. Between(a)
        BY <1>2, <2>2, <3>1 DEF MovingInv, InBoth
      <3> QED
        BY <1>3, <1>4, <3>1, <3>2 DEF Between
    <2> QED
      BY <1>1, <2>2 DEF MovingInv, InBoth
  <1>7. CASE ArchivingFails(t)
    BY <1>1, <1>2, <1>7, FaultCounts DEF ArchivingFails, MovingInv
  <1>8. ASSUME at[t] # "delete", archived' = archived, \/ atomStatus' = atomStatus
                                                       \/ \E S, status : UpdateAtoms(S, status)
        PROVE  MovingInv'
    <2>1. NoneTwice
      BY <1>8, StatementsMove
    <2> QED
      BY <1>1, <1>2, <1>3, <1>4, <1>8, <2>1, MovingStays
  <1> QED
    BY <1>5, <1>6, <1>7, <1>8 DEF Threads, WorkerStep, WorkerFault, Begin, LeaveHalted, Pop, PopNothing,
           Mark, Load, Process, ProcessFails, ArchiveRefused, Finish, Interrupt, MarkFails,
           MarkFindsNoConnection, LoadFails, InterruptFails, InterruptFindsNoConnection, tables

LEMMA DaemonRemain == ASSUME TypeInv, DaemonStep \/ Fatal PROVE JobsRemain
  <1>1. TablesTypeOK /\ {"finished", "running", "pending"} \subseteq Status
    BY DEF TypeInv, TypeOK, Status
  <1>2. \/ jobStatus' = jobStatus
        \/ \E j, status : status \in {"finished", "running", "pending"} /\ UpdateJob(j, status)
    BY DEF DaemonStep, Fatal, Abnormal, LoadRefused, FinishSelect, FinishUpdate, Count, LoadSelect,
           LoadInsert, LoadRun, LoadDone, FeedQuery, FeedPush, FeedMark, FeedDone, Launch, LaunchDone,
           Watch, Leave, Drain, DrainDone, ResetAtoms, ResetJob, ResetDone, Close, tables
  <1> QED
    BY <1>1, <1>2, StatementsRemain

LEMMA DaemonLasting ==
  ASSUME TypeInv, Lasting, DaemonStep \/ Fatal
  PROVE  Lasting' /\ JobsRemain /\ (faults' = 0 => faults = 0)
  <1>2. faults \in Nat /\ bContinue /\ stop = NoStop
    BY AtomDispatchAssumption DEF TypeInv, TypeOK, DispatchTypeOK, Lasting
  <1>3. JobsRemain
    BY DaemonRemain
  <1>4. UNCHANGED <<bContinue, stop>>
    BY DaemonPlaces
  <1>5. ASSUME faults' = faults, pool' = pool,
               daemon' \notin {"dead", "insert", "run", "drain", "reset", "resetJob", "close"}
        PROVE  Lasting'
    BY <1>2, <1>3, <1>4, <1>5, LastingStays
  <1>6. CASE Fatal
    <2>1. daemon' = "dead" /\ faults' >= faults /\ (pool => faults' # 0)
      BY <1>6, FaultCounts DEF Fatal, Abnormal, Lasting
    <2>2. faults' \in Nat
      BY <1>6, DaemonType, AtomDispatchAssumption DEF TypeInv, TypeOK, DispatchTypeOK
    <2>3. faults' = 0 => faults = 0
      BY <1>2, <2>1, <2>2
    <2> QED
      BY <1>2, <1>3, <1>4, <2>1, <2>3, LastingStays DEF Lasting
  <1>7. ASSUME NEW j \in Job PROVE ~LoadRefused(j)
    BY DEF LoadRefused, Lasting, Inserts
  <1> USE DEF tables, dispatch, threads, callVars
  <1>8. CASE LoadSelect
    <2>1. todo' \subseteq {j \in Job : HasRow(j)}
      BY <1>8 DEF LoadSelect, HasRow, Status
    <2>2. daemon' = "insert" /\ UNCHANGED <<faults, pool>>
      BY <1>8 DEF LoadSelect
    <2> QED
      BY <1>2, <1>3, <1>4, <2>1, <2>2, LastingStays
  <1>9. CASE LoadRun \/ \E j \in Job : LoadInsert(j)
    <2>1. daemon \in {"insert", "run"} /\ todo' \subseteq todo /\ UNCHANGED <<faults, pool>>
          /\ daemon' \in {"insert", "run"}
      BY <1>9 DEF LoadRun, LoadInsert
    <2> QED
      BY <1>2, <1>3, <1>4, <2>1, LastingStays
  <1>10. CASE Close \/ Leave \/ Drain \/ DrainDone \/ ResetJob \/ ResetDone \/ \E j \in Job : ResetAtoms(j)
    BY <1>10 DEF Close, Leave, Drain, DrainDone, ResetJob, ResetDone, ResetAtoms, Lasting
  <1>11. CASE FinishSelect \/ Count \/ LoadDone \/ FeedQuery \/ FeedMark \/ FeedDone \/ LaunchDone \/ Watch
    <2>1. /\ daemon' \in {"finish", "select", "load", "query", "push", "launch", "watch"}
          /\ UNCHANGED <<faults, pool>>
      BY <1>11 DEF FinishSelect, Count, LoadDone, FeedQuery, FeedMark, FeedDone, LaunchDone, Watch
    <2>2. daemon' \notin {"dead", "insert", "run", "drain", "reset", "resetJob", "close"}
      BY <2>1
    <2>3. faults' = faults /\ pool' = pool
      BY <2>1
    <2> QED
      BY <1>3, <1>5, <2>2, <2>3
  <1>12. ASSUME NEW x, FinishUpdate(x) \/ FeedPush(x) \/ Launch(x) PROVE Lasting'
    BY <1>5, <1>12 DEF FinishUpdate, FeedPush, Launch
  <1>13. Lasting'
    BY <1>6, <1>7, <1>8, <1>9, <1>10, <1>11, <1>12 DEF DaemonStep
  <1>14. faults' = 0 => faults = 0
    <2>1. CASE faults' = faults
      BY <2>1
    <2>2. CASE Fatal
      <3>1. faults' >= faults /\ faults' \in Nat
        BY <2>2, FaultCounts, DaemonType, AtomDispatchAssumption
           DEF Fatal, TypeInv, TypeOK, DispatchTypeOK
      <3> QED
        BY <1>2, <3>1
    <2> QED
      BY <1>7, <1>8, <1>9, <1>10, <1>11, <1>12, <2>1, <2>2
         DEF DaemonStep, LoadSelect, LoadRun, LoadInsert, FinishSelect, Count, LoadDone, FeedQuery,
             FeedMark, FeedDone, LaunchDone, Watch, FinishUpdate, FeedPush, Launch, Close, Leave,
             Drain, DrainDone, ResetJob, ResetDone, ResetAtoms
  <1> QED
    BY <1>3, <1>13, <1>14

LEMMA DaemonMoving == ASSUME MovingInv, DaemonStep \/ Fatal PROVE MovingInv'
  <1>1. TypeInv /\ TypeInv' /\ Lasting' /\ (faults' = 0 => faults = 0)
    BY DaemonType, DaemonLasting DEF MovingInv
  <1>2. UNCHANGED <<archived, atom, abort>>
        /\ \A t \in Worker : at[t] = "delete" => at'[t] = at[t]
    BY <1>1, DaemonPlaces
  <1>3. \/ atomStatus' = atomStatus
        \/ \E S, status : UpdateAtoms(S, status)
        \/ \E S : InsertAtoms(NewAtoms(S))
    <2>1. ASSUME NEW j \in Job, LoadInsert(j) PROVE \E S : InsertAtoms(NewAtoms(S))
      <3>1. NewAtoms({}) = {}
        BY DEF NewAtoms
      <3> QED
        BY <2>1, <3>1 DEF LoadInsert, Inserts
    <2> QED
      BY <2>1 DEF DaemonStep, Fatal, Abnormal, LoadRefused, FinishSelect, FinishUpdate, Count, LoadSelect,
             LoadRun, LoadDone, FeedQuery, FeedPush, FeedMark, FeedDone, Launch, LaunchDone,
             Watch, Leave, Drain, DrainDone, ResetAtoms, ResetJob, ResetDone, Close, tables
  <1>4. NoneTwice
    BY <1>2, <1>3, StatementsMove
  <1> QED
    BY <1>1, <1>2, <1>4, MovingStays

LEMMA AbortMoving ==
  ASSUME MovingInv, (\E j \in Job : AbortCall(j)) \/ AbortStep
  PROVE  MovingInv'
  <1>1. TypeInv /\ TypeInv' /\ TablesTypeOK /\ faults \in Nat /\ faults' \in Nat /\ abort \in AbortState
    BY AbortType, AtomDispatchAssumption DEF MovingInv, TypeInv, TypeOK, DispatchTypeOK, DaemonTypeOK
  <1>2. UNCHANGED <<at, atom, pool, daemon, todo, bContinue, stop>>
    BY DEF AbortCall, AbortStep, AbortCheck, AbortAtoms, AbortArchive, AbortDelete, AbortJobRow,
           AbortFails, AbortAt, dispatch, threads, daemonVars
  <1>3. JobsRemain
    <2>1. jobStatus' = jobStatus \/ UpdateJob(abort.job, "aborted")
      BY DEF AbortCall, AbortStep, AbortCheck, AbortAtoms, AbortArchive, AbortDelete, AbortJobRow,
             AbortFails, AbortAt, tables
    <2> QED
      BY <1>1, <2>1, StatementsRemain DEF Status
  <1>4. faults' = 0 => faults = 0 /\ ~AbortFails
    <2>1. CASE AbortFails
      BY <1>1, <2>1, FaultCounts DEF AbortFails, MovingInv, Lasting
    <2> QED
      BY <1>1, <2>1 DEF AbortCall, AbortStep, AbortCheck, AbortAtoms, AbortArchive, AbortDelete,
                        AbortJobRow, AbortAt, dispatch
  <1>5. Lasting'
    BY <1>1, <1>2, <1>3, <1>4, LastingStays DEF MovingInv, Lasting
  <1>6. ASSUME NoneTwice, abort.at # "delete" PROVE MovingInv'
    BY <1>1, <1>2, <1>4, <1>5, <1>6, MovingStays
  <1>7. CASE (\E j \in Job : AbortCall(j)) \/ AbortCheck \/ AbortAtoms \/ AbortJobRow
    <2>1. /\ archived' = archived
          /\ atomStatus' = atomStatus \/ \E S, status : UpdateAtoms(S, status)
          /\ abort.at # "delete"
      BY <1>7 DEF AbortCall, AbortCheck, AbortAtoms, AbortJobRow, AbortAt, tables, NoAbort
    <2> QED
      BY <1>6, <2>1, StatementsMove
  <1>8. CASE AbortFails
    <2>1. faults' # 0
      BY <1>4, <1>8
    <2> QED
      BY <1>1, <1>5, <2>1 DEF MovingInv
  <1>9. CASE AbortArchive
    <2>1. CASE archived' = archived
      BY <1>6, <1>9, <2>1, StatementsMove DEF AbortArchive, AbortAt
    <2>2. CASE ArchiveAtoms(AtomsOf(abort.job)) /\ abort' = [abort EXCEPT !.at = "delete"]
      <3>1. /\ abort'.at = "delete" /\ abort'.job = abort.job /\ atomStatus' = atomStatus
            /\ abort.at = "archive"
            /\ \A a \in Atom : JobOf[a] # abort.job => archived'[a] = archived[a]
        BY <1>1, <1>9, <2>2 DEF AbortState, AbortArchive, AbortAt, ArchiveAtoms, AtomsOf
      <3>2. ASSUME faults' = 0, NEW a \in Atom, InBoth(a)' PROVE Between(a)'
        <4>1. CASE JobOf[a] = abort.job
          BY <3>1, <4>1 DEF Between
        <4>2. CASE JobOf[a] # abort.job
          <5>1. Between(a)
            BY <1>4, <3>1, <3>2, <4>2 DEF MovingInv, InBoth
          <5> QED
            BY <1>2, <3>1, <5>1 DEF Between
        <4> QED
          BY <4>1, <4>2
      <3> QED
        BY <1>1, <1>5, <3>2 DEF MovingInv, InBoth
    <2> QED
      BY <1>9, <2>1, <2>2 DEF AbortArchive
  <1>10. CASE AbortDelete
    <2>1. /\ abort'.at = "job" /\ archived' = archived /\ DeleteAtoms(AtomsOf(abort.job))
      BY <1>1, <1>10 DEF AbortDelete, AbortAt, AbortState
    <2>2. ASSUME faults' = 0, NEW a \in Atom, InBoth(a)' PROVE Between(a)'
      <3>1. JobOf[a] # abort.job /\ InBoth(a)
        BY <2>1, <2>2 DEF InBoth, DeleteAtoms, AtomsOf
      <3>2. Between(a)
        BY <1>4, <2>2, <3>1 DEF MovingInv, InBoth
      <3> QED
        BY <1>2, <3>1, <3>2 DEF Between
    <2> QED
      BY <1>1, <1>5, <2>2 DEF MovingInv, InBoth
  <1> QED
    BY <1>7, <1>8, <1>9, <1>10 DEF AbortStep

LEMMA WebRemain ==
  ASSUME TypeInv, Web
  PROVE  JobsRemain \/ Event("delete")
  <1>1. TablesTypeOK /\ "pending" \in Status
    BY DEF TypeInv, TypeOK, Status
  <1>2. CASE WebEvent
    <2>1. \/ jobStatus' = jobStatus \/ Event("delete")
          \/ \E j \in Job : UpdateJob(j, "pending")
      BY <1>2 DEF WebEvent, AddRecipients, ViewAtoms, SuspendAtoms, RetryAtoms, RecycleJob, DelayJob,
                  tables
    <2> QED
      BY <1>1, <2>1, StatementsRemain
  <1>3. CASE Created
    BY <1>1, <1>3, StatementsRemain DEF Created, SendMail, CreateListJob, TimePasses
  <1> QED
    BY <1>2, <1>3 DEF Web

LEMMA WebMoving == ASSUME MovingInv, Uninterrupted, Web PROVE MovingInv'
  <1>1. TypeInv /\ TypeInv'
    BY WebType DEF MovingInv
  <1>2. UNCHANGED <<at, atom, pool, faults, daemon, todo, bContinue, stop, abort>>
    BY DEF Web, dispatch, threads, daemonVars, callVars
  <1>3. JobsRemain \/ Listed = {}
    BY <1>1, WebRemain DEF Uninterrupted, Event
  <1>4. Lasting'
    BY <1>1, <1>2, <1>3, LastingStays DEF MovingInv, Lasting
  <1>5. ASSUME NEW j \in Job, DeleteJob(j) PROVE NoneTwice
    BY <1>5 DEF DeleteJob, DeleteAtoms, AtomsOf, NoneTwice, InBoth
  <1>6. ASSUME archived' = archived PROVE NoneTwice
    <2>1. \/ atomStatus' = atomStatus
          \/ \E S, status : UpdateAtoms(S, status)
          \/ \E S : InsertAtoms(NewAtoms(S))
          \/ \E j \in Job : DeleteJob(j)
      BY DEF Web, Created, WebEvent, SendMail, CreateListJob, TimePasses, AddRecipients, ViewAtoms,
             SuspendAtoms, RetryAtoms, RecycleJob, DelayJob, tables
    <2> QED
      BY <1>5, <1>6, <2>1, StatementsMove
  <1>7. NoneTwice
    <2>1. archived' = archived \/ \E j \in Job : DeleteJob(j)
      BY DEF Web, Created, WebEvent, SendMail, CreateListJob, TimePasses, AddRecipients,
             ViewAtoms, SuspendAtoms, RetryAtoms, RecycleJob, DelayJob, tables
    <2> QED
      BY <1>5, <1>6, <2>1
  <1> QED
    BY <1>1, <1>2, <1>4, <1>7, MovingStays

LEMMA StartMoving == ASSUME MovingInv, Start PROVE MovingInv'
  <1>1. TypeInv /\ TypeInv'
    BY ProcessType DEF MovingInv
  <1>2. /\ UNCHANGED <<tables, at, atom, abort, faults, stop>> /\ bContinue' /\ pool' /\ todo' = {}
        /\ daemon' = "select" /\ stop = NoStop
    BY DEF Start, threads
  <1>3. JobsRemain
    BY <1>1, <1>2, StatementsRemain DEF tables, TypeInv, TypeOK
  <1>4. Lasting'
    BY <1>2 DEF Lasting
  <1>5. NoneTwice
    BY <1>2, StatementsMove DEF tables
  <1> QED
    BY <1>1, <1>2, <1>4, <1>5, MovingStays

LEMMA MovingInit == Init => MovingInv
  <1> SUFFICES ASSUME Init PROVE MovingInv
    OBVIOUS
  <1>1. TypeInv
    BY TypeInit
  <1> QED
    BY <1>1 DEF Init, TablesInit, DispatchInit, MovingInv, Lasting

\* As long as no statement has failed, nobody stops, halts or kills the scheduler and no
\* list loses its job: the place of an atom in both tables is a thread's or abortJob's.
THEOREM MovingAlways == ASSUME Uninterrupted PROVE Spec => []MovingInv
  <1>1. Init => MovingInv
    BY MovingInit
  <1>2. ASSUME MovingInv, [Next]_vars PROVE MovingInv'
    <2>1. CASE UNCHANGED vars
      <3>1. TypeInv'
        BY <1>2, TypeStep DEF MovingInv
      <3>2. UNCHANGED <<atomStatus, archived, jobStatus, at, atom, pool, faults, daemon, todo,
                        bContinue, stop, abort>>
        BY <2>1 DEF vars, tables, dispatch, threads, daemonVars, callVars
      <3>3. Lasting'
        BY <1>2, <3>2 DEF MovingInv, Lasting, HasRow
      <3> QED
        BY <1>2, <3>1, <3>2, <3>3, StatementsMove, MovingStays
    <2>2. ~StopCall /\ ~HaltCall /\ ~Crash
      BY DEF Uninterrupted, StopCall, HaltCall, Crash, Event
    <2>3. ~StopStep
      BY <1>2 DEF MovingInv, Lasting, NoStop, StopStep, StopWake, StopMark, StopKill, StopClose,
                  StopFails, HaltClose
    <2> QED
      BY <1>2, <2>1, <2>2, <2>3, ThreadMoving, DaemonMoving, AbortMoving, WebMoving, StartMoving
         DEF Next
  <1> QED
    BY <1>1, <1>2, PTL DEF Spec

\* WorkerThread.archive and Job.abort copy a row and delete it in two statements: while none
\* fails, an atom is in both tables only when one of them is between the two.
THEOREM ArchivedAreGone == ASSUME Uninterrupted PROVE Spec => []ArchivedOnce
  <1>1. MovingInv => ArchivedOnce
    BY DEF MovingInv, Between, ArchivedOnce
  <1> QED
    BY <1>1, MovingAlways, PTL
-----------------------------------------------------------------------------
(* Rows belong to jobs                                                     *)

\* A row comes with its job, for an atom that is in neither table; a job goes with its rows.
OfJobs ==
  /\ \A a \in Atom : atomStatus[a] = NoRow /\ atomStatus'[a] # NoRow =>
                       HasRow(JobOf[a])' /\ ~Moved(a)'
  /\ \A j \in Job : HasRow(j) => HasRow(j)' \/ NoRowsOf(j)'

LEMMA StatementsOfJobs ==
  ASSUME JobsRemain,
         \/ atomStatus' = atomStatus
         \/ \E S, status : UpdateAtoms(S, status)
         \/ \E S : DeleteAtoms(S)
         \/ /\ archived' = archived
            /\ \E j \in Job : \E S \in SUBSET AtomsOf(j) : InsertAtoms(NewAtoms(S)) /\ HasRow(j)'
  PROVE  OfJobs
  <1>1. \A j \in Job : HasRow(j) => HasRow(j)' \/ NoRowsOf(j)'
    BY DEF JobsRemain
  <1>2. CASE /\ archived' = archived
             /\ \E j \in Job : \E S \in SUBSET AtomsOf(j) : InsertAtoms(NewAtoms(S)) /\ HasRow(j)'
    <2> PICK j \in Job : \E S \in SUBSET AtomsOf(j) : InsertAtoms(NewAtoms(S)) /\ HasRow(j)'
      BY <1>2
    <2>1. PICK S \in SUBSET AtomsOf(j) : InsertAtoms(NewAtoms(S)) /\ HasRow(j)'
      OBVIOUS
    <2>2. \A a \in NewAtoms(S) : archived[a] = NoRow /\ JobOf[a] = j
      BY DEF NewAtoms, AtomsOf
    <2>3. jobStatus'[j] # Gone
      BY <2>1 DEF HasRow, Status, Gone
    <2> QED
      BY <1>1, <1>2, <2>1, <2>2, <2>3 DEF OfJobs, InsertAtoms, Moved
  <1> QED
    BY <1>1, <1>2 DEF OfJobs, UpdateAtoms, DeleteAtoms

LEMMA ThreadOfJobs == ASSUME TypeInv, NEW t \in Worker, Threads(t) PROVE OfJobs
  <1>1. JobsRemain
    BY ThreadRemain
  <1>2. \/ atomStatus' = atomStatus
        \/ \E S, status : UpdateAtoms(S, status)
        \/ \E S : DeleteAtoms(S)
    BY DEF Threads, WorkerStep, WorkerFault, Begin, LeaveHalted, Pop, PopNothing, Mark, Load,
           Process, ProcessFails, ArchiveInsert, ArchiveRefused, ArchiveDelete, Finish, Interrupt,
           MarkFails, MarkFindsNoConnection, LoadFails, ArchivingFails, InterruptFails,
           InterruptFindsNoConnection, tables
  <1> QED
    BY <1>1, <1>2, StatementsOfJobs

\* What the daemon inserts, and what else it writes into the rows of atoms.
LEMMA DaemonWrites ==
  ASSUME TypeInv, DaemonStep \/ Fatal
  PROVE  \/ atomStatus' = atomStatus
         \/ FeedMark
         \/ \E j \in Job : ResetAtoms(j)
         \/ /\ archived' = archived
            /\ \E j \in Job : \E S \in SUBSET AtomsOf(j) : InsertAtoms(NewAtoms(S)) /\ HasRow(j)'
  <1>1. ASSUME NEW j \in Job, LoadInsert(j)
        PROVE  \/ atomStatus' = atomStatus
               \/ /\ archived' = archived
                  /\ \E k \in Job : \E S \in SUBSET AtomsOf(k) : InsertAtoms(NewAtoms(S)) /\ HasRow(k)'
    <2>1. CASE Inserts(j) = {}
      <3>1. atomStatus' = [a \in Atom |-> atomStatus[a]]
        BY <1>1, <2>1 DEF LoadInsert, InsertAtoms
      <3> QED
        BY <3>1 DEF TypeInv, TypeOK, TablesTypeOK
    <2>2. CASE Inserts(j) # {}
      <3>1. HasRow(j) /\ UNCHANGED <<jobStatus, archived>> /\ InsertAtoms(NewAtoms(AtomsOf(j)))
        BY <1>1, <2>2 DEF LoadInsert, Inserts
      <3>2. HasRow(j)'
        BY <3>1 DEF HasRow
      <3> QED
        BY <3>1, <3>2
    <2> QED
      BY <2>1, <2>2
  <1> QED
    BY <1>1 DEF DaemonStep, Fatal, Abnormal, LoadRefused, FinishSelect, FinishUpdate,
                Count, LoadSelect, LoadRun, LoadDone, FeedQuery, FeedPush, FeedDone, Launch,
                LaunchDone, Watch, Leave, Drain, DrainDone, ResetJob, ResetDone, Close, tables

LEMMA WebOfJobs == ASSUME TypeInv, Web PROVE OfJobs
  <1>1. TablesTypeOK
    BY DEF TypeInv, TypeOK
  <1>2. ASSUME NEW j \in Job, NEW time, SendMail(j, time) PROVE OfJobs
    <2>1. JobsRemain /\ HasRow(j)'
      BY <1>1, <1>2 DEF SendMail, TablesTypeOK, JobsRemain, HasRow, Status
    <2>2. InsertAtoms(NewAtoms(AtomsOf(j) \ Late)) /\ archived' = archived
      BY <1>2 DEF SendMail
    <2> QED
      BY <2>1, <2>2, StatementsOfJobs
  <1>3. ASSUME NEW j \in Job, NEW time, CreateListJob(j, time) PROVE OfJobs
    <2>1. JobsRemain /\ atomStatus' = atomStatus
      BY <1>1, <1>3, StatementsRemain DEF CreateListJob
    <2> QED
      BY <2>1, StatementsOfJobs
  <1>4. ASSUME NEW j \in Job, AddRecipients(j) PROVE OfJobs
    <2>1. /\ InsertAtoms(NewAtoms(AtomsOf(j) \cap Late)) /\ jobStatus' = jobStatus /\ HasRow(j)
          /\ archived' = archived
      BY <1>4 DEF AddRecipients
    <2>2. JobsRemain /\ HasRow(j)'
      BY <2>1 DEF JobsRemain, HasRow
    <2> QED
      BY <2>1, <2>2, StatementsOfJobs
  <1>5. ASSUME NEW j \in Job, DeleteJob(j) PROVE OfJobs
    <2>1. /\ jobStatus' = [jobStatus EXCEPT ![j] = Gone]
          /\ atomStatus' = [a \in Atom |-> IF a \in AtomsOf(j) THEN NoRow ELSE atomStatus[a]]
      BY <1>5 DEF DeleteJob, DeleteAtoms
    <2>2. NoRowsOf(j)' /\ \A k \in Job : k # j => jobStatus'[k] = jobStatus[k]
      BY <1>1, <2>1 DEF NoRowsOf, AtomsOf, TablesTypeOK
    <2> QED
      BY <2>1, <2>2 DEF OfJobs, HasRow
  <1>6. ASSUME \/ atomStatus' = atomStatus
               \/ \E S, status : UpdateAtoms(S, status),
               jobStatus' = jobStatus \/ \E j \in Job : UpdateJob(j, "pending")
        PROVE  OfJobs
    <2>1. JobsRemain
      BY <1>1, <1>6, StatementsRemain DEF Status
    <2> QED
      BY <1>6, <2>1, StatementsOfJobs
  <1>7. CASE Created
    BY <1>2, <1>3, <1>6, <1>7 DEF Created, TimePasses
  <1>8. CASE WebEvent
    BY <1>4, <1>5, <1>6, <1>8 DEF WebEvent, DelayJob, ViewAtoms, SuspendAtoms, RetryAtoms, RecycleJob, tables
  <1> QED
    BY <1>7, <1>8 DEF Web

LEMMA CallsOfJobs ==
  ASSUME TypeInv, Start \/ Crash \/ StopCall \/ HaltCall \/ StopStep
  PROVE  OfJobs
  <1>1. TablesTypeOK /\ {"suspended", "interrupted"} \subseteq Status
    BY DEF TypeInv, TypeOK, Status
  <1>2. atomStatus' = atomStatus \/ \E S, status : UpdateAtoms(S, status)
    BY DEF Start, Crash, StopCall, HaltCall, StopStep, StopWake, StopMark, StopKill,
           StopClose, StopFails, HaltClose, tables
  <1>3. \/ jobStatus' = jobStatus
        \/ \E S, status : status \in {"suspended", "interrupted"} /\ UpdateJobs(S, status)
    BY DEF Start, Crash, StopCall, HaltCall, StopStep, StopWake, StopMark, StopKill,
           StopClose, StopFails, HaltClose, tables
  <1>4. JobsRemain
    BY <1>1, <1>3, StatementsRemain
  <1> QED
    BY <1>2, <1>4, StatementsOfJobs

LEMMA NextOfJobs == ASSUME TypeInv, abort = NoAbort, Unaborted, [Next]_vars PROVE OfJobs
  <1>1. CASE UNCHANGED vars
    BY <1>1 DEF vars, tables, OfJobs, HasRow
  <1>2. CASE DaemonStep \/ Fatal
    BY <1>2, DaemonRemain, DaemonWrites, StatementsOfJobs DEF FeedMark, ResetAtoms
  <1> QED
    BY <1>1, <1>2, NoAborts, ThreadOfJobs, WebOfJobs, CallsOfJobs DEF Next
-----------------------------------------------------------------------------
(* A row that is running has somebody who works on it                      *)

LEMMA RowsStayWithJobs == ASSUME RowsOfJobs, OfJobs PROVE RowsOfJobs'
  <1> SUFFICES ASSUME NEW a \in Atom, atomStatus'[a] # NoRow PROVE HasRow(JobOf[a])'
    BY DEF RowsOfJobs
  <1>1. CASE atomStatus[a] = NoRow
    BY <1>1 DEF OfJobs
  <1>2. CASE atomStatus[a] # NoRow
    BY <1>2, JobTablesAssumption DEF OfJobs, NoRowsOf, AtomsOf, RowsOfJobs
  <1> QED
    BY <1>1, <1>2

\* A thread that leaves an atom leaves no row that is running.
LEMMA TrackedStays ==
  ASSUME TrackedInv, RowsInv', MovingInv', OfJobs, KeysKept, LetGo', IdleHasNone',
         \A a \in Atom : Busy(a) => Busy(a)' \/ atomStatus'[a] = NoRow
                                    \/ (atomStatus'[a] # "running" /\ ~(daemon' = "mark" /\ current' = a)),
         \A a \in Atom : atomStatus'[a] = "running" => atomStatus[a] = "running" \/ Busy(a)',
         daemon' = "off" => queue' = <<>>,
         daemon' = "mark" => \/ UNCHANGED <<daemon, current, todo>>
                             \/ current' \in todo' /\ Busy(current)'
  PROVE  TrackedInv'
  <1>1. (\A a \in Atom : atomStatus[a] = "running" => Busy(a))'
    <2> SUFFICES ASSUME NEW a \in Atom, atomStatus'[a] = "running" PROVE Busy(a)'
      OBVIOUS
    <2>1. CASE Busy(a)
      BY <2>1 DEF NoRow
    <2>2. CASE ~Busy(a)
      BY <2>2 DEF TrackedInv
    <2> QED
      BY <2>1, <2>2
  <1>2. RowsOfJobs'
    BY RowsStayWithJobs DEF TrackedInv
  <1>3. ASSUME daemon' = "mark", UNCHANGED <<daemon, current, todo>>
        PROVE  current' \in todo' /\ (Busy(current)' \/ atomStatus'[current'] = NoRow)
    <2>1. /\ daemon = "mark" /\ current \in todo /\ current \in Atom /\ Known(current)
          /\ Busy(current) \/ atomStatus[current] = NoRow
      BY <1>3 DEF TrackedInv, RowsInv
    <2> PICK a \in Atom : a = current
      BY <2>1
    <2>2. CASE Busy(a)
      BY <1>3, <2>1, <2>2 DEF Busy, Queued, Taken
    <2>3. CASE ~Busy(a)
      <3>1. atomStatus[a] = NoRow /\ Moved(a)
        BY <2>1, <2>3 DEF Known
      <3>2. atomStatus'[a] = NoRow
        BY <3>1 DEF OfJobs, KeysKept
      <3> QED
        BY <1>3, <2>1, <3>2
    <2> QED
      BY <2>2, <2>3
  <1>4. (daemon = "mark" => current \in todo /\ (Busy(current) \/ atomStatus[current] = NoRow))'
    BY <1>3
  <1> QED
    BY <1>1, <1>2, <1>4 DEF TrackedInv

\* An atom that anybody holds, and that has no row, gets none.
LEMMA HeldStays ==
  ASSUME RowsInv, OfJobs, KeysKept
  PROVE  /\ \A t \in Worker : at[t] \notin Idle => atom[t] \in Atom /\ Known(atom[t])
         /\ \A a \in Atom : Known(a) /\ atomStatus[a] = NoRow => atomStatus'[a] = NoRow
  BY DEF RowsInv, TypeInv, TypeOK, DispatchTypeOK, Placed, Idle, KnownHeld, Known, OfJobs, KeysKept

LEMMA LetGoStays ==
  ASSUME TrackedInv, OfJobs, KeysKept,
         \A t \in Worker : at'[t] \in {"finish", "interrupt"} => at'[t] = at[t] /\ atom'[t] = atom[t]
  PROVE  LetGo'
  <1>1. /\ \A t \in Worker : at[t] \notin Idle => atom[t] \in Atom /\ Known(atom[t])
        /\ \A a \in Atom : Known(a) /\ atomStatus[a] = NoRow => atomStatus'[a] = NoRow
    BY HeldStays DEF TrackedInv
  <1>2. ASSUME NEW t \in Worker, at'[t] = "finish" PROVE atomStatus'[atom'[t]] = NoRow
    BY <1>1, <1>2 DEF TrackedInv, LetGo, Idle
  <1>3. ASSUME NEW t \in Worker, at'[t] = "interrupt" PROVE Moved(atom[t])' 
    <2>1. at[t] = "interrupt" /\ atom'[t] = atom[t] /\ atom[t] \in Atom /\ Moved(atom[t])
      BY <1>1, <1>3 DEF TrackedInv, LetGo, Idle
    <2> PICK a \in Atom : a = atom[t]
      BY <2>1
    <2>2. Moved(a)'
      BY <2>1 DEF KeysKept
    <2> QED
      BY <2>1, <2>2 DEF Moved
  <1> QED
    BY <1>2, <1>3 DEF LetGo

\* No statement fails, and no thread finds its connection closed.
LEMMA NothingFails ==
  ASSUME MovingInv, Steady
  PROVE  pool /\ daemon # "dead" /\ ~DbFault /\ faults = 0
  BY DEF MovingInv, Lasting, TypeInv, TypeOK, DispatchTypeOK, Steady, DbFault

LEMMA PopIsTaken ==
  ASSUME TypeInv, IdleHasNone, NEW t \in Worker, Pop(t), NEW a \in Atom, Busy(a)
  PROVE  Busy(a)'
  <1>1. /\ queue \in Seq(Atom) /\ queue # <<>> /\ queue' = Tail(queue) /\ at[t] = "loop"
        /\ atom' = [atom EXCEPT ![t] = Head(queue)] /\ atom \in [Worker -> Atom \cup {None}]
    BY DEF Pop, TypeInv, TypeOK, DispatchTypeOK
  <1>2. a # None /\ atom[t] = None
    BY <1>1, AtomDispatchAssumption DEF IdleHasNone, Idle
  <1>3. CASE Taken(a)
    BY <1>1, <1>2, <1>3 DEF Taken, Busy
  <1>4. CASE Queued(a)
    <2>1. PICK i \in DOMAIN queue : queue[i] = a
      BY <1>4 DEF Queued
    <2>2. CASE i = 1
      BY <1>1, <2>1, <2>2 DEF Taken, Busy
    <2>3. CASE i # 1
      <3>1. i - 1 \in DOMAIN queue' /\ queue'[i - 1] = a
        BY <1>1, <2>1, <2>3
      <3> QED
        BY <3>1 DEF Queued, Busy
    <2> QED
      BY <2>2, <2>3
  <1> QED
    BY <1>3, <1>4 DEF Busy

LEMMA ThreadTracked ==
  ASSUME TrackedInv, Steady, OfJobs, KeysKept, RowsInv', MovingInv', NEW t \in Worker, Threads(t)
  PROVE  TrackedInv'
  <1>1. /\ TypeInv /\ pool /\ ~DbFault /\ IdleHasNone /\ abort = NoAbort
        /\ at \in [Worker -> Place] /\ atom \in [Worker -> Atom \cup {None}]
    BY NothingFails DEF TrackedInv, MovingInv, RowsInv, TypeInv, TypeOK, DispatchTypeOK
  <1>2. UNCHANGED <<daemon, current, todo>>
    BY DEF Threads, daemonVars
  <1>3. /\ \A u \in Worker : u # t => at'[u] = at[u] /\ atom'[u] = atom[u]
        /\ at'[t] \notin Idle => Pop(t) \/ (at[t] \notin Idle /\ atom'[t] = atom[t])
        /\ at'[t] = "finish" => ArchiveDelete(t)
        /\ queue' = queue \/ Pop(t)
    BY <1>1, ThreadPlaces
  <1>4. /\ \A u \in Worker : at[u] \notin Idle => atom[u] \in Atom /\ Known(atom[u])
        /\ \A a \in Atom : Known(a) /\ atomStatus[a] = NoRow => atomStatus'[a] = NoRow
    BY HeldStays DEF TrackedInv
  <1>5. \/ Begin(t) \/ LeaveHalted(t) \/ Pop(t) \/ PopNothing(t) \/ Mark(t) \/ Load(t) \/ Process(t)
        \/ ArchiveInsert(t) \/ ArchiveRefused(t) \/ ArchiveDelete(t) \/ Finish(t) \/ Interrupt(t)
        \/ LoadFails(t) /\ ~HasRow(JobOf[atom[t]])
    BY <1>1 DEF Steady, Threads, WorkerStep, WorkerFault, ProcessFails, MarkFails,
                MarkFindsNoConnection, LoadFails, ArchivingFails, InterruptFails,
                InterruptFindsNoConnection
  <1>6. IdleHasNone'
    <2>1. at'[t] \in Idle => atom'[t] = None
      BY <1>1, <1>5 DEF Begin, LeaveHalted, Pop, PopNothing, Mark, Load, Process, ArchiveInsert,
             ArchiveRefused, ArchiveDelete, Finish, Interrupt, LoadFails, Goto, Exit, NextRound,
             IdleHasNone, Idle
    <2> QED
      BY <1>1, <1>3, <2>1 DEF IdleHasNone
  <1>7. LetGo'
    <2>1. CASE ArchiveDelete(t)
      <3>1. at'[t] = "finish" /\ atom' = atom /\ atom[t] \in Atom /\ atomStatus'[atom[t]] = NoRow
        BY <1>1, <1>4, <2>1 DEF ArchiveDelete, DeleteAtoms, Goto, Idle
      <3>2. \A u \in Worker : at'[u] = "finish" => atomStatus'[atom'[u]] = NoRow
        BY <1>3, <1>4, <3>1 DEF TrackedInv, LetGo, Idle
      <3>3. ASSUME NEW u \in Worker, at'[u] = "interrupt" PROVE Moved(atom[u])'
        <4>1. at[u] = "interrupt" /\ atom[u] \in Atom /\ Moved(atom[u])
          BY <1>3, <1>4, <3>1, <3>3 DEF TrackedInv, LetGo, Idle
        <4> PICK a \in Atom : a = atom[u]
          BY <4>1
        <4>2. Moved(a)'
          BY <4>1 DEF KeysKept
        <4> QED
          BY <3>1, <4>2 DEF Moved
      <3> QED
        BY <3>2, <3>3 DEF LetGo
    <2>2. CASE ArchiveRefused(t)
      <3>1. UNCHANGED <<jobStatus, atomStatus, archived, atom>> /\ Moved(atom[t])
        BY <2>2 DEF ArchiveRefused, CanArchive, Moved, tables
      <3> QED
        BY <1>3, <2>2, <3>1 DEF LetGo, Moved, TrackedInv, ArchiveRefused, ArchiveDelete
    <2>3. CASE ~ArchiveDelete(t) /\ ~ArchiveRefused(t)
      <3>1. at'[t] \notin {"finish", "interrupt"}
        BY <1>1, <1>5, <2>3 DEF Begin, LeaveHalted, Pop, PopNothing, Mark, Load, Process, ArchiveInsert,
             Finish, Interrupt, LoadFails, Goto, Exit, NextRound
      <3> QED
        BY <1>3, <3>1, LetGoStays
    <2> QED
      BY <2>1, <2>2, <2>3
  <1>8. ASSUME NEW a \in Atom, Busy(a) PROVE Busy(a)' \/ atomStatus'[a] = NoRow
    <2>1. a # None
      BY AtomDispatchAssumption
    <2>2. CASE Pop(t)
      BY <1>1, <1>8, <2>2, PopIsTaken
    <2>3. CASE ~Pop(t) /\ (atom[t] # a \/ atom'[t] = a)
      BY <1>3, <1>8, <2>3 DEF Busy, Queued, Taken
    <2>4. CASE ~Pop(t) /\ atom[t] = a /\ atom'[t] # a
      <3>1. at[t] \notin Idle
        BY <1>1, <2>1, <2>4 DEF IdleHasNone
      <3>2. \/ Finish(t) \/ Interrupt(t)
            \/ LoadFails(t) /\ ~HasRow(JobOf[a])
        BY <1>5, <2>4, <3>1 DEF Begin, LeaveHalted, PopNothing, Mark, Load, Process, ArchiveInsert,
             ArchiveRefused, ArchiveDelete, Idle
      <3>3. CASE Finish(t)
        BY <2>4, <3>3 DEF Finish, TrackedInv, LetGo
      <3>4. CASE LoadFails(t) /\ ~HasRow(JobOf[a])
        BY <2>4, <3>4 DEF LoadFails, TrackedInv, RowsOfJobs, tables
      <3>5. CASE Interrupt(t)
        <4>1. Moved(a) /\ at[t] = "interrupt"
          BY <2>4, <3>5 DEF Interrupt, TrackedInv, LetGo
        <4>2. CASE atomStatus[a] = NoRow
          BY <1>4, <4>1, <4>2 DEF Known
        <4>3. CASE atomStatus[a] # NoRow
          <5>1. HasRow(JobOf[a])
            BY <4>3 DEF TrackedInv, RowsOfJobs
          <5>2. jobStatus[JobOf[a]] # Gone
            BY <5>1 DEF HasRow, Status, Gone
          <5>3. InBoth(a)
            BY <4>1, <4>3, <5>2 DEF Moved, InBoth
          <5>4. Between(a)
            BY <5>3, NothingFails DEF TrackedInv, MovingInv, InBoth
          <5>5. PICK u \in Worker : atom[u] = a /\ at[u] = "delete"
            BY <1>1, <5>4 DEF Between, NoAbort
          <5>6. atom'[u] = a
            BY <1>3, <4>1, <5>5
          <5> QED
            BY <5>6 DEF Busy, Taken
        <4> QED
          BY <4>2, <4>3
      <3> QED
        BY <3>2, <3>3, <3>4, <3>5
    <2> QED
      BY <2>2, <2>3, <2>4
  <1>9. ASSUME NEW a \in Atom, atomStatus'[a] = "running" PROVE atomStatus[a] = "running" \/ Busy(a)'
    <2>1. CASE Mark(t)
      BY <1>9, <2>1 DEF Mark, UpdateAtoms, Busy, Taken
    <2>2. CASE ~Mark(t)
      BY <1>5, <1>9, <2>2 DEF Begin, LeaveHalted, Pop, PopNothing, Load, Process, ArchiveInsert,
             ArchiveRefused, ArchiveDelete, Finish, Interrupt, LoadFails, UpdateAtoms, DeleteAtoms, tables, NoRow
    <2> QED
      BY <2>1, <2>2
  <1>10. daemon' = "off" => queue' = <<>>
    BY <1>2, <1>3 DEF TrackedInv, Pop
  <1> QED
    BY <1>2, <1>6, <1>7, <1>8, <1>9, <1>10, TrackedStays

LEMMA DaemonTracked ==
  ASSUME TrackedInv, Steady, OfJobs, KeysKept, RowsInv', MovingInv', DaemonStep \/ Fatal
  PROVE  TrackedInv'
  <1>1. /\ TypeInv /\ pool /\ ~DbFault /\ IdleHasNone /\ queue \in Seq(Atom) /\ stop = NoStop
        /\ daemon \notin {"drain", "reset", "resetJob", "close"} /\ bContinue
    BY NothingFails DEF TrackedInv, MovingInv, Lasting, RowsInv, TypeInv, TypeOK, DispatchTypeOK
  <1>2. daemon' # "dead"
    <2>1. faults' = 0
      BY DEF MovingInv, TypeInv, TypeOK, DispatchTypeOK, Steady
    <2> QED
      BY <2>1 DEF MovingInv, Lasting
  <1>3. atom' = atom /\ \A t \in Worker : at'[t] = at[t] \/ (at[t] = "dead" /\ at'[t] = "begin")
    BY <1>1, DaemonPlaces
  <1>4. /\ ~Fatal /\ ~Leave /\ ~Drain /\ ~DrainDone /\ ~ResetJob /\ ~ResetDone /\ ~Close
        /\ \A j \in Job : ~LoadRefused(j) /\ ~ResetAtoms(j)
    BY <1>1, <1>2 DEF Fatal, Leave, Drain, DrainDone, ResetJob, ResetDone, Close, LoadRefused,
                      Abnormal, ResetAtoms
  <1>5. IdleHasNone'
    BY <1>3 DEF TrackedInv, IdleHasNone, Idle
  <1>6. LetGo'
    BY <1>3, LetGoStays
  <1>7. queue' = queue \/ \E a \in Atom : FeedPush(a)
    BY <1>4 DEF DaemonStep, FinishSelect, FinishUpdate, Count, LoadSelect, LoadInsert, LoadRun, LoadDone,
           FeedQuery, FeedMark, FeedDone, Launch, LaunchDone, Watch, dispatch
  <1>8. ASSUME NEW a \in Atom, FeedPush(a)
        PROVE  /\ \A i \in DOMAIN queue : i \in DOMAIN queue' /\ queue'[i] = queue[i]
               /\ Queued(a)' /\ current' = a /\ a \in todo' /\ daemon' = "mark"
    <2>1. queue' = Append(queue, a) /\ current' = a /\ a \in todo' /\ daemon' = "mark"
      BY <1>8 DEF FeedPush, Push
    <2>2. Len(queue) + 1 \in DOMAIN queue' /\ queue'[Len(queue) + 1] = a
      BY <1>1, <2>1
    <2>3. Queued(a)'
      BY <2>2 DEF Queued
    <2> QED
      BY <1>1, <2>1, <2>3
  <1>9. ASSUME NEW a \in Atom, Busy(a) PROVE Busy(a)'
    BY <1>3, <1>7, <1>8, <1>9 DEF Busy, Queued, Taken
  <1>10. ASSUME NEW a \in Atom, atomStatus'[a] = "running" PROVE atomStatus[a] = "running" \/ Busy(a)'
    <2>1. CASE FeedMark
      <3>1. atomStatus[a] = "running" \/ (a = current /\ atomStatus[a] # NoRow /\ daemon = "mark")
        BY <1>10, <2>1 DEF FeedMark, UpdateAtoms
      <3> QED
        BY <1>9, <3>1 DEF TrackedInv
    <2>2. CASE ~FeedMark
      BY <1>4, <1>10, <2>2, DaemonWrites DEF InsertAtoms, TrackedInv, MovingInv
    <2> QED
      BY <2>1, <2>2
  <1>11. daemon' # "off"
    BY <1>4 DEF DaemonStep, FinishSelect, FinishUpdate, Count, LoadSelect, LoadInsert, LoadRun, LoadDone,
           FeedQuery, FeedPush, FeedMark, FeedDone, Launch, LaunchDone, Watch
  <1>12. daemon' = "mark" => \E a \in Atom : FeedPush(a)
    BY <1>4 DEF DaemonStep, FinishSelect, FinishUpdate, Count, LoadSelect, LoadInsert, LoadRun, LoadDone,
           FeedQuery, FeedMark, FeedDone, Launch, LaunchDone, Watch
  <1>13. daemon' = "mark" => current' \in todo' /\ Busy(current)'
    BY <1>8, <1>12 DEF Busy, Queued
  <1> QED
    BY <1>5, <1>6, <1>9, <1>10, <1>11, <1>13, TrackedStays

LEMMA OtherTracked ==
  ASSUME TrackedInv, Steady, OfJobs, KeysKept, RowsInv', MovingInv', Web \/ Start \/ UNCHANGED vars
  PROVE  TrackedInv'
  <1>1. UNCHANGED <<queue, at, atom>> /\ (daemon' \in {"off", "mark"} => UNCHANGED <<daemon, current, todo>>)
    <2>1. CASE Start
      <3>1. queue = <<>>
        BY <2>1, NothingFails DEF Start, TrackedInv
      <3> QED
        BY <2>1, <3>1 DEF Start, threads
    <2> QED
      BY <2>1 DEF Web, vars, dispatch, threads, daemonVars
  <1>2. LetGo' /\ IdleHasNone'
    BY <1>1, LetGoStays DEF TrackedInv, IdleHasNone
  <1>3. \A a \in Atom : Busy(a) => Busy(a)'
    BY <1>1 DEF Busy, Queued, Taken
  <1>4. \A a \in Atom : atomStatus'[a] = "running" => atomStatus[a] = "running"
    BY DEF Web, Start, vars, Created, WebEvent, SendMail, CreateListJob, TimePasses, AddRecipients,
           ViewAtoms, SuspendAtoms, RetryAtoms, RecycleJob, DelayJob, DeleteJob, UpdateAtoms,
           InsertAtoms, DeleteAtoms, tables, NoRow
  <1> QED
    BY <1>1, <1>2, <1>3, <1>4, TrackedStays DEF TrackedInv

\* What the feeder, the queue and the threads have is all that is running, as long as
\* nothing fails and nobody stops, halts, kills or aborts: suspended, retried, recycled,
\* delayed and added messages included.
THEOREM TrackedAlways == ASSUME Steady PROVE Spec => []TrackedInv
  <1>1. Init => TrackedInv
    <2> SUFFICES ASSUME Init PROVE TrackedInv
      OBVIOUS
    <2>1. RowsInv /\ MovingInv
      BY RowsInit, MovingInit
    <2>2. IdleHasNone /\ LetGo /\ RowsOfJobs
      BY DEF Init, TablesInit, DispatchInit, IdleHasNone, LetGo, RowsOfJobs, Idle
    <2> QED
      BY <2>1, <2>2 DEF Init, TablesInit, DispatchInit, TrackedInv, NoRow
  <1>2. ASSUME TrackedInv, RowsInv', MovingInv', [Next]_vars PROVE TrackedInv'
    <2>1. RowsInv /\ MovingInv /\ abort = NoAbort /\ Unaborted /\ TypeInv /\ Lasting
      BY <1>2 DEF TrackedInv, RowsInv, MovingInv, Steady
    <2>2. OfJobs /\ KeysKept
      BY <1>2, <2>1, NextOfJobs, NextKeepsKeys
    <2>3. ~StopCall /\ ~HaltCall /\ ~Crash
      BY DEF Steady, Uninterrupted, StopCall, HaltCall, Crash, Event
    <2>4. ~StopStep
      BY <2>1 DEF Lasting, NoStop, StopStep, StopWake, StopMark, StopKill, StopClose, StopFails, HaltClose
    <2> QED
      BY <1>2, <2>1, <2>2, <2>3, <2>4, NoAborts, ThreadTracked, DaemonTracked, OtherTracked DEF Next
  <1>3. (Spec => []RowsInv) /\ (Spec => []MovingInv)
    BY RowsAlways, MovingAlways DEF Steady
  <1> QED
    BY <1>1, <1>2, <1>3, PTL DEF Spec

\* What somebody holds is counted.
LEMMA BusyOccurs == ASSUME TypeInv, NEW a \in Atom, Busy(a) PROVE Occurrences(a) > 0
  <1> DEFINE places == {i \in DOMAIN queue : queue[i] = a}
             holders == {t \in Worker : atom[t] = a}
  <1>1. IsFiniteSet(DOMAIN queue)
    BY FS_Interval DEF TypeInv, TypeOK, DispatchTypeOK
  <1>2. IsFiniteSet(places) /\ IsFiniteSet(holders)
    BY <1>1, AtomDispatchAssumption, FS_Subset
  <1>3. places # {} \/ holders # {}
    BY DEF Busy, Queued, Taken
  <1>4. Occurrences(a) = Cardinality(places) + Cardinality(holders)
    BY DEF Occurrences
  <1> HIDE DEF places, holders
  <1>5. Cardinality(places) \in Nat /\ Cardinality(holders) \in Nat
    BY <1>2, FS_CardinalityType
  <1>6. Cardinality(places) # 0 \/ Cardinality(holders) # 0
    BY <1>2, <1>3, FS_EmptySet
  <1> QED
    BY <1>4, <1>5, <1>6

\* A row that says running has somebody who works on it: AtomFeeder writes it after it has
\* pushed the atom, a thread writes it again, and only a row that is gone is let go.
THEOREM RunningHasHolder == ASSUME Steady PROVE Spec => []RunningIsTracked
  <1>1. TrackedInv => RunningIsTracked
    BY BusyOccurs DEF TrackedInv, MovingInv, RunningIsTracked
  <1> QED
    BY <1>1, TrackedAlways, PTL
-----------------------------------------------------------------------------
(* When no message and no statement fails                                  *)

\* What the statements write then.
InTurn == \A a \in Atom : atomStatus'[a] \in {atomStatus[a], NoRow, "pending", "running"}

\* Nobody finds the row refused by the archive, so nobody interrupts an atom.
LEMMA ThreadInTurn ==
  ASSUME CleanInv, Smooth, NEW t \in Worker, Threads(t)
  PROVE  InTurn /\ ~Interrupt(t) /\ ~ArchiveRefused(t) /\ ~ProcessFails(t)
  <1>1. ~Interrupt(t)
    BY DEF Interrupt, CleanInv, Clean
  <1>2. ~ArchiveRefused(t)
    BY DEF ArchiveRefused, CanArchive, CleanInv, Clean
  <1>3. ~ProcessFails(t)
    BY DEF ProcessFails, Smooth
  <1> QED
    BY <1>1, <1>2, <1>3
       DEF InTurn, UpdateAtoms, DeleteAtoms, Threads, WorkerStep, WorkerFault, Begin, LeaveHalted, Pop,
           PopNothing, Mark, Load, Process, ArchiveInsert, ArchiveDelete, Finish, MarkFails,
           MarkFindsNoConnection, LoadFails, ArchivingFails, InterruptFails,
           InterruptFindsNoConnection, tables

LEMMA OthersInTurn ==
  ASSUME TypeInv, Undisturbed, Quiet,
         DaemonStep \/ Fatal \/ Web \/ Start \/ Crash \/ StopCall \/ HaltCall \/ StopStep
  PROVE  InTurn
  <1>1. CASE DaemonStep \/ Fatal
    BY <1>1, DaemonWrites DEF InTurn, FeedMark, ResetAtoms, UpdateAtoms, InsertAtoms
  <1>2. ~Event("view") /\ ~Event("recycle")
    BY DEF Quiet, Calm, Event
  <1>3. CASE Web
    BY <1>2, <1>3 DEF InTurn, Web, Created, WebEvent, SendMail, CreateListJob, TimePasses, AddRecipients,
           DelayJob, DeleteJob, InsertAtoms, DeleteAtoms
  <1>4. CASE Start \/ Crash \/ StopCall \/ HaltCall \/ StopStep
    BY <1>4 DEF InTurn, Undisturbed, Start, Crash, StopCall, HaltCall, StopStep, StopWake, StopMark, StopKill,
                StopClose, StopFails, HaltClose, tables
  <1> QED
    BY <1>1, <1>3, <1>4

LEMMA NoFault == ASSUME TypeInv, Quiet, DbFault PROVE ~pool /\ faults' = faults
  BY DEF TypeInv, TypeOK, DispatchTypeOK, Quiet, DbFault

LEMMA CleanStep ==
  ASSUME CleanInv, RowsInv', OnceInv', Smooth, [Next]_vars
  PROVE  CleanInv'
  <1>1. /\ TypeInv /\ TypeInv' /\ Quiet /\ Unaborted /\ abort = NoAbort /\ TablesTypeOK
        /\ Unsent /\ OneCopy /\ Undisturbed
    BY DEF CleanInv, OnceInv, TypeInv, TypeOK, Smooth, Quiet, Calm, Unaborted, Undisturbed
  <1>2. OfJobs /\ KeysKept
    BY <1>1, NextOfJobs, NextKeepsKeys DEF CleanInv
  <1>3. InTurn
    <2>1. CASE UNCHANGED vars
      BY <2>1 DEF vars, tables, InTurn
    <2> QED
      BY <1>1, <2>1, NoAborts, ThreadInTurn, OthersInTurn DEF Next
  <1>4. /\ \A t \in Worker : at[t] \notin Idle => atom[t] \in Atom /\ Known(atom[t])
        /\ \A a \in Atom : Known(a) /\ atomStatus[a] = NoRow => atomStatus'[a] = NoRow
    BY <1>2, HeldStays DEF CleanInv
  <1>5. (\A a \in Atom : atomStatus[a] \in {NoRow, "pending", "running"})'
    BY <1>3 DEF InTurn, CleanInv, Clean
  <1>6. RowsOfJobs'
    BY <1>2, RowsStayWithJobs DEF CleanInv, Clean
  <1>8. ASSUME Wanes \/ UNCHANGED <<at, atom, archived>>,
               pool' => pool \/ \A t \in Worker : at'[t] = "dead"
        PROVE  /\ \A t \in Worker : at'[t] = "archive" => archived'[atom'[t]] = NoRow
               /\ \A t \in Worker : at'[t] = "finish" => atomStatus'[atom'[t]] = NoRow
               /\ pool' => \A t \in Worker : at'[t] # "interrupt"
    BY <1>4, <1>8 DEF CleanInv, Clean, Wanes, Idle
  <1>9. ASSUME NEW t \in Worker, Threads(t)
        PROVE  /\ \A u \in Worker : at'[u] = "archive" => archived'[atom'[u]] = NoRow
               /\ \A u \in Worker : at'[u] = "finish" => atomStatus'[atom'[u]] = NoRow
               /\ pool' => \A u \in Worker : at'[u] # "interrupt"
    <2>1. /\ \A u \in Worker : u # t => at'[u] = at[u] /\ atom'[u] = atom[u]
          /\ at'[t] = "archive" => Process(t)
          /\ at'[t] = "finish" => ArchiveDelete(t)
          /\ archived' = archived \/ ArchiveInsert(t)
      BY <1>1, <1>9, ThreadPlaces
    <2>2. \A a \in Atom : archived'[a] = archived[a] \/ (a = atom[t] /\ at'[t] = "delete")
      BY <1>1, <2>1 DEF ArchiveInsert, ArchiveAtoms, Goto, TypeInv, TypeOK, DispatchTypeOK
    <2>3. at'[t] = "archive" => archived'[atom'[t]] = NoRow
      BY <1>1, <1>4, <2>1 DEF Process, Unsent, CleanInv, RowsInv, Evidence, Idle, tables
    <2>4. \A u \in Worker : at'[u] = "archive" => archived'[atom'[u]] = NoRow
      <3> SUFFICES ASSUME NEW u \in Worker, u # t, at'[u] = "archive" PROVE archived'[atom'[u]] = NoRow
        BY <2>3
      <3>1. at[u] = "archive" /\ atom'[u] = atom[u] /\ atom[u] \in Atom
        BY <1>4, <2>1 DEF Idle
      <3>2. archived[atom[u]] = NoRow
        BY <3>1 DEF CleanInv, Clean
      <3>3. atom[u] # atom[t]
        BY <1>1, <3>1, AtomDispatchAssumption DEF OneCopy
      <3> QED
        BY <2>2, <3>1, <3>2, <3>3
    <2>5. at'[t] = "finish" => atomStatus'[atom'[t]] = NoRow
      BY <1>1, <1>4, <2>1 DEF ArchiveDelete, DeleteAtoms, Idle
    <2>6. \A u \in Worker : at'[u] = "finish" => atomStatus'[atom'[u]] = NoRow
      BY <1>4, <2>1, <2>5 DEF CleanInv, Clean, Idle
    <2>7. ASSUME pool', at'[t] = "interrupt" PROVE FALSE
      <3>1. pool /\ ~DbFault /\ at[t] # "interrupt"
        BY <1>1, <1>9, <2>7, NoFault DEF Threads, WorkerStep, WorkerFault, Begin, LeaveHalted, Pop,
           PopNothing, Mark, Load, Process, ProcessFails, ArchiveInsert, ArchiveRefused, ArchiveDelete,
           Finish, Interrupt, MarkFails, MarkFindsNoConnection, LoadFails, ArchivingFails,
           InterruptFails, InterruptFindsNoConnection, CleanInv, Clean
      <3> QED
        BY <1>1, <1>9, <2>7, <3>1, ThreadInTurn
           DEF Threads, WorkerStep, WorkerFault, Begin, LeaveHalted, Pop, PopNothing, Mark, Load,
               Process, ArchiveInsert, ArchiveDelete, Finish, MarkFails, MarkFindsNoConnection,
               LoadFails, ArchivingFails, InterruptFails, InterruptFindsNoConnection, Goto, Exit,
               NextRound, TypeInv, TypeOK, DispatchTypeOK
    <2>8. pool' = pool
      BY <1>9 DEF Threads, WorkerStep, WorkerFault, Begin, LeaveHalted, Pop, PopNothing, Mark, Load,
             Process, ProcessFails, ArchiveInsert, ArchiveRefused, ArchiveDelete, Finish, Interrupt,
             MarkFails, MarkFindsNoConnection, LoadFails, ArchivingFails, InterruptFails,
             InterruptFindsNoConnection
    <2>9. pool' => \A u \in Worker : at'[u] # "interrupt"
      BY <2>1, <2>7, <2>8 DEF CleanInv, Clean
    <2> QED
      BY <2>4, <2>6, <2>9
  <1>10. CASE DaemonStep \/ Fatal
    <2>1. Wanes \/ UNCHANGED <<at, atom, archived>>
      BY <1>1, <1>10, DaemonPlaces DEF FeedPush, tables, threads
    <2>2. pool' => pool
      BY <1>10 DEF DaemonStep, Fatal, Abnormal, LoadRefused, FinishSelect, FinishUpdate, Count, LoadSelect,
             LoadInsert, LoadRun, LoadDone, FeedQuery, FeedPush, FeedMark, FeedDone, Launch, LaunchDone,
             Watch, Leave, Drain, DrainDone, ResetAtoms, ResetJob, ResetDone, Close, dispatch
    <2> QED
      BY <1>3, <1>5, <1>6, <1>8, <2>1, <2>2 DEF CleanInv, Clean, RowsInv
  <1>11. CASE Start \/ Crash \/ Web \/ StopCall \/ HaltCall \/ StopStep
    <2>1. Wanes
      BY <1>1, <1>11, OtherPlaces
    <2>2. pool' => pool \/ \A t \in Worker : at'[t] = "dead"
      BY <1>11 DEF Start, Crash, Web, StopCall, HaltCall, StopStep, StopWake, StopMark, StopKill,
                  StopClose, StopFails, HaltClose, dispatch, threads, Live, Alive
    <2> QED
      BY <1>3, <1>5, <1>6, <1>8, <2>1, <2>2 DEF CleanInv, Clean, RowsInv
  <1>12. CASE UNCHANGED vars
    <2>1. UNCHANGED <<at, atom, archived, pool>>
      BY <1>12 DEF vars, tables, dispatch, threads
    <2> QED
      BY <1>3, <1>5, <1>6, <1>8, <2>1 DEF CleanInv, Clean, RowsInv
  <1>13. ASSUME NEW t \in Worker, Threads(t) PROVE CleanInv'
    BY <1>5, <1>6, <1>9, <1>13 DEF CleanInv, Clean, RowsInv
  <1> QED
    BY <1>1, <1>3, <1>10, <1>11, <1>12, <1>13, NoAborts DEF Next

LEMMA CleanInit == Init => CleanInv
  <1> SUFFICES ASSUME Init PROVE CleanInv
    OBVIOUS
  <1>1. OnceInv /\ RowsInv
    BY OnceInit, RowsInit
  <1> QED
    BY <1>1 DEF Init, TablesInit, DispatchInit, CleanInv, Clean, RowsOfJobs

\* When no statement and no message fails and nobody disturbs the scheduler, rows are
\* pending, then running, and then gone, and each is archived once.
THEOREM CleanAlways == ASSUME Smooth PROVE Spec => []CleanInv
  <1>1. Init => CleanInv
    BY CleanInit
  <1>2. CleanInv /\ RowsInv' /\ OnceInv' /\ [Next]_vars => CleanInv'
    BY CleanStep
  <1>3. Quiet /\ Unaborted
    BY DEF Smooth, Quiet, Calm, Unaborted
  <1>4. (Spec => []RowsInv) /\ (Spec => []OnceInv)
    BY <1>3, RowsAlways, OnceAlways
  <1> QED
    BY <1>1, <1>2, <1>4, PTL DEF Spec
-----------------------------------------------------------------------------
(* A job that says it is finished has nothing left                         *)

\* A job that has a row had one or is new, and it goes for good.
JobsKept ==
  \A j \in Job : /\ jobStatus[j] # NoRow => jobStatus'[j] # NoRow
                 /\ HasRow(j)' => HasRow(j) \/ jobStatus[j] = NoRow

\* A key that was never used is used by a message, by a list, or with the end of its job.
Comes(a) ==
  Known(a)' => \/ Known(a)
               \/ JobOf[a] \notin Listed /\ jobStatus[JobOf[a]] = NoRow
               \/ JobOf[a] \in Listed /\ LoadInsert(JobOf[a])
               \/ jobStatus'[JobOf[a]] = Gone

LEMMA StatementsKeepJobs ==
  ASSUME TablesTypeOK,
         \/ jobStatus' = jobStatus
         \/ \E j, status : status \in Status /\ UpdateJob(j, status)
         \/ \E S, status : status \in Status /\ UpdateJobs(S, status)
         \/ \E j \in Job : jobStatus[j] = NoRow /\ jobStatus' = [jobStatus EXCEPT ![j] = "pending"]
         \/ \E j \in Job : jobStatus' = [jobStatus EXCEPT ![j] = Gone]
  PROVE  JobsKept
  <1> USE DEF TablesTypeOK, JobsKept, HasRow, Status, NoRow, Gone
  <1>1. ASSUME NEW j, NEW status \in Status, UpdateJob(j, status) PROVE JobsKept
    BY <1>1 DEF UpdateJob
  <1>2. ASSUME NEW S, NEW status \in Status, UpdateJobs(S, status) PROVE JobsKept
    BY <1>2 DEF UpdateJobs
  <1>3. ASSUME NEW j \in Job, \/ jobStatus[j] = NoRow /\ jobStatus' = [jobStatus EXCEPT ![j] = "pending"]
                              \/ jobStatus' = [jobStatus EXCEPT ![j] = Gone]
        PROVE  JobsKept
    BY <1>3
  <1> QED
    BY <1>1, <1>2, <1>3

LEMMA NextKeepsJobs == ASSUME TypeInv, abort = NoAbort, Unaborted, [Next]_vars PROVE JobsKept
  <1>1. TablesTypeOK /\ {"finished", "running", "pending", "suspended", "interrupted"} \subseteq Status
    BY DEF TypeInv, TypeOK, Status
  <1>2. ASSUME NEW t \in Worker, Threads(t) PROVE JobsKept
    <2>1. jobStatus' = jobStatus \/ UpdateJob(job[t], "finished")
      BY <1>2 DEF Threads, WorkerStep, WorkerFault, Begin, LeaveHalted, Pop, PopNothing, Mark,
           Load, Process, ProcessFails, ArchiveInsert, ArchiveRefused, ArchiveDelete, Finish, Interrupt,
           MarkFails, MarkFindsNoConnection, LoadFails, ArchivingFails, InterruptFails,
           InterruptFindsNoConnection, tables
    <2> QED
      BY <1>1, <2>1, StatementsKeepJobs
  <1>3. CASE DaemonStep \/ Fatal
    <2>1. \/ jobStatus' = jobStatus
          \/ \E j, status : status \in {"finished", "running", "pending"} /\ UpdateJob(j, status)
      BY <1>3 DEF DaemonStep, Fatal, Abnormal, LoadRefused, FinishSelect, FinishUpdate, Count, LoadSelect,
             LoadInsert, LoadRun, LoadDone, FeedQuery, FeedPush, FeedMark, FeedDone, Launch, LaunchDone,
             Watch, Leave, Drain, DrainDone, ResetAtoms, ResetJob, ResetDone, Close, tables
    <2> QED
      BY <1>1, <2>1, StatementsKeepJobs
  <1>4. CASE Start \/ Crash \/ StopCall \/ HaltCall \/ StopStep
    <2>1. \/ jobStatus' = jobStatus
          \/ \E S, status : status \in {"suspended", "interrupted"} /\ UpdateJobs(S, status)
      BY <1>4 DEF Start, Crash, StopCall, HaltCall, StopStep, StopWake, StopMark, StopKill,
             StopClose, StopFails, HaltClose, tables
    <2> QED
      BY <1>1, <2>1, StatementsKeepJobs
  <1>5. CASE Web
    <2>1. CASE Created
      BY <1>1, <2>1, StatementsKeepJobs DEF Created, SendMail, CreateListJob, TimePasses
    <2>2. CASE WebEvent
      BY <1>1, <2>2, StatementsKeepJobs
         DEF WebEvent, AddRecipients, ViewAtoms, SuspendAtoms, RetryAtoms, RecycleJob, DelayJob,
             DeleteJob, tables
    <2> QED
      BY <1>5, <2>1, <2>2 DEF Web
  <1>6. CASE UNCHANGED vars
    BY <1>1, <1>6, StatementsKeepJobs DEF vars, tables
  <1> QED
    BY <1>2, <1>3, <1>4, <1>5, <1>6, NoAborts DEF Next

\* An atom comes only with an INSERT.
LEMMA StatementsBring ==
  ASSUME NEW a \in Atom,
         \/ atomStatus' = atomStatus
         \/ \E S, status : UpdateAtoms(S, status)
         \/ \E S : DeleteAtoms(S),
         archived'[a] # NoRow => archived[a] # NoRow \/ atomStatus[a] # NoRow
  PROVE  Comes(a)
  BY DEF Comes, Known, Moved, UpdateAtoms, DeleteAtoms

LEMMA NextBrings ==
  ASSUME TypeInv, abort = NoAbort, Unaborted, "add" \notin Events, [Next]_vars, NEW a \in Atom
  PROVE  Comes(a)
  <1>1. ASSUME NEW t \in Worker, Threads(t) PROVE Comes(a)
    <2>1. \/ atomStatus' = atomStatus
          \/ \E S, status : UpdateAtoms(S, status)
          \/ \E S : DeleteAtoms(S)
      BY <1>1 DEF Threads, WorkerStep, WorkerFault, Begin, LeaveHalted, Pop, PopNothing, Mark, Load,
           Process, ProcessFails, ArchiveInsert, ArchiveRefused, ArchiveDelete, Finish, Interrupt,
           MarkFails, MarkFindsNoConnection, LoadFails, ArchivingFails, InterruptFails,
           InterruptFindsNoConnection, tables
    <2>2. archived' = archived \/ ArchiveInsert(t)
      BY <1>1, ThreadPlaces
    <2>3. archived'[a] # NoRow => archived[a] # NoRow \/ atomStatus[a] # NoRow
      BY <2>2 DEF ArchiveInsert, ArchiveAtoms
    <2> QED
      BY <2>1, <2>3, StatementsBring
  <1>2. CASE DaemonStep \/ Fatal
    <2>1. archived' = archived
      BY <1>2, DaemonPlaces
    <2>2. \/ atomStatus' = atomStatus
          \/ FeedMark \/ \E j \in Job : ResetAtoms(j)
          \/ \E j \in Job : LoadInsert(j)
      BY <1>2 DEF DaemonStep, Fatal, Abnormal, LoadRefused, FinishSelect, FinishUpdate, Count, LoadSelect,
             LoadRun, LoadDone, FeedQuery, FeedPush, FeedDone, Launch, LaunchDone,
             Watch, Leave, Drain, DrainDone, ResetJob, ResetDone, Close, tables
    <2>3. ASSUME NEW j \in Job, LoadInsert(j) PROVE Comes(a)
      <3>1. InsertAtoms(Inserts(j)) /\ jobStatus' = jobStatus
        BY <2>3 DEF LoadInsert
      <3>2. a \in Inserts(j) => JobOf[a] = j /\ j \in Listed
        BY DEF Inserts, NewAtoms, AtomsOf
      <3> QED
        BY <2>1, <2>3, <3>1, <3>2 DEF Comes, Known, Moved, InsertAtoms
    <2> QED
      BY <2>1, <2>2, <2>3, StatementsBring DEF FeedMark, ResetAtoms
  <1>3. CASE Web
    <2>1. Wanes
      BY <1>3, OtherPlaces
    <2>2. archived'[a] # NoRow => archived[a] # NoRow
      BY <2>1 DEF Wanes
    <2>3. ASSUME NEW j \in Job, NEW time, SendMail(j, time) PROVE Comes(a)
      BY <2>2, <2>3 DEF SendMail, InsertAtoms, NewAtoms, AtomsOf, Comes, Known, Moved
    <2>4. CASE Created
      BY <2>2, <2>3, <2>4, StatementsBring DEF Created, CreateListJob, TimePasses
    <2>5. CASE WebEvent
      BY <2>2, <2>5, StatementsBring
         DEF WebEvent, Event, ViewAtoms, SuspendAtoms, RetryAtoms, RecycleJob, DelayJob, DeleteJob, tables
    <2> QED
      BY <1>3, <2>4, <2>5 DEF Web
  <1>4. CASE Start \/ Crash \/ StopCall \/ HaltCall \/ StopStep
    <2>1. Wanes
      BY <1>4, OtherPlaces
    <2>2. atomStatus' = atomStatus \/ \E S, status : UpdateAtoms(S, status)
      BY <1>4 DEF Start, Crash, StopCall, HaltCall, StopStep, StopWake, StopMark, StopKill,
             StopClose, StopFails, HaltClose, tables
    <2> QED
      BY <2>1, <2>2, StatementsBring DEF Wanes
  <1>5. CASE UNCHANGED vars
    BY <1>5, StatementsBring DEF vars, tables
  <1> QED
    BY <1>1, <1>2, <1>3, <1>4, <1>5, NoAborts DEF Next

\* A list that is loaded stays so, and its atoms come all at once.
LEMMA ListsStay ==
  ASSUME KeysKept, \A a \in Atom : Comes(a),
         NEW j \in Listed, Loaded(j) \/ \A a \in AtomsOf(j) : ~Known(a)
  PROVE  /\ Loaded(j) => Loaded(j)'
         /\ Loaded(j)' \/ (\A a \in AtomsOf(j) : ~Known(a))'
  <1>1. \A a \in AtomsOf(j) : a \in Atom /\ JobOf[a] = j
    BY DEF AtomsOf
  <1>2. AtomsOf(j)' = AtomsOf(j)
    BY DEF AtomsOf
  <1>3. Loaded(j) => Loaded(j)'
    BY <1>1, <1>2 DEF Loaded, KeysKept
  <1>4. ASSUME NEW b \in AtomsOf(j), Known(b)', \A a \in AtomsOf(j) : ~Known(a) PROVE Loaded(j)'
    <2>1. LoadInsert(j) \/ jobStatus'[j] = Gone
      BY <1>1, <1>4 DEF Comes
    <2>2. CASE jobStatus'[j] = Gone
      BY <1>1, <1>2, <2>2 DEF Loaded, Known, Moved
    <2>3. CASE LoadInsert(j)
      <3>1. InsertAtoms(NewAtoms(AtomsOf(j)))
        BY <2>3 DEF LoadInsert, Inserts
      <3>2. ASSUME NEW a \in AtomsOf(j) PROVE a \in NewAtoms(AtomsOf(j))
        BY <1>4 DEF Known, Moved, NewAtoms
      <3>3. \A a \in AtomsOf(j) : atomStatus'[a] = "pending"
        BY <1>1, <3>1, <3>2 DEF InsertAtoms
      <3> QED
        BY <1>1, <1>2, <3>3 DEF Loaded, Known, NoRow
    <2> QED
      BY <2>1, <2>2, <2>3
  <1> QED
    BY <1>2, <1>3, <1>4

\* What is left of a job gets less, once it has been created and loaded.
LEMMA OpenShrinks ==
  ASSUME CleanInv, CleanInv', KeysKept, OfJobs, \A a \in Atom : Comes(a),
         NEW j \in Job, jobStatus[j] # NoRow, j \in Listed /\ LoadInsert(j) => Loaded(j)
  PROVE  OpenAtoms(j)' \subseteq OpenAtoms(j)
  <1> SUFFICES ASSUME NEW a \in Atom, a \in OpenAtoms(j)' PROVE a \in OpenAtoms(j)
    BY DEF OpenAtoms, AtomsOf
  <1>1. JobOf[a] = j /\ atomStatus'[a] # NoRow /\ a \in AtomsOf(j)
    BY DEF OpenAtoms, AtomsOf, Open, NoRow
  <1>2. CASE atomStatus[a] = NoRow
    <2>1. HasRow(j)' /\ ~Moved(a)'
      BY <1>1, <1>2 DEF OfJobs
    <2>2. ~Known(a) /\ Known(a)' /\ jobStatus'[j] # Gone
      BY <1>1, <1>2, <2>1 DEF KeysKept, Known, HasRow, Status, Gone
    <2>3. j \in Listed /\ LoadInsert(j)
      BY <1>1, <2>2 DEF Comes
    <2> QED
      BY <1>1, <2>2, <2>3 DEF Loaded
  <1>3. CASE atomStatus[a] # NoRow
    BY <1>1, <1>3 DEF CleanInv, Clean, OpenAtoms, Open
  <1> QED
    BY <1>2, <1>3

\* Counting what is left.
LEMMA CountLeft ==
  ASSUME NEW S, NEW T, S \subseteq T, T \subseteq Atom
  PROVE  Cardinality(S) \in Nat /\ Cardinality(T) \in Nat /\ Cardinality(S) <= Cardinality(T)
  <1>1. IsFiniteSet(T)
    BY JobTablesAssumption, FS_Subset
  <1> QED
    BY <1>1, FS_Subset, FS_CardinalityType

LEMMA CountWithout ==
  ASSUME NEW T, T \subseteq Atom, NEW a \in T
  PROVE  Cardinality(T \ {a}) = Cardinality(T) - 1
  <1>1. IsFiniteSet(T)
    BY JobTablesAssumption, FS_Subset
  <1> QED
    BY <1>1, FS_RemoveElement

\* A job that is in a thread's hands, or finished, is loaded, if it names a list.
LEMMA LoadedBefore ==
  ASSUME CompleteInv, NEW j \in Listed, LoadInsert(j),
         jobStatus[j] = "finished" \/ \E t \in Worker : job[t] = j
  PROVE  Loaded(j)
  BY DEF CompleteInv, LoadedOnce, LoadInsert

\* What a thread counts stays enough, as long as it does nothing itself.
LEMMA CountStays ==
  ASSUME CompleteInv, CleanInv', KeysKept, OfJobs, JobsKept, \A a \in Atom : Comes(a),
         NEW t \in Worker, NEW j \in Job, job[t] = j, Leaving(t)' = Leaving(t), pool, HasRow(j)'
  PROVE  Cardinality(OpenAtoms(j)' \ Leaving(t)') <= pending[t]
  <1>1. jobStatus[j] # NoRow /\ pending[t] \in Int /\ j # None
    BY AtomDispatchAssumption
       DEF CompleteInv, Instances, CleanInv, RowsInv, TypeInv, TypeOK, DispatchTypeOK
  <1>2. HasRow(j)
    BY <1>1 DEF JobsKept
  <1>3. OpenAtoms(j)' \subseteq OpenAtoms(j)
    BY <1>1, OpenShrinks, LoadedBefore DEF CompleteInv
  <1>4. Cardinality(OpenAtoms(j) \ Leaving(t)) <= pending[t]
    BY <1>1, <1>2 DEF CompleteInv, Counted
  <1>5. OpenAtoms(j)' \ Leaving(t) \subseteq OpenAtoms(j) \ Leaving(t) /\ OpenAtoms(j) \ Leaving(t) \subseteq Atom
    BY <1>3 DEF OpenAtoms, AtomsOf
  <1>6. /\ Cardinality(OpenAtoms(j)' \ Leaving(t)) \in Nat
        /\ Cardinality(OpenAtoms(j) \ Leaving(t)) \in Nat
        /\ Cardinality(OpenAtoms(j)' \ Leaving(t)) <= Cardinality(OpenAtoms(j) \ Leaving(t))
    BY <1>5, CountLeft
  <1> QED
    BY <1>1, <1>4, <1>6

LEMMA CountedIf ==
  ASSUME CleanInv',
         \A t \in Worker : \A j \in Job : pool' /\ job'[t] = j /\ HasRow(j)' =>
           Cardinality(OpenAtoms(j)' \ Leaving(t)') <= pending'[t]
  PROVE  Counted'
  <1> SUFFICES ASSUME NEW t \in Worker, pool', job'[t] # None, jobStatus'[job'[t]] \in Status
               PROVE  Cardinality({a \in {a \in Atom : JobOf[a] = job'[t]} : atomStatus'[a] \in Open}
                                   \ Leaving(t)') <= pending'[t]
    BY DEF Counted, HasRow, OpenAtoms, AtomsOf
  <1> PICK j \in Job : j = job'[t]
    BY DEF CleanInv, RowsInv, TypeInv, TypeOK, DispatchTypeOK
  <1>1. HasRow(j)'
    BY DEF HasRow
  <1>2. Cardinality(OpenAtoms(j)' \ Leaving(t)') <= pending'[t]
    BY <1>1
  <1> QED
    BY <1>2 DEF OpenAtoms, AtomsOf

\* What is left to show of a step, when the threads count right.
LEMMA CompleteStays ==
  ASSUME CompleteInv, CleanInv', KeysKept, OfJobs, JobsKept, \A a \in Atom : Comes(a),
         Counted', Instances',
         \A j \in Job : jobStatus'[j] = "finished" =>
           \/ jobStatus[j] = "finished"
           \/ /\ jobStatus[j] # NoRow /\ OpenAtoms(j) = {}
              /\ (\E t \in Worker : job[t] = j) \/ daemon' \notin {"insert", "run"},
         \A t \in Worker : job'[t] \in Listed => job'[t] = job[t] \/ Loaded(job'[t]),
         daemon' \in {"insert", "run"} => \/ daemon \in {"insert", "run"} /\ todo' \subseteq todo
                                          \/ \A j \in todo' \cap Job : jobStatus'[j] # "finished",
         daemon' = "finish" =>
           \/ daemon = "finish" /\ todo' \subseteq todo
           \/ \A j \in todo' : j \in Job /\ jobStatus[j] # NoRow /\ OpenAtoms(j) = {}
  PROVE  CompleteInv'
  <1>1. \A j \in Listed : j \in Job /\ (Loaded(j) \/ \A a \in AtomsOf(j) : ~Known(a))
    BY JobTablesAssumption DEF CompleteInv, LoadedOnce
  <1>2. \A j \in Listed : Loaded(j) => Loaded(j)'
    BY <1>1, ListsStay
  <1>3. \A j \in Listed : Loaded(j)' \/ (\A a \in AtomsOf(j) : ~Known(a))'
    BY <1>1, ListsStay
  <1>4. ASSUME NEW t \in Worker, NEW j \in Listed, job'[t] = j PROVE Loaded(j)'
    <2>1. CASE job[t] = j
      BY <1>2, <1>4, <2>1 DEF CompleteInv, LoadedOnce
    <2>2. CASE Loaded(job'[t])
      BY <1>2, <1>4, <2>2
    <2> QED
      BY <1>4, <2>1, <2>2
  <1>5. ASSUME daemon' \in {"insert", "run"}, NEW j \in Listed, j \in todo', jobStatus'[j] = "finished"
        PROVE  Loaded(j)'
    <2>1. daemon \in {"insert", "run"} /\ j \in todo /\ j \in Job
      BY <1>1, <1>5
    <2>2. CASE jobStatus[j] = "finished"
      BY <1>2, <2>1, <2>2 DEF CompleteInv, LoadedOnce
    <2>3. CASE \E t \in Worker : job[t] = j
      BY <1>2, <2>3 DEF CompleteInv, LoadedOnce
    <2> QED
      BY <1>5, <2>1, <2>2, <2>3
  <1>6. LoadedOnce'
    <2>1. \A t \in Worker : job'[t] \in Listed => \E j \in Listed : job'[t] = j /\ Loaded(j)'
      BY <1>4
    <2>2. (\A t \in Worker : job[t] \in Listed => Loaded(job[t]))'
      BY <2>1 DEF Loaded, AtomsOf, Known, Moved
    <2>3. (daemon \in {"insert", "run"} =>
             \A j \in todo \cap Listed : jobStatus[j] = "finished" => Loaded(j))'
      BY <1>5
    <2>4. (\A j \in Listed : Loaded(j) \/ \A a \in AtomsOf(j) : ~Known(a))'
      BY <1>3
    <2> QED
      BY <2>2, <2>3, <2>4 DEF LoadedOnce
  <1>7. ASSUME NEW j \in Job, jobStatus[j] # NoRow, OpenAtoms(j) = {},
               \/ jobStatus[j] = "finished" \/ (\E t \in Worker : job[t] = j)
               \/ daemon' \notin {"insert", "run"}
        PROVE  OpenAtoms(j)' = {}
    <2>1. j \in Listed /\ LoadInsert(j) => Loaded(j)
      BY <1>7, LoadedBefore DEF LoadInsert
    <2> QED
      BY <1>7, <2>1, OpenShrinks DEF CompleteInv
  <1>8. ASSUME NEW j \in Job, jobStatus'[j] = "finished" PROVE OpenAtoms(j)' = {}
    <2>1. CASE jobStatus[j] = "finished"
      BY <1>7, <2>1 DEF CompleteInv, FinishedIsComplete, NoRow
    <2> QED
      BY <1>7, <1>8, <2>1
  <1>9. ASSUME daemon' = "finish", NEW j \in todo'
        PROVE  j \in Job /\ jobStatus'[j] # NoRow /\ OpenAtoms(j)' = {}
    <2>1. j \in Job /\ jobStatus[j] # NoRow /\ OpenAtoms(j) = {}
      BY <1>9 DEF CompleteInv
    <2> QED
      BY <1>7, <1>9, <2>1 DEF JobsKept
  <1>10. FinishedIsComplete'
    BY <1>8 DEF FinishedIsComplete
  <1>11. (daemon = "finish" => \A j \in todo : j \in Job /\ jobStatus[j] # NoRow /\ OpenAtoms(j) = {})'
    BY <1>9
  <1> QED
    BY <1>6, <1>10, <1>11 DEF CompleteInv

LEMMA ThreadComplete ==
  ASSUME CompleteInv, Undivided, CleanInv', KeysKept, OfJobs, JobsKept, \A a \in Atom : Comes(a),
         NEW t \in Worker, Threads(t)
  PROVE  CompleteInv'
  <1>1. /\ TypeInv /\ OnceInv /\ CleanInv /\ Smooth /\ Quiet /\ RowsInv /\ Clean /\ Instances
        /\ at \in [Worker -> Place] /\ atom \in [Worker -> Atom \cup {None}]
        /\ job \in [Worker -> Job \cup {None}] /\ pending \in [Worker -> Int]
        /\ jobStatus \in [Job -> Status \cup {NoRow, Gone}]
    BY DEF CompleteInv, CleanInv, OnceInv, Undivided, Smooth, TypeInv, TypeOK, DispatchTypeOK, TablesTypeOK
  <1>2. UNCHANGED <<daemon, todo>> /\ pool' = pool
    BY DEF Threads, daemonVars, WorkerStep, WorkerFault, Begin, LeaveHalted, Pop, PopNothing, Mark, Load,
           Process, ProcessFails, ArchiveInsert, ArchiveRefused, ArchiveDelete, Finish, Interrupt,
           MarkFails, MarkFindsNoConnection, LoadFails, ArchivingFails, InterruptFails,
           InterruptFindsNoConnection
  <1>3. /\ \A u \in Worker : u # t => at'[u] = at[u] /\ atom'[u] = atom[u]
        /\ \A u \in Worker : u # t => job'[u] = job[u] /\ pending'[u] = pending[u]
    <2>1. \A u \in Worker : u # t => at'[u] = at[u] /\ atom'[u] = atom[u]
      BY <1>1, ThreadPlaces
    <2>2. \A u \in Worker : u # t => job'[u] = job[u] /\ pending'[u] = pending[u]
      BY <1>1 DEF Threads, WorkerStep, WorkerFault, Begin, LeaveHalted, Pop, PopNothing, Mark, Load,
           Process, ProcessFails, ArchiveInsert, ArchiveRefused, ArchiveDelete, Finish, Interrupt,
           MarkFails, MarkFindsNoConnection, LoadFails, ArchivingFails, InterruptFails,
           InterruptFindsNoConnection, Exit, NextRound
    <2> QED
      BY <2>1, <2>2
  <1>4. \A u \in Worker : at[u] \notin Idle => atom[u] \in Atom /\ Known(atom[u])
    BY <1>1, HeldStays
  <1>5. ~Interrupt(t) /\ ~ArchiveRefused(t) /\ ~ProcessFails(t)
    BY <1>1, ThreadInTurn
  <1>6. /\ at'[t] \in {"dead", "begin"} => job'[t] = None
        /\ at'[t] \in {"process", "archive", "delete", "finish"} => job'[t] = JobOf[atom'[t]]
        /\ job'[t] # None => job'[t] = job[t] \/ (Load(t) /\ job'[t] = JobOf[atom[t]] /\ HasRow(job'[t]))
    BY <1>1, <1>4, <1>5, JobTablesAssumption
       DEF Instances, Idle, Threads, WorkerStep, WorkerFault, Begin, LeaveHalted, Pop, PopNothing, Mark, Load,
           Process, ArchiveInsert, ArchiveDelete, Finish, MarkFails, MarkFindsNoConnection, LoadFails,
           ArchivingFails, InterruptFails, InterruptFindsNoConnection, Goto, Exit, NextRound
  <1>7. Instances'
    <2>1. ASSUME NEW u \in Worker, job'[u] # None PROVE jobStatus'[job'[u]] # NoRow
      <3>1. job'[u] \in Job /\ jobStatus[job'[u]] # NoRow
        <4>1. CASE job'[u] = job[u]
          BY <1>1, <2>1, <4>1 DEF Instances
        <4>2. CASE job'[u] # job[u]
          <5>1. u = t /\ Load(t) /\ HasRow(job'[t]) /\ job'[t] = JobOf[atom[t]]
            BY <1>3, <1>6, <2>1, <4>2
          <5>2. jobStatus[job'[t]] # NoRow
            BY <5>1 DEF HasRow, Status, NoRow
          <5>3. atom[t] \in Atom
            BY <1>4, <5>1 DEF Load, Idle
          <5> QED
            BY <5>1, <5>2, <5>3, JobTablesAssumption
        <4> QED
          BY <4>1, <4>2
      <3> QED
        BY <3>1 DEF JobsKept
    <2>2. \A u \in Worker : /\ at'[u] \in {"dead", "begin"} => job'[u] = None
                            /\ at'[u] \in {"process", "archive", "delete", "finish"} =>
                                 job'[u] = JobOf[atom'[u]]
      BY <1>1, <1>3, <1>6 DEF Instances
    <2> QED
      BY <2>1, <2>2 DEF Instances
  <1>8. ASSUME pool'
        PROVE  \/ Begin(t) \/ LeaveHalted(t) \/ Pop(t) \/ PopNothing(t) \/ Mark(t) \/ Load(t)
               \/ Process(t) \/ ArchiveInsert(t) \/ ArchiveDelete(t) \/ Finish(t) \/ LoadFails(t)
    <2>1. pool /\ ~DbFault
      BY <1>1, <1>2, <1>8, NoFault
    <2> QED
      BY <1>5, <2>1 DEF Threads, WorkerStep, WorkerFault, MarkFails, MarkFindsNoConnection, ArchivingFails,
                        InterruptFails, InterruptFindsNoConnection
  <1>9. ASSUME NEW u \in Worker, NEW j \in Job, pool', job[u] = j, HasRow(j)',
               pending'[u] = pending[u], Leaving(u)' = Leaving(u)
        PROVE  Cardinality(OpenAtoms(j)' \ Leaving(u)') <= pending'[u]
    BY <1>2, <1>9, CountStays
  <1>10. ASSUME NEW u \in Worker, u # t, NEW j \in Job, pool', job'[u] = j, HasRow(j)'
         PROVE  Cardinality(OpenAtoms(j)' \ Leaving(u)') <= pending'[u]
    BY <1>3, <1>9, <1>10 DEF Leaving
  <1>11. ASSUME Load(t), NEW j \in Job, pool', job'[t] = j, HasRow(j)'
         PROVE  Cardinality(OpenAtoms(j)' \ Leaving(t)') <= pending'[t]
    <2>1. /\ atomStatus' = atomStatus /\ at[t] = "load" /\ at'[t] = "process"
          /\ \/ job[t] = j /\ pending'[t] = pending[t]
             \/ pending'[t] = Cardinality(OpenAtoms(j))
      BY <1>1, <1>11 DEF Load, Goto, tables
    <2>2. Leaving(t)' = {} /\ Leaving(t) = {}
      BY <2>1 DEF Leaving
    <2>3. CASE job[t] = j /\ pending'[t] = pending[t]
      BY <1>9, <1>11, <2>2, <2>3
    <2>4. CASE pending'[t] = Cardinality(OpenAtoms(j))
      <3>1. OpenAtoms(j)' \ Leaving(t)' = OpenAtoms(j)
        BY <2>1, <2>2 DEF OpenAtoms, AtomsOf
      <3>2. Cardinality(OpenAtoms(j)) \in Nat
        BY OpenAtomsCount
      <3> QED
        BY <2>4, <3>1, <3>2
    <2> QED
      BY <2>1, <2>3, <2>4
  <1>12. ASSUME Process(t), NEW j \in Job, pool', job'[t] = j, HasRow(j)'
         PROVE  Cardinality(OpenAtoms(j)' \ Leaving(t)') <= pending'[t]
    <2>1. /\ UNCHANGED <<jobStatus, atomStatus>> /\ at[t] = "process" /\ at'[t] = "archive"
          /\ job[t] = j /\ pending'[t] = pending[t] - 1 /\ atom'[t] = atom[t] /\ pending[t] \in Int
      BY <1>1, <1>12 DEF Process, Goto, tables
    <2>2. Leaving(t)' = {atom[t]} /\ Leaving(t) = {}
      BY <2>1 DEF Leaving
    <2>3. atom[t] \in Atom /\ Known(atom[t]) /\ j = JobOf[atom[t]] /\ sent[atom[t]] = 0 /\ HasRow(j)
      BY <1>1, <1>4, <2>1, <1>12 DEF Idle, Instances, OnceInv, Unsent, HasRow
    <2>4. archived[atom[t]] = NoRow /\ jobStatus[j] # Gone
      BY <1>1, <2>3 DEF RowsInv, Evidence, HasRow, Status, Gone
    <2>5. atom[t] \in OpenAtoms(j)
      BY <1>1, <2>3, <2>4 DEF Known, Moved, Clean, OpenAtoms, AtomsOf, Open
    <2>6. OpenAtoms(j) \subseteq Atom /\ OpenAtoms(j)' = OpenAtoms(j)
      BY <2>1 DEF OpenAtoms, AtomsOf
    <2>7. Cardinality(OpenAtoms(j) \ {atom[t]}) = Cardinality(OpenAtoms(j)) - 1
      BY <2>5, <2>6, CountWithout
    <2>8. Cardinality(OpenAtoms(j)) <= pending[t] /\ Cardinality(OpenAtoms(j)) \in Nat
      <3>1. Cardinality(OpenAtoms(j) \ Leaving(t)) <= pending[t]
        BY <1>2, <1>12, <2>1, <2>3, AtomDispatchAssumption DEF CompleteInv, Counted
      <3>2. OpenAtoms(j) \ Leaving(t) = OpenAtoms(j)
        BY <2>2
      <3> QED
        BY <3>1, <3>2, OpenAtomsCount
    <2> QED
      BY <2>1, <2>2, <2>6, <2>7, <2>8
  <1>13. ASSUME ArchiveDelete(t), NEW j \in Job, pool', job'[t] = j, HasRow(j)'
         PROVE  Cardinality(OpenAtoms(j)' \ Leaving(t)') <= pending'[t]
    <2>1. /\ jobStatus' = jobStatus /\ at[t] = "delete" /\ at'[t] = "finish"
          /\ job[t] = j /\ pending'[t] = pending[t] /\ atom[t] \in Atom
          /\ atomStatus' = [a \in Atom |-> IF a \in {atom[t]} THEN NoRow ELSE atomStatus[a]]
      BY <1>1, <1>4, <1>13 DEF ArchiveDelete, DeleteAtoms, Goto, Idle
    <2>2. Leaving(t)' = {} /\ Leaving(t) = {atom[t]}
      BY <2>1 DEF Leaving
    <2>3. OpenAtoms(j)' = OpenAtoms(j) \ {atom[t]}
      BY <2>1 DEF OpenAtoms, AtomsOf, Open, NoRow
    <2>4. Cardinality(OpenAtoms(j) \ {atom[t]}) <= pending[t]
      BY <1>2, <1>13, <2>1, <2>2, AtomDispatchAssumption DEF CompleteInv, Counted, HasRow
    <2>5. OpenAtoms(j)' \ Leaving(t)' = OpenAtoms(j) \ {atom[t]}
      BY <2>2, <2>3
    <2> QED
      BY <2>1, <2>4, <2>5
  <1>14. ASSUME Begin(t) \/ Pop(t) \/ Mark(t) \/ ArchiveInsert(t) \/ Finish(t),
                NEW j \in Job, pool', job'[t] = j, HasRow(j)'
         PROVE  Cardinality(OpenAtoms(j)' \ Leaving(t)') <= pending'[t]
    <2>1. job[t] = j /\ pending'[t] = pending[t] /\ Leaving(t)' = Leaving(t)
      BY <1>1, <1>14 DEF Begin, Pop, Mark, ArchiveInsert, Finish, NextRound, Goto, Leaving
    <2> QED
      BY <1>9, <1>14, <2>1
  <1>15. ASSUME NEW j \in Job, pool', job'[t] = j, HasRow(j)'
         PROVE  Cardinality(OpenAtoms(j)' \ Leaving(t)') <= pending'[t]
    <2>1. ~LeaveHalted(t) /\ ~PopNothing(t) /\ ~LoadFails(t)
      BY <1>1, <1>15, AtomDispatchAssumption DEF LeaveHalted, PopNothing, LoadFails, Exit
    <2> QED
      BY <1>8, <1>11, <1>12, <1>13, <1>14, <1>15, <2>1
  <1>16. Counted'
    BY <1>10, <1>15, CountedIf
  <1>17. ASSUME NEW j \in Job, jobStatus'[j] = "finished", jobStatus[j] # "finished"
         PROVE  jobStatus[j] # NoRow /\ OpenAtoms(j) = {} /\ \E u \in Worker : job[u] = j
    <2>1. Finish(t) /\ pending[t] = 0 /\ UpdateJob(job[t], "finished")
      BY <1>17 DEF Threads, WorkerStep, WorkerFault, Begin, LeaveHalted, Pop, PopNothing, Mark,
           Load, Process, ProcessFails, ArchiveInsert, ArchiveRefused, ArchiveDelete, Finish, Interrupt,
           MarkFails, MarkFindsNoConnection, LoadFails, ArchivingFails, InterruptFails,
           InterruptFindsNoConnection, tables
    <2>2. job[t] = j /\ HasRow(j) /\ j # None /\ pool /\ at[t] = "finish"
      BY <1>1, <1>17, <2>1, AtomDispatchAssumption DEF UpdateJob, Finish
    <2>3. Leaving(t) = {} /\ Cardinality(OpenAtoms(j) \ Leaving(t)) <= pending[t]
      BY <2>2 DEF Leaving, CompleteInv, Counted
    <2>4. OpenAtoms(j) \ Leaving(t) = OpenAtoms(j) /\ Cardinality(OpenAtoms(j)) \in Nat
      BY <2>3, OpenAtomsCount
    <2>5. Cardinality(OpenAtoms(j)) = 0
      BY <2>1, <2>3, <2>4
    <2>6. IsFiniteSet(OpenAtoms(j))
      BY JobTablesAssumption, FS_Subset DEF OpenAtoms, AtomsOf
    <2>7. OpenAtoms(j) = {}
      BY <2>5, <2>6, FS_EmptySet
    <2> QED
      BY <2>2, <2>7 DEF HasRow, Status, NoRow
  <1>18. ASSUME NEW u \in Worker, job'[u] \in Listed, job'[u] # job[u] PROVE Loaded(job'[u])
    <2>1. job'[u] = JobOf[atom[t]] /\ atom[t] \in Atom /\ Known(atom[t])
      BY <1>1, <1>3, <1>4, <1>6, <1>18, JobTablesAssumption, AtomDispatchAssumption DEF Load, Idle
    <2> PICK j \in Listed : j = job'[u]
      BY <1>18
    <2>2. Loaded(j)
      BY <2>1 DEF CompleteInv, LoadedOnce, AtomsOf
    <2> QED
      BY <2>2
  <1> QED
    BY <1>2, <1>7, <1>16, <1>17, <1>18, CompleteStays

\* Nobody else counts, and a crash leaves nobody who does.
LEMMA OthersCount ==
  ASSUME CompleteInv, CleanInv', KeysKept, OfJobs, JobsKept, \A a \in Atom : Comes(a),
         \A t \in Worker : \/ job'[t] = None /\ at'[t] = "dead"
                           \/ /\ job'[t] = job[t] /\ pending'[t] = pending[t] /\ atom'[t] = atom[t]
                              /\ at'[t] = at[t] \/ (at[t] = "dead" /\ at'[t] = "begin"),
         pool' => pool \/ \A t \in Worker : job'[t] = None
  PROVE  Counted' /\ Instances'
  <1>1. ASSUME NEW t \in Worker, NEW j \in Job, pool', job'[t] = j, HasRow(j)'
        PROVE  Cardinality(OpenAtoms(j)' \ Leaving(t)') <= pending'[t]
    <2>1. j # None
      BY AtomDispatchAssumption
    <2>2. pool /\ job[t] = j /\ pending'[t] = pending[t] /\ Leaving(t)' = Leaving(t)
      BY <1>1, <2>1 DEF Leaving
    <2> QED
      BY <1>1, <2>2, CountStays
  <1>2. ASSUME NEW t \in Worker, job'[t] # None PROVE jobStatus'[job'[t]] # NoRow
    <2>1. job'[t] = job[t] /\ job[t] \in Job /\ jobStatus[job[t]] # NoRow
      BY <1>2 DEF CompleteInv, Instances, CleanInv, RowsInv, TypeInv, TypeOK, DispatchTypeOK
    <2> QED
      BY <2>1 DEF JobsKept
  <1>3. \A t \in Worker : /\ at'[t] \in {"dead", "begin"} => job'[t] = None
                          /\ at'[t] \in {"process", "archive", "delete", "finish"} =>
                               job'[t] = JobOf[atom'[t]]
    BY DEF CompleteInv, Instances
  <1>4. Instances'
    BY <1>2, <1>3 DEF Instances
  <1>5. Counted'
    BY <1>1, CountedIf
  <1> QED
    BY <1>4, <1>5

LEMMA DaemonComplete ==
  ASSUME CompleteInv, Undivided, CleanInv', KeysKept, OfJobs, JobsKept, \A a \in Atom : Comes(a),
         DaemonStep \/ Fatal
  PROVE  CompleteInv'
  <1>1. TypeInv /\ TablesTypeOK
    BY DEF CompleteInv, CleanInv, RowsInv, TypeInv, TypeOK
  <1>2. /\ UNCHANGED <<atom, job, pending>>
        /\ \A t \in Worker : at'[t] = at[t] \/ (at[t] = "dead" /\ at'[t] = "begin")
    BY <1>1, DaemonPlaces
  <1>3. pool' => pool
    BY DEF DaemonStep, Fatal, Abnormal, LoadRefused, FinishSelect, FinishUpdate, Count, LoadSelect,
           LoadInsert, LoadRun, LoadDone, FeedQuery, FeedPush, FeedMark, FeedDone, Launch, LaunchDone,
           Watch, Leave, Drain, DrainDone, ResetAtoms, ResetJob, ResetDone, Close, dispatch
  <1>4. Counted' /\ Instances'
    BY <1>2, <1>3, OthersCount
  <1>5. ASSUME NEW j \in Job, jobStatus'[j] = "finished", jobStatus[j] # "finished"
        PROVE  jobStatus[j] # NoRow /\ OpenAtoms(j) = {} /\ daemon' \notin {"insert", "run"}
    <2>1. \/ jobStatus' = jobStatus
          \/ \E k \in Job : FinishUpdate(k)
          \/ LoadRun \/ ResetJob
      BY DEF DaemonStep, Fatal, Abnormal, LoadRefused, FinishSelect, Count, LoadSelect,
           LoadInsert, LoadDone, FeedQuery, FeedPush, FeedMark, FeedDone, Launch, LaunchDone,
           Watch, Leave, Drain, DrainDone, ResetAtoms, ResetDone, Close, tables
    <2>2. ~LoadRun /\ ~ResetJob
      BY <1>1, <1>5 DEF LoadRun, ResetJob, UpdateJob, TablesTypeOK
    <2>3. PICK k \in Job : FinishUpdate(k)
      BY <1>5, <2>1, <2>2
    <2>4. j = k /\ j \in todo /\ daemon = "finish" /\ daemon' = "finish"
      BY <1>1, <1>5, <2>3 DEF FinishUpdate, UpdateJob, TablesTypeOK
    <2> QED
      BY <2>4 DEF CompleteInv
  <1>6. daemon' \in {"insert", "run"} => \/ daemon \in {"insert", "run"} /\ todo' \subseteq todo
                                         \/ \A j \in todo' \cap Job : jobStatus'[j] # "finished"
    <2>1. CASE LoadSelect
      BY <2>1 DEF LoadSelect, tables
    <2>2. CASE LoadRun \/ \E j \in Job : LoadInsert(j)
      BY <2>2 DEF LoadRun, LoadInsert
    <2> QED
      BY <2>1, <2>2
         DEF DaemonStep, Fatal, Abnormal, LoadRefused, FinishSelect, FinishUpdate, Count,
           LoadDone, FeedQuery, FeedPush, FeedMark, FeedDone, Launch, LaunchDone,
           Watch, Leave, Drain, DrainDone, ResetAtoms, ResetJob, ResetDone, Close
  <1>7. daemon' = "finish" =>
           \/ daemon = "finish" /\ todo' \subseteq todo
           \/ \A j \in todo' : j \in Job /\ jobStatus[j] # NoRow /\ OpenAtoms(j) = {}
    <2>1. CASE FinishSelect
      BY <2>1 DEF FinishSelect, Finished, NoRow
    <2>2. CASE \E j \in Job : FinishUpdate(j)
      BY <2>2 DEF FinishUpdate
    <2> QED
      BY <2>1, <2>2
         DEF DaemonStep, Fatal, Abnormal, LoadRefused, LoadSelect, LoadInsert, LoadRun, Count,
           LoadDone, FeedQuery, FeedPush, FeedMark, FeedDone, Launch, LaunchDone,
           Watch, Leave, Drain, DrainDone, ResetAtoms, ResetJob, ResetDone, Close
  <1> QED
    BY <1>2, <1>4, <1>5, <1>6, <1>7, CompleteStays

LEMMA OtherComplete ==
  ASSUME CompleteInv, Undivided, CleanInv', KeysKept, OfJobs, JobsKept, \A a \in Atom : Comes(a),
         Web \/ Start \/ Crash \/ StopCall \/ HaltCall \/ StopStep \/ UNCHANGED vars
  PROVE  CompleteInv'
  <1>1. TypeInv /\ TablesTypeOK /\ Undisturbed /\ Instances /\ at \in [Worker -> Place]
        /\ ~Event("view") /\ ~Event("recycle") /\ ~StopCall
    BY DEF CompleteInv, CleanInv, OnceInv, TypeInv, TypeOK, DispatchTypeOK, Undivided, Smooth, Quiet, Calm, Event, StopCall
  <1>3. \/ \A t \in Worker : job'[t] = None /\ at'[t] = "dead"
        \/ UNCHANGED <<job, pending, atom, at>>
    BY <1>1 DEF Undisturbed, Web, Start, Crash, HaltCall, StopStep, StopWake, StopMark, StopKill, StopClose,
           StopFails, HaltClose, vars, dispatch, threads
  <1>4. pool' => pool \/ \A t \in Worker : job'[t] = None
    <2>1. CASE Start
      <3>1. \A t \in Worker : at[t] = "dead"
        BY <1>1, <2>1 DEF Start, Live, Alive
      <3> QED
        BY <1>1, <2>1, <3>1 DEF Instances, Start, threads
    <2>2. CASE Crash
      BY <2>2 DEF Crash
    <2> QED
      BY <1>1, <2>1, <2>2
         DEF Undisturbed, Web, HaltCall, StopStep, StopWake, StopMark, StopKill, StopClose,
           StopFails, HaltClose, vars, dispatch
  <1>5. Counted' /\ Instances'
    BY <1>3, <1>4, OthersCount
  <1>6. \A j \in Job : jobStatus'[j] = "finished" => jobStatus[j] = "finished"
    BY <1>1 DEF Undisturbed, Web, Created, WebEvent, SendMail, CreateListJob, TimePasses, AddRecipients,
           DelayJob, DeleteJob, Start, Crash, HaltCall, StopStep, StopWake, StopMark, StopKill, StopClose,
           StopFails, HaltClose, UpdateJobs, vars, tables, TablesTypeOK, Gone
  <1>7. /\ daemon' = daemon \/ daemon' \in {"select", "off"}
        /\ todo' = todo \/ todo' = {}
    BY <1>1, OtherPlaces DEF vars, daemonVars
  <1>8. \A t \in Worker : job'[t] \in Listed => job'[t] = job[t]
    BY <1>3, JobTablesAssumption, AtomDispatchAssumption
  <1> QED
    BY <1>5, <1>6, <1>7, <1>8, CompleteStays

\* A job that says it is finished has nothing left to process, although each thread counts
\* down an instance of its own and the daemon updates what it has selected before: halts,
\* crashes, deleted and delayed jobs and lists included, when nothing fails and nobody adds,
\* retries, recycles, stops or aborts.
THEOREM CompleteAlways == ASSUME Undivided PROVE Spec => []CompleteInv
  <1>1. Init => CompleteInv
    <2> SUFFICES ASSUME Init PROVE CompleteInv
      OBVIOUS
    <2>1. CleanInv
      BY CleanInit
    <2>2. \A a \in Atom : ~Known(a)
      BY JobTablesAssumption DEF Init, TablesInit, Known, Moved, NoRow, Gone
    <2>3. \A t \in Worker : job[t] = None
      BY DEF Init, DispatchInit
    <2>4. LoadedOnce
      BY <2>2, <2>3, JobTablesAssumption, AtomDispatchAssumption DEF Init, LoadedOnce, AtomsOf
    <2>5. Counted /\ Instances
      BY <2>3 DEF Init, DispatchInit, Counted, Instances
    <2>6. FinishedIsComplete
      BY DEF Init, TablesInit, FinishedIsComplete, NoRow
    <2> QED
      BY <2>1, <2>4, <2>5, <2>6 DEF Init, CompleteInv
  <1>2. ASSUME CompleteInv, CleanInv', [Next]_vars PROVE CompleteInv'
    <2>1. TypeInv /\ abort = NoAbort /\ Unaborted /\ RowsInv /\ "add" \notin Events
      BY <1>2 DEF CompleteInv, CleanInv, RowsInv, Undivided, Smooth, Quiet, Calm, Unaborted
    <2>2. OfJobs /\ KeysKept /\ JobsKept /\ \A a \in Atom : Comes(a)
      BY <1>2, <2>1, NextOfJobs, NextKeepsKeys, NextKeepsJobs, NextBrings
    <2> QED
      BY <1>2, <2>1, <2>2, NoAborts, ThreadComplete, DaemonComplete, OtherComplete DEF Next
  <1>3. Spec => []CleanInv
    BY CleanAlways DEF Undivided
  <1> QED
    BY <1>1, <1>2, <1>3, PTL DEF Spec

\* In particular the status that WorkerThread.run and SchedulerDaemon.run write is right.
THEOREM FinishedAreDone == ASSUME Undivided PROVE Spec => []FinishedIsComplete
  <1>1. CompleteInv => FinishedIsComplete
    BY DEF CompleteInv
  <1> QED
    BY <1>1, CompleteAlways, PTL
-----------------------------------------------------------------------------
(* The scheduler implements Mailing                                        *)

\* No job is created or deleted.
JobsStand ==
  \A j \in Job : {jobStatus[j], jobStatus'[j]} \cap {NoRow, Gone} # {} => jobStatus'[j] = jobStatus[j]

LEMMA StatementsStand ==
  ASSUME TablesTypeOK,
         \/ jobStatus' = jobStatus
         \/ \E j, status : status \in Status /\ UpdateJob(j, status)
         \/ \E S, status : status \in Status /\ UpdateJobs(S, status)
  PROVE  JobsStand
  <1> USE DEF TablesTypeOK, JobsStand, HasRow, Status, NoRow, Gone
  <1>1. ASSUME NEW j, NEW status \in Status, UpdateJob(j, status) PROVE JobsStand
    BY <1>1 DEF UpdateJob
  <1>2. ASSUME NEW S, NEW status \in Status, UpdateJobs(S, status) PROVE JobsStand
    BY <1>2 DEF UpdateJobs
  <1>3. CASE jobStatus' = jobStatus
    BY <1>3
  <1> QED
    BY <1>1, <1>2, <1>3

LEMMA ThreadStands == ASSUME TypeInv, NEW t \in Worker, Threads(t) PROVE JobsStand
  <1>1. jobStatus' = jobStatus \/ UpdateJob(job[t], "finished")
    BY DEF Threads, WorkerStep, WorkerFault, Begin, LeaveHalted, Pop, PopNothing, Mark,
           Load, Process, ProcessFails, ArchiveInsert, ArchiveRefused, ArchiveDelete, Finish, Interrupt,
           MarkFails, MarkFindsNoConnection, LoadFails, ArchivingFails, InterruptFails,
           InterruptFindsNoConnection, tables
  <1> QED
    BY <1>1, StatementsStand DEF TypeInv, TypeOK, Status

LEMMA DaemonStands == ASSUME TypeInv, DaemonStep \/ Fatal PROVE JobsStand
  <1>1. \/ jobStatus' = jobStatus
        \/ \E j, status : status \in {"finished", "running", "pending"} /\ UpdateJob(j, status)
    BY DEF DaemonStep, Fatal, Abnormal, LoadRefused, FinishSelect, FinishUpdate, Count, LoadSelect,
           LoadInsert, LoadRun, LoadDone, FeedQuery, FeedPush, FeedMark, FeedDone, Launch, LaunchDone,
           Watch, Leave, Drain, DrainDone, ResetAtoms, ResetJob, ResetDone, Close, tables
  <1> QED
    BY <1>1, StatementsStand DEF TypeInv, TypeOK, Status

LEMMA CallsStand == ASSUME TypeInv, Start \/ Crash \/ StopCall \/ HaltCall \/ StopStep PROVE JobsStand
  <1>1. \/ jobStatus' = jobStatus
        \/ \E S, status : status \in {"suspended", "interrupted"} /\ UpdateJobs(S, status)
    BY DEF Start, Crash, StopCall, HaltCall, StopStep, StopWake, StopMark, StopKill,
           StopClose, StopFails, HaltClose, tables
  <1> QED
    BY <1>1, StatementsStand DEF TypeInv, TypeOK, Status

\* Jobs are created and deleted on the pages alone.
LEMMA NextStands ==
  ASSUME TypeInv, abort = NoAbort, Unaborted, [Next]_vars
  PROVE  \/ JobsStand
         \/ \E j \in Job : (\E time : SendMail(j, time) \/ CreateListJob(j, time)) \/ DeleteJob(j)
  <1>1. TablesTypeOK /\ "pending" \in Status
    BY DEF TypeInv, TypeOK, Status
  <1>2. CASE Created
    BY <1>1, <1>2, StatementsStand DEF Created, TimePasses
  <1>3. CASE WebEvent
    BY <1>1, <1>3, StatementsStand
       DEF WebEvent, AddRecipients, ViewAtoms, SuspendAtoms, RetryAtoms, RecycleJob, DelayJob, tables
  <1>4. CASE UNCHANGED vars
    BY <1>1, <1>4, StatementsStand DEF vars, tables
  <1> QED
    BY <1>2, <1>3, <1>4, ThreadStands, DaemonStands, CallsStand, NoAborts DEF Next, Web

\* Atoms come with an INSERT, of one page or of the feeder, and with nothing else.
Enters(S) ==
  /\ S \subseteq NewAtoms(Atom) /\ InsertAtoms(S)
  /\ \A a \in S : jobStatus[JobOf[a]] # Gone
  /\ \A j \in Job : jobStatus'[j] = Gone <=> jobStatus[j] = Gone
  /\ UNCHANGED <<archived, queue, atom, sent, Fed>>

LEMMA NewsEnter ==
  ASSUME TablesTypeOK, NEW j \in Job,
         \/ \E time : SendMail(j, time) /\ UNCHANGED <<dispatch, daemonVars>>
         \/ AddRecipients(j) /\ UNCHANGED <<dispatch, daemonVars>>
         \/ LoadInsert(j) /\ Inserts(j) # {}
  PROVE  \E S : Enters(S)
  <1>1. ASSUME NEW T \in SUBSET AtomsOf(j), InsertAtoms(NewAtoms(T)), UNCHANGED <<archived, queue, atom, sent, Fed>>,
               \A k \in Job : jobStatus'[k] = Gone <=> jobStatus[k] = Gone, jobStatus[j] # Gone
        PROVE  Enters(NewAtoms(T))
    BY <1>1 DEF Enters, NewAtoms, AtomsOf
  <1>2. ASSUME NEW time, SendMail(j, time), UNCHANGED <<dispatch, daemonVars>> PROVE \E S : Enters(S)
    <2>1. \A k \in Job : jobStatus'[k] = Gone <=> jobStatus[k] = Gone
      BY <1>2 DEF SendMail, TablesTypeOK, Gone, NoRow
    <2> QED
      BY <1>1, <1>2, <2>1 DEF SendMail, dispatch, threads, daemonVars, Fed, Gone, NoRow
  <1>3. CASE AddRecipients(j) /\ UNCHANGED <<dispatch, daemonVars>>
    BY <1>1, <1>3 DEF AddRecipients, HasRow, Status, dispatch, threads, daemonVars, Fed, Gone
  <1>4. CASE LoadInsert(j) /\ Inserts(j) # {}
    BY <1>1, <1>4 DEF LoadInsert, Inserts, HasRow, Status, dispatch, threads, Fed, Gone
  <1> QED
    BY <1>2, <1>3, <1>4

LEMMA NothingNew ==
  ASSUME NEW a \in Atom,
         \/ atomStatus' = atomStatus
         \/ \E S, status : UpdateAtoms(S, status)
         \/ \E S : DeleteAtoms(S),
         archived'[a] # NoRow => archived[a] # NoRow \/ atomStatus[a] # NoRow,
         jobStatus'[JobOf[a]] = Gone => jobStatus[JobOf[a]] = Gone \/ Known(a), Known(a)'
  PROVE  Known(a)
  BY DEF Known, Moved, UpdateAtoms, DeleteAtoms

\* Either atoms enter, or every atom that is known was.
LEMMA NextEnters ==
  ASSUME MailingInv, Unaborted, [Next]_vars, NEW a \in Atom, Known(a)', ~Known(a)
  PROVE  \E S : Enters(S)
  <1>1. TypeInv /\ TablesTypeOK /\ abort = NoAbort /\ JobOf[a] \in Job
    BY JobTablesAssumption DEF MailingInv, RowsInv, TypeInv, TypeOK
  <1>2. ASSUME NEW j \in Job, DeleteJob(j), "delete" \in Events PROVE FALSE
    <2>1. CASE JobOf[a] = j
      BY <1>2, <2>1 DEF DeleteJob, MailingInv, Loaded, AtomsOf
    <2>2. CASE JobOf[a] # j
      BY <1>2, <2>2 DEF DeleteJob, DeleteAtoms, AtomsOf, Known, Moved
    <2> QED
      BY <2>1, <2>2
  <1>3. ASSUME NEW j \in Job, NEW time, CreateListJob(j, time) PROVE FALSE
    <2>1. jobStatus'[JobOf[a]] = Gone => jobStatus[JobOf[a]] = Gone
      BY <1>1, <1>3 DEF CreateListJob, TablesTypeOK, Gone, NoRow
    <2> QED
      BY <1>3, <2>1, NothingNew DEF CreateListJob
  <1>4. CASE Web
    <2>1. UNCHANGED <<dispatch, daemonVars>>
      BY <1>4 DEF Web
    <2>2. \A j \in Job : (\E time : SendMail(j, time)) \/ AddRecipients(j) => \E S : Enters(S)
      BY <1>1, <2>1, NewsEnter
    <2>3. ASSUME NEW j \in Job, TimePasses(j) \/ (\E status : ViewAtoms(j, status)) \/ (\E S : SuspendAtoms(S))
                                \/ (\E S : RetryAtoms(j, S)) \/ RecycleJob(j) \/ (\E time : DelayJob(j, time))
          PROVE  FALSE
      <3>1. /\ archived' = archived
            /\ atomStatus' = atomStatus \/ \E S, status : UpdateAtoms(S, status)
        BY <2>3 DEF TimePasses, ViewAtoms, SuspendAtoms, RetryAtoms, RecycleJob, DelayJob, tables
      <3>2. jobStatus' = jobStatus \/ UpdateJob(j, "pending")
        BY <2>3 DEF TimePasses, ViewAtoms, SuspendAtoms, RetryAtoms, RecycleJob, DelayJob, tables
      <3>3. JobsStand
        BY <1>1, <3>2, StatementsStand DEF Status
      <3>4. jobStatus'[JobOf[a]] = Gone => jobStatus[JobOf[a]] = Gone
        BY <1>1, <3>3 DEF JobsStand
      <3> QED
        BY <3>1, <3>4, NothingNew
    <2>4. CASE Created
      BY <1>3, <2>2, <2>3, <2>4 DEF Created
    <2>5. CASE WebEvent
      BY <1>2, <2>2, <2>3, <2>5 DEF WebEvent, Event
    <2> QED
      BY <1>4, <2>4, <2>5 DEF Web
  <1>5. CASE DaemonStep \/ Fatal
    <2>1. archived' = archived
      BY <1>1, <1>5, DaemonPlaces
    <2>2. jobStatus'[JobOf[a]] = Gone => jobStatus[JobOf[a]] = Gone
      BY <1>1, <1>5, DaemonStands DEF JobsStand
    <2>3. ASSUME NEW j \in Job, LoadInsert(j), Inserts(j) = {} PROVE FALSE
      <3>1. atomStatus'[a] = atomStatus[a]
        BY <2>3 DEF LoadInsert, InsertAtoms
      <3> QED
        BY <2>1, <2>2, <3>1 DEF Known, Moved
    <2>4. \/ atomStatus' = atomStatus
          \/ FeedMark \/ \E j \in Job : ResetAtoms(j)
          \/ \E j \in Job : LoadInsert(j)
      BY <1>5 DEF DaemonStep, Fatal, Abnormal, LoadRefused, FinishSelect, FinishUpdate, Count, LoadSelect,
             LoadRun, LoadDone, FeedQuery, FeedPush, FeedDone, Launch, LaunchDone,
             Watch, Leave, Drain, DrainDone, ResetJob, ResetDone, Close, tables
    <2> QED
      BY <1>1, <2>1, <2>2, <2>3, <2>4, NewsEnter, NothingNew DEF FeedMark, ResetAtoms
  <1>6. ASSUME NEW t \in Worker, Threads(t) PROVE FALSE
    <2>1. archived'[a] # NoRow => archived[a] # NoRow \/ atomStatus[a] # NoRow
      BY <1>1, <1>6, ThreadPlaces DEF ArchiveInsert, ArchiveAtoms
    <2>2. \/ atomStatus' = atomStatus
          \/ \E S, status : UpdateAtoms(S, status)
          \/ \E S : DeleteAtoms(S)
      BY <1>6 DEF Threads, WorkerStep, WorkerFault, Begin, LeaveHalted, Pop, PopNothing, Mark, Load,
           Process, ProcessFails, ArchiveInsert, ArchiveRefused, ArchiveDelete, Finish, Interrupt,
           MarkFails, MarkFindsNoConnection, LoadFails, ArchivingFails, InterruptFails,
           InterruptFindsNoConnection, tables
    <2>3. jobStatus'[JobOf[a]] = Gone => jobStatus[JobOf[a]] = Gone
      BY <1>1, <1>6, ThreadStands DEF JobsStand
    <2> QED
      BY <2>1, <2>2, <2>3, NothingNew
  <1>7. CASE Start \/ Crash \/ StopCall \/ HaltCall \/ StopStep
    <2>1. Wanes
      BY <1>1, <1>7, OtherPlaces
    <2>2. atomStatus' = atomStatus \/ \E S, status : UpdateAtoms(S, status)
      BY <1>7 DEF Start, Crash, StopCall, HaltCall, StopStep, StopWake, StopMark, StopKill,
             StopClose, StopFails, HaltClose, tables
    <2>3. jobStatus'[JobOf[a]] = Gone => jobStatus[JobOf[a]] = Gone
      BY <1>1, <1>7, CallsStand DEF JobsStand
    <2> QED
      BY <2>1, <2>2, <2>3, NothingNew DEF Wanes
  <1>8. CASE UNCHANGED vars
    BY <1>8 DEF vars, tables, Known, Moved
  <1> QED
    BY <1>1, <1>4, <1>5, <1>6, <1>7, <1>8, NoAborts DEF Next

\* What the feeder has still to push was pending.
LEMMA FedStays ==
  ASSUME TypeInv, abort = NoAbort, Unaborted, [Next]_vars, NEW a \in Atom, a \in Fed'
  PROVE  a \in Fed \/ atomStatus[a] = "pending"
  <1>1. CASE DaemonStep \/ Fatal
    <2>1. CASE FeedQuery
      BY <2>1 DEF FeedQuery, Fed
    <2>2. CASE (\E b \in Atom : FeedPush(b)) \/ FeedMark
      BY <2>2 DEF FeedPush, FeedMark, Fed
    <2>3. CASE daemon' \notin {"push", "mark"}
      BY <2>3 DEF Fed
    <2> QED
      BY <1>1, <2>1, <2>2, <2>3
         DEF DaemonStep, Fatal, Abnormal, LoadRefused, FinishSelect, FinishUpdate, Count, LoadSelect,
             LoadInsert, LoadRun, LoadDone, FeedDone, Launch, LaunchDone,
             Watch, Leave, Drain, DrainDone, ResetAtoms, ResetJob, ResetDone, Close
  <1>2. CASE UNCHANGED daemonVars
    BY <1>2 DEF daemonVars, Fed
  <1>3. CASE Start \/ Crash \/ Web \/ StopCall \/ HaltCall \/ StopStep
    <2>1. (daemon' = daemon \/ daemon' \in {"select", "off"}) /\ (todo' = todo \/ todo' = {})
      BY <1>3, OtherPlaces
    <2> QED
      BY <2>1 DEF Fed
  <1> QED
    BY <1>1, <1>2, <1>3, NoAborts DEF Next, Threads, vars

\* What waits in the queue or is at a thread was there, or the feeder has pushed it.
LEMMA BusyStays ==
  ASSUME TypeInv, IdleHasNone', abort = NoAbort, Unaborted, [Next]_vars, NEW a \in Atom, Busy(a)'
  PROVE  Busy(a) \/ a \in Fed
  <1>1. queue \in Seq(Atom) /\ a # None
    BY AtomDispatchAssumption DEF TypeInv, TypeOK, DispatchTypeOK
  <1>2. ASSUME NEW t \in Worker, atom'[t] = a PROVE at'[t] \notin Idle
    BY <1>1, <1>2 DEF IdleHasNone
  <1>3. CASE Wanes
    BY <1>2, <1>3 DEF Wanes, Busy, Queued, Taken
  <1>4. ASSUME NEW b \in Atom, FeedPush(b) PROVE Busy(a) \/ a \in Fed
    <2>1. daemon = "push" /\ b \in todo /\ queue' = Append(queue, b) /\ atom' = atom
      BY <1>4 DEF FeedPush, Push, threads
    <2>2. \A i \in DOMAIN queue' : queue'[i] = b \/ (i \in DOMAIN queue /\ queue'[i] = queue[i])
      <3>1. /\ Len(queue) \in Nat /\ DOMAIN queue = 1 .. Len(queue)
            /\ DOMAIN queue' = 1 .. Len(queue) + 1 /\ queue'[Len(queue) + 1] = b
            /\ \A i \in DOMAIN queue : queue'[i] = queue[i]
        BY <1>1, <2>1
      <3> QED
        BY <3>1
    <2> QED
      BY <2>1, <2>2 DEF Busy, Queued, Taken, Fed
  <1>5. ASSUME NEW t \in Worker, Threads(t) PROVE Busy(a)
    <2>1. /\ \A u \in Worker : u # t => atom'[u] = atom[u]
          /\ at'[t] \notin Idle => Pop(t) \/ atom'[t] = atom[t]
          /\ queue' = queue \/ Pop(t)
      BY <1>5, ThreadPlaces
    <2>2. CASE Pop(t)
      <3>1. queue # <<>> /\ queue' = Tail(queue) /\ atom'[t] = Head(queue)
        BY <2>2 DEF Pop, TypeInv, TypeOK, DispatchTypeOK
      <3>2. \A i \in DOMAIN queue' : \E k \in DOMAIN queue : queue'[i] = queue[k]
        BY <1>1, <3>1, TailIsPart
      <3>3. 1 \in DOMAIN queue /\ Head(queue) = queue[1]
        BY <1>1, <3>1
      <3> QED
        BY <2>1, <3>1, <3>2, <3>3 DEF Busy, Queued, Taken
    <2>3. CASE ~Pop(t)
      BY <1>2, <2>1, <2>3 DEF Busy, Queued, Taken
    <2> QED
      BY <2>2, <2>3
  <1>6. CASE UNCHANGED vars
    BY <1>6 DEF vars, dispatch, threads, Busy, Queued, Taken
  <1> QED
    BY <1>3, <1>4, <1>5, <1>6, DaemonPlaces, OtherPlaces, NoAborts DEF Next

\* What Mailing's variables stand for, as the invariants see it.
Promised(a) == atomStatus[a] # NoRow \/ Busy(a) \/ a \in Fed

MailSets ==
  /\ \A a \in Atom : Promised(a) => Known(a)
  /\ Accepted = {a \in Atom : sent[a] = 0 /\ Promised(a)}
  /\ Withdrawn = {a \in Atom : sent[a] = 0 /\ Known(a) /\ ~Promised(a)}

\* What is held is what is counted.
LEMMA OccursBusy == ASSUME TypeInv, NEW a \in Atom, ~Busy(a) PROVE ~(Occurrences(a) > 0)
  <1>1. {i \in DOMAIN queue : queue[i] = a} = {} /\ {t \in Worker : atom[t] = a} = {}
    BY DEF Busy, Queued, Taken
  <1> QED
    BY <1>1, FS_EmptySet DEF Occurrences

LEMMA MailingSets == MailingInv => MailSets
  <1> SUFFICES ASSUME MailingInv PROVE MailSets
    OBVIOUS
  <1>1. TypeInv /\ RowsInv /\ IdleHasNone /\ None \notin Atom
    BY AtomDispatchAssumption DEF MailingInv, OnceInv
  <1>2. \A a \in Atom : Occurrences(a) > 0 <=> Busy(a)
    BY <1>1, BusyOccurs, OccursBusy
  <1>3. Accepted = {a \in Atom : sent[a] = 0 /\ Promised(a)}
    BY <1>2 DEF Accepted, Promised
  <1>4. ASSUME NEW a \in Atom, Promised(a) PROVE Known(a)
    <2>1. CASE Queued(a)
      BY <1>1, <2>1 DEF Queued, RowsInv, KnownHeld
    <2>2. CASE Taken(a)
      BY <1>1, <2>2 DEF Taken, IdleHasNone, RowsInv, KnownHeld
    <2>3. CASE a \in Fed
      BY <1>1, <2>3 DEF Fed, RowsInv
    <2> QED
      BY <1>4, <2>1, <2>2, <2>3 DEF Promised, Busy, Known
  <1>5. ASSUME NEW a \in Atom, sent[a] = 0, ~Promised(a)
        PROVE  jobStatus[JobOf[a]] = Gone <=> Known(a)
    BY <1>1, <1>5 DEF RowsInv, Evidence, Promised, Known, Moved
  <1> QED
    BY <1>3, <1>4, <1>5 DEF MailSets, Withdrawn

\* Job.process delivers what was accepted.
LEMMA ProcessDelivers ==
  ASSUME MailingInv, MailSets, MailSets', NEW t \in Worker, Threads(t), Process(t)
  PROVE  [M!Next]_(M!vars)
  <1>1. PICK a \in Atom : a = atom[t]
    BY DEF Process, MailingInv, OnceInv, TypeInv, Placed, TypeOK, DispatchTypeOK
  <1>2. /\ sent[a] = 0 /\ sent' = [sent EXCEPT ![a] = @ + 1] /\ sent'[a] = 1
        /\ \A b \in Atom : b # a => sent'[b] = sent[b]
    BY <1>1 DEF Process, MailingInv, OnceInv, Unsent, TypeInv, TypeOK, DispatchTypeOK
  <1>3. Promised(a)
    BY <1>1 DEF Promised, Busy, Taken
  <1>4. \A b \in Atom : (Promised(b)' <=> Promised(b)) /\ (Known(b)' <=> Known(b))
    BY DEF Process, Threads, tables, daemonVars, Promised, Busy, Queued, Taken, Fed, Known, Moved
  <1>5. a \in Accepted /\ Accepted' = Accepted \ {a} /\ Withdrawn' = Withdrawn
    BY <1>2, <1>3, <1>4 DEF MailSets
  <1> QED
    BY <1>2, <1>5 DEF M!Next, M!Deliver

\* An INSERT accepts what is new.
LEMMA EntersAccepts ==
  ASSUME MailingInv, MailSets, MailSets', NEW S, Enters(S)
  PROVE  [M!Next]_(M!vars)
  <1>1. /\ \A a \in S : a \in Atom /\ ~Known(a)
        /\ \A a \in Atom : sent[a] # 0 => Known(a)
    BY DEF Enters, NewAtoms, Known, Moved, MailingInv, OnceInv, Remembered, TypeInv, TypeOK, DispatchTypeOK
  <1>2. \A a \in Atom : (Promised(a)' <=> Promised(a) \/ a \in S) /\ (Known(a)' <=> Known(a) \/ a \in S)
    BY JobTablesAssumption DEF Enters, InsertAtoms, Promised, Known, Moved, Busy, Queued, Taken, NoRow
  <1>3. sent' = sent
    BY DEF Enters
  <1>4. S \cap (Accepted \cup Withdrawn) = {} /\ \A a \in S : sent[a] = 0
    BY <1>1 DEF MailSets
  <1>5. Accepted' = Accepted \cup S /\ Withdrawn' = Withdrawn
    BY <1>1, <1>2, <1>3 DEF MailSets
  <1>6. CASE S = {}
    BY <1>3, <1>5, <1>6 DEF M!vars
  <1>7. CASE S # {}
    BY <1>1, <1>3, <1>4, <1>5, <1>7 DEF M!Next, M!Accept
  <1> QED
    BY <1>6, <1>7

\* Otherwise what was accepted stays so, or goes with its job.
LEMMA OthersWithdraw ==
  ASSUME MailingInv, MailingInv', MailSets, MailSets', Unaborted, [Next]_vars, sent' = sent,
         \A a \in Atom : Known(a)' => Known(a)
  PROVE  [M!Next]_(M!vars)
  <1>1. /\ TypeInv /\ IdleHasNone' /\ abort = NoAbort /\ RowsOfJobs
        /\ OfJobs /\ KeysKept
    BY NextOfJobs, NextKeepsKeys DEF MailingInv, RowsInv, OnceInv
  <1>2. ASSUME NEW a \in Atom, a \in Withdrawn PROVE a \in Withdrawn'
    <2>1. sent[a] = 0 /\ Known(a) /\ ~Promised(a)
      BY <1>2 DEF MailSets
    <2>2. atomStatus[a] = NoRow /\ ~Busy(a) /\ a \notin Fed /\ Moved(a)
      BY <2>1 DEF Promised, Known
    <2>3. atomStatus'[a] = NoRow
      BY <1>1, <2>2 DEF OfJobs, KeysKept
    <2>4. ~Busy(a)' /\ a \notin Fed'
      BY <1>1, <2>2, BusyStays, FedStays DEF NoRow
    <2>5. ~Promised(a)'
      BY <2>3, <2>4 DEF Promised
    <2>6. sent'[a] = 0 /\ Known(a)'
      BY <1>1, <2>1 DEF KeysKept
    <2> QED
      BY <2>5, <2>6 DEF MailSets
  <1>3. \A a \in Atom : a \in Accepted \cup Withdrawn <=> sent[a] = 0 /\ Known(a)
    BY DEF MailSets
  <1>4. \A a \in Atom : a \in Accepted' \cup Withdrawn' <=> sent[a] = 0 /\ Known(a)'
    BY DEF MailSets
  <1>5. Accepted \cup Withdrawn = Accepted' \cup Withdrawn'
    <2>1. /\ Accepted \subseteq Atom /\ Withdrawn \subseteq Atom
          /\ Accepted' \subseteq Atom /\ Withdrawn' \subseteq Atom
      BY DEF MailSets
    <2> QED
      BY <1>1, <1>3, <1>4, <2>1 DEF KeysKept
  <1>6. /\ Accepted \cap Withdrawn = {} /\ Accepted' \cap Withdrawn' = {} /\ Accepted \subseteq Atom
        /\ Withdrawn \subseteq Withdrawn'
    BY <1>2 DEF MailSets
  <1> DEFINE S == Accepted \ Accepted'
  <1>7. Accepted' = Accepted \ S /\ Withdrawn' = Withdrawn \cup S /\ S \subseteq Accepted
    BY <1>5, <1>6
  <1>8. S \in SUBSET Atom
    BY <1>6
  <1> HIDE DEF S
  <1>9. CASE S = {}
    BY <1>7, <1>9 DEF M!vars
  <1>10. CASE S # {}
    BY <1>7, <1>8, <1>10 DEF M!Next, M!Withdraw
  <1> QED
    BY <1>9, <1>10

\* A job has all its atoms from the beginning.
LEMMA WholeStays ==
  ASSUME MailingInv, Quiet, Whole, [Next]_vars, OnceInv', RowsInv'
  PROVE  MailingInv'
  <1>1. TypeInv /\ abort = NoAbort /\ Unaborted /\ TablesTypeOK
    BY DEF MailingInv, RowsInv, TypeInv, TypeOK, Quiet, Calm, Unaborted
  <1>2. OfJobs /\ KeysKept /\ JobsKept
    BY <1>1, NextOfJobs, NextKeepsKeys, NextKeepsJobs DEF MailingInv
  <1>3. RowsOfJobs'
    BY <1>2, RowsStayWithJobs DEF MailingInv
  <1>4. ASSUME "delete" \in Events, NEW j \in Job, HasRow(j)' PROVE Loaded(j)'
    <2>1. AtomsOf(j)' = AtomsOf(j) /\ AtomsOf(j) \subseteq Atom
      BY DEF AtomsOf
    <2>2. CASE HasRow(j)
      BY <1>2, <1>4, <2>1, <2>2 DEF MailingInv, Loaded, KeysKept
    <2>3. CASE ~HasRow(j)
      <3>1. jobStatus[j] = NoRow
        BY <1>2, <1>4, <2>3 DEF JobsKept
      <3>2. \E time : SendMail(j, time)
        <4>1. jobStatus'[j] \notin {NoRow, Gone}
          BY <1>4 DEF HasRow, Status, NoRow, Gone
        <4>2. ~JobsStand
          BY <3>1, <4>1 DEF JobsStand
        <4>3. ASSUME NEW k \in Job, k # j, (\E time : SendMail(k, time)) \/ DeleteJob(k) PROVE FALSE
          BY <1>1, <3>1, <4>1, <4>3 DEF SendMail, DeleteJob, TablesTypeOK
        <4>4. ~DeleteJob(j)
          BY <2>3 DEF DeleteJob
        <4>5. \A k \in Job : \A time : ~CreateListJob(k, time)
          BY <1>4 DEF CreateListJob, Whole
        <4> QED
          BY <1>1, <4>2, <4>3, <4>4, <4>5, NextStands
      <3>3. InsertAtoms(NewAtoms(AtomsOf(j)))
        <4>1. AtomsOf(j) \ Late = AtomsOf(j)
          BY <1>4 DEF Whole
        <4> QED
          BY <3>2, <4>1 DEF SendMail
      <3>4. \A a \in AtomsOf(j) : Known(a)'
        <4> SUFFICES ASSUME NEW a \in AtomsOf(j), ~Known(a) PROVE Known(a)'
          BY <1>2, <2>1 DEF KeysKept
        <4>1. atomStatus'[a] = "pending"
          BY <2>1, <3>3 DEF InsertAtoms, NewAtoms, Known, Moved
        <4> QED
          BY <4>1 DEF Known, NoRow
      <3> QED
        BY <2>1, <3>4 DEF Loaded
    <2> QED
      BY <2>2, <2>3
  <1> QED
    BY <1>3, <1>4 DEF MailingInv

LEMMA MailingStart == Init => MailingInv
  <1> SUFFICES ASSUME Init PROVE MailingInv
    OBVIOUS
  <1>1. OnceInv /\ RowsInv
    BY OnceInit, RowsInit
  <1> QED
    BY <1>1 DEF Init, TablesInit, MailingInv, RowsOfJobs, HasRow, Status, NoRow

\* When no statement fails and nobody aborts, stops, retries or recycles, what happens to
\* messages is what Mailing says of them: each goes out once after it was accepted, and none
\* is forgotten unless its job is deleted; whatever message fails, and whoever halts or kills
\* the process, delays a job or adds atoms to it.
THEOREM MailingImplemented == ASSUME Quiet, Whole PROVE Spec => MailingSteps
  <1>1. Unaborted
    BY DEF Quiet, Calm, Unaborted
  <1>2. MailingInv /\ OnceInv' /\ RowsInv' /\ [Next]_vars => MailingInv'
    BY WholeStays
  <1>3. Init /\ MailSets => M!Init
    <2> SUFFICES ASSUME Init, MailSets PROVE M!Init
      OBVIOUS
    <2>1. \A a \in Atom : sent[a] = 0 /\ ~Known(a)
      BY JobTablesAssumption DEF Init, TablesInit, DispatchInit, Known, Moved, NoRow, Gone
    <2>2. Accepted = {} /\ Withdrawn = {}
      BY <2>1 DEF MailSets
    <2> QED
      BY <2>2 DEF M!Init, Init, DispatchInit
  <1>4. MailingInv /\ MailingInv' /\ MailSets /\ MailSets' /\ [Next]_vars => [M!Next]_(M!vars)
    <2> SUFFICES ASSUME MailingInv, MailingInv', MailSets, MailSets', [Next]_vars PROVE [M!Next]_(M!vars)
      OBVIOUS
    <2>1. CASE \E S : Enters(S)
      BY <2>1, EntersAccepts
    <2>2. ASSUME NEW t \in Worker, Threads(t), Process(t) PROVE [M!Next]_(M!vars)
      BY <2>2, ProcessDelivers
    <2>3. sent' = sent \/ \E t \in Worker : Threads(t) /\ Process(t)
      <3>1. TypeInv /\ abort = NoAbort
        BY DEF MailingInv, RowsInv
      <3> QED
        BY <1>1, <3>1, NoAborts, ThreadPlaces, DaemonPlaces, OtherPlaces
           DEF Next, vars, dispatch, FeedPush, Wanes
    <2> QED
      BY <1>1, <2>1, <2>2, <2>3, OthersWithdraw, NextEnters
  <1>5. (Spec => []OnceInv) /\ (Spec => []RowsInv)
    BY <1>1, OnceAlways, RowsAlways
  <1>6. Spec => []MailingInv
    BY <1>2, <1>5, MailingStart, PTL DEF Spec
  <1>7. Spec => [](MailingInv /\ MailSets)
    BY <1>6, MailingSets, PTL
  <1> QED
    BY <1>3, <1>4, <1>7, PTL DEF Spec, MailingSteps
=============================================================================
