------------------------- MODULE SchedulerOnceProofs -------------------------
(***************************************************************************)
(* No message is sent twice, whatever the crashes, halts, additions and    *)
(* deletions, as long as the database works and nobody aborts, stops,      *)
(* retries or recycles.                                                    *)
(***************************************************************************)
EXTENDS SchedulerProofs

\* The part of the invariant that the daemon's own variables do not enter.
Apart == /\ OneCopy /\ IdleHasNone /\ Unsent /\ Marked /\ Remembered /\ Copied
         /\ AtMostOnce

\* What a step may do with the rows: a key that is used stays used, and only an
\* atom that was never known becomes pending.
RowsKept ==
  \A a \in Atom : /\ Known(a) => Known(a)'
                  /\ Moved(a) => Moved(a)'
                  /\ atomStatus'[a] = "pending" => atomStatus[a] = "pending" \/ ~Known(a)
-----------------------------------------------------------------------------
\* Statements keep the rows.
LEMMA UpdateKeepsRows ==
  ASSUME TablesTypeOK, NEW S, NEW status \in Status \ {"pending"},
         UpdateAtoms(S, status), UNCHANGED <<jobStatus, archived>>
  PROVE  RowsKept
  BY DEF UpdateAtoms, RowsKept, Known, Moved, Status, NoRow

LEMMA InsertKeepsRows ==
  ASSUME TablesTypeOK, NEW S, \A a \in S \cap Atom : ~Known(a),
         InsertAtoms(S), UNCHANGED archived,
         \A j \in Job : jobStatus[j] = Gone => jobStatus'[j] = Gone
  PROVE  RowsKept
  BY JobTablesAssumption DEF InsertAtoms, RowsKept, Known, Moved, NoRow

LEMMA UpdateJobKeepsRows ==
  ASSUME TablesTypeOK, NEW j, NEW status, UpdateJob(j, status), UNCHANGED <<atomStatus, archived>>
  PROVE  RowsKept
  BY JobTablesAssumption DEF TablesTypeOK, UpdateJob, HasRow, RowsKept, Known, Moved, Status, Gone

LEMMA UnchangedKeepsRows ==
  ASSUME UNCHANGED <<jobStatus, atomStatus, archived>> PROVE RowsKept
  BY DEF RowsKept, Known, Moved

\* Each step of a thread keeps the rows.
LEMMA ThreadKeepsRows ==
  ASSUME TypeInv, Copied, NEW t \in Worker, Threads(t)
  PROVE  RowsKept
  <1>1. TablesTypeOK
    BY DEF TypeInv, TypeOK
  <1>2. CASE UNCHANGED <<jobStatus, atomStatus, archived>>
    BY <1>2, UnchangedKeepsRows
  <1>3. CASE Mark(t)
    BY <1>1, <1>3, UpdateKeepsRows DEF Mark, Status
  <1>4. CASE ArchiveInsert(t)
    BY <1>4 DEF ArchiveInsert, ArchiveAtoms, RowsKept, Known, Moved
  <1>5. CASE ArchiveDelete(t)
    <2>1. at[t] = "delete" /\ Moved(atom[t])
      BY <1>5 DEF ArchiveDelete, Copied
    <2>2. UNCHANGED <<jobStatus, archived>>
      BY <1>5 DEF ArchiveDelete
    <2>3. atomStatus' = [a \in Atom |-> IF a \in {atom[t]} THEN NoRow ELSE atomStatus[a]]
      BY <1>5 DEF ArchiveDelete, DeleteAtoms
    <2> QED
      BY <2>1, <2>2, <2>3 DEF RowsKept, Known, Moved, NoRow
  <1>6. CASE Finish(t)
    <2>1. UNCHANGED <<atomStatus, archived>>
      BY <1>6 DEF Finish
    <2>2. CASE UpdateJob(job[t], "finished")
      BY <1>1, <2>1, <2>2, UpdateJobKeepsRows
    <2> QED
      BY <1>2, <1>6, <2>1, <2>2 DEF Finish
  <1>7. CASE Interrupt(t)
    BY <1>1, <1>7, UpdateKeepsRows DEF Interrupt, Status
  <1> QED
    BY <1>2, <1>3, <1>4, <1>5, <1>6, <1>7
       DEF Threads, WorkerStep, WorkerFault, tables, Begin, LeaveHalted, Pop, PopNothing, Load,
           Process, ProcessFails, ArchiveRefused, MarkFails, MarkFindsNoConnection, LoadFails,
           ArchivingFails, InterruptFails, InterruptFindsNoConnection

\* Atoms that the two tables do not have were never known, if their job is there.
LEMMA NewIsUnknown ==
  ASSUME NEW j \in Job, NEW S, jobStatus[j] # Gone, NEW a \in NewAtoms(AtomsOf(j) \cap S)
  PROVE  ~Known(a)
  BY DEF NewAtoms, AtomsOf, Known, Moved

\* Each step of the daemon, until it resets what its queue has left, keeps the rows.
LEMMA DaemonKeepsRows ==
  ASSUME TypeInv, daemon \notin {"reset", "resetJob"}, DaemonStep \/ Fatal
  PROVE  RowsKept
  <1>1. TablesTypeOK
    BY DEF TypeInv, TypeOK
  <1>2. CASE UNCHANGED <<jobStatus, atomStatus, archived>>
    BY <1>2, UnchangedKeepsRows
  <1>3. ASSUME NEW j \in Job, FinishUpdate(j) PROVE RowsKept
    BY <1>1, <1>3, UpdateJobKeepsRows DEF FinishUpdate
  <1>4. ASSUME NEW j \in Job, LoadInsert(j) PROVE RowsKept
    <2>1. InsertAtoms(Inserts(j)) /\ UNCHANGED <<jobStatus, archived>>
      BY <1>4 DEF LoadInsert
    <2>2. \A a \in Inserts(j) : ~Known(a)
      <3>1. Inserts(j) = {} \/ jobStatus[j] # Gone
        BY <1>4 DEF LoadInsert, HasRow, Status, Gone
      <3>2. \A a \in Inserts(j) : a \in NewAtoms(AtomsOf(j) \cap Atom)
        BY DEF Inserts, NewAtoms, AtomsOf
      <3> QED
        BY <3>1, <3>2, NewIsUnknown
    <2> QED
      BY <1>1, <2>1, <2>2, InsertKeepsRows
  <1>5. CASE LoadRun
    BY <1>1, <1>5, UpdateJobKeepsRows DEF LoadRun
  <1>6. CASE FeedMark
    BY <1>1, <1>6, UpdateKeepsRows DEF FeedMark, Status
  <1>7. ASSUME NEW j \in Job PROVE ~ResetAtoms(j)
    BY DEF ResetAtoms
  <1>8. ~ResetJob
    BY DEF ResetJob
  <1> QED
    BY <1>2, <1>3, <1>4, <1>5, <1>6, <1>7, <1>8
       DEF DaemonStep, Fatal, Abnormal, LoadRefused, tables, FinishSelect, Count, LoadSelect,
           LoadDone, FeedQuery, FeedPush, FeedDone, Launch, LaunchDone, Watch, Leave, Drain,
           DrainDone, ResetDone, Close

\* Each web page, but those that retry and recycle, keeps the rows.
LEMMA PageKeepsRows ==
  ASSUME TypeInv, NEW j \in Job, NEW time,
         \/ SendMail(j, time) \/ CreateListJob(j, time) \/ TimePasses(j) \/ AddRecipients(j)
         \/ DelayJob(j, time) \/ DeleteJob(j)
  PROVE  RowsKept
  <1>1. TablesTypeOK
    BY DEF TypeInv, TypeOK
  <1>2. CASE UNCHANGED <<jobStatus, atomStatus, archived>>
    BY <1>2, UnchangedKeepsRows
  <1>3. CASE SendMail(j, time)
    <2>1. \A a \in NewAtoms(AtomsOf(j) \ Late) : ~Known(a)
      BY <1>3, NewIsUnknown DEF SendMail, NewAtoms, AtomsOf, NoRow, Gone
    <2>2. \A k \in Job : jobStatus[k] = Gone => jobStatus'[k] = Gone
      BY <1>1, <1>3 DEF SendMail, TablesTypeOK, NoRow, Gone
    <2>3. InsertAtoms(NewAtoms(AtomsOf(j) \ Late)) /\ UNCHANGED archived
      BY <1>3 DEF SendMail
    <2> QED
      BY <1>1, <2>1, <2>2, <2>3, InsertKeepsRows
  <1>4. CASE AddRecipients(j)
    <2>1. \A a \in NewAtoms(AtomsOf(j) \cap Late) : ~Known(a)
      BY <1>4, NewIsUnknown DEF AddRecipients, HasRow, Status, Gone
    <2>2. InsertAtoms(NewAtoms(AtomsOf(j) \cap Late)) /\ UNCHANGED <<jobStatus, archived>>
      BY <1>4 DEF AddRecipients
    <2> QED
      BY <1>1, <2>1, <2>2, InsertKeepsRows
  <1>5. CASE CreateListJob(j, time)
    BY <1>1, <1>5, JobTablesAssumption
       DEF CreateListJob, TablesTypeOK, RowsKept, Known, Moved, NoRow, Gone
  <1>6. CASE DeleteJob(j)
    <2>1. jobStatus' = [jobStatus EXCEPT ![j] = Gone]
      BY <1>6 DEF DeleteJob
    <2>2. atomStatus' = [a \in Atom |-> IF JobOf[a] = j THEN NoRow ELSE atomStatus[a]]
      BY <1>6 DEF DeleteJob, DeleteAtoms, AtomsOf
    <2>3. archived' = [a \in Atom |-> IF JobOf[a] = j THEN NoRow ELSE archived[a]]
      BY <1>6 DEF DeleteJob, AtomsOf
    <2> QED
      BY <1>1, <2>1, <2>2, <2>3, JobTablesAssumption
         DEF TablesTypeOK, RowsKept, Known, Moved, NoRow, Gone
  <1> QED
    BY <1>2, <1>3, <1>4, <1>5, <1>6 DEF TimePasses, DelayJob

LEMMA WebKeepsRows ==
  ASSUME TypeInv, Calm, Web
  PROVE  RowsKept
  <1>1. ~Event("view") /\ ~Event("recycle")
    BY DEF Calm, Event
  <1>2. CASE Created
    BY <1>2, PageKeepsRows DEF Created
  <1>3. CASE WebEvent
    BY <1>1, <1>3, PageKeepsRows DEF WebEvent
  <1> QED
    BY <1>2, <1>3 DEF Web

\* The other calls keep the rows.
LEMMA CallsKeepRows ==
  ASSUME TypeInv, Undisturbed, Calm, Start \/ Crash \/ StopCall \/ HaltCall \/ StopStep
  PROVE  RowsKept
  <1>1. TablesTypeOK /\ stop \in StopState
    BY DEF TypeInv, TypeOK, DaemonTypeOK
  <1>2. CASE UNCHANGED <<jobStatus, atomStatus, archived>>
    BY <1>2, UnchangedKeepsRows
  <1>3. CASE HaltClose
    <2>1. UNCHANGED <<atomStatus, archived>>
      BY <1>3 DEF HaltClose
    <2>2. CASE UpdateJobs(stop.jobs \ RunningJobs, "suspended")
      BY <1>1, <2>1, <2>2, JobTablesAssumption
         DEF UpdateJobs, HasRow, TablesTypeOK, RowsKept, Known, Moved, Status, Gone
    <2> QED
      BY <1>2, <1>3, <2>1, <2>2 DEF HaltClose
  <1> QED
    BY <1>2, <1>3 DEF Start, Crash, StopCall, HaltCall, StopStep, StopWake, StopMark, StopKill,
                      StopClose, StopFails, Undisturbed, tables
-----------------------------------------------------------------------------
\* What is busy was known.  A row that is pending now is free of that.
LEMMA NewPendingIsFree ==
  ASSUME Remembered, RowsKept, NEW a \in Atom, atomStatus'[a] = "pending",
         atomStatus[a] # "pending"
  PROVE  ~Busy(a) /\ ~(sent[a] > 0)
  BY DEF Remembered, RowsKept

\* Only rows change.
LEMMA RowsStep ==
  ASSUME TypeInv, Apart, RowsKept, UNCHANGED <<queue, at, atom, sent>>
  PROVE  Apart'
  <1>1. OneCopy' /\ IdleHasNone' /\ Unsent' /\ AtMostOnce'
    BY DEF Apart, OneCopy, IdleHasNone, Idle, Unsent, AtMostOnce
  <1>2. \A t \in Worker : at[t] \notin Idle => atom[t] \in Atom /\ Taken(atom[t])
    BY DEF Idle, TypeInv, TypeOK, DispatchTypeOK, Placed, Taken
  <1>3. Marked'
    BY <1>2, NewPendingIsFree DEF Apart, Marked, Idle, Busy
  <1>4. Remembered'
    BY DEF Apart, Remembered, RowsKept, Busy, Queued, Taken
  <1>5. Copied'
    BY <1>2 DEF Apart, Copied, RowsKept, Idle
  <1> QED
    BY <1>1, <1>3, <1>4, <1>5 DEF Apart

\* A thread goes on with its atom.
LEMMA MoveStep ==
  ASSUME TypeInv, Apart, RowsKept, UNCHANGED <<queue, atom, sent>>,
         NEW t \in Worker, NEW place, at' = [at EXCEPT ![t] = place],
         place \in Idle => at[t] \in Idle,
         place \in {"mark", "load", "process"} => at[t] \in {"mark", "load", "process"},
         place \notin Idle \cup {"mark"} =>
           at[t] \notin Idle /\ (at[t] = "mark" => atomStatus'[atom[t]] # "pending"),
         place = "delete" => Moved(atom[t])'
  PROVE  Apart'
  <1>1. at \in [Worker -> Place]
    BY DEF TypeInv, TypeOK, DispatchTypeOK
  <1>2. OneCopy' /\ AtMostOnce'
    BY DEF Apart, OneCopy, AtMostOnce
  <1>3. IdleHasNone'
    BY <1>1 DEF Apart, IdleHasNone, Idle
  <1>4. Unsent'
    BY <1>1 DEF Apart, Unsent
  <1>5. \A u \in Worker : at[u] \notin Idle => atom[u] \in Atom /\ Taken(atom[u])
    BY DEF Idle, TypeInv, TypeOK, DispatchTypeOK, Placed, Taken
  <1>6. ASSUME NEW u \in Worker, at'[u] \notin Idle \cup {"mark"} PROVE atomStatus'[atom[u]] # "pending"
    <2>1. at[u] \notin Idle
      BY <1>1, <1>6
    <2>2. CASE u = t /\ at[t] = "mark"
      BY <1>1, <1>6, <2>2
    <2>3. CASE ~(u = t /\ at[t] = "mark")
      <3>1. at[u] # "mark"
        BY <1>1, <1>6, <2>3
      <3>2. atomStatus[atom[u]] # "pending"
        BY <2>1, <3>1 DEF Apart, Marked, Idle
      <3> QED
        BY <1>5, <2>1, <3>2, NewPendingIsFree DEF Apart, Busy
    <2> QED
      BY <2>2, <2>3
  <1>7. Marked'
    BY <1>6 DEF Marked, Idle
  <1>8. Remembered'
    BY DEF Apart, Remembered, RowsKept, Busy, Queued, Taken
  <1>9. ASSUME NEW u \in Worker, at'[u] = "delete" PROVE Moved(atom[u])'
    <2>1. CASE u = t
      BY <1>1, <1>9, <2>1
    <2>2. CASE u # t
      BY <1>1, <1>5, <1>9, <2>2 DEF Apart, Copied, RowsKept, Idle
    <2> QED
      BY <2>1, <2>2
  <1>10. Copied'
    BY <1>9 DEF Copied
  <1> QED
    BY <1>2, <1>3, <1>4, <1>7, <1>8, <1>10 DEF Apart

\* A thread lets its atom go.
LEMMA LeaveStep ==
  ASSUME TypeInv, Apart, RowsKept, UNCHANGED <<queue, sent>>, NEW t \in Worker,
         NEW place \in Idle, at' = [at EXCEPT ![t] = place], atom' = [atom EXCEPT ![t] = None]
  PROVE  Apart'
  <1>1. at \in [Worker -> Place] /\ atom \in [Worker -> Atom \cup {None}] /\ queue \in Seq(Atom)
    BY DEF TypeInv, TypeOK, DispatchTypeOK
  <1>2. \A i \in DOMAIN queue : queue[i] # None
    BY <1>1, AtomDispatchAssumption
  <1>3. OneCopy'
    BY <1>1, <1>2 DEF Apart, OneCopy
  <1>4. IdleHasNone'
    BY <1>1 DEF Apart, IdleHasNone, Idle
  <1>5. Unsent' /\ AtMostOnce'
    BY <1>1 DEF Apart, Unsent, AtMostOnce, Idle
  <1>6. ASSUME NEW u \in Worker, at'[u] \notin Idle
        PROVE  u # t /\ at'[u] = at[u] /\ atom'[u] = atom[u] /\ atom[u] \in Atom /\ Taken(atom[u])
    BY <1>1, <1>6 DEF TypeInv, Placed, Idle, Taken
  <1>7. Marked'
    BY <1>6, NewPendingIsFree DEF Apart, Marked, Idle, Busy
  <1>8. \A a \in Atom : Busy(a)' => Busy(a)
    BY <1>1, AtomDispatchAssumption DEF Busy, Queued, Taken
  <1>9. Remembered'
    BY <1>8 DEF Apart, Remembered, RowsKept
  <1>10. Copied'
    BY <1>6 DEF Apart, Copied, RowsKept, Idle
  <1> QED
    BY <1>3, <1>4, <1>5, <1>7, <1>9, <1>10 DEF Apart

\* A thread takes the head of the queue.
LEMMA PopHeld ==
  ASSUME TypeInv, OneCopy, IdleHasNone, Copied, NEW t \in Worker, Pop(t)
  PROVE  /\ OneCopy' /\ IdleHasNone' /\ Copied'
         /\ \A a \in Atom : Busy(a)' => Busy(a)
  <1>1. at \in [Worker -> Place] /\ atom \in [Worker -> Atom \cup {None}] /\ queue \in Seq(Atom)
    BY DEF TypeInv, TypeOK, DispatchTypeOK
  <1>2. /\ queue # <<>> /\ queue' = Tail(queue) /\ at[t] = "loop"
        /\ atom' = [atom EXCEPT ![t] = Head(queue)] /\ at' = [at EXCEPT ![t] = "mark"]
        /\ UNCHANGED <<jobStatus, atomStatus, archived, sent>>
    BY DEF Pop, Goto, tables
  <1>3. /\ Len(queue) \in Nat \ {0} /\ DOMAIN queue = 1 .. Len(queue)
        /\ DOMAIN queue' = 1 .. Len(queue) - 1
        /\ \A i \in DOMAIN queue' : i + 1 \in DOMAIN queue /\ i + 1 # 1 /\ queue'[i] = queue[i + 1]
        /\ 1 \in DOMAIN queue /\ Head(queue) = queue[1] /\ Head(queue) \in Atom
    BY <1>1, <1>2
  <1>4. \A i, k \in DOMAIN queue' : queue'[i] = queue'[k] => i = k
    <2> TAKE i \in DOMAIN queue', k \in DOMAIN queue'
    <2>1. queue[i + 1] = queue[k + 1] => i + 1 = k + 1
      BY <1>3 DEF OneCopy
    <2>2. i \in Nat /\ k \in Nat
      BY <1>3
    <2> QED
      BY <1>3, <2>1, <2>2
  <1>5. \A u \in Worker : u # t => atom'[u] = atom[u] /\ at'[u] = at[u] /\ atom[u] # queue[1]
    BY <1>1, <1>2, <1>3 DEF OneCopy
  <1>6. atom'[t] = queue[1] /\ at'[t] = "mark"
    BY <1>1, <1>2, <1>3
  <1>7. \A u, v \in Worker : atom'[u] = atom'[v] => u = v \/ atom'[u] = None
    BY <1>5, <1>6 DEF OneCopy
  <1>8. \A i \in DOMAIN queue' : \A u \in Worker : queue'[i] # atom'[u]
    <2> TAKE i \in DOMAIN queue'
    <2> TAKE u \in Worker
    <2>1. CASE u = t
      BY <1>3, <1>6, <2>1 DEF OneCopy
    <2>2. CASE u # t
      BY <1>3, <1>5, <2>2 DEF OneCopy
    <2> QED
      BY <2>1, <2>2
  <1>9. OneCopy'
    BY <1>4, <1>7, <1>8 DEF OneCopy
  <1>10. IdleHasNone' /\ Copied'
    BY <1>2, <1>5, <1>6 DEF IdleHasNone, Idle, Copied, Moved
  <1>11. \A a \in Atom : Busy(a)' => Busy(a)
    <2> TAKE a \in Atom
    <2>1. Queued(a)' => Queued(a)
      BY <1>3 DEF Queued
    <2>2. Taken(a)' => Taken(a) \/ Queued(a)
      BY <1>3, <1>5, <1>6 DEF Queued, Taken
    <2> QED
      BY <2>1, <2>2 DEF Busy
  <1> QED
    BY <1>9, <1>10, <1>11

LEMMA PopStep ==
  ASSUME TypeInv, Apart, NEW t \in Worker, Pop(t)
  PROVE  Apart' /\ \A a \in Atom : Busy(a)' => Busy(a)
  <1>1. at \in [Worker -> Place] /\ atom \in [Worker -> Atom \cup {None}] /\ queue \in Seq(Atom)
    BY DEF TypeInv, TypeOK, DispatchTypeOK
  <1>2. /\ queue # <<>> /\ queue' = Tail(queue)
        /\ atom' = [atom EXCEPT ![t] = Head(queue)] /\ at' = [at EXCEPT ![t] = "mark"]
        /\ UNCHANGED <<jobStatus, atomStatus, archived, sent>>
    BY DEF Pop, Goto, tables
  <1>3. /\ \A i \in DOMAIN queue' : i + 1 \in DOMAIN queue /\ queue'[i] = queue[i + 1]
        /\ 1 \in DOMAIN queue /\ Head(queue) = queue[1]
    BY <1>1, <1>2
  <1>4. \A u \in Worker : u # t => atom'[u] = atom[u] /\ at'[u] = at[u]
    BY <1>1, <1>2
  <1>5. at'[t] = "mark" /\ atom'[t] = queue[1]
    BY <1>1, <1>2, <1>3
  <1>6. OneCopy' /\ IdleHasNone' /\ Copied' /\ \A a \in Atom : Busy(a)' => Busy(a)
    BY PopHeld DEF Apart
  <1>7. Marked'
    BY <1>2, <1>4, <1>5 DEF Apart, Marked
  <1>8. Unsent'
    <2>1. \A i \in DOMAIN queue' : sent'[queue'[i]] = 0
      BY <1>2, <1>3 DEF Apart, Unsent
    <2>2. \A u \in Worker : at'[u] \in {"mark", "load", "process"} => sent'[atom'[u]] = 0
      BY <1>2, <1>3, <1>4, <1>5 DEF Apart, Unsent
    <2> QED
      BY <2>1, <2>2 DEF Unsent
  <1>9. Remembered' /\ AtMostOnce'
    BY <1>2, <1>6 DEF Apart, Remembered, AtMostOnce, Known, Moved
  <1> QED
    BY <1>6, <1>7, <1>8, <1>9 DEF Apart

\* A message goes out: the thread is alone with its atom, which was never sent.
LEMMA ProcessStep ==
  ASSUME TypeInv, Apart, NEW t \in Worker, Process(t)
  PROVE  Apart' /\ Busy(atom[t]) /\ \A a \in Atom : a # atom[t] => sent'[a] = sent[a]
  <1>1. at \in [Worker -> Place] /\ queue \in Seq(Atom) /\ sent \in [Atom -> Nat]
    BY DEF TypeInv, TypeOK, DispatchTypeOK
  <1>2. /\ at[t] = "process" /\ at' = [at EXCEPT ![t] = "archive"]
        /\ sent' = [sent EXCEPT ![atom[t]] = @ + 1]
        /\ UNCHANGED <<jobStatus, atomStatus, archived, queue, atom>>
    BY DEF Process, Goto, tables
  <1>3. atom[t] \in Atom /\ atom[t] # None /\ Busy(atom[t])
    BY <1>2, AtomDispatchAssumption DEF TypeInv, TypeOK, DispatchTypeOK, Placed, Busy, Taken
  <1>4. sent[atom[t]] = 0
    BY <1>2 DEF Apart, Unsent
  <1>5. \A a \in Atom : a # atom[t] => sent'[a] = sent[a]
    BY <1>1, <1>2
  <1>6. OneCopy' /\ IdleHasNone' /\ Marked' /\ Copied'
    BY <1>1, <1>2 DEF Apart, OneCopy, IdleHasNone, Idle, Marked, Copied, Moved
  <1>7. Unsent'
    <2>1. \A i \in DOMAIN queue : queue[i] \in Atom /\ queue[i] # atom[t]
      BY <1>1 DEF Apart, OneCopy
    <2>2. \A u \in Worker : at'[u] \in {"mark", "load", "process"} =>
            u # t /\ at[u] = at'[u] /\ atom[u] # atom[t] /\ atom[u] \in Atom
      BY <1>1, <1>2, <1>3 DEF Apart, OneCopy, TypeInv, TypeOK, DispatchTypeOK, Placed
    <2> QED
      BY <1>2, <1>5, <2>1, <2>2 DEF Apart, Unsent
  <1>8. Known(atom[t])
    BY <1>3 DEF Apart, Remembered
  <1>9. Remembered'
    BY <1>2, <1>5, <1>8 DEF Apart, Remembered, Known, Moved, Busy, Queued, Taken
  <1>10. AtMostOnce'
    BY <1>1, <1>2, <1>3, <1>4, <1>5 DEF Apart, AtMostOnce
  <1> QED
    BY <1>3, <1>5, <1>6, <1>7, <1>9, <1>10 DEF Apart
-----------------------------------------------------------------------------
\* What the daemon has to feed stays free when it does nothing.
LEMMA FeederWaits ==
  ASSUME OnceInv, RowsKept, UNCHANGED <<daemon, todo, current>>,
         \A a \in Atom : Busy(a)' => Busy(a),
         \A a \in Atom : sent'[a] # sent[a] => Busy(a) /\ atomStatus[a] # "pending"
  PROVE  PendingIsFree' /\ Snapshot'
  <1>1. ASSUME NEW a \in Atom, atomStatus'[a] = "pending"
        PROVE  /\ sent'[a] = 0
               /\ Busy(a)' => daemon = "dead" \/ (daemon = "mark" /\ current = a)
    <2>1. CASE atomStatus[a] = "pending"
      BY <2>1 DEF OnceInv, PendingIsFree
    <2>2. CASE atomStatus[a] # "pending"
      <3>1. ~Busy(a) /\ ~(sent[a] > 0) /\ sent[a] \in Nat
        BY <1>1, <2>2, NewPendingIsFree DEF OnceInv, TypeInv, TypeOK, DispatchTypeOK
      <3> QED
        BY <3>1
    <2> QED
      BY <2>1, <2>2
  <1>2. PendingIsFree'
    BY <1>1 DEF PendingIsFree
  <1>3. Snapshot'
    BY DEF OnceInv, Snapshot, RowsKept
  <1> QED
    BY <1>2, <1>3

\* Each step of a thread keeps the invariant.
LEMMA ThreadOnce == ASSUME OnceInv, Quiet, NEW t \in Worker, Threads(t) PROVE OnceInv'
  <1>1. TypeInv /\ Apart /\ TypeInv'
    BY ThreadType DEF OnceInv, Apart
  <1>2. RowsKept
    BY <1>1, ThreadKeepsRows DEF Apart
  <1>3. UNCHANGED <<daemonVars, callVars>>
    BY DEF Threads
  <1>4. Undisturbed'
    BY <1>3 DEF OnceInv, Undisturbed, daemonVars, callVars
  <1>5. ASSUME Apart', \A a \in Atom : Busy(a)' => Busy(a),
               \A a \in Atom : sent'[a] # sent[a] => Busy(a) /\ atomStatus[a] # "pending"
        PROVE  OnceInv'
    <2>1. PendingIsFree' /\ Snapshot'
      BY <1>2, <1>3, <1>5, FeederWaits DEF daemonVars
    <2> QED
      BY <1>1, <1>4, <1>5, <2>1 DEF OnceInv, Apart
  <1>6. ASSUME UNCHANGED <<queue, atom, sent>>, NEW place, at' = [at EXCEPT ![t] = place],
               place \in Idle => at[t] \in Idle,
               place \in {"mark", "load", "process"} => at[t] \in {"mark", "load", "process"},
               place \notin Idle \cup {"mark"} =>
                 at[t] \notin Idle /\ (at[t] = "mark" => atomStatus'[atom[t]] # "pending"),
               place = "delete" => Moved(atom[t])'
        PROVE  OnceInv'
    <2>1. Apart'
      BY <1>1, <1>2, <1>6, MoveStep
    <2>2. \A a \in Atom : Busy(a)' => Busy(a)
      BY <1>6 DEF Busy, Queued, Taken
    <2> QED
      BY <1>5, <1>6, <2>1, <2>2
  <1>7. ASSUME UNCHANGED <<queue, sent>>, NEW place \in Idle, at' = [at EXCEPT ![t] = place],
               atom' = [atom EXCEPT ![t] = None]
        PROVE  OnceInv'
    <2>1. Apart'
      BY <1>1, <1>2, <1>7, LeaveStep
    <2>2. \A a \in Atom : Busy(a)' => Busy(a)
      BY <1>1, <1>7, AtomDispatchAssumption DEF Busy, Queued, Taken, TypeInv, TypeOK, DispatchTypeOK
    <2> QED
      BY <1>5, <1>7, <2>1, <2>2
  <1>8. CASE Begin(t)
    BY <1>6, <1>8 DEF Begin, Goto, Idle
  <1>9. CASE Pop(t)
    BY <1>1, <1>5, <1>9, PopStep DEF Pop
  <1>10. CASE Mark(t)
    <2>1. atomStatus'[atom[t]] # "pending"
      <3>1. atom[t] \in Atom
        BY <1>1, <1>10 DEF Mark, TypeInv, TypeOK, DispatchTypeOK, Placed
      <3> QED
        BY <1>10, <3>1 DEF Mark, UpdateAtoms, NoRow
    <2> QED
      BY <1>6, <1>10, <2>1 DEF Mark, Goto, Idle
  <1>11. CASE Load(t)
    BY <1>6, <1>11 DEF Load, Goto, Idle
  <1>12. CASE Process(t)
    <2>1. atomStatus[atom[t]] # "pending"
      BY <1>1, <1>12 DEF Process, Apart, Marked
    <2>2. Apart' /\ Busy(atom[t]) /\ \A a \in Atom : a # atom[t] => sent'[a] = sent[a]
      BY <1>1, <1>12, ProcessStep
    <2>3. \A a \in Atom : Busy(a)' => Busy(a)
      BY <1>12 DEF Process, Busy, Queued, Taken
    <2> QED
      BY <1>5, <2>1, <2>2, <2>3
  <1>13. CASE ProcessFails(t)
    BY <1>6, <1>13 DEF ProcessFails, Goto, Idle
  <1>14. CASE ArchiveInsert(t)
    <2>1. atom[t] \in Atom /\ Known(atom[t])
      BY <1>1, <1>14 DEF ArchiveInsert, TypeInv, TypeOK, DispatchTypeOK, Placed, Apart, Remembered,
                         Busy, Taken
    <2>2. Moved(atom[t])'
      BY <1>14, <2>1 DEF ArchiveInsert, ArchiveAtoms, Known, Moved
    <2> QED
      BY <1>6, <1>14, <2>2 DEF ArchiveInsert, Goto, Idle
  <1>15. CASE ArchiveRefused(t)
    BY <1>6, <1>15 DEF ArchiveRefused, Goto, Idle
  <1>16. CASE ArchiveDelete(t)
    BY <1>6, <1>16 DEF ArchiveDelete, Goto, Idle
  <1>17. CASE ArchivingFails(t)
    BY <1>6, <1>17 DEF ArchivingFails, Goto, Idle
  <1>18. CASE MarkFails(t)
    BY <1>1, <1>18 DEF MarkFails, DbFault, Quiet, TypeInv, TypeOK, DispatchTypeOK
  <1>19. CASE \/ LeaveHalted(t) \/ PopNothing(t) \/ Finish(t) \/ Interrupt(t)
              \/ MarkFindsNoConnection(t) \/ LoadFails(t) \/ InterruptFails(t)
              \/ InterruptFindsNoConnection(t)
    BY <1>7, <1>19 DEF LeaveHalted, PopNothing, Finish, Interrupt, MarkFindsNoConnection, LoadFails,
                       InterruptFails, InterruptFindsNoConnection, Exit, NextRound, Goto, Idle
  <1> QED
    BY <1>8, <1>9, <1>10, <1>11, <1>12, <1>13, <1>14, <1>15, <1>16, <1>17, <1>18, <1>19
       DEF Threads, WorkerStep, WorkerFault
-----------------------------------------------------------------------------
\* The feeder pushes what nobody holds.
LEMMA PushHeld ==
  ASSUME TypeInv, OneCopy, NEW a \in Atom, ~Busy(a), queue' = Append(queue, a), UNCHANGED atom
  PROVE  OneCopy' /\ \A b \in Atom : Busy(b)' => Busy(b) \/ b = a
  <1>1. queue \in Seq(Atom)
    BY DEF TypeInv, TypeOK, DispatchTypeOK
  <1>2. /\ Len(queue) \in Nat /\ DOMAIN queue = 1 .. Len(queue)
        /\ DOMAIN queue' = 1 .. Len(queue) + 1 /\ queue'[Len(queue) + 1] = a
        /\ \A i \in DOMAIN queue : queue'[i] = queue[i]
        /\ \A i \in DOMAIN queue' : i \in DOMAIN queue \/ i = Len(queue) + 1
    BY <1>1
  <1>3. \A i \in DOMAIN queue : queue[i] # a
    BY DEF Busy, Queued
  <1>4. \A i, k \in DOMAIN queue' : queue'[i] = queue'[k] => i = k
    BY <1>2, <1>3 DEF OneCopy
  <1>5. \A t \in Worker : atom[t] # a
    BY DEF Busy, Taken
  <1>6. \A i \in DOMAIN queue' : \A t \in Worker : queue'[i] # atom'[t]
    <2> TAKE i \in DOMAIN queue'
    <2> TAKE t \in Worker
    <2>1. CASE i \in DOMAIN queue
      BY <1>2, <2>1 DEF OneCopy
    <2>2. CASE i = Len(queue) + 1
      BY <1>2, <1>5, <2>2
    <2> QED
      BY <1>2, <2>1, <2>2
  <1>7. \A t, u \in Worker : atom'[t] = atom'[u] => t = u \/ atom'[t] = None
    BY DEF OneCopy
  <1>8. \A b \in Atom : Busy(b)' => Busy(b) \/ b = a
    BY <1>2 DEF Busy, Queued, Taken
  <1> QED
    BY <1>4, <1>6, <1>7, <1>8 DEF OneCopy

\* The daemon thread is not in the feeding loop, or it is no more.
LEMMA NotFeeding ==
  ASSUME OnceInv, RowsKept, UNCHANGED <<queue, atom, sent>>, daemon' \notin {"push", "mark"},
         daemon \in {"mark", "dead"} => daemon' = "dead"
  PROVE  PendingIsFree' /\ Snapshot'
  <1>1. Snapshot'
    BY DEF Snapshot
  <1>2. ASSUME NEW a \in Atom, atomStatus'[a] = "pending"
        PROVE  sent'[a] = 0 /\ (Busy(a)' => daemon' = "dead")
    <2>1. Busy(a)' <=> Busy(a)
      BY DEF Busy, Queued, Taken
    <2>2. CASE atomStatus[a] = "pending"
      BY <2>1, <2>2 DEF OnceInv, PendingIsFree
    <2>3. CASE atomStatus[a] # "pending"
      BY <1>2, <2>1, <2>3, NewPendingIsFree DEF OnceInv, TypeInv, TypeOK, DispatchTypeOK
    <2> QED
      BY <2>2, <2>3
  <1>3. PendingIsFree'
    BY <1>2 DEF PendingIsFree
  <1> QED
    BY <1>1, <1>3

\* Each step of the daemon keeps the invariant.
LEMMA DaemonOnce == ASSUME OnceInv, Quiet, DaemonStep \/ Fatal PROVE OnceInv'
  <1>1. TypeInv /\ Apart /\ Undisturbed /\ TypeInv'
    BY DaemonType DEF OnceInv, Apart
  <1>2. RowsKept
    BY <1>1, DaemonKeepsRows DEF Undisturbed
  <1>3. ASSUME UNCHANGED <<queue, at, atom, sent>>, PendingIsFree', Snapshot', Undisturbed'
        PROVE  OnceInv'
    BY <1>1, <1>2, <1>3, RowsStep DEF OnceInv, Apart
  <1>4. ASSUME UNCHANGED <<queue, at, atom, sent, bContinue, abort, stop>>,
               daemon' \notin {"push", "mark", "drain", "reset", "resetJob", "close"},
               daemon \in {"mark", "dead"} => daemon' = "dead"
        PROVE  OnceInv'
    <2>1. PendingIsFree' /\ Snapshot'
      BY <1>2, <1>4, NotFeeding
    <2>2. Undisturbed'
      BY <1>1, <1>4 DEF Undisturbed
    <2> QED
      BY <1>3, <1>4, <2>1, <2>2
  <1> USE DEF dispatch, threads, callVars
  <1>5. CASE FinishSelect \/ Count \/ LoadSelect \/ LoadRun \/ LoadDone \/ FeedDone
             \/ LaunchDone \/ Watch
    BY <1>4, <1>5 DEF FinishSelect, Count, LoadSelect, LoadRun, LoadDone, FeedDone, LaunchDone, Watch
  <1>6. ASSUME NEW j \in Job, FinishUpdate(j) PROVE OnceInv'
    BY <1>4, <1>6 DEF FinishUpdate
  <1>7. ASSUME NEW j \in Job, LoadInsert(j) PROVE OnceInv'
    BY <1>4, <1>7 DEF LoadInsert
  <1>8. CASE FeedQuery
    <2>1. Snapshot'
      BY <1>8 DEF FeedQuery, Snapshot, OnceInv, PendingIsFree, Known, Moved, Busy, Queued, Taken,
                  tables, NoRow
    <2>2. PendingIsFree'
      BY <1>8 DEF FeedQuery, OnceInv, PendingIsFree, Busy, Queued, Taken, tables
    <2>3. Undisturbed'
      BY <1>1, <1>8 DEF FeedQuery, Undisturbed
    <2> QED
      BY <1>3, <1>8, <2>1, <2>2, <2>3 DEF FeedQuery
  <1>9. ASSUME NEW a \in Atom, FeedPush(a) PROVE OnceInv'
    <2>1. /\ daemon = "push" /\ a \in todo /\ queue' = Append(queue, a)
          /\ daemon' = "mark" /\ current' = a /\ todo' = todo
          /\ UNCHANGED <<jobStatus, atomStatus, archived, at, atom, sent, bContinue, abort, stop>>
      BY <1>9 DEF FeedPush, Push, tables
    <2>2. Known(a) /\ ~Busy(a) /\ sent[a] = 0
      BY <2>1 DEF OnceInv, Snapshot
    <2>3. queue \in Seq(Atom)
      BY <1>1 DEF TypeInv, TypeOK, DispatchTypeOK
    <2>4. \A i \in DOMAIN queue' : queue'[i] = a \/ (i \in DOMAIN queue /\ queue'[i] = queue[i])
      BY <2>1, <2>3
    <2> HIDE DEF dispatch, threads, callVars
    <2>5. OneCopy' /\ \A b \in Atom : Busy(b)' => Busy(b) \/ b = a
      BY <1>1, <2>1, <2>2, PushHeld DEF Apart
    <2>6. Unsent'
      <3>1. \A i \in DOMAIN queue' : sent'[queue'[i]] = 0
        BY <1>1, <2>1, <2>2, <2>4 DEF Apart, Unsent
      <3> QED
        BY <1>1, <2>1, <3>1 DEF Apart, Unsent
    <2>7. \A b \in Atom : Busy(b)' => Busy(b) \/ b = a
      BY <2>5
    <2>8. Remembered'
      BY <1>1, <2>1, <2>2, <2>7 DEF Apart, Remembered, Known, Moved
    <2>9. IdleHasNone' /\ Marked' /\ Copied' /\ AtMostOnce'
      BY <1>1, <2>1 DEF Apart, IdleHasNone, Idle, Marked, Copied, AtMostOnce, Moved
    <2>10. PendingIsFree'
      BY <2>1, <2>7 DEF OnceInv, PendingIsFree
    <2>11. Snapshot'
      BY <2>1, <2>7 DEF OnceInv, Snapshot, Known, Moved
    <2>12. Undisturbed'
      BY <1>1, <1>9, <2>1 DEF Undisturbed
    <2> QED
      BY <1>1, <2>5, <2>6, <2>8, <2>9, <2>10, <2>11, <2>12 DEF OnceInv
  <1>10. CASE FeedMark
    <2>1. current \in Atom /\ daemon = "mark" /\ daemon' = "push"
      BY <1>1, <1>10 DEF FeedMark, Undisturbed
    <2>2. /\ todo' = todo \ {current} /\ UNCHANGED <<queue, at, atom, sent, bContinue, abort, stop>>
          /\ atomStatus' = [a \in Atom |-> IF a \in {current} /\ atomStatus[a] # NoRow
                                            THEN "running" ELSE atomStatus[a]]
      BY <1>10 DEF FeedMark, UpdateAtoms
    <2>3. \A a \in Atom : Busy(a)' <=> Busy(a)
      BY <2>2 DEF Busy, Queued, Taken
    <2>4. PendingIsFree'
      BY <2>1, <2>2, <2>3 DEF OnceInv, PendingIsFree, NoRow
    <2>5. Snapshot'
      BY <1>2, <2>1, <2>2, <2>3 DEF OnceInv, Snapshot, RowsKept
    <2>6. Undisturbed'
      BY <1>1, <2>1, <2>2 DEF Undisturbed
    <2> QED
      BY <1>3, <2>2, <2>4, <2>5, <2>6
  <1>11. ASSUME NEW t \in Worker, Launch(t) PROVE OnceInv'
    <2>1. /\ daemon = "launch" /\ at' = IF Alive(t) THEN at ELSE [at EXCEPT ![t] = "begin"]
          /\ UNCHANGED <<queue, atom, sent, daemon, bContinue, abort, stop>>
      BY <1>11 DEF Launch
    <2>2. CASE Alive(t)
      BY <1>4, <2>1, <2>2
    <2>3. CASE ~Alive(t)
      <3>1. at[t] = "dead" /\ at' = [at EXCEPT ![t] = "begin"]
        BY <2>1, <2>3 DEF Alive
      <3>2. Apart'
        BY <1>1, <1>2, <2>1, <3>1, MoveStep DEF Idle
      <3>3. PendingIsFree' /\ Snapshot'
        BY <1>2, <2>1, NotFeeding
      <3>4. Undisturbed'
        BY <1>1, <2>1 DEF Undisturbed
      <3> QED
        BY <1>1, <3>2, <3>3, <3>4 DEF OnceInv, Apart
    <2> QED
      BY <2>2, <2>3
  <1>12. ASSUME Abnormal, daemon # "close" PROVE OnceInv'
    BY <1>4, <1>12 DEF Abnormal
  <1>13. ASSUME NEW j \in Job PROVE LoadRefused(j) => OnceInv'
    BY <1>12 DEF LoadRefused
  <1>14. CASE Fatal
    BY <1>1, <1>12, <1>14 DEF Fatal, Undisturbed
  <1>15. ~(Leave \/ Drain \/ DrainDone \/ ResetJob \/ ResetDone \/ Close)
    BY <1>1 DEF Leave, Drain, DrainDone, ResetJob, ResetDone, Close, Undisturbed
  <1>16. \A j \in Job : ~ResetAtoms(j)
    BY <1>1 DEF ResetAtoms, Undisturbed
  <1> QED
    BY <1>5, <1>6, <1>7, <1>8, <1>9, <1>10, <1>11, <1>13, <1>14, <1>15, <1>16 DEF DaemonStep
-----------------------------------------------------------------------------
\* Who disturbs nothing.
LEMMA OthersDisturbNothing ==
  ASSUME TypeInv, Undisturbed, Calm,
         Web \/ StopCall \/ HaltCall \/ StopStep \/ (\E j \in Job : AbortCall(j)) \/ AbortStep
  PROVE  /\ Web \/ HaltCall \/ HaltClose
         /\ UNCHANGED <<queue, at, atom, sent, daemon, todo, current, bContinue, abort>>
         /\ Undisturbed'
  <1>1. ~StopCall /\ \A j \in Job : ~AbortCall(j)
    BY DEF StopCall, AbortCall, Event, Calm
  <1>2. ~AbortStep
    BY DEF AbortStep, AbortCheck, AbortAtoms, AbortArchive, AbortDelete, AbortJobRow,
           AbortAt, AbortFails, Undisturbed, NoAbort
  <1>3. StopStep => HaltClose
    BY DEF StopStep, StopWake, StopMark, StopKill, StopClose, StopFails, Undisturbed
  <1>4. /\ UNCHANGED <<queue, at, atom, sent, daemon, todo, current, bContinue, abort>>
        /\ stop' = stop \/ stop'.at \in {"idle", "halt"}
    <2>1. CASE Web
      BY <2>1 DEF Web, dispatch, threads, daemonVars, callVars
    <2>2. CASE HaltCall
      <3>1. stop' = [stop EXCEPT !.at = "halt", !.jobs = RunningJobs] /\ stop \in StopState
        BY <2>2 DEF HaltCall, TypeInv, TypeOK, DaemonTypeOK
      <3>2. stop'.at = "halt"
        BY <3>1 DEF StopState
      <3> QED
        BY <2>2, <3>2 DEF HaltCall, daemonVars, StoppedUnchanged
    <2>3. CASE HaltClose
      BY <2>3 DEF HaltClose, threads, daemonVars, StoppedUnchanged, NoStop
    <2> QED
      BY <1>1, <1>2, <1>3, <2>1, <2>2, <2>3
  <1> QED
    BY <1>1, <1>2, <1>3, <1>4 DEF Undisturbed

\* Web pages, and the calls that are left, keep the invariant.
LEMMA OtherOnce ==
  ASSUME OnceInv, Quiet,
         Web \/ StopCall \/ HaltCall \/ StopStep \/ (\E j \in Job : AbortCall(j)) \/ AbortStep
  PROVE  OnceInv'
  <1>1. TypeInv /\ Apart /\ Undisturbed /\ TypeInv'
    BY WebType, StopType, AbortType DEF OnceInv, Apart
  <1>2. Web \/ HaltCall \/ HaltClose
    BY <1>1, OthersDisturbNothing DEF Quiet
  <1>3. /\ UNCHANGED <<queue, at, atom, sent, daemon, todo, current>>
        /\ Undisturbed'
    BY <1>1, OthersDisturbNothing DEF Quiet
  <1>4. RowsKept
    BY <1>1, <1>2, WebKeepsRows, CallsKeepRows DEF Quiet, StopStep
  <1>5. Apart'
    BY <1>1, <1>3, <1>4, RowsStep
  <1>6. PendingIsFree' /\ Snapshot'
    BY <1>3, <1>4, FeederWaits DEF Busy, Queued, Taken
  <1> QED
    BY <1>1, <1>3, <1>5, <1>6 DEF OnceInv, Apart

\* A process that starts, or dies, has nothing in memory.
LEMMA ProcessOnce == ASSUME OnceInv, Quiet, Start \/ Crash PROVE OnceInv'
  <1>1. TypeInv /\ Apart /\ Undisturbed /\ TypeInv'
    BY ProcessType DEF OnceInv, Apart
  <1>2. RowsKept
    BY <1>1, CallsKeepRows DEF Quiet
  <1>3. /\ queue' = <<>> /\ \A t \in Worker : at'[t] = "dead" /\ atom'[t] = None
        /\ UNCHANGED <<atomStatus, archived, jobStatus, sent>>
    BY <1>1 DEF Start, Crash, tables, threads, Live, Alive, Apart, IdleHasNone, Idle
  <1>4. daemon' \in {"select", "off"}
    BY DEF Start, Crash
  <1>5. \A a \in Atom : ~Busy(a)'
    BY <1>3, AtomDispatchAssumption DEF Busy, Queued, Taken
  <1>6. OneCopy' /\ IdleHasNone' /\ Unsent' /\ Marked' /\ Copied' /\ AtMostOnce'
    BY <1>1, <1>3 DEF Apart, OneCopy, IdleHasNone, Idle, Unsent, Marked, Copied, AtMostOnce
  <1>7. Remembered' /\ PendingIsFree' /\ Snapshot'
    BY <1>1, <1>2, <1>3, <1>4, <1>5
       DEF OnceInv, Apart, Remembered, RowsKept, PendingIsFree, Snapshot
  <1>8. Undisturbed'
    <2>1. bContinue' /\ abort' = NoAbort /\ stop'.at = "idle"
      <3>1. CASE Start
        BY <3>1 DEF Start, NoStop
      <3>2. CASE Crash
        BY <1>1, <3>2 DEF Crash, NoStop, Undisturbed
      <3> QED
        BY <3>1, <3>2
    <2> QED
      BY <1>4, <2>1 DEF Undisturbed
  <1> QED
    BY <1>1, <1>6, <1>7, <1>8 DEF OnceInv

LEMMA OnceInit == Init => OnceInv
  <1> SUFFICES ASSUME Init PROVE OnceInv
    OBVIOUS
  <1>1. TypeInv
    BY TypeInit
  <1>2. OneCopy /\ IdleHasNone /\ Unsent /\ Marked /\ Copied
    BY DEF Init, DispatchInit, OneCopy, IdleHasNone, Idle, Unsent, Marked, Copied
  <1>3. PendingIsFree /\ Remembered /\ AtMostOnce
    BY AtomDispatchAssumption
       DEF Init, TablesInit, DispatchInit, PendingIsFree, Remembered, AtMostOnce, Busy, Queued,
           Taken, NoRow
  <1>4. Snapshot /\ Undisturbed
    BY DEF Init, Snapshot, Undisturbed, NoStop
  <1> QED
    BY <1>1, <1>2, <1>3, <1>4 DEF OnceInv

LEMMA OnceStep == ASSUME OnceInv, Quiet, [Next]_vars PROVE OnceInv'
  <1>1. CASE UNCHANGED vars
    <2>1. TypeInv'
      BY <1>1, TypeStep DEF OnceInv
    <2>2. UNCHANGED <<jobStatus, atomStatus, archived, queue, at, atom, sent, daemon, todo, current,
                      bContinue, abort, stop>>
      BY <1>1 DEF vars, tables, dispatch, threads, daemonVars, callVars
    <2> QED
      BY <2>1, <2>2 DEF OnceInv, OneCopy, IdleHasNone, Idle, Unsent, Marked, PendingIsFree, Remembered,
                        Copied, Snapshot, Undisturbed, AtMostOnce, Known, Moved, Busy, Queued, Taken
  <1> QED
    BY <1>1, ThreadOnce, DaemonOnce, OtherOnce, ProcessOnce DEF Next

\* What keeps a message from being sent twice, all of it together: what waits is in one
\* place, was never sent, and its row cannot be read as pending again.
THEOREM OnceAlways == ASSUME Quiet PROVE Spec => []OnceInv
  <1>1. OnceInv /\ [Next]_vars => OnceInv'
    BY OnceStep
  <1> QED
    BY <1>1, OnceInit, PTL DEF Spec

\* Nobody gets the same message twice: crashes between the message and its row,
\* restarts, halts, added recipients and deleted jobs included, provided that no
\* statement fails and no call of abortJob, stopAll, retry or recycle is made.
THEOREM SentOnce == ASSUME Quiet PROVE Spec => []AtMostOnce
  <1>1. OnceInv => AtMostOnce
    BY DEF OnceInv
  <1> QED
    BY <1>1, OnceAlways, PTL

-----------------------------------------------------------------------------
(* An atom is in one place at a time, even if statements fail: what the    *)
(* executor beside the daemon rests on.                                    *)

\* What is held, and what the feeder has, follows from the step of the rows.
LEMMA HeldIf ==
  ASSUME HeldInv, RowsKept, TypeInv', OneCopy', IdleHasNone', Copied', Undisturbed',
         \A a \in Atom : Busy(a)' => Busy(a),
         \A a \in Atom : sent'[a] > 0 => sent[a] > 0 \/ Known(a),
         \/ UNCHANGED <<daemon, todo, current>>
         \/ /\ daemon' \notin {"push", "mark"}
            /\ daemon \in {"mark", "dead"} => daemon' = "dead" \/ \A a \in Atom : ~Busy(a)'
  PROVE  HeldInv'
  <1>1. Remembered'
    BY DEF HeldInv, Remembered, RowsKept
  <1>2. ASSUME NEW a \in Atom, atomStatus'[a] = "pending", Busy(a)'
        PROVE  atomStatus[a] = "pending" /\ Busy(a)
    BY <1>2 DEF HeldInv, Remembered, RowsKept
  <1>3. PendingHeld'
    BY <1>2 DEF HeldInv, PendingHeld
  <1>4. TodoFree'
    BY DEF HeldInv, TodoFree, RowsKept
  <1> QED
    BY <1>1, <1>3, <1>4 DEF HeldInv

\* Only rows change.
LEMMA HeldRows ==
  ASSUME HeldInv, RowsKept, TypeInv', UNCHANGED <<queue, at, atom>>, Undisturbed',
         \A a \in Atom : sent'[a] > 0 => sent[a] > 0 \/ Known(a),
         \/ UNCHANGED <<daemon, todo, current>>
         \/ daemon' \notin {"push", "mark"} /\ (daemon \in {"mark", "dead"} => daemon' = "dead")
  PROVE  HeldInv'
  <1>1. OneCopy' /\ IdleHasNone'
    BY DEF HeldInv, OneCopy, IdleHasNone, Idle
  <1>2. \A t \in Worker : at[t] = "delete" => atom[t] \in Atom
    BY DEF HeldInv, TypeInv, TypeOK, DispatchTypeOK, Placed
  <1>3. Copied'
    BY <1>2 DEF HeldInv, Copied, RowsKept
  <1>4. \A a \in Atom : Busy(a)' => Busy(a)
    BY DEF Busy, Queued, Taken
  <1> QED
    BY <1>1, <1>3, <1>4, HeldIf

\* Each step of a thread keeps an atom at one place.
LEMMA ThreadParts ==
  ASSUME TypeInv, OneCopy, IdleHasNone, Remembered, Copied, NEW t \in Worker, Threads(t)
  PROVE  /\ OneCopy' /\ IdleHasNone' /\ Copied'
         /\ \A a \in Atom : Busy(a)' => Busy(a)
         /\ \A a \in Atom : sent'[a] > 0 => sent[a] > 0 \/ Known(a)
  <1> DEFINE Kept == /\ OneCopy' /\ IdleHasNone' /\ Copied'
                     /\ \A a \in Atom : Busy(a)' => Busy(a)
                     /\ \A a \in Atom : sent'[a] > 0 => sent[a] > 0 \/ Known(a)
  <1> SUFFICES Kept
    OBVIOUS
  <1>1. at \in [Worker -> Place] /\ atom \in [Worker -> Atom \cup {None}]
    BY DEF TypeInv, TypeOK, DispatchTypeOK
  <1>2. RowsKept
    BY ThreadKeepsRows
  <1>4. \A u \in Worker : at[u] \notin Idle => atom[u] \in Atom /\ atom[u] # None
    BY <1>1, AtomDispatchAssumption DEF TypeInv, Placed, Idle
  <1>5. ASSUME UNCHANGED <<queue, atom>>, NEW place, at' = [at EXCEPT ![t] = place],
               place \in Idle => at[t] \in Idle,
               place = "delete" => at[t] \notin Idle /\ Moved(atom[t])',
               \A a \in Atom : sent'[a] > 0 => sent[a] > 0 \/ Known(a)
        PROVE  Kept
    <2>1. OneCopy'
      BY <1>5 DEF OneCopy
    <2>2. IdleHasNone'
      BY <1>1, <1>5 DEF IdleHasNone, Idle
    <2>3. ASSUME NEW u \in Worker, at'[u] = "delete" PROVE Moved(atom[u])'
      BY <1>1, <1>2, <1>4, <1>5, <2>3 DEF Copied, RowsKept, Idle
    <2>4. Copied'
      BY <1>5, <2>3 DEF Copied
    <2>5. \A a \in Atom : Busy(a)' => Busy(a)
      BY <1>5 DEF Busy, Queued, Taken
    <2> QED
      BY <1>5, <2>1, <2>2, <2>4, <2>5
  <1>6. ASSUME UNCHANGED <<queue, sent>>, NEW place \in Idle, at' = [at EXCEPT ![t] = place],
               atom' = [atom EXCEPT ![t] = None]
        PROVE  Kept
    <2>1. \A i \in DOMAIN queue : queue[i] # None
      BY <1>1, AtomDispatchAssumption DEF TypeInv, TypeOK, DispatchTypeOK
    <2>2. OneCopy'
      BY <1>1, <1>6, <2>1 DEF OneCopy
    <2>3. IdleHasNone'
      BY <1>1, <1>6 DEF IdleHasNone, Idle
    <2>4. ASSUME NEW u \in Worker, at'[u] = "delete" PROVE Moved(atom[u])' /\ atom'[u] = atom[u]
      BY <1>1, <1>2, <1>4, <1>6, <2>4 DEF Copied, RowsKept, Idle
    <2>5. Copied'
      BY <2>4 DEF Copied
    <2>6. \A a \in Atom : Busy(a)' => Busy(a)
      BY <1>1, <1>6, AtomDispatchAssumption DEF Busy, Queued, Taken
    <2> QED
      BY <1>6, <2>2, <2>3, <2>5, <2>6
  <1> HIDE DEF Kept
  <1>7. CASE Pop(t)
    <2>1. OneCopy' /\ IdleHasNone' /\ Copied' /\ \A a \in Atom : Busy(a)' => Busy(a)
      BY <1>7, PopHeld
    <2> QED
      BY <1>7, <2>1 DEF Pop, Kept
  <1>8. CASE Process(t)
    <2>1. atom[t] \in Atom /\ Known(atom[t]) /\ at[t] = "process"
      BY <1>4, <1>8 DEF Process, Remembered, Busy, Taken, Idle
    <2>2. \A a \in Atom : sent'[a] > 0 => sent[a] > 0 \/ Known(a)
      <3>1. sent \in [Atom -> Nat] /\ sent' = [sent EXCEPT ![atom[t]] = @ + 1]
        BY <1>1, <1>8 DEF Process, TypeInv, TypeOK, DispatchTypeOK
      <3> QED
        BY <2>1, <3>1
    <2> QED
      BY <1>5, <1>8, <2>2 DEF Process, Goto, Idle
  <1>9. CASE ArchiveInsert(t)
    <2>1. atom[t] \in Atom /\ Known(atom[t])
      BY <1>4, <1>9 DEF ArchiveInsert, Remembered, Busy, Taken, Idle
    <2>2. Moved(atom[t])'
      BY <1>9, <2>1 DEF ArchiveInsert, ArchiveAtoms, Known, Moved
    <2> QED
      BY <1>5, <1>9, <2>2 DEF ArchiveInsert, Goto, Idle
  <1>10. CASE \/ Begin(t) \/ Mark(t) \/ Load(t) \/ ProcessFails(t) \/ ArchiveRefused(t)
              \/ ArchiveDelete(t) \/ ArchivingFails(t) \/ MarkFails(t)
    BY <1>5, <1>10 DEF Begin, Mark, Load, ProcessFails, ArchiveRefused, ArchiveDelete, ArchivingFails,
                       MarkFails, Goto, Idle
  <1>11. CASE \/ LeaveHalted(t) \/ PopNothing(t) \/ Finish(t) \/ Interrupt(t)
              \/ MarkFindsNoConnection(t) \/ LoadFails(t) \/ InterruptFails(t)
              \/ InterruptFindsNoConnection(t)
    BY <1>6, <1>11 DEF LeaveHalted, PopNothing, Finish, Interrupt, MarkFindsNoConnection, LoadFails,
                       InterruptFails, InterruptFindsNoConnection, Exit, NextRound, Goto, Idle
  <1> QED
    BY <1>7, <1>8, <1>9, <1>10, <1>11 DEF Threads, WorkerStep, WorkerFault

LEMMA ThreadHeld == ASSUME HeldInv, NEW t \in Worker, Threads(t) PROVE HeldInv'
  <1>1. TypeInv /\ TypeInv'
    BY ThreadType DEF HeldInv
  <1>2. RowsKept
    BY <1>1, ThreadKeepsRows DEF HeldInv
  <1>3. UNCHANGED <<daemon, todo, current>> /\ Undisturbed'
    BY DEF HeldInv, Threads, Undisturbed, daemonVars, callVars
  <1>4. /\ OneCopy' /\ IdleHasNone' /\ Copied'
        /\ \A a \in Atom : Busy(a)' => Busy(a)
        /\ \A a \in Atom : sent'[a] > 0 => sent[a] > 0 \/ Known(a)
    BY ThreadParts DEF HeldInv
  <1> QED
    BY <1>1, <1>2, <1>3, <1>4, HeldIf

\* Each step of the daemon.
LEMMA DaemonHeld == ASSUME HeldInv, DaemonStep \/ Fatal PROVE HeldInv'
  <1>1. TypeInv /\ TypeInv' /\ Undisturbed
    BY DaemonType DEF HeldInv
  <1>2. RowsKept
    BY <1>1, DaemonKeepsRows DEF Undisturbed
  <1>3. ASSUME UNCHANGED <<queue, at, atom, sent, bContinue, abort, stop>>,
               daemon' \notin {"push", "mark", "drain", "reset", "resetJob", "close"},
               daemon \in {"mark", "dead"} => daemon' = "dead"
        PROVE  HeldInv'
    <2>1. Undisturbed'
      BY <1>1, <1>3 DEF Undisturbed
    <2> QED
      BY <1>1, <1>2, <1>3, <2>1, HeldRows
  <1> USE DEF dispatch, threads, callVars
  <1>4. CASE FinishSelect \/ Count \/ LoadSelect \/ LoadRun \/ LoadDone \/ FeedDone
             \/ LaunchDone \/ Watch
    BY <1>3, <1>4 DEF FinishSelect, Count, LoadSelect, LoadRun, LoadDone, FeedDone, LaunchDone, Watch
  <1>5. ASSUME NEW j \in Job, FinishUpdate(j) \/ LoadInsert(j) PROVE HeldInv'
    BY <1>3, <1>5 DEF FinishUpdate, LoadInsert
  <1>6. CASE FeedQuery
    <2>1. /\ daemon = "query" /\ daemon' = "push"
          /\ todo' \subseteq {a \in Atom : atomStatus[a] = "pending"}
          /\ UNCHANGED <<jobStatus, atomStatus, archived, queue, at, atom, sent, current, bContinue,
                         abort, stop>>
      BY <1>6 DEF FeedQuery, tables
    <2>2. TodoFree'
      BY <2>1 DEF HeldInv, PendingHeld, TodoFree, Known, Busy, Queued, Taken, NoRow
    <2>3. PendingHeld' /\ Undisturbed'
      BY <1>1, <2>1 DEF HeldInv, PendingHeld, Undisturbed, Busy, Queued, Taken
    <2>4. OneCopy' /\ IdleHasNone' /\ Remembered' /\ Copied'
      BY <2>1 DEF HeldInv, OneCopy, IdleHasNone, Idle, Remembered, Copied, Known, Moved, Busy, Queued, Taken
    <2> QED
      BY <1>1, <2>2, <2>3, <2>4 DEF HeldInv
  <1>7. ASSUME NEW a \in Atom, FeedPush(a) PROVE HeldInv'
    <2>1. /\ daemon = "push" /\ a \in todo /\ queue' = Append(queue, a)
          /\ daemon' = "mark" /\ current' = a /\ todo' = todo
          /\ UNCHANGED <<jobStatus, atomStatus, archived, at, atom, sent, bContinue, abort, stop>>
      BY <1>7 DEF FeedPush, Push, tables
    <2> HIDE DEF dispatch, threads, callVars
    <2>2. Known(a) /\ ~Busy(a)
      BY <2>1 DEF HeldInv, TodoFree
    <2>3. OneCopy' /\ \A b \in Atom : Busy(b)' => Busy(b) \/ b = a
      BY <1>1, <2>1, <2>2, PushHeld DEF HeldInv
    <2>4. Remembered'
      BY <2>1, <2>2, <2>3 DEF HeldInv, Remembered, Known, Moved
    <2>5. IdleHasNone' /\ Copied'
      BY <2>1 DEF HeldInv, IdleHasNone, Idle, Copied, Moved
    <2>6. PendingHeld'
      BY <2>1, <2>3 DEF HeldInv, PendingHeld
    <2>7. TodoFree'
      BY <2>1, <2>3 DEF HeldInv, TodoFree, Known, Moved
    <2>8. Undisturbed'
      BY <1>1, <2>1 DEF Undisturbed
    <2> QED
      BY <1>1, <2>3, <2>4, <2>5, <2>6, <2>7, <2>8 DEF HeldInv
  <1>8. CASE FeedMark
    <2>1. /\ current \in Atom /\ daemon = "mark" /\ daemon' = "push"
          /\ todo' = todo \ {current} /\ UNCHANGED <<queue, at, atom, sent, bContinue, abort, stop>>
          /\ archived' = archived
          /\ atomStatus' = [a \in Atom |-> IF a \in {current} /\ atomStatus[a] # NoRow
                                            THEN "running" ELSE atomStatus[a]]
      BY <1>1, <1>8 DEF FeedMark, UpdateAtoms, Undisturbed
    <2> HIDE DEF dispatch, threads, callVars
    <2>2. \A a \in Atom : Busy(a)' <=> Busy(a)
      BY <2>1 DEF Busy, Queued, Taken
    <2>3. PendingHeld'
      BY <2>1, <2>2 DEF HeldInv, PendingHeld, NoRow
    <2>4. TodoFree'
      BY <1>2, <2>1, <2>2 DEF HeldInv, TodoFree, RowsKept
    <2>5. Undisturbed'
      BY <1>1, <2>1 DEF Undisturbed
    <2>6. OneCopy' /\ IdleHasNone' /\ Remembered'
      BY <1>2, <2>1, <2>2 DEF HeldInv, OneCopy, IdleHasNone, Idle, Remembered, RowsKept
    <2>7. Copied'
      <3>1. \A t \in Worker : at[t] = "delete" => atom[t] \in Atom
        BY <1>1 DEF TypeInv, TypeOK, DispatchTypeOK, Placed
      <3> QED
        BY <1>2, <2>1, <3>1 DEF HeldInv, Copied, RowsKept
    <2> QED
      BY <1>1, <2>3, <2>4, <2>5, <2>6, <2>7 DEF HeldInv
  <1>9. ASSUME NEW t \in Worker, Launch(t) PROVE HeldInv'
    <2>1. /\ daemon = "launch" /\ UNCHANGED <<queue, atom, sent, daemon, bContinue, abort, stop, archived>>
          /\ \A u \in Worker : at'[u] = at[u] \/ (at[u] = "dead" /\ at'[u] = "begin")
      BY <1>1, <1>9 DEF Launch, Alive, TypeInv, TypeOK, DispatchTypeOK, tables
    <2>2. OneCopy' /\ IdleHasNone' /\ \A a \in Atom : Busy(a)' => Busy(a)
      BY <2>1 DEF HeldInv, OneCopy, IdleHasNone, Idle, Busy, Queued, Taken
    <2>3. \A u \in Worker : at'[u] = "delete" => at[u] = "delete" /\ atom[u] \in Atom
      BY <1>1, <2>1 DEF TypeInv, TypeOK, DispatchTypeOK, Placed
    <2>4. Copied'
      BY <1>2, <2>1, <2>3 DEF HeldInv, Copied, RowsKept
    <2>5. Undisturbed'
      BY <1>1, <2>1 DEF Undisturbed
    <2> QED
      BY <1>1, <1>2, <2>1, <2>2, <2>4, <2>5, HeldIf
  <1>10. ASSUME Abnormal, daemon # "close" PROVE HeldInv'
    BY <1>3, <1>10 DEF Abnormal
  <1>11. ASSUME NEW j \in Job PROVE LoadRefused(j) => HeldInv'
    BY <1>10 DEF LoadRefused
  <1>12. CASE Fatal
    BY <1>1, <1>10, <1>12 DEF Fatal, Undisturbed
  <1>13. ~(Leave \/ Drain \/ DrainDone \/ ResetJob \/ ResetDone \/ Close)
    BY <1>1 DEF Leave, Drain, DrainDone, ResetJob, ResetDone, Close, Undisturbed
  <1>14. \A j \in Job : ~ResetAtoms(j)
    BY <1>1 DEF ResetAtoms, Undisturbed
  <1> QED
    BY <1>4, <1>5, <1>6, <1>7, <1>8, <1>9, <1>11, <1>12, <1>13, <1>14 DEF DaemonStep

\* Web pages, and the calls that are left.
LEMMA OtherHeld ==
  ASSUME HeldInv, Calm,
         Web \/ StopCall \/ HaltCall \/ StopStep \/ (\E j \in Job : AbortCall(j)) \/ AbortStep
  PROVE  HeldInv'
  <1>1. TypeInv /\ TypeInv' /\ Undisturbed
    BY WebType, StopType, AbortType DEF HeldInv
  <1>2. Web \/ HaltCall \/ HaltClose
    BY <1>1, OthersDisturbNothing
  <1>3. RowsKept
    BY <1>1, <1>2, WebKeepsRows, CallsKeepRows DEF StopStep
  <1>4. UNCHANGED <<queue, at, atom, sent, daemon, todo, current>> /\ Undisturbed'
    BY <1>1, OthersDisturbNothing
  <1> QED
    BY <1>1, <1>3, <1>4, HeldRows

\* A process that starts, or dies, has nothing in memory.
LEMMA ProcessHeld == ASSUME HeldInv, Calm, Start \/ Crash PROVE HeldInv'
  <1>1. TypeInv /\ TypeInv' /\ Undisturbed
    BY ProcessType DEF HeldInv
  <1>2. RowsKept
    BY <1>1, CallsKeepRows
  <1>3. /\ queue' = <<>> /\ \A t \in Worker : at'[t] = "dead" /\ atom'[t] = None
        /\ UNCHANGED sent
    BY DEF Start, Crash, tables, threads, Live, Alive, HeldInv, IdleHasNone, Idle
  <1>4. daemon' \in {"select", "off"}
    BY DEF Start, Crash
  <1>5. \A a \in Atom : ~Busy(a)'
    BY <1>3, AtomDispatchAssumption DEF Busy, Queued, Taken
  <1>6. OneCopy' /\ IdleHasNone' /\ Copied'
    BY <1>3 DEF OneCopy, IdleHasNone, Idle, Copied
  <1>7. bContinue' /\ abort' = NoAbort /\ stop'.at = "idle"
    <2>1. CASE Start
      BY <2>1 DEF Start, NoStop
    <2>2. CASE Crash
      BY <1>1, <2>2 DEF Crash, NoStop, Undisturbed
    <2> QED
      BY <2>1, <2>2
  <1>8. Undisturbed'
    BY <1>4, <1>7 DEF Undisturbed
  <1> QED
    BY <1>1, <1>2, <1>3, <1>4, <1>5, <1>6, <1>8, HeldIf

LEMMA HeldInit == Init => HeldInv
  <1>1. Init => TypeInv
    BY TypeInit
  <1>2. OnceInv => HeldInv
    BY DEF OnceInv, HeldInv, PendingIsFree, PendingHeld, Snapshot, TodoFree
  <1> QED
    BY <1>1, <1>2, OnceInit

LEMMA HeldStep == ASSUME HeldInv, Calm, [Next]_vars PROVE HeldInv'
  <1>1. CASE UNCHANGED vars
    <2>1. TypeInv' /\ RowsKept
      BY <1>1, TypeStep, UnchangedKeepsRows DEF HeldInv, vars, tables
    <2>2. UNCHANGED <<queue, at, atom, sent, daemon, todo, current, bContinue, abort, stop>>
      BY <1>1 DEF vars, dispatch, threads, daemonVars, callVars
    <2>3. Undisturbed'
      BY <2>2 DEF HeldInv, Undisturbed
    <2> QED
      BY <2>1, <2>2, <2>3, HeldRows
  <1> QED
    BY <1>1, ThreadHeld, DaemonHeld, OtherHeld, ProcessHeld DEF Next

\* What a copy is.
LEMMA OneCopyIsSingle == OneCopy => SingleHolder
  <1>1. ASSUME OneCopy, NEW a \in Atom PROVE Occurrences(a) <= 1
    <2> DEFINE places == {i \in DOMAIN queue : queue[i] = a}
               holders == {t \in Worker : atom[t] = a}
    <2>1. OneCopy /\ a # None
      BY <1>1, AtomDispatchAssumption
    <2>2. places = {} \/ \E i \in DOMAIN queue : places = {i}
      BY <2>1 DEF OneCopy
    <2>3. holders = {} \/ \E t \in Worker : holders = {t}
      BY <2>1 DEF OneCopy
    <2>4. places = {} \/ holders = {}
      BY <2>1 DEF OneCopy
    <2>5. Occurrences(a) = Cardinality(places) + Cardinality(holders)
      BY DEF Occurrences
    <2>6. Cardinality({}) = 0 /\ \A x : Cardinality({x}) = 1
      BY FS_EmptySet, FS_Singleton
    <2> HIDE DEF places, holders
    <2>7. Cardinality(places) = 0 \/ Cardinality(places) = 1
      BY <2>2, <2>6
    <2>8. Cardinality(holders) = 0 \/ Cardinality(holders) = 1
      BY <2>3, <2>6
    <2>9. Cardinality(places) = 0 \/ Cardinality(holders) = 0
      BY <2>4, <2>6
    <2> QED
      BY <2>5, <2>7, <2>8, <2>9
  <1> QED
    BY <1>1 DEF SingleHolder
=============================================================================
