--------------------------- MODULE SchedulerDaemon ---------------------------
(***************************************************************************)
(* SchedulerDaemon.run with AtomFeeder, the calls that come from other     *)
(* threads (abortJob, haltAll, stopAll) and the life of the process that   *)
(* holds them.  The daemon thread finishes jobs, loads jobs, feeds the     *)
(* queue and launches the workers, over and over.                          *)
(***************************************************************************)
EXTENDS AtomDispatch, FiniteSetsExt

CONSTANTS
  MaxBatch,   \* AtomFeeder.iMaxBatchSize
  Events,     \* what other threads and people may do
  MaxEvents,  \* bound on the number of these events
  MaxStarts   \* bound on the number of times that the process is started

ASSUME SchedulerDaemonAssumption ==
  /\ MaxBatch \in Nat \ {0}
  /\ Events \subseteq {"later", "add", "view", "recycle", "delay", "delete",
                       "abort", "halt", "stop", "crash", "die", "run"}
  /\ MaxEvents \in Nat
  /\ MaxStarts \in Nat \ {0}

VARIABLES
  daemon,      \* where SchedulerDaemon.run stands
  todo,        \* what the loop it is in has still to go through
  current,     \* the job or the atom of this round of that loop
  bContinue,   \* cleared by stopAll
  batch,       \* atoms fed so far by this call of feedQueue
  abort,       \* where abortJob stands, and its job
  stop,        \* where stopAll or haltAll stands, its thread and its jobs
  toStop,      \* the threads that stopAll has still to go through
  unbound,     \* TRUE once SchedulerDaemon.oDbb is null
  events,      \* events so far
  starts       \* starts of the process so far

daemonVars == <<daemon, todo, current, bContinue, batch>>
callVars   == <<abort, stop, toStop, unbound>>
vars == <<tables, page, dispatch, daemonVars, callVars, events, starts>>

DaemonPlace == {"off", "select", "finish", "count", "load", "insert", "run", "query",
                "push", "mark", "launch", "watch", "halt", "drain", "reset",
                "resetJob", "close", "dead"}

AbortState == [at : {"idle", "check", "atoms", "archive", "delete", "job"},
               job : Job \cup {None}, own : BOOLEAN]

StopState == [at : {"idle", "sleep", "mark", "kill", "close", "halt"},
              victim : Worker \cup {None}, jobs : SUBSET Job]

DaemonTypeOK ==
  /\ daemon    \in DaemonPlace
  /\ todo      \in SUBSET (Job \cup Atom \cup Worker)
  /\ current   \in Job \cup Atom \cup {None}
  /\ bContinue \in BOOLEAN
  /\ batch     \in 0 .. MaxBatch
  /\ abort     \in AbortState
  /\ stop      \in StopState
  /\ toStop    \in SUBSET Worker
  /\ unbound   \in BOOLEAN
  /\ events    \in 0 .. MaxEvents
  /\ starts    \in 0 .. MaxStarts

TypeOK == TablesTypeOK /\ DispatchTypeOK /\ DaemonTypeOK

NoAbort == [at |-> "idle", job |-> None, own |-> FALSE]
NoStop  == [at |-> "idle", victim |-> None, jobs |-> {}]

Init ==
  /\ TablesInit
  /\ DispatchInit
  /\ daemon = "off"
  /\ todo = {}
  /\ current = None
  /\ bContinue = TRUE
  /\ batch = 0
  /\ abort = NoAbort
  /\ stop = NoStop
  /\ toStop = {}
  /\ unbound = TRUE
  /\ events = 0
  /\ starts = 0

\* SchedulerDaemon.run has its thread pool.
Running == daemon \notin {"off", "drain", "reset", "resetJob", "close", "dead"}
-----------------------------------------------------------------------------
(* SchedulerDaemon.run                                                     *)

\* main() starts the daemon in a new process.
Start ==
  /\ daemon \in {"off", "dead"}
  /\ Live = {} /\ abort = NoAbort /\ stop = NoStop
  /\ starts < MaxStarts
  /\ starts' = starts + 1
  /\ daemon' = "select"
  /\ bContinue' = TRUE
  /\ pool' = TRUE /\ unbound' = FALSE
  /\ queue' = <<>>
  /\ todo' = {} /\ current' = None /\ batch' = 0
  /\ UNCHANGED <<tables, page, threads, sent, faults, abort, stop, toStop, events>>

\* Mutant: the query forgets the atoms that are running.
FinishedForgetsRunning ==
  {j \in Job : /\ jobStatus[j] \in {"pending", "running"}
               /\ \A a \in AtomsOf(j) : atomStatus[a] \notin {"pending", "suspended"}}

\* Mutant: only pending jobs are finished here.
FinishedOnlyPending == {j \in Job : jobStatus[j] = "pending" /\ OpenAtoms(j) = {}}

\* Jobs, pending or running, which have no open atom.
Finished == {j \in Job : jobStatus[j] \in {"pending", "running"} /\ OpenAtoms(j) = {}}

FinishSelect ==
  /\ daemon = "select" /\ bContinue /\ pool
  /\ todo' = Finished
  /\ daemon' = "finish"
  /\ UNCHANGED <<tables, page, dispatch, current, bContinue, batch, callVars, events, starts>>

\* The UPDATE of each one comes later, and only looks at the key.
FinishUpdate(j) ==
  /\ daemon = "finish" /\ pool
  /\ j \in todo
  /\ UpdateJob(j, "finished")
  /\ todo' = todo \ {j}
  /\ UNCHANGED <<jobTime, atomStatus, archived, page, dispatch, daemon, current,
                 bContinue, batch, callVars, events, starts>>

\* Mutant: running jobs do not count.
ActiveOnlyPending == {j \in Job : jobStatus[j] = "pending" /\ jobTime[j] # "later"}

\* Jobs that run or that are due; without one the loop sleeps and starts again.
Active == {j \in Job : \/ jobStatus[j] = "running"
                       \/ jobStatus[j] = "pending" /\ jobTime[j] # "later"}

Count ==
  /\ daemon = "finish" /\ pool
  /\ todo = {}
  /\ daemon' = IF Active = {} THEN "select" ELSE "load"
  /\ UNCHANGED <<tables, page, dispatch, todo, current, bContinue, batch,
                 callVars, events, starts>>

\* AtomFeeder.loadAtoms: as many pending jobs as there are threads, whatever
\* their time, the latest first.  (Where the nulls go depends on the database.)
LoadSelect ==
  /\ daemon = "load" /\ bContinue /\ pool
  /\ LET jobs == {j \in Job : jobStatus[j] = "pending"} IN
     \E S \in SUBSET jobs :
       /\ \/ Cardinality(S) = Cardinality(Worker)
          \/ S = jobs /\ Cardinality(S) < Cardinality(Worker)
       /\ \A j \in S, k \in jobs \ S : ~(jobTime[j] = "due" /\ jobTime[k] = "later")
       /\ todo' = S
  /\ daemon' = "insert"
  /\ UNCHANGED <<tables, page, dispatch, current, bContinue, batch, callVars,
                 events, starts>>

\* loadDynamicList, loadStaticList: a snapshot of the list becomes atoms.
Inserts(j) == IF j \in Listed THEN NewAtoms(AtomsOf(j)) ELSE {}

LoadInsert(j) ==
  /\ daemon = "insert" /\ pool
  /\ j \in todo
  /\ Inserts(j) = {} \/ HasRow(j)
  /\ InsertAtoms(Inserts(j))
  /\ current' = j
  /\ daemon' = "run"
  /\ UNCHANGED <<jobStatus, jobTime, archived, page, dispatch, todo, bContinue,
                 batch, callVars, events, starts>>

\* The job becomes running, and due, whatever it was meanwhile.
LoadRun ==
  /\ daemon = "run" /\ pool
  /\ UpdateJob(current, "running")
  /\ jobTime' = [jobTime EXCEPT ![current] = IF HasRow(current) THEN "due" ELSE @]
  /\ todo' = todo \ {current}
  /\ current' = None
  /\ daemon' = "insert"
  /\ UNCHANGED <<atomStatus, archived, page, dispatch, bContinue, batch, callVars,
                 events, starts>>

LoadDone ==
  /\ daemon = "insert"
  /\ todo = {}
  /\ daemon' = "query"
  /\ UNCHANGED <<tables, page, dispatch, todo, current, bContinue, batch, callVars,
                 events, starts>>

\* Mutant: atoms that are running are fed again, as after a crash.
FeedQueryRunning ==
  /\ daemon = "query" /\ pool
  /\ todo' = {a \in Atom : /\ atomStatus[a] \in {"pending", "running"}
                           /\ HasRow(JobOf[a]) /\ jobTime[JobOf[a]] # "later"}
  /\ batch' = 0
  /\ daemon' = "push"
  /\ UNCHANGED <<tables, page, dispatch, current, bContinue, callVars, events, starts>>

\* Mutant: all the atoms become running with the query, beyond MaxBatch too.
FeedQueryMarks ==
  /\ daemon = "query" /\ pool
  /\ todo' = {a \in Atom : /\ atomStatus[a] = "pending"
                           /\ HasRow(JobOf[a]) /\ jobTime[JobOf[a]] # "later"}
  /\ UpdateAtoms(todo', "running")
  /\ batch' = 0
  /\ daemon' = "push"
  /\ UNCHANGED <<jobStatus, jobTime, archived, page, dispatch, current, bContinue,
                 callVars, events, starts>>

\* AtomFeeder.feedQueue: pending atoms whose job is due, in whatever status.
FeedQuery ==
  /\ daemon = "query" /\ pool
  /\ todo' = {a \in Atom : /\ atomStatus[a] = "pending"
                           /\ HasRow(JobOf[a]) /\ jobTime[JobOf[a]] # "later"}
  /\ batch' = 0
  /\ daemon' = "push"
  /\ UNCHANGED <<tables, page, dispatch, current, bContinue, callVars, events, starts>>

\* Mutant: no bound on the batch.
FeedPushUnbounded(a) ==
  /\ daemon = "push"
  /\ a \in todo
  /\ Push(a)
  /\ current' = a
  /\ daemon' = "mark"
  /\ UNCHANGED <<tables, page, threads, pool, sent, faults, todo, bContinue, batch,
                 callVars, events, starts>>

\* Each atom goes into the queue first and becomes running afterwards.
FeedPush(a) ==
  /\ daemon = "push"
  /\ batch < MaxBatch
  /\ a \in todo
  /\ Push(a)
  /\ current' = a
  /\ daemon' = "mark"
  /\ UNCHANGED <<tables, page, threads, pool, sent, faults, todo, bContinue, batch,
                 callVars, events, starts>>

FeedMark ==
  /\ daemon = "mark" /\ pool
  /\ UpdateAtoms({current}, "running")
  /\ todo' = todo \ {current}
  /\ current' = None
  /\ batch' = batch + 1
  /\ daemon' = "push"
  /\ UNCHANGED <<jobStatus, jobTime, archived, page, dispatch, bContinue, callVars,
                 events, starts>>

FeedDone ==
  /\ daemon = "push"
  /\ todo = {} \/ batch = MaxBatch
  /\ todo' = IF queue = <<>> THEN {} ELSE Worker
  /\ batch' = 0
  /\ daemon' = "launch"
  /\ UNCHANGED <<tables, page, dispatch, current, bContinue, callVars, events, starts>>

\* WorkerThreadPool.launchAll: a new thread for each one that is not alive.
Launch(t) ==
  /\ daemon = "launch"
  /\ t \in todo
  /\ todo' = todo \ {t}
  /\ at' = IF Alive(t) THEN at ELSE [at EXCEPT ![t] = "begin"]
  /\ UNCHANGED <<tables, page, queue, atom, job, pending, halted, pool, sent, faults,
                 daemon, current, bContinue, batch, callVars, events, starts>>

LaunchDone ==
  /\ daemon = "launch"
  /\ todo = {}
  /\ daemon' = "watch"
  /\ UNCHANGED <<tables, page, dispatch, todo, current, bContinue, batch, callVars,
                 events, starts>>

\* do sleep(10000) while (livethreads()==size())
Watch ==
  /\ daemon = "watch"
  /\ Live # Worker
  /\ daemon' = "select"
  /\ UNCHANGED <<tables, page, dispatch, todo, current, bContinue, batch, callVars,
                 events, starts>>

\* Mutant: bContinue is only looked at before the first loop.
LeaveFromSelect ==
  /\ daemon = "select"
  /\ ~bContinue
  /\ halted' = [t \in Worker |-> TRUE]
  /\ daemon' = "drain"
  /\ todo' = {} /\ current' = None
  /\ UNCHANGED <<tables, page, queue, at, atom, job, pending, pool, sent, faults,
                 bContinue, batch, callVars, events, starts>>

\* bContinue was cleared: haltAll() on the pool, which only raises flags.
Leave ==
  /\ daemon \in {"select", "load"}
  /\ ~bContinue
  /\ halted' = [t \in Worker |-> TRUE]
  /\ daemon' = "drain"
  /\ todo' = {} /\ current' = None
  /\ UNCHANGED <<tables, page, queue, at, atom, job, pending, pool, sent, faults,
                 bContinue, batch, callVars, events, starts>>

\* AtomConsumer.close pops what is left in the queue ...
Drain ==
  /\ daemon = "drain"
  /\ queue # <<>>
  /\ queue' = Tail(queue)
  /\ todo' = todo \cup {JobOf[Head(queue)]}
  /\ UNCHANGED <<tables, page, threads, pool, sent, faults, daemon, current, bContinue,
                 batch, callVars, events, starts>>

DrainDone ==
  /\ daemon = "drain"
  /\ queue = <<>>
  /\ daemon' = "reset"
  /\ UNCHANGED <<tables, page, dispatch, todo, current, bContinue, batch, callVars,
                 events, starts>>

\* ... and for each job of it makes all the running atoms pending again, those
\* that a thread still processes too, and the job pending.
ResetAtoms(j) ==
  /\ daemon = "reset" /\ pool
  /\ j \in todo
  /\ UpdateAtoms({a \in AtomsOf(j) : atomStatus[a] = "running"}, "pending")
  /\ current' = j
  /\ daemon' = "resetJob"
  /\ UNCHANGED <<jobStatus, jobTime, archived, page, dispatch, todo, bContinue, batch,
                 callVars, events, starts>>

ResetJob ==
  /\ daemon = "resetJob" /\ pool
  /\ UpdateJob(current, "pending")
  /\ jobTime' = [jobTime EXCEPT ![current] = IF HasRow(current) THEN "null" ELSE @]
  /\ todo' = todo \ {current}
  /\ current' = None
  /\ daemon' = "reset"
  /\ UNCHANGED <<atomStatus, archived, page, dispatch, bContinue, batch, callVars,
                 events, starts>>

ResetDone ==
  /\ daemon = "reset"
  /\ todo = {}
  /\ daemon' = "close"
  /\ UNCHANGED <<tables, page, dispatch, todo, current, bContinue, batch, callVars,
                 events, starts>>

Close ==
  /\ daemon = "close" /\ pool
  /\ pool' = FALSE /\ unbound' = TRUE
  /\ daemon' = "off"
  /\ UNCHANGED <<tables, page, queue, threads, sent, faults, todo, current, bContinue,
                 batch, abort, stop, toStop, events, starts>>

\* Any exception ends run() through its catch clause: the pool of threads is
\* halted, the DBBind closed, and what is in the queue stays there.
Abnormal ==
  /\ halted' = IF Running THEN [t \in Worker |-> TRUE] ELSE halted
  /\ pool' = FALSE
  /\ daemon' = IF daemon = "close" THEN "off" ELSE "dead"
  /\ todo' = {} /\ current' = None /\ batch' = 0
  /\ UNCHANGED <<tables, page, queue, at, atom, job, pending, sent, bContinue,
                 callVars, events, starts>>

\* The foreign key of k_job_atoms refuses the atoms of a deleted job.
LoadRefused(j) ==
  /\ daemon = "insert" /\ pool
  /\ j \in todo
  /\ Inserts(j) # {} /\ ~HasRow(j)
  /\ Abnormal
  /\ UNCHANGED faults

Fatal ==
  /\ daemon \in {"select", "finish", "load", "insert", "run", "query", "mark",
                 "reset", "resetJob", "close"}
  /\ (daemon \in {"select", "load"}) => bContinue
  /\ DbFault
  /\ Abnormal

DaemonStep ==
  \/ FinishSelect \/ (\E j \in Job : FinishUpdate(j)) \/ Count
  \/ LoadSelect \/ (\E j \in Job : LoadInsert(j) \/ LoadRefused(j))
  \/ LoadRun \/ LoadDone
  \/ FeedQuery \/ (\E a \in Atom : FeedPush(a)) \/ FeedMark \/ FeedDone
  \/ (\E t \in Worker : Launch(t)) \/ LaunchDone \/ Watch
  \/ Leave \/ Drain \/ DrainDone
  \/ (\E j \in Job : ResetAtoms(j)) \/ ResetJob \/ ResetDone \/ Close
-----------------------------------------------------------------------------
(* abortJob(sGuJob): a call of another thread.                             *)

Event(e) ==
  /\ e \in Events
  /\ events < MaxEvents
  /\ events' = events + 1

\* After haltAll the field oDbb is null and the call makes a DBBind of its own.
\* Job.instantiate throws for a job that has no row.
AbortCall(j) ==
  /\ Event("abort")
  /\ abort = NoAbort
  /\ jobStatus[j] # NoRow
  /\ daemon \notin {"off", "close"}
  /\ pool \/ unbound
  /\ RemoveAtoms(j)
  /\ abort' = IF HasRow(j) THEN [at |-> "check", job |-> j, own |-> unbound] ELSE abort
  /\ UNCHANGED <<tables, page, threads, pool, sent, faults, daemonVars, stop, toStop,
                 unbound, starts>>

\* Job.abort, one action for each of its statements.
AbortAt(place) ==
  /\ abort.at = place
  /\ pool \/ abort.own
  /\ UNCHANGED <<jobTime, page, dispatch, daemonVars, stop, toStop, unbound, events,
                 starts>>

AbortCheck ==
  /\ AbortAt("check")
  /\ abort' = IF HasRow(abort.job) /\ jobStatus[abort.job] \notin {"aborted", "finished"}
                THEN [abort EXCEPT !.at = "atoms"] ELSE NoAbort
  /\ UNCHANGED <<jobStatus, atomStatus, archived>>

AbortAtoms ==
  /\ AbortAt("atoms")
  /\ UpdateAtoms({a \in AtomsOf(abort.job) : atomStatus[a] # "finished"}, "aborted")
  /\ abort' = [abort EXCEPT !.at = "archive"]
  /\ UNCHANGED <<jobStatus, archived>>

AbortArchive ==
  /\ AbortAt("archive")
  /\ IF CanArchive(AtomsOf(abort.job))
       THEN /\ ArchiveAtoms(AtomsOf(abort.job))
            /\ abort' = [abort EXCEPT !.at = "delete"]
       ELSE /\ abort' = NoAbort
            /\ UNCHANGED archived
  /\ UNCHANGED <<jobStatus, atomStatus>>

\* Mutant: the DELETE names the status that the first UPDATE wrote.
AbortDeleteAborted ==
  /\ AbortAt("delete")
  /\ DeleteAtoms({a \in AtomsOf(abort.job) : atomStatus[a] = "aborted"})
  /\ abort' = [abort EXCEPT !.at = "job"]
  /\ UNCHANGED <<jobStatus, archived>>

AbortDelete ==
  /\ AbortAt("delete")
  /\ DeleteAtoms(AtomsOf(abort.job))
  /\ abort' = [abort EXCEPT !.at = "job"]
  /\ UNCHANGED <<jobStatus, archived>>

AbortJobRow ==
  /\ AbortAt("job")
  /\ UpdateJob(abort.job, "aborted")
  /\ abort' = NoAbort
  /\ UNCHANGED <<atomStatus, archived>>

\* A statement fails; what the call has done so far stays.
AbortFails ==
  /\ abort # NoAbort
  /\ DbFault
  /\ abort' = NoAbort
  /\ UNCHANGED <<tables, page, queue, threads, pool, sent, daemonVars, stop, toStop,
                 unbound, events, starts>>

AbortStep == \/ AbortCheck \/ AbortAtoms \/ AbortArchive \/ AbortDelete
             \/ AbortJobRow \/ AbortFails
-----------------------------------------------------------------------------
(* stopAll(lDelayMilis) and haltAll(), also calls of other threads.        *)

StoppedUnchanged == UNCHANGED <<page, abort, starts>>

UpdateJobs(jobs, status) ==
  jobStatus' = [j \in Job |-> IF j \in jobs /\ HasRow(j) THEN status ELSE jobStatus[j]]

\* WorkerThreadPool.runningJobs: a job enters the list if it is in the list.
RunningJobs ==
  LET Add(t, jobs) == LET j == JobOf[ActiveAtom(t)] IN
                      IF j \in jobs THEN jobs \cup {j} ELSE jobs
  IN Job \cap FoldSet(Add, {}, Live)

\* It throws a NullPointerException when a live thread has no atom.
RunningJobsFails == \E t \in Live : ActiveAtom(t) = None

StopCall ==
  /\ Event("stop")
  /\ Running
  /\ stop = NoStop
  /\ bContinue' = FALSE
  /\ stop' = [stop EXCEPT !.at = "sleep"]
  /\ UNCHANGED <<tables, dispatch, daemon, todo, current, batch, toStop, unbound>>
  /\ StoppedUnchanged

\* The delay is over: oThreadPool may be gone meanwhile, or its DBBind closed.
StopWake ==
  /\ stop.at = "sleep"
  /\ IF Running /\ (pool \/ unbound)
       THEN /\ stop' = [stop EXCEPT !.at = "mark"]
            /\ toStop' = Worker
       ELSE /\ stop' = NoStop
            /\ UNCHANGED toStop
  /\ UNCHANGED <<tables, dispatch, daemonVars, unbound, events>>
  /\ StoppedUnchanged

\* Atom.setStatus(STATUS_INTERRUPTED) for the atom of a thread, if it has one
\* and there is a connection; then Thread.stop.
StopMark(t) ==
  /\ stop.at = "mark"
  /\ t \in toStop
  /\ pool \/ unbound
  /\ IF pool /\ ActiveAtom(t) # None
       THEN UpdateAtoms({ActiveAtom(t)}, "interrupted")
       ELSE UNCHANGED atomStatus
  /\ stop' = [stop EXCEPT !.at = "kill", !.victim = t]
  /\ toStop' = toStop \ {t}
  /\ UNCHANGED <<jobStatus, jobTime, archived, dispatch, daemonVars, unbound, events>>
  /\ StoppedUnchanged

StopKill ==
  /\ stop.at = "kill"
  /\ IF Alive(stop.victim) THEN Exit(stop.victim) ELSE UNCHANGED threads
  /\ stop' = [stop EXCEPT !.at = IF toStop = {} THEN "close" ELSE "mark",
                          !.victim = None]
  /\ UNCHANGED <<tables, queue, pool, sent, faults, daemonVars, toStop, unbound, events>>
  /\ StoppedUnchanged

StopClose ==
  /\ stop.at = "close"
  /\ IF pool /\ ~RunningJobsFails
       THEN /\ UpdateJobs(RunningJobs, "interrupted")
            /\ pool' = FALSE
            /\ unbound' = TRUE
       ELSE UNCHANGED <<jobStatus, pool, unbound>>
  /\ stop' = NoStop
  /\ UNCHANGED <<jobTime, atomStatus, archived, queue, threads, sent, faults, daemonVars,
                 toStop, events>>
  /\ StoppedUnchanged

\* The statement of StopMark or of StopClose fails.
StopFails ==
  /\ stop.at \in {"mark", "close"}
  /\ ~unbound
  /\ DbFault
  /\ stop' = NoStop
  /\ toStop' = {}
  /\ UNCHANGED <<tables, queue, threads, pool, sent, daemonVars, unbound, events>>
  /\ StoppedUnchanged

HaltCall ==
  /\ Event("halt")
  /\ Running
  /\ stop = NoStop
  /\ ~RunningJobsFails
  /\ halted' = [t \in Worker |-> TRUE]
  /\ stop' = [stop EXCEPT !.at = "halt", !.jobs = RunningJobs]
  /\ UNCHANGED <<tables, queue, at, atom, job, pending, pool, sent, faults, daemonVars,
                 toStop, unbound>>
  /\ StoppedUnchanged

\* The jobs that no longer run become suspended, and the DBBind is closed.
HaltClose ==
  /\ stop.at = "halt"
  /\ IF ~RunningJobsFails /\ pool
       THEN /\ UpdateJobs(stop.jobs \ RunningJobs, "suspended")
            /\ pool' = FALSE
            /\ unbound' = TRUE
       ELSE UNCHANGED <<jobStatus, pool, unbound>>
  /\ stop' = NoStop
  /\ UNCHANGED <<jobTime, atomStatus, archived, queue, threads, sent, faults, daemonVars,
                 toStop, events>>
  /\ StoppedUnchanged

StopStep == \/ StopWake \/ (\E t \in Worker : StopMark(t)) \/ StopKill \/ StopClose
            \/ StopFails \/ HaltClose
-----------------------------------------------------------------------------
(* What else may happen to the scheduler.                                  *)

\* The process dies; only the tables, the messages sent and the browser remain.
Crash ==
  /\ Event("crash")
  /\ daemon \notin {"off", "dead"} \/ Live # {}
  /\ daemon' = "off"
  /\ todo' = {} /\ current' = None /\ batch' = 0
  /\ queue' = <<>>
  /\ at' = [t \in Worker |-> "dead"]
  /\ atom' = [t \in Worker |-> None]
  /\ job' = [t \in Worker |-> None]
  /\ pending' = [t \in Worker |-> 0]
  /\ halted' = [t \in Worker |-> TRUE]
  /\ abort' = NoAbort /\ stop' = NoStop /\ toStop' = {} /\ unbound' = TRUE
  /\ UNCHANGED <<tables, page, bContinue, pool, sent, faults, starts>>

Times == IF "later" \in Events THEN {"null", "later"} ELSE {"null"}

\* Messages are sent and the clock runs without a bound of their own: a job is
\* created once, and comes due once.
Created ==
  /\ \E j \in Job : \/ \E time \in Times : SendMail(j, time) \/ CreateListJob(j, time)
                    \/ TimePasses(j)
  /\ UNCHANGED events

WebEvent ==
  \E j \in Job :
    \/ Event("add") /\ AddRecipients(j)
    \/ Event("view") /\ \E status \in Status : ViewAtoms(j, status)
    \/ Event("view") /\ \E S \in (SUBSET AtomsOf(j)) \ {{}} : SuspendAtoms(S) \/ RetryAtoms(j, S)
    \/ Event("recycle") /\ RecycleJob(j)
    \/ Event("delay") /\ \E time \in Time : DelayJob(j, time)
    \/ Event("delete") /\ DeleteJob(j)

Web == /\ Created \/ WebEvent
       /\ UNCHANGED <<dispatch, daemonVars, callVars, starts>>

Threads(t) ==
  /\ WorkerStep(t) \/ WorkerFault(t)
  /\ UNCHANGED <<daemonVars, callVars, events, starts>>

Next ==
  \/ Start \/ DaemonStep \/ Fatal
  \/ \E t \in Worker : Threads(t)
  \/ (\E j \in Job : AbortCall(j)) \/ AbortStep
  \/ StopCall \/ HaltCall \/ StopStep
  \/ Crash \/ Web

\* The process is started at some time; after that a thread that can go on does
\* so.  Nobody has to create a job, and no fault has to happen: a step that
\* fails is alone enabled only when it cannot succeed.
Fairness ==
  /\ WF_vars(Start)
  /\ WF_vars(DaemonStep \/ Fatal)
  /\ \A t \in Worker : WF_vars(Threads(t))
  /\ WF_vars(AbortStep)
  /\ WF_vars(StopStep)
  /\ WF_vars(\E j \in Job : TimePasses(j) /\ UNCHANGED <<dispatch, daemonVars, callVars, events, starts>>)

Spec == Init /\ [][Next]_vars /\ Fairness
-----------------------------------------------------------------------------
(* Properties.                                                             *)

Occurrences(a) == Cardinality({i \in DOMAIN queue : queue[i] = a})
                    + Cardinality({t \in Worker : atom[t] = a})

\* An atom is in one place at a time: once in the queue or at one thread.  The
\* feeder pushes an atom while its row still says pending, and threads, feeder
\* and restarts must never make a second copy of it.
SingleHolder == \A a \in Atom : Occurrences(a) <= 1

\* Nobody gets the same message twice, although a process may die between the
\* message, which WorkerThread.run sends first, and the row, which it moves after.
AtMostOnce == \A a \in Atom : sent[a] <= 1

\* Statistics.java counts the archived atoms that are running or finished as
\* messages sent: each of them was.
StatisticsCountSent ==
  \A a \in Atom : archived[a] \in {"running", "finished"} => sent[a] > 0

\* A job that says it is finished has no atom left to process.  Two of them
\* write that status, each from a count that it made some time before.
FinishedIsComplete == \A j \in Job : jobStatus[j] = "finished" => OpenAtoms(j) = {}

\* A running atom is in the queue, at a thread, or about to be given back by the
\* consumer that closes.  Nothing else ever takes up a row that is running.
RunningIsTracked ==
  \A a \in Atom :
    atomStatus[a] = "running" =>
      Occurrences(a) > 0 \/ daemon \in {"drain", "reset", "resetJob"}

\* When abortJob has ended well, nothing of the job is left to process, whatever
\* the threads wrote into its rows meanwhile.
AbortedIsEmpty == \A j \in Job : jobStatus[j] = "aborted" => OpenAtoms(j) = {}

\* While no statement fails, an atom is in both tables only as long as a thread or
\* abortJob moves it.
ArchivedOnce ==
  faults = 0 =>
    \A a \in Atom : atomStatus[a] # NoRow /\ archived[a] # NoRow =>
      (\E t \in Worker : atom[t] = a) \/ abort.job = JobOf[a]

\* A row that leaves k_job_atoms is archived, or goes with its job.
RowsAreArchived ==
  [][\A a \in Atom : atomStatus[a] # NoRow /\ atomStatus'[a] = NoRow =>
       archived'[a] # NoRow \/ jobStatus'[JobOf[a]] = Gone]_vars

\* A message that waits is processed and archived, or its job is deleted.
Delivery ==
  \A a \in Atom : atomStatus[a] = "pending" ~>
                    archived[a] # NoRow \/ jobStatus[JobOf[a]] = Gone

\* A job ends, although no thread may ever see its own counter reach zero.
JobsEnd ==
  \A j \in Job : jobStatus[j] \in {"pending", "running"} ~>
                   jobStatus[j] \in {"finished", Gone}

\* stopAll leads to the end of the daemon and of all its threads.
StopEnds == stop.at = "sleep" ~> daemon \in {"off", "dead"} /\ Live = {}

\* The scheduler implements Mailing: a message is accepted with its row, and
\* stays so while the feeder, the queue or a thread holds it, even if the row is
\* deleted.
Fed == IF daemon \in {"push", "mark"} THEN todo ELSE {}

Accepted ==
  {a \in Atom : sent[a] = 0 /\ (atomStatus[a] # NoRow \/ Occurrences(a) > 0 \/ a \in Fed)}

Withdrawn ==
  {a \in Atom : sent[a] = 0 /\ a \notin Accepted /\ jobStatus[JobOf[a]] = Gone}

M == INSTANCE Mailing WITH
       Message   <- Atom,
       accepted  <- Accepted,
       copies    <- sent,
       withdrawn <- Withdrawn

ImplementsMailing == M!Spec
-----------------------------------------------------------------------------
(* What a comment of the code says of it, and a run refutes.               *)

\* SchedulerDaemon.run finishes the jobs "that have no more pending atoms", and
\* AtomFeeder loads the atoms of pending jobs: a list gets its messages.
ListsAreLoaded ==
  \A j \in Listed : jobStatus[j] = "pending" ~> \E a \in AtomsOf(j) : sent[a] > 0
=============================================================================
