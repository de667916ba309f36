------------------------ MODULE SingleThreadExecutor ------------------------
(***************************************************************************)
(* SingleThreadExecutor.run for one job, as SendMail calls it in a page of *)
(* the web application and as main() calls it from the command line, on    *)
(* the tables that the scheduler works on at the same time.                *)
(***************************************************************************)
EXTENDS SchedulerDaemon

CONSTANT
  MaxRuns   \* bound on the number of executors, one after the other

ASSUME SingleThreadExecutorAssumption == MaxRuns \in Nat

VARIABLES
  exec,   \* where run() stands, its job, its Job instance and its ResultSet
  runs,   \* executors so far
  ran     \* the jobs that they were given

xvars == <<vars, exec, runs, ran>>

ExecPlace == {"off", "select", "insert", "run", "load", "query", "next",
              "process", "archive", "delete", "interrupt", "count"}

\* rows is what the ResultSet has left, go is bContinue; count goes below zero when
\* atoms become pending after the job was loaded.
Executor == [at : ExecPlace, job : Job \cup {None},
             count : -Cardinality(Atom) .. Cardinality(Atom),
             rows : SUBSET Atom, atom : Atom \cup {None}, go : BOOLEAN]

ExecutorTypeOK ==
  /\ TypeOK
  /\ exec \in Executor
  /\ runs \in 0 .. MaxRuns
  /\ ran  \in SUBSET Job

NoExecutor == [at |-> "off", job |-> None, count |-> 0, rows |-> {}, atom |-> None,
               go |-> FALSE]

ExecutorInit ==
  /\ Init
  /\ exec = NoExecutor
  /\ runs = 0
  /\ ran = {}
-----------------------------------------------------------------------------
(* Who starts an executor.                                                 *)

Given(j) ==
  /\ exec.at = "off"
  /\ runs < MaxRuns
  /\ exec' = [NoExecutor EXCEPT !.at = "select", !.job = j, !.go = TRUE]
  /\ runs' = runs + 1
  /\ ran' = ran \cup {j}

\* A message with bAutoRunJob: the job is created suspended, its atoms pending,
\* and after the commit the same page runs the executor.  It has no date to come.
AutoRun(j) ==
  /\ Given(j)
  /\ jobStatus[j] = NoRow
  /\ j \notin Listed
  /\ jobStatus' = [jobStatus EXCEPT ![j] = "suspended"]
  /\ InsertAtoms(NewAtoms(AtomsOf(j) \ Late))
  /\ UNCHANGED <<jobTime, archived, page, dispatch, daemonVars, callVars, events, starts>>

\* main() is given any job, and so is run() when SendMail adds recipients to one.
RunJob(j) ==
  /\ "run" \in Events
  /\ Given(j)
  /\ HasRow(j)
  /\ UNCHANGED vars
-----------------------------------------------------------------------------
(* SingleThreadExecutor.run                                                *)

\* What a step of the executor leaves to the others.
Beside == UNCHANGED <<page, dispatch, daemonVars, callVars, events, starts, runs, ran>>

ExecGoto(from, to) ==
  /\ exec.at = from
  /\ exec' = [exec EXCEPT !.at = to]

\* Mutant: the loop goes on until there is nothing to load.
ExecSelectForEver ==
  /\ exec.at = "select"
  /\ exec' = IF HasRow(exec.job) THEN [exec EXCEPT !.at = "insert"] ELSE NoExecutor
  /\ UNCHANGED tables
  /\ Beside

\* while (bContinue) loadAtoms(oCon, sJob), whatever the status of the job: it
\* only ends the loop when there is no such job.
ExecSelect ==
  /\ exec.at = "select"
  /\ exec' = IF exec.go /\ HasRow(exec.job) THEN [exec EXCEPT !.at = "insert"]
                                            ELSE NoExecutor
  /\ UNCHANGED tables
  /\ Beside

\* Without a list loadAtoms inserts nothing; the foreign key may refuse.
ExecInsert ==
  /\ ExecGoto("insert", "run")
  /\ Inserts(exec.job) = {} \/ HasRow(exec.job)
  /\ InsertAtoms(Inserts(exec.job))
  /\ UNCHANGED <<jobStatus, jobTime, archived>>
  /\ Beside

ExecRun ==
  /\ ExecGoto("run", "load")
  /\ UpdateJob(exec.job, "running")
  /\ jobTime' = [jobTime EXCEPT ![exec.job] = IF HasRow(exec.job) THEN "due" ELSE @]
  /\ UNCHANGED <<atomStatus, archived>>
  /\ Beside

\* Mutant: a Job instance that is kept adds what it counts again.
ExecLoadAdds ==
  /\ exec.at = "load"
  /\ HasRow(exec.job)
  /\ exec' = [exec EXCEPT !.at = "query", !.count = @ + Cardinality(OpenAtoms(exec.job))]
  /\ UNCHANGED tables
  /\ Beside

\* Job.instantiate counts the open atoms, those of the daemon too.
ExecLoad ==
  /\ exec.at = "load"
  /\ HasRow(exec.job)
  /\ exec' = [exec EXCEPT !.at = "query", !.count = Cardinality(OpenAtoms(exec.job))]
  /\ UNCHANGED tables
  /\ Beside

\* The pending atoms of that moment; their rows stay as they are.
ExecQuery ==
  /\ exec.at = "query"
  /\ exec' = [exec EXCEPT !.at = "next",
                          !.rows = {a \in AtomsOf(exec.job) : atomStatus[a] = "pending"
                                                              /\ HasRow(exec.job)}]
  /\ UNCHANGED tables
  /\ Beside

ExecNext(a) ==
  /\ exec.at = "next"
  /\ a \in exec.rows
  /\ exec' = [exec EXCEPT !.at = "process", !.atom = a, !.rows = @ \ {a}]
  /\ UNCHANGED tables
  /\ Beside

ExecNextIsOver ==
  /\ ExecGoto("next", "select")
  /\ exec.rows = {}
  /\ UNCHANGED tables
  /\ Beside

ExecProcess ==
  /\ exec.at = "process"
  /\ sent' = [sent EXCEPT ![exec.atom] = @ + 1]
  /\ exec' = [exec EXCEPT !.at = "archive", !.count = @ - 1]
  /\ UNCHANGED <<tables, page, queue, threads, pool, faults, daemonVars, callVars,
                 events, starts, runs, ran>>

ExecProcessFails ==
  /\ exec.at = "process"
  /\ MayFail
  /\ \E n \in {0, 1} : exec' = [exec EXCEPT !.at = "interrupt", !.count = @ - n]
  /\ UNCHANGED tables
  /\ Beside

ExecArchive ==
  /\ ExecGoto("archive", "delete")
  /\ CanArchive({exec.atom})
  /\ ArchiveAtoms({exec.atom})
  /\ UNCHANGED <<jobStatus, jobTime, atomStatus>>
  /\ Beside

ExecArchiveRefused ==
  /\ ExecGoto("archive", "interrupt")
  /\ ~CanArchive({exec.atom})
  /\ UNCHANGED tables
  /\ Beside

\* Mutant: archive() forgets its DELETE.
ExecDeleteNothing ==
  /\ ExecGoto("delete", "count")
  /\ UNCHANGED tables
  /\ Beside

ExecDelete ==
  /\ ExecGoto("delete", "count")
  /\ DeleteAtoms({exec.atom})
  /\ UNCHANGED <<jobStatus, jobTime, archived>>
  /\ Beside

ExecInterrupt ==
  /\ ExecGoto("interrupt", "count")
  /\ UpdateAtoms({exec.atom}, "interrupted")
  /\ UNCHANGED <<jobStatus, jobTime, archived>>
  /\ Beside

\* if (oJob.pending()==0), after each atom: the job is finished, and after the
\* rest of the ResultSet the loop ends.
ExecCount ==
  /\ exec.at = "count"
  /\ IF exec.count = 0
       THEN /\ UpdateJob(exec.job, "finished")
            /\ exec' = [exec EXCEPT !.at = "next", !.atom = None, !.go = FALSE]
       ELSE /\ exec' = [exec EXCEPT !.at = "next", !.atom = None]
            /\ UNCHANGED jobStatus
  /\ UNCHANGED <<jobTime, atomStatus, archived>>
  /\ Beside

ExecutorStep ==
  \/ ExecSelect \/ ExecInsert \/ ExecRun \/ ExecLoad \/ ExecQuery
  \/ (\E a \in Atom : ExecNext(a)) \/ ExecNextIsOver
  \/ ExecProcess \/ ExecProcessFails
  \/ ExecArchive \/ ExecArchiveRefused \/ ExecDelete \/ ExecInterrupt \/ ExecCount

Fault ==
  /\ faults < MaxFaults
  /\ faults' = faults + 1

\* A statement fails.  In archive() the atom is interrupted ...
ExecArchiveFails ==
  /\ Fault
  /\ exec.at \in {"archive", "delete"}
  /\ exec' = [exec EXCEPT !.at = "interrupt"]
  /\ UNCHANGED <<tables, page, queue, threads, pool, sent, daemonVars, callVars,
                 events, starts, runs, ran>>

\* ... a failure of setStatus for the atom is ignored ...
ExecInterruptFails ==
  /\ Fault
  /\ ExecGoto("interrupt", "count")
  /\ UNCHANGED <<tables, page, queue, threads, pool, sent, daemonVars, callVars,
                 events, starts, runs, ran>>

\* ... and any other ends run(), as does a job that was deleted meanwhile.
ExecFails ==
  /\ \/ /\ exec.at = "insert" /\ Inserts(exec.job) # {} /\ ~HasRow(exec.job)
        /\ UNCHANGED faults
     \/ /\ exec.at = "load" /\ ~HasRow(exec.job)
        /\ UNCHANGED faults
     \/ /\ exec.at \in {"select", "insert", "run", "load", "query", "count"}
        /\ Fault
  /\ exec' = NoExecutor
  /\ UNCHANGED <<tables, page, queue, threads, pool, sent, daemonVars, callVars,
                 events, starts, runs, ran>>

\* The process of the web application, or of main(), dies.
ExecDies ==
  /\ Event("die")
  /\ exec.at # "off"
  /\ exec' = NoExecutor
  /\ UNCHANGED <<tables, page, dispatch, daemonVars, callVars, starts, runs, ran>>

ExecutorNext ==
  \/ Next /\ UNCHANGED <<exec, runs, ran>>
  \/ \E j \in Job : AutoRun(j) \/ RunJob(j)
  \/ ExecutorStep
  \/ ExecArchiveFails \/ ExecInterruptFails \/ ExecFails
  \/ ExecDies

\* The executor is a loop without waiting.  Nobody has to start the daemon, or a
\* second executor.
ExecutorSpec ==
  /\ ExecutorInit
  /\ [][ExecutorNext]_xvars
  /\ WF_xvars(ExecutorStep \/ ExecFails)
-----------------------------------------------------------------------------
(* Properties.                                                             *)

\* Executors and the daemon take the same pending atoms, and both send what both
\* have read.  But an executor adds one copy at the most, although it reads the
\* table again and again, dies anywhere and finds rows that others move, the daemon
\* adds one, and a statement that fails one more.
BoundedCopies ==
  \A a \in Atom : sent[a] <= runs + faults + (IF starts > 0 THEN 1 ELSE 0)

\* The counter of a thread's Job instance is the number of atoms that the job has
\* still to process, while the job is there, no executor was given it, and no
\* statement and no message has failed: with one thread nobody else counts.
CountBeside ==
  \A t \in Worker :
    at[t] = "finish" /\ job[t] \notin ran /\ HasRow(job[t]) /\ faults = 0 /\
    (\A a \in Atom : atomStatus[a] # "interrupted") =>
      pending[t] = Cardinality(OpenAtoms(job[t]))

\* An executor that found an atom to process ends with its job finished and nothing
\* of it left, unless something fails or dies or the daemon comes between: although
\* run() reads the table again after each round, the page that called it comes back.
ExecutorCompletes ==
  \A j \in Job :
    exec.at = "load" /\ exec.job = j /\ OpenAtoms(j) # {} ~>
      \/ exec.at = "off" /\ jobStatus[j] = "finished" /\ OpenAtoms(j) = {}
      \/ starts > 0 \/ faults > 0 \/ events > 0
      \/ \E a \in AtomsOf(j) : atomStatus[a] = "interrupted"

-----------------------------------------------------------------------------
(* What a comment of the code says of it, and a run refutes.               *)

\* SendMail.send: a new SingleThreadExecutor runs the job, or, without
\* bAutoRunJob, the scheduler does: not both.
OneOfThem ==
  "run" \notin Events => \A a \in Atom : JobOf[a] \in ran => sent[a] <= 1
=============================================================================
