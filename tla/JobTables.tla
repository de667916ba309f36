------------------------------ MODULE JobTables ------------------------------
(***************************************************************************)
(* The three tables that every part of the scheduler shares, k_jobs,       *)
(* k_job_atoms and k_job_atoms_archived, with the statements that the      *)
(* scheduler executes on them and the transactions of the web pages.  The  *)
(* scheduler runs with autocommit on, so that each of its statements is a  *)
(* transaction of its own; each web page below commits once.               *)
(***************************************************************************)
EXTENDS Naturals, FiniteSets

CONSTANTS
  Job,      \* GUIDs of jobs (k_jobs.gu_job)
  Atom,     \* keys of atoms (k_job_atoms.pg_atom)
  JobOf,    \* the job each atom belongs to (k_job_atoms.gu_job)
  Listed,   \* jobs whose tx_parameters name a gu_list: AtomFeeder inserts their atoms
  Late      \* recipients that a second message with the same job title adds

ASSUME JobTablesAssumption ==
  /\ IsFiniteSet(Atom)
  /\ JobOf \in [Atom -> Job]
  /\ Listed \subseteq Job
  /\ Late \subseteq Atom

VARIABLES
  jobStatus,   \* k_jobs.id_status
  jobTime,     \* k_jobs.dt_execution: not set, past, or still to come
  atomStatus,  \* k_job_atoms.id_status
  archived,    \* k_job_atoms_archived.id_status
  page         \* the atoms that the operator's browser shows, and what it offers

tables == <<jobStatus, jobTime, atomStatus, archived>>

NoRow  == "norow"    \* there is no such row
Gone   == "gone"     \* there was one, and its GUID is not used again
Status == {"aborted", "finished", "pending", "suspended", "running", "interrupted"}
Time   == {"null", "due", "later"}

HasRow(j)  == jobStatus[j] \in Status
AtomsOf(j) == {a \in Atom : JobOf[a] = j}

\* The statuses that keep a job open, both for Job.load and for the daemon.
Open == {"pending", "running", "suspended"}

OpenAtoms(j) == {a \in AtomsOf(j) : atomStatus[a] \in Open}

TablesTypeOK ==
  /\ jobStatus  \in [Job -> Status \cup {NoRow, Gone}]
  /\ jobTime    \in [Job -> Time]
  /\ atomStatus \in [Atom -> Status \cup {NoRow}]
  /\ archived   \in [Atom -> Status \cup {NoRow}]
  /\ page \in [offer : {"nothing", "suspend", "retry"}, atoms : SUBSET Atom]

TablesInit ==
  /\ jobStatus  = [j \in Job |-> NoRow]
  /\ jobTime    = [j \in Job |-> "null"]
  /\ atomStatus = [a \in Atom |-> NoRow]
  /\ archived   = [a \in Atom |-> NoRow]
  /\ page = [offer |-> "nothing", atoms |-> {}]
-----------------------------------------------------------------------------
(* Statements.  An UPDATE or a DELETE that matches no row changes nothing. *)

UpdateAtoms(S, status) ==
  atomStatus' = [a \in Atom |-> IF a \in S /\ atomStatus[a] # NoRow
                                THEN status ELSE atomStatus[a]]

InsertAtoms(S) ==
  atomStatus' = [a \in Atom |-> IF a \in S THEN "pending" ELSE atomStatus[a]]

DeleteAtoms(S) ==
  atomStatus' = [a \in Atom |-> IF a \in S THEN NoRow ELSE atomStatus[a]]

UpdateJob(j, status) ==
  jobStatus' = [jobStatus EXCEPT ![j] = IF HasRow(j) THEN status ELSE @]

\* (gu_job, pg_atom) is the primary key of k_job_atoms_archived, so INSERT ...
\* SELECT fails as a whole when one of the selected atoms is already there.
CanArchive(S) == \A a \in S : atomStatus[a] # NoRow => archived[a] = NoRow

ArchiveAtoms(S) ==
  archived' = [a \in Atom |-> IF a \in S /\ atomStatus[a] # NoRow
                              THEN atomStatus[a] ELSE archived[a]]

\* Neither Job.insertRecipients nor AtomFeeder.loadStaticList inserts an address
\* which the job already has, pending or archived.
NewAtoms(S) == {a \in S : atomStatus[a] = NoRow /\ archived[a] = NoRow}
-----------------------------------------------------------------------------
(* The web pages and the clock.                                            *)

\* A message for many recipients: the job and its atoms in one transaction.
SendMail(j, time) ==
  /\ jobStatus[j] = NoRow
  /\ j \notin Listed
  /\ jobStatus' = [jobStatus EXCEPT ![j] = "pending"]
  /\ jobTime' = [jobTime EXCEPT ![j] = time]
  /\ InsertAtoms(NewAtoms(AtomsOf(j) \ Late))
  /\ UNCHANGED <<archived, page>>

\* A second message with the title of an existing job adds recipients to it,
\* whatever the status of the job.
AddRecipients(j) ==
  /\ HasRow(j)
  /\ j \notin Listed
  /\ NewAtoms(AtomsOf(j) \cap Late) # {}
  /\ InsertAtoms(NewAtoms(AtomsOf(j) \cap Late))
  /\ UNCHANGED <<jobStatus, jobTime, archived, page>>

\* A job that names a list is created alone; its atoms come with loadAtoms.
CreateListJob(j, time) ==
  /\ jobStatus[j] = NoRow
  /\ j \in Listed
  /\ jobStatus' = [jobStatus EXCEPT ![j] = "pending"]
  /\ jobTime' = [jobTime EXCEPT ![j] = time]
  /\ UNCHANGED <<atomStatus, archived, page>>

\* job_viewatoms.jsp, filtered by a status: the page offers to suspend pending
\* atoms, and to retry suspended or interrupted ones.
ViewAtoms(j, status) ==
  LET shown == {a \in AtomsOf(j) : atomStatus[a] = status}
  IN /\ status \in {"pending", "suspended", "interrupted"}
     /\ shown # {}
     /\ page' = [offer |-> IF status = "pending" THEN "suspend" ELSE "retry",
                 atoms |-> shown]
     /\ UNCHANGED tables

\* The form comes back with atoms of the page: what it showed may be stale, and
\* the statements name the atoms by their key only.
SuspendAtoms(S) ==
  /\ page.offer = "suspend"
  /\ S \subseteq page.atoms
  /\ UpdateAtoms(S, "suspended")
  /\ UNCHANGED <<jobStatus, jobTime, archived, page>>

RetryAtoms(j, S) ==
  /\ page.offer = "retry"
  /\ S \subseteq page.atoms \cap AtomsOf(j)
  /\ UpdateAtoms(S, "pending")
  /\ UpdateJob(j, "pending")
  /\ UNCHANGED <<jobTime, archived, page>>

\* job_recycle.jsp: retry all that failed; a running job keeps its status.
RecycleJob(j) ==
  /\ HasRow(j)
  /\ UpdateAtoms({a \in AtomsOf(j) : atomStatus[a] = "interrupted"}, "pending")
  /\ IF jobStatus[j] = "running"
       THEN UNCHANGED <<jobStatus, jobTime>>
       ELSE /\ UpdateJob(j, "pending")
            /\ jobTime' = [jobTime EXCEPT ![j] = "null"]
  /\ UNCHANGED <<archived, page>>

\* job_update.jsp, the form of job_delay.jsp: another date, or none, whatever the
\* status of the job has become meanwhile.
DelayJob(j, time) ==
  /\ HasRow(j)
  /\ jobTime' = [jobTime EXCEPT ![j] = time]
  /\ UNCHANGED <<jobStatus, atomStatus, archived, page>>

\* job_delete.jsp calls the stored procedure k_sp_del_job.
DeleteJob(j) ==
  /\ HasRow(j)
  /\ jobStatus' = [jobStatus EXCEPT ![j] = Gone]
  /\ DeleteAtoms(AtomsOf(j))
  /\ archived' = [a \in Atom |-> IF a \in AtomsOf(j) THEN NoRow ELSE archived[a]]
  /\ UNCHANGED <<jobTime, page>>

\* The scheduled moment of a job comes.
TimePasses(j) ==
  /\ jobTime[j] = "later"
  /\ jobTime' = [jobTime EXCEPT ![j] = "due"]
  /\ UNCHANGED <<jobStatus, atomStatus, archived, page>>
=============================================================================
