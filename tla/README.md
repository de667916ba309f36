# Verification of hipergate: scheduler, connection pool, caches, event daemon

This directory holds TLA+ models of parts of hipergate, a CRM written in Java
(`src/src/com/knowgate`) with a JSP application (`src/src/webapp`) and a
relational database that keeps nearly all of its state. Most of the code is one
transaction after another: a page or a bean loads a row, changes it and stores
it. What is hard to test is in the few packages with threads, timers, caches or
several processes on the same rows. This project models those, most important
first: the scheduler, which sends the mailings; the pool of database connections
that every page and every thread takes its connection from; the executor that a
page may run beside the scheduler; the cache that the web servers share and the
list of recently used entries below it; and the servlet that starts and stops the
scheduler and the event daemon.

## 1. Inventory

| Component | State | Operations | Interacts with |
|---|---|---|---|
| **Scheduler daemon** `scheduler/SchedulerDaemon` | `bContinue`, the DBBind, pool, queue and feeder it created | `run`, `abortJob`, `haltAll`, `stopAll` | tables, feeder, pool; called by the servlet and by `main` |
| **Atom feeder** `scheduler/AtomFeeder` | batch size | `loadAtoms`, `loadDynamicList`, `loadStaticList`, `feedQueue` | tables, queue |
| **Queue and consumer** `AtomQueue`, `AtomConsumer` | linked list of atoms | `push`, `pop`, `remove`, `next`, `close` | feeder, threads, `abortJob`, tables |
| **Worker threads and pool** `WorkerThread`, `WorkerThreadPool` | per thread: atom, Job instance, `bContinue`, alive or not | `run`, `halt`, `launchAll`, `livethreads`, `runningJobs`, `haltAll`, `stopAll` | consumer, Job, Atom, tables |
| **Job and Atom rows** `Job`, `Atom` | `k_jobs`, `k_job_atoms`, `k_job_atoms_archived`; `iPendingAtoms` of each Job instance | `load`, `instantiate`, `create`, `setStatus`, `abort`, `insertRecipients`, `process`; `setStatus`, `archive` | everybody |
| **Job processors** `scheduler/jobs` | nothing that outlives one atom | `process`, `free` | mail, file, FTP and SMS servers |
| **Job pages** `webapp/jobs`, `hipermail/SendMail` | the page in the browser | send, view, suspend, retry, recycle, delay, delete | tables |
| **Single thread executor** `SingleThreadExecutor` | current job and atom, `bContinue` | `run`, `stop` | tables, beside the daemon; called by `SendMail` and `main` |
| **Event daemon** `EventDaemon`, `Event` | the futures and the DBBind of a daemon; static: active events, instances | `run`, `close`, `triggerAtFixedSeconds`; `getEvent`, `trigger`, `reset` | `k_events`, pages, the scheduler daemon when it starts |
| **Servlet** `http/HttpSchedulerServlet` | one scheduler daemon, one event daemon | start, restart, reload, stop, abort, info | the two daemons |
| **JDBC pool** `jdc/JDCConnectionPool` with its `ConnectionReaper`, `JDCConnection` | connections, leases, `openconns`, limits | `getConnection`, `returnConnection`, `disposeConnection`, `reapConnections`, `closeConnections` | every user of DBBind, reaper thread |
| **Distributed cache** `cache/DistributedCachePeer`, `webapp/cache/server.jsp` | each web server: objects with time stamps; coordinator: a time stamp for each key | `get`, `put`, `expire`, `expireAll` | pages; the coordinator over HTTP |
| **LRU cache** `cache/LRUCachePolicy` | a map and a doubly linked list of its entries | `get`, `insert`, `remove`, `flush` | the threads of a web server, without a lock |
| **In-memory and JMS queues, semaphore** `ramqueue`, `jmsqueue`, `multithreating` | a list and its monitor | `send`, `receive`, `acquire`, `release` | see section 6 |
| Data objects, data copy, business objects, mail client, storage, indexing, formatting, web pages, third-party code | rows, files | load, store, delete | database, libraries |

The behaviours that are hard here, with the places where they bite, are listed
as hazards in PROJECT.json. The most important ones:

* *interleaving*: the feeder, several worker threads, the calls of other threads,
  an executor and web pages write the same rows without transactions or locks
  between their statements; the cache and the event daemon have no locks at all;
* *stale state*: `feedQueue` pushes a snapshot, `run` finishes jobs from a
  snapshot, each Job instance counts down a number read when it was loaded, a
  page updates by key what it showed earlier, a slow page puts in the cache what it
  had read before a change, and an instance of an event keeps a DBBind that is closed;
* *failure*: a message is sent before its row is moved, so a process that dies or
  a statement that fails leaves the two in disagreement; some catch clauses go on
  and some end the thread;
* *ordering*: jobs are finished before lists are loaded; batches are limited; the
  coordinator reads its clock before it records the stamp;
* *termination*: the daemon must see that a thread ended, `stopAll` must end it
  wherever it is, the executor and `flush` loop until a count or a list is empty.

What makes each component right:

* scheduler: no message twice; no message forgotten; a finished job has nothing
  left to do; an aborted job too; a row is in one table; a stopped daemon stops;
* connection pool: a connection has one holder; never more than the hard limit;
  the count of open connections is the number of them; the reaper takes only what
  is free or abandoned; a closed pool gives nothing;
* executor beside the daemon: each adds one copy of a message at the most; the page
  that runs it comes back;
* distributed cache: a server does not go on with an object that another has
  replaced, and never goes back to an older one;
* LRU cache: the list is whole, the map has what the list has, and what goes is what
  was used least recently;
* servlet and event daemon: what was started can be stopped; the active events are
  the ones that are scheduled, and they work.

## 2. Plan

Done: the scheduler (`JobTables`, `AtomDispatch`, `SchedulerDaemon`, `Mailing`), the
connection pool, the executor, the distributed cache, the LRU cache with the
order it promises, the event daemon with its servlet; and proofs of every safety
invariant that the runs check.

Left, most important first:

1. Two requests of the servlet at a time, and two scheduler daemons on one database,
   which a restart may leave when the threads of the old one outlive `stopAll`.
2. More proofs: every step of the LRU cache is one of `RecencyCache`; the pool
   implements an abstract `Leases`, in which a connection is somebody's or nobody's;
   what a finished job rests on when recipients are added to it.

## 3. Modules

| Module | Models |
|---|---|
| `JobTables` | the three tables, the SQL statements on them as operators, the transactions of the pages, the clock |
| `AtomDispatch` | `AtomQueue`, `AtomConsumer`, `WorkerThread`, `WorkerThreadPool` and `Job.process` |
| `SchedulerDaemon` | `SchedulerDaemon.run` with `AtomFeeder`, `abortJob`, `haltAll`, `stopAll`, process starts and deaths; composes the two above; the properties |
| `Mailing` | what the scheduler promises: each accepted message is delivered once, or withdrawn |
| `SchedulerInvariants` | the inductive invariants of the scheduler, and the conditions they hold under |
| `SchedulerProofs` | types, proved |
| `SchedulerOnceProofs` | nothing is sent twice, proved; what one copy of each atom rests on |
| `SchedulerRowsProofs` | one place of each atom, what becomes of rows and jobs, and the steps of `Mailing`, proved |
| `MCScheduler` | the instances of the scheduler for TLC |
| `SingleThreadExecutor` | `SingleThreadExecutor.run`, beside `SchedulerDaemon`; the properties |
| `ExecutorInvariants` | its inductive invariants |
| `ExecutorProofs` | types, the number of copies and the counter of a thread beside it, proved |
| `MCExecutor` | its instances |
| `ConnectionPool` | `JDCConnectionPool`, `JDCConnection`, `ConnectionReaper`, as their clients and the administrator call them; the properties |
| `PoolProofs` | the safety properties of the pool, proved |
| `MCPool` | the instances of the pool for TLC |
| `DistributedCache` | `DistributedCachePeer` in several web servers and `server.jsp`, as the pages call them; the properties |
| `CacheProofs` | the properties of the distributed cache, proved |
| `MCCache` | its instances |
| `RecencyCache` | what an LRU cache promises: a sequence of keys in the order of use |
| `LRUCache` | `LRUCachePolicy` with its linked list, called by several threads; implements `RecencyCache`; the properties |
| `LRUProofs` | types, the list and the map, proved |
| `MCLRU` | its instances |
| `EventDaemon` | `EventDaemon`, the static part of `Event`, and the pages that use it |
| `SchedulerServlet` | `HttpSchedulerServlet`, which composes the event daemon with the life of the scheduler daemons; the properties |
| `ServletProofs` | the properties of the servlet and the event daemon, with their inductive invariants, proved |
| `MCServlet` | its instances |

### State of the scheduler

`jobStatus`, `jobTime`, `atomStatus` and `archived` are the columns that the
scheduler reads or writes. `NoRow` stands for a row that is not there; a deleted
job is `Gone`, because GUIDs are not used again. Dates are reduced to what the
queries tell apart: none, past, to come. `page` is the last list of atoms that an
operator's browser shows. `queue` is the linked list of `AtomQueue`. Each thread
has a place `at`, its `atom`, the `job` of the Job instance it keeps, the counter
`pending` of that instance and `halted`. `pool` says whether the DBBind still
gives connections, `sent` counts the calls of `process` that delivered an atom.
`daemon` is the place of `SchedulerDaemon.run`, `todo` and `current` are the
ResultSet or collection it goes through and the element of this round; `abort`,
`stop` and `toStop` are the local variables of the calls of other threads.

### Actions of the scheduler

The scheduler runs with autocommit on, so each SQL statement is a step. Steps of
different threads interleave freely, except that `AtomConsumer.next` is
synchronized (from `Pop` to `Mark` there is one thread inside). What Java keeps
under one monitor, or in local variables nobody else sees, is part of the same
action as the statement before or after it.

* One round of the daemon is `FinishSelect`, a `FinishUpdate` for each job,
  `Count`, then `LoadSelect`, `LoadInsert` and `LoadRun` for each job, `LoadDone`,
  then `FeedQuery`, `FeedPush` and `FeedMark` for each atom, `FeedDone`, a `Launch`
  for each thread, `LaunchDone` and `Watch`. When `bContinue` is false it ends by
  `Leave`, `Drain`, `DrainDone`, `ResetAtoms`, `ResetJob`, `ResetDone`, `Close`. Any
  exception is `Fatal` (or `LoadRefused`, the foreign key).
* One round of a thread is `Pop`, `Mark`, `Load`, `Process`, `ArchiveInsert`,
  `ArchiveDelete`, `Finish`; `PopNothing` and `LeaveHalted` end the thread. The
  catch clauses are `ArchiveRefused`, `ProcessFails`, `ArchivingFails`,
  `Interrupt` and the actions whose names end in `Fails` or `NoConnection`.
* `abortJob` removes the atoms from the queue (`AbortCall`) and executes four
  statements; `stopAll` sleeps, stops the threads one by one and closes the DBBind;
  `haltAll` raises the flags, waits and closes it.
* The environment is `Web` (pages and clock) and `Crash`.

Code outside `src/src/com/knowgate/scheduler` enters as far as the scheduler uses
it: `DBBind.getConnection` gives null once it is closed; the database keeps
primary and foreign keys; a statement may fail.

### State and actions of the pool

A session is a connection to the database server. Sessions are numbered as they
are opened, and as `addElement` appends and `removeElement` keeps the order, the
order of the numbers is that of the Vector `connections`; a set is enough.
`session` is what the server knows: open, closed, `"stuck"` (its `close()` throws),
`"direct"` (opened while the pool is turned off, with `pool == null`). `lease` is
`inuse` with `timestamp`: `Free` or the age of the lease. `pc` and `held` are where
a client is and the connection it still has a reference to. `admin` is the call in
progress of the administrator, with the position of its enumeration; `made` is a
history variable, which says what kinds of calls were made, so that a property can
say up to which call it holds.

The monitor of the pool makes `getConnection` (`Lease`, `OpenNew`, `Refuse`,
`OpenDirect`), `close` (`Close`, `CloseAgain`), and a whole sweep of the reaper
(`Reap`) one step each. What takes the monitor twice is two steps: `dispose` is
`DisposeReturn` and `DisposeEnd`, the setters are their sweep and their assignment.
`closeConnections` holds no monitor: `HasMoreElements`, `NextElement`,
`CloseElement`, and at the end `Clear` and `Zero`, with every other action in
between. `Swept` says what one sweep reaches: an enumeration of a Vector that loses
the element at hand passes over the next one.

Clients do what callers of the repository do. Most close once. `AtomConsumer.next`
closes twice after a failed UPDATE. Pages call `disposeConnection` of
`methods/dbbind.jsp` instead of `close`, and some, such as
`forums/msg_edit_store.jsp`, call it after `close` when the indexer they call
next fails. The administrator's calls are `closeConnections` (from
`admin/connectionpool.jsp`, and at every login of the administrator,
`common/login_chk.jsp:172`), `close` (from `DBBind.close` and `restart`),
`setPoolSize` and `setMaxPoolSize` (`SchedulerDaemon.java:228`), and
`setReaperDaemonDelay(0)` (`SingleThreadExecutor.java:295`).

### State and actions of the executor

`exec` is the whole of a `SingleThreadExecutor`: where `run` stands, its job, the
counter of its Job instance, what its ResultSet has left, the atom at hand and
`bContinue`. `AutoRun` is a message with `bAutoRunJob`: the page creates the job
suspended and its atoms pending, commits, and runs the executor. `RunJob` is
`main()`. One round is `ExecSelect`, `ExecInsert` for each recipient of a list,
`ExecRun` (`AtomFeeder.loadAtoms(conn, job)`), `ExecLoad` (the Job instance and its
counter), `ExecQuery`, and for each row `ExecNext`, `ExecProcess`, `ExecArchive`,
`ExecDelete`, `ExecCount`; `ExecInterrupt` and the actions in `Fails` are its catch
clauses. The module extends `SchedulerDaemon`: every step of the scheduler goes on
beside it, on the same tables.

### State and actions of the distributed cache

An object is the version of the data that its page had read. `cache` is the
`LRUCachePolicy` and the stamps of each peer, `stamps` the `TreeMap` of the
coordinator, `clock` its clock, and `call` where each thread of each server stands.
`get` is `Get`, `Ask` (the request to the coordinator), and `Hit` or `Outdated`; it
reads the entry, the stamp of the coordinator and the stamp of the entry in three
steps. A page that misses reads the data (`Load`) and puts them: `Stamp` (the
coordinator reads its clock), `Forget` and `Record` (it removes the old stamp and puts
the new one), `Insert`. A page that changes the data is `Store`, `Expire`, `Remove`;
`expireAll` goes through the keys. `CallFails` is an exception of the HTTP request,
`CoordinatorRestarts` and `PeerRestarts` lose what was in memory.

`seen`, `crossed` and the field `late` are history variables: the newest version that
a peer had, the keys that two threads were stamping at a time, and whether the data
had changed again when an object entered the cache. So are the fields `own` and `newer`
of a call: what `seen` was when its `get` began, and the newer objects that servers had
when the coordinator answered it.

### State and actions of the LRU cache

`map` is the `HashMap`; `entry` holds the three fields of each `LRUCacheEntry`, and
`head`, `tail`, `count` those of the list. An entry is a key with a number (`Copy`),
as an old and a new entry of a key may be there at a time. `get` is a lookup and
`Promote`; `insert` is `Demote`, the removal of the victim (`Find`, `Unlink`,
`Forget`), `Add` and `Put`; `remove` the same three; `flush` is `FlushTail` and a
removal, again and again. `ToFront`, `AddFirst` and `Takes` are `promote` and
`remove` of the list with all their cases. Each operation of the map or of the list
is one step, and threads come in between.

When two calls cross on an entry, the code goes on with a list that is damaged.
`raced` says that it has happened, and the model ends there.

### State and actions of the event daemon and the servlet

`known` and `cached` are the static maps of `Event`, which every daemon and every
page of the web application shares: the active events and, of each event, the
DBBind that its instance was made with. `handler` is `aRunHandlers` of each daemon,
`bind` its DBBind. A future is identified with the DBBind of its instance, because
that decides whether it works: `Event.run` asks it for a connection. `skipped`
is a history variable, the events that the last run went on without because their
instance could not be got.

`plan` says what is left of a request, as a sequence of steps that each handler
replaces by what it does next; the exceptions that leave `doGet` empty it. A start is
`Create`, then `NewEvents` and `RunEvents`, or nothing if a daemon is there; a restart
is a stop of the scheduler, `CloseEvents` and `RunEvents` on the old daemon, `Create`,
and the same again with a new one; a reload closes and makes a new one; a stop closes
and forgets it (`DropEvents`). `StopFails`, `CreateFails`, `NewEventsFail`, `RunFails`
are what they catch. `RunEvents` reads the table and goes through its rows: for each,
`Look`, and if nobody has read the active events, `Know` (an empty map) and `Fill` (its
rows), then `Instance`, which schedules it. `GivesUp` and `InstanceFails` are the
exceptions that the loop of `run` swallows row by row (`EventDaemon.java:166`): the maps
cannot be filled, or the cache of instances or the query that loads this event throws
(`Event.java:336-346`), and the loop goes on without it. A page that triggers an event
(`TriggerPage`) does the same, and so does the thread of a scheduler daemon when it
begins (`Reads`). `StorePage`, `Reset` and `StoreFails` are `events_store.jsp`.

### Simplifications to know about

* An atom belongs to one job and its key is not used again. `Atom` lists all the
  keys that may ever exist; rows appear when a page or the feeder inserts them.
* `process` is one step. It delivers once or throws before delivering; a message
  that was delivered to the server and reported as failed is not distinguished.
* A database error is anywhere a statement is, at most `MaxFaults` times.
* A process is started when no thread of the one before lives, and nobody starts
  two daemons on one database. The servlet's restart can break that: it is in the
  plan.
* `dt_execution` of the daemon's own updates is "due" or "null"; `dt_finished`,
  messages of the log, trace files and callbacks are left out.
* `runningJobs` is modelled as it is written: it returns nothing.
* The pool: opening a session succeeds, and the server ends none by itself. One
  call of the administrator is in progress at a time. After `DBBind.close` no client
  begins anything; those that have a connection go on.
* The distributed cache takes each operation of the `LRUCachePolicy` and of the
  `TreeMap` as atomic, and lets a full peer lose any entry. The clock of the
  coordinator does not go back.
* Of the LRU cache, a single operation of the map or of the list is not interrupted.
* Of the event daemon, an operation on a map is not interrupted, its cache of
  instances loses nothing, and that an event runs is no step, as it only touches the
  database. The event that a scheduler daemon triggers when it starts has no fixed
  rate. Requests of the servlet come one after the other.

## 4. What TLC checks

The runs of the scheduler use `MCScheduler`. Bounds that each of them names: the sets
`Job`, `Atom`, `Worker`; `MaxBatch` (`iMaxBatchSize`), `MaxFaults` (database errors),
`MaxEvents` (what people and other threads do), `MaxStarts` (starts of the process).

| Run | Instance | Shows |
|---|---|---|
| `scheduler_delivery` | 2 threads, 2 jobs with 1 and 2 atoms, batch of 2, dates, 1 deletion or change of a date | types; a finished job has nothing open (`FinishedIsComplete`); a running row is held by somebody (`RunningIsTracked`); every pending atom is archived (`Delivery`); every job ends (`JobsEnd`); the whole implements `Mailing` |
| `scheduler_restart` | 2 jobs, one of a list, 3 atoms, one of them added later, failing messages; 2 of crash, halt, delete, add; 3 starts | nothing is sent twice (`AtMostOnce`) |
| `scheduler_calls` | 1 job, 2 atoms; `abortJob` or `stopAll`, 1 error, failing messages | an aborted job stays empty (`AbortedIsEmpty`); one copy of each atom (`SingleHolder`); `stopAll` ends daemon and threads (`StopEnds`) |
| `scheduler_operator` | 1 job, 2 atoms, one added later; 3 of view, suspend or retry, recycle, add; 1 error | no row is lost (`RowsAreArchived`) or, without errors, left in both tables (`ArchivedOnce`); what the archive calls sent was sent (`StatisticsCountSent`) |
| `lists_are_loaded` | a list | **violated**: the job of a list is finished before its atoms exist |
| `executor` | 1 job, 2 atoms, 1 thread, 1 start, 1 executor, 1 error, 1 of delete, die, run | types; a message goes out once for the daemon, once for each executor and once for each error at the most (`BoundedCopies`); the counter of a thread is right while no executor works on its job (`CountBeside`); `run` ends with its job finished (`ExecutorCompletes`) |
| `executor_twice` | the same without errors or events | **violated**: the daemon sends what the executor of the page sends |
| `pool_clients` | 2 clients, 3 sessions, leases of 1 unit, limits 0 to 3, 1 call of the administrator, 1 session that cannot be closed | types; no connection has two users (`OneUser`); only a lease that is too old is ended (`EndedOverdue`); the count, the limit and the refusals are right (`CountIsSize`, `LimitIsKept`, `RefusedAtLimit`); no session is forgotten (`NothingForgotten`) or stays open unused (`IdleIsClosed`) |
| `cache_peers` | 2 servers with 1 slot, 3 threads, 2 keys, 2 pages at a time, 2 milliseconds, 1 change of the data, 1 failure or restart | types; no entry is newer than the coordinator knows (`NeverAhead`); an older object stays for one of four reasons only (`StaleHasReason`); no peer goes back to an older one (`NeverBack`); what `get` returns is not older than what its server had when it began, and older than what another server had for a reason only (`HitHasReason`) |
| `expire_notifies` | the same without failures | **violated**: other peers go on with an object that was expired |
| `lru_calls` | 2 threads, 4 keys, 3 slots | types; the list is a chain in both directions (`Whole`); the map has what the list has (`MapIsList`); the whole implements `RecencyCache` (`KeepsOrder`); a flush ends (`FlushEnds`) |
| `servlet_requests` | 3 requests or pages, 2 pages at a time, 2 events, 1 change of the table, 1 failure | types; no scheduler, future or DBBind is left where nobody can end it (`OneScheduler`, `NothingLeaks`); the scheduled events are the active ones whose instance could be got (`ActiveAreScheduled`); a scheduled event gets connections (`WorkUnlessReused`) |

Two threads, two jobs and a batch smaller than the atoms that wait are the
smallest instance where threads share a job, a thread changes its Job instance,
the batch leaves atoms behind and the feeder works while threads do. Two threads
on one job are enough for each race on its rows, as every such race is between
two writers. One deletion, or one change of its date,
meets each place where the job's rows are read before they are used. Two events and three starts in `scheduler_restart` allow a second
crash after a first recovery, or a crash after a halt or a deletion.

The executor is one more writer beside one thread of the daemon; one executor and
one start are the two that may process an atom, and an error is a third copy.

The runs of the pool use `MCPool`; their bounds are the set `Client`, `MaxSessions`
(sessions ever opened), `MaxAdmin` (calls of the administrator), `MaxBreaks`
(sessions whose `close()` fails), and `Timeout`, in units between two sweeps. A
connection passes between two users at a time, and a third session is what is
opened when one of two was closed or skipped; limits of 1 and 2 let two clients
meet the limit or not. A `Timeout` of 1 has a lease that is new, one that is as old
as the limit allows and one that is too old. One call of the administrator meets
every state of the clients, piece by piece; a setter matters once, as it assigns.

In the distributed cache one server has two threads and the other one, so that two
pages meet inside a server and in two servers. Two keys in one slot make every insert
of the second let the first go. The properties compare two stamps and two versions,
and two milliseconds give equal and different stamps. With one slot `expireAll` never
has a second key to go on to (the `ConcurrentModificationException` of line 625 is
not reached); the proofs hold for every capacity.

Three slots are the smallest list with an entry that is neither head nor tail, and a
fourth key makes an insert let one go. An old and a new entry of a key are there at a
time only while two threads are at it: two numbers (`Copy`) are enough.

Three requests of the servlet have a start, something that fails or a change of the
table, and what comes after; pages and the scheduler's thread come in between.

### Where a property stops being true

Each property is checked where the code keeps it. Outside it, TLC gives a
counterexample; these are the limits a user of the scheduler should know:

* `AtMostOnce` fails after `stopAll`, whose clean-up makes the atoms that are being
  processed pending again; with an error and a crash, because `next` swallows a
  failed UPDATE; and when a retry from a stale page meets a recycled job.
* `SingleHolder` fails with a stale retry and a recycle.
* `FinishedIsComplete` fails as soon as messages fail, because threads that count
  a failed atom and threads that do not reach zero at different times, and after
  abort, stop or recycle.
* `RunningIsTracked` fails after a crash, a halt, an abort or a failed message:
  rows that were running stay so, and no start of the daemon takes them up. The
  feeder also makes an atom running again that a thread has interrupted between its
  push and its UPDATE.
* `AbortedIsEmpty` fails for the job of a list: the feeder inserts atoms of the list
  while `abortJob` is under way. When the archive has an atom of the job already,
  `abort` ends in the middle, with the atoms aborted and the job as it was.
* `StatisticsCountSent` fails after an abort, because the feeder may set an atom
  running between the UPDATE of the abort and its INSERT into the archive.
  `ArchivedOnce` fails after an error between INSERT and DELETE, and after `stopAll`.
* `Delivery` fails when a deleted job of a list ends the daemon (`LoadRefused`),
  and for a recipient that is added to a job that is finished: it waits until
  some other job is active.
* With two threads each Job instance counts only its own atoms, and `loadAtoms` sets
  a job to running that a thread has finished meanwhile.
* `haltAll` and `stopAll` mean to suspend or interrupt the running jobs and change
  none, as `runningJobs` always returns an empty list. A job may start before its date
  once another one is active.

Of the executor:

* `ExecutorCompletes` names what ends it otherwise. When a message fails and its
  processor does not count it down, when an atom is suspended, when the daemon takes
  some of the atoms or the list is empty, the loop of `run` goes on for ever, and sets
  the job running in every round.
* `CountBeside` fails when an executor was given the job: a thread that loads its
  instance after the executor archived an atom it still processes finishes the job
  while another atom is pending.
* When `archive` fails and then `setStatus` too, each round of the loop sends the
  message again.

The properties of the pool name their limits themselves, by what is in `made`.
TLC gives a counterexample when one of these exceptions is left out:

* `OneUser` fails when a connection is closed twice: the second call returns the
  connection of whoever leased it meanwhile, and a third client gets it too.
* `EndedOverdue` fails after that, and after a disposal: between its two halves
  another client may lease the connection, which is then closed under it.
* `CountIsSize` and `LimitIsKept` fail after a disposal: when the reaper comes
  between the two halves the session is counted down twice, and `openconns ==
  hardlimit` is met one session too late, or never when the count is negative. They
  fail too after `closeConnections`, which sets the count to 0 without the monitor,
  and `LimitIsKept` when the limit is lowered below the count, which the equality
  then never meets.
* `NothingForgotten` fails after `closeConnections`. It removes while it enumerates,
  so it closes every other connection, and then clears the Vector: the rest stay open
  and in no list, although its comment says it closes "all connections from the pool
  regardless of their current state".
* `IdleIsClosed` excludes sessions that cannot be closed and a pool whose reaper was
  stopped. It says nothing of a direct session, which nobody closes when its page
  calls `dispose` (there is no pool to give it to).

Of the caches:

* `StaleHasReason` lists the four ways an old object stays valid. The first is that the
  coordinator has no stamp, and that is ordinary use: `expire` removes the stamp instead
  of raising it. It has none either after it has started again, and for a moment in
  every put, between the `remove` and the `put` of `server.jsp`. The others are two
  puts in one millisecond, a slow page, and two threads in the unsynchronized
  `server.jsp`, where the older stamp may be recorded last (`crossed`; `NeverAhead`
  excludes it too).
* Every fill is a "modify" at the coordinator: two servers that read the same unchanged
  object outdate each other. That costs queries, no property.
* `HitHasReason` has the same reasons for what a page is given, and a fifth: `get` reads
  the object, asks the coordinator, and reads the stamp of whatever entry is there then.
  When another page of the server has put a later object between, its stamp passes the
  comparison and the page gets the object that the coordinator knew to be outdated. TLC
  gives a counterexample when that reason is left out. What a server itself had before
  the `get` began it never gives an older version of, unless a slow page put one.
* `Whole`, `MapIsList` and `KeepsOrder` hold until two calls cross (`raced`). Then a
  `get` links an entry again that a `remove` has taken out, in no map and never to be
  removed; two inserts of one key leave an entry in the list that the map does not
  have, and `flush` loops on it for ever; and `remove` may delete the entry of a later
  insert from the map.

Of the servlet and the event daemon:

* `ActiveAreScheduled` fails when somebody else is at the maps of `Event` ("mixed"),
  and that is so in an ordinary start: `SchedulerDaemon.run` triggers its start event
  (line 225) while `doGet` runs the event daemon. The thread that finds the field null
  assigns an empty map and fills it afterwards (`Event.java:275`); the other one finds
  no event in it, and schedules none. Nothing but a reload repairs it. When the query
  that fills the map fails, or the thread is stopped in it, not even that: the map stays
  empty until `events_store.jsp` calls `Event.reset()`.
* `ActiveAreScheduled` also leaves out the events in `skipped`: one statement that fails while `run`
  loads an event leaves that event unscheduled until the next reload, with a line in the
  trace at most. What it states is that the failure is contained, in that the others are
  scheduled.
* `WorkUnlessReused` fails without its exception after two reloads, or a stop and a
  start: the instances in the cache keep the DBBind that `close` has closed, and what
  is scheduled then is such an instance. It gets no connection, and fails whenever it is
  due: `Event.run` (lines 131-146) catches every exception and logs it, so the executor
  service runs it again and again, to no effect.
* A restart does nothing at all when the scheduler daemon died before it had a thread
  pool, since `stopAll` throws; a stop forgets the daemon then but leaves the events.
* Two requests of the servlet at a time, which the model excludes, may each find a
  null field and make a daemon: one of them stays without a reference, with its
  threads, its futures and its DBBind. The thread of the executor service of a closed
  event daemon is never ended either.

### Fairness

In `SchedulerDaemon`, `Spec` states weak fairness of the daemon's step, of each thread, of the calls in
progress, of the start and of the clock. The threads are Java threads that the
scheduler of the virtual machine runs, and no step of theirs waits for a condition
that others can make true and false again for ever: `next` is the only monitor,
and the thread inside leaves it by one statement. Nothing has to happen that
people decide (`SendMail`, `CreateListJob`, the events), and no fault has to
happen: fault steps are under the same fairness as the steps they replace, and
are alone enabled only when the pool is closed. Delivery and the end of jobs are
checked without failing messages and without errors.

In `SingleThreadExecutor`, `ExecutorSpec` states weak fairness of the executor alone:
it is a loop without waiting, and its property does not need the daemon to move.

In `ConnectionPool`, `Spec` states weak fairness of the reaper, which is a loop of
`sleep` and a sweep, of time, of the administrator's call in progress and of the
second half of a disposal. All of them wait for nothing but a monitor that every
holder leaves. Clients have no fairness: `IdleIsClosed` must hold of a client that
never gives its connection back.

In `LRUCache` a thread inside a call goes on (weak fairness of its steps); nobody has
to begin one. `DistributedCache` and `SchedulerServlet` state no fairness, as their
properties are safety properties.

## 5. What is proved

* `SchedulerProofs!TypeCorrect`: `Spec => []TypeOK`, for every value of the
  constants that satisfies the three assumptions of the modules (finite atoms and
  threads, `None` outside them, a batch of at least one, numbers as bounds). `TypeOK`
  is not inductive: a step that reads `atom[t]` needs an atom there, and `FeedMark`
  needs room in the batch. `Placed` adds both, and `TypeInv == TypeOK /\ Placed` is
  preserved by every action.
* `SchedulerOnceProofs!SentOnce`: `Spec => []AtMostOnce` under `Quiet`, which says
  that no statement fails and that nobody aborts, stops, retries or recycles (the
  cases listed above). Crashes, restarts, halts, deletions, added recipients,
  failing messages, lists and dates are all allowed.
* `SchedulerOnceProofs!OnceAlways`: `Spec => []OnceInv` under the same condition, the
  inductive invariant that it rests on.

`OnceInv` (in module `SchedulerInvariants`) is the argument. That nothing is sent twice has to be said of what *will* be sent: what is in the queue
or at a thread before `Process` was never sent (`Unsent`) and is there once
(`OneCopy`). The feeder must not push an atom that is still somewhere: a pending
row is free, except between `FeedPush` and `FeedMark` (`PendingIsFree`), and what
the feeder's snapshot has left is free too (`Snapshot`), although rows change under
it. For that, a row must not become pending again: it leaves `pending` by `FeedMark`
at the latest, threads leave it behind at `Mark` (`Marked`), and pages and lists
insert only keys that were never there, since what was ever taken or sent is
still in a table or its job is gone (`Remembered`, and `Copied` for the moment
between the INSERT and the DELETE of `archive`). The proof shows first that every
step keeps the rows (`RowsKept`), then that each kind of step of a thread (goes on,
lets its atom go, pops, sends) keeps the part of the invariant without the daemon
(`Apart`), and then the part of the feeder. `HeldInv` is what is left of it when
statements fail, under `Calm`, which is `Quiet` with any number of them: a pending row may
then have been sent, but one that somebody holds is held by the feeder alone
(`PendingHeld`), and that is all that one copy needs. The executor's proofs rest on it.

* `SchedulerRowsProofs`: the other safety properties of the scheduler, each under the
  widest condition that we found for it, and for every value of the constants. The
  conditions are sets of `Events` that do not happen and, for some, no errors:

| Theorem | Property | What must not happen | Because |
|---|---|---|---|
| `HeldOnce` | `SingleHolder` | view (hence retry), recycle; where there are aborts, lists and added recipients (`Unretried`) | a retry from a stale page makes a row pending that a thread holds; the DELETE of an abort may meet a row that came after its INSERT, whose atom is held by then and can be inserted a second time |
| `StatisticsAreRight` | `StatisticsCountSent` | abort | the feeder may set an atom running after the UPDATE of the abort, which then archives it as sent |
| `NothingIsLost` | `RowsAreArchived` | abort | the DELETE of the abort may meet an atom that came after its INSERT |
| `AbortedStaysEmpty` | `AbortedIsEmpty` | lists, added recipients (`Unfed`) | the feeder or a page inserts into an aborted job |
| `ArchivedAreGone` | `ArchivedOnce` | stop, halt, crash; deletion of a list (`Uninterrupted`); it holds until a statement fails | all of them stop a thread between INSERT and DELETE |
| `RunningHasHolder` | `RunningIsTracked` | the same, abort, failing statements and messages (`Steady`) | a message may fail between the push of its atom and the UPDATE of the feeder, which makes the row running again; `abortCall` takes atoms from the queue before it changes their rows |
| `FinishedAreDone` | `FinishedIsComplete` | `Calm`, and no errors, failing messages or added recipients (`Undivided`) | a failed atom is counted down by some threads only; a retry or an addition reopens a job that is selected already |
| `MailingImplemented` | the steps of `Mailing` (`MailingSteps`) | what `Quiet` excludes; if jobs are deleted, lists and added recipients (`Whole`) | the rest of a deleted list, or a second message, would be withdrawn without having been accepted |

`HeldOnce` allows `stopAll` and `abortJob`, so that its invariant, `PlacesInv`, is weaker
than `HeldInv` where it can be. A daemon that stops makes rows pending again while threads
hold their atoms, but it feeds no more, and the next one starts when no thread lives: a
pending row that somebody holds is one that the feeder is about to mark, or there is no
feeder (`PendingPlaced`). An abort deletes rows whose atoms threads still hold, and these
must not come back: what it deletes it has archived (`AbortMoves`), because rows that
came in between are excluded, by `EmptyInv`. For added recipients TLC confirms the second
copy that this exclusion prevents; for lists it found none, and we have no proof.

`RowsInv` says that what memory has was a row once (`KnownHeld`), and that what is
archived was sent (`Evidence`). `EmptyInv` is about the moments of abort: from the
DELETE on, its job has no rows, and nobody inserts into a job that exists. `MovingInv`
gives an atom in both tables to the thread or the abort that is between its two
statements (`Between`), and needs that the daemon lives, with its connections, until a
fault (`Lasting`). `TrackedInv` follows a running row from the push of the feeder to
the thread that lets it go, whose row is deleted by then (`LetGo`), whatever pages write
in between. `CompleteInv` is the longest: each thread counts down an instance of its
own, loaded when it was, so the counters are not equal to anything; but each is at least
the number of atoms that its job has left, without the one in the thread's hands
(`Counted`). Rows of a job only get fewer, as a list is loaded once and before a
thread has the job (`LoadedOnce`), and for the daemon's snapshot of jobs to finish the
same. It needs `CleanInv`, in which a row is pending, then running, then archived, once.

`MailingInv` has, in addition to `OnceInv` and `RowsInv`, that rows belong to jobs and
that a job that may be deleted has all its atoms. Then each step is one of four: a
`Process` that succeeds is `Deliver`; a step that inserts rows is `Accept`, of keys that
were never there; one after which atoms are neither rows nor in memory is `Withdraw`,
and only a deletion can have caused it; and what keeps these three sets is a stutter.

* `ExecutorProofs`: `ExecutorTypeCorrect`, `CopiesAreBounded`, `CountIsRight`, for any
  number of jobs, atoms, threads, executors and processes.

That the types are kept needs a bound on the counter of the executor, which counts atoms
that became pending after the job was loaded below zero: it is not less than what its
ResultSet has left minus the number of atoms (`ExecutorPlaced`). How many copies there
are is an argument about a balance (`Balance`): the copies that were sent, one that the
daemon holds, one that it may still feed and one that the executor may still take
are together not more than the runs of executors, the faults and the daemon. A step
that adds to the left side takes from another place of it, or is paid by a new run or a
fault: an executor that reads its atoms again finds no row of one it has sent, unless a
statement failed. It holds under `Calm`, and rests on `HeldInv`, whose proof goes through
for the steps of the executor too. `CountIsRight` has one thread and no late atoms
(`Alone`): the daemon feeds while the thread is dead and waits while it works (`InTurns`),
so no atom of its job comes after its instance was loaded; what it takes was not archived
or interrupted before (`Fresh`, `AtWork`), so that each one counts once (`Exact`).

* `PoolProofs`: all the safety properties of the pool, as theorems of its `Spec` for
  every number of clients, sessions, calls and values that `PoolAssumption` admits:
  `PoolType`, `OneUserAlways`, `CountsRight`, `KeepsLimit`, `RefusesRight`,
  `ForgetsNothing`, `EndsOverdue`.

The argument about the pool has three parts. *Who has a connection*: `OneUser` is
not inductive, since a free connection may be leased; `Leased` adds that what a
client uses, and the Vector still holds, is not free. A disposal keeps that, because
what loses its lease leaves the Vector; only a second `close` does not, so `OneInv` is
`Leased` under `Never({"again"})`. *What is open*: a session leaves the Vector only
in the step that closes it, and numbers above `opened` were never given (`Orderly`,
which also says that a call the properties exclude has no step in progress, so that
its late half cannot come). *How many* (`Counted`): `openconns` never exceeds the
open sessions, in any behaviour, since every error of the code counts down. That is
all `RefusedAtLimit` needs. Without disposals and `closeConnections` the count is the
size of the Vector, and it stays below the limit as a session is opened only when
the two differ. `EndsOverdue` is an action property of the same invariants: what a
sweep closes is free, hence not in use, or overdue.

* `CacheProofs`: all the properties of the distributed cache, for every number of
  servers, threads, keys, capacities and versions: `TypeCorrect`, `AheadOfNobody`,
  `OnlyFourReasons`, `NoWayBack`, `HitsHaveReason`.

The invariant of the cache has a part for each fact that the properties lean on. Stamps
come from the clock and nobody has a version that the database never had (`Bounded`).
The thread between the clock of the coordinator and the recording of a stamp is the only
one at its key, and what it will record is after every stamp of the key, unless the key is
`crossed` (`InOrder`); that makes `NeverAhead` inductive. `StaleHasReason` compares two
peers; it follows from `NeverAhead` and `NoneNewer`, by which no entry, and no call that
will make one, has an older stamp and newer data than an entry that was not late.
`NeverBack` is inductive beside them. `HitsHaveReason` is an action property, for any
number of threads in a server, from a second invariant over the first: `GetInv` says of
the object in the hands of a `get`, which may be in no cache any more, what the first
says of entries. Its stamp is of the past (`HeldBounded`), it is not older than what the
server had (`Begun`), nothing with an older stamp is newer (`NoneHeld`), and what was
newer when the coordinator answered has a later stamp that the coordinator knew, unless
one of the reasons holds (`Answered`). What a step does to it is a matter of what the
step may feed the caches (`Feeds`).

* `LRUProofs`: `LruTypes`, `ListIsWhole` and `MapAndListAgree`, for every number of
  threads, keys and slots.

`LRUInv` is `LruTypeOK` and, while nothing has raced, `Orderly`: there is a chain of
the entries (`Listing`), one of each key (`OneEach`), map and entries name the same
keys (`MapKeys`, `EntryKeys`), what one of them has alone is in the hands of a call
(`MapListed`, `ListMapped`), and each call is at something that makes sense (`Sound`,
`InForget`, `InPut`). The links are the hard part: `FrontChain`, `AddChain` and
`TakeChain` say that moving an entry to the front, adding one and taking one out
turn a chain into a chain, with a witness for each and all the cases of head, tail and
middle in it. That a type invariant needs the chain is what a `count` that stays
between 0 and the capacity means.

* `ServletProofs`: all the properties of the servlet and of the event daemon, for every
  number of requests, events and failures: `TypeCorrect`, `OneSchedulerAlways`,
  `NothingLeaksAlways`, `ActiveAreScheduledAlways`, `WorkUnlessReusedAlways`.

That types are kept is already a bound on what requests make: each `plan` is one of the
sequences that the handlers leave (`Planned`), and what is left of it makes no more
daemons and DBBinds than the request may still make (`Budget`). `OwnerInv` gives each
thing an owner, in every step of a request and not only between two: a scheduler daemon
that was told to stop is the one that the request holds (`Told`), a daemon that is about
to be made or dropped has nothing scheduled (`Ready`), and a run goes on with the daemon
of the field, and schedules each of its rows once (`Fresh`). `ActiveInv` is about a run that nobody
disturbs: what is scheduled and what the run has still to look at are the active events
but for the skipped ones (`RunPart`), and each way to disturb it leaves its mark in `history` (`Marked`,
`MapsRight`, `RunAlone`); after it this stays so until the mark (`Kept`). `WorkInv` says that an
instance in the cache has an open DBBind until a close (`CachedWork`), so that what a
run takes from it works unless it reuses one (`RunUnused`, `AllWork`).

Only model-checked: liveness under fairness (`Delivery`, `JobsEnd`, `StopEnds`,
`IdleIsClosed`, `ExecutorCompletes`, `FlushEnds`, and the fairness of `Mailing` in
`ImplementsMailing`), which the prover cannot reach; and the refinement of `RecencyCache`
(`KeepsOrder`), which compares a linked list with a sequence. The conditions of the
theorems are stated on the constants, and the instances of section 4 satisfy them for the
properties they check.

## 6. Not modelled

The components of the inventory that section 3 does not name. In particular:

* The in-memory queue: `RAMQueueProducer.send` appends to a list that nobody reads, as
  `RAMQueueConsumer.onMessage` has no caller; there is no interaction to check.
  `Semaphore` has no caller. The JMS queue is a client of a server outside.
* Of the scheduler: `job_cancel.jsp`, which no page links to (`job_list.jsp` cancels by
  the servlet, `abortJob`), `job_modify_store.jsp`, which changes a title, the
  parameters of jobs and the contents of messages; `AtomFeeder.loadAtoms` for any job
  and `SingleThreadExecutor` without a job, which nothing calls, and its `stop()`.
* Of the servlet: two requests at a time; info and stats, which read. Of the event
  daemon: `suspend` and `resume`, which nothing calls, and what the handlers do.
* Of the pool: `closeStaledConnections`, which nothing calls, `setTimeout`, a new delay
  for a reaper that runs, the transactions and the statistics of connections.
* Of the distributed cache: a peer without a coordinator, and the EJB
  coordinator, an alternative to `server.jsp` (`PROTOCOL_JNP`). Of the LRU cache: what the
  list becomes after a race, and `destroy`.
* Business objects, data objects, data copy, mail client, storage and formatting: each
  operation is sequential code between one connection and one file or row, and their
  state is in the database.

Except for the executor on the scheduler's tables and the event daemon in the servlet,
the components are not composed. The scheduler's statements get a connection
whenever its pool is open, and that `next` closes one twice appears in `ConnectionPool`
as a client's `CloseAgain`; the event daemon's cache of instances is one peer that loses
nothing, without a coordinator.
