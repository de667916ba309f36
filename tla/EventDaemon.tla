---------------------------- MODULE EventDaemon ----------------------------
(***************************************************************************)
(* EventDaemon schedules the events of k_events that have a fixed rate.    *)
(* Event keeps in static fields which events are active and the instances  *)
(* that it made; events_store.jsp changes the table and resets them.       *)
(* Nothing is synchronized: a page may trigger an event while the servlet  *)
(* is inside the daemon.  A scheduled event only touches the database, so  *)
(* that its execution is no step here: what matters is whether the DBBind  *)
(* that its instance was made with still gives connections.                *)
(***************************************************************************)
EXTENDS Naturals, Sequences

CONSTANTS
  Event,        \* keys of k_events, all with a fixed rate and a class
  NotRead,      \* what Event.oEventsPerDomain is before the table is read
  Servlet,      \* the request of the servlet that is being served
  Page,         \* pages that the web server may work on at a time
  MaxCalls,     \* bound on the requests
  MaxStores,    \* bound on the times that events_store.jsp runs
  MaxFaults     \* bound on what fails: statements, files

ASSUME EventDaemonAssumption ==
  /\ {MaxCalls, MaxStores, MaxFaults} \subseteq Nat /\ MaxCalls > 0
  /\ \A E \in SUBSET Event : E # NotRead
  /\ Servlet \notin Page

VARIABLES
  active,    \* the events with bo_active in k_events
  storing,   \* between the commit of events_store.jsp and its Event.reset()
  known,     \* Event.oEventsPerDomain: the active events read, or NotRead
  cached,    \* Event.oEventCache: the DBBind of the instance of each event
  binds,     \* DBBinds made by the daemons so far
  bind,      \* oDbb of each daemon
  handler,   \* aRunHandlers of each daemon: the DBBind of the scheduled instance
  lost,      \* the events that are scheduled by a future in no aRunHandlers
  plan,      \* what each request has still to do
  row,       \* the event that it is at
  on,        \* the daemon that the servlet runs
  todo,      \* the rows that the loop of run has still to come to
  skipped,   \* history: the events whose instance the last run could not get
  stores,    \* times that events_store.jsp ran
  faults,    \* failures so far
  history    \* what the properties name (see below)

(* history:                                                                *)
(*   "behind"  the table changed, or run could not read it, since the last *)
(*             time that run read it                                       *)
(*   "stale"   somebody could not fill the maps of Event, or a page could  *)
(*             not reset them, since the last reset                        *)
(*   "mixed"   others used or changed the maps while a request was there   *)
(*   "closed"  a DBBind was closed since the last reset                    *)
(*   "reused"  that was so when run last read the table                    *)

table   == <<active, storing, stores>>
statics == <<known, cached>>
objects == <<binds, bind, handler, lost>>
locals  == <<row, on, todo, skipped>>

Request    == Page \cup {Servlet}
Daemon     == 1 .. MaxCalls
None       == 0
Global     == 2 * MaxCalls + 1   \* GlobalDBBind of the pages, which stays open
EventSteps == {"schedule", "look", "know", "fill", "instance"}

EventTypeOK ==
  /\ active \subseteq Event /\ storing \in BOOLEAN /\ stores \in 0 .. MaxStores
  /\ known = NotRead \/ known \in SUBSET Event
  /\ cached \in [Event -> 0 .. Global]
  /\ binds \in 0 .. 2 * MaxCalls /\ bind \in [Daemon -> 0 .. binds]
  /\ handler \in [Daemon -> [Event -> 0 .. Global]] /\ lost \subseteq Event
  /\ row \in [Request -> Event]
  /\ on \in 0 .. MaxCalls /\ todo \subseteq Event /\ skipped \subseteq Event
  /\ faults \in 0 .. MaxFaults
----------------------------------------------------------------------------
EventInit ==
  /\ active \in SUBSET Event /\ storing = FALSE /\ stores = 0
  /\ known = NotRead /\ cached = [e \in Event |-> None]
  /\ binds = 0 /\ bind = [d \in Daemon |-> None]
  /\ handler = [d \in Daemon |-> [e \in Event |-> None]] /\ lost = {}
  /\ row \in [Request -> Event] /\ on = None /\ todo = {} /\ skipped = {}
  /\ faults = 0 /\ history = {}

At(r, step) == plan[r] # <<>> /\ Head(plan[r]) = step

\* r has done the first step of its plan, and has `more' to do before the rest.
Goes(r, more) == plan' = [plan EXCEPT ![r] = more \o Tail(@)]

\* A RuntimeException leaves doGet, or the page.
Throws(r) == plan' = [plan EXCEPT ![r] = <<>>]

Fault == faults < MaxFaults /\ faults' = faults + 1

\* The events that a daemon has scheduled, and the DBBinds that are not closed.
Live(d)  == {e \in Event : handler[d][e] # None}
Open     == {bind[d] : d \in Daemon} \ {None}
Works(b) == b \in Open \cup {Global}

\* The DBBind whose connection r holds.
Conn(r) == IF r = Servlet THEN bind[on] ELSE Global
----------------------------------------------------------------------------
(* EventDaemon.close and EventDaemon.run                                   *)

\* Mutant: the futures are not cancelled.
CloseKeepsFutures(d) ==
  /\ bind' = [bind EXCEPT ![d] = None]
  /\ history' = history \cup {"closed"}
  /\ UNCHANGED handler

Close(d) ==
  /\ handler' = [handler EXCEPT ![d] = [e \in Event |-> None]]
  /\ bind' = [bind EXCEPT ![d] = None]
  /\ history' = history \cup {"closed"}

\* Mutant: oDbb is a static field.
BindShared(d) ==
  IF bind[d] = None
  THEN binds' = binds + 1 /\ bind' = [x \in Daemon |-> binds']
  ELSE UNCHANGED <<binds, bind>>

\* A DBBind is made if there is none.
Bind(d) ==
  IF bind[d] = None
  THEN binds' = binds + 1 /\ bind' = [bind EXCEPT ![d] = binds']
  ELSE UNCHANGED <<binds, bind>>

Query(d) == Bind(d) /\ on' = d /\ todo' = active /\ skipped' = {}

\* run catches the SQLException and returns, with nothing scheduled.
QueryFails(d) ==
  /\ Fault /\ Bind(d)
  /\ history' = history \cup {"behind"}

NextRow ==
  /\ At(Servlet, "schedule") /\ Goes(Servlet, <<"look", "schedule">>)
  /\ \E e \in todo : row' = [row EXCEPT ![Servlet] = e] /\ todo' = todo \ {e}
  /\ UNCHANGED <<table, statics, objects, on, skipped, faults, history>>

RunEnds ==
  /\ At(Servlet, "schedule") /\ todo = {} /\ Goes(Servlet, <<>>)
  /\ UNCHANGED <<table, statics, objects, locals, faults, history>>

\* triggerAtFixedSeconds: a future that it replaces goes on, and nobody can cancel it.
Schedule(d, e, b) ==
  /\ handler' = [handler EXCEPT ![d][e] = b]
  /\ lost' = IF e \in Live(d) THEN lost \cup {e} ELSE lost
----------------------------------------------------------------------------
(* Event.cacheEventsActions and Event.getEvent                             *)

\* getEvent begins by looking whether the active events were read.
Look(r) ==
  /\ At(r, "look")
  /\ Goes(r, IF known = NotRead THEN <<"know", "instance">> ELSE <<"instance">>)
  /\ UNCHANGED <<table, statics, objects, locals, faults, history>>

\* The empty map is there for everybody before its rows are.
Know(r) ==
  /\ At(r, "know")
  /\ IF known = NotRead
     THEN known' = {} /\ Goes(r, <<"fill">>)
     ELSE UNCHANGED known /\ Goes(r, <<>>)
  /\ UNCHANGED <<table, cached, objects, locals, faults, history>>

\* What a request has left when cacheEventsActions throws: run goes on with the next
\* row, without an instance of this one.
GivesUp(r) ==
  plan' = [plan EXCEPT ![r] = IF r = Servlet THEN Tail(Tail(@)) ELSE <<>>]

\* The rows go into the map that the field names now; if Event.reset() has cleared
\* the field, the first row throws.
Fill(r) ==
  /\ At(r, "fill")
  /\ IF known = NotRead /\ active # {}
     THEN GivesUp(r) /\ UNCHANGED known
     ELSE /\ Goes(r, <<>>)
          /\ known' = IF known = NotRead THEN known ELSE known \cup active
  /\ UNCHANGED <<table, cached, objects, locals, faults, history>>

\* The query fails: the map stays empty, and as it is no longer null nobody reads the table until
\* Event.reset().
FillFails(r) ==
  /\ At(r, "fill") /\ Fault /\ GivesUp(r)
  /\ history' = history \cup {"stale"}
  /\ UNCHANGED <<table, statics, objects, locals>>

\* An instance that was made before is used again, with the DBBind that it was
\* made with.  run schedules it; a page triggers it at once.
Instance(r) ==
  LET e == row[r]
      b == IF cached[e] = None THEN Conn(r) ELSE cached[e]
  IN /\ At(r, "instance")
     /\ Goes(r, <<>>)
     /\ IF known # NotRead /\ e \in known
        THEN /\ cached' = [cached EXCEPT ![e] = b]
             /\ IF r = Servlet THEN Schedule(on, e, b) ELSE UNCHANGED <<handler, lost>>
        ELSE UNCHANGED <<cached, handler, lost>>
     /\ UNCHANGED <<table, known, binds, bind, locals, faults, history>>

\* The cache of the instances, or the query that loads a new one, throws: run goes on
\* with the next row, and this event is not scheduled.  A page ends.
InstanceFails(r) ==
  /\ At(r, "instance") /\ known # NotRead /\ row[r] \in known
  /\ Fault /\ Goes(r, <<>>)
  /\ skipped' = IF r = Servlet THEN skipped \cup {row[r]} ELSE skipped
  /\ UNCHANGED <<table, statics, objects, row, on, todo, history>>

EventStep ==
  \/ NextRow \/ RunEnds
  \/ \E r \in Request :
       Look(r) \/ Know(r) \/ Fill(r) \/ FillFails(r) \/ Instance(r) \/ InstanceFails(r)
----------------------------------------------------------------------------
(* Pages                                                                   *)

\* Event.trigger, as oportunity_edit_store.jsp calls it.
PageTriggers(r, e) ==
  /\ plan' = [plan EXCEPT ![r] = <<"know", "look">>]
  /\ row' = [row EXCEPT ![r] = e]

\* events_store.jsp: an event is activated or deactivated.
Store(e) ==
  /\ ~storing /\ stores < MaxStores
  /\ active' = IF e \in active THEN active \ {e} ELSE active \cup {e}
  /\ storing' = TRUE /\ stores' = stores + 1

\* Mutant: the active events stay as they were read.
ResetInstances ==
  /\ storing /\ storing' = FALSE
  /\ cached' = [e \in Event |-> None]
  /\ history' = history \ {"closed", "stale"}
  /\ UNCHANGED <<active, stores, known, objects, plan, locals, faults>>

\* Mutant: the instances stay in their cache.
ResetActive ==
  /\ storing /\ storing' = FALSE
  /\ known' = NotRead
  /\ history' = history \ {"closed", "stale"}
  /\ UNCHANGED <<active, stores, cached, objects, plan, locals, faults>>

\* Event.reset()
Reset ==
  /\ storing /\ storing' = FALSE
  /\ known' = NotRead /\ cached' = [e \in Event |-> None]
  /\ history' = history \ {"closed", "stale"}
  /\ UNCHANGED <<active, stores, objects, plan, locals, faults>>

\* A later row cannot be stored: the page leaves what it has committed, without
\* a reset.
StoreFails ==
  /\ storing /\ Fault /\ storing' = FALSE
  /\ history' = history \cup {"stale"}
  /\ UNCHANGED <<active, stores, statics, objects, plan, locals>>
=============================================================================
