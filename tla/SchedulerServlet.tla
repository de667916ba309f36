-------------------------- MODULE SchedulerServlet --------------------------
(***************************************************************************)
(* HttpSchedulerServlet starts, restarts and stops one SchedulerDaemon and *)
(* one EventDaemon at the request of pages.  Its requests come one after   *)
(* the other here, while pages that use or change the events come at any   *)
(* time.  What goes on inside a SchedulerDaemon is another module's        *)
(* subject: here it triggers an event when it starts, runs, and ends some  *)
(* time after it was told to, or by itself.                                *)
(***************************************************************************)
EXTENDS EventDaemon

VARIABLES
  eventDaemon,   \* oEventDaemon, or None
  daemons,       \* EventDaemon objects made so far
  schedDaemon,   \* oSchedDaemon, or None
  sched,         \* where the thread of each SchedulerDaemon is
  kind,          \* the action that the request asks for
  calls          \* requests and pages so far

fields == <<eventDaemon, daemons, schedDaemon, sched>>
vars   == <<table, statics, objects, plan, locals, faults, history, fields, kind, calls>>

Sched   == 1 .. MaxCalls
Actions == {"start", "restart", "reload", "stop"}

\* "failed" is a thread that ended before it had a thread pool.
SchedStates == {"none", "starting", "reading", "running", "stopping", "ended", "failed"}
HasPool(s)  == sched[s] \in {"running", "stopping", "ended"}

ServletSteps == {"stop_scheduler", "stopping", "create", "restart_events", "events",
                 "close_events", "first_events", "new_events", "run_events", "drop_events"}

\* Every variable has its type, and an EventDaemon that was not made has nothing.
TypeOK ==
  /\ EventTypeOK
  /\ plan \in [Request -> Seq(EventSteps \cup ServletSteps)]
  /\ eventDaemon \in 0 .. daemons /\ daemons \in 0 .. MaxCalls
  /\ schedDaemon \in 0 .. MaxCalls /\ sched \in [Sched -> SchedStates]
  /\ kind \in Actions /\ calls \in 0 .. MaxCalls
  /\ \A d \in Daemon : d > daemons => bind[d] = None /\ Live(d) = {}

Init ==
  /\ EventInit
  /\ plan = [r \in Request |-> <<>>]
  /\ eventDaemon = None /\ daemons = 0
  /\ schedDaemon = None /\ sched = [s \in Sched |-> "none"]
  /\ kind = "start" /\ calls = 0

Busy(r) == plan[r] # <<>>
Reading == {s \in Sched : sched[s] = "reading"}
Alone   == (\A p \in Page : ~Busy(p)) /\ ~storing /\ Reading = {}
----------------------------------------------------------------------------
(* Requests                                                                *)

Plan(k) ==
  CASE k = "start"   -> <<"create", "events">>
    [] k = "restart" -> <<"stop_scheduler", "restart_events", "create", "events">>
    [] k = "reload"  -> <<"close_events", "new_events">>
    [] k = "stop"    -> <<"stop_scheduler", "close_events", "drop_events">>

\* Somebody uses or changes the maps of Event, maybe beside a request.
Mixes == history \cup (IF Busy(Servlet) THEN {"mixed"} ELSE {})

Begin ==
  /\ ~Busy(Servlet) /\ calls < MaxCalls /\ calls' = calls + 1
  /\ kind' \in Actions /\ plan' = [plan EXCEPT ![Servlet] = Plan(kind')]
  /\ UNCHANGED <<table, statics, objects, locals, faults, history, fields>>

TriggerPage(p) ==
  /\ ~Busy(p) /\ calls < MaxCalls /\ calls' = calls + 1
  /\ \E e \in Event : PageTriggers(p, e)
  /\ history' = Mixes
  /\ UNCHANGED <<table, statics, objects, on, todo, skipped, faults, fields, kind>>

StorePage ==
  /\ \E e \in Event : Store(e)
  /\ history' = Mixes \cup {"behind"}
  /\ UNCHANGED <<statics, objects, plan, locals, faults, fields, kind, calls>>

Untouched == UNCHANGED <<table, statics, kind, calls>>
Others    == Untouched /\ UNCHANGED <<objects, locals, history>>
----------------------------------------------------------------------------
(* The scheduler                                                           *)

\* SchedulerDaemon.stopAll takes ten seconds and more.
StopAll(s) == sched' = [sched EXCEPT ![s] = IF @ = "running" THEN "stopping" ELSE @]

\* Thread.stop, if it is alive.
Kill(s) ==
  /\ sched' = [sched EXCEPT ![s] = IF @ \in {"failed", "ended"} THEN @ ELSE "ended"]
  /\ history' = IF sched[s] = "reading" THEN history \cup {"stale"} ELSE history

StopBegins ==
  /\ At(Servlet, "stop_scheduler") /\ (schedDaemon # None => HasPool(schedDaemon))
  /\ IF schedDaemon = None
     THEN Goes(Servlet, <<>>) /\ UNCHANGED sched
     ELSE Goes(Servlet, <<"stopping">>) /\ StopAll(schedDaemon)
  /\ Others /\ UNCHANGED <<eventDaemon, daemons, schedDaemon, faults>>

StopEnds ==
  /\ At(Servlet, "stopping") /\ Goes(Servlet, <<>>) /\ schedDaemon' = None
  /\ Others /\ UNCHANGED <<sched, eventDaemon, daemons, faults>>

\* Mutant: stop forgets the daemon without killing its thread.
StopForgets ==
  /\ \/ At(Servlet, "stopping") /\ Fault
     \/ /\ At(Servlet, "stop_scheduler") /\ schedDaemon # None /\ ~HasPool(schedDaemon)
        /\ UNCHANGED faults
  /\ Throws(Servlet)
  /\ schedDaemon' = IF kind = "stop" THEN None ELSE schedDaemon
  /\ Others /\ UNCHANGED <<sched, eventDaemon, daemons>>

\* stopAll throws: a statement fails, or there is no thread pool.  restart returns
\* and keeps the daemon, stop kills and forgets it and returns: neither goes on to
\* the events.
StopFails ==
  /\ \/ At(Servlet, "stopping") /\ Fault
     \/ /\ At(Servlet, "stop_scheduler") /\ schedDaemon # None /\ ~HasPool(schedDaemon)
        /\ UNCHANGED faults
  /\ Throws(Servlet)
  /\ IF kind = "stop"
     THEN Kill(schedDaemon) /\ schedDaemon' = None
     ELSE UNCHANGED <<sched, schedDaemon, history>>
  /\ Untouched /\ UNCHANGED <<objects, locals, eventDaemon, daemons>>

\* A daemon that is there is left alone by start; restart has stopped it before.
Create ==
  /\ At(Servlet, "create") /\ Goes(Servlet, <<>>)
  /\ IF schedDaemon # None
     THEN UNCHANGED <<schedDaemon, sched>>
     ELSE \E s \in Sched :
            /\ \A x \in Sched : sched[x] = "none" <=> x >= s
            /\ schedDaemon' = s /\ sched' = [sched EXCEPT ![s] = "starting"]
  /\ Others /\ UNCHANGED <<eventDaemon, daemons, faults>>

\* The constructor throws: doGet returns without the events.
CreateFails ==
  /\ At(Servlet, "create") /\ schedDaemon = None /\ Fault /\ Throws(Servlet)
  /\ Others /\ UNCHANGED fields

Becomes(s, before, after) == sched[s] = before /\ sched' = [sched EXCEPT ![s] = after]
Thread                    == UNCHANGED <<active, storing, stores, cached, objects, plan, locals>>

\* The thread of a SchedulerDaemon, before it has a thread pool, triggers the event
\* that says that it starts: it reads the active events if nobody did.
Reads(s) ==
  /\ Becomes(s, "starting", "reading") /\ known = NotRead
  /\ known' = {} /\ history' = Mixes
  /\ Thread /\ UNCHANGED faults

HasRead(s) ==
  /\ known # NotRead \/ active = {}
  /\ Becomes(s, "reading", "running")
  /\ known' = IF known = NotRead THEN known ELSE known \cup active
  /\ Thread /\ UNCHANGED <<faults, history>>

\* The query fails, or Event.reset() has cleared the field: run ends.
ReadFails(s) ==
  /\ Becomes(s, "reading", "failed")
  /\ IF known = NotRead /\ active # {} THEN UNCHANGED <<faults, history>>
     ELSE Fault /\ history' = history \cup {"stale"}
  /\ Thread /\ UNCHANGED known

Lives(s) ==
  /\ \/ Becomes(s, "starting", "running") /\ known # NotRead
     \/ Becomes(s, "starting", "failed")
     \/ Becomes(s, "running", "ended") \/ Becomes(s, "stopping", "ended")
  /\ Thread /\ UNCHANGED <<known, faults, history>>

SchedThread(s) ==
  /\ Reads(s) \/ HasRead(s) \/ ReadFails(s) \/ Lives(s)
  /\ UNCHANGED <<eventDaemon, daemons, schedDaemon, kind, calls>>
----------------------------------------------------------------------------
(* The events                                                              *)

\* Which calls the servlet makes, from what the field holds.
Dispatch ==
  /\ \/ /\ At(Servlet, "restart_events")
        /\ Goes(Servlet, IF eventDaemon = None THEN <<>> ELSE <<"close_events", "run_events">>)
     \/ /\ At(Servlet, "events")
        /\ Goes(Servlet, CASE eventDaemon = None -> <<"first_events">>
                     [] eventDaemon # None /\ kind = "restart" ->
                          <<"close_events", "new_events">>
                     [] OTHER -> <<>>)
  /\ Others /\ UNCHANGED <<fields, faults>>

CloseEvents ==
  /\ At(Servlet, "close_events") /\ Goes(Servlet, <<>>)
  /\ IF eventDaemon # None THEN Close(eventDaemon)
     ELSE UNCHANGED <<handler, bind, history>>
  /\ Untouched /\ UNCHANGED <<binds, lost, locals, fields, faults>>

NewEvents ==
  /\ At(Servlet, "first_events") \/ At(Servlet, "new_events")
  /\ Goes(Servlet, <<"run_events">>)
  /\ daemons' = daemons + 1 /\ eventDaemon' = daemons'
  /\ Others /\ UNCHANGED <<schedDaemon, sched, faults>>

\* The file of the profile cannot be read: the old daemon, if any, goes on.
NewEventsFail ==
  /\ Fault
  /\ \/ At(Servlet, "first_events") /\ Goes(Servlet, <<>>)
     \/ At(Servlet, "new_events") /\ Goes(Servlet, <<"run_events">>)
  /\ Others /\ UNCHANGED fields

\* A reload without any daemon, whose file cannot be read, runs null.
RunEvents ==
  /\ At(Servlet, "run_events")
  /\ IF eventDaemon = None
     THEN Throws(Servlet) /\ UNCHANGED <<binds, bind, on, todo, skipped, history>>
     ELSE /\ Goes(Servlet, <<"schedule">>) /\ Query(eventDaemon)
          /\ history' = (history \ {"behind", "reused", "mixed"})
               \cup (IF Alone THEN {} ELSE {"mixed"})
               \cup (IF "closed" \in history THEN {"reused"} ELSE {})
  /\ Untouched /\ UNCHANGED <<handler, lost, row, fields, faults>>

RunFails ==
  /\ At(Servlet, "run_events") /\ eventDaemon # None
  /\ Goes(Servlet, <<>>) /\ QueryFails(eventDaemon)
  /\ Untouched /\ UNCHANGED <<handler, lost, locals, fields>>

DropEvents ==
  /\ At(Servlet, "drop_events") /\ Goes(Servlet, <<>>) /\ eventDaemon' = None
  /\ Others /\ UNCHANGED <<daemons, schedDaemon, sched, faults>>
----------------------------------------------------------------------------
EventsOnly == UNCHANGED <<fields, kind, calls>>

Next ==
  \/ Begin
  \/ StopBegins \/ StopEnds \/ StopFails \/ Create \/ CreateFails
  \/ Dispatch \/ CloseEvents \/ NewEvents \/ NewEventsFail
  \/ RunEvents \/ RunFails \/ DropEvents
  \/ \E s \in Sched : SchedThread(s)
  \/ StorePage \/ \E p \in Page : TriggerPage(p)
  \/ (EventStep \/ Reset \/ StoreFails) /\ EventsOnly

Spec == Init /\ [][Next]_vars
----------------------------------------------------------------------------
(* Properties                                                              *)

\* A SchedulerDaemon that starts or runs, and was not told to stop, is the one
\* that the servlet can stop, whatever failed.
OneScheduler ==
  \A s \in Sched : sched[s] \in {"starting", "reading", "running"} => s = schedDaemon

\* The same of what EventDaemons hold: every event that is scheduled is scheduled
\* once, by the daemon of the servlet, and every DBBind that is open is its own.
NothingLeaks ==
  /\ lost = {}
  /\ \A d \in Daemon : Live(d) # {} => d = eventDaemon
  /\ Open # {} => eventDaemon # None /\ Open = {bind[eventDaemon]}

\* What the pages stored is what the daemon does after its next start or reload, but
\* for the events whose own instance could not be got then, each of which the others
\* do without: Event.reset() is enough, and so is a new run, as long as the maps of
\* Event could be read and nobody else, such as a SchedulerDaemon that starts, was at
\* them.
ActiveAreScheduled ==
  ~Busy(Servlet) /\ eventDaemon # None /\ history \cap {"behind", "stale", "mixed"} = {}
    => Live(eventDaemon) = active \ skipped

\* An event that is scheduled can get a connection, unless the daemon could find
\* an instance that was made before a DBBind was closed.
WorkUnlessReused ==
  ~Busy(Servlet) /\ "reused" \notin history
    => \A d \in Daemon : \A e \in Live(d) : Works(handler[d][e])
=============================================================================
