---------------------------- MODULE ServletProofs ----------------------------
(***************************************************************************)
(* Type correctness and safety of SchedulerServlet.                        *)
(***************************************************************************)
EXTENDS SchedulerServlet, SequenceTheorems, TLAPS

(* What a request and a page may have left to do.                          *)

RunPlans ==
  {<<"schedule">>, <<"look", "schedule">>, <<"instance", "schedule">>,
   <<"know", "instance", "schedule">>, <<"fill", "instance", "schedule">>}

\* The same in a restart, which goes on as a start does.
RestartRunPlans ==
  {<<"schedule", "create", "events">>, <<"look", "schedule", "create", "events">>,
   <<"instance", "schedule", "create", "events">>,
   <<"know", "instance", "schedule", "create", "events">>,
   <<"fill", "instance", "schedule", "create", "events">>}

StopPlans ==
  {<<"stop_scheduler", "close_events", "drop_events">>,
   <<"stopping", "close_events", "drop_events">>,
   <<"close_events", "drop_events">>, <<"drop_events">>}

\* Two runs are still to come, the second maybe of a new daemon.
TwoRuns ==
  {<<"stop_scheduler", "restart_events", "create", "events">>,
   <<"stopping", "restart_events", "create", "events">>,
   <<"restart_events", "create", "events">>,
   <<"close_events", "run_events", "create", "events">>,
   <<"run_events", "create", "events">>}

\* One more run is to come, maybe of a new daemon.
NewRun ==
  {<<"create", "events">>, <<"events">>, <<"close_events", "new_events">>,
   <<"first_events">>, <<"new_events">>} \cup RestartRunPlans

LastRun == {<<"run_events">>}
NoRun   == {<<>>} \cup StopPlans \cup RunPlans

ServletPlans == TwoRuns \cup NewRun \cup LastRun \cup NoRun

PagePlans ==
  {<<>>, <<"know", "look">>, <<"fill", "look">>, <<"look">>, <<"know", "instance">>,
   <<"fill", "instance">>, <<"instance">>}

Planned == /\ plan[Servlet] \in ServletPlans
           /\ \A p \in Page : plan[p] \in PagePlans

Place     == IF plan[Servlet] = <<>> THEN "idle" ELSE Head(plan[Servlet])
InRun     == Place \in EventSteps
NewLeft   == IF plan[Servlet] \in TwoRuns \cup NewRun THEN 1 ELSE 0
BindsLeft == IF plan[Servlet] \in TwoRuns THEN 2
             ELSE IF plan[Servlet] \in NewRun \cup LastRun THEN 1 ELSE 0

\* A request makes one daemon and two DBBinds at the most.
Budget ==
  /\ daemons + NewLeft <= calls
  /\ binds + BindsLeft <= 2 * calls
-----------------------------------------------------------------------------
(* Who is responsible for what runs                                        *)

\* The daemon that stopAll works on has been told to stop.
Told == Place = "stopping" =>
          schedDaemon # None /\ sched[schedDaemon] \in {"stopping", "ended"}

\* A run schedules what the daemon does not have yet, each event once.
Left  == todo \cup (IF Place = "schedule" THEN {} ELSE {row[Servlet]})
Fresh ==
  InRun => /\ on = eventDaemon /\ on # None /\ bind[on] # None
           /\ Live(on) \cap Left = {}
           /\ Place # "schedule" => row[Servlet] \notin todo

\* Nothing is scheduled when a daemon is made, dropped or run.
Ready ==
  /\ Place = "first_events" => eventDaemon = None
  /\ Place \in {"new_events", "drop_events", "run_events"} /\ eventDaemon # None =>
       Live(eventDaemon) = {}
  /\ Place \in {"new_events", "drop_events"} /\ eventDaemon # None => bind[eventDaemon] = None

\* Daemons share no DBBind: only the one of the servlet may have one.
OneBind == \A d \in Daemon : bind[d] # None => d = eventDaemon

OwnerInv ==
  /\ TypeOK /\ Planned /\ Budget /\ Told /\ OneScheduler /\ Fresh /\ Ready
  /\ NothingLeaks /\ OneBind
-----------------------------------------------------------------------------
(* What the maps of Event hold                                             *)

Clean   == history \cap {"behind", "stale", "mixed"} = {}
Filling == Reading # {} \/ \E r \in Request : At(r, "fill")

\* Who changes the table leaves a mark that only a run takes away.
Marked == storing => history \cap {"behind", "mixed"} # {}

\* The active events, or nothing as long as somebody is about to fill them in.
MapsRight ==
  "stale" \notin history /\ ~storing /\ known # NotRead =>
    known = active \/ (known = {} /\ Filling)

RunAlone == InRun /\ "mixed" \notin history => Alone

\* In a run that nobody disturbs, what is scheduled and what is left are the active events
\* whose instance the run could get.
RunPart ==
  InRun /\ Clean =>
    /\ Live(on) \cup Left = active \ skipped
    /\ Place = "fill" => known = {}
    /\ Place = "instance" => known # NotRead

\* Outside a run, unless a request has closed the daemon and not run it again.
Kept ==
  Place \notin EventSteps \cup {"run_events", "new_events", "drop_events"} /\ eventDaemon # None /\ Clean
    => Live(eventDaemon) = active \ skipped

ActiveInv == Marked /\ MapsRight /\ RunAlone /\ RunPart /\ Kept
-----------------------------------------------------------------------------
(* Which instances work                                                    *)

CachedWork == "closed" \notin history => \A e \in Event : cached[e] = None \/ Works(cached[e])
RunUnused  == InRun /\ "reused" \notin history => "closed" \notin history
AllWork    == "reused" \notin history => \A d \in Daemon : \A e \in Live(d) : Works(handler[d][e])

WorkInv == CachedWork /\ RunUnused /\ AllWork
-----------------------------------------------------------------------------
(* Plans                                                                   *)

LEMMA Joined ==
  ASSUME NEW S, NEW s \in Seq(S), NEW t \in Seq(S), NEW u \in Seq(S),
         Len(u) = Len(s) + Len(t),
         \A i \in 1 .. Len(s) : u[i] = s[i],
         \A i \in 1 .. Len(t) : u[i + Len(s)] = t[i]
  PROVE  s \o t = u
  <1>1. s \o t \in Seq(S) /\ Len(s \o t) = Len(u)
    BY ConcatProperties
  <1>2. ASSUME NEW i \in 1 .. Len(s \o t) PROVE (s \o t)[i] = u[i]
    <2>1. (s \o t)[i] = IF i <= Len(s) THEN s[i] ELSE t[i - Len(s)]
      BY <1>1, ConcatProperties
    <2>2. CASE i <= Len(s)
      BY <2>1, <2>2
    <2>3. CASE i > Len(s)
      <3>1. i - Len(s) \in 1 .. Len(t) /\ i - Len(s) + Len(s) = i
        BY <1>1, <2>3
      <3> QED
        BY <2>1, <2>3, <3>1
    <2> QED
      BY <2>2, <2>3
  <1> QED
    BY <1>1, <1>2, SeqEqual

LEMMA PushOne ==
  ASSUME NEW x, NEW a, NEW b, NEW c
  PROVE  /\ <<x>> \o <<>> = <<x>>
         /\ <<x>> \o <<a>> = <<x, a>>
         /\ <<x>> \o <<a, b>> = <<x, a, b>>
         /\ <<x>> \o <<a, b, c>> = <<x, a, b, c>>
  <1> DEFINE S == {x, a, b, c}
  <1>1. ASSUME NEW s, NEW t, NEW u, s = <<x>>, t = <<>>, u = <<x>>
        PROVE  s \o t = u
    <2>1. s \in Seq(S) /\ t \in Seq(S) /\ u \in Seq(S)
      BY <1>1
    <2>2. Len(u) = Len(s) + Len(t)
      BY <1>1
    <2>3. \A i \in 1 .. Len(s) : u[i] = s[i]
      BY <1>1
    <2>4. \A i \in 1 .. Len(t) : u[i + Len(s)] = t[i]
      BY <1>1
    <2> QED
      BY <2>1, <2>2, <2>3, <2>4, Joined
  <1>2. ASSUME NEW s, NEW t, NEW u, s = <<x>>, t = <<a>>, u = <<x, a>>
        PROVE  s \o t = u
    <2>1. s \in Seq(S) /\ t \in Seq(S) /\ u \in Seq(S)
      BY <1>2
    <2>2. Len(u) = Len(s) + Len(t)
      BY <1>2
    <2>3. \A i \in 1 .. Len(s) : u[i] = s[i]
      BY <1>2
    <2>4. \A i \in 1 .. Len(t) : u[i + Len(s)] = t[i]
      BY <1>2
    <2> QED
      BY <2>1, <2>2, <2>3, <2>4, Joined
  <1>3. ASSUME NEW s, NEW t, NEW u, s = <<x>>, t = <<a, b>>, u = <<x, a, b>>
        PROVE  s \o t = u
    <2>1. s \in Seq(S) /\ t \in Seq(S) /\ u \in Seq(S)
      BY <1>3
    <2>2. Len(u) = Len(s) + Len(t)
      BY <1>3
    <2>3. \A i \in 1 .. Len(s) : u[i] = s[i]
      BY <1>3
    <2>4. \A i \in 1 .. Len(t) : u[i + Len(s)] = t[i]
      BY <1>3
    <2> QED
      BY <2>1, <2>2, <2>3, <2>4, Joined
  <1>4. ASSUME NEW s, NEW t, NEW u, s = <<x>>, t = <<a, b, c>>, u = <<x, a, b, c>>
        PROVE  s \o t = u
    <2>1. s \in Seq(S) /\ t \in Seq(S) /\ u \in Seq(S)
      BY <1>4
    <2>2. Len(u) = Len(s) + Len(t)
      BY <1>4
    <2>3. \A i \in 1 .. Len(s) : u[i] = s[i]
      BY <1>4
    <2>4. \A i \in 1 .. Len(t) : u[i + Len(s)] = t[i]
      BY <1>4
    <2> QED
      BY <2>1, <2>2, <2>3, <2>4, Joined
  <1> QED
    BY <1>1, <1>2, <1>3, <1>4

LEMMA PushOneOnFour ==
  ASSUME NEW x, NEW a, NEW b, NEW c, NEW d
  PROVE  <<x>> \o <<a, b, c, d>> = <<x, a, b, c, d>>
  <1> DEFINE S == {x, a, b, c, d}
  <1>1. ASSUME NEW s, NEW t, NEW u, s = <<x>>, t = <<a, b, c, d>>, u = <<x, a, b, c, d>>
        PROVE  s \o t = u
    <2>1. s \in Seq(S) /\ t \in Seq(S) /\ u \in Seq(S)
      BY <1>1
    <2>2. Len(u) = Len(s) + Len(t)
      BY <1>1
    <2>3. \A i \in 1 .. Len(s) : u[i] = s[i]
      BY <1>1
    <2>4. \A i \in 1 .. Len(t) : u[i + Len(s)] = t[i]
      BY <1>1
    <2> QED
      BY <2>1, <2>2, <2>3, <2>4, Joined
  <1> QED
    BY <1>1

LEMMA PushTwo ==
  ASSUME NEW x, NEW y, NEW a
  PROVE  /\ <<x, y>> \o <<>> = <<x, y>>
         /\ <<x, y>> \o <<a>> = <<x, y, a>>
  <1> DEFINE S == {x, y, a}
  <1>1. ASSUME NEW s, NEW t, NEW u, s = <<x, y>>, t = <<>>, u = <<x, y>>
        PROVE  s \o t = u
    <2>1. s \in Seq(S) /\ t \in Seq(S) /\ u \in Seq(S)
      BY <1>1
    <2>2. Len(u) = Len(s) + Len(t)
      BY <1>1
    <2>3. \A i \in 1 .. Len(s) : u[i] = s[i]
      BY <1>1
    <2>4. \A i \in 1 .. Len(t) : u[i + Len(s)] = t[i]
      BY <1>1
    <2> QED
      BY <2>1, <2>2, <2>3, <2>4, Joined
  <1>2. ASSUME NEW s, NEW t, NEW u, s = <<x, y>>, t = <<a>>, u = <<x, y, a>>
        PROVE  s \o t = u
    <2>1. s \in Seq(S) /\ t \in Seq(S) /\ u \in Seq(S)
      BY <1>2
    <2>2. Len(u) = Len(s) + Len(t)
      BY <1>2
    <2>3. \A i \in 1 .. Len(s) : u[i] = s[i]
      BY <1>2
    <2>4. \A i \in 1 .. Len(t) : u[i + Len(s)] = t[i]
      BY <1>2
    <2> QED
      BY <2>1, <2>2, <2>3, <2>4, Joined
  <1> QED
    BY <1>1, <1>2

LEMMA PushTwoOnTwo ==
  ASSUME NEW x, NEW y, NEW a, NEW b
  PROVE  <<x, y>> \o <<a, b>> = <<x, y, a, b>>
  <1> DEFINE S == {x, y, a, b}
  <1>1. ASSUME NEW s, NEW t, NEW u, s = <<x, y>>, t = <<a, b>>, u = <<x, y, a, b>>
        PROVE  s \o t = u
    <2>1. s \in Seq(S) /\ t \in Seq(S) /\ u \in Seq(S)
      BY <1>1
    <2>2. Len(u) = Len(s) + Len(t)
      BY <1>1
    <2>3. \A i \in 1 .. Len(s) : u[i] = s[i]
      BY <1>1
    <2>4. \A i \in 1 .. Len(t) : u[i + Len(s)] = t[i]
      BY <1>1
    <2> QED
      BY <2>1, <2>2, <2>3, <2>4, Joined
  <1> QED
    BY <1>1

LEMMA PushTwoOnThree ==
  ASSUME NEW x, NEW y, NEW a, NEW b, NEW c
  PROVE  <<x, y>> \o <<a, b, c>> = <<x, y, a, b, c>>
  <1> DEFINE S == {x, y, a, b, c}
  <1>1. ASSUME NEW s, NEW t, NEW u, s = <<x, y>>, t = <<a, b, c>>, u = <<x, y, a, b, c>>
        PROVE  s \o t = u
    <2>1. s \in Seq(S) /\ t \in Seq(S) /\ u \in Seq(S)
      BY <1>1
    <2>2. Len(u) = Len(s) + Len(t)
      BY <1>1
    <2>3. \A i \in 1 .. Len(s) : u[i] = s[i]
      BY <1>1
    <2>4. \A i \in 1 .. Len(t) : u[i + Len(s)] = t[i]
      BY <1>1
    <2> QED
      BY <2>1, <2>2, <2>3, <2>4, Joined
  <1> QED
    BY <1>1

\* The classes have no plan in common.
LEMMA Classes ==
  /\ \A p \in TwoRuns : p \notin NewRun /\ p \notin LastRun /\ p \notin NoRun
  /\ \A p \in NewRun : p \notin LastRun /\ p \notin NoRun
  /\ \A p \in LastRun : p \notin NoRun
  <1>1. \A p \in TwoRuns : p \notin NewRun
    BY DEF TwoRuns, NewRun, RestartRunPlans
  <1>2. \A p \in TwoRuns : p \notin LastRun /\ p \notin NoRun
    BY DEF TwoRuns, LastRun, NoRun, StopPlans, RunPlans
  <1>3. \A p \in NewRun : p \notin LastRun /\ p \notin NoRun
    BY DEF NewRun, RestartRunPlans, LastRun, NoRun, StopPlans, RunPlans
  <1>4. \A p \in LastRun : p \notin NoRun
    BY DEF LastRun, NoRun, StopPlans, RunPlans
  <1> QED
    BY <1>1, <1>2, <1>3, <1>4

LEMMA Weights ==
  /\ plan[Servlet] \in TwoRuns => NewLeft = 1 /\ BindsLeft = 2
  /\ plan[Servlet] \in NewRun => NewLeft = 1 /\ BindsLeft = 1
  /\ plan[Servlet] \in LastRun => NewLeft = 0 /\ BindsLeft = 1
  /\ plan[Servlet] \in NoRun => NewLeft = 0 /\ BindsLeft = 0
  BY Classes DEF NewLeft, BindsLeft

LEMMA WeightsNext ==
  /\ plan'[Servlet] \in TwoRuns => NewLeft' = 1 /\ BindsLeft' = 2
  /\ plan'[Servlet] \in NewRun => NewLeft' = 1 /\ BindsLeft' = 1
  /\ plan'[Servlet] \in LastRun => NewLeft' = 0 /\ BindsLeft' = 1
  /\ plan'[Servlet] \in NoRun => NewLeft' = 0 /\ BindsLeft' = 0
  BY Classes DEF NewLeft, BindsLeft

\* The servlet goes from a place to another one, with dn daemons and db DBBinds less
\* to make.
Moves(from, to, dn, db) ==
  /\ Planned' /\ Place = from /\ Place' \in to
  /\ NewLeft' + dn <= NewLeft /\ BindsLeft' + db <= BindsLeft
  /\ \A p \in Page : plan'[p] = plan[p]

\* Its plan changes from p to q.
Turns(p, q) == plan[Servlet] = p /\ plan'[Servlet] = q /\ \A r \in Page : plan'[r] = plan[r]

LEMMA AtPlace ==
  ASSUME NEW x, x # "idle"
  PROVE  At(Servlet, x) <=> Place = x
  BY DEF At, Place

LEMMA ServletGoes ==
  ASSUME TypeOK, NEW m, Goes(Servlet, m)
  PROVE  Turns(plan[Servlet], m \o Tail(plan[Servlet]))
  BY EventDaemonAssumption DEF TypeOK, Goes, Request, Turns

LEMMA ServletThrows ==
  ASSUME TypeOK, Planned, Throws(Servlet)
  PROVE  /\ Planned' /\ Place' = "idle"
         /\ NewLeft' <= NewLeft /\ BindsLeft' <= BindsLeft
         /\ \A p \in Page : plan'[p] = plan[p]
  <1>1. plan'[Servlet] = <<>> /\ \A p \in Page : plan'[p] = plan[p]
    BY EventDaemonAssumption DEF TypeOK, Throws, Request
  <1>2. plan'[Servlet] \in NoRun
    BY <1>1 DEF NoRun
  <1> QED
    BY <1>1, <1>2, Weights, WeightsNext DEF Planned, Place, ServletPlans

\* The places, one by one.
LEMMA PlanAt ==
  ASSUME Planned
  PROVE  /\ Place = "stop_scheduler" =>
              plan[Servlet] \in {<<"stop_scheduler", "restart_events", "create", "events">>,
                                <<"stop_scheduler", "close_events", "drop_events">>}
         /\ Place = "stopping" =>
              plan[Servlet] \in {<<"stopping", "restart_events", "create", "events">>,
                                <<"stopping", "close_events", "drop_events">>}
         /\ Place = "restart_events" =>
              plan[Servlet] \in {<<"restart_events", "create", "events">>}
         /\ Place = "close_events" =>
              plan[Servlet] \in {<<"close_events", "run_events", "create", "events">>,
                                <<"close_events", "new_events">>,
                                <<"close_events", "drop_events">>}
         /\ Place = "run_events" =>
              plan[Servlet] \in {<<"run_events", "create", "events">>,
                                <<"run_events">>}
         /\ Place = "create" =>
              plan[Servlet] \in {<<"create", "events">>}
         /\ Place = "events" =>
              plan[Servlet] \in {<<"events">>}
         /\ Place = "first_events" =>
              plan[Servlet] \in {<<"first_events">>}
         /\ Place = "new_events" =>
              plan[Servlet] \in {<<"new_events">>}
         /\ Place = "drop_events" =>
              plan[Servlet] \in {<<"drop_events">>}
  BY DEF Planned, Place, ServletPlans, TwoRuns, NewRun, LastRun, NoRun, RunPlans, RestartRunPlans, StopPlans

LEMMA RunPlanAt ==
  ASSUME Planned
  PROVE  /\ Place = "schedule" =>
              plan[Servlet] \in {<<"schedule", "create", "events">>,
                                <<"schedule">>}
         /\ Place = "look" =>
              plan[Servlet] \in {<<"look", "schedule", "create", "events">>,
                                <<"look", "schedule">>}
         /\ Place = "know" =>
              plan[Servlet] \in {<<"know", "instance", "schedule", "create", "events">>,
                                <<"know", "instance", "schedule">>}
         /\ Place = "fill" =>
              plan[Servlet] \in {<<"fill", "instance", "schedule", "create", "events">>,
                                <<"fill", "instance", "schedule">>}
         /\ Place = "instance" =>
              plan[Servlet] \in {<<"instance", "schedule", "create", "events">>,
                                <<"instance", "schedule">>}
  BY DEF Planned, Place, ServletPlans, TwoRuns, NewRun, LastRun, NoRun, RunPlans, RestartRunPlans, StopPlans

LEMMA StopBeginsMoves ==
  ASSUME TypeOK, Planned, Place = "stop_scheduler", Goes(Servlet, <<"stopping">>)
  PROVE  Moves("stop_scheduler", {"stopping"}, 0, 0)
  <1>1. Turns(plan[Servlet], <<"stopping">> \o Tail(plan[Servlet]))
    BY ServletGoes
  <1>2. CASE plan[Servlet] = <<"stop_scheduler", "restart_events", "create", "events">>
    <2>0. Tail(plan[Servlet]) = <<"restart_events", "create", "events">>
      BY <1>2
    <2>1. plan'[Servlet] = <<"stopping", "restart_events", "create", "events">>
      <3>1. <<"stopping">> \o <<"restart_events", "create", "events">> = <<"stopping", "restart_events", "create", "events">>
        BY PushOne
      <3> QED
        BY <1>1, <2>0, <3>1 DEF Turns
    <2>2. plan[Servlet] \in TwoRuns /\ plan'[Servlet] \in TwoRuns
      BY <1>2, <2>1 DEF TwoRuns
    <2>3. Place' \in {"stopping"}
      BY <2>1 DEF Place
    <2> QED
      BY <1>1, <2>2, <2>3, Weights, WeightsNext DEF Moves, Turns, Planned, ServletPlans
  <1>3. CASE plan[Servlet] = <<"stop_scheduler", "close_events", "drop_events">>
    <2>0. Tail(plan[Servlet]) = <<"close_events", "drop_events">>
      BY <1>3
    <2>1. plan'[Servlet] = <<"stopping", "close_events", "drop_events">>
      <3>1. <<"stopping">> \o <<"close_events", "drop_events">> = <<"stopping", "close_events", "drop_events">>
        BY PushOne
      <3> QED
        BY <1>1, <2>0, <3>1 DEF Turns
    <2>2. plan[Servlet] \in NoRun /\ plan'[Servlet] \in NoRun
      BY <1>3, <2>1 DEF NoRun, RunPlans, StopPlans
    <2>3. Place' \in {"stopping"}
      BY <2>1 DEF Place
    <2> QED
      BY <1>1, <2>2, <2>3, Weights, WeightsNext DEF Moves, Turns, Planned, ServletPlans
  <1> QED
    BY <1>2, <1>3, PlanAt

LEMMA StopSkips ==
  ASSUME TypeOK, Planned, Place = "stop_scheduler", Goes(Servlet, <<>>)
  PROVE  Moves("stop_scheduler", {"restart_events", "close_events"}, 0, 0)
  <1>1. Turns(plan[Servlet], <<>> \o Tail(plan[Servlet]))
    BY ServletGoes
  <1>2. CASE plan[Servlet] = <<"stop_scheduler", "restart_events", "create", "events">>
    <2>1. plan'[Servlet] = <<"restart_events", "create", "events">>
      BY <1>1, <1>2 DEF Turns
    <2>2. plan[Servlet] \in TwoRuns /\ plan'[Servlet] \in TwoRuns
      BY <1>2, <2>1 DEF TwoRuns
    <2>3. Place' \in {"restart_events", "close_events"}
      BY <2>1 DEF Place
    <2> QED
      BY <1>1, <2>2, <2>3, Weights, WeightsNext DEF Moves, Turns, Planned, ServletPlans
  <1>3. CASE plan[Servlet] = <<"stop_scheduler", "close_events", "drop_events">>
    <2>1. plan'[Servlet] = <<"close_events", "drop_events">>
      BY <1>1, <1>3 DEF Turns
    <2>2. plan[Servlet] \in NoRun /\ plan'[Servlet] \in NoRun
      BY <1>3, <2>1 DEF NoRun, RunPlans, StopPlans
    <2>3. Place' \in {"restart_events", "close_events"}
      BY <2>1 DEF Place
    <2> QED
      BY <1>1, <2>2, <2>3, Weights, WeightsNext DEF Moves, Turns, Planned, ServletPlans
  <1> QED
    BY <1>2, <1>3, PlanAt

LEMMA StopEndsMoves ==
  ASSUME TypeOK, Planned, Place = "stopping", Goes(Servlet, <<>>)
  PROVE  Moves("stopping", {"restart_events", "close_events"}, 0, 0)
  <1>1. Turns(plan[Servlet], <<>> \o Tail(plan[Servlet]))
    BY ServletGoes
  <1>2. CASE plan[Servlet] = <<"stopping", "restart_events", "create", "events">>
    <2>1. plan'[Servlet] = <<"restart_events", "create", "events">>
      BY <1>1, <1>2 DEF Turns
    <2>2. plan[Servlet] \in TwoRuns /\ plan'[Servlet] \in TwoRuns
      BY <1>2, <2>1 DEF TwoRuns
    <2>3. Place' \in {"restart_events", "close_events"}
      BY <2>1 DEF Place
    <2> QED
      BY <1>1, <2>2, <2>3, Weights, WeightsNext DEF Moves, Turns, Planned, ServletPlans
  <1>3. CASE plan[Servlet] = <<"stopping", "close_events", "drop_events">>
    <2>1. plan'[Servlet] = <<"close_events", "drop_events">>
      BY <1>1, <1>3 DEF Turns
    <2>2. plan[Servlet] \in NoRun /\ plan'[Servlet] \in NoRun
      BY <1>3, <2>1 DEF NoRun, RunPlans, StopPlans
    <2>3. Place' \in {"restart_events", "close_events"}
      BY <2>1 DEF Place
    <2> QED
      BY <1>1, <2>2, <2>3, Weights, WeightsNext DEF Moves, Turns, Planned, ServletPlans
  <1> QED
    BY <1>2, <1>3, PlanAt

LEMMA CreateMoves ==
  ASSUME TypeOK, Planned, Place = "create", Goes(Servlet, <<>>)
  PROVE  Moves("create", {"events"}, 0, 0)
  <1>1. Turns(plan[Servlet], <<>> \o Tail(plan[Servlet]))
    BY ServletGoes
  <1>2. CASE plan[Servlet] = <<"create", "events">>
    <2>1. plan'[Servlet] = <<"events">>
      BY <1>1, <1>2 DEF Turns
    <2>2. plan[Servlet] \in NewRun /\ plan'[Servlet] \in NewRun
      BY <1>2, <2>1 DEF NewRun, RestartRunPlans
    <2>3. Place' \in {"events"}
      BY <2>1 DEF Place
    <2> QED
      BY <1>1, <2>2, <2>3, Weights, WeightsNext DEF Moves, Turns, Planned, ServletPlans
  <1> QED
    BY <1>2, PlanAt

LEMMA RestartSkips ==
  ASSUME TypeOK, Planned, Place = "restart_events", Goes(Servlet, <<>>)
  PROVE  Moves("restart_events", {"create"}, 0, 0)
  <1>1. Turns(plan[Servlet], <<>> \o Tail(plan[Servlet]))
    BY ServletGoes
  <1>2. CASE plan[Servlet] = <<"restart_events", "create", "events">>
    <2>1. plan'[Servlet] = <<"create", "events">>
      BY <1>1, <1>2 DEF Turns
    <2>2. plan[Servlet] \in TwoRuns /\ plan'[Servlet] \in NewRun
      BY <1>2, <2>1 DEF TwoRuns, NewRun, RestartRunPlans
    <2>3. Place' \in {"create"}
      BY <2>1 DEF Place
    <2> QED
      BY <1>1, <2>2, <2>3, Weights, WeightsNext DEF Moves, Turns, Planned, ServletPlans
  <1> QED
    BY <1>2, PlanAt

LEMMA RestartMoves ==
  ASSUME TypeOK, Planned, Place = "restart_events", Goes(Servlet, <<"close_events", "run_events">>)
  PROVE  Moves("restart_events", {"close_events"}, 0, 0)
  <1>1. Turns(plan[Servlet], <<"close_events", "run_events">> \o Tail(plan[Servlet]))
    BY ServletGoes
  <1>2. CASE plan[Servlet] = <<"restart_events", "create", "events">>
    <2>0. Tail(plan[Servlet]) = <<"create", "events">>
      BY <1>2
    <2>1. plan'[Servlet] = <<"close_events", "run_events", "create", "events">>
      <3>1. <<"close_events", "run_events">> \o <<"create", "events">> = <<"close_events", "run_events", "create", "events">>
        BY PushTwoOnTwo
      <3> QED
        BY <1>1, <2>0, <3>1 DEF Turns
    <2>2. plan[Servlet] \in TwoRuns /\ plan'[Servlet] \in TwoRuns
      BY <1>2, <2>1 DEF TwoRuns
    <2>3. Place' \in {"close_events"}
      BY <2>1 DEF Place
    <2> QED
      BY <1>1, <2>2, <2>3, Weights, WeightsNext DEF Moves, Turns, Planned, ServletPlans
  <1> QED
    BY <1>2, PlanAt

LEMMA EventsSkip ==
  ASSUME TypeOK, Planned, Place = "events", Goes(Servlet, <<>>)
  PROVE  Moves("events", {"idle"}, 0, 0)
  <1>1. Turns(plan[Servlet], <<>> \o Tail(plan[Servlet]))
    BY ServletGoes
  <1>2. CASE plan[Servlet] = <<"events">>
    <2>1. plan'[Servlet] = <<>>
      BY <1>1, <1>2 DEF Turns
    <2>2. plan[Servlet] \in NewRun /\ plan'[Servlet] \in NoRun
      BY <1>2, <2>1 DEF NewRun, RestartRunPlans, NoRun, RunPlans, StopPlans
    <2>3. Place' \in {"idle"}
      BY <2>1 DEF Place
    <2> QED
      BY <1>1, <2>2, <2>3, Weights, WeightsNext DEF Moves, Turns, Planned, ServletPlans
  <1> QED
    BY <1>2, PlanAt

LEMMA EventsFirst ==
  ASSUME TypeOK, Planned, Place = "events", Goes(Servlet, <<"first_events">>)
  PROVE  Moves("events", {"first_events"}, 0, 0)
  <1>1. Turns(plan[Servlet], <<"first_events">> \o Tail(plan[Servlet]))
    BY ServletGoes
  <1>2. CASE plan[Servlet] = <<"events">>
    <2>0. Tail(plan[Servlet]) = <<>>
      BY <1>2
    <2>1. plan'[Servlet] = <<"first_events">>
      <3>1. <<"first_events">> \o <<>> = <<"first_events">>
        BY PushOne
      <3> QED
        BY <1>1, <2>0, <3>1 DEF Turns
    <2>2. plan[Servlet] \in NewRun /\ plan'[Servlet] \in NewRun
      BY <1>2, <2>1 DEF NewRun, RestartRunPlans
    <2>3. Place' \in {"first_events"}
      BY <2>1 DEF Place
    <2> QED
      BY <1>1, <2>2, <2>3, Weights, WeightsNext DEF Moves, Turns, Planned, ServletPlans
  <1> QED
    BY <1>2, PlanAt

LEMMA EventsAgain ==
  ASSUME TypeOK, Planned, Place = "events", Goes(Servlet, <<"close_events", "new_events">>)
  PROVE  Moves("events", {"close_events"}, 0, 0)
  <1>1. Turns(plan[Servlet], <<"close_events", "new_events">> \o Tail(plan[Servlet]))
    BY ServletGoes
  <1>2. CASE plan[Servlet] = <<"events">>
    <2>0. Tail(plan[Servlet]) = <<>>
      BY <1>2
    <2>1. plan'[Servlet] = <<"close_events", "new_events">>
      <3>1. <<"close_events", "new_events">> \o <<>> = <<"close_events", "new_events">>
        BY PushTwo
      <3> QED
        BY <1>1, <2>0, <3>1 DEF Turns
    <2>2. plan[Servlet] \in NewRun /\ plan'[Servlet] \in NewRun
      BY <1>2, <2>1 DEF NewRun, RestartRunPlans
    <2>3. Place' \in {"close_events"}
      BY <2>1 DEF Place
    <2> QED
      BY <1>1, <2>2, <2>3, Weights, WeightsNext DEF Moves, Turns, Planned, ServletPlans
  <1> QED
    BY <1>2, PlanAt

LEMMA CloseMoves ==
  ASSUME TypeOK, Planned, Place = "close_events", Goes(Servlet, <<>>)
  PROVE  Moves("close_events", {"run_events", "new_events", "drop_events"}, 0, 0)
  <1>1. Turns(plan[Servlet], <<>> \o Tail(plan[Servlet]))
    BY ServletGoes
  <1>2. CASE plan[Servlet] = <<"close_events", "run_events", "create", "events">>
    <2>1. plan'[Servlet] = <<"run_events", "create", "events">>
      BY <1>1, <1>2 DEF Turns
    <2>2. plan[Servlet] \in TwoRuns /\ plan'[Servlet] \in TwoRuns
      BY <1>2, <2>1 DEF TwoRuns
    <2>3. Place' \in {"run_events", "new_events", "drop_events"}
      BY <2>1 DEF Place
    <2> QED
      BY <1>1, <2>2, <2>3, Weights, WeightsNext DEF Moves, Turns, Planned, ServletPlans
  <1>3. CASE plan[Servlet] = <<"close_events", "new_events">>
    <2>1. plan'[Servlet] = <<"new_events">>
      BY <1>1, <1>3 DEF Turns
    <2>2. plan[Servlet] \in NewRun /\ plan'[Servlet] \in NewRun
      BY <1>3, <2>1 DEF NewRun, RestartRunPlans
    <2>3. Place' \in {"run_events", "new_events", "drop_events"}
      BY <2>1 DEF Place
    <2> QED
      BY <1>1, <2>2, <2>3, Weights, WeightsNext DEF Moves, Turns, Planned, ServletPlans
  <1>4. CASE plan[Servlet] = <<"close_events", "drop_events">>
    <2>1. plan'[Servlet] = <<"drop_events">>
      BY <1>1, <1>4 DEF Turns
    <2>2. plan[Servlet] \in NoRun /\ plan'[Servlet] \in NoRun
      BY <1>4, <2>1 DEF NoRun, RunPlans, StopPlans
    <2>3. Place' \in {"run_events", "new_events", "drop_events"}
      BY <2>1 DEF Place
    <2> QED
      BY <1>1, <2>2, <2>3, Weights, WeightsNext DEF Moves, Turns, Planned, ServletPlans
  <1> QED
    BY <1>2, <1>3, <1>4, PlanAt

LEMMA FirstMoves ==
  ASSUME TypeOK, Planned, Place = "first_events", Goes(Servlet, <<"run_events">>)
  PROVE  Moves("first_events", {"run_events"}, 1, 0)
  <1>1. Turns(plan[Servlet], <<"run_events">> \o Tail(plan[Servlet]))
    BY ServletGoes
  <1>2. CASE plan[Servlet] = <<"first_events">>
    <2>0. Tail(plan[Servlet]) = <<>>
      BY <1>2
    <2>1. plan'[Servlet] = <<"run_events">>
      <3>1. <<"run_events">> \o <<>> = <<"run_events">>
        BY PushOne
      <3> QED
        BY <1>1, <2>0, <3>1 DEF Turns
    <2>2. plan[Servlet] \in NewRun /\ plan'[Servlet] \in LastRun
      BY <1>2, <2>1 DEF NewRun, RestartRunPlans, LastRun
    <2>3. Place' \in {"run_events"}
      BY <2>1 DEF Place
    <2> QED
      BY <1>1, <2>2, <2>3, Weights, WeightsNext DEF Moves, Turns, Planned, ServletPlans
  <1> QED
    BY <1>2, PlanAt

LEMMA FirstFails ==
  ASSUME TypeOK, Planned, Place = "first_events", Goes(Servlet, <<>>)
  PROVE  Moves("first_events", {"idle"}, 0, 0)
  <1>1. Turns(plan[Servlet], <<>> \o Tail(plan[Servlet]))
    BY ServletGoes
  <1>2. CASE plan[Servlet] = <<"first_events">>
    <2>1. plan'[Servlet] = <<>>
      BY <1>1, <1>2 DEF Turns
    <2>2. plan[Servlet] \in NewRun /\ plan'[Servlet] \in NoRun
      BY <1>2, <2>1 DEF NewRun, RestartRunPlans, NoRun, RunPlans, StopPlans
    <2>3. Place' \in {"idle"}
      BY <2>1 DEF Place
    <2> QED
      BY <1>1, <2>2, <2>3, Weights, WeightsNext DEF Moves, Turns, Planned, ServletPlans
  <1> QED
    BY <1>2, PlanAt

LEMMA NewMoves ==
  ASSUME TypeOK, Planned, Place = "new_events", Goes(Servlet, <<"run_events">>)
  PROVE  Moves("new_events", {"run_events"}, 1, 0)
  <1>1. Turns(plan[Servlet], <<"run_events">> \o Tail(plan[Servlet]))
    BY ServletGoes
  <1>2. CASE plan[Servlet] = <<"new_events">>
    <2>0. Tail(plan[Servlet]) = <<>>
      BY <1>2
    <2>1. plan'[Servlet] = <<"run_events">>
      <3>1. <<"run_events">> \o <<>> = <<"run_events">>
        BY PushOne
      <3> QED
        BY <1>1, <2>0, <3>1 DEF Turns
    <2>2. plan[Servlet] \in NewRun /\ plan'[Servlet] \in LastRun
      BY <1>2, <2>1 DEF NewRun, RestartRunPlans, LastRun
    <2>3. Place' \in {"run_events"}
      BY <2>1 DEF Place
    <2> QED
      BY <1>1, <2>2, <2>3, Weights, WeightsNext DEF Moves, Turns, Planned, ServletPlans
  <1> QED
    BY <1>2, PlanAt

LEMMA RunMoves ==
  ASSUME TypeOK, Planned, Place = "run_events", Goes(Servlet, <<"schedule">>)
  PROVE  Moves("run_events", {"schedule"}, 0, 1)
  <1>1. Turns(plan[Servlet], <<"schedule">> \o Tail(plan[Servlet]))
    BY ServletGoes
  <1>2. CASE plan[Servlet] = <<"run_events", "create", "events">>
    <2>0. Tail(plan[Servlet]) = <<"create", "events">>
      BY <1>2
    <2>1. plan'[Servlet] = <<"schedule", "create", "events">>
      <3>1. <<"schedule">> \o <<"create", "events">> = <<"schedule", "create", "events">>
        BY PushOne
      <3> QED
        BY <1>1, <2>0, <3>1 DEF Turns
    <2>2. plan[Servlet] \in TwoRuns /\ plan'[Servlet] \in NewRun
      BY <1>2, <2>1 DEF TwoRuns, NewRun, RestartRunPlans
    <2>3. Place' \in {"schedule"}
      BY <2>1 DEF Place
    <2> QED
      BY <1>1, <2>2, <2>3, Weights, WeightsNext DEF Moves, Turns, Planned, ServletPlans
  <1>3. CASE plan[Servlet] = <<"run_events">>
    <2>0. Tail(plan[Servlet]) = <<>>
      BY <1>3
    <2>1. plan'[Servlet] = <<"schedule">>
      <3>1. <<"schedule">> \o <<>> = <<"schedule">>
        BY PushOne
      <3> QED
        BY <1>1, <2>0, <3>1 DEF Turns
    <2>2. plan[Servlet] \in LastRun /\ plan'[Servlet] \in NoRun
      BY <1>3, <2>1 DEF LastRun, NoRun, RunPlans, StopPlans
    <2>3. Place' \in {"schedule"}
      BY <2>1 DEF Place
    <2> QED
      BY <1>1, <2>2, <2>3, Weights, WeightsNext DEF Moves, Turns, Planned, ServletPlans
  <1> QED
    BY <1>2, <1>3, PlanAt

LEMMA RunFailsMoves ==
  ASSUME TypeOK, Planned, Place = "run_events", Goes(Servlet, <<>>)
  PROVE  Moves("run_events", {"create", "idle"}, 0, 1)
  <1>1. Turns(plan[Servlet], <<>> \o Tail(plan[Servlet]))
    BY ServletGoes
  <1>2. CASE plan[Servlet] = <<"run_events", "create", "events">>
    <2>1. plan'[Servlet] = <<"create", "events">>
      BY <1>1, <1>2 DEF Turns
    <2>2. plan[Servlet] \in TwoRuns /\ plan'[Servlet] \in NewRun
      BY <1>2, <2>1 DEF TwoRuns, NewRun, RestartRunPlans
    <2>3. Place' \in {"create", "idle"}
      BY <2>1 DEF Place
    <2> QED
      BY <1>1, <2>2, <2>3, Weights, WeightsNext DEF Moves, Turns, Planned, ServletPlans
  <1>3. CASE plan[Servlet] = <<"run_events">>
    <2>1. plan'[Servlet] = <<>>
      BY <1>1, <1>3 DEF Turns
    <2>2. plan[Servlet] \in LastRun /\ plan'[Servlet] \in NoRun
      BY <1>3, <2>1 DEF LastRun, NoRun, RunPlans, StopPlans
    <2>3. Place' \in {"create", "idle"}
      BY <2>1 DEF Place
    <2> QED
      BY <1>1, <2>2, <2>3, Weights, WeightsNext DEF Moves, Turns, Planned, ServletPlans
  <1> QED
    BY <1>2, <1>3, PlanAt

LEMMA DropMoves ==
  ASSUME TypeOK, Planned, Place = "drop_events", Goes(Servlet, <<>>)
  PROVE  Moves("drop_events", {"idle"}, 0, 0)
  <1>1. Turns(plan[Servlet], <<>> \o Tail(plan[Servlet]))
    BY ServletGoes
  <1>2. CASE plan[Servlet] = <<"drop_events">>
    <2>1. plan'[Servlet] = <<>>
      BY <1>1, <1>2 DEF Turns
    <2>2. plan[Servlet] \in NoRun /\ plan'[Servlet] \in NoRun
      BY <1>2, <2>1 DEF NoRun, RunPlans, StopPlans
    <2>3. Place' \in {"idle"}
      BY <2>1 DEF Place
    <2> QED
      BY <1>1, <2>2, <2>3, Weights, WeightsNext DEF Moves, Turns, Planned, ServletPlans
  <1> QED
    BY <1>2, PlanAt

LEMMA RowMoves ==
  ASSUME TypeOK, Planned, Place = "schedule", Goes(Servlet, <<"look", "schedule">>)
  PROVE  Moves("schedule", {"look"}, 0, 0)
  <1>1. Turns(plan[Servlet], <<"look", "schedule">> \o Tail(plan[Servlet]))
    BY ServletGoes
  <1>2. CASE plan[Servlet] = <<"schedule", "create", "events">>
    <2>0. Tail(plan[Servlet]) = <<"create", "events">>
      BY <1>2
    <2>1. plan'[Servlet] = <<"look", "schedule", "create", "events">>
      <3>1. <<"look", "schedule">> \o <<"create", "events">> = <<"look", "schedule", "create", "events">>
        BY PushTwoOnTwo
      <3> QED
        BY <1>1, <2>0, <3>1 DEF Turns
    <2>2. plan[Servlet] \in NewRun /\ plan'[Servlet] \in NewRun
      BY <1>2, <2>1 DEF NewRun, RestartRunPlans
    <2>3. Place' \in {"look"}
      BY <2>1 DEF Place
    <2> QED
      BY <1>1, <2>2, <2>3, Weights, WeightsNext DEF Moves, Turns, Planned, ServletPlans
  <1>3. CASE plan[Servlet] = <<"schedule">>
    <2>0. Tail(plan[Servlet]) = <<>>
      BY <1>3
    <2>1. plan'[Servlet] = <<"look", "schedule">>
      <3>1. <<"look", "schedule">> \o <<>> = <<"look", "schedule">>
        BY PushTwo
      <3> QED
        BY <1>1, <2>0, <3>1 DEF Turns
    <2>2. plan[Servlet] \in NoRun /\ plan'[Servlet] \in NoRun
      BY <1>3, <2>1 DEF NoRun, RunPlans, StopPlans
    <2>3. Place' \in {"look"}
      BY <2>1 DEF Place
    <2> QED
      BY <1>1, <2>2, <2>3, Weights, WeightsNext DEF Moves, Turns, Planned, ServletPlans
  <1> QED
    BY <1>2, <1>3, RunPlanAt

LEMMA RunEndsMoves ==
  ASSUME TypeOK, Planned, Place = "schedule", Goes(Servlet, <<>>)
  PROVE  Moves("schedule", {"create", "idle"}, 0, 0)
  <1>1. Turns(plan[Servlet], <<>> \o Tail(plan[Servlet]))
    BY ServletGoes
  <1>2. CASE plan[Servlet] = <<"schedule", "create", "events">>
    <2>1. plan'[Servlet] = <<"create", "events">>
      BY <1>1, <1>2 DEF Turns
    <2>2. plan[Servlet] \in NewRun /\ plan'[Servlet] \in NewRun
      BY <1>2, <2>1 DEF NewRun, RestartRunPlans
    <2>3. Place' \in {"create", "idle"}
      BY <2>1 DEF Place
    <2> QED
      BY <1>1, <2>2, <2>3, Weights, WeightsNext DEF Moves, Turns, Planned, ServletPlans
  <1>3. CASE plan[Servlet] = <<"schedule">>
    <2>1. plan'[Servlet] = <<>>
      BY <1>1, <1>3 DEF Turns
    <2>2. plan[Servlet] \in NoRun /\ plan'[Servlet] \in NoRun
      BY <1>3, <2>1 DEF NoRun, RunPlans, StopPlans
    <2>3. Place' \in {"create", "idle"}
      BY <2>1 DEF Place
    <2> QED
      BY <1>1, <2>2, <2>3, Weights, WeightsNext DEF Moves, Turns, Planned, ServletPlans
  <1> QED
    BY <1>2, <1>3, RunPlanAt

LEMMA LookKnows ==
  ASSUME TypeOK, Planned, Place = "look", Goes(Servlet, <<"know", "instance">>)
  PROVE  Moves("look", {"know"}, 0, 0)
  <1>1. Turns(plan[Servlet], <<"know", "instance">> \o Tail(plan[Servlet]))
    BY ServletGoes
  <1>2. CASE plan[Servlet] = <<"look", "schedule", "create", "events">>
    <2>0. Tail(plan[Servlet]) = <<"schedule", "create", "events">>
      BY <1>2
    <2>1. plan'[Servlet] = <<"know", "instance", "schedule", "create", "events">>
      <3>1. <<"know", "instance">> \o <<"schedule", "create", "events">> = <<"know", "instance", "schedule", "create", "events">>
        BY PushTwoOnThree
      <3> QED
        BY <1>1, <2>0, <3>1 DEF Turns
    <2>2. plan[Servlet] \in NewRun /\ plan'[Servlet] \in NewRun
      BY <1>2, <2>1 DEF NewRun, RestartRunPlans
    <2>3. Place' \in {"know"}
      BY <2>1 DEF Place
    <2> QED
      BY <1>1, <2>2, <2>3, Weights, WeightsNext DEF Moves, Turns, Planned, ServletPlans
  <1>3. CASE plan[Servlet] = <<"look", "schedule">>
    <2>0. Tail(plan[Servlet]) = <<"schedule">>
      BY <1>3
    <2>1. plan'[Servlet] = <<"know", "instance", "schedule">>
      <3>1. <<"know", "instance">> \o <<"schedule">> = <<"know", "instance", "schedule">>
        BY PushTwo
      <3> QED
        BY <1>1, <2>0, <3>1 DEF Turns
    <2>2. plan[Servlet] \in NoRun /\ plan'[Servlet] \in NoRun
      BY <1>3, <2>1 DEF NoRun, RunPlans, StopPlans
    <2>3. Place' \in {"know"}
      BY <2>1 DEF Place
    <2> QED
      BY <1>1, <2>2, <2>3, Weights, WeightsNext DEF Moves, Turns, Planned, ServletPlans
  <1> QED
    BY <1>2, <1>3, RunPlanAt

LEMMA LookMoves ==
  ASSUME TypeOK, Planned, Place = "look", Goes(Servlet, <<"instance">>)
  PROVE  Moves("look", {"instance"}, 0, 0)
  <1>1. Turns(plan[Servlet], <<"instance">> \o Tail(plan[Servlet]))
    BY ServletGoes
  <1>2. CASE plan[Servlet] = <<"look", "schedule", "create", "events">>
    <2>0. Tail(plan[Servlet]) = <<"schedule", "create", "events">>
      BY <1>2
    <2>1. plan'[Servlet] = <<"instance", "schedule", "create", "events">>
      <3>1. <<"instance">> \o <<"schedule", "create", "events">> = <<"instance", "schedule", "create", "events">>
        BY PushOne
      <3> QED
        BY <1>1, <2>0, <3>1 DEF Turns
    <2>2. plan[Servlet] \in NewRun /\ plan'[Servlet] \in NewRun
      BY <1>2, <2>1 DEF NewRun, RestartRunPlans
    <2>3. Place' \in {"instance"}
      BY <2>1 DEF Place
    <2> QED
      BY <1>1, <2>2, <2>3, Weights, WeightsNext DEF Moves, Turns, Planned, ServletPlans
  <1>3. CASE plan[Servlet] = <<"look", "schedule">>
    <2>0. Tail(plan[Servlet]) = <<"schedule">>
      BY <1>3
    <2>1. plan'[Servlet] = <<"instance", "schedule">>
      <3>1. <<"instance">> \o <<"schedule">> = <<"instance", "schedule">>
        BY PushOne
      <3> QED
        BY <1>1, <2>0, <3>1 DEF Turns
    <2>2. plan[Servlet] \in NoRun /\ plan'[Servlet] \in NoRun
      BY <1>3, <2>1 DEF NoRun, RunPlans, StopPlans
    <2>3. Place' \in {"instance"}
      BY <2>1 DEF Place
    <2> QED
      BY <1>1, <2>2, <2>3, Weights, WeightsNext DEF Moves, Turns, Planned, ServletPlans
  <1> QED
    BY <1>2, <1>3, RunPlanAt

LEMMA KnowFills ==
  ASSUME TypeOK, Planned, Place = "know", Goes(Servlet, <<"fill">>)
  PROVE  Moves("know", {"fill"}, 0, 0)
  <1>1. Turns(plan[Servlet], <<"fill">> \o Tail(plan[Servlet]))
    BY ServletGoes
  <1>2. CASE plan[Servlet] = <<"know", "instance", "schedule", "create", "events">>
    <2>0. Tail(plan[Servlet]) = <<"instance", "schedule", "create", "events">>
      BY <1>2
    <2>1. plan'[Servlet] = <<"fill", "instance", "schedule", "create", "events">>
      <3>1. <<"fill">> \o <<"instance", "schedule", "create", "events">> = <<"fill", "instance", "schedule", "create", "events">>
        BY PushOneOnFour
      <3> QED
        BY <1>1, <2>0, <3>1 DEF Turns
    <2>2. plan[Servlet] \in NewRun /\ plan'[Servlet] \in NewRun
      BY <1>2, <2>1 DEF NewRun, RestartRunPlans
    <2>3. Place' \in {"fill"}
      BY <2>1 DEF Place
    <2> QED
      BY <1>1, <2>2, <2>3, Weights, WeightsNext DEF Moves, Turns, Planned, ServletPlans
  <1>3. CASE plan[Servlet] = <<"know", "instance", "schedule">>
    <2>0. Tail(plan[Servlet]) = <<"instance", "schedule">>
      BY <1>3
    <2>1. plan'[Servlet] = <<"fill", "instance", "schedule">>
      <3>1. <<"fill">> \o <<"instance", "schedule">> = <<"fill", "instance", "schedule">>
        BY PushOne
      <3> QED
        BY <1>1, <2>0, <3>1 DEF Turns
    <2>2. plan[Servlet] \in NoRun /\ plan'[Servlet] \in NoRun
      BY <1>3, <2>1 DEF NoRun, RunPlans, StopPlans
    <2>3. Place' \in {"fill"}
      BY <2>1 DEF Place
    <2> QED
      BY <1>1, <2>2, <2>3, Weights, WeightsNext DEF Moves, Turns, Planned, ServletPlans
  <1> QED
    BY <1>2, <1>3, RunPlanAt

LEMMA KnowMoves ==
  ASSUME TypeOK, Planned, Place = "know", Goes(Servlet, <<>>)
  PROVE  Moves("know", {"instance"}, 0, 0)
  <1>1. Turns(plan[Servlet], <<>> \o Tail(plan[Servlet]))
    BY ServletGoes
  <1>2. CASE plan[Servlet] = <<"know", "instance", "schedule", "create", "events">>
    <2>1. plan'[Servlet] = <<"instance", "schedule", "create", "events">>
      BY <1>1, <1>2 DEF Turns
    <2>2. plan[Servlet] \in NewRun /\ plan'[Servlet] \in NewRun
      BY <1>2, <2>1 DEF NewRun, RestartRunPlans
    <2>3. Place' \in {"instance"}
      BY <2>1 DEF Place
    <2> QED
      BY <1>1, <2>2, <2>3, Weights, WeightsNext DEF Moves, Turns, Planned, ServletPlans
  <1>3. CASE plan[Servlet] = <<"know", "instance", "schedule">>
    <2>1. plan'[Servlet] = <<"instance", "schedule">>
      BY <1>1, <1>3 DEF Turns
    <2>2. plan[Servlet] \in NoRun /\ plan'[Servlet] \in NoRun
      BY <1>3, <2>1 DEF NoRun, RunPlans, StopPlans
    <2>3. Place' \in {"instance"}
      BY <2>1 DEF Place
    <2> QED
      BY <1>1, <2>2, <2>3, Weights, WeightsNext DEF Moves, Turns, Planned, ServletPlans
  <1> QED
    BY <1>2, <1>3, RunPlanAt

LEMMA FillMoves ==
  ASSUME TypeOK, Planned, Place = "fill", Goes(Servlet, <<>>)
  PROVE  Moves("fill", {"instance"}, 0, 0)
  <1>1. Turns(plan[Servlet], <<>> \o Tail(plan[Servlet]))
    BY ServletGoes
  <1>2. CASE plan[Servlet] = <<"fill", "instance", "schedule", "create", "events">>
    <2>1. plan'[Servlet] = <<"instance", "schedule", "create", "events">>
      BY <1>1, <1>2 DEF Turns
    <2>2. plan[Servlet] \in NewRun /\ plan'[Servlet] \in NewRun
      BY <1>2, <2>1 DEF NewRun, RestartRunPlans
    <2>3. Place' \in {"instance"}
      BY <2>1 DEF Place
    <2> QED
      BY <1>1, <2>2, <2>3, Weights, WeightsNext DEF Moves, Turns, Planned, ServletPlans
  <1>3. CASE plan[Servlet] = <<"fill", "instance", "schedule">>
    <2>1. plan'[Servlet] = <<"instance", "schedule">>
      BY <1>1, <1>3 DEF Turns
    <2>2. plan[Servlet] \in NoRun /\ plan'[Servlet] \in NoRun
      BY <1>3, <2>1 DEF NoRun, RunPlans, StopPlans
    <2>3. Place' \in {"instance"}
      BY <2>1 DEF Place
    <2> QED
      BY <1>1, <2>2, <2>3, Weights, WeightsNext DEF Moves, Turns, Planned, ServletPlans
  <1> QED
    BY <1>2, <1>3, RunPlanAt

LEMMA InstanceMoves ==
  ASSUME TypeOK, Planned, Place = "instance", Goes(Servlet, <<>>)
  PROVE  Moves("instance", {"schedule"}, 0, 0)
  <1>1. Turns(plan[Servlet], <<>> \o Tail(plan[Servlet]))
    BY ServletGoes
  <1>2. CASE plan[Servlet] = <<"instance", "schedule", "create", "events">>
    <2>1. plan'[Servlet] = <<"schedule", "create", "events">>
      BY <1>1, <1>2 DEF Turns
    <2>2. plan[Servlet] \in NewRun /\ plan'[Servlet] \in NewRun
      BY <1>2, <2>1 DEF NewRun, RestartRunPlans
    <2>3. Place' \in {"schedule"}
      BY <2>1 DEF Place
    <2> QED
      BY <1>1, <2>2, <2>3, Weights, WeightsNext DEF Moves, Turns, Planned, ServletPlans
  <1>3. CASE plan[Servlet] = <<"instance", "schedule">>
    <2>1. plan'[Servlet] = <<"schedule">>
      BY <1>1, <1>3 DEF Turns
    <2>2. plan[Servlet] \in NoRun /\ plan'[Servlet] \in NoRun
      BY <1>3, <2>1 DEF NoRun, RunPlans, StopPlans
    <2>3. Place' \in {"schedule"}
      BY <2>1 DEF Place
    <2> QED
      BY <1>1, <2>2, <2>3, Weights, WeightsNext DEF Moves, Turns, Planned, ServletPlans
  <1> QED
    BY <1>2, <1>3, RunPlanAt

LEMMA FillGivesUp ==
  ASSUME TypeOK, Planned, Place = "fill", GivesUp(Servlet)
  PROVE  Moves("fill", {"schedule"}, 0, 0)
  <1>1. Turns(plan[Servlet], Tail(Tail(plan[Servlet])))
    BY EventDaemonAssumption DEF TypeOK, GivesUp, Request, Turns
  <1>2. CASE plan[Servlet] = <<"fill", "instance", "schedule", "create", "events">>
    <2>1. plan'[Servlet] = <<"schedule", "create", "events">>
      BY <1>1, <1>2 DEF Turns
    <2>2. plan[Servlet] \in NewRun /\ plan'[Servlet] \in NewRun
      BY <1>2, <2>1 DEF NewRun, RestartRunPlans
    <2>3. Place' \in {"schedule"}
      BY <2>1 DEF Place
    <2> QED
      BY <1>1, <2>2, <2>3, Weights, WeightsNext DEF Moves, Turns, Planned, ServletPlans
  <1>3. CASE plan[Servlet] = <<"fill", "instance", "schedule">>
    <2>1. plan'[Servlet] = <<"schedule">>
      BY <1>1, <1>3 DEF Turns
    <2>2. plan[Servlet] \in NoRun /\ plan'[Servlet] \in NoRun
      BY <1>3, <2>1 DEF NoRun, RunPlans, StopPlans
    <2>3. Place' \in {"schedule"}
      BY <2>1 DEF Place
    <2> QED
      BY <1>1, <2>2, <2>3, Weights, WeightsNext DEF Moves, Turns, Planned, ServletPlans
  <1> QED
    BY <1>2, <1>3, RunPlanAt
-----------------------------------------------------------------------------
(* What a step leaves as it is                                             *)

LEMMA PlaceStays ==
  ASSUME plan'[Servlet] = plan[Servlet]
  PROVE  Place' = Place /\ NewLeft' = NewLeft /\ BindsLeft' = BindsLeft
  BY DEF Place, NewLeft, BindsLeft

LEMMA ObjectsStay ==
  ASSUME UNCHANGED objects
  PROVE  Open' = Open /\ \A d \in Daemon : Live(d)' = Live(d)
  BY DEF objects, Open, Live

LEMMA PlansAreTyped ==
  \A p \in ServletPlans \cup PagePlans : p \in Seq(EventSteps \cup ServletSteps)
  <1> DEFINE S == EventSteps \cup ServletSteps
  <1>0. \A x \in {"schedule", "look", "know", "fill", "instance", "stop_scheduler", "stopping",
                  "create", "restart_events", "events", "close_events", "first_events",
                  "new_events", "run_events", "drop_events"} : x \in S
    BY DEF EventSteps, ServletSteps
  <1> HIDE DEF S
  <1>1. \A p \in TwoRuns : p \in Seq(S)
    <2>1. /\ <<"stop_scheduler", "restart_events", "create", "events">> \in Seq(S)
          /\ <<"stopping", "restart_events", "create", "events">> \in Seq(S)
          /\ <<"restart_events", "create", "events">> \in Seq(S)
          /\ <<"close_events", "run_events", "create", "events">> \in Seq(S)
          /\ <<"run_events", "create", "events">> \in Seq(S)
      BY <1>0
    <2> QED
      BY <2>1 DEF TwoRuns
  <1>2. \A p \in NewRun \cup LastRun : p \in Seq(S)
    <2>1. /\ <<"create", "events">> \in Seq(S)
          /\ <<"events">> \in Seq(S)
          /\ <<"close_events", "new_events">> \in Seq(S)
          /\ <<"first_events">> \in Seq(S)
          /\ <<"new_events">> \in Seq(S)
          /\ <<"schedule", "create", "events">> \in Seq(S)
          /\ <<"look", "schedule", "create", "events">> \in Seq(S)
          /\ <<"instance", "schedule", "create", "events">> \in Seq(S)
          /\ <<"know", "instance", "schedule", "create", "events">> \in Seq(S)
          /\ <<"fill", "instance", "schedule", "create", "events">> \in Seq(S)
          /\ <<"run_events">> \in Seq(S)
      BY <1>0
    <2> QED
      BY <2>1 DEF NewRun, RestartRunPlans, LastRun
  <1>3. \A p \in NoRun : p \in Seq(S)
    <2>1. /\ <<>> \in Seq(S)
          /\ <<"stop_scheduler", "close_events", "drop_events">> \in Seq(S)
          /\ <<"stopping", "close_events", "drop_events">> \in Seq(S)
          /\ <<"close_events", "drop_events">> \in Seq(S)
          /\ <<"drop_events">> \in Seq(S)
          /\ <<"schedule">> \in Seq(S)
          /\ <<"look", "schedule">> \in Seq(S)
          /\ <<"instance", "schedule">> \in Seq(S)
          /\ <<"know", "instance", "schedule">> \in Seq(S)
          /\ <<"fill", "instance", "schedule">> \in Seq(S)
      BY <1>0
    <2> QED
      BY <2>1 DEF NoRun, StopPlans, RunPlans
  <1>4. \A p \in PagePlans : p \in Seq(S)
    <2>1. /\ <<>> \in Seq(S)
          /\ <<"know", "look">> \in Seq(S)
          /\ <<"fill", "look">> \in Seq(S)
          /\ <<"look">> \in Seq(S)
          /\ <<"know", "instance">> \in Seq(S)
          /\ <<"fill", "instance">> \in Seq(S)
          /\ <<"instance">> \in Seq(S)
      BY <1>0
    <2> QED
      BY <2>1 DEF PagePlans
  <1> QED
    BY <1>1, <1>2, <1>3, <1>4 DEF ServletPlans, S

LEMMA PlanIsTyped ==
  ASSUME TypeOK, Planned', NEW r, NEW m, plan' = [plan EXCEPT ![r] = m]
  PROVE  plan' \in [Request -> Seq(EventSteps \cup ServletSteps)]
  <1>1. plan' = [x \in Request |-> plan'[x]]
    BY DEF TypeOK
  <1>2. \A x \in Request : plan'[x] \in Seq(EventSteps \cup ServletSteps)
    BY PlansAreTyped DEF Planned, Request
  <1> QED
    BY <1>1, <1>2
-----------------------------------------------------------------------------
(* Who owns what: the initial states                                       *)

LEMMA InitOwner == ASSUME Init PROVE OwnerInv
  <1>1. plan \in [Request -> Seq(EventSteps \cup ServletSteps)]
    BY DEF Init
  <1>2. TypeOK
    <2>1. EventTypeOK
      <3>1. Global \in Nat /\ MaxCalls \in Nat /\ MaxStores \in Nat /\ MaxFaults \in Nat
        BY EventDaemonAssumption DEF Global
      <3>2. active \subseteq Event /\ stores \in 0 .. MaxStores
        BY <3>1 DEF Init, EventInit
      <3>3. storing \in BOOLEAN
        BY DEF Init, EventInit
      <3>4. known = NotRead /\ cached \in [Event -> 0 .. Global] /\ row \in [Request -> Event]
        BY <3>1 DEF Init, EventInit, None
      <3>5. binds \in 0 .. 2 * MaxCalls /\ bind \in [Daemon -> 0 .. binds]
        BY <3>1 DEF Init, EventInit, None
      <3>6. handler \in [Daemon -> [Event -> 0 .. Global]] /\ lost \subseteq Event
        BY <3>1 DEF Init, EventInit, None
      <3>7. on \in 0 .. MaxCalls /\ todo \subseteq Event /\ skipped \subseteq Event
            /\ faults \in 0 .. MaxFaults
        BY <3>1 DEF Init, EventInit, None
      <3> QED
        BY <3>2, <3>3, <3>4, <3>5, <3>6, <3>7 DEF EventTypeOK
    <2>2. \A d \in Daemon : bind[d] = None /\ Live(d) = {}
      BY DEF Init, EventInit, Live
    <2> QED
      BY <1>1, <2>1, <2>2, EventDaemonAssumption
         DEF Init, TypeOK, None, Sched, SchedStates, Actions
  <1>3. plan[Servlet] = <<>> /\ Place = "idle" /\ Planned
    BY DEF Init, Place, Planned, ServletPlans, NoRun, PagePlans, Request
  <1>4. NewLeft = 0 /\ BindsLeft = 0
    BY <1>3, Weights DEF NoRun
  <1>5. Budget
    BY <1>4 DEF Init, EventInit, Budget
  <1>6. Told /\ Fresh /\ Ready
    BY <1>3 DEF Told, Fresh, Ready, InRun, EventSteps
  <1>7. OneScheduler /\ NothingLeaks /\ OneBind
    BY DEF Init, EventInit, OneScheduler, NothingLeaks, OneBind, Live, Open, None
  <1> QED
    BY <1>2, <1>3, <1>5, <1>6, <1>7 DEF OwnerInv
-----------------------------------------------------------------------------
(* Who owns what: a request, up to the events                              *)

LEMMA BeginMoves ==
  ASSUME TypeOK, Planned, Begin
  PROVE  /\ Planned' /\ Place = "idle" /\ Place' \in {"create", "stop_scheduler", "close_events"}
         /\ NewLeft = 0 /\ BindsLeft = 0 /\ NewLeft' <= 1 /\ BindsLeft' <= 2
         /\ \A p \in Page : plan'[p] = plan[p]
  <1>1. plan'[Servlet] = Plan(kind') /\ \A p \in Page : plan'[p] = plan[p]
    BY EventDaemonAssumption DEF TypeOK, Begin, Request
  <1>2. Plan(kind') \in {<<"create", "events">>,
                         <<"stop_scheduler", "restart_events", "create", "events">>,
                         <<"close_events", "new_events">>,
                         <<"stop_scheduler", "close_events", "drop_events">>}
    BY DEF Begin, Actions, Plan
  <1>3. plan'[Servlet] \in ServletPlans
    BY <1>1, <1>2 DEF ServletPlans, TwoRuns, NewRun, NoRun, StopPlans
  <1>4. Place' \in {"create", "stop_scheduler", "close_events"}
    BY <1>1, <1>2 DEF Place
  <1>5. plan[Servlet] = <<>>
    BY DEF Begin, Busy
  <1>6. NewLeft = 0 /\ BindsLeft = 0
    BY <1>5, Weights DEF NoRun
  <1>7. NewLeft' <= 1 /\ BindsLeft' <= 2
    BY DEF NewLeft, BindsLeft
  <1> QED
    BY <1>1, <1>3, <1>4, <1>5, <1>6, <1>7 DEF Planned, Place

LEMMA BeginOwner == ASSUME OwnerInv, Begin PROVE OwnerInv'
  <1>1. /\ Planned' /\ Place = "idle" /\ Place' \in {"create", "stop_scheduler", "close_events"}
        /\ NewLeft = 0 /\ BindsLeft = 0 /\ NewLeft' <= 1 /\ BindsLeft' <= 2
    BY BeginMoves DEF OwnerInv
  <1>2. Open' = Open /\ \A d \in Daemon : Live(d)' = Live(d)
    BY ObjectsStay DEF Begin
  <1>3. plan' \in [Request -> Seq(EventSteps \cup ServletSteps)]
    BY <1>1, PlanIsTyped DEF Begin, OwnerInv
  <1>4. TypeOK'
    BY <1>2, <1>3, EventDaemonAssumption
       DEF OwnerInv, Begin, TypeOK, EventTypeOK, table, statics, objects, locals, fields
  <1>5. Budget'
    <2>1. calls' = calls + 1 /\ daemons' = daemons /\ binds' = binds
      BY DEF Begin, objects, fields
    <2>2. calls \in Nat /\ daemons \in Nat /\ binds \in Nat
      BY EventDaemonAssumption DEF OwnerInv, TypeOK, EventTypeOK
    <2> QED
      BY <1>1, <2>1, <2>2 DEF OwnerInv, Budget, NewLeft, BindsLeft
  <1>6. Told' /\ Fresh' /\ Ready'
    BY <1>1 DEF Told, Fresh, Ready, InRun, EventSteps
  <1>7. OneScheduler' /\ NothingLeaks' /\ OneBind'
    BY <1>2 DEF OwnerInv, Begin, OneScheduler, NothingLeaks, OneBind, objects, fields
  <1> QED
    BY <1>1, <1>4, <1>5, <1>6, <1>7 DEF OwnerInv

LEMMA FaultIsTyped ==
  ASSUME TypeOK, Fault \/ UNCHANGED faults
  PROVE  faults' \in 0 .. MaxFaults
  BY EventDaemonAssumption DEF TypeOK, EventTypeOK, Fault

\* A step of the request that makes nothing, nor runs or closes a daemon.
LEMMA Elsewhere ==
  ASSUME OwnerInv, UNCHANGED <<table, cached, objects, locals, eventDaemon, daemons, kind, calls>>,
         known' = NotRead \/ known' \in SUBSET Event, faults' \in 0 .. MaxFaults,
         plan' \in [Request -> Seq(EventSteps \cup ServletSteps)],
         NewLeft' <= NewLeft, BindsLeft' <= BindsLeft,
         sched' \in [Sched -> SchedStates], schedDaemon' \in 0 .. MaxCalls
  PROVE  TypeOK' /\ Budget' /\ NothingLeaks' /\ OneBind'
  <1>1. Open' = Open /\ \A d \in Daemon : Live(d)' = Live(d)
    BY ObjectsStay
  <1>2. TypeOK'
    BY <1>1 DEF OwnerInv, TypeOK, EventTypeOK, table, objects, locals
  <1>3. Budget'
    BY EventDaemonAssumption
       DEF OwnerInv, TypeOK, EventTypeOK, Budget, objects, NewLeft, BindsLeft
  <1>4. NothingLeaks' /\ OneBind'
    BY <1>1 DEF OwnerInv, NothingLeaks, OneBind, objects
  <1> QED
    BY <1>2, <1>3, <1>4

LEMMA StopBeginsOwner == ASSUME OwnerInv, StopBegins PROVE OwnerInv'
  <1>0. TypeOK /\ Planned /\ Place = "stop_scheduler"
    BY AtPlace DEF OwnerInv, StopBegins
  <1>1. schedDaemon = None => Moves("stop_scheduler", {"restart_events", "close_events"}, 0, 0)
    BY <1>0, StopSkips DEF StopBegins
  <1>2. schedDaemon # None => Moves("stop_scheduler", {"stopping"}, 0, 0)
    BY <1>0, StopBeginsMoves DEF StopBegins
  <1>3. Planned' /\ NewLeft' <= NewLeft /\ BindsLeft' <= BindsLeft
    BY <1>1, <1>2 DEF Moves, NewLeft, BindsLeft
  <1>4. Place' \in {"restart_events", "close_events", "stopping"}
    BY <1>1, <1>2 DEF Moves
  <1>5. plan' \in [Request -> Seq(EventSteps \cup ServletSteps)]
    BY <1>0, <1>3, PlanIsTyped DEF StopBegins, Goes
  <1>6. sched' \in [Sched -> SchedStates] /\ schedDaemon' \in 0 .. MaxCalls
    BY <1>0 DEF TypeOK, StopBegins, StopAll, SchedStates
  <1>7. TypeOK' /\ Budget' /\ NothingLeaks' /\ OneBind'
    BY <1>0, <1>3, <1>5, <1>6, FaultIsTyped, Elsewhere
       DEF StopBegins, Others, Untouched, statics, TypeOK, EventTypeOK
  <1>8. Told'
    <2>1. CASE schedDaemon = None
      BY <1>1, <2>1 DEF Moves, Told
    <2>2. CASE schedDaemon # None
      <3>1. schedDaemon \in Sched /\ sched[schedDaemon] \in {"running", "stopping", "ended"}
        BY <1>0, <2>2, EventDaemonAssumption DEF StopBegins, HasPool, TypeOK, Sched, None
      <3>2. sched'[schedDaemon] \in {"stopping", "ended"}
        BY <1>0, <2>2, <3>1 DEF StopBegins, StopAll, TypeOK
      <3> QED
        BY <2>2, <3>2 DEF StopBegins, Told
    <2> QED
      BY <2>1, <2>2
  <1>9. OneScheduler'
    BY DEF OwnerInv, OneScheduler, StopBegins, StopAll, TypeOK, Sched
  <1>10. Fresh' /\ Ready'
    BY <1>4 DEF Fresh, Ready, InRun, EventSteps
  <1> QED
    BY <1>3, <1>7, <1>8, <1>9, <1>10 DEF OwnerInv

LEMMA StopEndsOwner == ASSUME OwnerInv, StopEnds PROVE OwnerInv'
  <1>0. TypeOK /\ Planned /\ Place = "stopping"
    BY AtPlace DEF OwnerInv, StopEnds
  <1>1. Moves("stopping", {"restart_events", "close_events"}, 0, 0)
    BY <1>0, StopEndsMoves DEF StopEnds
  <1>2. Planned' /\ NewLeft' <= NewLeft /\ BindsLeft' <= BindsLeft
    BY <1>1 DEF Moves, NewLeft, BindsLeft
  <1>3. plan' \in [Request -> Seq(EventSteps \cup ServletSteps)]
    BY <1>0, <1>2, PlanIsTyped DEF StopEnds, Goes
  <1>4. schedDaemon' \in 0 .. MaxCalls
    BY EventDaemonAssumption DEF StopEnds, None
  <1>5. TypeOK' /\ Budget' /\ NothingLeaks' /\ OneBind'
    BY <1>0, <1>2, <1>3, <1>4, Elsewhere
       DEF StopEnds, Others, Untouched, statics, TypeOK, EventTypeOK
  <1>6. Told' /\ Fresh' /\ Ready'
    BY <1>1 DEF Moves, Told, Fresh, Ready, InRun, EventSteps
  <1>7. OneScheduler'
    BY <1>0 DEF OwnerInv, OneScheduler, StopEnds, Told
  <1> QED
    BY <1>2, <1>5, <1>6, <1>7 DEF OwnerInv

LEMMA StopFailsOwner == ASSUME OwnerInv, StopFails PROVE OwnerInv'
  <1>0. TypeOK /\ Planned /\ Place \in {"stop_scheduler", "stopping"}
    BY AtPlace DEF OwnerInv, StopFails
  <1>1. Planned' /\ Place' = "idle" /\ NewLeft' <= NewLeft /\ BindsLeft' <= BindsLeft
    BY <1>0, ServletThrows DEF StopFails
  <1>2. plan' \in [Request -> Seq(EventSteps \cup ServletSteps)]
    BY <1>0, <1>1, PlanIsTyped DEF StopFails, Throws
  <1>3. sched' \in [Sched -> SchedStates] /\ schedDaemon' \in 0 .. MaxCalls
    BY <1>0, EventDaemonAssumption DEF TypeOK, StopFails, Kill, SchedStates, None
  <1>4. faults' \in 0 .. MaxFaults
    BY <1>0, FaultIsTyped DEF StopFails
  <1>5. TypeOK' /\ Budget' /\ NothingLeaks' /\ OneBind'
    BY <1>0, <1>1, <1>2, <1>3, <1>4, Elsewhere
       DEF StopFails, Untouched, statics, TypeOK, EventTypeOK
  <1>6. Told' /\ Fresh' /\ Ready'
    BY <1>1 DEF Told, Fresh, Ready, InRun, EventSteps
  <1>7. OneScheduler'
    BY <1>0 DEF OwnerInv, OneScheduler, StopFails, Kill, TypeOK, Sched
  <1> QED
    BY <1>1, <1>5, <1>6, <1>7 DEF OwnerInv

LEMMA CreateOwner == ASSUME OwnerInv, Create PROVE OwnerInv'
  <1>0. TypeOK /\ Planned /\ Place = "create"
    BY AtPlace DEF OwnerInv, Create
  <1>1. Moves("create", {"events"}, 0, 0)
    BY <1>0, CreateMoves DEF Create
  <1>2. Planned' /\ NewLeft' <= NewLeft /\ BindsLeft' <= BindsLeft
    BY <1>1 DEF Moves, NewLeft, BindsLeft
  <1>3. plan' \in [Request -> Seq(EventSteps \cup ServletSteps)]
    BY <1>0, <1>2, PlanIsTyped DEF Create, Goes
  <1>4. sched' \in [Sched -> SchedStates] /\ schedDaemon' \in 0 .. MaxCalls
    BY <1>0, EventDaemonAssumption DEF TypeOK, Create, SchedStates, Sched
  <1>5. TypeOK' /\ Budget' /\ NothingLeaks' /\ OneBind'
    BY <1>0, <1>2, <1>3, <1>4, Elsewhere
       DEF Create, Others, Untouched, statics, TypeOK, EventTypeOK
  <1>6. Told' /\ Fresh' /\ Ready'
    BY <1>1 DEF Moves, Told, Fresh, Ready, InRun, EventSteps
  <1>7. OneScheduler'
    <2>1. CASE schedDaemon # None
      BY <2>1 DEF OwnerInv, OneScheduler, Create
    <2>2. CASE schedDaemon = None
      BY <1>0, <2>2, EventDaemonAssumption DEF OwnerInv, OneScheduler, Create, TypeOK, Sched, None
    <2> QED
      BY <2>1, <2>2
  <1> QED
    BY <1>2, <1>5, <1>6, <1>7 DEF OwnerInv

LEMMA CreateFailsOwner == ASSUME OwnerInv, CreateFails PROVE OwnerInv'
  <1>0. TypeOK /\ Planned
    BY DEF OwnerInv
  <1>1. Planned' /\ Place' = "idle" /\ NewLeft' <= NewLeft /\ BindsLeft' <= BindsLeft
    BY <1>0, ServletThrows DEF CreateFails
  <1>2. plan' \in [Request -> Seq(EventSteps \cup ServletSteps)]
    BY <1>0, <1>1, PlanIsTyped DEF CreateFails, Throws
  <1>3. faults' \in 0 .. MaxFaults
    BY <1>0, FaultIsTyped DEF CreateFails
  <1>4. TypeOK' /\ Budget' /\ NothingLeaks' /\ OneBind'
    BY <1>0, <1>1, <1>2, <1>3, Elsewhere
       DEF CreateFails, Others, Untouched, statics, fields, TypeOK, EventTypeOK
  <1>5. Told' /\ Fresh' /\ Ready'
    BY <1>1 DEF Told, Fresh, Ready, InRun, EventSteps
  <1>6. OneScheduler'
    BY DEF OwnerInv, OneScheduler, CreateFails, fields
  <1> QED
    BY <1>1, <1>4, <1>5, <1>6 DEF OwnerInv

LEMMA SchedThreadOwner ==
  ASSUME OwnerInv, NEW s \in Sched, SchedThread(s)
  PROVE  OwnerInv'
  <1>0. TypeOK /\ Planned
    BY DEF OwnerInv
  <1>1. /\ plan' = plan /\ active' = active /\ storing' = storing /\ stores' = stores
        /\ cached' = cached /\ UNCHANGED objects /\ UNCHANGED locals
        /\ UNCHANGED <<eventDaemon, daemons, schedDaemon, kind, calls>>
    BY DEF SchedThread, Reads, HasRead, ReadFails, Lives, Thread
  <1>2. known' = NotRead \/ known' \in SUBSET Event
    BY <1>0 DEF SchedThread, Reads, HasRead, ReadFails, Lives, TypeOK, EventTypeOK
  <1>3. faults' \in 0 .. MaxFaults
    BY <1>0, FaultIsTyped DEF SchedThread, Reads, HasRead, ReadFails, Lives
  <1>4. \E x, y \in SchedStates : Becomes(s, x, y) /\ x # "none" /\ (x \in {"stopping", "ended"} => y = "ended")
                                  /\ (y \in {"starting", "reading", "running"} => x \in {"starting", "reading"})
    BY DEF SchedThread, Reads, HasRead, ReadFails, Lives, SchedStates
  <1>5. sched' \in [Sched -> SchedStates]
    BY <1>0, <1>4 DEF TypeOK, Becomes
  <1>6. Planned' /\ Place' = Place /\ NewLeft' <= NewLeft /\ BindsLeft' <= BindsLeft
    BY <1>0, <1>1 DEF Planned, Place, NewLeft, BindsLeft
  <1>7. TypeOK' /\ Budget' /\ NothingLeaks' /\ OneBind'
    BY <1>0, <1>1, <1>2, <1>3, <1>5, <1>6, Elsewhere DEF TypeOK, table
  <1>8. Told'
    BY <1>0, <1>1, <1>4, <1>6 DEF OwnerInv, Told, Becomes, TypeOK, Sched
  <1>9. OneScheduler'
    BY <1>0, <1>1, <1>4 DEF OwnerInv, OneScheduler, Becomes, TypeOK
  <1>10. Open' = Open /\ \A d \in Daemon : Live(d)' = Live(d)
    BY <1>1, ObjectsStay
  <1>11. Fresh' /\ Ready'
    BY <1>0, <1>1, <1>6, <1>10, EventDaemonAssumption
       DEF OwnerInv, Fresh, Ready, InRun, Left, locals, objects, TypeOK, EventTypeOK, Daemon, None
  <1> QED
    BY <1>6, <1>7, <1>8, <1>9, <1>11 DEF OwnerInv
-----------------------------------------------------------------------------
(* Who owns what: a request, at the events                                 *)

LEMMA DispatchOwner == ASSUME OwnerInv, Dispatch PROVE OwnerInv'
  <1>0. TypeOK /\ Planned
    BY DEF OwnerInv
  <1>1. /\ Planned' /\ NewLeft' <= NewLeft /\ BindsLeft' <= BindsLeft
        /\ Place' \in {"create", "close_events", "idle", "first_events"}
        /\ Place' = "first_events" => eventDaemon = None
    <2>1. CASE At(Servlet, "restart_events")
      <3>1. Place = "restart_events"
        BY <2>1, AtPlace
      <3>2. CASE eventDaemon = None
        BY <1>0, <3>1, <3>2, RestartSkips DEF Dispatch, At, Place, Moves, NewLeft, BindsLeft
      <3>3. CASE eventDaemon # None
        BY <1>0, <3>1, <3>3, RestartMoves DEF Dispatch, At, Place, Moves, NewLeft, BindsLeft
      <3> QED
        BY <3>2, <3>3
    <2>2. CASE At(Servlet, "events")
      <3>1. Place = "events"
        BY <2>2, AtPlace
      <3>2. CASE eventDaemon = None
        BY <1>0, <3>1, <3>2, EventsFirst DEF Dispatch, At, Place, Moves, NewLeft, BindsLeft
      <3>3. CASE eventDaemon # None /\ kind = "restart"
        BY <1>0, <3>1, <3>3, EventsAgain DEF Dispatch, At, Place, Moves, NewLeft, BindsLeft
      <3>4. CASE eventDaemon # None /\ kind # "restart"
        BY <1>0, <3>1, <3>4, EventsSkip DEF Dispatch, At, Place, Moves, NewLeft, BindsLeft
      <3> QED
        BY <3>2, <3>3, <3>4
    <2> QED
      BY <2>1, <2>2 DEF Dispatch
  <1>2. plan' \in [Request -> Seq(EventSteps \cup ServletSteps)]
    BY <1>0, <1>1, PlanIsTyped DEF Dispatch, Goes
  <1>3. TypeOK' /\ Budget' /\ NothingLeaks' /\ OneBind'
    BY <1>0, <1>1, <1>2, Elsewhere
       DEF Dispatch, Others, Untouched, statics, fields, TypeOK, EventTypeOK
  <1>4. Told' /\ Fresh' /\ Ready'
    BY <1>1 DEF Told, Fresh, Ready, InRun, EventSteps, Dispatch, fields
  <1>5. OneScheduler'
    BY DEF OwnerInv, OneScheduler, Dispatch, fields
  <1> QED
    BY <1>1, <1>3, <1>4, <1>5 DEF OwnerInv

LEMMA IsDaemon ==
  ASSUME TypeOK, eventDaemon # None
  PROVE  eventDaemon \in Daemon
  BY EventDaemonAssumption DEF TypeOK, Daemon, None

LEMMA CloseEventsOwner == ASSUME OwnerInv, CloseEvents PROVE OwnerInv'
  <1>0. TypeOK /\ Planned /\ Place = "close_events"
    BY AtPlace DEF OwnerInv, CloseEvents
  <1>1. Moves("close_events", {"run_events", "new_events", "drop_events"}, 0, 0)
    BY <1>0, CloseMoves DEF CloseEvents
  <1>2. Planned' /\ NewLeft' <= NewLeft /\ BindsLeft' <= BindsLeft
    BY <1>1 DEF Moves, NewLeft, BindsLeft
  <1>3. plan' \in [Request -> Seq(EventSteps \cup ServletSteps)]
    BY <1>0, <1>2, PlanIsTyped DEF CloseEvents, Goes
  <1>4. /\ UNCHANGED <<eventDaemon, daemons, schedDaemon, sched, binds, lost>>
        /\ \A d \in Daemon : bind'[d] = IF d = eventDaemon THEN None ELSE bind[d]
        /\ \A d \in Daemon : handler'[d] = IF d = eventDaemon THEN [e \in Event |-> None] ELSE handler[d]
        /\ bind' \in [Daemon -> 0 .. binds]
        /\ handler' \in [Daemon -> [Event -> 0 .. Global]]
    <2>1. 0 \in 0 .. binds /\ 0 \in 0 .. Global
      BY <1>0, EventDaemonAssumption DEF TypeOK, EventTypeOK, Global
    <2>2. bind \in [Daemon -> 0 .. binds] /\ handler \in [Daemon -> [Event -> 0 .. Global]]
      BY <1>0 DEF TypeOK, EventTypeOK
    <2>3. UNCHANGED <<eventDaemon, daemons, schedDaemon, sched, binds, lost>>
      BY DEF CloseEvents, fields
    <2>4. CASE eventDaemon = None
      BY <2>2, <2>3, <2>4 DEF CloseEvents, None, Daemon
    <2>5. CASE eventDaemon # None
      <3>1. /\ bind' = [bind EXCEPT ![eventDaemon] = None]
            /\ handler' = [handler EXCEPT ![eventDaemon] = [e \in Event |-> None]]
        BY <2>5 DEF CloseEvents, Close
      <3> QED
        BY <2>1, <2>2, <2>3, <3>1 DEF None
    <2> QED
      BY <2>4, <2>5
  <1>5. \A d \in Daemon : Live(d)' = IF d = eventDaemon THEN {} ELSE Live(d)
    BY <1>4 DEF Live
  <1>6. TypeOK'
    BY <1>0, <1>3, <1>4, <1>5 DEF CloseEvents, Untouched, table, statics, locals, fields, TypeOK, EventTypeOK
  <1>7. Budget'
    BY <1>0, <1>2, <1>4, EventDaemonAssumption
       DEF OwnerInv, TypeOK, EventTypeOK, Budget, CloseEvents, Untouched, NewLeft, BindsLeft
  <1>8. NothingLeaks' /\ OneBind'
    BY <1>4, <1>5 DEF OwnerInv, NothingLeaks, OneBind, Open
  <1>9. Told' /\ Fresh'
    BY <1>1 DEF Moves, Told, Fresh, InRun, EventSteps
  <1>10. Ready'
    BY <1>0, <1>1, <1>4, <1>5, IsDaemon DEF Moves, Ready
  <1>11. OneScheduler'
    BY <1>4 DEF OwnerInv, OneScheduler
  <1> QED
    BY <1>2, <1>6, <1>7, <1>8, <1>9, <1>10, <1>11 DEF OwnerInv

\* Nothing is scheduled, and nothing is open, when a daemon is made or dropped.
LEMMA NothingThere ==
  ASSUME OwnerInv, Place \in {"first_events", "new_events", "drop_events"}
  PROVE  \A d \in Daemon : Live(d) = {} /\ bind[d] = None
  <1>1. CASE eventDaemon = None
    BY <1>1 DEF OwnerInv, NothingLeaks, OneBind, Daemon, None
  <1>2. CASE eventDaemon # None
    BY <1>2 DEF OwnerInv, Ready, NothingLeaks, OneBind
  <1> QED
    BY <1>1, <1>2

LEMMA NewEventsOwner == ASSUME OwnerInv, NewEvents PROVE OwnerInv'
  <1>0. TypeOK /\ Planned /\ Place \in {"first_events", "new_events"}
    BY AtPlace DEF OwnerInv, NewEvents
  <1>1. Moves("first_events", {"run_events"}, 1, 0) \/ Moves("new_events", {"run_events"}, 1, 0)
    BY <1>0, FirstMoves, NewMoves DEF NewEvents
  <1>2. Planned' /\ Place' = "run_events" /\ NewLeft' + 1 <= NewLeft /\ BindsLeft' + 0 <= BindsLeft
    BY <1>1 DEF Moves
  <1>3. plan' \in [Request -> Seq(EventSteps \cup ServletSteps)]
    BY <1>0, <1>2, PlanIsTyped DEF NewEvents, Goes
  <1>4. Open' = Open /\ \A d \in Daemon : Live(d)' = Live(d)
    BY ObjectsStay DEF NewEvents, Others
  <1>5. \A d \in Daemon : Live(d) = {} /\ bind[d] = None
    BY <1>0, NothingThere
  <1>6. daemons' = daemons + 1 /\ eventDaemon' = daemons' /\ UNCHANGED objects /\ calls' = calls
    BY DEF NewEvents, Others, Untouched
  <1>7. daemons \in Nat /\ calls \in Nat /\ binds \in Nat
    BY <1>0, EventDaemonAssumption DEF TypeOK, EventTypeOK
  <1>8. Budget'
    BY <1>2, <1>6, <1>7 DEF OwnerInv, Budget, NewLeft, BindsLeft, objects
  <1>9. daemons + 1 <= calls
    BY <1>2, <1>7 DEF OwnerInv, Budget, NewLeft
  <1>10. daemons' \in 0 .. MaxCalls /\ eventDaemon' \in 0 .. daemons'
    BY <1>0, <1>6, <1>7, <1>9, EventDaemonAssumption DEF TypeOK
  <1>11. TypeOK'
    BY <1>0, <1>3, <1>4, <1>5, <1>6, <1>10
       DEF NewEvents, Others, Untouched, table, statics, objects, locals, TypeOK, EventTypeOK
  <1>12. eventDaemon' # None /\ eventDaemon' \in Daemon
    BY <1>6, <1>7, <1>10, EventDaemonAssumption DEF None, Daemon
  <1>13. NothingLeaks' /\ OneBind'
    BY <1>4, <1>5, <1>6 DEF OwnerInv, NothingLeaks, OneBind, Open, objects
  <1>14. Told' /\ Fresh' /\ Ready'
    BY <1>2, <1>4, <1>5, <1>12 DEF Told, Fresh, Ready, InRun, EventSteps
  <1>15. OneScheduler'
    BY DEF OwnerInv, OneScheduler, NewEvents
  <1> QED
    BY <1>2, <1>8, <1>11, <1>13, <1>14, <1>15 DEF OwnerInv

LEMMA NewEventsFailOwner == ASSUME OwnerInv, NewEventsFail PROVE OwnerInv'
  <1>0. TypeOK /\ Planned /\ Place \in {"first_events", "new_events"}
    BY AtPlace DEF OwnerInv, NewEventsFail
  <1>1. Moves("first_events", {"idle"}, 0, 0) \/ Moves("new_events", {"run_events"}, 1, 0)
    BY <1>0, FirstFails, NewMoves, AtPlace DEF NewEventsFail
  <1>2. Planned' /\ NewLeft' <= NewLeft /\ BindsLeft' <= BindsLeft
    BY <1>1 DEF Moves, NewLeft, BindsLeft
  <1>3. Place' = "idle" \/ (Place = "new_events" /\ Place' = "run_events")
    BY <1>1 DEF Moves
  <1>4. plan' \in [Request -> Seq(EventSteps \cup ServletSteps)]
    BY <1>0, <1>2, PlanIsTyped DEF NewEventsFail, Goes
  <1>5. faults' \in 0 .. MaxFaults
    BY <1>0, FaultIsTyped DEF NewEventsFail
  <1>6. TypeOK' /\ Budget' /\ NothingLeaks' /\ OneBind'
    BY <1>0, <1>2, <1>4, <1>5, Elsewhere
       DEF NewEventsFail, Others, Untouched, statics, fields, TypeOK, EventTypeOK
  <1>7. Told' /\ Fresh'
    BY <1>3 DEF Told, Fresh, InRun, EventSteps
  <1>8. Open' = Open /\ \A d \in Daemon : Live(d)' = Live(d)
    BY ObjectsStay DEF NewEventsFail, Others
  <1>9. Ready'
    BY <1>0, <1>3, <1>8, IsDaemon DEF OwnerInv, Ready, NewEventsFail, fields
  <1>10. OneScheduler'
    BY DEF OwnerInv, OneScheduler, NewEventsFail, fields
  <1> QED
    BY <1>2, <1>6, <1>7, <1>9, <1>10 DEF OwnerInv

LEMMA DropEventsOwner == ASSUME OwnerInv, DropEvents PROVE OwnerInv'
  <1>0. TypeOK /\ Planned /\ Place = "drop_events"
    BY AtPlace DEF OwnerInv, DropEvents
  <1>1. Moves("drop_events", {"idle"}, 0, 0)
    BY <1>0, DropMoves DEF DropEvents
  <1>2. Planned' /\ Place' = "idle" /\ NewLeft' <= NewLeft /\ BindsLeft' <= BindsLeft
    BY <1>1 DEF Moves, NewLeft, BindsLeft
  <1>3. plan' \in [Request -> Seq(EventSteps \cup ServletSteps)]
    BY <1>0, <1>2, PlanIsTyped DEF DropEvents, Goes
  <1>4. Open' = Open /\ \A d \in Daemon : Live(d)' = Live(d)
    BY ObjectsStay DEF DropEvents, Others
  <1>5. \A d \in Daemon : Live(d) = {} /\ bind[d] = None
    BY <1>0, NothingThere
  <1>6. TypeOK'
    BY <1>0, <1>3, <1>4, EventDaemonAssumption
       DEF DropEvents, Others, Untouched, table, statics, objects, locals, TypeOK, EventTypeOK, None
  <1>7. Budget'
    BY <1>0, <1>2, EventDaemonAssumption
       DEF OwnerInv, TypeOK, EventTypeOK, Budget, DropEvents, Others, Untouched, objects, NewLeft, BindsLeft
  <1>8. NothingLeaks' /\ OneBind'
    BY <1>4, <1>5 DEF OwnerInv, NothingLeaks, OneBind, Open, DropEvents, Others, objects
  <1>9. Told' /\ Fresh' /\ Ready'
    BY <1>2 DEF Told, Fresh, Ready, InRun, EventSteps
  <1>10. OneScheduler'
    BY DEF OwnerInv, OneScheduler, DropEvents
  <1> QED
    BY <1>2, <1>6, <1>7, <1>8, <1>9, <1>10 DEF OwnerInv

\* A DBBind is made for the daemon of the servlet, and for no other.
LEMMA Bound ==
  ASSUME OwnerInv, eventDaemon # None, Bind(eventDaemon), BindsLeft' + 1 <= BindsLeft, calls' = calls,
         UNCHANGED <<eventDaemon, handler, lost>>
  PROVE  /\ binds' \in 0 .. 2 * MaxCalls /\ bind' \in [Daemon -> 0 .. binds']
         /\ bind'[eventDaemon] # None
         /\ \A d \in Daemon : d # eventDaemon => bind'[d] = bind[d]
         /\ binds' + BindsLeft' <= 2 * calls'
         /\ NothingLeaks' /\ OneBind' /\ \A d \in Daemon : Live(d)' = Live(d)
  <1>0. TypeOK /\ eventDaemon \in Daemon
    BY IsDaemon DEF OwnerInv
  <1>1. binds \in Nat /\ calls \in Nat /\ MaxCalls \in Nat /\ calls <= MaxCalls /\ bind \in [Daemon -> 0 .. binds]
    BY <1>0, EventDaemonAssumption DEF TypeOK, EventTypeOK
  <1>2. binds' \in Nat /\ binds <= binds' /\ binds' <= binds + 1
    BY <1>1 DEF Bind
  <1>3. binds' + BindsLeft' <= 2 * calls'
    <2>1. binds + BindsLeft <= 2 * calls
      BY DEF OwnerInv, Budget
    <2>2. \/ BindsLeft' = 0 /\ BindsLeft = 1
          \/ BindsLeft' = 0 /\ BindsLeft = 2
          \/ BindsLeft' = 1 /\ BindsLeft = 2
      BY DEF BindsLeft
    <2> QED
      BY <1>1, <1>2, <2>1, <2>2
  <1>4. binds + 1 <= 2 * calls
    BY <1>1 DEF OwnerInv, Budget, BindsLeft
  <1>5. binds' \in 0 .. 2 * MaxCalls
    BY <1>1, <1>2, <1>4
  <1>6. /\ bind' \in [Daemon -> 0 .. binds'] /\ bind'[eventDaemon] # None
        /\ \A d \in Daemon : d # eventDaemon => bind'[d] = bind[d]
    <2>1. CASE bind[eventDaemon] = None
      BY <1>0, <1>1, <2>1 DEF Bind, None
    <2>2. CASE bind[eventDaemon] # None
      BY <1>0, <1>1, <2>2 DEF Bind
    <2> QED
      BY <2>1, <2>2
  <1>7. \A d \in Daemon : Live(d)' = Live(d)
    BY DEF Live
  <1>8. OneBind'
    BY <1>6 DEF OwnerInv, OneBind
  <1>9. NothingLeaks'
    BY <1>0, <1>6, <1>7, <1>8 DEF OwnerInv, NothingLeaks, OneBind, Open
  <1> QED
    BY <1>3, <1>5, <1>6, <1>7, <1>8, <1>9

LEMMA RunEventsOwner == ASSUME OwnerInv, RunEvents PROVE OwnerInv'
  <1>0. TypeOK /\ Planned /\ Place = "run_events"
    BY AtPlace DEF OwnerInv, RunEvents
  <1>1. CASE eventDaemon = None
    <2>1. Planned' /\ Place' = "idle" /\ NewLeft' <= NewLeft /\ BindsLeft' <= BindsLeft
      BY <1>0, <1>1, ServletThrows DEF RunEvents
    <2>2. plan' \in [Request -> Seq(EventSteps \cup ServletSteps)]
      BY <1>0, <1>1, <2>1, PlanIsTyped DEF RunEvents, Throws
    <2>3. TypeOK' /\ Budget' /\ NothingLeaks' /\ OneBind'
      BY <1>0, <1>1, <2>1, <2>2, Elsewhere
         DEF RunEvents, Untouched, statics, objects, locals, fields, TypeOK, EventTypeOK
    <2>4. Told' /\ Fresh' /\ Ready'
      BY <2>1 DEF Told, Fresh, Ready, InRun, EventSteps
    <2>5. OneScheduler'
      BY DEF OwnerInv, OneScheduler, RunEvents, fields
    <2> QED
      BY <2>1, <2>3, <2>4, <2>5 DEF OwnerInv
  <1>2. CASE eventDaemon # None
    <2>1. Moves("run_events", {"schedule"}, 0, 1)
      BY <1>0, <1>2, RunMoves DEF RunEvents
    <2>2. Planned' /\ Place' = "schedule" /\ NewLeft' + 0 <= NewLeft /\ BindsLeft' + 1 <= BindsLeft
      BY <2>1 DEF Moves
    <2>3. plan' \in [Request -> Seq(EventSteps \cup ServletSteps)]
      BY <1>0, <1>2, <2>2, PlanIsTyped DEF RunEvents, Goes
    <2>4. /\ UNCHANGED <<table, statics, handler, lost, row, fields, faults, kind, calls>>
          /\ Bind(eventDaemon) /\ on' = eventDaemon /\ todo' = active /\ skipped' = {}
      BY <1>2 DEF RunEvents, Untouched, Query
    <2>5. /\ binds' \in 0 .. 2 * MaxCalls /\ bind' \in [Daemon -> 0 .. binds']
          /\ bind'[eventDaemon] # None
          /\ \A d \in Daemon : d # eventDaemon => bind'[d] = bind[d]
          /\ binds' + BindsLeft' <= 2 * calls'
          /\ NothingLeaks' /\ OneBind' /\ \A d \in Daemon : Live(d)' = Live(d)
      BY <1>2, <2>2, <2>4, Bound DEF fields
    <2>6. Budget'
      BY <1>0, <2>2, <2>4, <2>5, EventDaemonAssumption
         DEF OwnerInv, TypeOK, Budget, fields, NewLeft
    <2>7. on' \in 0 .. MaxCalls
      BY <1>0, <2>4, EventDaemonAssumption DEF TypeOK
    <2>8. TypeOK'
      <3>1. EventTypeOK'
        BY <1>0, <2>4, <2>5, <2>7 DEF table, statics, TypeOK, EventTypeOK
      <3>2. \A d \in Daemon : d > daemons' => bind'[d] = None /\ Live(d)' = {}
        BY <1>0, <1>2, <2>4, <2>5, IsDaemon DEF fields, TypeOK, Daemon
      <3> QED
        BY <1>0, <2>3, <2>4, <3>1, <3>2 DEF fields, TypeOK
    <2>9. Told' /\ Ready'
      BY <2>2 DEF Told, Ready
    <2>10. Live(eventDaemon) = {}
      BY <1>0, <1>2 DEF OwnerInv, Ready
    <2>11. Fresh'
      BY <1>0, <1>2, <2>2, <2>4, <2>5, <2>10, IsDaemon DEF Fresh, fields
    <2>12. OneScheduler'
      BY <2>4 DEF OwnerInv, OneScheduler, fields
    <2> QED
      BY <2>2, <2>5, <2>6, <2>8, <2>9, <2>11, <2>12 DEF OwnerInv
  <1> QED
    BY <1>1, <1>2

LEMMA RunFailsOwner == ASSUME OwnerInv, RunFails PROVE OwnerInv'
  <1>0. TypeOK /\ Planned /\ Place = "run_events"
    BY AtPlace DEF OwnerInv, RunFails
  <1>1. Moves("run_events", {"create", "idle"}, 0, 1)
    BY <1>0, RunFailsMoves DEF RunFails
  <1>2. /\ Planned' /\ Place' \in {"create", "idle"}
        /\ NewLeft' + 0 <= NewLeft /\ BindsLeft' + 1 <= BindsLeft
    BY <1>1 DEF Moves
  <1>3. plan' \in [Request -> Seq(EventSteps \cup ServletSteps)]
    BY <1>0, <1>2, PlanIsTyped DEF RunFails, Goes
  <1>4. /\ UNCHANGED <<table, statics, handler, lost, locals, fields, kind, calls>>
        /\ eventDaemon # None /\ Bind(eventDaemon)
    BY DEF RunFails, Untouched, QueryFails
  <1>5. /\ binds' \in 0 .. 2 * MaxCalls /\ bind' \in [Daemon -> 0 .. binds']
        /\ bind'[eventDaemon] # None
        /\ \A d \in Daemon : d # eventDaemon => bind'[d] = bind[d]
        /\ binds' + BindsLeft' <= 2 * calls'
        /\ NothingLeaks' /\ OneBind' /\ \A d \in Daemon : Live(d)' = Live(d)
    BY <1>2, <1>4, Bound DEF fields
  <1>6. Budget'
    BY <1>0, <1>2, <1>4, <1>5, EventDaemonAssumption
       DEF OwnerInv, TypeOK, Budget, fields, NewLeft
  <1>7. faults' \in 0 .. MaxFaults
    BY <1>0, FaultIsTyped DEF RunFails, QueryFails
  <1>8. TypeOK'
    <2>1. EventTypeOK'
      BY <1>0, <1>4, <1>5, <1>7 DEF table, statics, locals, TypeOK, EventTypeOK
    <2>2. \A d \in Daemon : d > daemons' => bind'[d] = None /\ Live(d)' = {}
      BY <1>0, <1>4, <1>5, IsDaemon DEF fields, TypeOK, Daemon
    <2> QED
      BY <1>0, <1>3, <1>4, <2>1, <2>2 DEF fields, TypeOK
  <1>9. Told' /\ Fresh' /\ Ready'
    BY <1>2 DEF Told, Fresh, Ready, InRun, EventSteps
  <1>10. OneScheduler'
    BY <1>4 DEF OwnerInv, OneScheduler, fields
  <1> QED
    BY <1>2, <1>5, <1>6, <1>8, <1>9, <1>10 DEF OwnerInv
-----------------------------------------------------------------------------
(* Who owns what: a run of the daemon                                      *)

\* A step of a run that schedules nothing.
LEMMA RunGoesOn ==
  ASSUME OwnerInv, InRun, UNCHANGED <<table, cached, objects, on, fields, kind, calls>>,
         known' = NotRead \/ known' \in SUBSET Event, faults' \in 0 .. MaxFaults,
         row' \in [Request -> Event], todo' \subseteq Event, skipped' \subseteq Event, Planned',
         plan' \in [Request -> Seq(EventSteps \cup ServletSteps)],
         NewLeft' + 0 <= NewLeft, BindsLeft' + 0 <= BindsLeft,
         Place' \in EventSteps \cup {"create", "idle"},
         Place' \in EventSteps =>
           Left' \subseteq Left /\ (Place' # "schedule" => row'[Servlet] \notin todo')
  PROVE  OwnerInv'
  <1>1. Open' = Open /\ \A d \in Daemon : Live(d)' = Live(d)
    BY ObjectsStay
  <1>2. TypeOK'
    BY <1>1 DEF OwnerInv, TypeOK, EventTypeOK, table, objects, fields
  <1>3. Budget'
    BY EventDaemonAssumption
       DEF OwnerInv, TypeOK, EventTypeOK, Budget, objects, fields, NewLeft, BindsLeft
  <1>4. NothingLeaks' /\ OneBind' /\ OneScheduler'
    BY <1>1 DEF OwnerInv, NothingLeaks, OneBind, OneScheduler, objects, fields
  <1>5. Told' /\ Ready'
    BY DEF Told, Ready, EventSteps
  <1>6. Fresh'
    <2>1. on = eventDaemon /\ on # None /\ bind[on] # None /\ Live(on) \cap Left = {}
      BY DEF OwnerInv, Fresh
    <2>2. on \in Daemon
      BY <2>1, IsDaemon DEF OwnerInv
    <2> QED
      BY <1>1, <2>1, <2>2 DEF Fresh, InRun, objects, fields
  <1> QED
    BY <1>2, <1>3, <1>4, <1>5, <1>6 DEF OwnerInv

LEMMA NextRowOwner == ASSUME OwnerInv, NextRow, EventsOnly PROVE OwnerInv'
  <1>0. TypeOK /\ Planned /\ Place = "schedule" /\ InRun
    BY AtPlace DEF OwnerInv, NextRow, InRun, EventSteps
  <1>1. Moves("schedule", {"look"}, 0, 0)
    BY <1>0, RowMoves DEF NextRow
  <1>2. Planned' /\ Place' = "look" /\ NewLeft' + 0 <= NewLeft /\ BindsLeft' + 0 <= BindsLeft
    BY <1>1 DEF Moves
  <1>3. plan' \in [Request -> Seq(EventSteps \cup ServletSteps)]
    BY <1>0, <1>2, PlanIsTyped DEF NextRow, Goes
  <1>4. PICK e \in todo : row' = [row EXCEPT ![Servlet] = e] /\ todo' = todo \ {e}
    BY DEF NextRow
  <1>5. row' \in [Request -> Event] /\ row'[Servlet] = e /\ todo' \subseteq Event
    BY <1>0, <1>4 DEF TypeOK, EventTypeOK, Request
  <1>6. Left' = Left
    BY <1>0, <1>2, <1>4, <1>5 DEF Left
  <1> QED
    BY <1>0, <1>2, <1>3, <1>4, <1>5, <1>6, RunGoesOn
       DEF NextRow, EventsOnly, statics, TypeOK, EventTypeOK, EventSteps

LEMMA RunEndsOwner == ASSUME OwnerInv, RunEnds, EventsOnly PROVE OwnerInv'
  <1>0. TypeOK /\ Planned /\ Place = "schedule" /\ InRun
    BY AtPlace DEF OwnerInv, RunEnds, InRun, EventSteps
  <1>1. Moves("schedule", {"create", "idle"}, 0, 0)
    BY <1>0, RunEndsMoves DEF RunEnds
  <1>2. /\ Planned' /\ Place' \in {"create", "idle"}
        /\ NewLeft' + 0 <= NewLeft /\ BindsLeft' + 0 <= BindsLeft
    BY <1>1 DEF Moves
  <1>3. plan' \in [Request -> Seq(EventSteps \cup ServletSteps)]
    BY <1>0, <1>2, PlanIsTyped DEF RunEnds, Goes
  <1> QED
    BY <1>0, <1>2, <1>3, RunGoesOn
       DEF RunEnds, EventsOnly, statics, locals, TypeOK, EventTypeOK, EventSteps

\* Where Look, Know, Fill and FillFails take the servlet.
LEMMA MapsMove ==
  ASSUME TypeOK, Planned
  PROVE  /\ Look(Servlet) => Moves("look", {IF known = NotRead THEN "know" ELSE "instance"}, 0, 0)
         /\ Know(Servlet) => Moves("know", {IF known = NotRead THEN "fill" ELSE "instance"}, 0, 0)
         /\ Fill(Servlet) =>
              Moves("fill", {IF known = NotRead /\ active # {} THEN "schedule" ELSE "instance"}, 0, 0)
         /\ FillFails(Servlet) => Moves("fill", {"schedule"}, 0, 0)
  <1>1. Look(Servlet) => Moves("look", {IF known = NotRead THEN "know" ELSE "instance"}, 0, 0)
    <2>1. Look(Servlet) => Place = "look"
      BY AtPlace DEF Look
    <2>2. CASE known = NotRead
      BY <2>1, <2>2, LookKnows DEF Look
    <2>3. CASE known # NotRead
      BY <2>1, <2>3, LookMoves DEF Look
    <2> QED
      BY <2>2, <2>3
  <1>2. Know(Servlet) => Moves("know", {IF known = NotRead THEN "fill" ELSE "instance"}, 0, 0)
    <2>1. Know(Servlet) => Place = "know"
      BY AtPlace DEF Know
    <2>2. CASE known = NotRead
      BY <2>1, <2>2, KnowFills DEF Know
    <2>3. CASE known # NotRead
      BY <2>1, <2>3, KnowMoves DEF Know
    <2> QED
      BY <2>2, <2>3
  <1>3. Fill(Servlet) =>
          Moves("fill", {IF known = NotRead /\ active # {} THEN "schedule" ELSE "instance"}, 0, 0)
    <2>1. Fill(Servlet) => Place = "fill"
      BY AtPlace DEF Fill
    <2>2. CASE known = NotRead /\ active # {}
      BY <2>1, <2>2, FillGivesUp DEF Fill
    <2>3. CASE ~(known = NotRead /\ active # {})
      BY <2>1, <2>3, FillMoves DEF Fill
    <2> QED
      BY <2>2, <2>3
  <1>4. FillFails(Servlet) => Moves("fill", {"schedule"}, 0, 0)
    BY FillGivesUp, AtPlace DEF FillFails
  <1> QED
    BY <1>1, <1>2, <1>3, <1>4

LEMMA MapsOwner ==
  ASSUME OwnerInv, Look(Servlet) \/ Know(Servlet) \/ Fill(Servlet) \/ FillFails(Servlet), EventsOnly
  PROVE  OwnerInv'
  <1>0. TypeOK /\ Planned
    BY DEF OwnerInv
  <1>1. /\ Planned' /\ NewLeft' + 0 <= NewLeft /\ BindsLeft' + 0 <= BindsLeft
        /\ Place \in {"look", "know", "fill"} /\ Place' \in EventSteps
    BY <1>0, MapsMove DEF Moves, EventSteps
  <1>2. plan' \in [Request -> Seq(EventSteps \cup ServletSteps)]
    BY <1>0, <1>1, PlanIsTyped DEF Look, Know, Fill, FillFails, Goes, GivesUp
  <1>3. InRun
    BY <1>1 DEF InRun, EventSteps
  <1>4. UNCHANGED <<table, cached, objects, row, on, todo, skipped>>
    BY DEF Look, Know, Fill, FillFails, statics, locals
  <1>5. known' = NotRead \/ known' \in SUBSET Event
    BY <1>0 DEF Look, Know, Fill, FillFails, statics, TypeOK, EventTypeOK
  <1>6. faults' \in 0 .. MaxFaults
    BY <1>0, FaultIsTyped DEF Look, Know, Fill, FillFails
  <1>7. Left' \subseteq Left /\ row[Servlet] \notin todo
    BY <1>1, <1>3, <1>4 DEF Left, OwnerInv, Fresh
  <1> QED
    BY <1>0, <1>1, <1>2, <1>3, <1>4, <1>5, <1>6, <1>7, RunGoesOn
       DEF EventsOnly, TypeOK, EventTypeOK

\* What an instance is scheduled with.
LEMMA InstanceSchedules ==
  ASSUME OwnerInv, Instance(Servlet)
  PROVE  /\ Place = "instance" /\ Moves("instance", {"schedule"}, 0, 0)
         /\ on = eventDaemon /\ on \in Daemon /\ bind[on] # None
         /\ UNCHANGED <<table, known, binds, bind, locals, faults, history>>
         /\ \/ UNCHANGED <<cached, handler, lost>> /\ (known = NotRead \/ row[Servlet] \notin known)
            \/ \E b \in 1 .. Global :
                 /\ b = IF cached[row[Servlet]] = None THEN bind[on] ELSE cached[row[Servlet]]
                 /\ known # NotRead /\ row[Servlet] \in known
                 /\ cached' = [cached EXCEPT ![row[Servlet]] = b]
                 /\ handler' = [handler EXCEPT ![on][row[Servlet]] = b]
                 /\ lost' = lost /\ Live(on)' = Live(on) \cup {row[Servlet]}
                 /\ \A d \in Daemon : d # on => Live(d)' = Live(d)
  <1>0. TypeOK /\ Planned /\ Place = "instance" /\ InRun
    BY AtPlace DEF OwnerInv, Instance, InRun, EventSteps
  <1>1. Moves("instance", {"schedule"}, 0, 0)
    BY <1>0, InstanceMoves DEF Instance
  <1>2. on = eventDaemon /\ on \in Daemon /\ bind[on] # None /\ Live(on) \cap Left = {}
    BY <1>0, IsDaemon DEF OwnerInv, Fresh
  <1>3. row[Servlet] \in Event /\ row[Servlet] \notin Live(on)
    BY <1>0, <1>2 DEF Left, TypeOK, EventTypeOK, Request
  <1> DEFINE b == IF cached[row[Servlet]] = None THEN bind[on] ELSE cached[row[Servlet]]
  <1>4. b \in 1 .. Global
    <2>1. cached[row[Servlet]] \in 0 .. Global /\ bind[on] \in 0 .. binds /\ binds \in 0 .. 2 * MaxCalls
      BY <1>0, <1>2, <1>3 DEF TypeOK, EventTypeOK
    <2>2. bind[on] \in 0 .. Global
      BY <2>1, EventDaemonAssumption DEF Global
    <2> QED
      BY <1>2, <2>1, <2>2, EventDaemonAssumption DEF None, Global
  <1>5. CASE known # NotRead /\ row[Servlet] \in known
    <2>1. /\ cached' = [cached EXCEPT ![row[Servlet]] = b]
          /\ handler' = [handler EXCEPT ![on][row[Servlet]] = b]
          /\ lost' = lost
      BY <1>3, <1>5 DEF Instance, Schedule, Conn
    <2>2. Live(on)' = Live(on) \cup {row[Servlet]}
      <3>1. b # None
        BY <1>4 DEF None
      <3>2. handler'[on] = [handler[on] EXCEPT ![row[Servlet]] = b]
        BY <1>0, <1>2, <2>1 DEF TypeOK, EventTypeOK
      <3> HIDE DEF b
      <3>3. \A e \in Event : handler'[on][e] = IF e = row[Servlet] THEN b ELSE handler[on][e]
        BY <1>0, <1>2, <1>3, <3>2 DEF TypeOK, EventTypeOK
      <3>4. on' = on
        BY DEF Instance, locals
      <3> QED
        BY <1>3, <3>1, <3>3, <3>4 DEF Live
    <2>3. \A d \in Daemon : d # on => Live(d)' = Live(d)
      BY <1>0, <2>1 DEF Live, TypeOK, EventTypeOK
    <2> QED
      BY <1>0, <1>1, <1>2, <1>4, <1>5, <2>1, <2>2, <2>3 DEF Instance
  <1>6. CASE ~(known # NotRead /\ row[Servlet] \in known)
    BY <1>0, <1>1, <1>2, <1>6 DEF Instance
  <1> QED
    BY <1>5, <1>6

LEMMA InstanceOwner == ASSUME OwnerInv, Instance(Servlet), EventsOnly PROVE OwnerInv'
  <1>0. TypeOK /\ Planned /\ Place = "instance" /\ InRun
    BY AtPlace DEF OwnerInv, Instance, InRun, EventSteps
  <1>1. /\ Planned' /\ Place' = "schedule" /\ NewLeft' + 0 <= NewLeft /\ BindsLeft' + 0 <= BindsLeft
    BY InstanceSchedules DEF Moves
  <1>2. plan' \in [Request -> Seq(EventSteps \cup ServletSteps)]
    BY <1>0, <1>1, PlanIsTyped DEF Instance, Goes
  <1>3. /\ on = eventDaemon /\ on \in Daemon /\ bind[on] # None
        /\ UNCHANGED <<table, known, binds, bind, locals, faults>>
    BY InstanceSchedules
  <1>4. UNCHANGED <<fields, kind, calls>>
    BY DEF EventsOnly
  <1>5. row[Servlet] \in Event /\ row[Servlet] \notin todo /\ Live(on) \cap Left = {}
    BY <1>0 DEF OwnerInv, Fresh, TypeOK, EventTypeOK, Request
  <1>6. /\ cached' \in [Event -> 0 .. Global] /\ handler' \in [Daemon -> [Event -> 0 .. Global]]
        /\ lost' = lost /\ Live(on)' \subseteq Live(on) \cup {row[Servlet]}
        /\ \A d \in Daemon : d # on => Live(d)' = Live(d)
    <2>1. CASE UNCHANGED <<cached, handler, lost>>
      <3>1. \A d \in Daemon : Live(d)' = Live(d)
        BY <2>1 DEF Live
      <3>2. on' = on
        BY <1>3 DEF locals
      <3> QED
        BY <1>0, <1>3, <2>1, <3>1, <3>2 DEF TypeOK, EventTypeOK
    <2>2. CASE ~UNCHANGED <<cached, handler, lost>>
      <3>1. PICK b \in 1 .. Global :
                 /\ cached' = [cached EXCEPT ![row[Servlet]] = b]
                 /\ handler' = [handler EXCEPT ![on][row[Servlet]] = b]
                 /\ lost' = lost /\ Live(on)' = Live(on) \cup {row[Servlet]}
                 /\ \A d \in Daemon : d # on => Live(d)' = Live(d)
        BY <2>2, InstanceSchedules
      <3>2. b \in 0 .. Global
        BY EventDaemonAssumption DEF Global
      <3> QED
        BY <1>0, <1>3, <1>5, <3>1, <3>2 DEF TypeOK, EventTypeOK
    <2> QED
      BY <2>1, <2>2
  <1>7. TypeOK'
    <2>1. EventTypeOK'
      BY <1>0, <1>3, <1>6 DEF TypeOK, EventTypeOK, table, locals
    <2>2. \A d \in Daemon : d > daemons' => bind'[d] = None /\ Live(d)' = {}
      BY <1>0, <1>3, <1>4, <1>6 DEF TypeOK, Daemon, fields
    <2> QED
      BY <1>0, <1>2, <1>4, <2>1, <2>2 DEF TypeOK, fields
  <1>8. Budget'
    BY <1>0, <1>1, <1>3, <1>4, EventDaemonAssumption
       DEF OwnerInv, TypeOK, EventTypeOK, Budget, fields, NewLeft, BindsLeft
  <1>9. NothingLeaks' /\ OneBind' /\ OneScheduler'
    BY <1>3, <1>4, <1>6 DEF OwnerInv, NothingLeaks, OneBind, OneScheduler, Open, fields
  <1>10. Told' /\ Ready'
    BY <1>1 DEF Told, Ready
  <1>11. Fresh'
    <2>1. Left' = todo /\ todo \subseteq Left
      BY <1>1, <1>3 DEF Left, locals
    <2>2. Live(on)' \cap Left' = {}
      BY <1>5, <1>6, <2>1
    <2> QED
      BY <1>0, <1>1, <1>3, <1>4, <2>2 DEF OwnerInv, Fresh, locals, fields
  <1> QED
    BY <1>1, <1>7, <1>8, <1>9, <1>10, <1>11 DEF OwnerInv
LEMMA InstanceFailsOwner == ASSUME OwnerInv, InstanceFails(Servlet), EventsOnly PROVE OwnerInv'
  <1>0. TypeOK /\ Planned /\ Place = "instance" /\ InRun
    BY AtPlace DEF OwnerInv, InstanceFails, InRun, EventSteps
  <1>1. Moves("instance", {"schedule"}, 0, 0)
    BY <1>0, InstanceMoves DEF InstanceFails
  <1>2. Planned' /\ Place' = "schedule" /\ NewLeft' + 0 <= NewLeft /\ BindsLeft' + 0 <= BindsLeft
    BY <1>1 DEF Moves
  <1>3. plan' \in [Request -> Seq(EventSteps \cup ServletSteps)]
    BY <1>0, <1>2, PlanIsTyped DEF InstanceFails, Goes
  <1>4. UNCHANGED <<table, statics, objects, row, on, todo, fields, kind, calls>>
    BY DEF InstanceFails, EventsOnly
  <1>5. skipped' \subseteq Event
    BY <1>0 DEF InstanceFails, TypeOK, EventTypeOK, Request
  <1>6. faults' \in 0 .. MaxFaults
    BY <1>0, FaultIsTyped DEF InstanceFails
  <1>7. Left' \subseteq Left
    BY <1>2, <1>4 DEF Left
  <1> QED
    BY <1>0, <1>2, <1>3, <1>4, <1>5, <1>6, <1>7, RunGoesOn
       DEF statics, TypeOK, EventTypeOK, EventSteps
-----------------------------------------------------------------------------
(* Who owns what: the pages                                                *)

PageStep(r) ==
  Look(r) \/ Know(r) \/ Fill(r) \/ FillFails(r) \/ Instance(r) \/ InstanceFails(r)

LEMMA PageGoes ==
  ASSUME TypeOK, NEW r \in Page, NEW m, Goes(r, m)
  PROVE  /\ plan'[Servlet] = plan[Servlet] /\ plan'[r] = m \o Tail(plan[r])
         /\ \A x \in Request : x # r => plan'[x] = plan[x]
  BY EventDaemonAssumption DEF TypeOK, Goes, Request

LEMMA PageGivesUp ==
  ASSUME TypeOK, NEW r \in Page, GivesUp(r)
  PROVE  /\ plan'[Servlet] = plan[Servlet] /\ plan'[r] = <<>>
         /\ \A x \in Request : x # r => plan'[x] = plan[x]
  BY EventDaemonAssumption DEF TypeOK, GivesUp, Request

LEMMA PagePlanAt ==
  ASSUME Planned, NEW r \in Page
  PROVE  /\ At(r, "look") => plan[r] = <<"look">>
         /\ At(r, "know") => plan[r] \in {<<"know", "look">>, <<"know", "instance">>}
         /\ At(r, "fill") => plan[r] \in {<<"fill", "look">>, <<"fill", "instance">>}
         /\ At(r, "instance") => plan[r] = <<"instance">>
  <1>1. plan[r] \in PagePlans
    BY DEF Planned
  <1> QED
    BY <1>1 DEF At, PagePlans

\* A page has its own plan.
LEMMA PageMoves ==
  ASSUME TypeOK, Planned, NEW r \in Page, PageStep(r)
  PROVE  /\ Planned' /\ plan'[Servlet] = plan[Servlet]
         /\ \A x \in Request : x # r => plan'[x] = plan[x]
  <1>1. CASE Look(r)
    <2>1. plan[r] = <<"look">> /\ Tail(plan[r]) = <<>>
      <3>1. plan[r] = <<"look">>
        BY <1>1, PagePlanAt DEF Look
      <3>2. Tail(<<"look">>) = <<>>
        OBVIOUS
      <3> QED
        BY <3>1, <3>2
    <2>2. Goes(r, <<"know", "instance">>) \/ Goes(r, <<"instance">>)
      BY <1>1 DEF Look
    <2>3. /\ plan'[Servlet] = plan[Servlet] /\ \A x \in Request : x # r => plan'[x] = plan[x]
          /\ plan'[r] = <<"know", "instance">> \o <<>> \/ plan'[r] = <<"instance">> \o <<>>
      BY <2>1, <2>2, PageGoes
    <2>4. <<"know", "instance">> \o <<>> = <<"know", "instance">> /\ <<"instance">> \o <<>> = <<"instance">>
      BY PushOne, PushTwo
    <2>5. plan'[r] \in PagePlans
      BY <2>3, <2>4 DEF PagePlans
    <2> QED
      BY <2>3, <2>5 DEF Planned, Request
  <1>2. CASE Know(r)
    <2>1. plan[r] \in {<<"know", "look">>, <<"know", "instance">>}
      BY <1>2, PagePlanAt DEF Know
    <2>2. Tail(plan[r]) \in {<<"look">>, <<"instance">>}
      <3>1. Tail(<<"know", "look">>) = <<"look">> /\ Tail(<<"know", "instance">>) = <<"instance">>
        OBVIOUS
      <3> QED
        BY <2>1, <3>1
    <2>3. Goes(r, <<"fill">>) \/ Goes(r, <<>>)
      BY <1>2 DEF Know
    <2>4. /\ plan'[Servlet] = plan[Servlet] /\ \A x \in Request : x # r => plan'[x] = plan[x]
          /\ plan'[r] = <<"fill">> \o Tail(plan[r]) \/ plan'[r] = <<>> \o Tail(plan[r])
      BY <2>3, PageGoes
    <2>5. /\ <<"fill">> \o <<"look">> = <<"fill", "look">>
          /\ <<"fill">> \o <<"instance">> = <<"fill", "instance">>
      BY PushOne
    <2>6. <<>> \o <<"look">> = <<"look">> /\ <<>> \o <<"instance">> = <<"instance">>
      OBVIOUS
    <2>7. plan'[r] \in PagePlans
      BY <2>2, <2>4, <2>5, <2>6 DEF PagePlans
    <2> QED
      BY <2>4, <2>7 DEF Planned, Request
  <1>3. CASE Fill(r) \/ FillFails(r)
    <2>1. plan[r] \in {<<"fill", "look">>, <<"fill", "instance">>}
      BY <1>3, PagePlanAt DEF Fill, FillFails
    <2>2. Tail(plan[r]) \in {<<"look">>, <<"instance">>}
      <3>1. Tail(<<"fill", "look">>) = <<"look">> /\ Tail(<<"fill", "instance">>) = <<"instance">>
        OBVIOUS
      <3> QED
        BY <2>1, <3>1
    <2>3. Goes(r, <<>>) \/ GivesUp(r)
      BY <1>3 DEF Fill, FillFails
    <2>4. /\ plan'[Servlet] = plan[Servlet] /\ \A x \in Request : x # r => plan'[x] = plan[x]
          /\ plan'[r] = <<>> \o Tail(plan[r]) \/ plan'[r] = <<>>
      BY <2>3, PageGoes, PageGivesUp
    <2>5. <<>> \o <<"look">> = <<"look">> /\ <<>> \o <<"instance">> = <<"instance">>
      OBVIOUS
    <2>6. plan'[r] \in PagePlans
      BY <2>2, <2>4, <2>5 DEF PagePlans
    <2> QED
      BY <2>4, <2>6 DEF Planned, Request
  <1>4. CASE Instance(r) \/ InstanceFails(r)
    <2>1. plan[r] = <<"instance">> /\ Tail(plan[r]) = <<>>
      <3>1. plan[r] = <<"instance">>
        BY <1>4, PagePlanAt DEF Instance, InstanceFails
      <3>2. Tail(<<"instance">>) = <<>>
        OBVIOUS
      <3> QED
        BY <3>1, <3>2
    <2>2. Goes(r, <<>>)
      BY <1>4 DEF Instance, InstanceFails
    <2>3. /\ plan'[Servlet] = plan[Servlet] /\ \A x \in Request : x # r => plan'[x] = plan[x]
          /\ plan'[r] = <<>> \o <<>>
      BY <2>1, <2>2, PageGoes
    <2>4. <<>> \o <<>> = <<>>
      OBVIOUS
    <2>5. plan'[r] \in PagePlans
      BY <2>3, <2>4 DEF PagePlans
    <2> QED
      BY <2>3, <2>5 DEF Planned, Request
  <1> QED
    BY <1>1, <1>2, <1>3, <1>4 DEF PageStep

\* A step of somebody else than the servlet.
LEMMA ServletStays ==
  ASSUME OwnerInv, UNCHANGED <<objects, on, todo, skipped, fields, kind>>, plan'[Servlet] = plan[Servlet],
         row'[Servlet] = row[Servlet], calls' \in 0 .. MaxCalls, calls <= calls',
         active' \subseteq Event, storing' \in BOOLEAN, stores' \in 0 .. MaxStores,
         known' = NotRead \/ known' \in SUBSET Event, cached' \in [Event -> 0 .. Global],
         row' \in [Request -> Event], faults' \in 0 .. MaxFaults, Planned',
         plan' \in [Request -> Seq(EventSteps \cup ServletSteps)]
  PROVE  OwnerInv'
  <1>1. Place' = Place /\ NewLeft' = NewLeft /\ BindsLeft' = BindsLeft
    BY PlaceStays
  <1>2. Open' = Open /\ \A d \in Daemon : Live(d)' = Live(d)
    BY ObjectsStay
  <1>3. EventTypeOK'
    BY DEF OwnerInv, TypeOK, EventTypeOK, objects
  <1>4. TypeOK'
    BY <1>2, <1>3 DEF OwnerInv, TypeOK, objects, fields
  <1>5. Budget'
    <2>1. daemons \in Nat /\ binds \in Nat /\ calls \in Nat /\ calls' \in Nat
      BY EventDaemonAssumption DEF OwnerInv, TypeOK, EventTypeOK
    <2>2. daemons + NewLeft <= calls /\ binds + BindsLeft <= 2 * calls
      BY DEF OwnerInv, Budget
    <2>3. (NewLeft' = 0 /\ NewLeft = 0) \/ (NewLeft' = 1 /\ NewLeft = 1)
      BY DEF NewLeft
    <2>4. \/ BindsLeft' = 0 /\ BindsLeft = 0
          \/ BindsLeft' = 1 /\ BindsLeft = 1
          \/ BindsLeft' = 2 /\ BindsLeft = 2
      BY DEF BindsLeft
    <2>5. daemons' = daemons /\ binds' = binds
      BY DEF objects, fields
    <2>6. daemons' + NewLeft' <= calls'
      BY <2>1, <2>2, <2>3, <2>5
    <2>7. binds' + BindsLeft' <= 2 * calls'
      BY <2>1, <2>2, <2>4, <2>5
    <2> QED
      BY <2>6, <2>7 DEF Budget
  <1>6. Told' /\ NothingLeaks' /\ OneBind' /\ OneScheduler'
    BY <1>1, <1>2 DEF OwnerInv, Told, NothingLeaks, OneBind, OneScheduler, objects, fields
  <1>7. Ready'
    BY <1>1, <1>2, IsDaemon DEF OwnerInv, Ready, objects, fields
  <1>8. Fresh'
    <2>1. Left' = Left
      BY <1>1 DEF Left
    <2>2. InRun => on \in Daemon
      BY IsDaemon DEF OwnerInv, Fresh
    <2> QED
      BY <1>1, <1>2, <2>1, <2>2 DEF OwnerInv, Fresh, InRun, objects, fields
  <1> QED
    BY <1>4, <1>5, <1>6, <1>7, <1>8 DEF OwnerInv

LEMMA PageIsTyped ==
  ASSUME TypeOK, Planned', NEW r \in Page, PageStep(r)
  PROVE  plan' \in [Request -> Seq(EventSteps \cup ServletSteps)]
  BY PlanIsTyped DEF PageStep, Look, Know, Fill, FillFails, Instance, InstanceFails, Goes, GivesUp

LEMMA PageStepOwner ==
  ASSUME OwnerInv, NEW r \in Page, PageStep(r), EventsOnly
  PROVE  OwnerInv'
  <1>0. TypeOK /\ Planned /\ r # Servlet
    BY EventDaemonAssumption DEF OwnerInv
  <1>1. Planned' /\ plan'[Servlet] = plan[Servlet]
    BY <1>0, PageMoves
  <1>2. plan' \in [Request -> Seq(EventSteps \cup ServletSteps)]
    BY <1>0, <1>1, PageIsTyped
  <1>3. UNCHANGED <<table, objects, locals, fields, kind, calls>>
    BY <1>0 DEF PageStep, Look, Know, Fill, FillFails, Instance, InstanceFails, EventsOnly,
                objects, locals
  <1>4. known' = NotRead \/ known' \in SUBSET Event
    BY <1>0 DEF PageStep, Look, Know, Fill, FillFails, Instance, InstanceFails, statics, TypeOK, EventTypeOK
  <1>5. cached' \in [Event -> 0 .. Global]
    <2>1. CASE Instance(r)
      <3>1. Global \in 0 .. Global /\ Conn(r) = Global
        BY <1>0, EventDaemonAssumption DEF Global, Conn
      <3>2. cached \in [Event -> 0 .. Global] /\ row[r] \in Event
        BY <1>0 DEF TypeOK, EventTypeOK, Request
      <3> QED
        BY <2>1, <3>1, <3>2 DEF Instance
    <2>2. CASE ~Instance(r)
      BY <1>0, <2>2 DEF PageStep, Look, Know, Fill, FillFails, InstanceFails, statics, TypeOK, EventTypeOK
    <2> QED
      BY <2>1, <2>2
  <1>6. faults' \in 0 .. MaxFaults
    BY <1>0, FaultIsTyped DEF PageStep, Look, Know, Fill, FillFails, Instance, InstanceFails
  <1>7. calls' \in 0 .. MaxCalls /\ calls <= calls'
    BY <1>0, <1>3, EventDaemonAssumption DEF TypeOK
  <1> QED
    BY <1>0, <1>1, <1>2, <1>3, <1>4, <1>5, <1>6, <1>7, ServletStays
       DEF table, locals, TypeOK, EventTypeOK

LEMMA TriggerPageMoves ==
  ASSUME TypeOK, Planned, NEW p \in Page, TriggerPage(p)
  PROVE  /\ Planned' /\ plan'[Servlet] = plan[Servlet] /\ row'[Servlet] = row[Servlet]
         /\ plan[p] = <<>> /\ plan'[p] = <<"know", "look">>
         /\ \A x \in Request : x # p => plan'[x] = plan[x]
  <1>1. /\ plan'[Servlet] = plan[Servlet] /\ row'[Servlet] = row[Servlet]
        /\ plan'[p] = <<"know", "look">> /\ \A x \in Request : x # p => plan'[x] = plan[x]
    BY EventDaemonAssumption DEF TypeOK, EventTypeOK, TriggerPage, PageTriggers, Request
  <1>2. plan'[p] \in PagePlans
    BY <1>1 DEF PagePlans
  <1> QED
    BY <1>1, <1>2 DEF Planned, Request, TriggerPage, Busy

LEMMA TriggerPageOwner ==
  ASSUME OwnerInv, NEW p \in Page, TriggerPage(p)
  PROVE  OwnerInv'
  <1>0. TypeOK /\ Planned
    BY DEF OwnerInv
  <1>1. Planned' /\ plan'[Servlet] = plan[Servlet] /\ row'[Servlet] = row[Servlet]
    BY <1>0, TriggerPageMoves
  <1>2. plan' \in [Request -> Seq(EventSteps \cup ServletSteps)]
    BY <1>0, <1>1, PlanIsTyped DEF TriggerPage, PageTriggers
  <1>3. row' \in [Request -> Event]
    BY <1>0 DEF TriggerPage, PageTriggers, TypeOK, EventTypeOK
  <1>4. calls' \in 0 .. MaxCalls /\ calls <= calls'
    BY <1>0, EventDaemonAssumption DEF TypeOK, TriggerPage
  <1> QED
    BY <1>0, <1>1, <1>2, <1>3, <1>4, ServletStays
       DEF TriggerPage, table, statics, TypeOK, EventTypeOK

LEMMA TableOwner ==
  ASSUME OwnerInv, StorePage \/ ((Reset \/ StoreFails) /\ EventsOnly)
  PROVE  OwnerInv'
  <1>0. TypeOK /\ Planned
    BY DEF OwnerInv
  <1>1. UNCHANGED <<objects, plan, locals, fields, kind, calls>>
    BY DEF StorePage, Reset, StoreFails, EventsOnly
  <1>2. Planned'
    BY <1>0, <1>1 DEF Planned
  <1>3. active' \subseteq Event /\ storing' \in BOOLEAN
    BY <1>0 DEF StorePage, Store, Reset, StoreFails, TypeOK, EventTypeOK
  <1>4. stores' \in 0 .. MaxStores
    BY <1>0, EventDaemonAssumption DEF StorePage, Store, Reset, StoreFails, TypeOK, EventTypeOK
  <1>5. known' = NotRead \/ known' \in SUBSET Event
    BY <1>0 DEF StorePage, Reset, StoreFails, statics, TypeOK, EventTypeOK
  <1>6. cached' \in [Event -> 0 .. Global]
    <2>1. 0 \in 0 .. Global
      BY EventDaemonAssumption DEF Global
    <2> QED
      BY <1>0, <2>1 DEF StorePage, Reset, StoreFails, statics, TypeOK, EventTypeOK, None
  <1>7. faults' \in 0 .. MaxFaults
    BY <1>0, FaultIsTyped DEF StorePage, Reset, StoreFails
  <1>8. calls' \in 0 .. MaxCalls /\ calls <= calls'
    BY <1>0, <1>1, EventDaemonAssumption DEF TypeOK
  <1> QED
    BY <1>0, <1>1, <1>2, <1>3, <1>4, <1>5, <1>6, <1>7, <1>8, ServletStays
       DEF locals, TypeOK, EventTypeOK

LEMMA StutterOwner == ASSUME OwnerInv, UNCHANGED vars PROVE OwnerInv'
  <1>0. TypeOK /\ Planned
    BY DEF OwnerInv
  <1>1. Planned'
    BY <1>0 DEF vars, Planned
  <1>2. calls' \in 0 .. MaxCalls /\ calls <= calls'
    BY <1>0, EventDaemonAssumption DEF TypeOK, vars
  <1> QED
    BY <1>0, <1>1, <1>2, ServletStays
       DEF vars, table, statics, objects, locals, fields, TypeOK, EventTypeOK

LEMMA NextOwner == ASSUME OwnerInv, Next PROVE OwnerInv'
  <1>1. CASE EventStep /\ EventsOnly
    <2>1. CASE NextRow \/ RunEnds
      BY <1>1, <2>1, NextRowOwner, RunEndsOwner
    <2>2. ASSUME NEW r \in Request, PageStep(r) PROVE OwnerInv'
      <3>1. CASE r = Servlet
        BY <1>1, <2>2, <3>1, MapsOwner, InstanceOwner, InstanceFailsOwner
           DEF PageStep
      <3>2. CASE r # Servlet
        BY <1>1, <2>2, <3>2, PageStepOwner DEF Request
      <3> QED
        BY <3>1, <3>2
    <2> QED
      BY <1>1, <2>1, <2>2 DEF EventStep, PageStep
  <1>2. CASE StopBegins \/ StopEnds \/ StopFails \/ Create \/ CreateFails
    BY <1>2, StopBeginsOwner, StopEndsOwner, StopFailsOwner, CreateOwner, CreateFailsOwner
  <1>3. CASE Dispatch \/ CloseEvents \/ NewEvents \/ NewEventsFail
    BY <1>3, DispatchOwner, CloseEventsOwner, NewEventsOwner, NewEventsFailOwner
  <1>4. CASE Begin \/ RunEvents \/ RunFails \/ DropEvents
    BY <1>4, BeginOwner, RunEventsOwner, RunFailsOwner, DropEventsOwner
  <1>5. CASE \E s \in Sched : SchedThread(s)
    BY <1>5, SchedThreadOwner
  <1>6. CASE \E p \in Page : TriggerPage(p)
    BY <1>6, TriggerPageOwner
  <1>7. CASE StorePage \/ ((Reset \/ StoreFails) /\ EventsOnly)
    BY <1>7, TableOwner
  <1> QED
    BY <1>1, <1>2, <1>3, <1>4, <1>5, <1>6, <1>7 DEF Next

\* The invariant of the two fields of the servlet and of the DBBinds and the events of each
\* daemon: in every step of every request each has an owner that will close it.
THEOREM Owner == Spec => []OwnerInv
  <1>1. Init => OwnerInv
    BY InitOwner
  <1>2. OwnerInv /\ [Next]_vars => OwnerInv'
    BY NextOwner, StutterOwner
  <1> QED
    BY <1>1, <1>2, PTL DEF Spec
-----------------------------------------------------------------------------
(* What is scheduled: helpers                                              *)

\* The servlet was at `from' and is at `to', and the pages have not moved.
Passes(from, to) == Place \in from /\ Place' \in to /\ \A p \in Page : plan'[p] = plan[p]

\* Where the steps of a request outside a run lead.
LEMMA Passage ==
  ASSUME TypeOK, Planned
  PROVE  /\ Begin => Passes({"idle"}, {"create", "stop_scheduler", "close_events"})
         /\ StopBegins => Passes({"stop_scheduler"}, {"restart_events", "close_events", "stopping"})
         /\ StopEnds => Passes({"stopping"}, {"restart_events", "close_events"})
         /\ StopFails => Passes({"stop_scheduler", "stopping"}, {"idle"})
         /\ Create => Passes({"create"}, {"events"})
         /\ CreateFails => Passes({"create"}, {"idle"})
         /\ Dispatch => Passes({"restart_events", "events"},
                               {"create", "close_events", "idle", "first_events"})
         /\ CloseEvents => Passes({"close_events"}, {"run_events", "new_events", "drop_events"})
         /\ NewEvents => Passes({"first_events", "new_events"}, {"run_events"})
         /\ NewEventsFail => \/ Passes({"first_events"}, {"idle"})
                             \/ Passes({"new_events"}, {"run_events"})
         /\ RunFails => Passes({"run_events"}, {"create", "idle"})
         /\ DropEvents => Passes({"drop_events"}, {"idle"})
  <1>1. Begin => Passes({"idle"}, {"create", "stop_scheduler", "close_events"})
    BY BeginMoves DEF Passes
  <1>2. StopBegins => Passes({"stop_scheduler"}, {"restart_events", "close_events", "stopping"})
    BY AtPlace, StopSkips, StopBeginsMoves DEF StopBegins, Moves, Passes
  <1>3. StopEnds => Passes({"stopping"}, {"restart_events", "close_events"})
    BY AtPlace, StopEndsMoves DEF StopEnds, Moves, Passes
  <1>4. StopFails => Passes({"stop_scheduler", "stopping"}, {"idle"})
    BY AtPlace, ServletThrows DEF StopFails, Passes
  <1>5. Create => Passes({"create"}, {"events"})
    BY AtPlace, CreateMoves DEF Create, Moves, Passes
  <1>6. CreateFails => Passes({"create"}, {"idle"})
    BY AtPlace, ServletThrows DEF CreateFails, Passes
  <1>7. Dispatch => Passes({"restart_events", "events"},
                           {"create", "close_events", "idle", "first_events"})
    <2>1. ASSUME Dispatch, Place = "restart_events"
          PROVE  Passes({"restart_events", "events"}, {"create", "close_events", "idle", "first_events"})
      <3>1. CASE eventDaemon = None
        BY <2>1, <3>1, AtPlace, RestartSkips DEF Dispatch, Moves, Passes
      <3>2. CASE eventDaemon # None
        BY <2>1, <3>2, AtPlace, RestartMoves DEF Dispatch, Moves, Passes
      <3> QED
        BY <3>1, <3>2
    <2>2. ASSUME Dispatch, Place = "events"
          PROVE  Passes({"restart_events", "events"}, {"create", "close_events", "idle", "first_events"})
      <3>1. CASE eventDaemon = None
        BY <2>2, <3>1, AtPlace, EventsFirst DEF Dispatch, Moves, Passes
      <3>2. CASE eventDaemon # None /\ kind = "restart"
        BY <2>2, <3>2, AtPlace, EventsAgain DEF Dispatch, Moves, Passes
      <3>3. CASE eventDaemon # None /\ kind # "restart"
        BY <2>2, <3>3, AtPlace, EventsSkip DEF Dispatch, Moves, Passes
      <3> QED
        BY <3>1, <3>2, <3>3
    <2> QED
      BY <2>1, <2>2, AtPlace DEF Dispatch
  <1>8. CloseEvents => Passes({"close_events"}, {"run_events", "new_events", "drop_events"})
    BY AtPlace, CloseMoves DEF CloseEvents, Moves, Passes
  <1>9. NewEvents => Passes({"first_events", "new_events"}, {"run_events"})
    BY AtPlace, FirstMoves, NewMoves DEF NewEvents, Moves, Passes
  <1>10. NewEventsFail => Passes({"first_events"}, {"idle"}) \/ Passes({"new_events"}, {"run_events"})
    BY AtPlace, FirstFails, NewMoves DEF NewEventsFail, Moves, Passes
  <1>11. RunFails => Passes({"run_events"}, {"create", "idle"})
    BY AtPlace, RunFailsMoves DEF RunFails, Moves, Passes
  <1>12. DropEvents => Passes({"drop_events"}, {"idle"})
    BY AtPlace, DropMoves DEF DropEvents, Moves, Passes
  <1> QED
    BY <1>1, <1>2, <1>3, <1>4, <1>5, <1>6, <1>7, <1>8, <1>9, <1>10, <1>11, <1>12

\* Whoever is at the maps during a run has left a mark.
LEMMA Disturbed ==
  ASSUME RunAlone, InRun, storing \/ Reading # {} \/ (\E p \in Page : Busy(p))
  PROVE  "mixed" \in history
  BY DEF RunAlone, Alone

LEMMA RunIsBusy == ASSUME InRun PROVE Busy(Servlet)
  BY DEF InRun, Place, Busy, EventSteps

\* Somebody who was about to fill the maps still is.
LEMMA StillFilling ==
  ASSUME Filling, Reading \subseteq Reading',
         \A r \in Request : At(r, "fill") => At(r, "fill")'
  PROVE  Filling'
  BY DEF Filling

LEMMA StillRight ==
  ASSUME MapsRight, UNCHANGED <<active, storing, known>>, history \subseteq history',
         "stale" \notin history' => (Filling => Filling')
  PROVE  MapsRight'
  BY DEF MapsRight

\* A step of the servlet that does not lead into a run.
LEMMA OutsideRun ==
  ASSUME OwnerInv, ActiveInv, UNCHANGED <<active, storing, known>>, history \subseteq history',
         \A p \in Page : plan'[p] = plan[p],
         Place # "fill", Place' \notin EventSteps, Reading' = Reading \/ "stale" \in history',
         \/ Place' \in {"run_events", "new_events", "drop_events"} \/ eventDaemon' = None \/ ~Clean'
         \/ /\ UNCHANGED <<eventDaemon, handler>>
            /\ Place \notin EventSteps \cup {"run_events", "new_events", "drop_events"}
           /\ skipped' = skipped
  PROVE  ActiveInv'
  <1>1. Marked'
    BY DEF ActiveInv, Marked
  <1>2. \A r \in Request : At(r, "fill") => At(r, "fill")'
    BY AtPlace DEF At, Request
  <1>3. MapsRight'
    BY <1>2, StillFilling, StillRight DEF ActiveInv
  <1>4. RunAlone' /\ RunPart'
    BY DEF RunAlone, RunPart, InRun
  <1>5. Kept'
    <2>1. Clean' => Clean
      BY DEF Clean
    <2>2. UNCHANGED <<eventDaemon, handler>> => Live(eventDaemon)' = Live(eventDaemon)
      BY DEF Live
    <2> QED
      BY <2>1, <2>2 DEF ActiveInv, Kept
  <1> QED
    BY <1>1, <1>3, <1>4, <1>5 DEF ActiveInv
-----------------------------------------------------------------------------
(* What is scheduled: the steps                                            *)

LEMMA InitActive == ASSUME Init PROVE ActiveInv
  <1>1. Place = "idle" /\ ~InRun
    BY DEF Init, Place, InRun, EventSteps, Request
  <1> QED
    BY <1>1 DEF Init, EventInit, ActiveInv, Marked, MapsRight, RunAlone, RunPart, Kept, None

LEMMA SchedulerActive ==
  ASSUME OwnerInv, ActiveInv,
         Begin \/ StopBegins \/ StopEnds \/ StopFails \/ Create \/ CreateFails
  PROVE  ActiveInv'
  <1>0. TypeOK /\ Planned
    BY DEF OwnerInv
  <1>1. /\ Place \in {"idle", "stop_scheduler", "stopping", "create"}
        /\ Place' \in {"create", "stop_scheduler", "close_events", "restart_events", "stopping",
                       "idle", "events"}
        /\ \A p \in Page : plan'[p] = plan[p]
    BY <1>0, Passage DEF Passes
  <1>2. UNCHANGED <<active, storing, known, handler, eventDaemon, skipped>>
    BY DEF Begin, StopBegins, StopEnds, StopFails, Create, CreateFails, Others, Untouched,
           table, statics, objects, locals, fields
  <1>3. history \subseteq history'
    BY DEF Begin, StopBegins, StopEnds, StopFails, Create, CreateFails, Others, Untouched, Kill
  <1>4. Reading' = Reading \/ "stale" \in history'
    <2>1. CASE Begin \/ StopEnds \/ CreateFails
      BY <2>1 DEF Begin, StopEnds, CreateFails, fields, Reading
    <2>2. CASE StopBegins
      BY <1>0, <2>2 DEF StopBegins, StopAll, TypeOK, Reading
    <2>3. CASE StopFails
      BY <1>0, <2>3 DEF StopFails, Kill, TypeOK, Reading
    <2>4. CASE Create
      <3>1. CASE schedDaemon # None
        BY <2>4, <3>1 DEF Create, Reading
      <3>2. CASE schedDaemon = None
        <4>1. PICK s \in Sched : sched[s] = "none" /\ sched' = [sched EXCEPT ![s] = "starting"]
          BY <2>4, <3>2, EventDaemonAssumption DEF Create, Sched
        <4> QED
          BY <1>0, <4>1 DEF TypeOK, Reading
      <3> QED
        BY <3>1, <3>2
    <2> QED
      BY <2>1, <2>2, <2>3, <2>4
  <1>5. /\ Place # "fill" /\ Place' \notin EventSteps
        /\ Place \notin EventSteps \cup {"run_events", "new_events", "drop_events"}
    BY <1>1 DEF EventSteps
  <1> QED
    BY <1>1, <1>2, <1>3, <1>4, <1>5, OutsideRun

LEMMA EventsActive ==
  ASSUME OwnerInv, ActiveInv,
         Dispatch \/ CloseEvents \/ NewEvents \/ NewEventsFail \/ RunFails \/ DropEvents
  PROVE  ActiveInv'
  <1>0. TypeOK /\ Planned
    BY DEF OwnerInv
  <1>1. UNCHANGED <<active, storing, known, sched>> /\ history \subseteq history'
    BY DEF Dispatch, CloseEvents, Close, NewEvents, NewEventsFail, RunFails, QueryFails, DropEvents,
           Others, Untouched, table, statics, fields
  <1>2. Reading' = Reading
    BY <1>1 DEF Reading
  <1>3. /\ Place \notin EventSteps /\ Place' \notin EventSteps /\ Place # "fill"
        /\ \A p \in Page : plan'[p] = plan[p]
    BY <1>0, Passage DEF Passes, EventSteps
  <1>4. \/ Place' \in {"run_events", "new_events", "drop_events"} \/ eventDaemon' = None \/ ~Clean'
        \/ /\ UNCHANGED <<eventDaemon, handler>>
           /\ Place \notin EventSteps \cup {"run_events", "new_events", "drop_events"}
           /\ skipped' = skipped
    <2>1. CASE Dispatch
      BY <1>0, <1>3, <2>1, Passage DEF Passes, Dispatch, Others, objects, locals, fields
    <2>2. CASE CloseEvents \/ NewEvents
      BY <1>0, <2>2, Passage DEF Passes
    <2>3. CASE NewEventsFail
      BY <1>0, <2>3, Passage DEF Passes, NewEventsFail, fields, OwnerInv, Ready
    <2>4. CASE RunFails
      BY <2>4 DEF RunFails, QueryFails, Clean
    <2>5. CASE DropEvents
      BY <2>5 DEF DropEvents
    <2> QED
      BY <2>1, <2>2, <2>3, <2>4, <2>5
  <1> QED
    BY <1>1, <1>2, <1>3, <1>4, OutsideRun

LEMMA RunEventsActive == ASSUME OwnerInv, ActiveInv, RunEvents PROVE ActiveInv'
  <1>0. TypeOK /\ Planned /\ Place = "run_events"
    BY AtPlace DEF OwnerInv, RunEvents
  <1>1. UNCHANGED <<active, storing, known, sched, eventDaemon>>
    BY DEF RunEvents, Untouched, table, statics, fields
  <1>2. Reading' = Reading
    BY <1>1 DEF Reading
  <1>3. CASE eventDaemon = None
    <2>1. Place' = "idle" /\ \A p \in Page : plan'[p] = plan[p]
      BY <1>0, <1>3, ServletThrows DEF RunEvents
    <2>2. history' = history
      BY <1>3 DEF RunEvents
    <2> QED
      BY <1>0, <1>1, <1>2, <1>3, <2>1, <2>2, OutsideRun DEF EventSteps
  <1>4. CASE eventDaemon # None
    <2>1. Place' = "schedule" /\ \A p \in Page : plan'[p] = plan[p]
      BY <1>0, <1>4, RunMoves DEF RunEvents, Moves
    <2>2. /\ history' = (history \ {"behind", "reused", "mixed"})
                          \cup (IF Alone THEN {} ELSE {"mixed"})
                          \cup (IF "closed" \in history THEN {"reused"} ELSE {})
          /\ on' = eventDaemon /\ todo' = active /\ handler' = handler /\ skipped' = {}
      BY <1>4 DEF RunEvents, Query
    <2>3. "mixed" \notin history' => Alone
      BY <2>2
    <2>4. Marked'
      BY <1>1, <2>3 DEF Marked, Alone
    <2>5. \A r \in Request : At(r, "fill") => At(r, "fill")'
      BY <1>0, <2>1, AtPlace DEF At, Request
    <2>6. Filling => Filling'
      BY <1>2, <2>5, StillFilling
    <2>7. MapsRight'
      BY <1>1, <2>2, <2>6 DEF ActiveInv, MapsRight
    <2>8. Alone => Alone'
      BY <1>1, <1>2, <2>1 DEF Alone, Busy
    <2>9. RunAlone'
      BY <2>3, <2>8 DEF RunAlone
    <2>10. RunPart'
      <3>1. Live(eventDaemon) = {}
        BY <1>0, <1>4 DEF OwnerInv, Ready
      <3>2. Live(on)' = {}
        BY <2>2, <3>1 DEF Live
      <3>3. Left' = active
        BY <2>1, <2>2 DEF Left
      <3> QED
        BY <1>1, <2>1, <2>2, <3>2, <3>3 DEF RunPart
    <2>11. Kept'
      BY <2>1 DEF Kept, EventSteps
    <2> QED
      BY <2>4, <2>7, <2>9, <2>10, <2>11 DEF ActiveInv
  <1> QED
    BY <1>3, <1>4

\* The thread of a SchedulerDaemon reads the active events.
LEMMA SchedThreadActive ==
  ASSUME OwnerInv, ActiveInv, NEW s \in Sched, SchedThread(s)
  PROVE  ActiveInv'
  <1>0. TypeOK /\ Planned
    BY DEF OwnerInv
  <1>1. /\ plan' = plan /\ UNCHANGED <<active, storing, handler, eventDaemon, on, todo, row, skipped>>
    BY DEF SchedThread, Reads, HasRead, ReadFails, Lives, Thread, objects, locals
  <1>2. history \subseteq history'
    BY DEF SchedThread, Reads, HasRead, ReadFails, Lives, Mixes
  <1>3. Place' = Place
    BY <1>1, PlaceStays
  <1>4. \A r \in Request : At(r, "fill") => At(r, "fill")'
    BY <1>1 DEF At
  <1>5. Marked'
    BY <1>1, <1>2 DEF ActiveInv, Marked
  <1>6. MapsRight'
    <2>1. CASE Reads(s)
      <3>1. s \in Reading'
        BY <1>0, <2>1 DEF Reads, Becomes, TypeOK, Reading
      <3> QED
        BY <2>1, <3>1 DEF Reads, MapsRight, Filling
    <2>2. CASE HasRead(s)
      <3>1. known' = IF known = NotRead THEN known ELSE known \cup active
        BY <2>2 DEF HasRead
      <3>2. history' = history
        BY <2>2 DEF HasRead
      <3> QED
        BY <1>1, <3>1, <3>2 DEF ActiveInv, MapsRight
    <2>3. CASE ReadFails(s)
      BY <2>3 DEF ReadFails, MapsRight
    <2>4. CASE Lives(s)
      <3>1. Reading \subseteq Reading'
        BY <1>0, <2>4 DEF Lives, Becomes, TypeOK, Reading
      <3> QED
        BY <1>1, <1>2, <1>4, <2>4, <3>1, StillFilling, StillRight DEF ActiveInv, Lives
    <2> QED
      BY <2>1, <2>2, <2>3, <2>4 DEF SchedThread
  <1>7. CASE InRun /\ "mixed" \in history'
    <2>1. InRun'
      BY <1>3, <1>7 DEF InRun
    <2>2. RunAlone' /\ RunPart' /\ Kept'
      BY <1>7, <2>1 DEF RunAlone, RunPart, Kept, Clean, InRun
    <2> QED
      BY <1>5, <1>6, <2>2 DEF ActiveInv
  <1>8. CASE InRun /\ "mixed" \notin history'
    <2>1. Reading = {}
      BY <1>2, <1>8, Disturbed DEF ActiveInv
    <2>2. Lives(s)
      BY <1>8, <2>1, RunIsBusy DEF SchedThread, Reads, HasRead, ReadFails, Becomes, Reading, Mixes
    <2>3. known' = known /\ history' = history
      BY <2>2 DEF Lives
    <2>4. Reading' = Reading
      BY <1>0, <2>2 DEF Lives, Becomes, TypeOK, Reading
    <2>5. Live(on)' = Live(on) /\ Left' = Left
      BY <1>1, <1>3 DEF Live, Left
    <2>6. RunAlone'
      BY <1>1, <1>8, <2>3, <2>4 DEF ActiveInv, RunAlone, Alone, Busy
    <2>7. RunPart'
      BY <1>1, <1>3, <1>8, <2>3, <2>5 DEF ActiveInv, RunPart, Clean
    <2>8. Kept'
      BY <1>3, <1>8 DEF Kept, InRun
    <2> QED
      BY <1>5, <1>6, <2>6, <2>7, <2>8 DEF ActiveInv
  <1>9. CASE ~InRun
    <2>1. RunAlone' /\ RunPart'
      BY <1>3, <1>9 DEF RunAlone, RunPart, InRun
    <2>2. Live(eventDaemon)' = Live(eventDaemon)
      BY <1>1 DEF Live
    <2>3. Kept'
      BY <1>1, <1>2, <1>3, <2>2 DEF ActiveInv, Kept, Clean
    <2> QED
      BY <1>5, <1>6, <2>1, <2>3 DEF ActiveInv
  <1> QED
    BY <1>7, <1>8, <1>9

\* A step of a run that schedules nothing, or ends it.
LEMMA RunActive ==
  ASSUME OwnerInv, ActiveInv, NextRow \/ RunEnds, EventsOnly
  PROVE  ActiveInv'
  <1>0. TypeOK /\ Planned /\ Place = "schedule" /\ InRun
    BY AtPlace DEF OwnerInv, NextRow, RunEnds, InRun, EventSteps
  <1>1. /\ UNCHANGED <<active, storing, known, sched, eventDaemon, handler, on, skipped>>
        /\ history' = history
    BY DEF NextRow, RunEnds, EventsOnly, table, statics, objects, locals, fields
  <1>2. Place' \in {"look", "create", "idle"} /\ \A p \in Page : plan'[p] = plan[p]
    BY <1>0, RowMoves, RunEndsMoves DEF NextRow, RunEnds, Moves
  <1>3. Reading' = Reading
    BY <1>1 DEF Reading
  <1>4. \A r \in Request : At(r, "fill") => At(r, "fill")'
    BY <1>0, <1>2, AtPlace DEF At, Request
  <1>5. Marked' /\ MapsRight'
    BY <1>1, <1>3, <1>4, StillFilling, StillRight DEF ActiveInv, Marked
  <1>6. RunAlone'
    BY <1>0, <1>1, <1>2, <1>3 DEF ActiveInv, RunAlone, Alone, Busy
  <1>7. Clean' => Clean /\ Live(on) \cup Left = active \ skipped
    BY <1>0, <1>1 DEF ActiveInv, RunPart, Clean
  <1>8. Live(on)' = Live(on) /\ Live(eventDaemon)' = Live(eventDaemon)
    BY <1>1 DEF Live
  <1>9. CASE NextRow
    <2>1. PICK e \in todo : row' = [row EXCEPT ![Servlet] = e] /\ todo' = todo \ {e}
      BY <1>9 DEF NextRow
    <2>2. Place' = "look"
      BY <1>0, <1>9, RowMoves DEF NextRow, Moves
    <2>3. Left' = Left
      BY <1>0, <2>1, <2>2 DEF Left, TypeOK, EventTypeOK, Request
    <2>4. RunPart' /\ Kept'
      BY <1>1, <1>7, <1>8, <2>2, <2>3 DEF RunPart, Kept, EventSteps
    <2> QED
      BY <1>5, <1>6, <2>4 DEF ActiveInv
  <1>10. CASE RunEnds
    <2>1. Place' \in {"create", "idle"}
      BY <1>0, <1>10, RunEndsMoves DEF RunEnds, Moves
    <2>2. todo = {}
      BY <1>10 DEF RunEnds
    <2>3. Left = {}
      BY <1>0, <2>2 DEF Left
    <2>4. on = eventDaemon
      BY <1>0 DEF OwnerInv, Fresh
    <2>5. RunPart' /\ Kept'
      BY <1>1, <1>7, <1>8, <2>1, <2>3, <2>4 DEF RunPart, Kept, InRun, EventSteps
    <2> QED
      BY <1>5, <1>6, <2>5 DEF ActiveInv
  <1> QED
    BY <1>9, <1>10

LEMMA LookActive == ASSUME OwnerInv, ActiveInv, Look(Servlet), EventsOnly PROVE ActiveInv'
  <1>0. TypeOK /\ Planned
    BY DEF OwnerInv
  <1>1. /\ Place = "look" /\ Place' = IF known = NotRead THEN "know" ELSE "instance"
        /\ \A p \in Page : plan'[p] = plan[p]
    BY <1>0, MapsMove DEF Moves
  <1>2. /\ UNCHANGED <<active, storing, known, sched, eventDaemon, handler, on, row, todo, skipped>>
        /\ history' = history
    BY DEF Look, EventsOnly, table, statics, objects, locals, fields
  <1>3. Reading' = Reading /\ Live(on)' = Live(on)
    BY <1>2 DEF Reading, Live
  <1>4. \A r \in Request : At(r, "fill") => At(r, "fill")'
    BY <1>1, AtPlace DEF At, Request
  <1>5. Marked' /\ MapsRight'
    BY <1>2, <1>3, <1>4, StillFilling, StillRight DEF ActiveInv, Marked
  <1>6. InRun /\ RunAlone'
    BY <1>1, <1>2, <1>3 DEF ActiveInv, RunAlone, Alone, Busy, InRun, EventSteps
  <1>7. Left' = Left
    BY <1>1, <1>2 DEF Left
  <1>8. RunPart' /\ Kept'
    BY <1>1, <1>2, <1>3, <1>6, <1>7 DEF ActiveInv, RunPart, Kept, Clean, EventSteps
  <1> QED
    BY <1>5, <1>6, <1>8 DEF ActiveInv

LEMMA KnowActive == ASSUME OwnerInv, ActiveInv, Know(Servlet), EventsOnly PROVE ActiveInv'
  <1>0. TypeOK /\ Planned
    BY DEF OwnerInv
  <1>1. /\ Place = "know" /\ Place' = IF known = NotRead THEN "fill" ELSE "instance"
        /\ \A p \in Page : plan'[p] = plan[p]
    BY <1>0, MapsMove DEF Moves
  <1>2. /\ UNCHANGED <<active, storing, sched, eventDaemon, handler, on, row, todo, skipped>>
        /\ history' = history /\ known' = IF known = NotRead THEN {} ELSE known
    BY DEF Know, EventsOnly, table, objects, locals, fields
  <1>3. Reading' = Reading /\ Live(on)' = Live(on)
    BY <1>2 DEF Reading, Live
  <1>4. known' # NotRead
    BY <1>2, EventDaemonAssumption
  <1>5. MapsRight'
    <2>1. CASE known = NotRead
      <3>1. At(Servlet, "fill")'
        BY <1>1, <2>1 DEF At, Place
      <3> QED
        BY <1>2, <2>1, <3>1 DEF MapsRight, Filling, Request
    <2>2. CASE known # NotRead
      <3>1. \A r \in Request : At(r, "fill") => At(r, "fill")'
        BY <1>1, AtPlace DEF At, Request
      <3> QED
        BY <1>2, <1>3, <2>2, <3>1, StillFilling, StillRight DEF ActiveInv
    <2> QED
      BY <2>1, <2>2
  <1>6. Marked'
    BY <1>2 DEF ActiveInv, Marked
  <1>7. InRun /\ RunAlone'
    BY <1>1, <1>2, <1>3 DEF ActiveInv, RunAlone, Alone, Busy, InRun, EventSteps
  <1>8. Left' = Left
    BY <1>1, <1>2 DEF Left
  <1>9. RunPart' /\ Kept'
    BY <1>1, <1>2, <1>3, <1>4, <1>7, <1>8 DEF ActiveInv, RunPart, Kept, Clean, EventSteps
  <1> QED
    BY <1>5, <1>6, <1>7, <1>9 DEF ActiveInv

LEMMA FillActive == ASSUME OwnerInv, ActiveInv, Fill(Servlet), EventsOnly PROVE ActiveInv'
  <1>0. TypeOK /\ Planned
    BY DEF OwnerInv
  <1>1. /\ Place = "fill" /\ \A p \in Page : plan'[p] = plan[p]
        /\ Place' = IF known = NotRead /\ active # {} THEN "schedule" ELSE "instance"
    BY <1>0, MapsMove DEF Moves
  <1>2. /\ UNCHANGED <<active, storing, sched, eventDaemon, handler, on, row, todo, skipped>>
        /\ history' = history /\ known' = IF known = NotRead THEN known ELSE known \cup active
    BY DEF Fill, EventsOnly, table, objects, locals, fields
  <1>3. Reading' = Reading /\ Live(on)' = Live(on)
    BY <1>2 DEF Reading, Live
  <1>4. MapsRight'
    BY <1>2 DEF ActiveInv, MapsRight
  <1>5. Marked'
    BY <1>2 DEF ActiveInv, Marked
  <1>6. InRun /\ RunAlone'
    BY <1>1, <1>2, <1>3 DEF ActiveInv, RunAlone, Alone, Busy, InRun, EventSteps
  <1>7. Clean => known = {} /\ Live(on) \cup Left = active \ skipped
    BY <1>1, <1>6 DEF ActiveInv, RunPart
  <1>8. Clean => Place' = "instance" /\ known' = active /\ Left' = Left
    BY <1>1, <1>2, <1>7, EventDaemonAssumption DEF Left
  <1>9. active # NotRead
    BY <1>0, EventDaemonAssumption DEF TypeOK, EventTypeOK
  <1>10. RunPart'
    BY <1>2, <1>3, <1>7, <1>8, <1>9 DEF RunPart, Clean
  <1>11. Kept'
    BY <1>1 DEF Kept, EventSteps
  <1> QED
    BY <1>4, <1>5, <1>6, <1>10, <1>11 DEF ActiveInv

LEMMA FillFailsActive == ASSUME OwnerInv, ActiveInv, FillFails(Servlet), EventsOnly PROVE ActiveInv'
  <1>0. TypeOK /\ Planned
    BY DEF OwnerInv
  <1>1. Place = "fill" /\ \A p \in Page : plan'[p] = plan[p]
    BY <1>0, MapsMove DEF Moves
  <1>2. UNCHANGED <<storing, sched>> /\ history' = history \cup {"stale"}
    BY DEF FillFails, EventsOnly, table, fields
  <1>3. Reading' = Reading
    BY <1>2 DEF Reading
  <1>4. Marked' /\ MapsRight' /\ RunPart' /\ Kept'
    BY <1>2 DEF ActiveInv, Marked, MapsRight, RunPart, Kept, Clean
  <1>5. RunAlone'
    BY <1>1, <1>2, <1>3 DEF ActiveInv, RunAlone, Alone, Busy, InRun, EventSteps
  <1> QED
    BY <1>4, <1>5 DEF ActiveInv

LEMMA InstanceActive == ASSUME OwnerInv, ActiveInv, Instance(Servlet), EventsOnly PROVE ActiveInv'
  <1>0. TypeOK /\ Planned
    BY DEF OwnerInv
  <1>1. Place = "instance" /\ Place' = "schedule" /\ \A p \in Page : plan'[p] = plan[p]
    BY InstanceSchedules DEF Moves
  <1>2. /\ UNCHANGED <<active, storing, known, sched, eventDaemon, on, row, todo, skipped>>
        /\ history' = history
    BY InstanceSchedules DEF EventsOnly, table, locals, fields
  <1>3. Reading' = Reading
    BY <1>2 DEF Reading
  <1>4. \A r \in Request : At(r, "fill") => At(r, "fill")'
    BY <1>1, AtPlace DEF At, Request
  <1>5. Marked' /\ MapsRight'
    BY <1>2, <1>3, <1>4, StillFilling, StillRight DEF ActiveInv, Marked
  <1>6. InRun /\ RunAlone'
    BY <1>1, <1>2, <1>3 DEF ActiveInv, RunAlone, Alone, Busy, InRun, EventSteps
  <1>7. RunPart'
    <2>1. SUFFICES ASSUME Clean PROVE Live(on)' \cup Left' = active \ skipped
      BY <1>1, <1>2 DEF RunPart, Clean
    <2>2. Live(on) \cup todo \cup {row[Servlet]} = active \ skipped /\ known # NotRead
      BY <1>1, <1>6, <2>1 DEF ActiveInv, RunPart, Left
    <2>3. Alone
      BY <1>6, <2>1 DEF ActiveInv, RunAlone, Clean
    <2>4. ~Filling
      <3>1. ~At(Servlet, "fill")
        BY <1>1, AtPlace
      <3>2. \A p \in Page : ~At(p, "fill")
        BY <2>3 DEF Alone, At, Busy
      <3> QED
        BY <2>3, <3>1, <3>2 DEF Filling, Alone, Request
    <2>5. known = active
      BY <2>1, <2>2, <2>3, <2>4 DEF ActiveInv, MapsRight, Clean, Alone
    <2>6. row[Servlet] \in known
      BY <2>2, <2>5
    <2>7. Live(on)' = Live(on) \cup {row[Servlet]}
      BY <2>2, <2>6, InstanceSchedules
    <2>8. Left' = todo
      BY <1>1, <1>2 DEF Left
    <2> QED
      BY <2>2, <2>7, <2>8
  <1>8. Kept'
    BY <1>1 DEF Kept, EventSteps
  <1> QED
    BY <1>5, <1>6, <1>7, <1>8 DEF ActiveInv

LEMMA InstanceFailsActive ==
  ASSUME OwnerInv, ActiveInv, InstanceFails(Servlet), EventsOnly
  PROVE  ActiveInv'
  <1>0. TypeOK /\ Planned /\ Place = "instance"
    BY AtPlace DEF OwnerInv, InstanceFails
  <1>1. Place' = "schedule" /\ \A p \in Page : plan'[p] = plan[p]
    BY <1>0, InstanceMoves DEF InstanceFails, Moves
  <1>2. /\ UNCHANGED <<active, storing, known, sched, eventDaemon, handler, on, row, todo>>
        /\ history' = history /\ skipped' = skipped \cup {row[Servlet]}
    BY DEF InstanceFails, EventsOnly, table, statics, objects, fields
  <1>3. Reading' = Reading /\ Live(on)' = Live(on)
    BY <1>2 DEF Reading, Live
  <1>4. \A r \in Request : At(r, "fill") => At(r, "fill")'
    BY <1>0, <1>1, AtPlace DEF At, Request
  <1>5. Marked' /\ MapsRight'
    BY <1>2, <1>3, <1>4, StillFilling, StillRight DEF ActiveInv, Marked
  <1>6. InRun /\ RunAlone'
    BY <1>0, <1>1, <1>2, <1>3 DEF ActiveInv, RunAlone, Alone, Busy, InRun, EventSteps
  <1>7. RunPart'
    <2>1. SUFFICES ASSUME Clean PROVE Live(on)' \cup Left' = active \ skipped'
      BY <1>1, <1>2 DEF RunPart, Clean
    <2>2. Live(on) \cup todo \cup {row[Servlet]} = active \ skipped
      BY <1>0, <1>6, <2>1 DEF ActiveInv, RunPart, Left
    <2>3. row[Servlet] \notin todo /\ row[Servlet] \notin Live(on)
      BY <1>0, <1>6 DEF OwnerInv, Fresh, Left
    <2>4. Left' = todo
      BY <1>1, <1>2 DEF Left
    <2> QED
      BY <1>2, <1>3, <2>2, <2>3, <2>4
  <1>8. Kept'
    BY <1>1 DEF Kept, EventSteps
  <1> QED
    BY <1>5, <1>6, <1>7, <1>8 DEF ActiveInv

\* Somebody else than the servlet, who leaves a mark if a run is going on.
LEMMA BesideRun ==
  ASSUME OwnerInv, ActiveInv, plan'[Servlet] = plan[Servlet],
         UNCHANGED <<handler, eventDaemon>>, Clean' => Clean /\ UNCHANGED <<active, skipped>>,
         InRun => "mixed" \in history', Marked', MapsRight'
  PROVE  ActiveInv'
  <1>1. Place' = Place
    BY PlaceStays
  <1>2. Live(eventDaemon)' = Live(eventDaemon)
    BY DEF Live
  <1>3. RunAlone' /\ RunPart'
    BY <1>1 DEF RunAlone, RunPart, InRun, Clean
  <1>4. Kept'
    BY <1>1, <1>2 DEF ActiveInv, Kept
  <1> QED
    BY <1>3, <1>4 DEF ActiveInv

LEMMA PageStepActive ==
  ASSUME OwnerInv, ActiveInv, NEW r \in Page, PageStep(r), EventsOnly
  PROVE  ActiveInv'
  <1>0. TypeOK /\ Planned /\ r # Servlet
    BY EventDaemonAssumption DEF OwnerInv
  <1>1. plan'[Servlet] = plan[Servlet] /\ \A x \in Request : x # r => plan'[x] = plan[x]
    BY <1>0, PageMoves
  <1>2. UNCHANGED <<active, storing, sched, handler, eventDaemon, skipped>> /\ history \subseteq history'
    BY <1>0 DEF PageStep, Look, Know, Fill, FillFails, Instance, InstanceFails, EventsOnly, table,
                objects, locals, fields
  <1>3. Busy(r)
    BY DEF PageStep, Look, Know, Fill, FillFails, Instance, InstanceFails, At, Busy
  <1>4. InRun => "mixed" \in history'
    BY <1>2, <1>3, Disturbed DEF ActiveInv
  <1>5. Marked'
    BY <1>2 DEF ActiveInv, Marked
  <1>6. Reading' = Reading
    BY <1>2 DEF Reading
  <1>7. \A x \in Request : x # r /\ At(x, "fill") => At(x, "fill")'
    BY <1>1 DEF At
  <1>8. MapsRight'
    <2>1. CASE Look(r) \/ Instance(r) \/ InstanceFails(r)
      <3>1. ~At(r, "fill")
        BY <2>1 DEF Look, Instance, InstanceFails, At
      <3>2. Filling => Filling'
        BY <1>6, <1>7, <3>1, StillFilling
      <3> QED
        BY <1>2, <2>1, <3>2, StillRight
           DEF ActiveInv, Look, Instance, InstanceFails, statics
    <2>2. CASE Know(r)
      <3>1. CASE known = NotRead
        <4>1. plan'[r] = <<"fill">> \o Tail(plan[r])
          BY <1>0, <2>2, <3>1, PageGoes DEF Know
        <4>2. plan[r] \in {<<"know", "look">>, <<"know", "instance">>}
          BY <1>0, <2>2, PagePlanAt DEF Know
        <4>3. Tail(<<"know", "look">>) = <<"look">> /\ Tail(<<"know", "instance">>) = <<"instance">>
          OBVIOUS
        <4>4. /\ <<"fill">> \o <<"look">> = <<"fill", "look">>
              /\ <<"fill">> \o <<"instance">> = <<"fill", "instance">>
          BY PushOne
        <4>5. plan'[r] \in {<<"fill", "look">>, <<"fill", "instance">>}
          BY <4>1, <4>2, <4>3, <4>4
        <4>6. At(r, "fill")'
          BY <4>5 DEF At
        <4> QED
          BY <2>2, <3>1, <4>6 DEF Know, MapsRight, Filling, Request
      <3>2. CASE known # NotRead
        <4>1. ~At(r, "fill")
          BY <2>2 DEF Know, At
        <4>2. Filling => Filling'
          BY <1>6, <1>7, <4>1, StillFilling
        <4> QED
          BY <1>2, <2>2, <3>2, <4>2, StillRight DEF ActiveInv, Know
      <3> QED
        BY <3>1, <3>2
    <2>3. CASE Fill(r)
      BY <1>2, <2>3 DEF ActiveInv, MapsRight, Fill
    <2>4. CASE FillFails(r)
      BY <2>4 DEF FillFails, MapsRight
    <2> QED
      BY <2>1, <2>2, <2>3, <2>4 DEF PageStep
  <1> QED
    BY <1>1, <1>2, <1>4, <1>5, <1>8, BesideRun DEF Clean

LEMMA TriggerPageActive ==
  ASSUME OwnerInv, ActiveInv, NEW p \in Page, TriggerPage(p)
  PROVE  ActiveInv'
  <1>0. TypeOK /\ Planned
    BY DEF OwnerInv
  <1>1. /\ plan'[Servlet] = plan[Servlet] /\ plan[p] = <<>>
        /\ \A x \in Request : x # p => plan'[x] = plan[x]
    BY <1>0, TriggerPageMoves
  <1>2. /\ UNCHANGED <<active, storing, known, sched, handler, eventDaemon, skipped>>
        /\ history \subseteq history'
    BY DEF TriggerPage, Mixes, table, statics, objects, fields
  <1>3. InRun => "mixed" \in history'
    BY RunIsBusy DEF TriggerPage, Mixes
  <1>4. Marked'
    BY <1>2 DEF ActiveInv, Marked
  <1>5. \A x \in Request : At(x, "fill") => At(x, "fill")'
    BY <1>1 DEF At
  <1>6. Reading' = Reading
    BY <1>2 DEF Reading
  <1>7. MapsRight'
    BY <1>2, <1>5, <1>6, StillFilling, StillRight DEF ActiveInv
  <1> QED
    BY <1>1, <1>2, <1>3, <1>4, <1>7, BesideRun DEF Clean

LEMMA TableActive ==
  ASSUME OwnerInv, ActiveInv, StorePage \/ ((Reset \/ StoreFails) /\ EventsOnly)
  PROVE  ActiveInv'
  <1>1. UNCHANGED <<plan, handler, eventDaemon, skipped>>
    BY DEF StorePage, Reset, StoreFails, EventsOnly, objects, locals, fields
  <1>2. CASE StorePage
    <2>1. history' = Mixes \cup {"behind"} /\ storing' = TRUE
      BY <1>2 DEF StorePage, Store
    <2>2. InRun => "mixed" \in history'
      BY <2>1, RunIsBusy DEF Mixes
    <2>3. Marked' /\ MapsRight' /\ ~Clean'
      BY <2>1 DEF Marked, MapsRight, Clean
    <2> QED
      BY <1>1, <2>2, <2>3, BesideRun
  <1>3. CASE Reset \/ StoreFails
    <2>1. /\ storing /\ storing' = FALSE /\ (known' = NotRead \/ "stale" \in history')
          /\ "mixed" \in history => "mixed" \in history'
          /\ "behind" \in history => "behind" \in history'
      BY <1>3 DEF Reset, StoreFails
    <2>2. InRun => "mixed" \in history'
      BY <1>3, <2>1, Disturbed DEF ActiveInv, Reset, StoreFails
    <2>3. Marked'
      BY <1>3 DEF Marked, Reset, StoreFails
    <2>4. MapsRight'
      BY <1>3 DEF MapsRight, Reset, StoreFails
    <2>5. ~Clean'
      BY <1>3 DEF ActiveInv, Marked, Clean, Reset, StoreFails
    <2> QED
      BY <1>1, <2>2, <2>3, <2>4, <2>5, BesideRun
  <1> QED
    BY <1>2, <1>3

LEMMA StutterActive == ASSUME OwnerInv, ActiveInv, UNCHANGED vars PROVE ActiveInv'
  BY DEF vars, table, statics, objects, locals, fields, ActiveInv, Marked, MapsRight, RunAlone,
         RunPart, Kept, Clean, Filling, Reading, Alone, InRun, Place, Left, Live, At, Busy

LEMMA NextActive == ASSUME OwnerInv, ActiveInv, Next PROVE ActiveInv'
  <1>1. CASE EventStep /\ EventsOnly
    <2>1. CASE NextRow \/ RunEnds
      BY <1>1, <2>1, RunActive
    <2>2. ASSUME NEW r \in Request, PageStep(r) PROVE ActiveInv'
      <3>1. CASE r = Servlet
        BY <1>1, <2>2, <3>1, LookActive, KnowActive, FillActive, FillFailsActive, InstanceActive,
           InstanceFailsActive DEF PageStep
      <3>2. CASE r # Servlet
        BY <1>1, <2>2, <3>2, PageStepActive DEF Request
      <3> QED
        BY <3>1, <3>2
    <2> QED
      BY <1>1, <2>1, <2>2 DEF EventStep, PageStep
  <1>2. CASE Begin \/ StopBegins \/ StopEnds \/ StopFails \/ Create \/ CreateFails
    BY <1>2, SchedulerActive
  <1>3. CASE Dispatch \/ CloseEvents \/ NewEvents \/ NewEventsFail \/ RunFails \/ DropEvents
    BY <1>3, EventsActive
  <1>4. CASE RunEvents
    BY <1>4, RunEventsActive
  <1>5. CASE \E s \in Sched : SchedThread(s)
    BY <1>5, SchedThreadActive
  <1>6. CASE \E p \in Page : TriggerPage(p)
    BY <1>6, TriggerPageActive
  <1>7. CASE StorePage \/ ((Reset \/ StoreFails) /\ EventsOnly)
    BY <1>7, TableActive
  <1> QED
    BY <1>1, <1>2, <1>3, <1>4, <1>5, <1>6, <1>7 DEF Next

\* The invariant of the maps of Event and of a run of EventDaemon that nobody disturbs: what
\* it has scheduled and what it has still to look at are the active events.
THEOREM Active == Spec => []ActiveInv
  <1>1. Init => ActiveInv
    BY InitActive
  <1>2. OwnerInv /\ ActiveInv /\ [Next]_vars => ActiveInv'
    BY NextActive, StutterActive
  <1> QED
    BY <1>1, <1>2, Owner, PTL DEF Spec
-----------------------------------------------------------------------------
(* Which instances work: the steps                                         *)

LEMMA InitWork == ASSUME Init PROVE WorkInv
  <1>1. ~InRun
    BY DEF Init, Place, InRun, EventSteps, Request
  <1> QED
    BY <1>1 DEF Init, EventInit, WorkInv, CachedWork, RunUnused, AllWork, Live

\* A step that schedules nothing and opens or closes nothing.
LEMMA WorkStays ==
  ASSUME OwnerInv, WorkInv, UNCHANGED <<handler, bind>>, InRun' => InRun,
         "closed" \in history' <=> "closed" \in history,
         "reused" \in history' <=> "reused" \in history,
         \A e \in Event : cached'[e] \in {None, cached[e], Global}
  PROVE  WorkInv'
  <1>1. Open' = Open /\ \A d \in Daemon : Live(d)' = Live(d)
    BY DEF Open, Live
  <1>2. CachedWork'
    BY <1>1 DEF WorkInv, CachedWork, Works
  <1>3. RunUnused'
    BY DEF WorkInv, RunUnused
  <1>4. AllWork'
    BY <1>1 DEF WorkInv, AllWork, Works
  <1> QED
    BY <1>2, <1>3, <1>4 DEF WorkInv

LEMMA SchedulerWork ==
  ASSUME OwnerInv, WorkInv,
         Begin \/ StopBegins \/ StopEnds \/ StopFails \/ Create \/ CreateFails
         \/ Dispatch \/ NewEvents \/ NewEventsFail \/ DropEvents
  PROVE  WorkInv'
  <1>0. TypeOK /\ Planned
    BY DEF OwnerInv
  <1>1. UNCHANGED <<handler, bind, cached>>
    BY DEF Begin, StopBegins, StopEnds, StopFails, Create, CreateFails, Dispatch, NewEvents,
           NewEventsFail, DropEvents, Others, Untouched, statics, objects
  <1>2. history' = history \/ history' = history \cup {"stale"}
    BY DEF Begin, StopBegins, StopEnds, StopFails, Kill, Create, CreateFails, Dispatch, NewEvents,
           NewEventsFail, DropEvents, Others
  <1>3. Place' \notin EventSteps
    BY <1>0, Passage DEF Passes, EventSteps
  <1> QED
    BY <1>1, <1>2, <1>3, WorkStays DEF InRun

LEMMA CloseEventsWork == ASSUME OwnerInv, WorkInv, CloseEvents PROVE WorkInv'
  <1>0. TypeOK /\ Planned
    BY DEF OwnerInv
  <1>1. Place' \notin EventSteps
    BY <1>0, Passage DEF Passes, EventSteps
  <1>2. CASE eventDaemon = None
    BY <1>1, <1>2, WorkStays DEF CloseEvents, Untouched, statics, InRun
  <1>3. CASE eventDaemon # None
    <2>1. /\ handler' = [handler EXCEPT ![eventDaemon] = [e \in Event |-> None]]
          /\ history' = history \cup {"closed"}
      BY <1>3 DEF CloseEvents, Close
    <2>2. \A d \in Daemon : Live(d)' = {}
      BY <1>0, <1>3, <2>1, IsDaemon DEF OwnerInv, NothingLeaks, Live, TypeOK, EventTypeOK
    <2> QED
      BY <1>1, <2>1, <2>2 DEF WorkInv, CachedWork, RunUnused, AllWork, InRun
  <1> QED
    BY <1>2, <1>3

\* A new DBBind takes no other away.
LEMMA BindOpens ==
  ASSUME TypeOK, eventDaemon # None, Bind(eventDaemon)
  PROVE  Open \subseteq Open'
  <1>1. eventDaemon \in Daemon /\ bind \in [Daemon -> 0 .. binds]
    BY IsDaemon DEF TypeOK, EventTypeOK
  <1>2. CASE bind[eventDaemon] = None
    <2>1. \A d \in Daemon : bind[d] # None => bind'[d] = bind[d]
      BY <1>1, <1>2 DEF Bind
    <2> QED
      BY <2>1 DEF Open
  <1>3. CASE bind[eventDaemon] # None
    BY <1>3 DEF Bind, Open
  <1> QED
    BY <1>2, <1>3

LEMMA RunWork == ASSUME OwnerInv, WorkInv, RunEvents \/ RunFails PROVE WorkInv'
  <1>0. TypeOK /\ Planned /\ Place = "run_events"
    BY AtPlace DEF OwnerInv, RunEvents, RunFails
  <1>1. UNCHANGED <<handler, cached>>
    BY DEF RunEvents, RunFails, Untouched, statics
  <1>2. CASE eventDaemon = None
    <2>1. RunEvents
      BY <1>2 DEF RunFails
    <2>2. Place' = "idle"
      BY <1>0, <1>2, <2>1, ServletThrows DEF RunEvents
    <2> QED
      BY <1>1, <1>2, <2>1, <2>2, WorkStays DEF RunEvents, InRun, EventSteps
  <1>3. CASE eventDaemon # None
    <2>1. Bind(eventDaemon)
      BY <1>3 DEF RunEvents, RunFails, Query, QueryFails
    <2>2. Open \subseteq Open'
      BY <1>0, <1>3, <2>1, BindOpens
    <2>3. \A d \in Daemon : Live(d)' = {}
      <3>1. \A d \in Daemon : Live(d) = {}
        BY <1>0, <1>3 DEF OwnerInv, Ready, NothingLeaks
      <3> QED
        BY <1>1, <3>1 DEF Live
    <2>4. AllWork'
      BY <2>3 DEF AllWork
    <2>5. "closed" \in history' <=> "closed" \in history
      BY <1>3 DEF RunEvents, RunFails, QueryFails
    <2>6. CachedWork'
      BY <1>1, <2>2, <2>5 DEF WorkInv, CachedWork, Works
    <2>7. RunUnused'
      <3>1. CASE RunEvents
        BY <1>3, <3>1 DEF RunUnused, RunEvents
      <3>2. CASE RunFails
        <4>1. Place' \notin EventSteps
          BY <1>0, <3>2, Passage DEF Passes, EventSteps
        <4> QED
          BY <4>1 DEF RunUnused, InRun
      <3> QED
        BY <3>1, <3>2
    <2> QED
      BY <2>4, <2>6, <2>7 DEF WorkInv
  <1> QED
    BY <1>2, <1>3

LEMMA InstanceWork == ASSUME OwnerInv, WorkInv, Instance(Servlet) PROVE WorkInv'
  <1>0. TypeOK /\ Planned
    BY DEF OwnerInv
  <1>1. /\ InRun /\ on \in Daemon /\ on' = on /\ bind[on] # None /\ bind' = bind /\ history' = history
        /\ row[Servlet] \in Event
    BY <1>0, InstanceSchedules DEF InRun, EventSteps, locals, TypeOK, EventTypeOK, Request
  <1>2. CASE UNCHANGED <<cached, handler, lost>>
    BY <1>1, <1>2, WorkStays
  <1>3. CASE ~UNCHANGED <<cached, handler, lost>>
    <2>1. PICK b \in 1 .. Global :
                 /\ b = IF cached[row[Servlet]] = None THEN bind[on] ELSE cached[row[Servlet]]
                 /\ cached' = [cached EXCEPT ![row[Servlet]] = b]
                 /\ handler' = [handler EXCEPT ![on][row[Servlet]] = b]
                 /\ Live(on)' = Live(on) \cup {row[Servlet]}
                 /\ \A d \in Daemon : d # on => Live(d)' = Live(d)
      BY <1>3, InstanceSchedules
    <2>2. Open' = Open
      BY <1>1 DEF Open
    <2>3. "closed" \notin history => Works(b)
      <3>1. CASE cached[row[Servlet]] = None
        BY <1>1, <2>1, <3>1 DEF Works, Open
      <3>2. CASE cached[row[Servlet]] # None
        BY <1>1, <2>1, <3>2 DEF WorkInv, CachedWork
      <3> QED
        BY <3>1, <3>2
    <2>4. CachedWork'
      <3>1. \A e \in Event : cached'[e] = IF e = row[Servlet] THEN b ELSE cached[e]
        BY <1>0, <2>1 DEF TypeOK, EventTypeOK
      <3> QED
        BY <1>1, <2>2, <2>3, <3>1 DEF WorkInv, CachedWork, Works
    <2>5. AllWork'
      <3>1. SUFFICES ASSUME "reused" \notin history, NEW d \in Daemon, NEW e \in Live(d)'
                     PROVE  handler'[d][e] \in Open \cup {Global}
        BY <1>1, <2>2 DEF AllWork, Works
      <3>2. "closed" \notin history
        BY <1>1, <3>1 DEF WorkInv, RunUnused
      <3>3. b \in Open \cup {Global}
        BY <2>3, <3>2 DEF Works
      <3>4. CASE d = on /\ e = row[Servlet]
        BY <1>0, <1>1, <2>1, <3>3, <3>4 DEF TypeOK, EventTypeOK
      <3>5. CASE ~(d = on /\ e = row[Servlet])
        <4>1. e \in Live(d)
          BY <1>1, <2>1, <3>1, <3>5
        <4>2. handler'[d][e] = handler[d][e]
          BY <1>0, <1>1, <2>1, <3>5, <4>1 DEF TypeOK, EventTypeOK, Live
        <4>3. Works(handler[d][e])
          BY <3>1, <4>1 DEF WorkInv, AllWork
        <4> QED
          BY <4>2, <4>3 DEF Works
      <3> QED
        BY <3>4, <3>5
    <2>6. RunUnused'
      BY <1>1 DEF WorkInv, RunUnused
    <2> QED
      BY <2>4, <2>5, <2>6 DEF WorkInv
  <1> QED
    BY <1>2, <1>3

\* What pages, rows and the table do to no instance.
LEMMA OthersWork ==
  ASSUME OwnerInv, WorkInv,
         \/ NextRow \/ RunEnds \/ Look(Servlet) \/ Know(Servlet) \/ Fill(Servlet) \/ FillFails(Servlet)
         \/ InstanceFails(Servlet)
         \/ (\E s \in Sched : SchedThread(s)) \/ (\E r \in Page : PageStep(r) \/ TriggerPage(r))
         \/ StorePage \/ StoreFails
  PROVE  WorkInv'
  <1>0. TypeOK /\ Planned
    BY DEF OwnerInv
  <1>1. CASE \/ NextRow \/ RunEnds \/ Look(Servlet) \/ Know(Servlet) \/ Fill(Servlet) \/ FillFails(Servlet)
             \/ InstanceFails(Servlet)
    <2>1. UNCHANGED <<handler, bind, cached>>
      BY <1>1 DEF NextRow, RunEnds, Look, Know, Fill, FillFails, InstanceFails, statics, objects
    <2>2. history' = history \/ history' = history \cup {"stale"}
      BY <1>1 DEF NextRow, RunEnds, Look, Know, Fill, FillFails, InstanceFails
    <2>3. Place \in EventSteps
      BY <1>1, AtPlace DEF NextRow, RunEnds, Look, Know, Fill, FillFails, InstanceFails, EventSteps
    <2> QED
      BY <2>1, <2>2, <2>3, WorkStays DEF InRun
  <1>2. ASSUME NEW s \in Sched, SchedThread(s) PROVE WorkInv'
    <2>1. UNCHANGED <<handler, bind, cached, plan>>
      BY <1>2 DEF SchedThread, Reads, HasRead, ReadFails, Lives, Thread, objects
    <2>2. \/ history' = history \/ history' = history \cup {"stale"} \/ history' = history \cup {"mixed"}
      BY <1>2 DEF SchedThread, Reads, HasRead, ReadFails, Lives, Mixes
    <2> QED
      BY <2>1, <2>2, PlaceStays, WorkStays DEF InRun
  <1>3. ASSUME NEW r \in Page, PageStep(r) PROVE WorkInv'
    <2>0. r # Servlet
      BY EventDaemonAssumption
    <2>1. UNCHANGED <<handler, bind>> /\ plan'[Servlet] = plan[Servlet]
      BY <1>0, <1>3, <2>0, PageMoves DEF PageStep, Look, Know, Fill, FillFails, Instance, InstanceFails, objects
    <2>2. history' = history \/ history' = history \cup {"stale"}
      BY <1>3 DEF PageStep, Look, Know, Fill, FillFails, Instance, InstanceFails
    <2>3. \A e \in Event : cached'[e] \in {None, cached[e], Global}
      <3>1. CASE Instance(r)
        BY <1>0, <2>0, <3>1 DEF Instance, Conn, TypeOK, EventTypeOK
      <3>2. CASE ~Instance(r)
        BY <1>3, <3>2 DEF PageStep, Look, Know, Fill, FillFails, InstanceFails, statics
      <3> QED
        BY <3>1, <3>2
    <2> QED
      BY <2>1, <2>2, <2>3, PlaceStays, WorkStays DEF InRun
  <1>4. ASSUME NEW r \in Page, TriggerPage(r) PROVE WorkInv'
    <2>1. UNCHANGED <<handler, bind, cached>> /\ plan'[Servlet] = plan[Servlet]
      BY <1>0, <1>4, TriggerPageMoves DEF TriggerPage, statics, objects
    <2>2. history' = history \/ history' = history \cup {"mixed"}
      BY <1>4 DEF TriggerPage, Mixes
    <2> QED
      BY <2>1, <2>2, PlaceStays, WorkStays DEF InRun
  <1>5. CASE StorePage \/ StoreFails
    <2>1. UNCHANGED <<handler, bind, cached, plan>>
      BY <1>5 DEF StorePage, StoreFails, statics, objects
    <2>2. "closed" \in history' <=> "closed" \in history
      BY <1>5 DEF StorePage, StoreFails, Mixes
    <2>3. "reused" \in history' <=> "reused" \in history
      BY <1>5 DEF StorePage, StoreFails, Mixes
    <2> QED
      BY <2>1, <2>2, <2>3, PlaceStays, WorkStays DEF InRun
  <1> QED
    BY <1>1, <1>2, <1>3, <1>4, <1>5

LEMMA ResetWork == ASSUME OwnerInv, WorkInv, Reset PROVE WorkInv'
  <1>1. /\ UNCHANGED <<handler, bind, plan>> /\ cached' = [e \in Event |-> None]
        /\ history' = history \ {"closed", "stale"}
    BY DEF Reset, objects
  <1>2. Open' = Open /\ \A d \in Daemon : Live(d)' = Live(d)
    BY <1>1 DEF Open, Live
  <1>3. CachedWork' /\ RunUnused'
    BY <1>1 DEF CachedWork, RunUnused
  <1>4. AllWork'
    BY <1>1, <1>2 DEF WorkInv, AllWork, Works
  <1> QED
    BY <1>3, <1>4 DEF WorkInv

LEMMA NextWork == ASSUME OwnerInv, WorkInv, Next PROVE WorkInv'
  <1>1. CASE EventStep
    <2>1. CASE NextRow \/ RunEnds
      BY <2>1, OthersWork
    <2>2. ASSUME NEW r \in Request, PageStep(r) PROVE WorkInv'
      <3>1. CASE r = Servlet
        BY <2>2, <3>1, OthersWork, InstanceWork DEF PageStep
      <3>2. CASE r # Servlet
        BY <2>2, <3>2, OthersWork DEF Request
      <3> QED
        BY <3>1, <3>2
    <2> QED
      BY <1>1, <2>1, <2>2 DEF EventStep, PageStep
  <1>2. CASE Begin \/ StopBegins \/ StopEnds \/ StopFails \/ Create \/ CreateFails
             \/ Dispatch \/ NewEvents \/ NewEventsFail \/ DropEvents
    BY <1>2, SchedulerWork
  <1>3. CASE CloseEvents
    BY <1>3, CloseEventsWork
  <1>4. CASE RunEvents \/ RunFails
    BY <1>4, RunWork
  <1>5. CASE (\E s \in Sched : SchedThread(s)) \/ (\E p \in Page : TriggerPage(p)) \/ StorePage
    BY <1>5, OthersWork
  <1>6. CASE Reset \/ StoreFails
    BY <1>6, ResetWork, OthersWork
  <1> QED
    BY <1>1, <1>2, <1>3, <1>4, <1>5, <1>6 DEF Next

LEMMA StutterWork == ASSUME OwnerInv, WorkInv, UNCHANGED vars PROVE WorkInv'
  <1>1. UNCHANGED <<handler, bind, cached, history, plan>>
    BY DEF vars, statics, objects
  <1> QED
    BY <1>1, PlaceStays, WorkStays DEF InRun

\* The invariant of the cached Event instances: unless close came since they were made,
\* each has an open DBBind, and so has every one that is scheduled.
THEOREM Work == Spec => []WorkInv
  <1>1. Init => WorkInv
    BY InitWork
  <1>2. OwnerInv /\ WorkInv /\ [Next]_vars => WorkInv'
    BY NextWork, StutterWork
  <1> QED
    BY <1>1, <1>2, Owner, PTL DEF Spec
-----------------------------------------------------------------------------
(* The properties                                                          *)

\* Every variable has its type, whatever requests and pages come: among them, no
\* request makes more than one EventDaemon and two DBBinds, and every plan is one that
\* doGet, run and getEvent can have left.
THEOREM TypeCorrect == Spec => []TypeOK
  <1>1. OwnerInv => TypeOK
    BY DEF OwnerInv
  <1> QED
    BY <1>1, Owner, PTL

\* Whatever start, stop and restart do, and whatever fails in them, the servlet can stop
\* every SchedulerDaemon that runs and was not told to stop.
THEOREM OneSchedulerAlways == Spec => []OneScheduler
  <1>1. OwnerInv => OneScheduler
    BY DEF OwnerInv
  <1> QED
    BY <1>1, Owner, PTL

\* Whatever start, restart, reload and stop do with the EventDaemon, and whatever fails,
\* every scheduled event is one that close cancels, and every DBBind one that it closes.
THEOREM NothingLeaksAlways == Spec => []NothingLeaks
  <1>1. OwnerInv => NothingLeaks
    BY DEF OwnerInv
  <1> QED
    BY <1>1, Owner, PTL

\* Between requests, what the EventDaemon has scheduled is what events_store.jsp has
\* activated, but for the events whose own instance that run could not get, unless the
\* table changed since run read it, the maps of Event could not be filled or reset, or
\* somebody else was at them during the run.
THEOREM ActiveAreScheduledAlways == Spec => []ActiveAreScheduled
  <1>1. OwnerInv /\ ActiveInv => ActiveAreScheduled
    <2>1. SUFFICES ASSUME OwnerInv, ActiveInv, ~Busy(Servlet), eventDaemon # None, Clean
                   PROVE  Live(eventDaemon) = active \ skipped
      BY DEF ActiveAreScheduled, Clean
    <2>2. Place = "idle"
      BY <2>1 DEF Busy, Place
    <2> QED
      BY <2>1, <2>2 DEF ActiveInv, Kept, EventSteps
  <1> QED
    BY <1>1, Owner, Active, PTL

\* Between requests, every scheduled event has an instance whose DBBind is open, unless
\* run could find an instance that was made before EventDaemon.close closed its DBBind.
THEOREM WorkUnlessReusedAlways == Spec => []WorkUnlessReused
  <1>1. WorkInv => WorkUnlessReused
    BY DEF WorkInv, AllWork, WorkUnlessReused
  <1> QED
    BY <1>1, Work, PTL
=============================================================================
