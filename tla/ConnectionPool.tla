--------------------------- MODULE ConnectionPool ---------------------------
(***************************************************************************)
(* JDCConnectionPool and JDCConnection: a Vector of database sessions that *)
(* clients lease, give back or dispose of, with the reaper thread and the  *)
(* administrator's calls.  A synchronized method is one action; those that *)
(* take the monitor more than once, or not at all, are one action per      *)
(* piece that other threads can come between.                              *)
(*                                                                         *)
(* Sessions are numbered in the order in which they are opened, which is   *)
(* the order of the Vector.  Credentials, call statistics and transactions *)
(* are left out.                                                           *)
(***************************************************************************)
EXTENDS Integers, FiniteSets

CONSTANTS
  Client,        \* threads that call DBBind.getConnection
  MaxSessions,   \* bound: sessions that are ever opened
  Timeout,       \* units of time that a lease lasts
  PoolSize,      \* initial maxpoolsize
  HardLimits,    \* initial maxconnections, one of these
  Limits,        \* values that setPoolSize and setMaxPoolSize are called with
  AdminCalls,    \* methods that the administrator may call
  MaxAdmin,      \* bound: calls of the administrator
  MaxBreaks      \* bound: sessions whose close() fails

ASSUME PoolAssumption ==
  /\ MaxSessions \in Nat /\ Timeout \in Nat /\ MaxAdmin \in Nat /\ MaxBreaks \in Nat
  /\ PoolSize \in Nat \ {0} /\ HardLimits \subseteq Nat /\ \A n \in HardLimits : PoolSize <= n
  /\ Limits \subseteq Nat

Conn    == 1..MaxSessions
NoConn  == 0
Free    == -1               \* the lease of a connection with inuse = false
Overdue == Timeout + 1      \* the age of a lease that the reaper calls stale

VARIABLES
  opened,        \* how many sessions have been opened
  session,       \* what the database knows of each session
  connections,   \* the Vector of the pool
  lease,         \* inuse and timestamp: Free, or the time since lease()
  openconns, poolsize, hardlimit,
  reaper,        \* keepruning of the reaper thread
  pc, held,      \* what each client does, and the connection that it knows
  admin,         \* the administrator's call: step, enumeration and argument
  made           \* history: what was called, or broke, so far

pool    == <<connections, lease, session, openconns>>
limits  == <<poolsize, hardlimit>>
clients == <<pc, held>>
vars    == <<opened, pool, limits, reaper, clients, admin, made>>

Idle == [step |-> "idle", seen |-> 0, conn |-> NoConn, size |-> 0, calls |-> 0]

Init ==
  /\ opened = 0
  /\ session = [c \in Conn |-> "none"]
  /\ connections = {}
  /\ lease = [c \in Conn |-> Free]
  /\ openconns = 0
  /\ poolsize = PoolSize
  /\ hardlimit \in HardLimits
  /\ reaper = TRUE
  /\ pc = [cl \in Client |-> "out"]
  /\ held = [cl \in Client |-> NoConn]
  /\ admin = Idle
  /\ made = {}

IsClosed(c) == session[c] = "closed"
\* Mutant: lease() gives a connection that is in use.
LeasableAll == connections

Leasable    == {c \in connections : lease[c] = Free}
Before(c)   == {d \in connections : d < c}

\* Mutant: the count is not taken down.
DisposeAllUncounted(S) ==
  LET done == {c \in S : session[c] # "stuck"} IN
  /\ session' = [c \in Conn |-> IF c \in done THEN "closed" ELSE session[c]]
  /\ lease' = [c \in Conn |-> IF c \in done THEN Free ELSE lease[c]]
  /\ connections' = connections \ done
  /\ UNCHANGED openconns

\* Mutant: removes what it could not close.
DisposeAllRemoves(S) ==
  LET done == {c \in S : session[c] # "stuck"} IN
  /\ session' = [c \in Conn |-> IF c \in done THEN "closed" ELSE session[c]]
  /\ lease' = [c \in Conn |-> IF c \in done THEN Free ELSE lease[c]]
  /\ connections' = connections \ S
  /\ openconns' = openconns - Cardinality(S)

\* disposeConnection for each element of S: close, expire, remove and count.  A
\* session whose close() fails stays as it is; one that is closed already, or
\* no longer in the Vector, is counted again.
DisposeAll(S) ==
  LET done == {c \in S : session[c] # "stuck"} IN
  /\ session' = [c \in Conn |-> IF c \in done THEN "closed" ELSE session[c]]
  /\ lease' = [c \in Conn |-> IF c \in done THEN Free ELSE lease[c]]
  /\ connections' = connections \ done
  /\ openconns' = openconns - Cardinality(done)

-----------------------------------------------------------------------------
(* Clients: getConnection, close and dispose *)

Begins(cl) ==
  /\ pc[cl] \in {"out", "done", "refused"}
  /\ admin.step # "gone"

Drop(cl, next) ==
  /\ pc' = [pc EXCEPT ![cl] = next]
  /\ held' = [held EXCEPT ![cl] = NoConn]

Get(cl, c) ==
  /\ pc' = [pc EXCEPT ![cl] = "using"]
  /\ held' = [held EXCEPT ![cl] = c]

\* Mutant: counts a connection that it only leases.
LeaseCounts(cl) ==
  /\ Begins(cl)
  /\ hardlimit # 0
  /\ \E c \in Leasable :
       /\ \A d \in Leasable : c <= d
       /\ lease' = [lease EXCEPT ![c] = 0]
       /\ Get(cl, c)
  /\ openconns' = openconns + 1
  /\ UNCHANGED <<opened, connections, session, limits, reaper, admin, made>>

\* The first connection of the Vector that is not in use.
Lease(cl) ==
  /\ Begins(cl)
  /\ hardlimit # 0
  /\ \E c \in Leasable :
       /\ \A d \in Leasable : c <= d
       /\ lease' = [lease EXCEPT ![c] = 0]
       /\ Get(cl, c)
  /\ UNCHANGED <<opened, connections, session, openconns, limits, reaper, admin, made>>

\* Mutant: one connection above the limit.
OpenNewAbove(cl) ==
  LET c == opened + 1 IN
  /\ Begins(cl)
  /\ hardlimit # 0
  /\ Leasable = {}
  /\ openconns # hardlimit + 1
  /\ opened < MaxSessions
  /\ opened' = c
  /\ session' = [session EXCEPT ![c] = "open"]
  /\ lease' = [lease EXCEPT ![c] = 0]
  /\ connections' = connections \cup {c}
  /\ openconns' = openconns + 1
  /\ Get(cl, c)
  /\ UNCHANGED <<limits, reaper, admin, made>>

\* None is free: a new one, unless the count equals the limit.
OpenNew(cl) ==
  LET c == opened + 1 IN
  /\ Begins(cl)
  /\ hardlimit # 0
  /\ Leasable = {}
  /\ openconns # hardlimit
  /\ opened < MaxSessions
  /\ opened' = c
  /\ session' = [session EXCEPT ![c] = "open"]
  /\ lease' = [lease EXCEPT ![c] = 0]
  /\ connections' = connections \cup {c}
  /\ openconns' = openconns + 1
  /\ Get(cl, c)
  /\ UNCHANGED <<limits, reaper, admin, made>>

\* Mutant: refuses at the preferred size.
RefuseAtPoolSize(cl) ==
  /\ Begins(cl)
  /\ hardlimit # 0
  /\ Leasable = {}
  /\ openconns = poolsize
  /\ Drop(cl, "refused")
  /\ UNCHANGED <<opened, pool, limits, reaper, admin, made>>

\* SQLException 08004
Refuse(cl) ==
  /\ Begins(cl)
  /\ hardlimit # 0
  /\ Leasable = {}
  /\ openconns = hardlimit
  /\ Drop(cl, "refused")
  /\ UNCHANGED <<opened, pool, limits, reaper, admin, made>>

\* The pool is turned off: a connection with pool = null.
OpenDirect(cl) ==
  LET c == opened + 1 IN
  /\ Begins(cl)
  /\ hardlimit = 0
  /\ opened < MaxSessions
  /\ opened' = c
  /\ session' = [session EXCEPT ![c] = "direct"]
  /\ Get(cl, c)
  /\ UNCHANGED <<connections, lease, openconns, limits, reaper, admin, made>>

\* close() of a pooled connection only ends its lease, whoever has it.
ReturnConnection(c) ==
  /\ lease' = [lease EXCEPT ![c] = Free]
  /\ session' = [session EXCEPT ![c] = IF @ = "direct" THEN "closed" ELSE @]

Close(cl) ==
  /\ pc[cl] = "using"
  /\ ReturnConnection(held[cl])
  /\ pc' = [pc EXCEPT ![cl] = "done"]
  /\ UNCHANGED <<opened, connections, openconns, limits, reaper, held, admin, made>>

\* A handler that closes what its method has closed already.
CloseAgain(cl) ==
  /\ pc[cl] = "done"
  /\ ReturnConnection(held[cl])
  /\ Drop(cl, "out")
  /\ made' = made \cup {"again"}
  /\ UNCHANGED <<opened, connections, openconns, limits, reaper, admin>>

\* disposeConnection of dbbind.jsp, which pages call instead of close, or after it
\* when what they do next fails; dispose() returns the connection first.
Disposes(cl) ==
  /\ pc[cl] \in {"using", "done"}
  /\ made' = made \cup {"dispose"} \cup (IF pc[cl] = "done" THEN {"again"} ELSE {})

DisposeReturn(cl) ==
  /\ Disposes(cl)
  /\ session[held[cl]] \in {"open", "stuck"}
  /\ lease' = [lease EXCEPT ![held[cl]] = Free]
  /\ pc' = [pc EXCEPT ![cl] = "disposing"]
  /\ UNCHANGED <<opened, connections, session, openconns, limits, reaper, held, admin>>

\* Without a pool dispose() fails, and the page ignores it.
DisposeDirect(cl) ==
  /\ Disposes(cl)
  /\ session[held[cl]] = "direct"
  /\ Drop(cl, "out")
  /\ UNCHANGED <<opened, pool, limits, reaper, admin>>

DisposeEnd(cl) ==
  /\ pc[cl] = "disposing"
  /\ DisposeAll({held[cl]})
  /\ Drop(cl, "out")
  /\ UNCHANGED <<opened, limits, reaper, admin, made>>

\* The page finds its connection closed and does nothing.
FindClosed(cl) ==
  /\ pc[cl] \in {"using", "done"}
  /\ IsClosed(held[cl])
  /\ Drop(cl, "out")
  /\ UNCHANGED <<opened, pool, limits, reaper, admin, made>>

-----------------------------------------------------------------------------
(* The reaper *)

\* Mutants: too early by one, and never what is in use.
ReapableEarly(c) == lease[c] = Free \/ lease[c] >= Timeout
ReapableFree(c)  == lease[c] = Free

Reapable(c) == lease[c] = Free \/ lease[c] = Overdue

\* The elements that one sweep disposes of.  Removing an element from the Vector
\* moves the next one into its place, which the enumeration has passed.
Removable(c) == Reapable(c) /\ session[c] # "stuck"

Swept ==
  LET passed[c \in connections] ==
        \E d \in Before(c) :
          /\ \A e \in Before(c) : e <= d
          /\ Removable(d) /\ ~passed[d]
  IN  {c \in connections : Removable(c) /\ ~passed[c]}

ReapConnections == DisposeAll(Swept)

Reap ==
  /\ reaper
  /\ ReapConnections
  /\ UNCHANGED <<opened, limits, reaper, clients, admin, made>>

-----------------------------------------------------------------------------
(* The administrator: one call at a time *)

Call(name) ==
  /\ name \in AdminCalls
  /\ admin.step = "idle"
  /\ admin.calls < MaxAdmin

Goes(step) == admin' = [admin EXCEPT !.step = step]
Returns    == admin' = [Idle EXCEPT !.calls = admin.calls]

SetPoolSize(n) ==
  /\ Call("setPoolSize")
  /\ n <= hardlimit
  /\ ReapConnections
  /\ admin' = [admin EXCEPT !.step = "poolsize", !.size = n, !.calls = @ + 1]
  /\ UNCHANGED <<opened, limits, reaper, clients, made>>

PoolSizeSet ==
  /\ admin.step = "poolsize"
  /\ poolsize' = admin.size
  /\ Returns
  /\ UNCHANGED <<opened, pool, hardlimit, reaper, clients, made>>

SetMaxPoolSize(n) ==
  /\ Call("setMaxPoolSize")
  /\ n = 0 \/ n >= poolsize
  /\ ReapConnections
  /\ admin' = [admin EXCEPT !.step = "hardlimit", !.size = n, !.calls = @ + 1]
  /\ UNCHANGED <<opened, limits, reaper, clients, made>>

MaxPoolSizeSet ==
  /\ admin.step = "hardlimit"
  /\ hardlimit' = admin.size
  /\ poolsize' = IF admin.size = 0 THEN 0 ELSE poolsize
  /\ made' = IF admin.size < hardlimit THEN made \cup {"lower"} ELSE made
  /\ Returns
  /\ UNCHANGED <<opened, pool, reaper, clients>>

\* setReaperDaemonDelay(0)
StopReaper ==
  /\ Call("setReaperDaemonDelay")
  /\ reaper' = FALSE
  /\ admin' = [admin EXCEPT !.calls = @ + 1]
  /\ UNCHANGED <<opened, pool, limits, clients, made>>

Enumerates(last) ==
  /\ made' = made \cup {"closeall"}
  /\ admin' = [admin EXCEPT !.step = "more", !.seen = 0, !.size = last, !.calls = @ + 1]
  /\ UNCHANGED <<opened, pool, limits, clients>>

CloseConnections ==
  /\ Call("closeConnections")
  /\ Enumerates(0)
  /\ UNCHANGED reaper

\* close() of the pool by DBBind.close, which has no pool afterwards.
ClosePool ==
  /\ Call("close")
  /\ reaper' = FALSE
  /\ Enumerates(1)

HasMoreElements ==
  /\ admin.step = "more"
  /\ Goes(IF admin.seen < Cardinality(connections) THEN "next" ELSE "clear")
  /\ UNCHANGED <<opened, pool, limits, reaper, clients, made>>

NextElement ==
  /\ admin.step = "next"
  /\ \E c \in connections :
       /\ Cardinality(Before(c)) = admin.seen
       /\ admin' = [admin EXCEPT !.step = "close", !.seen = @ + 1, !.conn = c]
  /\ UNCHANGED <<opened, pool, limits, reaper, clients, made>>

\* Another thread has removed the last element: NoSuchElementException.  DBBind.close
\* then still has its pool, without a reaper.
NextElementFails ==
  /\ admin.step = "next"
  /\ admin.seen >= Cardinality(connections)
  /\ Returns
  /\ UNCHANGED <<opened, pool, limits, reaper, clients, made>>

CloseElement ==
  /\ admin.step = "close"
  /\ DisposeAll({admin.conn})
  /\ Goes("more")
  /\ UNCHANGED <<opened, limits, reaper, clients, made>>

Clear ==
  /\ admin.step = "clear"
  /\ connections' = {}
  /\ Goes("zero")
  /\ UNCHANGED <<opened, lease, session, openconns, limits, reaper, clients, made>>

Zero ==
  /\ admin.step = "zero"
  /\ openconns' = 0
  /\ IF admin.size = 1 THEN Goes("gone") ELSE Returns
  /\ UNCHANGED <<opened, connections, lease, session, limits, reaper, clients, made>>

AdminStep ==
  \/ PoolSizeSet \/ MaxPoolSizeSet
  \/ HasMoreElements \/ NextElement \/ NextElementFails \/ CloseElement \/ Clear \/ Zero

-----------------------------------------------------------------------------
(* Time and the database *)

\* Leases grow older; the time of a connection that is not in use is not read.
Tick ==
  /\ lease' = [c \in Conn |-> IF lease[c] \in {Free, Overdue} THEN lease[c] ELSE lease[c] + 1]
  /\ UNCHANGED <<opened, connections, session, openconns, limits, reaper, clients, admin, made>>

\* From now on close() of this session throws SQLException.
Break(c) ==
  /\ session[c] = "open"
  /\ Cardinality({d \in Conn : session[d] = "stuck"}) < MaxBreaks
  /\ session' = [session EXCEPT ![c] = "stuck"]
  /\ made' = made \cup {"break"}
  /\ UNCHANGED <<opened, connections, lease, openconns, limits, reaper, clients, admin>>

-----------------------------------------------------------------------------

ClientStep(cl) ==
  \/ Lease(cl) \/ OpenNew(cl) \/ Refuse(cl) \/ OpenDirect(cl)
  \/ Close(cl) \/ CloseAgain(cl)
  \/ DisposeReturn(cl) \/ DisposeDirect(cl) \/ DisposeEnd(cl) \/ FindClosed(cl)

Next ==
  \/ \E cl \in Client : ClientStep(cl)
  \/ Reap \/ Tick
  \/ \E n \in Limits : SetPoolSize(n) \/ SetMaxPoolSize(n)
  \/ StopReaper \/ CloseConnections \/ ClosePool \/ AdminStep
  \/ \E c \in Conn : Break(c)

\* The reaper sleeps and sweeps in a loop, time passes, and a call that has begun
\* goes on.  No client has to begin a call: a page may never give back what it has.
Spec ==
  /\ Init
  /\ [][Next]_vars
  /\ WF_vars(Reap) /\ WF_vars(Tick) /\ WF_vars(AdminStep)
  /\ \A cl \in Client : WF_vars(DisposeEnd(cl))
-----------------------------------------------------------------------------
(* Properties *)

TypeOK ==
  /\ opened \in 0..MaxSessions
  /\ session \in [Conn -> {"none", "open", "stuck", "direct", "closed"}]
  /\ connections \subseteq 1..opened
  /\ lease \in [Conn -> Free..Overdue]
  /\ openconns \in Int /\ openconns <= opened
  /\ poolsize \in Nat /\ hardlimit \in Nat
  /\ reaper \in BOOLEAN
  /\ pc \in [Client -> {"out", "using", "done", "refused", "disposing"}]
  /\ held \in [Client -> 0..opened]
  /\ admin \in [step : {"idle", "poolsize", "hardlimit", "more", "next", "close",
                        "clear", "zero", "gone"},
                seen : Nat, conn : 0..opened, size : Nat, calls : 0..MaxAdmin]
  /\ made \subseteq {"again", "dispose", "lower", "closeall", "break"}

\* The sessions that the database keeps for the pool.
Sessions == {c \in Conn : session[c] \in {"open", "stuck"}}
Never(S) == made \cap S = {}

\* While nobody closes a connection twice, no two clients use the same one.
OneUser ==
  Never({"again"}) =>
    \A cl, cm \in Client :
      pc[cl] = "using" /\ pc[cm] = "using" /\ held[cl] = held[cm] => cl = cm

\* The reaper ends a session under its client only if the lease is too old; others do
\* it only by closing twice, by dispose, whose second half may come when the
\* connection has been leased again, or by closing all.
EndedOverdue ==
  [][Never({"again", "dispose", "closeall"}) =>
       \A cl \in Client :
         pc[cl] = "using" /\ session[held[cl]] = "open" /\ session'[held[cl]] = "closed"
           => pc'[cl] # "using" \/ lease[held[cl]] = Overdue]_vars

\* Without dispose and closeConnections openconns is the size of the pool.
CountIsSize ==
  Never({"dispose", "closeall"}) => openconns = Cardinality(connections)

\* Then no more sessions than the limit are open, unless the limit was lowered.
LimitIsKept ==
  Never({"dispose", "closeall", "lower"}) => Cardinality(Sessions) <= hardlimit

\* However its connections are treated, the pool refuses one only when as many as the
\* limit are open.
RefusedAtLimit ==
  [][\A cl \in Client : Refuse(cl)
       => Cardinality(Sessions) >= hardlimit]_vars

\* Until closeConnections, a session that is open can be found in the pool, so that
\* the reaper will end it.
NothingForgotten ==
  Never({"closeall"}) => Sessions \subseteq connections

\* A session that stays in the pool is leased again and again, or cannot be closed, as
\* long as the reaper runs: neither an idle pool nor an abandoned lease stays open.
IdleIsClosed ==
  \A c \in Conn :
    []<>(c \notin connections \/ lease[c] = 0 \/ session[c] = "stuck" \/ ~reaper)
=============================================================================
