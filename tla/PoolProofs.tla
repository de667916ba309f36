----------------------------- MODULE PoolProofs -----------------------------
(***************************************************************************)
(* Type correctness and safety of ConnectionPool.                          *)
(***************************************************************************)
EXTENDS ConnectionPool, FiniteSetTheorems, TLAPS

\* What disposeConnection may be called for is a finite set.
LEMMA SweptType ==
  /\ Swept \subseteq connections
  /\ \A c \in Swept : Reapable(c) /\ session[c] # "stuck"
  BY DEF Swept, Removable

LEMMA SomeFinite ==
  ASSUME TypeOK
  PROVE  /\ IsFiniteSet(Conn)
         /\ IsFiniteSet(connections) /\ connections \subseteq Conn
         /\ IsFiniteSet(Swept)
         /\ IsFiniteSet(Sessions)
  <1>1. IsFiniteSet(Conn)
    BY PoolAssumption, FS_Interval DEF Conn
  <1>2. connections \subseteq Conn /\ Sessions \subseteq Conn
    BY PoolAssumption DEF TypeOK, Conn, Sessions
  <1> QED
    BY <1>1, <1>2, SweptType, FS_Subset

\* Disposing ends sessions and leases, removes elements and never counts upwards.
LEMMA DisposeAllType ==
  ASSUME TypeOK, NEW S, IsFiniteSet(S), DisposeAll(S)
  PROVE  /\ session' \in [Conn -> {"none", "open", "stuck", "direct", "closed"}]
         /\ lease' \in [Conn -> Free..Overdue]
         /\ connections' \subseteq connections
         /\ openconns' \in Int /\ openconns' <= openconns
  <1> DEFINE done == {c \in S : session[c] # "stuck"}
  <1>1. IsFiniteSet(done)
    BY FS_Subset
  <1>2. Cardinality(done) \in Nat
    BY <1>1, FS_CardinalityType
  <1> HIDE DEF done
  <1>3. /\ session' = [c \in Conn |-> IF c \in done THEN "closed" ELSE session[c]]
        /\ lease' = [c \in Conn |-> IF c \in done THEN Free ELSE lease[c]]
        /\ connections' = connections \ done
        /\ openconns' = openconns - Cardinality(done)
    BY DEF DisposeAll, done
  <1>4. Free \in Free..Overdue
    BY PoolAssumption DEF Free, Overdue
  <1> QED
    BY <1>2, <1>3, <1>4 DEF TypeOK

LEMMA DisposeStepType ==
  ASSUME TypeOK, NEW S, IsFiniteSet(S), DisposeAll(S),
         UNCHANGED <<opened, limits, reaper, made>>,
         pc' \in [Client -> {"out", "using", "done", "refused", "disposing"}],
         held' \in [Client -> 0..opened],
         admin' \in [step : {"idle", "poolsize", "hardlimit", "more", "next", "close", "clear", "zero", "gone"},
                    seen : Nat, conn : 0..opened, size : Nat, calls : 0..MaxAdmin]
  PROVE  TypeOK'
  <1>1. /\ session' \in [Conn -> {"none", "open", "stuck", "direct", "closed"}]
        /\ lease' \in [Conn -> Free..Overdue]
        /\ connections' \subseteq 1..opened
        /\ openconns' \in Int /\ openconns' <= opened
    <2>1. connections \subseteq 1..opened /\ openconns \in Int /\ openconns <= opened /\ opened \in Int
      BY PoolAssumption DEF TypeOK
    <2>2. /\ session' \in [Conn -> {"none", "open", "stuck", "direct", "closed"}]
          /\ lease' \in [Conn -> Free..Overdue]
          /\ connections' \subseteq connections
          /\ openconns' \in Int /\ openconns' <= openconns
      BY DisposeAllType
    <2> HIDE DEF Free, Overdue
    <2> QED
      BY <2>1, <2>2
  <1> QED
    BY <1>1 DEF TypeOK, limits
-----------------------------------------------------------------------------
(* Type correctness *)

LEMMA TypeInit == ASSUME Init PROVE TypeOK
  <1>1. Free \in Free..Overdue
    BY PoolAssumption DEF Free, Overdue
  <1> QED
    BY <1>1, PoolAssumption DEF Init, TypeOK, Idle, NoConn

LEMMA ClientType == ASSUME TypeOK, NEW cl \in Client, ClientStep(cl) PROVE TypeOK'
  <1>1. Free \in Free..Overdue /\ 0 \in Free..Overdue
    BY PoolAssumption DEF Free, Overdue
  <1> USE DEF TypeOK, pool, limits, Get, Drop, NoConn
  <1>2. CASE Lease(cl)
    <2>1. PICK c \in Leasable : lease' = [lease EXCEPT ![c] = 0] /\ Get(cl, c)
      BY <1>2 DEF Lease
    <2>2. c \in 0..opened
      BY <2>1, PoolAssumption DEF Leasable
    <2>3. held' \in [Client -> 0..opened]
      BY <2>1, <2>2
    <2>4. pc' \in [Client -> {"out", "using", "done", "refused", "disposing"}]
      BY <2>1
    <2>5. lease' \in [Conn -> Free..Overdue]
      BY <1>1, <2>1
    <2>6. UNCHANGED <<opened, connections, session, openconns, limits, reaper, admin, made>>
      BY <1>2 DEF Lease
    <2> QED
      BY <2>3, <2>4, <2>5, <2>6
  <1>3. CASE OpenNew(cl)
    <2>1. opened' = opened + 1 /\ opened' \in 0..MaxSessions /\ opened' \in Conn
      BY <1>3, PoolAssumption DEF OpenNew, Conn
    <2>2. connections' \subseteq 1..opened'
      BY <1>3, <2>1 DEF OpenNew
    <2>3. openconns' \in Int /\ openconns' <= opened'
      BY <1>3, <2>1 DEF OpenNew
    <2>4. held' \in [Client -> 0..opened'] /\ pc' \in [Client -> {"out", "using", "done", "refused", "disposing"}]
      BY <1>3, <2>1 DEF OpenNew
    <2>5. lease' \in [Conn -> Free..Overdue]
      BY <1>1, <1>3 DEF OpenNew
    <2>6. session' \in [Conn -> {"none", "open", "stuck", "direct", "closed"}]
      BY <1>3 DEF OpenNew
    <2>7. UNCHANGED <<limits, reaper, admin, made>>
      BY <1>3 DEF OpenNew
    <2>8. admin' \in [step : {"idle", "poolsize", "hardlimit", "more", "next", "close", "clear", "zero", "gone"},
                      seen : Nat, conn : 0..opened', size : Nat, calls : 0..MaxAdmin]
      BY <2>1, <2>7
    <2> QED
      BY <2>1, <2>2, <2>3, <2>4, <2>5, <2>6, <2>7, <2>8
  <1>4. CASE Refuse(cl)
    BY <1>4, PoolAssumption DEF Refuse
  <1>5. CASE OpenDirect(cl)
    <2>1. opened' = opened + 1 /\ opened' \in 0..MaxSessions
      BY <1>5, PoolAssumption DEF OpenDirect
    <2>2. connections' \subseteq 1..opened' /\ openconns' <= opened'
      BY <1>5, <2>1 DEF OpenDirect
    <2>3. held' \in [Client -> 0..opened'] /\ pc' \in [Client -> {"out", "using", "done", "refused", "disposing"}]
      BY <1>5, <2>1 DEF OpenDirect
    <2>4. session' \in [Conn -> {"none", "open", "stuck", "direct", "closed"}]
      BY <1>5 DEF OpenDirect
    <2>5. UNCHANGED <<lease, openconns, limits, reaper, admin, made>>
      BY <1>5 DEF OpenDirect
    <2>6. admin' \in [step : {"idle", "poolsize", "hardlimit", "more", "next", "close", "clear", "zero", "gone"},
                      seen : Nat, conn : 0..opened', size : Nat, calls : 0..MaxAdmin]
      BY <2>1, <2>5
    <2> QED
      BY <2>1, <2>2, <2>3, <2>4, <2>5, <2>6
  <1>6. CASE Close(cl) \/ CloseAgain(cl)
    <2>1. ReturnConnection(held[cl])
      BY <1>6 DEF Close, CloseAgain
    <2>2. lease' \in [Conn -> Free..Overdue] /\ session' \in [Conn -> {"none", "open", "stuck", "direct", "closed"}]
      BY <1>1, <2>1 DEF ReturnConnection
    <2>3. pc' \in [Client -> {"out", "using", "done", "refused", "disposing"}]
      BY <1>6 DEF Close, CloseAgain
    <2>4. held' \in [Client -> 0..opened]
      <3>1. held \in [Client -> 0..opened] /\ 0 \in 0..opened
        BY PoolAssumption
      <3>2. held' = held \/ held' = [held EXCEPT ![cl] = 0]
        BY <1>6 DEF Close, CloseAgain
      <3> QED
        BY <3>1, <3>2
    <2>6. made' \subseteq {"again", "dispose", "lower", "closeall", "break"}
      BY <1>6 DEF Close, CloseAgain
    <2>5. UNCHANGED <<opened, connections, openconns, limits, reaper, admin>>
      BY <1>6 DEF Close, CloseAgain
    <2> QED
      BY <2>2, <2>3, <2>4, <2>5, <2>6
  <1>7. CASE DisposeReturn(cl)
    BY <1>1, <1>7, PoolAssumption DEF DisposeReturn, Disposes
  <1>8. CASE DisposeDirect(cl)
    BY <1>8, PoolAssumption DEF DisposeDirect, Disposes
  <1>9. CASE DisposeEnd(cl)
    <2>1. IsFiniteSet({held[cl]}) /\ DisposeAll({held[cl]})
      BY <1>9, FS_Singleton DEF DisposeEnd
    <2>2. /\ pc' \in [Client -> {"out", "using", "done", "refused", "disposing"}]
          /\ held' \in [Client -> 0..opened]
          /\ UNCHANGED <<opened, limits, reaper, made, admin>>
      BY <1>9, PoolAssumption DEF DisposeEnd
    <2> QED
      BY <2>1, <2>2, DisposeStepType
  <1>10. CASE FindClosed(cl)
    BY <1>10, PoolAssumption DEF FindClosed
  <1> QED
    BY <1>2, <1>3, <1>4, <1>5, <1>6, <1>7, <1>8, <1>9, <1>10 DEF ClientStep

LEMMA OtherType ==
  ASSUME TypeOK,
         \/ Reap \/ Tick \/ StopReaper \/ CloseConnections \/ ClosePool \/ AdminStep
         \/ \E n \in Limits : SetPoolSize(n) \/ SetMaxPoolSize(n)
         \/ \E c \in Conn : Break(c)
  PROVE  TypeOK'
  <1> DEFINE Step == {"idle", "poolsize", "hardlimit", "more", "next", "close", "clear", "zero", "gone"}
             Admin == [step : Step, seen : Nat, conn : 0..opened, size : Nat, calls : 0..MaxAdmin]
  <1>1. /\ Free \in Free..Overdue
        /\ \A k \in Free..Overdue : k \notin {Free, Overdue} => k + 1 \in Free..Overdue
    BY PoolAssumption DEF Free, Overdue
  <1>2. /\ admin \in Admin /\ admin.step \in Step /\ admin.seen \in Nat /\ admin.conn \in 0..opened
        /\ admin.size \in Nat /\ admin.calls \in 0..MaxAdmin
    BY DEF TypeOK
  <1>3. Idle.step = "idle" /\ [Idle EXCEPT !.calls = admin.calls] \in Admin
    BY <1>2 DEF Idle, NoConn, TypeOK
  <1>4. \A step \in Step : [admin EXCEPT !.step = step] \in Admin
    BY <1>2
  <1>13. ASSUME NEW step \in Step, NEW seen \in Nat, NEW conn \in 0..opened, NEW size \in Nat, NEW calls \in 0..MaxAdmin
         PROVE  [step |-> step, seen |-> seen, conn |-> conn, size |-> size, calls |-> calls] \in Admin
    OBVIOUS
  <1>15. admin = [step |-> admin.step, seen |-> admin.seen, conn |-> admin.conn, size |-> admin.size, calls |-> admin.calls]
    BY DEF TypeOK
  <1>14. ASSUME NEW name, Call(name) PROVE admin.calls + 1 \in 0..MaxAdmin
    BY <1>2, <1>14, PoolAssumption DEF Call
  <1> USE DEF TypeOK, pool, limits, clients
  <1>5. CASE Reap
    <2>1. IsFiniteSet(Swept) /\ DisposeAll(Swept)
      BY <1>5, SomeFinite DEF Reap, ReapConnections
    <2>2. UNCHANGED <<opened, limits, reaper, made, pc, held, admin>>
      BY <1>5 DEF Reap
    <2> QED
      BY <2>1, <2>2, DisposeStepType
  <1>6. CASE Tick
    BY <1>1, <1>6 DEF Tick
  <1>7. CASE StopReaper
    <2>1. admin' \in Admin
      BY <1>7, <1>13, <1>14 DEF StopReaper
    <2> QED
      BY <1>7, <2>1 DEF StopReaper
  <1>8. CASE CloseConnections
    <2>1. admin' \in Admin
      <3>1. 0 \in Nat /\ 1 \in Nat /\ "more" \in Step
        OBVIOUS
      <3> QED
        BY <1>8, <1>13, <1>14, <3>1 DEF CloseConnections, Enumerates
    <2> QED
      BY <1>8, <2>1 DEF CloseConnections, Enumerates
  <1>9. CASE ClosePool
    <2>1. admin' \in Admin
      <3>1. 0 \in Nat /\ 1 \in Nat /\ "more" \in Step
        OBVIOUS
      <3> QED
        BY <1>9, <1>13, <1>14, <3>1 DEF ClosePool, Enumerates
    <2> QED
      BY <1>9, <2>1 DEF ClosePool, Enumerates
  <1>10. ASSUME NEW n \in Limits, SetPoolSize(n) \/ SetMaxPoolSize(n) PROVE TypeOK'
    <2>1. admin' \in Admin
      <3>1. PICK step \in {"poolsize", "hardlimit"} :
              admin' = [admin EXCEPT !.step = step, !.size = n, !.calls = @ + 1]
        BY <1>10 DEF SetPoolSize, SetMaxPoolSize
      <3>2. n \in Nat /\ admin.calls + 1 \in 0..MaxAdmin
        BY <1>10, <1>14, PoolAssumption DEF SetPoolSize, SetMaxPoolSize
      <3> QED
        BY <3>1, <3>2, <1>2, <1>13, <1>15
    <2>2. IsFiniteSet(Swept) /\ DisposeAll(Swept)
      BY <1>10, SomeFinite DEF SetPoolSize, SetMaxPoolSize, ReapConnections
    <2>3. UNCHANGED <<opened, limits, reaper, made, pc, held>>
      BY <1>10 DEF SetPoolSize, SetMaxPoolSize
    <2> QED
      BY <1>10, <2>1, <2>2, <2>3, DisposeStepType
  <1>11. ASSUME NEW c \in Conn, Break(c) PROVE TypeOK'
    BY <1>11 DEF Break
  <1>12. CASE AdminStep
    <2>1. CASE PoolSizeSet
      BY <1>2, <1>3, <2>1 DEF PoolSizeSet, Returns
    <2>2. CASE MaxPoolSizeSet
      BY <1>2, <1>3, <2>2 DEF MaxPoolSizeSet, Returns
    <2>3. CASE HasMoreElements
      BY <1>2, <1>4, <2>3 DEF HasMoreElements, Goes
    <2>4. CASE NextElement
      <3>1. admin' \in Admin
        <4>1. PICK c \in connections : admin' = [admin EXCEPT !.step = "close", !.seen = @ + 1, !.conn = c]
          BY <2>4 DEF NextElement
        <4>2. c \in 0..opened /\ admin.seen + 1 \in Nat /\ "close" \in Step
          BY <1>2, PoolAssumption
        <4> QED
          BY <4>1, <4>2, <1>13
      <3> QED
        BY <2>4, <3>1 DEF NextElement
    <2>5. CASE NextElementFails
      BY <1>3, <2>5 DEF NextElementFails, Returns
    <2>6. CASE CloseElement
      <3>1. IsFiniteSet({admin.conn}) /\ DisposeAll({admin.conn})
        BY <2>6, FS_Singleton DEF CloseElement
      <3>2. admin' \in Admin
        BY <1>4, <2>6 DEF CloseElement, Goes
      <3>3. UNCHANGED <<opened, limits, reaper, made, pc, held>>
        BY <2>6 DEF CloseElement
      <3> QED
        BY <3>1, <3>2, <3>3, DisposeStepType
    <2>7. CASE Clear
      BY <1>4, <2>7 DEF Clear, Goes
    <2>8. CASE Zero
      BY <1>3, <1>4, <2>8 DEF Zero, Goes, Returns
    <2> QED
      BY <1>12, <2>1, <2>2, <2>3, <2>4, <2>5, <2>6, <2>7, <2>8 DEF AdminStep
  <1> QED
    BY <1>5, <1>6, <1>7, <1>8, <1>9, <1>10, <1>11, <1>12

LEMMA TypeStep == ASSUME TypeOK, [Next]_vars PROVE TypeOK'
  <1>1. CASE Next
    BY <1>1, ClientType, OtherType DEF Next
  <1>2. CASE UNCHANGED vars
    BY <1>2 DEF TypeOK, vars, pool, limits, clients
  <1> QED
    BY <1>1, <1>2

\* Type correctness of the pool, for any number of clients and sessions.
THEOREM PoolType == Spec => []TypeOK
  <1> QED
    BY TypeInit, TypeStep, PTL DEF Spec
-----------------------------------------------------------------------------
(* One user *)

\* What was called once stays called.
LEMMA MadeGrows == ASSUME [Next]_vars PROVE made \subseteq made'
  <1> USE DEF vars, clients, limits, pool
  <1>1. ASSUME NEW cl \in Client, ClientStep(cl) PROVE made \subseteq made'
    BY <1>1 DEF ClientStep, Lease, OpenNew, Refuse, OpenDirect, Close, CloseAgain,
                DisposeReturn, DisposeDirect, Disposes, DisposeEnd, FindClosed
  <1>2. ASSUME NEW n \in Limits, SetPoolSize(n) \/ SetMaxPoolSize(n) PROVE made \subseteq made'
    BY <1>2 DEF SetPoolSize, SetMaxPoolSize
  <1>3. ASSUME AdminStep PROVE made \subseteq made'
    BY <1>3 DEF AdminStep, PoolSizeSet, MaxPoolSizeSet, HasMoreElements, NextElement,
                NextElementFails, CloseElement, Clear, Zero
  <1>4. ASSUME Reap \/ Tick \/ StopReaper \/ CloseConnections \/ ClosePool \/ \E c \in Conn : Break(c)
        PROVE  made \subseteq made'
    BY <1>4 DEF Reap, Tick, StopReaper, CloseConnections, ClosePool, Enumerates, Break
  <1>5. CASE UNCHANGED vars
    BY <1>5
  <1>6. CASE Next
    BY <1>1, <1>2, <1>3, <1>4, <1>6 DEF Next
  <1> QED
    BY <1>5, <1>6

\* What a client uses is leased as long as it is in the Vector, and is used by nobody else.
Leased ==
  /\ \A cl \in Client : pc[cl] = "using" /\ held[cl] \in connections => lease[held[cl]] # Free
  /\ \A cl, cm \in Client :
       pc[cl] = "using" /\ pc[cm] = "using" /\ held[cl] = held[cm] => cl = cm

OneInv == Never({"again"}) => Leased

\* Only what leaves the Vector loses its lease when it is disposed of.
LEMMA DisposeKeepsLeases ==
  ASSUME TypeOK, Leased, NEW S, DisposeAll(S), UNCHANGED held,
         \A cl \in Client : pc'[cl] = "using" => pc[cl] = "using"
  PROVE  Leased'
  <1> DEFINE done == {c \in S : session[c] # "stuck"}
  <1>1. /\ lease' = [c \in Conn |-> IF c \in done THEN Free ELSE lease[c]]
        /\ connections' = connections \ done
    BY DEF DisposeAll
  <1> HIDE DEF done
  <1>2. connections \subseteq Conn
    BY PoolAssumption DEF TypeOK, Conn
  <1>3. \A c \in connections' : c \in connections /\ lease'[c] = lease[c]
    BY <1>1, <1>2
  <1> QED
    BY <1>3 DEF Leased

LEMMA OneStep == ASSUME TypeOK, OneInv, [Next]_vars PROVE OneInv'
  <1>1. SUFFICES ASSUME Never({"again"})' PROVE Leased'
    BY DEF OneInv
  <1>2. Leased
    BY <1>1, MadeGrows DEF OneInv, Never
  <1>3. connections \subseteq Conn /\ opened + 1 \notin connections /\ \A cl \in Client : held[cl] # opened + 1
    BY PoolAssumption DEF TypeOK, Conn
  <1>4. lease \in [Conn -> Free..Overdue]
    BY DEF TypeOK
  <1> USE DEF vars, clients, limits, pool
  <1>5. ASSUME NEW cl \in Client, ClientStep(cl) PROVE Leased'
    <2>1. CASE Lease(cl)
      <3>1. PICK c \in Leasable : lease' = [lease EXCEPT ![c] = 0] /\ Get(cl, c)
        BY <2>1 DEF Lease
      <3>2. c \in connections /\ lease[c] = Free /\ connections' = connections
        BY <2>1, <3>1 DEF Lease, Leasable
      <3>3. \A cm \in Client : pc[cm] = "using" => held[cm] # c
        BY <1>2, <3>2 DEF Leased
      <3>4. lease'[c] = 0 /\ \A d \in connections : d # c => lease'[d] = lease[d]
        BY <1>3, <1>4, <3>1, <3>2
      <3>5. /\ pc'[cl] = "using" /\ held'[cl] = c
            /\ \A cm \in Client : cm # cl => pc'[cm] = pc[cm] /\ held'[cm] = held[cm]
        BY <3>1 DEF Get, TypeOK
      <3> QED
        BY <1>2, <3>2, <3>3, <3>4, <3>5 DEF Leased, Free
    <2>2. CASE OpenNew(cl)
      <3>1. /\ pc'[cl] = "using" /\ held'[cl] = opened + 1
            /\ \A cm \in Client : cm # cl => pc'[cm] = pc[cm] /\ held'[cm] = held[cm]
        BY <2>2 DEF OpenNew, Get, TypeOK
      <3>2. /\ opened + 1 \in Conn
            /\ lease' = [lease EXCEPT ![opened + 1] = 0]
            /\ connections' = connections \cup {opened + 1}
        BY <2>2, PoolAssumption DEF OpenNew, Conn, TypeOK
      <3>3. lease'[opened + 1] = 0 /\ \A d \in connections : lease'[d] = lease[d]
        BY <1>3, <1>4, <3>2
      <3> QED
        BY <1>2, <1>3, <3>1, <3>2, <3>3 DEF Leased, Free
    <2>3. CASE Refuse(cl) \/ FindClosed(cl) \/ DisposeDirect(cl)
      <3>1. /\ pc'[cl] # "using" /\ UNCHANGED <<lease, connections>>
            /\ \A cm \in Client : cm # cl => pc'[cm] = pc[cm] /\ held'[cm] = held[cm]
        BY <2>3 DEF Refuse, FindClosed, DisposeDirect, Drop, TypeOK
      <3> QED
        BY <1>2, <3>1 DEF Leased
    <2>4. CASE OpenDirect(cl)
      <3>1. /\ pc'[cl] = "using" /\ held'[cl] = opened + 1 /\ UNCHANGED <<lease, connections>>
            /\ \A cm \in Client : cm # cl => pc'[cm] = pc[cm] /\ held'[cm] = held[cm]
        BY <2>4 DEF OpenDirect, Get, TypeOK
      <3> QED
        BY <1>2, <1>3, <3>1 DEF Leased
    <2>5. CASE Close(cl) \/ DisposeReturn(cl)
      <3>1. pc[cl] = "using"
        BY <1>1, <2>5 DEF Close, DisposeReturn, Disposes, Never
      <3>2. /\ pc'[cl] # "using" /\ UNCHANGED <<connections, held>>
            /\ \A cm \in Client : cm # cl => pc'[cm] = pc[cm]
        BY <2>5 DEF Close, DisposeReturn, TypeOK
      <3>3. lease' = [lease EXCEPT ![held[cl]] = Free]
        BY <2>5 DEF Close, ReturnConnection, DisposeReturn
      <3>4. \A d \in connections : d # held[cl] => lease'[d] = lease[d]
        BY <1>3, <1>4, <3>3
      <3> QED
        BY <1>2, <3>1, <3>2, <3>4 DEF Leased
    <2>6. CASE CloseAgain(cl)
      BY <1>1, <2>6 DEF CloseAgain, Never
    <2>7. CASE DisposeEnd(cl)
      <3>1. \A cm \in Client : pc'[cm] = "using" => pc[cm] = "using" /\ held'[cm] = held[cm]
        BY <2>7 DEF DisposeEnd, Drop, TypeOK
      <3> DEFINE done == {c \in {held[cl]} : session[c] # "stuck"}
      <3>2. /\ lease' = [c \in Conn |-> IF c \in done THEN Free ELSE lease[c]]
            /\ connections' = connections \ done
        BY <2>7 DEF DisposeEnd, DisposeAll
      <3> HIDE DEF done
      <3>3. \A c \in connections' : c \in connections /\ lease'[c] = lease[c]
        BY <1>3, <3>2
      <3> QED
        BY <1>2, <3>1, <3>3 DEF Leased
    <2> QED
      BY <1>5, <2>1, <2>2, <2>3, <2>4, <2>5, <2>6, <2>7 DEF ClientStep
  <1>6. ASSUME Reap \/ CloseElement \/ \E n \in Limits : SetPoolSize(n) \/ SetMaxPoolSize(n) PROVE Leased'
    <2>1. \E S : DisposeAll(S)
      BY <1>6 DEF Reap, CloseElement, SetPoolSize, SetMaxPoolSize, ReapConnections
    <2>2. UNCHANGED <<pc, held>>
      BY <1>6 DEF Reap, CloseElement, SetPoolSize, SetMaxPoolSize
    <2> QED
      BY <1>2, <2>1, <2>2, DisposeKeepsLeases
  <1>7. CASE Tick
    <2>1. \A c \in connections : lease[c] # Free => lease'[c] # Free
      BY <1>3, <1>4, <1>7 DEF Tick, Free
    <2>2. UNCHANGED <<connections, pc, held>>
      BY <1>7 DEF Tick
    <2> QED
      BY <1>2, <2>1, <2>2 DEF Leased
  <1>8. CASE Clear
    <2>1. connections' = {} /\ UNCHANGED <<pc, held>>
      BY <1>8 DEF Clear
    <2> QED
      BY <1>2, <2>1 DEF Leased
  <1>9. ASSUME \/ PoolSizeSet \/ MaxPoolSizeSet \/ HasMoreElements \/ NextElement \/ NextElementFails \/ Zero
               \/ StopReaper \/ CloseConnections \/ ClosePool \/ (\E c \in Conn : Break(c)) \/ UNCHANGED vars
        PROVE  Leased'
    <2>1. UNCHANGED <<lease, connections, pc, held>>
      BY <1>9 DEF PoolSizeSet, MaxPoolSizeSet, HasMoreElements, NextElement, NextElementFails, Zero,
                  StopReaper, CloseConnections, ClosePool, Enumerates, Break
    <2> QED
      BY <1>2, <2>1 DEF Leased
  <1> QED
    BY <1>5, <1>6, <1>7, <1>8, <1>9 DEF Next, AdminStep

\* No two clients use the same connection, as long as nobody closes one twice.
THEOREM OneUserAlways == Spec => []OneUser
  <1>1. Init => OneInv
    BY DEF Init, OneInv, Leased
  <1>2. OneInv => OneUser
    BY DEF OneInv, Leased, OneUser
  <1> QED
    BY <1>1, <1>2, OneStep, PoolType, PTL DEF Spec
-----------------------------------------------------------------------------
(* Counting *)

LEMMA Difference ==
  ASSUME NEW A, NEW B, IsFiniteSet(A), IsFiniteSet(B)
  PROVE  /\ Cardinality(A \ B) >= Cardinality(A) - Cardinality(B)
         /\ B \subseteq A => Cardinality(A \ B) = Cardinality(A) - Cardinality(B)
         /\ Cardinality(A \ B) <= Cardinality(A)
         /\ Cardinality(A) \in Nat /\ Cardinality(B) \in Nat /\ Cardinality(A \ B) \in Nat
  <1> DEFINE C == A \ B
             D == C \cup B
  <1>1. IsFiniteSet(C) /\ Cardinality(C) <= Cardinality(A)
    BY FS_Subset
  <1>2. C \cap B = {} /\ Cardinality({}) = 0
    BY FS_EmptySet
  <1>3. IsFiniteSet(D) /\ Cardinality(D) = Cardinality(C) + Cardinality(B) - Cardinality(C \cap B)
    BY <1>1, FS_Union
  <1>4. /\ Cardinality(A) \in Nat /\ Cardinality(B) \in Nat /\ Cardinality(C) \in Nat
    BY <1>1, FS_CardinalityType
  <1>5. Cardinality(D) = Cardinality(C) + Cardinality(B)
    BY <1>2, <1>3, <1>4
  <1>6. Cardinality(A) <= Cardinality(D)
    <2>1. A \in SUBSET D
      OBVIOUS
    <2> QED
      BY <1>3, <2>1, FS_Subset
  <1>7. B \subseteq A => D = A
    OBVIOUS
  <1> HIDE DEF D
  <1>8. Cardinality(C) >= Cardinality(A) - Cardinality(B)
    BY <1>4, <1>5, <1>6
  <1>9. B \subseteq A => Cardinality(C) = Cardinality(A) - Cardinality(B)
    BY <1>4, <1>5, <1>7
  <1> QED
    BY <1>1, <1>4, <1>8, <1>9

\* What is not open yet is not known to the database, and the calls that the
\* properties exclude have no step in progress.
Orderly ==
  /\ \A c \in Conn : c > opened => session[c] = "none"
  /\ Never({"closeall"}) => admin.step \in {"idle", "poolsize", "hardlimit"}
  /\ Never({"dispose"}) => \A cl \in Client : pc[cl] # "disposing"

\* openconns never exceeds the sessions, and is the size of the pool as long as
\* what disposes of connections takes them from the pool.
Counted ==
  /\ openconns <= Cardinality(Sessions)
  /\ NothingForgotten
  /\ CountIsSize
  /\ Never({"dispose", "closeall", "lower"}) => openconns <= hardlimit

\* The steps that dispose of connections, and the other ones of those that are not clients.
DisposeStep == Reap \/ CloseElement \/ \E n \in Limits : SetPoolSize(n) \/ SetMaxPoolSize(n)
OtherStep ==
  \/ PoolSizeSet \/ MaxPoolSizeSet \/ HasMoreElements \/ NextElement \/ NextElementFails
  \/ Clear \/ Zero \/ StopReaper \/ CloseConnections \/ ClosePool \/ Tick
  \/ \E c \in Conn : Break(c)

LEMMA StepKinds ==
  ASSUME [Next]_vars
  PROVE  (\E cl \in Client : ClientStep(cl)) \/ DisposeStep \/ OtherStep \/ UNCHANGED vars
  BY DEF Next, AdminStep, DisposeStep, OtherStep

LEMMA FreshStep ==
  ASSUME TypeOK, \A c \in Conn : c > opened => session[c] = "none", [Next]_vars
  PROVE  \A c \in Conn : c > opened' => session'[c] = "none"
  <1> USE DEF vars, clients, limits, pool
  <1>1. opened \in 0..MaxSessions /\ connections \subseteq 1..opened /\ session \in [Conn -> {"none", "open", "stuck", "direct", "closed"}]
        /\ \A cl \in Client : held[cl] \in 0..opened
    BY DEF TypeOK
  <1>2. SUFFICES ASSUME NEW c \in Conn, c > opened' PROVE session'[c] = "none"
    OBVIOUS
  <1>3. MaxSessions \in Nat /\ c \in Int
    BY PoolAssumption DEF Conn
  <1>4. ASSUME NEW cl \in Client, OpenNew(cl) \/ OpenDirect(cl) PROVE session'[c] = "none"
    BY <1>1, <1>2, <1>3, <1>4 DEF OpenNew, OpenDirect
  <1>5. ASSUME NEW cl \in Client, Close(cl) \/ CloseAgain(cl) PROVE session'[c] = "none"
    <2>1. opened' = opened /\ ReturnConnection(held[cl])
      BY <1>5 DEF Close, CloseAgain
    <2>2. c # held[cl]
      BY <1>1, <1>2, <1>3, <2>1
    <2> QED
      BY <1>1, <1>2, <2>1, <2>2 DEF ReturnConnection
  <1>6. ASSUME NEW S, DisposeAll(S), c \notin S, opened' = opened PROVE session'[c] = "none"
    BY <1>2, <1>6 DEF DisposeAll
  <1>7. ASSUME NEW cl \in Client, DisposeEnd(cl) PROVE session'[c] = "none"
    <2>1. opened' = opened /\ DisposeAll({held[cl]})
      BY <1>7 DEF DisposeEnd
    <2>2. c # held[cl]
      BY <1>1, <1>2, <1>3, <2>1
    <2> QED
      BY <1>6, <2>1, <2>2
  <1>8. ASSUME NEW cl \in Client, Lease(cl) \/ Refuse(cl) \/ DisposeReturn(cl) \/ DisposeDirect(cl) \/ FindClosed(cl)
        PROVE session'[c] = "none"
    BY <1>2, <1>8 DEF Lease, Refuse, DisposeReturn, DisposeDirect, FindClosed
  <1>9. CASE DisposeStep
    <2>1. opened' = opened
      BY <1>9 DEF DisposeStep, Reap, CloseElement, SetPoolSize, SetMaxPoolSize
    <2>2. DisposeAll(Swept) \/ DisposeAll({admin.conn})
      BY <1>9 DEF DisposeStep, Reap, CloseElement, SetPoolSize, SetMaxPoolSize, ReapConnections
    <2>3. c \notin Swept
      BY <1>1, <1>2, <1>3, <2>1, SweptType
    <2>4. admin.conn \in 0..opened
      BY DEF TypeOK
    <2>5. c # admin.conn
      BY <1>1, <1>2, <1>3, <2>1, <2>4
    <2> QED
      BY <1>6, <2>1, <2>2, <2>3, <2>5
  <1>10. ASSUME NEW d \in Conn, Break(d) PROVE session'[c] = "none"
    BY <1>1, <1>2, <1>10 DEF Break
  <1>11. ASSUME OtherStep \/ UNCHANGED vars, \A d \in Conn : ~Break(d) PROVE session'[c] = "none"
    BY <1>2, <1>11 DEF OtherStep, PoolSizeSet, MaxPoolSizeSet, HasMoreElements, NextElement, NextElementFails,
                       Clear, Zero, StopReaper, CloseConnections, ClosePool, Enumerates, Tick
  <1> QED
    BY <1>4, <1>5, <1>7, <1>8, <1>9, <1>10, <1>11, StepKinds DEF ClientStep

LEMMA OrderlyStep == ASSUME TypeOK, Orderly, [Next]_vars PROVE Orderly'
  <1> USE DEF vars, clients, limits, pool
  <1>1. \A S : Never(S)' => Never(S)
    BY MadeGrows DEF Never
  <1>2. ASSUME Never({"closeall"})' PROVE admin'.step \in {"idle", "poolsize", "hardlimit"}
    <2>1. admin.step \in {"idle", "poolsize", "hardlimit"}
      BY <1>1, <1>2 DEF Orderly
    <2>2. admin = [step |-> admin.step, seen |-> admin.seen, conn |-> admin.conn, size |-> admin.size, calls |-> admin.calls]
      BY DEF TypeOK
    <2>3. ASSUME NEW cl \in Client, ClientStep(cl) PROVE admin' = admin
      BY <2>3 DEF ClientStep, Lease, OpenNew, Refuse, OpenDirect, Close, CloseAgain, DisposeReturn,
                  DisposeDirect, DisposeEnd, FindClosed
    <2>4. CASE DisposeStep
      BY <2>1, <2>2, <2>4 DEF DisposeStep, Reap, CloseElement, SetPoolSize, SetMaxPoolSize
    <2>5. CASE OtherStep
      BY <1>2, <2>1, <2>2, <2>5
         DEF OtherStep, PoolSizeSet, MaxPoolSizeSet, HasMoreElements, NextElement, NextElementFails, Returns, Idle,
             Clear, Zero, StopReaper, CloseConnections, ClosePool, Enumerates, Tick, Break, Never
    <2> QED
      BY <2>1, <2>3, <2>4, <2>5, StepKinds
  <1>3. ASSUME Never({"dispose"})', NEW cl \in Client PROVE pc'[cl] # "disposing"
    <2>1. pc[cl] # "disposing" /\ pc \in [Client -> {"out", "using", "done", "refused", "disposing"}]
      BY <1>1, <1>3 DEF Orderly, TypeOK
    <2>2. ASSUME NEW cm \in Client, ClientStep(cm) PROVE pc'[cl] # "disposing"
      BY <1>3, <2>1, <2>2 DEF ClientStep, Lease, OpenNew, Refuse, OpenDirect, Close, CloseAgain, DisposeReturn,
                  DisposeDirect, Disposes, DisposeEnd, FindClosed, Get, Drop, Never
    <2>3. CASE DisposeStep \/ OtherStep \/ UNCHANGED vars
      BY <2>1, <2>3 DEF DisposeStep, Reap, CloseElement, SetPoolSize, SetMaxPoolSize,
             OtherStep, PoolSizeSet, MaxPoolSizeSet, HasMoreElements, NextElement, NextElementFails,
             Clear, Zero, StopReaper, CloseConnections, ClosePool, Enumerates, Tick, Break
    <2> QED
      BY <2>2, <2>3, StepKinds
  <1> QED
    BY <1>2, <1>3, FreshStep DEF Orderly

LEMMA CountedDispose ==
  ASSUME TypeOK, Counted, NEW S, IsFiniteSet(S), DisposeAll(S), UNCHANGED <<hardlimit, made>>,
         S \subseteq connections \/ ~Never({"dispose", "closeall"})
  PROVE  Counted'
  <1> DEFINE done == {c \in S : session[c] # "stuck"}
  <1>1. IsFiniteSet(done) /\ IsFiniteSet(Sessions) /\ IsFiniteSet(connections)
    BY FS_Subset, SomeFinite
  <1>2. done \subseteq S
    OBVIOUS
  <1>3. /\ session' = [c \in Conn |-> IF c \in done THEN "closed" ELSE session[c]]
        /\ connections' = connections \ done
        /\ openconns' = openconns - Cardinality(done)
    BY DEF DisposeAll
  <1> HIDE DEF done
  <1>4. Sessions' = Sessions \ done
    BY <1>3 DEF Sessions
  <1>5. /\ Cardinality(Sessions') >= Cardinality(Sessions) - Cardinality(done)
        /\ Cardinality(Sessions) \in Nat /\ Cardinality(done) \in Nat /\ Cardinality(Sessions') \in Nat
    BY <1>1, <1>4, Difference
  <1>6. openconns \in Int /\ hardlimit \in Int
    BY DEF TypeOK
  <1>7. openconns' <= Cardinality(Sessions')
    BY <1>3, <1>5, <1>6 DEF Counted
  <1>8. NothingForgotten'
    BY <1>3, <1>4 DEF Counted, NothingForgotten, Never
  <1>9. CountIsSize'
    <2>1. SUFFICES ASSUME Never({"dispose", "closeall"}) PROVE openconns' = Cardinality(connections')
      BY DEF CountIsSize, Never
    <2>2. done \subseteq connections
      BY <1>2, <2>1
    <2>3. openconns = Cardinality(connections)
      BY <2>1 DEF Counted, CountIsSize
    <2> QED
      BY <1>1, <1>3, <2>2, <2>3, Difference
  <1>10. Never({"dispose", "closeall", "lower"})' => openconns' <= hardlimit'
    BY <1>3, <1>5, <1>6 DEF Counted, Never
  <1> QED
    BY <1>7, <1>8, <1>9, <1>10 DEF Counted

LEMMA CountedOpen ==
  ASSUME TypeOK, Orderly, Counted, NEW cl \in Client, OpenNew(cl)
  PROVE  Counted'
  <1> DEFINE c == opened + 1
  <1>1. c \in Conn /\ c \notin connections /\ session[c] = "none"
    <2>1. opened \in 0..MaxSessions /\ opened < MaxSessions /\ MaxSessions \in Nat /\ connections \subseteq 1..opened
      BY PoolAssumption DEF TypeOK, OpenNew
    <2>2. c \in Conn /\ c > opened
      BY <2>1 DEF Conn
    <2> QED
      BY <2>1, <2>2 DEF Orderly
  <1>2. /\ session' = [session EXCEPT ![c] = "open"]
        /\ connections' = connections \cup {c}
        /\ openconns' = openconns + 1
        /\ openconns # hardlimit /\ UNCHANGED <<hardlimit, made>>
    BY DEF OpenNew, limits
  <1> HIDE DEF c
  <1>3. Sessions' = Sessions \cup {c} /\ c \notin Sessions
    BY <1>1, <1>2 DEF Sessions, TypeOK
  <1>4. /\ Cardinality(Sessions') = Cardinality(Sessions) + 1
        /\ Cardinality(connections') = Cardinality(connections) + 1
    BY <1>1, <1>2, <1>3, SomeFinite, FS_AddElement
  <1>5. Cardinality(Sessions) \in Nat /\ openconns \in Int /\ hardlimit \in Int
    BY SomeFinite, FS_CardinalityType DEF TypeOK
  <1>6. openconns' <= Cardinality(Sessions')
    BY <1>2, <1>4, <1>5 DEF Counted
  <1>7. NothingForgotten' /\ CountIsSize'
    BY <1>2, <1>3, <1>4 DEF Counted, NothingForgotten, CountIsSize, Never
  <1>8. Never({"dispose", "closeall", "lower"})' => openconns' <= hardlimit'
    BY <1>2, <1>5 DEF Counted, Never
  <1> QED
    BY <1>6, <1>7, <1>8 DEF Counted

LEMMA CountedSame ==
  ASSUME Counted, Sessions' = Sessions, UNCHANGED <<connections, openconns, hardlimit>>, made \subseteq made'
  PROVE  Counted'
  BY DEF Counted, NothingForgotten, CountIsSize, Never

LEMMA CountedStep == ASSUME TypeOK, Orderly, Counted, [Next]_vars PROVE Counted'
  <1> USE DEF vars, clients, limits, pool
  <1>1. made \subseteq made'
    BY MadeGrows
  <1>2. ASSUME NEW cl \in Client, ClientStep(cl) PROVE Counted'
    <2>1. CASE OpenNew(cl)
      BY <2>1, CountedOpen
    <2>2. CASE DisposeEnd(cl)
      <3>1. IsFiniteSet({held[cl]}) /\ DisposeAll({held[cl]}) /\ UNCHANGED <<hardlimit, made>>
        BY <2>2, FS_Singleton DEF DisposeEnd
      <3>2. ~Never({"dispose", "closeall"})
        BY <2>2 DEF DisposeEnd, Orderly, Never
      <3> QED
        BY <3>1, <3>2, CountedDispose
    <2>3. CASE \/ Lease(cl) \/ Refuse(cl) \/ DisposeReturn(cl) \/ DisposeDirect(cl) \/ FindClosed(cl)
      <3>1. UNCHANGED <<session, connections, openconns, hardlimit>>
        BY <2>3 DEF Lease, Refuse, DisposeReturn, DisposeDirect, FindClosed
      <3>2. Sessions' = Sessions
        BY <3>1 DEF Sessions
      <3> QED
        BY <1>1, <3>1, <3>2, CountedSame
    <2>4. CASE OpenDirect(cl)
      <3>1. UNCHANGED <<connections, openconns, hardlimit>> /\ session' = [session EXCEPT ![opened + 1] = "direct"]
        BY <2>4 DEF OpenDirect
      <3>2. opened + 1 \in Conn /\ opened + 1 > opened
        BY <2>4, PoolAssumption DEF OpenDirect, TypeOK, Conn
      <3>3. session[opened + 1] = "none"
        BY <3>2 DEF Orderly
      <3>4. Sessions' = Sessions
        BY <3>1, <3>3 DEF Sessions, TypeOK
      <3> QED
        BY <1>1, <3>1, <3>4, CountedSame
    <2>5. CASE Close(cl) \/ CloseAgain(cl)
      <3>1. UNCHANGED <<connections, openconns, hardlimit>> /\ ReturnConnection(held[cl])
        BY <2>5 DEF Close, CloseAgain
      <3>2. Sessions' = Sessions
        BY <3>1 DEF Sessions, TypeOK, ReturnConnection
      <3> QED
        BY <1>1, <3>1, <3>2, CountedSame
    <2> QED
      BY <1>2, <2>1, <2>2, <2>3, <2>4, <2>5 DEF ClientStep
  <1>3. CASE Reap \/ \E n \in Limits : SetPoolSize(n) \/ SetMaxPoolSize(n)
    <2>1. DisposeAll(Swept) /\ UNCHANGED <<hardlimit, made>>
      BY <1>3 DEF Reap, SetPoolSize, SetMaxPoolSize, ReapConnections
    <2> QED
      BY <2>1, SweptType, SomeFinite, CountedDispose
  <1>4. CASE CloseElement
    <2>1. IsFiniteSet({admin.conn}) /\ DisposeAll({admin.conn}) /\ UNCHANGED <<hardlimit, made>>
      BY <1>4, FS_Singleton DEF CloseElement
    <2>2. ~Never({"dispose", "closeall"})
      BY <1>4 DEF CloseElement, Orderly, Never
    <2> QED
      BY <2>1, <2>2, CountedDispose
  <1>5. CASE MaxPoolSizeSet
    <2>1. /\ UNCHANGED <<session, connections, openconns>>
          /\ made' = made \/ made' = made \cup {"lower"}
          /\ "lower" \in made' \/ hardlimit' >= hardlimit
      <3>1. admin.size \in Nat /\ hardlimit \in Nat
        BY DEF TypeOK
      <3> QED
        BY <1>5, <3>1 DEF MaxPoolSizeSet
    <2>2. Sessions' = Sessions
      BY <2>1 DEF Sessions
    <2>3. openconns \in Int /\ hardlimit \in Int /\ hardlimit' \in Int
      BY <1>5 DEF MaxPoolSizeSet, TypeOK
    <2>4. Never({"dispose", "closeall", "lower"})' => openconns' <= hardlimit'
      BY <2>1, <2>3 DEF Counted, Never
    <2> QED
      BY <2>1, <2>2, <2>4 DEF Counted, NothingForgotten, CountIsSize, Never
  <1>6. CASE Clear \/ Zero
    <2>1. ~Never({"closeall"}) /\ made' = made
      BY <1>6 DEF Clear, Zero, Orderly
    <2>2. Sessions' = Sessions
      BY <1>6 DEF Clear, Zero, Sessions
    <2>3. openconns' = openconns \/ openconns' = 0
      BY <1>6 DEF Clear, Zero
    <2>4. Cardinality(Sessions) \in Nat
      BY SomeFinite, FS_CardinalityType
    <2> QED
      BY <2>1, <2>2, <2>3, <2>4 DEF Counted, NothingForgotten, CountIsSize, Never
  <1>7. ASSUME NEW c \in Conn, Break(c) PROVE Counted'
    <2>1. UNCHANGED <<connections, openconns, hardlimit>> /\ Sessions' = Sessions
      BY <1>7 DEF Break, Sessions, TypeOK
    <2> QED
      BY <1>1, <2>1, CountedSame
  <1>8. CASE \/ PoolSizeSet \/ HasMoreElements \/ NextElement \/ NextElementFails
             \/ StopReaper \/ CloseConnections \/ ClosePool \/ Tick \/ UNCHANGED vars
    <2>1. UNCHANGED <<session, connections, openconns, hardlimit>>
      BY <1>8 DEF PoolSizeSet, HasMoreElements, NextElement, NextElementFails, StopReaper,
                  CloseConnections, ClosePool, Enumerates, Tick
    <2>2. Sessions' = Sessions
      BY <2>1 DEF Sessions
    <2> QED
      BY <1>1, <2>1, <2>2, CountedSame
  <1> QED
    BY <1>2, <1>3, <1>4, <1>5, <1>6, <1>7, <1>8 DEF Next, AdminStep

LEMMA CountedAlways == Spec => [](TypeOK /\ Orderly /\ Counted)
  <1>1. ASSUME Init PROVE Orderly /\ Counted
    <2>1. Sessions = {} /\ Cardinality({}) = 0
      BY <1>1, FS_EmptySet DEF Init, Sessions
    <2>2. \A n \in HardLimits : n >= 0
      BY PoolAssumption
    <2> QED
      BY <1>1, <2>1, <2>2 DEF Init, Orderly, Counted, NothingForgotten, CountIsSize, Idle
  <1>2. Init => TypeOK /\ Orderly /\ Counted
    BY <1>1, TypeInit
  <1>3. TypeOK /\ Orderly /\ Counted /\ [Next]_vars => (TypeOK /\ Orderly /\ Counted)'
    BY TypeStep, OrderlyStep, CountedStep
  <1> QED
    BY <1>2, <1>3, PTL DEF Spec

\* No session is left open outside the pool, as long as nobody closes all connections.
THEOREM ForgetsNothing == Spec => []NothingForgotten
  <1>1. Counted => NothingForgotten
    BY DEF Counted
  <1> QED
    BY <1>1, CountedAlways, PTL

\* openconns is the size of the pool, without dispose and closeConnections.
THEOREM CountsRight == Spec => []CountIsSize
  <1>1. Counted => CountIsSize
    BY DEF Counted
  <1> QED
    BY <1>1, CountedAlways, PTL

\* And the sessions are at most the limit, unless that was lowered.
THEOREM KeepsLimit == Spec => []LimitIsKept
  <1>1. ASSUME TypeOK, Counted PROVE LimitIsKept
    <2>1. SUFFICES ASSUME Never({"dispose", "closeall", "lower"}) PROVE Cardinality(Sessions) <= hardlimit
      BY DEF LimitIsKept
    <2>2. Sessions \subseteq connections /\ openconns = Cardinality(connections) /\ openconns <= hardlimit
      BY <1>1, <2>1 DEF Counted, NothingForgotten, CountIsSize, Never
    <2>3. /\ Cardinality(Sessions) <= Cardinality(connections)
          /\ Cardinality(Sessions) \in Int /\ Cardinality(connections) \in Int
      BY <1>1, <2>2, SomeFinite, FS_Subset, FS_CardinalityType
    <2>4. hardlimit \in Int
      BY <1>1 DEF TypeOK
    <2> QED
      BY <2>2, <2>3, <2>4
  <1> QED
    BY <1>1, CountedAlways, PTL

\* Whatever happens to its connections, the pool refuses one only when it has as many
\* sessions as its limit.
THEOREM RefusesRight == Spec => RefusedAtLimit
  <1>1. ASSUME TypeOK, Counted, [Next]_vars
        PROVE  \A cl \in Client : Refuse(cl) => Cardinality(Sessions) >= hardlimit
    BY <1>1 DEF Counted, Refuse
  <1> QED
    BY <1>1, CountedAlways, PTL DEF Spec, RefusedAtLimit
-----------------------------------------------------------------------------
(* Sessions that end under a client *)

Holding == \A cl \in Client : pc[cl] \in {"using", "done", "disposing"} => held[cl] \in Conn

LEMMA HoldingStep == ASSUME TypeOK, Holding, [Next]_vars PROVE Holding'
  <1> USE DEF vars, clients, limits, pool
  <1>1. /\ pc \in [Client -> {"out", "using", "done", "refused", "disposing"}]
        /\ held \in [Client -> 0..opened]
    BY DEF TypeOK
  <1>2. ASSUME NEW cl \in Client, ClientStep(cl) PROVE Holding'
    <2>1. ASSUME NEW c \in Conn, Get(cl, c) PROVE Holding'
      BY <1>1, <2>1 DEF Get, Holding
    <2>2. ASSUME NEW next \in {"out", "refused"}, Drop(cl, next) PROVE Holding'
      BY <1>1, <2>2 DEF Drop, Holding
    <2>3. ASSUME NEW next, held' = held, pc' = [pc EXCEPT ![cl] = next], pc[cl] \in {"using", "done"} PROVE Holding'
      BY <1>1, <2>3 DEF Holding
    <2>4. connections \subseteq Conn /\ opened \in 0..MaxSessions /\ (opened < MaxSessions => opened + 1 \in Conn)
      BY PoolAssumption DEF TypeOK, Conn
    <2>5. CASE Lease(cl)
      BY <2>1, <2>4, <2>5 DEF Lease, Leasable
    <2>6. CASE OpenNew(cl)
      BY <2>1, <2>4, <2>6 DEF OpenNew
    <2>7. CASE OpenDirect(cl)
      BY <2>1, <2>4, <2>7 DEF OpenDirect
    <2>8. CASE \/ Refuse(cl) \/ CloseAgain(cl) \/ DisposeDirect(cl) \/ DisposeEnd(cl) \/ FindClosed(cl)
      BY <2>2, <2>8 DEF Refuse, CloseAgain, DisposeDirect, DisposeEnd, FindClosed
    <2>9. CASE Close(cl) \/ DisposeReturn(cl)
      BY <2>3, <2>9 DEF Close, DisposeReturn, Disposes
    <2> QED
      BY <1>2, <2>5, <2>6, <2>7, <2>8, <2>9 DEF ClientStep
  <1>3. CASE DisposeStep \/ OtherStep \/ UNCHANGED vars
    <2>1. UNCHANGED <<pc, held>>
      BY <1>3 DEF DisposeStep, Reap, CloseElement, SetPoolSize, SetMaxPoolSize,
             OtherStep, PoolSizeSet, MaxPoolSizeSet, HasMoreElements, NextElement, NextElementFails,
             Clear, Zero, StopReaper, CloseConnections, ClosePool, Enumerates, Tick, Break
    <2> QED
      BY <2>1 DEF Holding
  <1> QED
    BY <1>2, <1>3, StepKinds

LEMMA EndedStep ==
  ASSUME TypeOK, Orderly, OneInv, Holding, [Next]_vars,
         Never({"again", "dispose", "closeall"}), NEW cl \in Client,
         pc[cl] = "using", session[held[cl]] = "open", session'[held[cl]] = "closed"
  PROVE  pc'[cl] # "using" \/ lease[held[cl]] = Overdue
  <1> USE DEF vars, clients, limits, pool
  <1>1. held[cl] \in Conn /\ session \in [Conn -> {"none", "open", "stuck", "direct", "closed"}]
    BY DEF Holding, TypeOK
  <1>2. Leased /\ admin.step \in {"idle", "poolsize", "hardlimit"} /\ \A cm \in Client : pc[cm] # "disposing"
    BY DEF OneInv, Orderly, Never
  <1>3. ASSUME DisposeAll(Swept) PROVE lease[held[cl]] = Overdue
    <2>1. held[cl] \in Swept
      BY <1>1, <1>3 DEF DisposeAll
    <2> QED
      BY <1>2, <2>1, SweptType DEF Leased, Reapable
  <1>4. CASE Reap \/ \E n \in Limits : SetPoolSize(n) \/ SetMaxPoolSize(n)
    BY <1>3, <1>4 DEF Reap, SetPoolSize, SetMaxPoolSize, ReapConnections
  <1>5. ASSUME NEW cm \in Client, ClientStep(cm) PROVE FALSE
    <2>1. ~DisposeEnd(cm)
      BY <1>2 DEF DisposeEnd
    <2> QED
      BY <1>1, <1>5, <2>1 DEF ClientStep, Lease, OpenNew, Refuse, OpenDirect, Close, CloseAgain, ReturnConnection,
             DisposeReturn, DisposeDirect, FindClosed
  <1>6. ~CloseElement
    BY <1>2 DEF CloseElement
  <1>7. ~OtherStep /\ ~UNCHANGED vars
    BY <1>1 DEF OtherStep, PoolSizeSet, MaxPoolSizeSet, HasMoreElements, NextElement, NextElementFails,
           Clear, Zero, StopReaper, CloseConnections, ClosePool, Enumerates, Tick, Break
  <1> QED
    BY <1>4, <1>5, <1>6, <1>7, StepKinds DEF DisposeStep

\* A session ends under its client only when the lease is too old, as long as nobody closes
\* twice, disposes or closes all.
THEOREM EndsOverdue == Spec => EndedOverdue
  <1>1. Init => Holding /\ OneInv
    BY DEF Init, Holding, OneInv, Leased
  <1>2. ASSUME TypeOK, Orderly, OneInv, Holding, [Next]_vars, Never({"again", "dispose", "closeall"})
        PROVE  \A cl \in Client :
                 pc[cl] = "using" /\ session[held[cl]] = "open" /\ session'[held[cl]] = "closed"
                   => pc'[cl] # "using" \/ lease[held[cl]] = Overdue
    BY <1>2, EndedStep
  <1> QED
    BY <1>1, <1>2, OneStep, HoldingStep, CountedAlways, PTL DEF Spec, EndedOverdue
=============================================================================
