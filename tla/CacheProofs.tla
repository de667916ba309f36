----------------------------- MODULE CacheProofs -----------------------------
(***************************************************************************)
(* Type correctness and safety of DistributedCache.                        *)
(***************************************************************************)
EXTENDS DistributedCache, FiniteSetTheorems, TLAPS

Typed ==
  /\ TypeOK
  /\ \A c \in Client : ~At(c, "idle") => call[c].key \in Key

\* Stamps come from the clock, and nobody has data that the database never had.
Bounded ==
  /\ \A k \in Key : stamps[k] <= clock
  /\ \A p \in Peer, k \in Key : /\ cache[p][k].stamp <= clock
                                /\ cache[p][k].version <= data[k]
                                /\ seen[p][k] <= data[k]
  /\ \A c \in Client : call[c].stamp <= clock
  /\ \A c \in Client, k \in Key : call[c].key = k => call[c].version <= data[k]

\* The thread that stamps a key is the only one, and has the newest stamp of all.
InOrder ==
  \A k \in Key, c \in Client : k \notin crossed /\ Stamping(c, k) =>
    /\ \A d \in Client : Stamping(d, k) => d = c
    /\ \A p \in Peer : cache[p][k].stamp <= call[c].stamp
    /\ \A d \in Client : At(d, "insert") /\ call[d].key = k => call[d].stamp <= call[c].stamp

\* What was stamped before an entry that was not late is not newer than it.
Stamped(d, k) == call[d].at \in {"forget", "record", "insert"} /\ call[d].key = k

NoneNewer ==
  \A p \in Peer, k \in Key : ~cache[p][k].late =>
    /\ \A q \in Peer : cache[q][k].stamp < cache[p][k].stamp =>
                         cache[q][k].version <= cache[p][k].version
    /\ \A d \in Client : Stamped(d, k) /\ call[d].stamp < cache[p][k].stamp =>
                           call[d].version <= cache[p][k].version

CacheInv == Bounded /\ InOrder /\ NeverAhead /\ NoneNewer /\ NeverBack
-----------------------------------------------------------------------------
(* Steps that take entries and stamps away, and let calls begin and end.   *)

Quiet(c) == call'[c].at \notin {"forget", "record", "insert"}

Takes ==
  /\ data' = data /\ crossed' = crossed /\ clock <= clock'
  /\ \A k \in Key : stamps'[k] = stamps[k] \/ stamps'[k] = 0
  /\ \A p \in Peer, k \in Key : cache'[p][k] = cache[p][k] \/ cache'[p][k] = NoEntry
  /\ \A p \in Peer, k \in Key :
       \/ seen'[p][k] = seen[p][k]
       \/ cache'[p][k] = NoEntry /\ seen'[p][k] <= data[k]
  /\ \A c \in Client :
       \/ call'[c] = call[c]
       \/ At(c, "forget") /\ call'[c] = [call[c] EXCEPT !.at = "record"]
       \/ /\ Quiet(c)
          /\ call'[c].stamp <= clock
          /\ \A k \in Key : call'[c].key = k => call'[c].version <= data[k]

\* What the sets of TypeOK say of each value.
Values ==
  /\ clock \in Nat
  /\ \A k \in Key : stamps[k] \in Nat /\ data[k] \in Nat
  /\ \A p \in Peer, k \in Key : cache[p][k].stamp \in Nat /\ cache[p][k].version \in Nat
                                /\ cache[p][k].late \in BOOLEAN /\ seen[p][k] \in Nat
  /\ \A c \in Client : call[c].stamp \in Nat /\ call[c].version \in Nat

LEMMA ValuesHold == ASSUME TypeOK PROVE Values
  BY CacheAssumption DEF TypeOK, Values, Entry, Call

LEMMA ValuesNext == ASSUME TypeOK' PROVE Values'
  BY CacheAssumption DEF TypeOK, Values, Entry, Call

LEMMA TakesKeeps ==
  ASSUME TypeOK, CacheInv, TypeOK', Takes
  PROVE  CacheInv'
  <1> USE DEF CacheInv
  <1>0. Values /\ Values'
    BY ValuesHold, ValuesNext
  <1>1. \A c \in Client, k \in Key :
          /\ Stamping(c, k)' => Stamping(c, k) /\ call'[c].stamp = call[c].stamp
          /\ Stamped(c, k)' => /\ Stamped(c, k)
                               /\ call'[c].stamp = call[c].stamp /\ call'[c].version = call[c].version
          /\ At(c, "insert")' => At(c, "insert") /\ call'[c] = call[c]
    BY DEF Takes, Stamping, Stamped, At, Quiet, TypeOK, Call
  <1>2. Bounded'
    <2>1. \A c \in Client :
            \/ /\ call'[c].stamp = call[c].stamp /\ call'[c].key = call[c].key
               /\ call'[c].version = call[c].version
            \/ /\ call'[c].stamp <= clock
               /\ \A k \in Key : call'[c].key = k => call'[c].version <= data[k]
      BY DEF Takes, Quiet, TypeOK, Call
    <2>2. (\A c \in Client : call[c].stamp <= clock)'
      BY <1>0, <2>1 DEF Values, Bounded, Takes
    <2>3. (\A c \in Client, k \in Key : call[c].key = k => call[c].version <= data[k])'
      BY <2>1 DEF Bounded, Takes
    <2>4. (\A k \in Key : stamps[k] <= clock)'
      BY <1>0 DEF Values, Bounded, Takes
    <2>5. (\A p \in Peer, k \in Key : /\ cache[p][k].stamp <= clock
                                     /\ cache[p][k].version <= data[k]
                                     /\ seen[p][k] <= data[k])'
      BY <1>0 DEF Values, Bounded, Takes, NoEntry
    <2> QED
      BY <2>2, <2>3, <2>4, <2>5 DEF Bounded
  <1>3. InOrder'
    BY <1>0, <1>1 DEF Values, InOrder, Takes, NoEntry
  <1>4. NeverAhead'
    BY <1>0, <1>1 DEF Values, NeverAhead, Takes, NoEntry
  <1>5. NoneNewer'
    BY <1>0, <1>1 DEF Values, NoneNewer, Takes, NoEntry
  <1>6. NeverBack'
    BY <1>0 DEF Values, NeverBack, Cached, Takes, NoEntry
  <1> QED
    BY <1>2, <1>3, <1>4, <1>5, <1>6
-----------------------------------------------------------------------------
(* Types                                                                   *)

LEMMA KeysFinite == ASSUME NEW p \in Peer PROVE IsFiniteSet(Keys(p)) /\ Cardinality(Keys(p)) \in Nat
  BY CacheAssumption, FS_Subset, FS_CardinalityType DEF Keys

\* A cache that only loses entries stays within its capacity.
LEMMA FewerKeys ==
  ASSUME TypeOK, \A p \in Peer, k \in Key : cache'[p][k] = cache[p][k] \/ cache'[p][k] = NoEntry
  PROVE  (\A p \in Peer : Cardinality(Keys(p)) <= Capacity[p])'
  <1> SUFFICES ASSUME NEW p \in Peer PROVE Cardinality(Keys(p)') <= Capacity[p]
    OBVIOUS
  <1>1. Keys(p)' \subseteq Keys(p)
    BY DEF Keys, Cached, NoEntry
  <1>2. Cardinality(Keys(p)') <= Cardinality(Keys(p)) /\ Cardinality(Keys(p)') \in Nat
    BY <1>1, KeysFinite, FS_Subset, FS_CardinalityType
  <1> QED
    BY <1>2, KeysFinite, CacheAssumption DEF TypeOK

\* The entry of one key of a peer is taken away, or all of them.
LEMMA ForgetsType ==
  ASSUME TypeOK, NEW p \in Peer, NEW k \in Key,
         \/ Forgets(p, k)
         \/ cache' = [cache EXCEPT ![p] = [l \in Key |-> NoEntry]]
         \/ cache' = cache
  PROVE  /\ cache' \in [Peer -> [Key -> Entry]]
         /\ \A q \in Peer, l \in Key : cache'[q][l] = cache[q][l] \/ cache'[q][l] = NoEntry
         /\ (\A q \in Peer : Cardinality(Keys(q)) <= Capacity[q])'
  <1>1. NoEntry \in Entry
    BY CacheAssumption DEF NoEntry, Entry
  <1>2. /\ cache' \in [Peer -> [Key -> Entry]]
        /\ \A q \in Peer, l \in Key : cache'[q][l] = cache[q][l] \/ cache'[q][l] = NoEntry
    <2>1. CASE Forgets(p, k)
      BY <1>1, <2>1 DEF TypeOK, Forgets
    <2>2. CASE cache' = [cache EXCEPT ![p] = [l \in Key |-> NoEntry]]
      BY <1>1, <2>2 DEF TypeOK
    <2>3. CASE cache' = cache
      BY <2>3 DEF TypeOK
    <2> QED
      BY <2>1, <2>2, <2>3
  <1> QED
    BY <1>2, FewerKeys

LEMMA IdleType == Idle \in Call /\ NoEntry \in Entry
  BY CacheAssumption DEF Idle, Call, NoEntry, Entry

LEMMA TypeInit == ASSUME Init PROVE Typed
  <1>1. \A p \in Peer : Keys(p) = {}
    BY DEF Init, Keys, Cached, NoEntry
  <1>2. \A p \in Peer : Cardinality(Keys(p)) <= Capacity[p]
    BY <1>1, FS_EmptySet, CacheAssumption
  <1> QED
    BY <1>2, IdleType, CacheAssumption DEF Init, Typed, TypeOK, Idle, At

\* The steps of a page that change its call alone.
LEMMA CallType ==
  ASSUME Typed, NEW c \in Client, UNCHANGED <<data, clock, cache, seen>>,
         stamps' \in [Key -> 0 .. MaxTime], crossed' \in SUBSET Key, faults' \in 0 .. MaxFaults,
         NEW x \in Call, x.at # "idle" => x.key \in Key, call' = [call EXCEPT ![c] = x]
  PROVE  Typed'
  BY FewerKeys DEF Typed, TypeOK, At
-----------------------------------------------------------------------------
(* Which steps take away.                                                  *)

LEMMA CallTakes ==
  ASSUME Typed, Bounded, NEW c \in Client, UNCHANGED <<data, cache, clock, seen, crossed>>,
         \A k \in Key : stamps'[k] = stamps[k] \/ stamps'[k] = 0,
         stamps' \in [Key -> 0 .. MaxTime], faults' \in 0 .. MaxFaults,
         NEW x \in Call, call' = [call EXCEPT ![c] = x], x.at # "idle" => x.key \in Key,
         \/ /\ x.at \notin {"forget", "record", "insert"}
            /\ x.stamp <= clock
            /\ \A k \in Key : x.key = k => x.version <= data[k]
         \/ At(c, "forget") /\ x = [call[c] EXCEPT !.at = "record"]
  PROVE  Typed' /\ Takes
  <1>1. Typed'
    BY CallType DEF Typed, TypeOK
  <1>2. /\ clock <= clock'
        /\ \A d \in Client : d # c => call'[d] = call[d]
        /\ call'[c] = x
    BY CacheAssumption DEF Typed, TypeOK
  <1> QED
    BY <1>1, <1>2 DEF Takes, Quiet

\* A call that ends, or that goes on to another place with what it has.
LEMMA EndsTakes ==
  ASSUME Typed, Bounded, NEW c \in Client, UNCHANGED <<data, cache, clock, seen, crossed>>,
         \A k \in Key : stamps'[k] = stamps[k] \/ stamps'[k] = 0,
         stamps' \in [Key -> 0 .. MaxTime], faults' \in 0 .. MaxFaults,
         \/ Ends(c)
         \/ At(c, "forget") /\ Goto(c, "record")
         \/ At(c, "expire") /\ Goto(c, "remove")
  PROVE  Typed' /\ Takes
  <1>0. Values /\ call \in [Client -> Call] /\ NoKey \notin Key
    BY ValuesHold, CacheAssumption DEF Typed, TypeOK
  <1>1. CASE Ends(c)
    <2>1. Idle.at = "idle" /\ Idle.key = NoKey /\ Idle.stamp <= clock
      BY <1>0 DEF Idle, Values
    <2> QED
      BY <1>0, <1>1, <2>1, IdleType, CallTakes DEF Ends
  <1>2. CASE At(c, "forget") /\ Goto(c, "record")
    <2> DEFINE x == [call[c] EXCEPT !.at = "record"]
    <2>1. x \in Call /\ x.key \in Key /\ call' = [call EXCEPT ![c] = x]
      BY <1>0, <1>2 DEF Typed, Goto, At, Call
    <2> QED
      BY <1>2, <2>1, CallTakes
  <1>3. CASE At(c, "expire") /\ Goto(c, "remove")
    <2> DEFINE x == [call[c] EXCEPT !.at = "remove"]
    <2>1. /\ x \in Call /\ x.key \in Key /\ call' = [call EXCEPT ![c] = x] /\ x.at = "remove"
          /\ x.stamp = call[c].stamp /\ x.version = call[c].version /\ x.key = call[c].key
      BY <1>0, <1>3 DEF Typed, Goto, At, Call
    <2> QED
      BY <2>1, CallTakes DEF Bounded
  <1> QED
    BY <1>1, <1>2, <1>3

\* An entry that is taken away with the call that takes it.
LEMMA ForgetsTakes ==
  ASSUME Typed, Bounded, NEW c \in Client, UNCHANGED <<data, stamps, clock, crossed, faults>>,
         ~At(c, "idle"),
         \/ Forgets(PeerOf[c], call[c].key)
         \/ cache' = [cache EXCEPT ![PeerOf[c]] = [k \in Key |-> NoEntry]],
         \/ seen' = seen
         \/ /\ seen' = [seen EXCEPT ![PeerOf[c]][call[c].key] = Later(@, call[c].version)]
            /\ Forgets(PeerOf[c], call[c].key),
         NEW x \in Call, call' = [call EXCEPT ![c] = x], x.at # "idle" => x.key \in Key,
         x.at \notin {"forget", "record", "insert"}, x.stamp = 0, x.version = 0
  PROVE  Typed' /\ Takes
  <1>0. Values /\ call \in [Client -> Call] /\ call[c].key \in Key /\ PeerOf[c] \in Peer
    BY ValuesHold, CacheAssumption DEF Typed, TypeOK
  <1>1. /\ cache' \in [Peer -> [Key -> Entry]]
        /\ \A q \in Peer, l \in Key : cache'[q][l] = cache[q][l] \/ cache'[q][l] = NoEntry
        /\ (\A q \in Peer : Cardinality(Keys(q)) <= Capacity[q])'
    BY <1>0, ForgetsType DEF Typed
  <1>2. Forgets(PeerOf[c], call[c].key) => cache'[PeerOf[c]][call[c].key] = NoEntry
    BY <1>0 DEF Forgets, Typed, TypeOK
  <1>3. /\ seen' \in [Peer -> [Key -> 0 .. MaxVersion]]
        /\ \A p \in Peer, k \in Key : \/ seen'[p][k] = seen[p][k]
                                      \/ cache'[p][k] = NoEntry /\ seen'[p][k] <= data[k]
    <2>1. CASE seen' = seen
      BY <2>1 DEF Typed, TypeOK
    <2>2. CASE /\ seen' = [seen EXCEPT ![PeerOf[c]][call[c].key] = Later(@, call[c].version)]
               /\ Forgets(PeerOf[c], call[c].key)
      <3> DEFINE v == Later(seen[PeerOf[c]][call[c].key], call[c].version)
      <3>1. v \in 0 .. MaxVersion /\ v <= data[call[c].key]
        BY <1>0, CacheAssumption DEF Later, Values, Bounded, Typed, TypeOK, Call
      <3> HIDE DEF v
      <3>2. seen' = [seen EXCEPT ![PeerOf[c]][call[c].key] = v]
        BY <2>2 DEF v, Typed, TypeOK
      <3> QED
        BY <1>0, <1>2, <2>2, <3>1, <3>2 DEF Typed, TypeOK
    <2> QED
      BY <2>1, <2>2
  <1>4. Typed'
    BY <1>0, <1>1, <1>3 DEF Typed, TypeOK, At
  <1>5. \A d \in Client : \/ call'[d] = call[d]
                         \/ /\ Quiet(d)
                            /\ call'[d].stamp <= clock
                            /\ \A k \in Key : call'[d].key = k => call'[d].version <= data[k]
    BY <1>0 DEF Quiet, Values
  <1>6. clock <= clock'
    BY <1>0 DEF Values
  <1> QED
    BY <1>1, <1>3, <1>4, <1>5, <1>6 DEF Takes

\* The steps of get, with the query of its page.
LEMMA GetTakes ==
  ASSUME Typed, Bounded, NEW c \in Client,
         \/ \E k \in Key : Get(c, k)
         \/ Ask(c) \/ Hit(c) \/ Outdated(c) \/ LastFails(c) \/ Load(c)
  PROVE  Typed' /\ Takes
  <1>0. /\ Values /\ call \in [Client -> Call] /\ PeerOf[c] \in Peer /\ NoKey \notin Key
        /\ faults \in 0 .. MaxFaults /\ stamps \in [Key -> 0 .. MaxTime]
    BY ValuesHold, CacheAssumption DEF Typed, TypeOK
  <1>1. ASSUME NEW k \in Key, Get(c, k) PROVE Typed' /\ Takes
    <2> DEFINE x == IF Cached(PeerOf[c], k)
                      THEN [Idle EXCEPT !.at = "ask", !.key = k, !.object = cache[PeerOf[c]][k],
                                        !.own = seen[PeerOf[c]][k]]
                      ELSE [Idle EXCEPT !.at = "load", !.key = k]
    <2>1. cache[PeerOf[c]][k] \in Entry /\ seen[PeerOf[c]][k] \in 0 .. MaxVersion
      BY <1>0 DEF Typed, TypeOK
    <2>2. /\ x \in Call /\ x.key = k /\ x.at \in {"ask", "load"} /\ x.stamp = 0 /\ x.version = 0
      BY <2>1, IdleType DEF Idle, Call
    <2>3. call' = [call EXCEPT ![c] = x] /\ UNCHANGED <<data, stamps, clock, cache, seen, crossed, faults>>
      BY <1>1 DEF Get
    <2> HIDE DEF x
    <2>4. x.stamp <= clock /\ \A l \in Key : x.version <= data[l]
      BY <1>0, <2>2 DEF Values
    <2> QED
      BY <1>0, <2>2, <2>3, <2>4, CallTakes
  <1>2. CASE Ask(c)
    <2> DEFINE x == [call[c] EXCEPT !.at = "compare", !.stamp = stamps[call[c].key],
                                    !.newer = Newer(c)]
    <2>1. call[c].key \in Key /\ Newer(c) \in SUBSET Entry
      BY <1>2 DEF Ask, Typed, TypeOK, At, Newer
    <2>2. /\ x \in Call /\ x.key = call[c].key /\ x.at = "compare" /\ x.version = call[c].version
          /\ x.stamp = stamps[call[c].key]
      BY <1>0, <2>1 DEF Call
    <2>3. call' = [call EXCEPT ![c] = x] /\ UNCHANGED <<data, stamps, clock, cache, seen, crossed, faults>>
      BY <1>2 DEF Ask
    <2> HIDE DEF x
    <2> QED
      BY <1>0, <2>1, <2>2, <2>3, CallTakes DEF Bounded
  <1>3. CASE Hit(c) \/ LastFails(c)
    BY <1>0, <1>3, EndsTakes DEF Hit, LastFails
  <1>4. CASE Outdated(c)
    <2> DEFINE x == [Idle EXCEPT !.at = "load", !.key = call[c].key]
    <2>1. call[c].key \in Key /\ ~At(c, "idle")
      BY <1>4 DEF Outdated, Typed, At
    <2>2. x \in Call /\ x.key = call[c].key /\ x.at = "load" /\ x.stamp = 0 /\ x.version = 0
      BY <2>1, IdleType DEF Idle, Call
    <2>3. /\ call' = [call EXCEPT ![c] = x] /\ UNCHANGED <<data, stamps, clock, seen, crossed, faults>>
          /\ Forgets(PeerOf[c], call[c].key)
      BY <1>4 DEF Outdated
    <2> HIDE DEF x
    <2> QED
      BY <2>1, <2>2, <2>3, ForgetsTakes
  <1>5. CASE Load(c)
    <2> DEFINE x == [call[c] EXCEPT !.at = "stamp", !.version = data[call[c].key]]
    <2>1. call[c].key \in Key /\ data[call[c].key] \in 0 .. MaxVersion
      BY <1>5 DEF Load, Typed, TypeOK, At
    <2>2. /\ x \in Call /\ x.key = call[c].key /\ x.at = "stamp" /\ x.stamp = call[c].stamp
          /\ x.version = data[call[c].key]
      BY <1>0, <2>1 DEF Call
    <2>3. call' = [call EXCEPT ![c] = x] /\ UNCHANGED <<data, stamps, clock, cache, seen, crossed, faults>>
      BY <1>5 DEF Load
    <2> HIDE DEF x
    <2>4. x.stamp <= clock /\ \A l \in Key : x.key = l => x.version <= data[l]
      BY <1>0, <2>1, <2>2 DEF Bounded, Values
    <2> QED
      BY <1>0, <2>1, <2>2, <2>3, <2>4, CallTakes
  <1> QED
    BY <1>1, <1>2, <1>3, <1>4, <1>5

\* expire and expireAll, a put that fails, and the coordinator's removal of a stamp.
LEMMA ExpireTakes ==
  ASSUME Typed, Bounded, NEW c \in Client,
         \/ \E k \in Key : ExpireAll(c, k)
         \/ Forget(c) \/ InsertFails(c) \/ Expire(c) \/ Remove(c) \/ RemoveAll(c) \/ CallFails(c)
  PROVE  Typed' /\ Takes
  <1>0. /\ Values /\ call \in [Client -> Call] /\ PeerOf[c] \in Peer /\ NoKey \notin Key
        /\ faults \in 0 .. MaxFaults /\ stamps \in [Key -> 0 .. MaxTime] /\ MaxTime \in Nat
    BY ValuesHold, CacheAssumption DEF Typed, TypeOK
  <1>1. ASSUME NEW k \in Key, ExpireAll(c, k) PROVE Typed' /\ Takes
    <2> DEFINE x == [Idle EXCEPT !.at = "expire", !.key = k, !.op = "all",
                                 !.last = Keys(PeerOf[c]) = {k}]
    <2>1. (Keys(PeerOf[c]) = {k}) \in BOOLEAN
      OBVIOUS
    <2>2. /\ x \in Call /\ x.key = k /\ x.at = "expire" /\ x.stamp = 0 /\ x.version = 0
      BY <2>1, IdleType DEF Idle, Call
    <2>3. call' = [call EXCEPT ![c] = x] /\ UNCHANGED <<data, stamps, clock, cache, seen, crossed, faults>>
      BY <1>1 DEF ExpireAll
    <2> HIDE DEF x
    <2>4. x.stamp <= clock /\ \A l \in Key : x.version <= data[l]
      BY <1>0, <2>2 DEF Values
    <2> QED
      BY <1>0, <2>2, <2>3, <2>4, CallTakes
  <1>2. CASE Forget(c) \/ Expire(c)
    <2>1. /\ stamps' \in [Key -> 0 .. MaxTime]
          /\ \A k \in Key : stamps'[k] = stamps[k] \/ stamps'[k] = 0
      BY <1>0, <1>2 DEF Forget, Expire
    <2> QED
      BY <1>0, <1>2, <2>1, EndsTakes DEF Forget, Expire
  <1>3. CASE InsertFails(c)
    BY <1>0, <1>3, EndsTakes DEF InsertFails
  <1>4. CASE CallFails(c)
    <2>1. faults' \in 0 .. MaxFaults
      BY <1>4, CacheAssumption DEF CallFails, Fault, Typed, TypeOK
    <2> QED
      BY <1>0, <1>4, <2>1, EndsTakes DEF CallFails
  <1>5. CASE Remove(c) \/ RemoveAll(c)
    <2>1. Idle \in Call /\ Idle.at = "idle" /\ Idle.stamp = 0 /\ Idle.version = 0
      BY IdleType DEF Idle
    <2>2. ~At(c, "idle") /\ call' = [call EXCEPT ![c] = Idle]
          /\ UNCHANGED <<data, stamps, clock, crossed, faults>>
      BY <1>5 DEF Remove, RemoveAll, At, Ends
    <2>3. /\ \/ Forgets(PeerOf[c], call[c].key)
             \/ cache' = [cache EXCEPT ![PeerOf[c]] = [k \in Key |-> NoEntry]]
          /\ \/ seen' = seen
             \/ /\ seen' = [seen EXCEPT ![PeerOf[c]][call[c].key] = Later(@, call[c].version)]
                /\ Forgets(PeerOf[c], call[c].key)
      BY <1>5 DEF Remove, RemoveAll
    <2> QED
      BY <2>1, <2>2, <2>3, ForgetsTakes
  <1> QED
    BY <1>1, <1>2, <1>3, <1>4, <1>5

\* Restarts and the clock.
LEMMA RestartTakes ==
  ASSUME Typed, Bounded,
         CoordinatorRestarts \/ Tick \/ \E p \in Peer : PeerRestarts(p)
  PROVE  Typed' /\ Takes
  <1>0. /\ Values /\ call \in [Client -> Call] /\ NoKey \notin Key
        /\ faults \in 0 .. MaxFaults /\ MaxTime \in Nat /\ MaxFaults \in Nat
    BY ValuesHold, CacheAssumption DEF Typed, TypeOK
  <1>1. /\ Idle \in Call /\ NoEntry \in Entry /\ Idle.at = "idle" /\ Idle.key = NoKey /\ Idle.stamp <= clock
    BY <1>0, IdleType DEF Idle, Values
  <1>2. CASE CoordinatorRestarts
    <2>1. /\ faults' \in 0 .. MaxFaults
          /\ stamps' \in [Key -> 0 .. MaxTime] /\ \A k \in Key : stamps'[k] = 0
          /\ UNCHANGED <<data, clock, cache, seen, crossed>>
      BY <1>0, <1>2 DEF CoordinatorRestarts, Fault
    <2>2. /\ call' \in [Client -> Call]
          /\ \A c \in Client : call'[c] = call[c] \/ call'[c] = Idle
      BY <1>0, <1>1, <1>2 DEF CoordinatorRestarts
    <2>3. Typed'
      BY <1>1, <2>1, <2>2, FewerKeys DEF Typed, TypeOK, At
    <2> QED
      BY <1>0, <1>1, <2>1, <2>2, <2>3 DEF Takes, Quiet, Values
  <1>3. CASE Tick
    <2>1. clock' \in 1 .. MaxTime /\ clock <= clock'
      BY <1>0, <1>3 DEF Tick, Typed, TypeOK
    <2>2. UNCHANGED <<data, stamps, cache, call, seen, crossed, faults>>
      BY <1>3 DEF Tick
    <2>3. Typed'
      BY <2>1, <2>2, FewerKeys DEF Typed, TypeOK, At
    <2> QED
      BY <2>1, <2>2, <2>3 DEF Takes
  <1>4. ASSUME NEW p \in Peer, PeerRestarts(p) PROVE Typed' /\ Takes
    <2>1. /\ faults' \in 0 .. MaxFaults
          /\ UNCHANGED <<data, stamps, clock, seen, crossed>>
          /\ cache' = [cache EXCEPT ![p] = [k \in Key |-> NoEntry]]
      BY <1>0, <1>4 DEF PeerRestarts, Fault
    <2>2. /\ call' \in [Client -> Call]
          /\ \A c \in Client : call'[c] = call[c] \/ call'[c] = Idle
      BY <1>0, <1>1, <1>4 DEF PeerRestarts
    <2>3. /\ cache' \in [Peer -> [Key -> Entry]]
          /\ \A q \in Peer, l \in Key : cache'[q][l] = cache[q][l] \/ cache'[q][l] = NoEntry
      BY <1>1, <2>1 DEF Typed, TypeOK
    <2>4. Typed'
      BY <1>1, <2>1, <2>2, <2>3, FewerKeys DEF Typed, TypeOK, At
    <2> QED
      BY <1>0, <1>1, <2>1, <2>2, <2>3, <2>4 DEF Takes, Quiet, Values
  <1> QED
    BY <1>2, <1>3, <1>4
-----------------------------------------------------------------------------
(* The steps that bring something new.                                     *)

\* The data of a key changes: nothing that was read before is newer.
LEMMA StoreKeeps ==
  ASSUME Typed, CacheInv, NEW c \in Client, NEW k \in Key, Store(c, k)
  PROVE  Typed' /\ CacheInv'
  <1> DEFINE x == [Idle EXCEPT !.at = "expire", !.key = k, !.op = "store", !.version = data[k] + 1]
  <1>0. Values /\ call \in [Client -> Call] /\ MaxVersion \in Nat /\ NoKey \notin Key
    BY ValuesHold, CacheAssumption DEF Typed, TypeOK
  <1>1. data[k] + 1 \in 0 .. MaxVersion
    BY <1>0 DEF Store, Typed, TypeOK
  <1>2. /\ x \in Call /\ x.at = "expire" /\ x.key = k /\ x.stamp = 0 /\ x.version = data[k] + 1
    BY <1>1, IdleType DEF Idle, Call
  <1>3. /\ call' = [call EXCEPT ![c] = x] /\ data' = [data EXCEPT ![k] = @ + 1]
        /\ UNCHANGED <<stamps, clock, cache, seen, crossed, faults>>
    BY DEF Store
  <1> HIDE DEF x
  <1>4. Typed'
    BY <1>1, <1>2, <1>3, FewerKeys DEF Typed, TypeOK, At
  <1>5. /\ \A l \in Key : data[l] <= data'[l] /\ data'[l] \in Nat
        /\ data'[k] = data[k] + 1
        /\ call'[c] = x /\ \A d \in Client : d # c => call'[d] = call[d]
    BY <1>0, <1>3 DEF Values, Typed, TypeOK
  <1>6. Bounded'
    BY <1>0, <1>2, <1>3, <1>5 DEF CacheInv, Bounded, Values
  <1>7. InOrder' /\ NeverAhead' /\ NoneNewer'
    BY <1>2, <1>3, <1>5 DEF CacheInv, InOrder, NeverAhead, NoneNewer, Stamping, Stamped, At
  <1>8. NeverBack'
    BY <1>3 DEF CacheInv, NeverBack, Cached
  <1> QED
    BY <1>4, <1>6, <1>7, <1>8 DEF CacheInv

\* The clock is not behind any stamp; another thread that stamps the key makes it crossed.
LEMMA StampKeeps ==
  ASSUME Typed, CacheInv, NEW c \in Client, Stamp(c)
  PROVE  Typed' /\ CacheInv'
  <1> DEFINE x == [call[c] EXCEPT !.at = "forget", !.stamp = clock]
             k == call[c].key
  <1>0. /\ Values /\ call \in [Client -> Call] /\ clock \in 0 .. MaxTime /\ At(c, "stamp")
        /\ k \in Key
    BY ValuesHold, CacheAssumption DEF Typed, TypeOK, Stamp, At
  <1>1. /\ x \in Call /\ x.at = "forget" /\ x.key = k /\ x.stamp = clock /\ x.version = call[c].version
    BY <1>0 DEF Call
  <1>2. /\ call' = [call EXCEPT ![c] = x]
        /\ UNCHANGED <<data, stamps, clock, cache, seen, faults>>
        /\ crossed \subseteq crossed' /\ crossed' \subseteq crossed \cup {k}
        /\ (\E d \in Client : Stamping(d, k)) => k \in crossed'
    BY DEF Stamp
  <1> HIDE DEF x
  <1>3. call'[c] = x /\ \A d \in Client : d # c => call'[d] = call[d]
    BY <1>0, <1>2
  <1>4. Typed'
    BY <1>0, <1>1, <1>2, CallType DEF Typed, TypeOK
  <1> HIDE DEF k
  <1>5. Bounded'
    BY <1>0, <1>1, <1>2, <1>3 DEF CacheInv, Bounded, Values, k
  <1>6. /\ \A d \in Client, l \in Key : Stamping(d, l)' => (d = c /\ l = k) \/ (d # c /\ Stamping(d, l))
        /\ \A d \in Client : At(d, "insert")' => d # c /\ At(d, "insert")
        /\ \A d \in Client, l \in Key : Stamped(d, l)' => (d = c /\ l = k) \/ (d # c /\ Stamped(d, l))
    BY <1>1, <1>3 DEF Stamping, Stamped, At
  <1>7. InOrder'
    <2> SUFFICES ASSUME NEW l \in Key, NEW d \in Client, l \notin crossed', Stamping(d, l)'
                 PROVE  /\ \A e \in Client : Stamping(e, l)' => e = d
                        /\ \A p \in Peer : cache'[p][l].stamp <= call'[d].stamp
                        /\ \A e \in Client : At(e, "insert")' /\ call'[e].key = l =>
                                              call'[e].stamp <= call'[d].stamp
      BY DEF InOrder
    <2>1. CASE d = c /\ l = k
      BY <1>1, <1>2, <1>3, <1>6, <2>1 DEF CacheInv, Bounded
    <2>2. CASE d # c /\ Stamping(d, l)
      <3>1. l # k /\ l \notin crossed
        BY <1>2, <2>2
      <3> QED
        BY <1>2, <1>3, <1>6, <2>2, <3>1 DEF CacheInv, InOrder
    <2> QED
      BY <1>6, <2>1, <2>2
  <1>8. NeverAhead'
    BY <1>2, <1>3, <1>6 DEF CacheInv, NeverAhead
  <1>9. NoneNewer'
    <2>1. \A p \in Peer, l \in Key : ~(call'[c].stamp < cache'[p][l].stamp)
      BY <1>0, <1>1, <1>2, <1>3 DEF CacheInv, Bounded, Values
    <2> QED
      BY <1>2, <1>3, <1>6, <2>1 DEF CacheInv, NoneNewer
  <1>10. NeverBack'
    BY <1>2 DEF CacheInv, NeverBack, Cached
  <1> QED
    BY <1>4, <1>5, <1>7, <1>8, <1>9, <1>10 DEF CacheInv

\* The only thread that stamps the key has the newest stamp.
LEMMA RecordKeeps ==
  ASSUME Typed, CacheInv, NEW c \in Client, Record(c)
  PROVE  Typed' /\ CacheInv'
  <1> DEFINE x == [call[c] EXCEPT !.at = "insert"]
             k == call[c].key
  <1>0. /\ Values /\ call \in [Client -> Call] /\ At(c, "record") /\ k \in Key
        /\ call[c].stamp \in 0 .. MaxTime /\ faults \in 0 .. MaxFaults
    BY ValuesHold DEF Typed, TypeOK, Record, At, Call
  <1>1. /\ x \in Call /\ x.at = "insert" /\ x.key = k /\ x.stamp = call[c].stamp
        /\ x.version = call[c].version
    BY <1>0 DEF Call
  <1>2. /\ call' = [call EXCEPT ![c] = x] /\ stamps' = [stamps EXCEPT ![k] = call[c].stamp]
        /\ UNCHANGED <<data, clock, cache, seen, crossed, faults>>
    BY DEF Record, Goto
  <1> HIDE DEF x
  <1>3. call'[c] = x /\ \A d \in Client : d # c => call'[d] = call[d]
    BY <1>0, <1>2
  <1>4. Typed'
    BY <1>0, <1>1, <1>2, CallType DEF Typed, TypeOK
  <1> HIDE DEF k
  <1>5. /\ stamps'[k] = call[c].stamp /\ \A l \in Key : l # k => stamps'[l] = stamps[l]
    BY <1>0, <1>2 DEF Typed, TypeOK
  <1>6. Bounded'
    BY <1>0, <1>1, <1>2, <1>3, <1>5 DEF CacheInv, Bounded, k
  <1>7. /\ Stamping(c, k) /\ Stamped(c, k)
        /\ \A d \in Client, l \in Key : Stamping(d, l)' => d # c /\ Stamping(d, l)
        /\ \A d \in Client : At(d, "insert")' => d = c \/ (d # c /\ At(d, "insert"))
        /\ \A d \in Client, l \in Key : Stamped(d, l)' =>
              /\ Stamped(d, l)
              /\ call'[d].stamp = call[d].stamp /\ call'[d].version = call[d].version
    BY <1>0, <1>1, <1>3 DEF Stamping, Stamped, At, k
  <1>8. InOrder'
    <2>1. \A d \in Client, l \in Key : l = k /\ l \notin crossed => ~Stamping(d, l)'
      BY <1>0, <1>7 DEF CacheInv, InOrder
    <2>2. \A d \in Client, l \in Key : l # k /\ At(d, "insert")' /\ call'[d].key = l => d # c
      BY <1>1, <1>3
    <2> QED
      BY <1>2, <1>3, <1>7, <2>1, <2>2 DEF CacheInv, InOrder
  <1>9. NeverAhead'
    <2> SUFFICES ASSUME NEW l \in Key, l \notin crossed, stamps'[l] # 0
                 PROVE  /\ \A p \in Peer : cache[p][l].stamp <= stamps'[l]
                        /\ \A d \in Client : At(d, "insert")' /\ call'[d].key = l =>
                                              call'[d].stamp <= stamps'[l]
      BY <1>2 DEF NeverAhead
    <2>1. CASE l = k
      BY <1>0, <1>1, <1>3, <1>5, <1>7, <2>1 DEF CacheInv, InOrder, Values
    <2>2. CASE l # k
      BY <1>1, <1>3, <1>5, <1>7, <2>2 DEF CacheInv, NeverAhead
    <2> QED
      BY <2>1, <2>2
  <1>10. NoneNewer' /\ NeverBack'
    BY <1>2, <1>7 DEF CacheInv, NoneNewer, NeverBack, Cached
  <1> QED
    BY <1>4, <1>6, <1>8, <1>9, <1>10 DEF CacheInv

\* A key takes a free slot, or the slot of an entry that goes.
LEMMA InsertType ==
  ASSUME Typed, NEW c \in Client, Insert(c)
  PROVE  /\ cache' \in [Peer -> [Key -> Entry]]
         /\ cache'[PeerOf[c]][call[c].key] = Fresh(c)
         /\ \A p \in Peer, l \in Key :
              ~(p = PeerOf[c] /\ l = call[c].key) => cache'[p][l] = cache[p][l] \/ cache'[p][l] = NoEntry
         /\ seen' = [seen EXCEPT ![PeerOf[c]][call[c].key] = Later(@, call[c].version)]
         /\ Typed'
  <1> DEFINE p == PeerOf[c]
             k == call[c].key
             keys == Keys(p)
             new(out) == [l \in Key |-> IF l = k THEN Fresh(c) ELSE IF l \in out THEN NoEntry
                                                                    ELSE cache[p][l]]
  <1>0. /\ Values /\ call \in [Client -> Call] /\ p \in Peer /\ k \in Key
        /\ Capacity[p] \in Nat /\ cache \in [Peer -> [Key -> Entry]] /\ cache[p][k].stamp = 0
    BY ValuesHold, CacheAssumption DEF Typed, TypeOK, Insert, At, Local
  <1>1. Fresh(c) \in Entry
    BY <1>0 DEF Fresh, Entry, Call
  <1>2. PICK out \in SUBSET keys :
          /\ cache' = [cache EXCEPT ![p] = new(out)]
          /\ \/ out = {} /\ Cardinality(keys) < Capacity[p]
             \/ \E l \in keys : out = {l}
          /\ seen' = [seen EXCEPT ![p][k] = Later(@, call[c].version)]
    <2>1. CASE Cardinality(keys) < Capacity[p]
      <3>1. Inserts(c, {})
        BY <2>1 DEF Insert
      <3>2. {} \in SUBSET keys
        OBVIOUS
      <3> QED
        BY <2>1, <3>1, <3>2 DEF Inserts
    <2>2. CASE ~(Cardinality(keys) < Capacity[p])
      <3>1. PICK l \in keys : Inserts(c, {l})
        BY <2>2 DEF Insert
      <3> QED
        BY <3>1 DEF Inserts
    <2> QED
      BY <2>1, <2>2
  <1>3. /\ new(out) \in [Key -> Entry] /\ new(out)[k] = Fresh(c)
        /\ \A l \in Key : l # k => (new(out)[l] = cache[p][l] \/ new(out)[l] = NoEntry)
        /\ \A l \in Key : l # k /\ l \in out => new(out)[l] = NoEntry
    BY <1>0, <1>1, IdleType
  <1> HIDE DEF new
  <1>4. cache' \in [Peer -> [Key -> Entry]] /\ cache'[p] = new(out)
        /\ \A q \in Peer : q # p => cache'[q] = cache[q]
    BY <1>0, <1>2, <1>3
  <1>5. \A q \in Peer : Cardinality(Keys(q)') <= Capacity[q]
    <2> SUFFICES ASSUME NEW q \in Peer PROVE Cardinality(Keys(q)') <= Capacity[q]
      OBVIOUS
    <2>1. CASE q # p
      <3>1. Keys(q)' = Keys(q)
        BY <1>4, <2>1 DEF Keys, Cached
      <3> QED
        BY <3>1 DEF Typed, TypeOK
    <2>2. CASE q = p
      <3>1. Keys(q)' \subseteq (keys \ out) \cup {k}
        BY <1>3, <1>4, <2>2 DEF Keys, Cached, NoEntry
      <3>2. IsFiniteSet(keys) /\ Cardinality(keys) \in Nat /\ Cardinality(keys) <= Capacity[p]
        BY <1>0, KeysFinite DEF Typed, TypeOK
      <3> HIDE DEF keys
      <3>3. /\ IsFiniteSet(keys \ out) /\ Cardinality(keys \ out) \in Nat
            /\ Cardinality(keys \ out) + 1 <= Capacity[p]
        <4>1. CASE out = {} /\ Cardinality(keys) < Capacity[p]
          <5>1. keys \ out = keys
            BY <4>1
          <5> QED
            BY <1>0, <3>2, <4>1, <5>1
        <4>2. ASSUME NEW l \in keys, out = {l} PROVE <3>3!:
          <5>1. keys \ out = keys \ {l}
            BY <4>2
          <5>2. IsFiniteSet(keys \ {l}) /\ Cardinality(keys \ {l}) = Cardinality(keys) - 1
            BY <3>2, FS_RemoveElement
          <5>3. Cardinality(keys \ {l}) \in Nat
            BY <5>2, FS_CardinalityType
          <5>4. Cardinality(keys \ {l}) + 1 <= Capacity[p]
            BY <1>0, <3>2, <5>2, <5>3
          <5> QED
            BY <5>1, <5>2, <5>3, <5>4
        <4> QED
          BY <1>2, <4>1, <4>2
      <3>4. IsFiniteSet((keys \ out) \cup {k}) /\ Cardinality((keys \ out) \cup {k}) <= Cardinality(keys \ out) + 1
        <4> DEFINE rest == keys \ out
        <4>1. IsFiniteSet(rest) /\ Cardinality(rest) \in Nat
          BY <3>3
        <4> HIDE DEF rest
        <4>2. IsFiniteSet(rest \cup {k}) /\ Cardinality(rest \cup {k}) <= Cardinality(rest) + 1
          BY <4>1, FS_AddElement
        <4> QED
          BY <4>2 DEF rest
      <3>5. Cardinality(Keys(q)') <= Cardinality((keys \ out) \cup {k})
        BY <3>1, <3>4, FS_Subset
      <3>6. Cardinality(Keys(q)') \in Nat /\ Cardinality((keys \ out) \cup {k}) \in Nat
        BY <3>1, <3>4, FS_Subset, FS_CardinalityType
      <3> QED
        BY <1>0, <2>2, <3>3, <3>4, <3>5, <3>6
    <2> QED
      BY <2>1, <2>2
  <1>6. Later(seen[p][k], call[c].version) \in 0 .. MaxVersion
    BY <1>0 DEF Later, Typed, TypeOK, Call
  <1>7. /\ call' = [call EXCEPT ![c] = Idle] /\ Idle \in Call /\ Idle.at = "idle"
        /\ UNCHANGED <<data, stamps, clock, crossed, faults>>
    BY IdleType DEF Insert, Ends, Idle
  <1>8. Typed'
    <2>1. seen' \in [Peer -> [Key -> 0 .. MaxVersion]]
      BY <1>0, <1>2, <1>6 DEF Typed, TypeOK
    <2> QED
      BY <1>4, <1>5, <1>7, <2>1 DEF Typed, TypeOK, At
  <1> QED
    BY <1>0, <1>2, <1>3, <1>4, <1>8

\* An entry that is not late is the data that the database has.
LEMMA InsertKeeps ==
  ASSUME Typed, CacheInv, NEW c \in Client, Insert(c)
  PROVE  Typed' /\ CacheInv'
  <1> DEFINE p0 == PeerOf[c]
             k0 == call[c].key
             f  == Fresh(c)
  <1>0. /\ Values /\ Values' /\ Typed' /\ p0 \in Peer /\ k0 \in Key /\ At(c, "insert")
    BY InsertType, ValuesHold, ValuesNext, CacheAssumption DEF Typed, TypeOK, Insert, At
  <1>1. /\ f.version = call[c].version /\ f.stamp = call[c].stamp
        /\ f.late <=> call[c].version < data[k0]
    BY DEF Fresh
  <1>2. /\ UNCHANGED <<data, stamps, clock, crossed>>
        /\ call' = [call EXCEPT ![c] = Idle]
    BY DEF Insert, Ends
  <1>3. /\ cache'[p0][k0] = f
        /\ \A p \in Peer, l \in Key : ~(p = p0 /\ l = k0) => cache'[p][l] = cache[p][l] \/ cache'[p][l] = NoEntry
    BY InsertType
  <1>4. /\ call'[c] = Idle /\ Idle.stamp = 0 /\ Idle.version = 0 /\ Idle.at = "idle"
        /\ \A d \in Client : d # c => call'[d] = call[d]
    BY <1>2 DEF Typed, TypeOK, Idle
  <1>5. /\ seen'[p0][k0] = Later(seen[p0][k0], call[c].version)
        /\ \A p \in Peer, l \in Key : ~(p = p0 /\ l = k0) => seen'[p][l] = seen[p][l]
    <2>1. seen' = [seen EXCEPT ![p0][k0] = Later(@, call[c].version)]
      BY InsertType
    <2>2. seen \in [Peer -> [Key -> 0 .. MaxVersion]]
      BY DEF Typed, TypeOK
    <2> HIDE DEF p0, k0
    <2> QED
      BY <1>0, <2>1, <2>2
  <1>6. /\ NoEntry.stamp = 0 /\ NoEntry.version = 0 /\ ~NoEntry.late
    BY DEF NoEntry
  <1>7. /\ f.stamp <= clock /\ f.version <= data[k0] /\ seen[p0][k0] <= data[k0]
        /\ ~f.late => f.version = data[k0]
        /\ f.stamp \in Nat /\ f.version \in Nat
    BY <1>0, <1>1 DEF CacheInv, Bounded, Values
  <1> HIDE DEF f, p0
  <1>8. Bounded'
    <2>1. seen'[p0][k0] <= data[k0]
      BY <1>0, <1>1, <1>5, <1>7 DEF Later
    <2>2. (\A p \in Peer, k \in Key : /\ cache[p][k].stamp <= clock
                                     /\ cache[p][k].version <= data[k]
                                     /\ seen[p][k] <= data[k])'
      <3> SUFFICES ASSUME NEW p \in Peer, NEW k \in Key
                   PROVE  cache'[p][k].stamp <= clock /\ cache'[p][k].version <= data[k] /\ seen'[p][k] <= data[k]
        BY <1>2
      <3>1. CASE p = p0 /\ k = k0
        BY <1>3, <1>7, <2>1, <3>1
      <3>2. CASE ~(p = p0 /\ k = k0)
        BY <1>0, <1>3, <1>5, <1>6, <3>2 DEF CacheInv, Bounded, Values
      <3> QED
        BY <3>1, <3>2
    <2>3. (\A d \in Client : call[d].stamp <= clock)'
      BY <1>0, <1>2, <1>4 DEF CacheInv, Bounded, Values
    <2>4. (\A d \in Client, k \in Key : call[d].key = k => call[d].version <= data[k])'
      BY <1>0, <1>2, <1>4 DEF CacheInv, Bounded, Values
    <2> QED
      BY <1>2, <2>2, <2>3, <2>4 DEF CacheInv, Bounded
  <1>9. /\ \A d \in Client, l \in Key : Stamping(d, l)' => d # c /\ Stamping(d, l)
        /\ \A d \in Client : At(d, "insert")' => d # c /\ At(d, "insert")
        /\ \A d \in Client, l \in Key : Stamped(d, l)' => d # c /\ Stamped(d, l)
        /\ Stamped(c, k0)
    BY <1>0, <1>4 DEF Stamping, Stamped, At
  <1>10. \A d \in Client, l \in Key : l = k0 /\ l \notin crossed /\ Stamping(d, l) => f.stamp <= call[d].stamp
    BY <1>0, <1>1 DEF CacheInv, InOrder
  <1>11. \A l \in Key : l = k0 /\ l \notin crossed /\ stamps[l] # 0 => f.stamp <= stamps[l]
    BY <1>0, <1>1 DEF CacheInv, NeverAhead
  <1> HIDE DEF k0
  <1>12. InOrder'
    <2> SUFFICES ASSUME NEW l \in Key, NEW d \in Client, l \notin crossed, Stamping(d, l)'
                 PROVE  /\ \A e \in Client : Stamping(e, l)' => e = d
                        /\ \A p \in Peer : cache'[p][l].stamp <= call'[d].stamp
                        /\ \A e \in Client : At(e, "insert")' /\ call'[e].key = l =>
                                              call'[e].stamp <= call'[d].stamp
      BY <1>2 DEF InOrder
    <2>1. \A p \in Peer : cache'[p][l].stamp <= call'[d].stamp
      BY <1>0, <1>3, <1>4, <1>6, <1>9, <1>10 DEF CacheInv, InOrder, Values
    <2> QED
      BY <1>4, <1>9, <2>1 DEF CacheInv, InOrder
  <1>13. NeverAhead'
    BY <1>0, <1>2, <1>3, <1>4, <1>6, <1>9, <1>11 DEF CacheInv, NeverAhead, Values
  <1>14. NoneNewer'
    <2> SUFFICES ASSUME NEW p \in Peer, NEW k \in Key, ~cache'[p][k].late
                 PROVE  /\ \A q \in Peer : cache'[q][k].stamp < cache'[p][k].stamp =>
                                              cache'[q][k].version <= cache'[p][k].version
                        /\ \A d \in Client : Stamped(d, k)' /\ call'[d].stamp < cache'[p][k].stamp =>
                                                call'[d].version <= cache'[p][k].version
      BY DEF NoneNewer
    <2>1. CASE p = p0 /\ k = k0
      <3>1. cache'[p][k].version = data[k] /\ data[k] = data'[k]
        BY <1>2, <1>3, <1>7, <2>1
      <3>2. \A d \in Client : Stamped(d, k)' => call'[d].version <= data'[k]
        BY <1>8 DEF Bounded, Stamped
      <3> QED
        BY <1>8, <3>1, <3>2 DEF Bounded
    <2>2. CASE ~(p = p0 /\ k = k0) /\ cache'[p][k] = NoEntry
      BY <1>0, <1>6, <2>2 DEF Values
    <2>3. CASE ~(p = p0 /\ k = k0) /\ cache'[p][k] = cache[p][k]
      <3>1. \A q \in Peer : cache'[q][k].stamp < cache'[p][k].stamp =>
                              cache'[q][k].version <= cache'[p][k].version
        <4> SUFFICES ASSUME NEW q \in Peer, cache'[q][k].stamp < cache'[p][k].stamp
                     PROVE  cache'[q][k].version <= cache'[p][k].version
          OBVIOUS
        <4>1. CASE q = p0 /\ k = k0
          BY <1>1, <1>3, <1>9, <2>3, <4>1 DEF CacheInv, NoneNewer
        <4>2. CASE ~(q = p0 /\ k = k0)
          BY <1>0, <1>3, <1>6, <2>3, <4>2 DEF CacheInv, NoneNewer, Values
        <4> QED
          BY <4>1, <4>2
      <3>2. \A d \in Client : Stamped(d, k)' /\ call'[d].stamp < cache'[p][k].stamp =>
                                call'[d].version <= cache'[p][k].version
        BY <1>4, <1>9, <2>3 DEF CacheInv, NoneNewer
      <3> QED
        BY <3>1, <3>2
    <2> QED
      BY <1>3, <2>1, <2>2, <2>3
  <1>15. NeverBack'
    <2> SUFFICES ASSUME NEW p \in Peer, NEW k \in Key, cache'[p][k].stamp # 0,
                        cache'[p][k].version < seen'[p][k]
                 PROVE  cache'[p][k].late
      BY DEF NeverBack, Cached
    <2>1. CASE p = p0 /\ k = k0
      <3>1. seen'[p][k] <= data[k]
        BY <1>2, <1>8 DEF Bounded
      <3>2. f.version < data[k0]
        BY <1>0, <1>3, <1>7, <2>1, <3>1 DEF Values
      <3> QED
        BY <1>0, <1>1, <1>3, <1>7, <2>1, <3>2 DEF Values
    <2>2. CASE ~(p = p0 /\ k = k0)
      BY <1>3, <1>5, <1>6, <2>2 DEF CacheInv, NeverBack, Cached
    <2> QED
      BY <2>1, <2>2
  <1> QED
    BY <1>0, <1>8, <1>12, <1>13, <1>14, <1>15 DEF CacheInv
-----------------------------------------------------------------------------
(* The theorems                                                            *)

LEMMA InitCacheInv == ASSUME Init PROVE CacheInv
  <1>1. \A c \in Client : call[c].at = "idle" /\ call[c].stamp = 0 /\ call[c].key = NoKey
    BY DEF Init, Idle
  <1>2. \A p \in Peer, k \in Key : cache[p][k].stamp = 0 /\ cache[p][k].version = 0 /\ seen[p][k] = 0
    BY DEF Init, NoEntry
  <1>3. \A k \in Key : stamps[k] = 0 /\ data[k] = 0
    BY DEF Init
  <1>4. clock = 1 /\ NoKey \notin Key
    BY CacheAssumption DEF Init
  <1>5. Bounded
    BY <1>1, <1>2, <1>3, <1>4 DEF Bounded
  <1>6. InOrder /\ NeverAhead /\ NoneNewer /\ NeverBack
    BY <1>1, <1>2, <1>3 DEF InOrder, NeverAhead, NoneNewer, NeverBack, Stamping, Stamped, Cached
  <1> QED
    BY <1>5, <1>6 DEF CacheInv

\* Every step keeps the types and the invariant.
LEMMA NextKeeps ==
  ASSUME Typed, CacheInv, [Next]_vars
  PROVE  Typed' /\ CacheInv'
  <1>0. Bounded /\ TypeOK
    BY DEF CacheInv, Typed
  <1>1. ASSUME NEW c \in Client, Page(c) PROVE Typed' /\ CacheInv'
    <2>1. CASE \E k \in Key : Store(c, k)
      BY <2>1, StoreKeeps
    <2>2. CASE Stamp(c)
      BY <2>2, StampKeeps
    <2>3. CASE Record(c)
      BY <2>3, RecordKeeps
    <2>4. CASE Insert(c)
      BY <2>4, InsertKeeps
    <2>5. CASE (\E k \in Key : Get(c, k)) \/ Ask(c) \/ Hit(c) \/ Outdated(c) \/ LastFails(c) \/ Load(c)
      <3>1. Typed' /\ Takes
        BY <1>0, <2>5, GetTakes
      <3> QED
        BY <1>0, <3>1, TakesKeeps DEF Typed
    <2>6. CASE \/ \E k \in Key : ExpireAll(c, k)
               \/ Forget(c) \/ InsertFails(c) \/ Expire(c) \/ Remove(c) \/ RemoveAll(c) \/ CallFails(c)
      <3>1. Typed' /\ Takes
        BY <1>0, <2>6, ExpireTakes
      <3> QED
        BY <1>0, <3>1, TakesKeeps DEF Typed
    <2> QED
      BY <1>1, <2>1, <2>2, <2>3, <2>4, <2>5, <2>6 DEF Page
  <1>2. CASE CoordinatorRestarts \/ Tick \/ \E p \in Peer : PeerRestarts(p)
    <2>1. Typed' /\ Takes
      BY <1>0, <1>2, RestartTakes
    <2> QED
      BY <1>0, <2>1, TakesKeeps DEF Typed
  <1>3. CASE UNCHANGED vars
    <2> USE <1>3 DEF vars
    <2>1. Typed'
      BY DEF Typed, TypeOK, At, Keys, Cached
    <2>2. Bounded' /\ InOrder' /\ NeverAhead' /\ NoneNewer' /\ NeverBack'
      BY DEF CacheInv, Bounded, InOrder, NeverAhead, NoneNewer, NeverBack, Stamping, Stamped, At, Cached
    <2> QED
      BY <2>1, <2>2 DEF CacheInv
  <1> QED
    BY <1>1, <1>2, <1>3 DEF Next

LEMMA CacheInvHolds == Spec => [](Typed /\ CacheInv)
  <1>1. Init => Typed /\ CacheInv
    BY TypeInit, InitCacheInv
  <1>2. (Typed /\ CacheInv) /\ [Next]_vars => (Typed /\ CacheInv)'
    BY NextKeeps
  <1> QED
    BY <1>1, <1>2, PTL DEF Spec

\* Every value has its type, and no cache has more entries than its capacity: insert
\* of LRUCachePolicy lets one go first when its cache is full.
THEOREM TypeCorrect == Spec => []TypeOK
  <1>1. Typed => TypeOK
    BY DEF Typed
  <1> QED
    BY <1>1, CacheInvHolds, PTL

\* What a peer has, or is about to insert, is never ahead of the coordinator that knows
\* the key, whoever gets, puts, expires, fails or starts again: so one put of
\* DistributedCachePeer makes the older entries of all the other peers outdated.
THEOREM AheadOfNobody == Spec => []NeverAhead
  <1>1. CacheInv => NeverAhead
    BY DEF CacheInv
  <1> QED
    BY <1>1, CacheInvHolds, PTL

\* A peer goes on with older data than another has for the four reasons only.
THEOREM OnlyFourReasons == Spec => []StaleHasReason
  <1>1. Typed /\ CacheInv => StaleHasReason
    <2> SUFFICES ASSUME Typed, CacheInv, NEW p \in Peer, NEW q \in Peer, NEW k \in Key,
                        cache[p][k].stamp >= stamps[k], cache[p][k].version < cache[q][k].version,
                        stamps[k] # 0, ~cache[p][k].late, k \notin crossed
                 PROVE  cache[p][k].stamp = cache[q][k].stamp
      BY DEF StaleHasReason, Valid
    <2>1. Values
      BY ValuesHold DEF Typed
    <2>2. cache[q][k].stamp <= stamps[k]
      BY DEF CacheInv, NeverAhead
    <2>3. ~(cache[q][k].stamp < cache[p][k].stamp)
      BY <2>1 DEF CacheInv, NoneNewer, Values
    <2> QED
      BY <2>1, <2>2, <2>3 DEF Values
  <1> QED
    BY <1>1, CacheInvHolds, PTL

\* What a peer once had, or its pages have changed and expired, does not become older
\* in that peer, unless a slow page puts what it had read before the change.
THEOREM NoWayBack == Spec => []NeverBack
  <1>1. CacheInv => NeverBack
    BY DEF CacheInv
  <1> QED
    BY <1>1, CacheInvHolds, PTL

-----------------------------------------------------------------------------
(* What a get holds between its reads.                                     *)

Asking(c) == call[c].at \in {"ask", "compare"}

\* The object of a get keeps what NeverBack and NoneNewer said of it in the cache, though
\* it may be there no more; and the newer objects that were there when the coordinator
\* answered have later stamps, and the coordinator knew them.
HeldBounded == \A c \in Client : Asking(c) => call[c].object.stamp <= clock

Begun == \A c \in Client : Asking(c) /\ ~call[c].object.late =>
                             call[c].object.version >= call[c].own

NoneHeld ==
  \A c \in Client : Asking(c) /\ ~call[c].object.late =>
    /\ \A q \in Peer : cache[q][call[c].key].stamp < call[c].object.stamp =>
                         cache[q][call[c].key].version <= call[c].object.version
    /\ \A d \in Client : Stamped(d, call[c].key) /\ call[d].stamp < call[c].object.stamp =>
                           call[d].version <= call[c].object.version

Answered ==
  \A c \in Client : At(c, "compare") /\ ~call[c].object.late =>
    \A e \in call[c].newer : \/ call[c].stamp = 0
                             \/ e.stamp = call[c].object.stamp
                             \/ call[c].key \in crossed
                             \/ call[c].object.stamp < call[c].stamp

GetInv == HeldBounded /\ Begun /\ NoneHeld /\ Answered

\* How a step may feed the caches: what enters one was stamped before, and what is
\* stamped has the time of the clock; a get in progress goes on, asks or begins.
Sourced(p, k) ==
  \/ cache'[p][k] = cache[p][k]
  \/ cache'[p][k] = NoEntry
  \/ \E d \in Client : /\ Stamped(d, k)
                       /\ cache'[p][k].stamp = call[d].stamp
                       /\ cache'[p][k].version = call[d].version

Feeds ==
  /\ clock <= clock'
  /\ crossed \subseteq crossed'
  /\ \A p \in Peer, k \in Key : Sourced(p, k)
  /\ \A d \in Client, k \in Key : Stamped(d, k)' =>
       \/ Stamped(d, k) /\ call'[d].stamp = call[d].stamp /\ call'[d].version = call[d].version
       \/ call'[d].stamp = clock

LEMMA TakesFeeds == ASSUME TypeOK, TypeOK', Takes PROVE Feeds
  <1>1. \A c \in Client, k \in Key : Stamped(c, k)' =>
          Stamped(c, k) /\ call'[c].stamp = call[c].stamp /\ call'[c].version = call[c].version
    BY DEF Takes, Stamped, At, Quiet, TypeOK, Call
  <1> QED
    BY <1>1 DEF Takes, Feeds, Sourced

\* A page that stores, stamps or records something, or inserts it.
LEMMA PageFeeds ==
  ASSUME Typed, NEW c \in Client,
         (\E k \in Key : Store(c, k)) \/ Stamp(c) \/ Record(c) \/ Insert(c)
  PROVE  Feeds
  <1>0. /\ call \in [Client -> Call] /\ clock \in Nat /\ PeerOf[c] \in Peer
    BY CacheAssumption DEF Typed, TypeOK
  <1>1. ASSUME NEW k \in Key, Store(c, k) PROVE Feeds
    <2>1. call'[c].at = "expire" /\ \A d \in Client : d # c => call'[d] = call[d]
      BY <1>0, <1>1 DEF Store, Idle
    <2>2. UNCHANGED <<clock, cache, crossed>>
      BY <1>1 DEF Store
    <2> QED
      BY <1>0, <2>1, <2>2 DEF Feeds, Sourced, Stamped
  <1>2. CASE Stamp(c)
    <2>1. call'[c].stamp = clock /\ \A d \in Client : d # c => call'[d] = call[d]
      BY <1>0, <1>2 DEF Stamp, Call
    <2>2. UNCHANGED <<clock, cache>> /\ crossed \subseteq crossed'
      BY <1>2 DEF Stamp
    <2> QED
      BY <1>0, <2>1, <2>2 DEF Feeds, Sourced, Stamped
  <1>3. CASE Record(c)
    <2>1. /\ At(c, "record") /\ call'[c].stamp = call[c].stamp /\ call'[c].version = call[c].version
          /\ call'[c].key = call[c].key
          /\ \A d \in Client : d # c => call'[d] = call[d]
      BY <1>0, <1>3 DEF Record, Goto, Call
    <2>2. UNCHANGED <<clock, cache, crossed>>
      BY <1>3 DEF Record
    <2> QED
      BY <1>0, <2>1, <2>2 DEF Feeds, Sourced, Stamped, At
  <1>4. CASE Insert(c)
    <2>1. /\ cache'[PeerOf[c]][call[c].key] = Fresh(c)
          /\ \A p \in Peer, l \in Key :
               ~(p = PeerOf[c] /\ l = call[c].key) => cache'[p][l] = cache[p][l] \/ cache'[p][l] = NoEntry
      BY <1>4, InsertType
    <2>2. /\ Stamped(c, call[c].key)
          /\ call'[c].at = "idle" /\ \A d \in Client : d # c => call'[d] = call[d]
          /\ UNCHANGED <<clock, crossed>>
      BY <1>0, <1>4 DEF Insert, Ends, Idle, Stamped, At
    <2>3. \A p \in Peer, k \in Key : Sourced(p, k)
      BY <2>1, <2>2 DEF Sourced, Fresh
    <2> QED
      BY <1>0, <2>2, <2>3 DEF Feeds, Stamped
  <1> QED
    BY <1>1, <1>2, <1>3, <1>4

\* How a get comes to where it stands.
Goes(c) == \/ call'[c] = call[c]
           \/ Ask(c)
           \/ \E k \in Key : Get(c, k) /\ Cached(PeerOf[c], k)

LEMMA OwnGet ==
  ASSUME Typed, NEW c \in Client, NEW d \in Client, Page(d), Asking(c)'
  PROVE  Goes(c)
  <1>0. call \in [Client -> Call]
    BY DEF Typed, TypeOK
  <1>1. ASSUME NEW k \in Key, Get(d, k) \/ Store(d, k) \/ ExpireAll(d, k) PROVE Goes(c)
    <2>1. CASE d # c
      BY <1>0, <1>1, <2>1 DEF Goes, Get, Store, ExpireAll
    <2>2. CASE d = c /\ Get(d, k)
      BY <1>0, <2>2 DEF Goes, Get, Asking, Idle
    <2>3. CASE d = c /\ (Store(d, k) \/ ExpireAll(d, k))
      <3>1. call'[c].at = "expire"
        BY <1>0, <2>3 DEF Store, ExpireAll, Idle
      <3> QED
        BY <3>1 DEF Asking
    <2> QED
      BY <1>1, <2>1, <2>2, <2>3
  <1>2. CASE Ask(d)
    BY <1>0, <1>2 DEF Goes, Ask
  <1>3. CASE Hit(d) \/ LastFails(d) \/ InsertFails(d) \/ CallFails(d)
    BY <1>0, <1>3 DEF Hit, LastFails, InsertFails, CallFails, Ends, Idle, Goes, Asking
  <1>4. CASE Outdated(d)
    BY <1>0, <1>4 DEF Outdated, Idle, Goes, Asking
  <1>5. CASE Load(d) \/ Stamp(d)
    BY <1>0, <1>5 DEF Load, Stamp, Call, Goes, Asking
  <1>6. CASE Forget(d) \/ Record(d) \/ Expire(d)
    BY <1>0, <1>6 DEF Forget, Record, Expire, Goto, Call, Goes, Asking
  <1>7. CASE Insert(d)
    BY <1>0, <1>7 DEF Insert, Ends, Idle, Goes, Asking
  <1>8. CASE Remove(d) \/ RemoveAll(d)
    BY <1>0, <1>8 DEF Remove, RemoveAll, Ends, Idle, Goes, Asking
  <1> QED
    BY <1>1, <1>2, <1>3, <1>4, <1>5, <1>6, <1>7, <1>8 DEF Page

LEMMA NextFeeds ==
  ASSUME Typed, Bounded, [Next]_vars
  PROVE  Feeds /\ \A c \in Client : Asking(c)' => Goes(c)
  <1>0. TypeOK /\ call \in [Client -> Call]
    BY DEF Typed, TypeOK
  <1>1. ASSUME NEW d \in Client, Page(d) PROVE Feeds /\ \A c \in Client : Asking(c)' => Goes(c)
    <2>1. ASSUME (\E k \in Key : Store(d, k)) \/ Stamp(d) \/ Record(d) \/ Insert(d)
          PROVE  Feeds
      BY <2>1, PageFeeds
    <2>2. ASSUME (\E k \in Key : Get(d, k)) \/ Ask(d) \/ Hit(d) \/ Outdated(d) \/ LastFails(d) \/ Load(d)
          PROVE  Feeds
      <3>1. Typed' /\ Takes
        BY <2>2, GetTakes
      <3> QED
        BY <1>0, <3>1, TakesFeeds DEF Typed
    <2>3. ASSUME \/ \E k \in Key : ExpireAll(d, k)
                 \/ Forget(d) \/ InsertFails(d) \/ Expire(d) \/ Remove(d) \/ RemoveAll(d) \/ CallFails(d)
          PROVE  Feeds
      <3>1. Typed' /\ Takes
        BY <2>3, ExpireTakes
      <3> QED
        BY <1>0, <3>1, TakesFeeds DEF Typed
    <2>4. Feeds
      BY <1>1, <2>1, <2>2, <2>3 DEF Page
    <2> QED
      BY <1>1, <2>4, OwnGet
  <1>2. CASE CoordinatorRestarts \/ Tick \/ \E p \in Peer : PeerRestarts(p)
    <2>1. Typed' /\ Takes
      BY <1>2, RestartTakes
    <2>2. \A c \in Client : Asking(c)' => call'[c] = call[c]
      BY <1>0, <1>2 DEF CoordinatorRestarts, Tick, PeerRestarts, Idle, Asking
    <2> QED
      BY <1>0, <2>1, <2>2, TakesFeeds DEF Typed, Goes
  <1>3. CASE UNCHANGED vars
    BY <1>3 DEF vars, Feeds, Sourced, Stamped, Goes, Typed, TypeOK
  <1> QED
    BY <1>1, <1>2, <1>3 DEF Next

LEMMA GetInvStep ==
  ASSUME Typed, CacheInv, GetInv, Typed', [Next]_vars
  PROVE  GetInv'
  <1>0. /\ Values /\ Values' /\ Feeds /\ \A c \in Client : Asking(c)' => Goes(c)
        /\ call \in [Client -> Call] /\ PeerOf \in [Client -> Peer]
        /\ NoEntry.stamp = 0 /\ NoEntry.version = 0
    BY ValuesHold, ValuesNext, NextFeeds, CacheAssumption DEF CacheInv, Typed, TypeOK, NoEntry
  <1> DEFINE Held(c) == /\ call'[c].object.stamp <= clock
                        /\ ~call'[c].object.late =>
                             /\ call'[c].object.version >= call'[c].own
                             /\ \A q \in Peer : cache[q][call'[c].key].stamp < call'[c].object.stamp =>
                                  cache[q][call'[c].key].version <= call'[c].object.version
                             /\ \A d \in Client :
                                  Stamped(d, call'[c].key) /\ call[d].stamp < call'[c].object.stamp =>
                                    call[d].version <= call'[c].object.version
  <1>1. ASSUME NEW c \in Client, Asking(c)'
        PROVE  /\ call'[c].key \in Key /\ call'[c].object.stamp \in Nat
               /\ call'[c].object.version \in Nat /\ call'[c] \in Call
    BY <1>1, CacheAssumption DEF Typed, TypeOK, Asking, At, Call, Entry
  <1>2. ASSUME NEW c \in Client, Asking(c)' PROVE Held(c)
    <2>1. CASE call'[c] = call[c]
      <3>1. Asking(c)
        BY <1>2, <2>1 DEF Asking
      <3> QED
        BY <2>1, <3>1 DEF GetInv, HeldBounded, Begun, NoneHeld
    <2>2. CASE Ask(c)
      <3>1. /\ Asking(c) /\ call'[c].object = call[c].object /\ call'[c].key = call[c].key
            /\ call'[c].own = call[c].own
        BY <1>0, <2>2 DEF Ask, At, Asking, Call
      <3> QED
        BY <3>1 DEF GetInv, HeldBounded, Begun, NoneHeld
    <2>3. ASSUME NEW k \in Key, Get(c, k), Cached(PeerOf[c], k) PROVE Held(c)
      <3>1. /\ call'[c].key = k /\ call'[c].object = cache[PeerOf[c]][k]
            /\ call'[c].own = seen[PeerOf[c]][k] /\ PeerOf[c] \in Peer
        BY <1>0, <2>3 DEF Get, Idle
      <3>2. ~cache[PeerOf[c]][k].late => cache[PeerOf[c]][k].version >= seen[PeerOf[c]][k]
        BY <1>0, <2>3, <3>1 DEF CacheInv, NeverBack, Values
      <3> QED
        BY <3>1, <3>2 DEF CacheInv, Bounded, NoneNewer
    <2> QED
      BY <1>0, <1>2, <2>1, <2>2, <2>3 DEF Goes
  <1>3. HeldBounded' /\ Begun'
    BY <1>0, <1>1, <1>2 DEF HeldBounded, Begun, Feeds, Values
  <1>4. NoneHeld'
    <2>1. ASSUME NEW c \in Client, Asking(c)', ~call'[c].object.late,
                 NEW k \in Key, k = call'[c].key
          PROVE  /\ \A q \in Peer : cache'[q][k].stamp < call'[c].object.stamp =>
                                        cache'[q][k].version <= call'[c].object.version
                 /\ \A d \in Client : Stamped(d, k)' /\ call'[d].stamp < call'[c].object.stamp =>
                                          call'[d].version <= call'[c].object.version
      <3> DEFINE o == call'[c].object
      <3>1. /\ o.stamp \in Nat /\ o.version \in Nat /\ o.stamp <= clock
            /\ \A q \in Peer : cache[q][k].stamp < o.stamp => cache[q][k].version <= o.version
            /\ \A d \in Client : Stamped(d, k) /\ call[d].stamp < o.stamp =>
                                     call[d].version <= o.version
        BY <1>1, <1>2, <2>1
      <3> HIDE DEF o
      <3>2. \A q \in Peer : cache'[q][k].stamp < o.stamp => cache'[q][k].version <= o.version
        BY <1>0, <3>1 DEF Feeds, Sourced, Values
      <3>3. \A d \in Client : Stamped(d, k)' /\ call'[d].stamp < o.stamp =>
                                call'[d].version <= o.version
        BY <1>0, <3>1 DEF Feeds, Values
      <3> QED
        BY <3>2, <3>3 DEF o
    <2>2. \A c \in Client : Asking(c)' => call'[c].key \in Key
      BY <1>1
    <2> QED
      BY <2>1, <2>2 DEF NoneHeld, Asking, Stamped
  <1>5. Answered'
    <2> SUFFICES ASSUME NEW c \in Client, call'[c].at = "compare", ~call'[c].object.late,
                        NEW e \in call'[c].newer
                 PROVE  \/ call'[c].stamp = 0
                        \/ e.stamp = call'[c].object.stamp
                        \/ call'[c].key \in crossed'
                        \/ call'[c].object.stamp < call'[c].stamp
      BY DEF Answered, At
    <2>1. CASE call'[c] = call[c]
      BY <1>0, <2>1 DEF GetInv, Answered, At, Feeds
    <2>2. CASE Ask(c)
      <3> DEFINE k == call[c].key
      <3>1. /\ call'[c].object = call[c].object /\ call'[c].key = k /\ call'[c].stamp = stamps[k]
            /\ call'[c].newer = Newer(c) /\ Asking(c)
        BY <1>0, <2>2 DEF Ask, At, Asking, Call
      <3>2. PICK q \in Peer : e = cache[q][k] /\ call[c].object.version < e.version
        BY <3>1 DEF Newer
      <3>3. k \in Key /\ call[c].object.stamp \in Nat /\ call[c].object.version \in Nat
        BY <1>1, <3>1 DEF Asking
      <3>4. ~(e.stamp < call[c].object.stamp)
        BY <1>0, <3>1, <3>2, <3>3 DEF GetInv, NoneHeld, Values
      <3>5. stamps[k] # 0 /\ k \notin crossed => e.stamp <= stamps[k]
        BY <3>2, <3>3 DEF CacheInv, NeverAhead
      <3>6. k \notin crossed' => k \notin crossed
        BY <1>0 DEF Feeds
      <3>7. stamps[k] \in Nat /\ e.stamp \in Nat
        BY <1>0, <3>2, <3>3 DEF Values
      <3> HIDE DEF k
      <3> QED
        BY <3>1, <3>3, <3>4, <3>5, <3>6, <3>7
    <2>3. ASSUME NEW k \in Key, Get(c, k), Cached(PeerOf[c], k) PROVE FALSE
      BY <1>0, <2>3 DEF Get, Idle
    <2>4. Goes(c)
      BY <1>0 DEF Asking
    <2> QED
      BY <2>1, <2>2, <2>3, <2>4 DEF Goes
  <1> QED
    BY <1>3, <1>4, <1>5 DEF GetInv

\* What get of DistributedCachePeer returns is never older than what its server had when
\* the get began, unless a slow page had put it, and is older than what another server
\* had only for the reasons named, whatever other pages do between the three reads.
THEOREM HitsHaveReason == Spec => HitHasReason
  <1>1. Init => GetInv
    BY DEF Init, Idle, GetInv, HeldBounded, Begun, NoneHeld, Answered, Asking, At
  <1>2. Typed /\ CacheInv /\ GetInv /\ Typed' /\ [Next]_vars => GetInv'
    BY GetInvStep
  <1> DEFINE Reasons(c) == /\ call[c].object.version >= call[c].own
                           /\ \A e \in call[c].newer :
                                \/ call[c].stamp = 0
                                \/ e.stamp = call[c].object.stamp
                                \/ call[c].key \in crossed
                                \/ call[c].object.stamp < Local(c).stamp
  <1>3. ASSUME Typed, GetInv, NEW c \in Client, Hit(c), ~call[c].object.late PROVE Reasons(c)
    <2>1. /\ At(c, "compare") /\ Asking(c) /\ Local(c).stamp >= call[c].stamp
          /\ call[c].key \in Key /\ PeerOf[c] \in Peer
      BY <1>3, CacheAssumption DEF Hit, At, Asking, Typed
    <2>2. /\ Local(c).stamp \in Nat /\ call[c].stamp \in Nat /\ call[c].object.stamp \in Nat
      BY <1>3, <2>1, ValuesHold, CacheAssumption DEF Values, Local, Typed, TypeOK, Call, Entry
    <2> QED
      BY <1>3, <2>1, <2>2 DEF GetInv, Begun, Answered
  <1>4. Typed /\ GetInv => [\A c \in Client : Hit(c) /\ ~call[c].object.late => Reasons(c)]_vars
    BY <1>3
  <1> QED
    BY <1>1, <1>2, <1>4, CacheInvHolds, PTL DEF Spec, HitHasReason
=============================================================================
