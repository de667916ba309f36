-------------------------- MODULE DistributedCache --------------------------
(***************************************************************************)
(* DistributedCachePeer in several web servers, with the coordinator of    *)
(* webapp/cache/server.jsp, as the pages use them: a page that misses an   *)
(* object loads it from the database and puts it, a page that changes the  *)
(* data stores it and expires the object, and the administrator expires    *)
(* all.  Each server has its objects and runs many pages at a time; the    *)
(* coordinator keeps one time stamp for each key.                          *)
(***************************************************************************)
EXTENDS Naturals, FiniteSets

CONSTANTS
  Peer,        \* web servers, each with its DistributedCachePeer
  Client,      \* the threads that serve pages
  PeerOf,      \* the server each thread belongs to
  Key,         \* tokens
  Uses,        \* the tokens that the pages of each thread get
  Changing,    \* the tokens whose data pages change
  NoKey,       \* none of them
  Capacity,    \* m_maxCapacity of the LRUCachePolicy of each peer
  MaxCalls,    \* bound on the pages that use the cache at a time
  MaxTime,     \* bound on the clock of the coordinator
  MaxVersion,  \* bound on the changes to the data of a key
  MaxFaults    \* bound on failing calls of the coordinator and on restarts

ASSUME CacheAssumption ==
  /\ PeerOf \in [Client -> Peer]
  /\ NoKey \notin Key
  /\ Uses \in [Client -> SUBSET Key]
  /\ Changing \subseteq Key
  /\ IsFiniteSet(Key)
  /\ IsFiniteSet(Client)
  /\ Capacity \in [Peer -> Nat \ {0}]
  /\ MaxCalls \in Nat
  /\ MaxTime \in Nat \ {0}
  /\ MaxVersion \in Nat
  /\ MaxFaults \in Nat

VARIABLES
  data,     \* in the database: how often the data of each key was changed
  stamps,   \* the coordinator's TreeMap; 0 if it has no stamp of the key
  clock,    \* System.currentTimeMillis() of the coordinator
  cache,    \* m_map of each peer: what it has of each key
  call,     \* where each thread stands
  seen,     \* history: the newest data that a peer had, or finished to expire
  crossed,  \* history: keys that two threads were stamping at the same time
  faults    \* failures so far

vars == <<data, stamps, clock, cache, call, seen, crossed, faults>>

\* An object is what its page had loaded: a version of the data.  late (history) says
\* that the data had changed again when the object entered the cache.
Entry   == [version : 0 .. MaxVersion, stamp : 0 .. MaxTime, late : BOOLEAN]
NoEntry == [version |-> 0, stamp |-> 0, late |-> FALSE]

Cached(p, k) == cache[p][k].stamp # 0
Keys(p)      == {k \in Key : Cached(p, k)}

\* object is what get has found, version what the page has loaded or stored, and
\* stamp what the coordinator answered; last is TRUE for the last key of expireAll.  Two
\* fields are history: own is what seen was of the server when the get began, and newer
\* are the newer objects that servers had when the coordinator answered.
Call == [at : {"idle", "ask", "compare", "load", "stamp", "forget", "record",
               "insert", "expire", "remove"},
         key : Key \cup {NoKey}, object : Entry, version : 0 .. MaxVersion,
         stamp : 0 .. MaxTime, op : {"get", "store", "all"}, last : BOOLEAN,
         own : 0 .. MaxVersion, newer : SUBSET Entry]

Idle == [at |-> "idle", key |-> NoKey, object |-> NoEntry, version |-> 0,
         stamp |-> 0, op |-> "get", last |-> FALSE, own |-> 0, newer |-> {}]

TypeOK ==
  /\ data    \in [Key -> 0 .. MaxVersion]
  /\ stamps  \in [Key -> 0 .. MaxTime]
  /\ clock   \in 1 .. MaxTime
  /\ cache   \in [Peer -> [Key -> Entry]]
  /\ call    \in [Client -> Call]
  /\ seen    \in [Peer -> [Key -> 0 .. MaxVersion]]
  /\ crossed \in SUBSET Key
  /\ faults  \in 0 .. MaxFaults
  /\ \A p \in Peer : Cardinality(Keys(p)) <= Capacity[p]

Init ==
  /\ data = [k \in Key |-> 0]
  /\ stamps = [k \in Key |-> 0]
  /\ clock = 1
  /\ cache = [p \in Peer |-> [k \in Key |-> NoEntry]]
  /\ call = [c \in Client |-> Idle]
  /\ seen = [p \in Peer |-> [k \in Key |-> 0]]
  /\ crossed = {}
  /\ faults = 0

Later(v, w) == IF v < w THEN w ELSE v

At(c, place)   == call[c].at = place
MayStart(c)    == At(c, "idle") /\ Cardinality({d \in Client : ~At(d, "idle")}) < MaxCalls
Goto(c, place) == call' = [call EXCEPT ![c].at = place]
Ends(c)        == call' = [call EXCEPT ![c] = Idle]

\* The entry of a key in the peer of a thread.
Local(c) == cache[PeerOf[c]][call[c].key]

Forgets(p, k) == cache' = [cache EXCEPT ![p][k] = NoEntry]
-----------------------------------------------------------------------------
(* get                                                                     *)

\* The local object comes first.  Without one the page goes on to load its data.
Get(c, k) ==
  LET p == PeerOf[c] IN
  /\ MayStart(c)
  /\ k \in Uses[c]
  /\ call' = [call EXCEPT ![c] =
                IF Cached(p, k)
                  THEN [Idle EXCEPT !.at = "ask", !.key = k, !.object = cache[p][k],
                                    !.own = seen[p][k]]
                  ELSE [Idle EXCEPT !.at = "load", !.key = k]]
  /\ UNCHANGED <<data, stamps, clock, cache, seen, crossed, faults>>

Newer(c) == {e \in {cache[p][call[c].key] : p \in Peer} : call[c].object.version < e.version}

\* lastModified
Ask(c) ==
  /\ At(c, "ask")
  /\ call' = [call EXCEPT ![c].at = "compare", ![c].stamp = stamps[call[c].key],
                          ![c].newer = Newer(c)]
  /\ UNCHANGED <<data, stamps, clock, cache, seen, crossed, faults>>

\* Mutant: any local entry is good.
HitAlways(c) ==
  /\ At(c, "compare")
  /\ Local(c).stamp # 0
  /\ Ends(c)
  /\ UNCHANGED <<data, stamps, clock, cache, seen, crossed, faults>>

\* The stamp of the local entry is read now; the object is the one found before.
Hit(c) ==
  /\ At(c, "compare")
  /\ Local(c).stamp # 0
  /\ Local(c).stamp >= call[c].stamp
  /\ Ends(c)
  /\ UNCHANGED <<data, stamps, clock, cache, seen, crossed, faults>>

Outdated(c) ==
  /\ At(c, "compare")
  /\ Local(c).stamp # 0
  /\ Local(c).stamp < call[c].stamp
  /\ Forgets(PeerOf[c], call[c].key)
  /\ call' = [call EXCEPT ![c] = [Idle EXCEPT !.at = "load", !.key = call[c].key]]
  /\ UNCHANGED <<data, stamps, clock, seen, crossed, faults>>

\* Another page has removed the entry: last() throws a NullPointerException.
LastFails(c) ==
  /\ At(c, "compare")
  /\ Local(c).stamp = 0
  /\ Ends(c)
  /\ UNCHANGED <<data, stamps, clock, cache, seen, crossed, faults>>
-----------------------------------------------------------------------------
(* put                                                                     *)

\* The page reads the database.
Load(c) ==
  /\ At(c, "load")
  /\ call' = [call EXCEPT ![c].at = "stamp", ![c].version = data[call[c].key]]
  /\ UNCHANGED <<data, stamps, clock, cache, seen, crossed, faults>>

\* The coordinator reads its clock, removes its stamp and puts the new one, while
\* other threads of its server do the same.
Stamping(d, k) == call[d].at \in {"forget", "record"} /\ call[d].key = k

Stamp(c) ==
  /\ At(c, "stamp")
  /\ call' = [call EXCEPT ![c].at = "forget", ![c].stamp = clock]
  /\ crossed' = crossed \cup {k \in {call[c].key} : \E d \in Client : Stamping(d, k)}
  /\ UNCHANGED <<data, stamps, clock, cache, seen, faults>>

Forget(c) ==
  /\ At(c, "forget")
  /\ stamps' = [stamps EXCEPT ![call[c].key] = 0]
  /\ Goto(c, "record")
  /\ UNCHANGED <<data, clock, cache, seen, crossed, faults>>

\* Mutant: the stamp is only answered, not kept.
RecordNothing(c) ==
  /\ At(c, "record")
  /\ stamps' = [stamps EXCEPT ![call[c].key] = 1]
  /\ Goto(c, "insert")
  /\ UNCHANGED <<data, clock, cache, seen, crossed, faults>>

Record(c) ==
  /\ At(c, "record")
  /\ stamps' = [stamps EXCEPT ![call[c].key] = call[c].stamp]
  /\ Goto(c, "insert")
  /\ UNCHANGED <<data, clock, cache, seen, crossed, faults>>

\* What the page puts.
Fresh(c) == [version |-> call[c].version, stamp |-> call[c].stamp,
             late |-> call[c].version < data[call[c].key]]

Inserts(c, out) ==
  LET p == PeerOf[c]
      k == call[c].key
  IN /\ cache' = [cache EXCEPT ![p] = [l \in Key |-> IF l = k THEN Fresh(c)
                                                     ELSE IF l \in out THEN NoEntry
                                                     ELSE cache[p][l]]]
     /\ seen' = [seen EXCEPT ![p][k] = Later(@, call[c].version)]

\* Mutant: the list is never full.
InsertMore(c) ==
  /\ At(c, "insert")
  /\ Local(c).stamp = 0
  /\ Inserts(c, {})
  /\ Ends(c)
  /\ UNCHANGED <<data, stamps, clock, crossed, faults>>

\* A full cache lets one entry go: which one is the matter of LRUCache.
Insert(c) ==
  /\ At(c, "insert")
  /\ Local(c).stamp = 0
  /\ IF Cardinality(Keys(PeerOf[c])) < Capacity[PeerOf[c]]
       THEN Inserts(c, {})
       ELSE \E k \in Keys(PeerOf[c]) : Inserts(c, {k})
  /\ Ends(c)
  /\ UNCHANGED <<data, stamps, clock, crossed, faults>>

\* Another page was first: IllegalStateException, and the stamp is raised already.
InsertFails(c) ==
  /\ At(c, "insert")
  /\ Local(c).stamp # 0
  /\ Ends(c)
  /\ UNCHANGED <<data, stamps, clock, cache, seen, crossed, faults>>
-----------------------------------------------------------------------------
(* expire and expireAll                                                    *)

\* A page changes the data and commits; then it expires the object.
Store(c, k) ==
  /\ MayStart(c)
  /\ k \in Changing
  /\ data[k] < MaxVersion
  /\ data' = [data EXCEPT ![k] = @ + 1]
  /\ call' = [call EXCEPT ![c] = [Idle EXCEPT !.at = "expire", !.key = k, !.op = "store",
                                              !.version = data[k] + 1]]
  /\ UNCHANGED <<stamps, clock, cache, seen, crossed, faults>>

\* expireAll iterates on the keys of a HashMap and calls expire on the first.
ExpireAll(c, k) ==
  LET p == PeerOf[c] IN
  /\ MayStart(c)
  /\ k \in Keys(p)
  /\ call' = [call EXCEPT ![c] = [Idle EXCEPT !.at = "expire", !.key = k, !.op = "all",
                                              !.last = Keys(p) = {k}]]
  /\ UNCHANGED <<data, stamps, clock, cache, seen, crossed, faults>>

\* The coordinator removes its stamp ...
Expire(c) ==
  /\ At(c, "expire")
  /\ stamps' = [stamps EXCEPT ![call[c].key] = 0]
  /\ Goto(c, "remove")
  /\ UNCHANGED <<data, clock, cache, seen, crossed, faults>>

\* Mutant: the peer keeps its own object.
RemoveNothing(c) ==
  /\ At(c, "remove")
  /\ call[c].op = "store"
  /\ seen' = [seen EXCEPT ![PeerOf[c]][call[c].key] = Later(@, call[c].version)]
  /\ Ends(c)
  /\ UNCHANGED <<data, stamps, clock, cache, crossed, faults>>

\* ... and the peer its object.
Remove(c) ==
  /\ At(c, "remove")
  /\ call[c].op = "store"
  /\ Forgets(PeerOf[c], call[c].key)
  /\ seen' = [seen EXCEPT ![PeerOf[c]][call[c].key] = Later(@, call[c].version)]
  /\ Ends(c)
  /\ UNCHANGED <<data, stamps, clock, crossed, faults>>

\* expireAll: after the last key flush() clears the peer; with another key left the
\* iterator throws a ConcurrentModificationException.
RemoveAll(c) ==
  /\ At(c, "remove")
  /\ call[c].op = "all"
  /\ IF call[c].last
       THEN cache' = [cache EXCEPT ![PeerOf[c]] = [k \in Key |-> NoEntry]]
       ELSE Forgets(PeerOf[c], call[c].key)
  /\ Ends(c)
  /\ UNCHANGED <<data, stamps, clock, seen, crossed, faults>>
-----------------------------------------------------------------------------
(* Failures and time.                                                      *)

Fault ==
  /\ faults < MaxFaults
  /\ faults' = faults + 1

\* A call of the coordinator throws a RemoteException, because it was never made or
\* because its answer is lost: the local half of put or of expire is not done.
CallFails(c) ==
  /\ Fault
  /\ call[c].at \in {"ask", "stamp", "insert", "expire", "remove"}
  /\ Ends(c)
  /\ UNCHANGED <<data, stamps, clock, cache, seen, crossed>>

\* The server of the coordinator starts again with an empty TreeMap.
CoordinatorRestarts ==
  /\ Fault
  /\ stamps' = [k \in Key |-> 0]
  /\ call' = [c \in Client |->
                IF call[c].at \in {"forget", "record"} THEN Idle ELSE call[c]]
  /\ UNCHANGED <<data, clock, cache, seen, crossed>>

PeerRestarts(p) ==
  /\ Fault
  /\ cache' = [cache EXCEPT ![p] = [k \in Key |-> NoEntry]]
  /\ call' = [c \in Client |-> IF PeerOf[c] = p THEN Idle ELSE call[c]]
  /\ UNCHANGED <<data, stamps, clock, seen, crossed>>

Tick ==
  /\ clock < MaxTime
  /\ clock' = clock + 1
  /\ UNCHANGED <<data, stamps, cache, call, seen, crossed, faults>>

Page(c) ==
  \/ \E k \in Key : Get(c, k) \/ Store(c, k) \/ ExpireAll(c, k)
  \/ Ask(c) \/ Hit(c) \/ Outdated(c) \/ LastFails(c)
  \/ Load(c) \/ Stamp(c) \/ Forget(c) \/ Record(c) \/ Insert(c) \/ InsertFails(c)
  \/ Expire(c) \/ Remove(c) \/ RemoveAll(c)
  \/ CallFails(c)

Next ==
  \/ \E c \in Client : Page(c)
  \/ \E p \in Peer : PeerRestarts(p)
  \/ CoordinatorRestarts
  \/ Tick

Spec == Init /\ [][Next]_vars
-----------------------------------------------------------------------------
(* Properties.                                                             *)

\* The entry of a peer, or what a thread is about to put there, has no later stamp
\* than the coordinator, unless the coordinator has none: so a put makes the older
\* entries of all the others outdated.  Two threads that stamp a key at a time may
\* record their stamps in the wrong order.
NeverAhead ==
  \A k \in Key : stamps[k] # 0 /\ k \notin crossed =>
    /\ \A p \in Peer : cache[p][k].stamp <= stamps[k]
    /\ \A c \in Client : At(c, "insert") /\ call[c].key = k => call[c].stamp <= stamps[k]

Valid(p, k) == Cached(p, k) /\ cache[p][k].stamp >= stamps[k]

\* A peer goes on with an object that is older than that of another peer for four
\* reasons only: the coordinator has no stamp, as the key was expired, a put of it is
\* between its two steps, or the coordinator has started again; both were put in the
\* same millisecond; its page was slow, and put what it had loaded before the data
\* changed; or two threads were stamping the key at the same time.
StaleHasReason ==
  \A p, q \in Peer, k \in Key :
    Valid(p, k) /\ Cached(q, k) /\ cache[p][k].version < cache[q][k].version =>
      \/ stamps[k] = 0
      \/ cache[p][k].stamp = cache[q][k].stamp
      \/ cache[p][k].late
      \/ k \in crossed

\* What a peer once had, or its pages have changed and expired, does not become older
\* again in that peer, unless a slow page puts what it had loaded before.
NeverBack ==
  \A p \in Peer, k \in Key :
    Cached(p, k) /\ cache[p][k].version < seen[p][k] => cache[p][k].late

\* What a hit gives to a page is never older than what its server had, or its pages
\* had changed and expired, when the get began, unless a slow page had put it.  It is
\* older than what another server had when the coordinator answered for the reasons of
\* StaleHasReason, or for one more: between the three reads of get, another page of the
\* server has put a later object, whose stamp is compared, while the first one is
\* returned.
HitHasReason ==
  [][\A c \in Client : Hit(c) /\ ~call[c].object.late =>
       /\ call[c].object.version >= call[c].own
       /\ \A e \in call[c].newer :
            \/ call[c].stamp = 0
            \/ e.stamp = call[c].object.stamp
            \/ call[c].key \in crossed
            \/ call[c].object.stamp < Local(c).stamp]_vars
-----------------------------------------------------------------------------
(* What a comment of the code says of it, and a run refutes.               *)

\* expire: other peers are notified that the object "should no longer be considered
\* valid", so that without any failure none goes on with what it had before.
ExpireNotifies ==
  [][\A c \in Client, k \in Key :
       At(c, "remove") /\ call[c].op = "store" /\ call[c].key = k /\ Remove(c) =>
         \A p \in Peer : ~(/\ Valid(p, k)' /\ faults = 0
                           /\ cache'[p][k].version < call[c].version
                           /\ ~cache'[p][k].late)]_vars
=============================================================================
