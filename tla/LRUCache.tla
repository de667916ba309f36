------------------------------ MODULE LRUCache ------------------------------
(***************************************************************************)
(* LRUCachePolicy: a HashMap of entries that a doubly linked list keeps in *)
(* the order of their last use.  The pages of a web server call it without *)
(* any lock: here each operation of the map or of the list is one step,    *)
(* and the calls of the threads interleave between them, until two of them *)
(* cross on the same entry.  What the code does from then on is not        *)
(* described: raced says that it has happened.                             *)
(***************************************************************************)
EXTENDS Naturals, FiniteSets

CONSTANTS
  Thread,   \* that serve pages
  Key,
  Copy,     \* tells the entries of a key from each other; as many as threads are enough
  Null,
  Capacity  \* m_maxCapacity, and m_capacity which is never less

ASSUME LRUAssumption ==
  /\ Null \notin Key /\ Null \notin Key \X Copy
  /\ Capacity \in Nat \ {0, 1}

\* LRUCacheEntry objects.  What nobody refers to is garbage, and used again.
Entry == Key \X Copy

VARIABLES
  map,     \* m_map
  entry,   \* m_key, m_prev and m_next of each entry
  head, tail, count,
  call,    \* where each thread stands
  raced    \* history: two calls crossed on an entry

list == <<entry, head, tail, count>>
vars == <<map, list, call, raced>>

\* entry is what the call has found or created, victim the key that it ages out.
Call == [at : {"idle", "promote", "demote", "age", "find", "unlink", "forget", "add", "put"},
         op : {"none", "get", "insert", "remove", "flush"},
         key : Key \cup {Null}, victim : Key \cup {Null}, entry : Entry \cup {Null}]

Idle == [at |-> "idle", op |-> "none", key |-> Null, victim |-> Null, entry |-> Null]

Unlinked == [key |-> Null, prev |-> Null, next |-> Null]

LruTypeOK ==
  /\ map   \in [Key -> Entry \cup {Null}]
  /\ entry \in [Entry -> [key : Key \cup {Null}, prev : Entry \cup {Null}, next : Entry \cup {Null}]]
  /\ head  \in Entry \cup {Null}
  /\ tail  \in Entry \cup {Null}
  /\ count \in 0 .. Capacity
  /\ call  \in [Thread -> Call]
  /\ raced \in BOOLEAN

Init ==
  /\ map = [k \in Key |-> Null]
  /\ entry = [e \in Entry |-> Unlinked]
  /\ head = Null
  /\ tail = Null
  /\ count = 0
  /\ call = [t \in Thread |-> Idle]
  /\ raced = FALSE

At(t, place)   == call[t].at = place
Goto(t, place) == call' = [call EXCEPT ![t].at = place]
Ends(t)        == call' = [call EXCEPT ![t] = Idle]

Begins(t, op, k, place, e) ==
  /\ At(t, "idle")
  /\ call' = [call EXCEPT ![t] = [Idle EXCEPT !.at = place, !.op = op, !.key = k, !.entry = e]]
  /\ UNCHANGED <<map, list, raced>>

\* The entry has left the list since the call looked it up.
Stale(e) == entry[e].key = Null
-----------------------------------------------------------------------------
(* LRUList                                                                 *)

\* Mutant: the tail stays where it was.
ToFrontKeepsTail(e) ==
  LET p == entry[e].prev
      n == entry[e].next
  IN IF p = Null
       THEN UNCHANGED list
       ELSE /\ entry' = [entry EXCEPT ![p].next = n, ![n].prev = p,
                                      ![e].prev = Null, ![e].next = head, ![head].prev = e]
            /\ head' = e
            /\ UNCHANGED <<tail, count>>

\* promote, of an entry in the list
ToFront(e) ==
  LET p == entry[e].prev
      n == entry[e].next
  IN IF p = Null
       THEN UNCHANGED list
       ELSE /\ entry' = [entry EXCEPT ![p].next = n, ![n].prev = p,
                                      ![e].prev = Null, ![e].next = head, ![head].prev = e]
            /\ head' = e
            /\ tail' = IF n = Null THEN p ELSE tail
            /\ UNCHANGED count

\* promote, of a new entry
AddFirst(e, k) ==
  /\ entry' = [entry EXCEPT ![e] = [key |-> k, prev |-> Null, next |-> head], ![head].prev = e]
  /\ head' = e
  /\ tail' = IF count = 0 THEN e ELSE tail
  /\ count' = count + 1

\* remove
Takes(e) ==
  LET p == entry[e].prev
      n == entry[e].next
  IN /\ entry' = [entry EXCEPT ![p].next = n, ![n].prev = p, ![e] = Unlinked]
     /\ head' = IF p = Null THEN n ELSE head
     /\ tail' = IF n = Null THEN p ELSE tail
     /\ count' = count - 1
-----------------------------------------------------------------------------
(* The calls                                                               *)

\* A get without an entry, an insert with one and a remove without one change nothing.
Get(t, k)    == map[k] # Null /\ Begins(t, "get", k, "promote", map[k])
Insert(t, k) == map[k] = Null /\ Begins(t, "insert", k, "demote", Null)
Remove(t, k) == map[k] # Null /\ Begins(t, "remove", k, "unlink", map[k])
Flush(t)     == tail # Null   /\ Begins(t, "flush", Null, "age", Null)

Promote(t) ==
  /\ At(t, "promote")
  /\ ~Stale(call[t].entry)
  /\ ToFront(call[t].entry)
  /\ Ends(t)
  /\ UNCHANGED <<map, raced>>

\* An ageOut is over.
Resumes(t) ==
  call' = [call EXCEPT ![t].at = IF call[t].op = "flush" THEN "age" ELSE "add",
                       ![t].victim = Null, ![t].entry = Null]

\* ageOut hands the key of an entry to remove.
AgesOut(t, e) == call' = [call EXCEPT ![t].at = "find", ![t].victim = entry[e].key]

\* Mutant: it lets the most recently used entry go.
DemoteHead(t) ==
  /\ At(t, "demote")
  /\ IF count = Capacity THEN AgesOut(t, head) ELSE Goto(t, "add")
  /\ UNCHANGED <<map, list, raced>>

\* A full list lets its tail go before anything is added.
Demote(t) ==
  /\ At(t, "demote")
  /\ IF count = Capacity THEN AgesOut(t, tail) ELSE Goto(t, "add")
  /\ UNCHANGED <<map, list, raced>>

\* flush lets the tail go as long as there is one.
FlushTail(t) ==
  /\ At(t, "age")
  /\ IF tail = Null THEN Ends(t) ELSE AgesOut(t, tail)
  /\ UNCHANGED <<map, list, raced>>

\* Mutant: nothing is removed.
FindNothing(t) ==
  /\ At(t, "find")
  /\ Resumes(t)
  /\ UNCHANGED <<map, list, raced>>

\* remove, called by ageOut: another thread may have the entry removed, or not put yet.
Find(t) ==
  LET e == map[call[t].victim] IN
  /\ At(t, "find")
  /\ IF e = Null
       THEN Resumes(t)
       ELSE call' = [call EXCEPT ![t].at = "unlink", ![t].entry = e]
  /\ UNCHANGED <<map, list, raced>>

Unlink(t) ==
  /\ At(t, "unlink")
  /\ ~Stale(call[t].entry)
  /\ Takes(call[t].entry)
  /\ Goto(t, "forget")
  /\ UNCHANGED <<map, raced>>

Gone(t) == IF call[t].op = "remove" THEN call[t].key ELSE call[t].victim

\* Mutant: the map keeps what the list has lost.
ForgetNothing(t) ==
  /\ At(t, "forget")
  /\ map[Gone(t)] = call[t].entry
  /\ IF call[t].op = "remove" THEN Ends(t) ELSE Resumes(t)
  /\ UNCHANGED <<map, list, raced>>

Forget(t) ==
  /\ At(t, "forget")
  /\ map[Gone(t)] = call[t].entry
  /\ map' = [map EXCEPT ![Gone(t)] = Null]
  /\ IF call[t].op = "remove" THEN Ends(t) ELSE Resumes(t)
  /\ UNCHANGED <<list, raced>>

\* What the list holds of a key.
Listed(k) == {e \in {k} \X Copy : entry[e].key = k}

Unused(k) == {e \in {k} \X Copy : entry[e].key = Null /\ \A t \in Thread : call[t].entry # e}

\* Mutant: the list is never full.
AddMore(t) ==
  /\ At(t, "add")
  /\ Listed(call[t].key) = {}
  /\ Unused(call[t].key) # {}
  /\ LET new == CHOOSE e \in Unused(call[t].key) : TRUE
     IN /\ AddFirst(new, call[t].key)
        /\ call' = [call EXCEPT ![t].at = "put", ![t].entry = new]
  /\ UNCHANGED <<map, raced>>

\* createCacheEntry and promote
Add(t) ==
  /\ At(t, "add")
  /\ Listed(call[t].key) = {}
  /\ count < Capacity
  /\ Unused(call[t].key) # {}
  /\ LET new == CHOOSE e \in Unused(call[t].key) : TRUE
     IN /\ AddFirst(new, call[t].key)
        /\ call' = [call EXCEPT ![t].at = "put", ![t].entry = new]
  /\ UNCHANGED <<map, raced>>

\* "Attempt to put a new cache entry on a full cache": others were faster.
AddFails(t) ==
  /\ At(t, "add")
  /\ Listed(call[t].key) = {}
  /\ count = Capacity
  /\ Ends(t)
  /\ UNCHANGED <<map, list, raced>>

Put(t) ==
  /\ At(t, "put")
  /\ map' = [map EXCEPT ![call[t].key] = call[t].entry]
  /\ Ends(t)
  /\ UNCHANGED <<list, raced>>

\* The entry was removed after it was looked up, its key was inserted after the lookup
\* found none, or the map has another by now: the list takes a removed entry again, loses
\* others, or has one that is not in the map.
Race(t) ==
  /\ \/ call[t].at \in {"promote", "unlink"} /\ Stale(call[t].entry)
     \/ At(t, "add") /\ Listed(call[t].key) # {}
     \/ At(t, "forget") /\ map[Gone(t)] # call[t].entry
  /\ raced' = TRUE
  /\ UNCHANGED <<map, list, call>>

Step(t) ==
  \/ Promote(t) \/ Demote(t) \/ FlushTail(t) \/ Find(t) \/ Unlink(t) \/ Forget(t)
  \/ Add(t) \/ AddFails(t) \/ Put(t) \/ Race(t)

Next ==
  \E t \in Thread :
    \/ \E k \in Key : Get(t, k) \/ Insert(t, k) \/ Remove(t, k)
    \/ Flush(t)
    \/ Step(t)

\* A thread that is in a call goes on.
Spec == Init /\ [][~raced /\ Next]_vars /\ \A t \in Thread : WF_vars(~raced /\ Step(t))
-----------------------------------------------------------------------------
(* Properties.                                                             *)

InList == {e \in Entry : entry[e].key # Null}

\* The entries of the list one after the other, from the head to the tail.
Chain(s) ==
  /\ s \in [1 .. count -> InList]
  /\ \A e \in InList : \E i \in 1 .. count : s[i] = e
  /\ \A i, j \in 1 .. count : s[i] = s[j] => i = j
  /\ head = IF count = 0 THEN Null ELSE s[1]
  /\ tail = IF count = 0 THEN Null ELSE s[count]
  /\ \A i \in 1 .. count : /\ entry[s[i]].prev = IF i = 1 THEN Null ELSE s[i - 1]
                           /\ entry[s[i]].next = IF i = count THEN Null ELSE s[i + 1]

\* While no two calls have crossed on an entry, the list is whole: it has count entries,
\* each knows the one before and the one after, and no key is there twice.
Whole ==
  ~raced =>
    /\ \E s \in [1 .. count -> InList] : Chain(s)
    /\ \A e, f \in InList : entry[e].key = entry[f].key => e = f

\* The map has the entries of the list, but for the one that a remove has taken from the
\* list alone, and for the one that an insert has not put into the map yet.
MapIsList ==
  ~raced =>
    /\ \A k \in Key : map[k] # Null =>
         \/ entry[map[k]].key = k
         \/ \E t \in Thread : At(t, "forget") /\ call[t].entry = map[k]
    /\ \A k \in Key : \A e \in Listed(k) :
         map[k] = e \/ \E t \in Thread : At(t, "put") /\ call[t].entry = e

\* A flush comes to its end when the other threads do, and no two calls have crossed.
FlushEnds ==
  \A t \in Thread :
    <>[](\A u \in Thread \ {t} : At(u, "idle")) =>
      (call[t].op = "flush" ~> (call[t].op # "flush" \/ raced))

Doing(t) == [op |-> IF At(t, "add") THEN "add" ELSE IF At(t, "put") THEN "added" ELSE call[t].op,
             key |-> call[t].key, victim |-> call[t].victim]

\* The i-th entry from the head.
Nth[i \in 1 .. Capacity] == IF i = 1 THEN head ELSE entry[Nth[i - 1]].next

Order == INSTANCE RecencyCache WITH
  None   <- Null,
  recent <- IF raced THEN <<>> ELSE [i \in 1 .. count |-> entry[Nth[i]].key],
  doing  <- [t \in Thread |-> IF raced THEN [op |-> "none", key |-> Null, victim |-> Null]
                                       ELSE Doing(t)],
  broken <- raced

\* The order of the list is the order of use, whatever the threads do: a get of an entry
\* makes it the newest, and only the oldest is let go for a new one.
KeepsOrder == Order!Spec
=============================================================================
