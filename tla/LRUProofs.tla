----------------------------- MODULE LRUProofs -----------------------------
(***************************************************************************)
(* Type correctness of LRUCache, and the agreement of its map with its     *)
(* list.                                                                   *)
(***************************************************************************)
EXTENDS LRUCache, TLAPS

Link == [key : Key \cup {Null}, prev : Entry \cup {Null}, next : Entry \cup {Null}]

\* The list keeps its types, and e has another key at most.
ListStep(e, k) ==
  /\ entry' \in [Entry -> Link]
  /\ head' \in Entry \cup {Null} /\ tail' \in Entry \cup {Null}
  /\ entry'[e].key = k
  /\ \A f \in Entry : f # e => entry'[f].key = entry[f].key

LEMMA ToFrontStep ==
  ASSUME LruTypeOK, NEW e \in Entry, ToFront(e)
  PROVE  ListStep(e, entry[e].key) /\ count' = count
  <1> DEFINE p == entry[e].prev
             n == entry[e].next
  <1>1. entry \in [Entry -> Link] /\ p \in Entry \cup {Null} /\ n \in Entry \cup {Null}
        /\ head \in Entry \cup {Null} /\ tail \in Entry \cup {Null}
    BY DEF LruTypeOK, Link
  <1>2. CASE p = Null
    BY <1>1, <1>2 DEF ToFront, ListStep, list
  <1>3. CASE p # Null
    <2>1. entry' = [entry EXCEPT ![p].next = n, ![n].prev = p,
                                 ![e].prev = Null, ![e].next = head, ![head].prev = e]
      BY <1>3, Zenon DEF ToFront
    <2>8. head' = e /\ tail' \in {p, tail} /\ count' = count
      BY <1>3 DEF ToFront
    <2> HIDE DEF p, n
    <2> DEFINE a == [entry EXCEPT ![p].next = n]
               b == [a EXCEPT ![n].prev = p]
               c == [b EXCEPT ![e].prev = Null]
               d == [c EXCEPT ![e].next = head]
               f == [d EXCEPT ![head].prev = e]
    <2>2. a \in [Entry -> Link] /\ \A x \in Entry : a[x].key = entry[x].key
      BY <1>1 DEF Link
    <2> HIDE DEF a
    <2>3. b \in [Entry -> Link] /\ \A x \in Entry : b[x].key = a[x].key
      BY <1>1, <2>2 DEF Link
    <2> HIDE DEF b
    <2>4. c \in [Entry -> Link] /\ \A x \in Entry : c[x].key = b[x].key
      BY <2>3 DEF Link
    <2> HIDE DEF c
    <2>5. d \in [Entry -> Link] /\ \A x \in Entry : d[x].key = c[x].key
      BY <1>1, <2>4 DEF Link
    <2> HIDE DEF d
    <2>6. f \in [Entry -> Link] /\ \A x \in Entry : f[x].key = d[x].key
      BY <2>5 DEF Link
    <2>7. entry' = f
      BY <2>1 DEF a, b, c, d
    <2> HIDE DEF f
    <2> QED
      BY <1>1, <2>2, <2>3, <2>4, <2>5, <2>6, <2>7, <2>8 DEF ListStep
  <1> QED
    BY <1>2, <1>3

LEMMA AddFirstStep ==
  ASSUME LruTypeOK, NEW e \in Entry, NEW k \in Key, AddFirst(e, k)
  PROVE  ListStep(e, k)
  <1>1. entry \in [Entry -> Link] /\ head \in Entry \cup {Null} /\ tail \in Entry \cup {Null}
    BY DEF LruTypeOK, Link
  <1> DEFINE a == [entry EXCEPT ![e] = [key |-> k, prev |-> Null, next |-> head]]
             b == [a EXCEPT ![head].prev = e]
  <1>2. a \in [Entry -> Link] /\ a[e].key = k /\ \A x \in Entry : x # e => a[x].key = entry[x].key
    BY <1>1 DEF Link
  <1>3. entry' = b /\ head' = e /\ tail' \in {e, tail}
    BY DEF AddFirst
  <1> HIDE DEF a
  <1>4. b \in [Entry -> Link] /\ \A x \in Entry : b[x].key = a[x].key
    BY <1>2 DEF Link
  <1> HIDE DEF b
  <1> QED
    BY <1>1, <1>2, <1>3, <1>4 DEF ListStep

LEMMA TakesStep ==
  ASSUME LruTypeOK, NEW e \in Entry, Takes(e)
  PROVE  ListStep(e, Null)
  <1> DEFINE p == entry[e].prev
             n == entry[e].next
  <1>1. entry \in [Entry -> Link] /\ p \in Entry \cup {Null} /\ n \in Entry \cup {Null}
        /\ head \in Entry \cup {Null} /\ tail \in Entry \cup {Null}
    BY DEF LruTypeOK, Link
  <1>2. /\ entry' = [entry EXCEPT ![p].next = n, ![n].prev = p, ![e] = Unlinked]
        /\ head' \in {n, head} /\ tail' \in {p, tail}
    BY DEF Takes
  <1> HIDE DEF p, n
  <1> DEFINE a == [entry EXCEPT ![p].next = n]
             b == [a EXCEPT ![n].prev = p]
             c == [b EXCEPT ![e] = Unlinked]
  <1>3. a \in [Entry -> Link] /\ \A x \in Entry : a[x].key = entry[x].key
    BY <1>1 DEF Link
  <1>4. entry' = c
    BY <1>2
  <1> HIDE DEF a
  <1>5. b \in [Entry -> Link] /\ \A x \in Entry : b[x].key = a[x].key
    BY <1>1, <1>3 DEF Link
  <1> HIDE DEF b
  <1>6. c \in [Entry -> Link] /\ c[e].key = Null /\ \A x \in Entry : x # e => c[x].key = b[x].key
    BY <1>5 DEF Link, Unlinked
  <1> HIDE DEF c
  <1> QED
    BY <1>1, <1>2, <1>3, <1>4, <1>5, <1>6 DEF ListStep
-----------------------------------------------------------------------------
(* What the operations of the list do to the links, and so to its order.   *)

\* A chain as the prover needs it: the entry before and the entry after, one by one.
LEMMA ChainFacts ==
  ASSUME LRUAssumption, LruTypeOK, NEW s, Chain(s)
  PROVE  /\ count \in Nat
         /\ \A i \in 1 .. count : s[i] \in Entry /\ s[i] \in InList /\ s[i] # Null
         /\ count > 0 => head = s[1] /\ tail = s[count]
         /\ count = 0 => head = Null /\ tail = Null /\ InList = {}
  BY DEF Chain, InList, LruTypeOK, LRUAssumption, Entry

LEMMA ToFrontLinks ==
  ASSUME LRUAssumption, LruTypeOK, NEW e \in Entry, head \in Entry, head # e, ToFront(e),
         NEW p, p = entry[e].prev, NEW n, n = entry[e].next,
         p # Null, p # e, n # e, p # n, n # head
  PROVE  /\ \A x \in Entry : entry'[x].next = IF x = e THEN head
                                              ELSE IF x = p THEN n ELSE entry[x].next
         /\ \A x \in Entry : entry'[x].prev = IF x = head THEN e
                                              ELSE IF x = e THEN Null
                                              ELSE IF x = n THEN p ELSE entry[x].prev
         /\ head' = e
         /\ tail' = IF n = Null THEN p ELSE tail
         /\ count' = count
  <1>1. /\ entry' = [entry EXCEPT ![p].next = n, ![n].prev = p,
                                  ![e].prev = Null, ![e].next = head, ![head].prev = e]
        /\ head' = e /\ tail' = (IF n = Null THEN p ELSE tail) /\ count' = count
    BY Zenon DEF ToFront
  <1>2. entry \in [Entry -> Link]
    BY DEF LruTypeOK, Link
  <1> DEFINE a == [entry EXCEPT ![p].next = n]
             b == [a EXCEPT ![n].prev = p]
             c == [b EXCEPT ![e].prev = Null]
             d == [c EXCEPT ![e].next = head]
             f == [d EXCEPT ![head].prev = e]
  <1> DEFINE Fine(x) == DOMAIN x = Entry /\ \A y \in Entry : x[y] = [key |-> x[y].key, prev |-> x[y].prev, next |-> x[y].next]
  <1>3. Fine(entry)
    BY <1>2 DEF Link
  <1>4. Fine(a) /\ \A x \in Entry : a[x].prev = entry[x].prev
                                    /\ a[x].next = IF x = p THEN n ELSE entry[x].next
    BY <1>3
  <1> HIDE DEF a
  <1>5. Fine(b) /\ \A x \in Entry : b[x].next = a[x].next
                                    /\ b[x].prev = IF x = n THEN p ELSE a[x].prev
    BY <1>4
  <1> HIDE DEF b
  <1>6. Fine(c) /\ \A x \in Entry : c[x].next = b[x].next
                                    /\ c[x].prev = IF x = e THEN Null ELSE b[x].prev
    BY <1>5
  <1> HIDE DEF c
  <1>7. Fine(d) /\ \A x \in Entry : d[x].prev = c[x].prev
                                    /\ d[x].next = IF x = e THEN head ELSE c[x].next
    BY <1>6
  <1> HIDE DEF d
  <1>8. \A x \in Entry : f[x].next = d[x].next
                         /\ f[x].prev = IF x = head THEN e ELSE d[x].prev
    BY <1>7
  <1>9. entry' = f
    BY <1>1 DEF a, b, c, d
  <1> HIDE DEF f
  <1>10. ASSUME NEW x \in Entry
         PROVE  entry'[x].next = IF x = e THEN head ELSE IF x = p THEN n ELSE entry[x].next
    BY <1>4, <1>5, <1>6, <1>7, <1>8, <1>9
  <1>11. ASSUME NEW x \in Entry
         PROVE  entry'[x].prev = IF x = head THEN e ELSE IF x = e THEN Null
                                 ELSE IF x = n THEN p ELSE entry[x].prev
    BY <1>4, <1>5, <1>6, <1>7, <1>8, <1>9
  <1> QED
    BY <1>1, <1>10, <1>11

LEMMA AddFirstLinks ==
  ASSUME LRUAssumption, LruTypeOK, NEW e \in Entry, NEW k \in Key, AddFirst(e, k), head # e
  PROVE  /\ \A x \in Entry : entry'[x].next = IF x = e THEN head ELSE entry[x].next
         /\ \A x \in Entry : entry'[x].prev = IF x = head THEN e
                                              ELSE IF x = e THEN Null ELSE entry[x].prev
  <1>1. entry \in [Entry -> Link]
    BY DEF LruTypeOK, Link
  <1> DEFINE Fine(x) == DOMAIN x = Entry /\ \A y \in Entry : x[y] = [key |-> x[y].key, prev |-> x[y].prev, next |-> x[y].next]
             a == [entry EXCEPT ![e] = [key |-> k, prev |-> Null, next |-> head]]
             b == [a EXCEPT ![head].prev = e]
  <1>2. Fine(entry)
    BY <1>1 DEF Link
  <1>3. Fine(a) /\ \A x \in Entry : /\ a[x].prev = IF x = e THEN Null ELSE entry[x].prev
                                    /\ a[x].next = IF x = e THEN head ELSE entry[x].next
    BY <1>2
  <1>4. entry' = b
    BY DEF AddFirst
  <1> HIDE DEF a
  <1>5. \A x \in Entry : /\ b[x].next = a[x].next
                         /\ b[x].prev = IF x = head THEN e ELSE a[x].prev
    BY <1>3
  <1> HIDE DEF b
  <1> QED
    BY <1>3, <1>4, <1>5

LEMMA TakesLinks ==
  ASSUME LRUAssumption, LruTypeOK, NEW e \in Entry, Takes(e),
         NEW p, p = entry[e].prev, NEW n, n = entry[e].next,
         p # e, n # e
  PROVE  /\ \A x \in Entry : entry'[x].next = IF x = e THEN Null
                                              ELSE IF x = p THEN n ELSE entry[x].next
         /\ \A x \in Entry : entry'[x].prev = IF x = e THEN Null
                                              ELSE IF x = n THEN p ELSE entry[x].prev
         /\ head' = IF p = Null THEN n ELSE head
         /\ tail' = IF n = Null THEN p ELSE tail
         /\ count' = count - 1
  <1>1. /\ entry' = [entry EXCEPT ![p].next = n, ![n].prev = p, ![e] = Unlinked]
        /\ head' = (IF p = Null THEN n ELSE head) /\ tail' = (IF n = Null THEN p ELSE tail)
        /\ count' = count - 1
    BY DEF Takes
  <1>2. entry \in [Entry -> Link]
    BY DEF LruTypeOK, Link
  <1> DEFINE Fine(x) == DOMAIN x = Entry /\ \A y \in Entry : x[y] = [key |-> x[y].key, prev |-> x[y].prev, next |-> x[y].next]
             a == [entry EXCEPT ![p].next = n]
             b == [a EXCEPT ![n].prev = p]
             c == [b EXCEPT ![e] = Unlinked]
  <1>3. Fine(entry)
    BY <1>2 DEF Link
  <1>4. Fine(a) /\ \A x \in Entry : a[x].prev = entry[x].prev
                                    /\ a[x].next = IF x = p THEN n ELSE entry[x].next
    BY <1>3
  <1>5. entry' = c
    BY <1>1
  <1> HIDE DEF a
  <1>6. Fine(b) /\ \A x \in Entry : b[x].next = a[x].next
                                    /\ b[x].prev = IF x = n THEN p ELSE a[x].prev
    BY <1>4
  <1> HIDE DEF b
  <1>7. \A x \in Entry : /\ c[x].next = IF x = e THEN Null ELSE b[x].next
                         /\ c[x].prev = IF x = e THEN Null ELSE b[x].prev
    BY <1>6 DEF Unlinked
  <1> HIDE DEF c
  <1>8. ASSUME NEW x \in Entry
        PROVE  /\ entry'[x].next = IF x = e THEN Null ELSE IF x = p THEN n ELSE entry[x].next
               /\ entry'[x].prev = IF x = e THEN Null ELSE IF x = n THEN p ELSE entry[x].prev
    BY <1>4, <1>5, <1>6, <1>7
  <1> QED
    BY <1>1, <1>8

\* The list is whole: some sequence of its entries is its chain.
Listing == \E s \in [1 .. count -> InList] : Chain(s)

LEMMA FrontChain ==
  ASSUME LRUAssumption, LruTypeOK, NEW s, Chain(s), NEW e \in InList, ToFront(e)
  PROVE  Listing'
  <1>1. ListStep(e, entry[e].key) /\ count' = count /\ e \in Entry
    BY ToFrontStep DEF InList
  <1>2. InList' = InList
    BY <1>1 DEF InList, ListStep
  <1>3. PICK i \in 1 .. count : s[i] = e
    BY DEF Chain
  <1> DEFINE p == entry[e].prev
             n == entry[e].next
  <1>4. p = (IF i = 1 THEN Null ELSE s[i - 1]) /\ n = (IF i = count THEN Null ELSE s[i + 1])
    BY <1>3 DEF Chain
  <1>5. count \in Nat /\ \A j \in 1 .. count : s[j] \in Entry /\ s[j] \in InList /\ s[j] # Null
    BY ChainFacts
  <1>6. CASE i = 1
    <2>1. p = Null
      BY <1>4, <1>6
    <2>2. UNCHANGED list
      BY <2>1 DEF ToFront
    <2>3. Chain(s)'
      BY <2>2 DEF Chain, list, InList
    <2> QED
      BY <2>3 DEF Listing, Chain
  <1>7. CASE i # 1
    <2>1. i - 1 \in 1 .. count /\ (i # count => i + 1 \in 1 .. count) /\ 1 \in 1 .. count /\ count # 0
      BY <1>5, <1>7
    <2>2. head = s[1] /\ tail = s[count] /\ head \in Entry /\ head # e /\ p # Null /\ p # e
          /\ n # e /\ p # n /\ n # head
      BY <1>3, <1>4, <1>5, <1>7, <2>1 DEF Chain
    <2>3. /\ \A x \in Entry : entry'[x].next = IF x = e THEN head
                                              ELSE IF x = p THEN n ELSE entry[x].next
          /\ \A x \in Entry : entry'[x].prev = IF x = head THEN e
                                              ELSE IF x = e THEN Null
                                              ELSE IF x = n THEN p ELSE entry[x].prev
          /\ head' = e
          /\ tail' = IF n = Null THEN p ELSE tail
      BY <1>1, <2>2, ToFrontLinks
    <2> HIDE DEF p, n
    <2> DEFINE r == [j \in 1 .. count |-> IF j = 1 THEN e ELSE IF j <= i THEN s[j - 1] ELSE s[j]]
    <2>4. r \in [1 .. count' -> InList']
      BY <1>1, <1>2, <1>3, <1>5, <1>7, <2>1
    <2>5. \A x \in InList : \E j \in 1 .. count : r[j] = x
      <3> TAKE x \in InList
      <3>1. PICK m \in 1 .. count : s[m] = x
        BY DEF Chain
      <3>2. CASE m = i
        BY <1>3, <2>1, <3>1, <3>2
      <3>3. CASE m < i
        <4>1. m + 1 \in 1 .. count /\ m + 1 <= i /\ m + 1 # 1 /\ (m + 1) - 1 = m
          BY <1>5, <3>3
        <4> QED
          BY <3>1, <4>1
      <3>4. CASE m > i
        BY <1>5, <3>1, <3>4
      <3> QED
        BY <1>5, <3>2, <3>3, <3>4
    <2>6. ASSUME NEW j \in 1 .. count, NEW m \in 1 .. count, r[j] = r[m]
          PROVE  j = m
      <3> DEFINE at(x) == IF x = 1 THEN i ELSE IF x <= i THEN x - 1 ELSE x
      <3>1. \A x \in 1 .. count : at(x) \in 1 .. count /\ r[x] = s[at(x)]
        BY <1>3, <1>5
      <3>2. at(j) = at(m)
        BY <2>6, <3>1 DEF Chain
      <3> QED
        BY <1>3, <1>5, <1>7, <3>2
    <2>7. head' = r[1] /\ tail' = r[count]
      BY <1>3, <1>4, <1>5, <1>7, <2>1, <2>2, <2>3
    <2>8. ASSUME NEW j \in 1 .. count
          PROVE  /\ entry'[r[j]].prev = IF j = 1 THEN Null ELSE r[j - 1]
                 /\ entry'[r[j]].next = IF j = count THEN Null ELSE r[j + 1]
      <3>0. \A a, b \in 1 .. count : s[a] = s[b] => a = b
        BY DEF Chain
      <3>10. \A a \in 1 .. count : /\ entry[s[a]].prev = IF a = 1 THEN Null ELSE s[a - 1]
                                   /\ entry[s[a]].next = IF a = count THEN Null ELSE s[a + 1]
        BY DEF Chain
      <3>1. CASE j = 1
        <4>1. r[j] = e /\ r[2] = s[1] /\ 2 <= count /\ j # count
          BY <1>5, <1>7, <3>1
        <4> QED
          BY <1>1, <2>2, <2>3, <3>1, <4>1
      <3>2. CASE j # 1 /\ j <= i
        <4>1. r[j] = s[j - 1] /\ j - 1 \in 1 .. count /\ s[j - 1] # e /\ s[j - 1] \in Entry
          BY <1>3, <1>5, <3>0, <3>2
        <4>2. s[j - 1] # n
          BY <1>4, <1>5, <3>0, <3>2, <4>1, <2>1
        <4>3. s[j - 1] = head <=> j = 2
          BY <1>5, <2>1, <2>2, <3>0, <3>2, <4>1
        <4>4. s[j - 1] = p <=> j = i
          BY <1>4, <1>5, <1>7, <2>1, <3>0, <3>2, <4>1
        <4>5. entry'[r[j]].prev = IF j = 2 THEN e ELSE s[j - 2]
          BY <2>3, <3>10, <3>2, <4>1, <4>2, <4>3
        <4>6. entry'[r[j]].next = IF j = i THEN n ELSE s[j]
          BY <2>3, <3>10, <3>2, <4>1, <4>4
        <4>7. r[j - 1] = IF j = 2 THEN e ELSE s[j - 2]
          BY <1>5, <3>2
        <4>8. j # count => r[j + 1] = IF j = i THEN s[i + 1] ELSE s[j]
          BY <1>5, <3>2
        <4> QED
          BY <1>4, <3>2, <4>5, <4>6, <4>7, <4>8
      <3>3. CASE j > i
        <4>1. r[j] = s[j] /\ s[j] # e /\ s[j] \in Entry /\ s[j] # head /\ j # 1 /\ s[j] # p
          BY <1>3, <1>4, <1>5, <1>7, <2>1, <2>2, <3>0, <3>3
        <4>2. s[j] = n <=> j = i + 1
          BY <1>4, <1>5, <2>1, <3>0, <3>3
        <4>3. entry'[r[j]].prev = (IF j = i + 1 THEN p ELSE s[j - 1]) /\ entry'[r[j]].next = IF j = count THEN Null ELSE s[j + 1]
          BY <2>3, <3>10, <3>3, <4>1, <4>2
        <4>4. r[j - 1] = (IF j = i + 1 THEN s[i - 1] ELSE s[j - 1]) /\ (j # count => r[j + 1] = s[j + 1])
          BY <1>5, <1>7, <3>3
        <4> QED
          BY <1>4, <1>7, <3>3, <4>1, <4>3, <4>4
      <3> QED
        BY <1>5, <3>1, <3>2, <3>3
    <2> HIDE DEF r
    <2>9. PICK q : q = r
      OBVIOUS
    <2>10. Chain(q)'
      <3>1. q \in [1 .. count' -> InList'] /\ (\A x \in InList' : \E j \in 1 .. count' : q[j] = x)
        BY <1>1, <1>2, <2>4, <2>5, <2>9
      <3>2. \A j, m \in 1 .. count' : q[j] = q[m] => j = m
        BY <1>1, <2>6, <2>9
      <3>3. /\ head' = IF count' = 0 THEN Null ELSE q[1]
            /\ tail' = IF count' = 0 THEN Null ELSE q[count']
        BY <1>1, <2>1, <2>7, <2>9
      <3>4. \A j \in 1 .. count' : /\ entry'[q[j]].prev = IF j = 1 THEN Null ELSE q[j - 1]
                                   /\ entry'[q[j]].next = IF j = count' THEN Null ELSE q[j + 1]
        BY <1>1, <2>8, <2>9
      <3> QED
        BY <3>1, <3>2, <3>3, <3>4, Zenon DEF Chain
    <2> QED
      BY <2>10 DEF Listing, Chain
  <1> QED
    BY <1>6, <1>7

LEMMA AddChain ==
  ASSUME LRUAssumption, LruTypeOK, NEW s, Chain(s), NEW e \in Entry, e \notin InList,
         NEW k \in Key, AddFirst(e, k)
  PROVE  Listing'
  <1>1. ListStep(e, k)
    BY AddFirstStep
  <1>2. PICK N \in Nat : N = count
    BY ChainFacts
  <1>3. InList' = InList \cup {e}
    BY <1>1 DEF InList, ListStep, LRUAssumption
  <1>4. /\ \A j \in 1 .. N : s[j] \in Entry /\ s[j] \in InList /\ s[j] # e
        /\ e # Null /\ head # e
        /\ head = IF N = 0 THEN Null ELSE s[1]
        /\ tail = IF N = 0 THEN Null ELSE s[N]
        /\ \A a, b \in 1 .. N : s[a] = s[b] => a = b
        /\ \A a \in 1 .. N : /\ entry[s[a]].prev = IF a = 1 THEN Null ELSE s[a - 1]
                             /\ entry[s[a]].next = IF a = N THEN Null ELSE s[a + 1]
    BY <1>2, ChainFacts DEF Chain, LRUAssumption, Entry
  <1>5. head' = e /\ tail' = (IF N = 0 THEN e ELSE tail) /\ count' = N + 1
    BY <1>2 DEF AddFirst
  <1>6. /\ \A x \in Entry : entry'[x].next = IF x = e THEN head ELSE entry[x].next
        /\ \A x \in Entry : entry'[x].prev = IF x = head THEN e
                                             ELSE IF x = e THEN Null ELSE entry[x].prev
    BY <1>4, AddFirstLinks
  <1>7. PICK r : r = [j \in 1 .. N + 1 |-> IF j = 1 THEN e ELSE s[j - 1]]
    OBVIOUS
  <1>8. r \in [1 .. count' -> InList'] /\ \A x \in InList' : \E j \in 1 .. count' : r[j] = x
    <2>1. r \in [1 .. N + 1 -> InList']
      BY <1>3, <1>4, <1>7
    <2>2. ASSUME NEW x \in InList'
          PROVE  \E j \in 1 .. N + 1 : r[j] = x
      <3>1. CASE x = e
        BY <1>7, <3>1
      <3>2. CASE x # e
        <4>1. PICK m \in 1 .. N : s[m] = x
          BY <1>2, <1>3, <3>2 DEF Chain
        <4>2. m + 1 \in 1 .. N + 1 /\ m + 1 # 1 /\ (m + 1) - 1 = m
          OBVIOUS
        <4> QED
          BY <1>7, <4>1, <4>2
      <3> QED
        BY <3>1, <3>2
    <2> QED
      BY <1>5, <2>1, <2>2
  <1>9. \A j, m \in 1 .. count' : r[j] = r[m] => j = m
    <2>1. ASSUME NEW j \in 1 .. N + 1, NEW m \in 1 .. N + 1, r[j] = r[m]
          PROVE  j = m
      BY <1>4, <1>7, <2>1
    <2> QED
      BY <1>5, <2>1
  <1>10. /\ head' = IF count' = 0 THEN Null ELSE r[1]
         /\ tail' = IF count' = 0 THEN Null ELSE r[count']
    BY <1>4, <1>5, <1>7
  <1>11. ASSUME NEW j \in 1 .. N + 1
         PROVE  /\ entry'[r[j]].prev = IF j = 1 THEN Null ELSE r[j - 1]
                /\ entry'[r[j]].next = IF j = N + 1 THEN Null ELSE r[j + 1]
    <2>1. CASE j = 1
      <3>1. r[j] = e /\ (N # 0 => r[2] = s[1])
        BY <1>7, <2>1
      <3> QED
        BY <1>4, <1>6, <2>1, <3>1
    <2>2. CASE j # 1
      <3>1. r[j] = s[j - 1] /\ j - 1 \in 1 .. N /\ s[j - 1] # e /\ s[j - 1] \in Entry
        BY <1>4, <1>7, <2>2
      <3>2. s[j - 1] = head <=> j = 2
        BY <1>4, <2>2, <3>1
      <3>3. entry'[r[j]].next = IF j = N + 1 THEN Null ELSE s[j]
        BY <1>4, <1>6, <3>1
      <3>4. entry'[r[j]].prev = IF j = 2 THEN e ELSE s[j - 2]
        BY <1>4, <1>6, <3>1, <3>2
      <3>5. r[j - 1] = (IF j = 2 THEN e ELSE s[j - 2]) /\ (j # N + 1 => r[j + 1] = s[j])
        BY <1>7, <2>2
      <3> QED
        BY <2>2, <3>3, <3>4, <3>5
    <2> QED
      BY <2>1, <2>2
  <1>12. Chain(r)'
    BY <1>5, <1>8, <1>9, <1>10, <1>11, Zenon DEF Chain
  <1> QED
    BY <1>12 DEF Listing, Chain

LEMMA TakeChain ==
  ASSUME LRUAssumption, LruTypeOK, NEW s, Chain(s), NEW e \in InList, Takes(e)
  PROVE  Listing' /\ count > 0
  <1>1. ListStep(e, Null) /\ e \in Entry
    BY TakesStep DEF InList
  <1>2. PICK N \in Nat : N = count
    BY ChainFacts
  <1>3. InList' = InList \ {e}
    BY <1>1 DEF InList, ListStep
  <1>4. /\ \A j \in 1 .. N : s[j] \in Entry /\ s[j] \in InList /\ s[j] # Null
        /\ head = IF N = 0 THEN Null ELSE s[1]
        /\ tail = IF N = 0 THEN Null ELSE s[N]
        /\ \A a, b \in 1 .. N : s[a] = s[b] => a = b
        /\ \A a \in 1 .. N : /\ entry[s[a]].prev = IF a = 1 THEN Null ELSE s[a - 1]
                             /\ entry[s[a]].next = IF a = N THEN Null ELSE s[a + 1]
    BY <1>2, ChainFacts DEF Chain
  <1>5. PICK i \in 1 .. N : s[i] = e
    BY <1>2 DEF Chain
  <1> DEFINE p == entry[e].prev
             n == entry[e].next
  <1>6. p = (IF i = 1 THEN Null ELSE s[i - 1]) /\ n = (IF i = N THEN Null ELSE s[i + 1])
    BY <1>4, <1>5
  <1>7. p # e /\ n # e
    BY <1>4, <1>5, <1>6
  <1>8. /\ \A x \in Entry : entry'[x].next = IF x = e THEN Null
                                             ELSE IF x = p THEN n ELSE entry[x].next
        /\ \A x \in Entry : entry'[x].prev = IF x = e THEN Null
                                             ELSE IF x = n THEN p ELSE entry[x].prev
        /\ head' = IF p = Null THEN n ELSE head
        /\ tail' = IF n = Null THEN p ELSE tail
        /\ count' = N - 1
    BY <1>1, <1>2, <1>7, TakesLinks
  <1> HIDE DEF p, n
  <1>9. PICK r : r = [j \in 1 .. N - 1 |-> IF j < i THEN s[j] ELSE s[j + 1]]
    OBVIOUS
  <1>10. r \in [1 .. count' -> InList'] /\ \A x \in InList' : \E j \in 1 .. count' : r[j] = x
    <2>1. \A j \in 1 .. N - 1 : r[j] \in InList'
      BY <1>3, <1>4, <1>5, <1>9
    <2>2. ASSUME NEW x \in InList'
          PROVE  \E j \in 1 .. N - 1 : r[j] = x
      <3>1. PICK m \in 1 .. N : s[m] = x /\ m # i
        BY <1>2, <1>3, <1>5 DEF Chain
      <3>2. CASE m < i
        BY <1>9, <3>1, <3>2
      <3>3. CASE m > i
        <4>1. m - 1 \in 1 .. N - 1 /\ ~(m - 1 < i) /\ (m - 1) + 1 = m
          BY <3>3
        <4> QED
          BY <1>9, <3>1, <4>1
      <3> QED
        BY <3>1, <3>2, <3>3
    <2> QED
      BY <1>8, <1>9, <2>1, <2>2
  <1>11. \A j, m \in 1 .. count' : r[j] = r[m] => j = m
    <2>1. ASSUME NEW j \in 1 .. N - 1, NEW m \in 1 .. N - 1, r[j] = r[m]
          PROVE  j = m
      <3> DEFINE at(x) == IF x < i THEN x ELSE x + 1
      <3>1. \A x \in 1 .. N - 1 : at(x) \in 1 .. N /\ r[x] = s[at(x)]
        BY <1>9
      <3>2. at(j) = at(m)
        BY <1>4, <2>1, <3>1
      <3> QED
        BY <3>2
    <2> QED
      BY <1>8, <2>1
  <1>12. /\ head' = IF count' = 0 THEN Null ELSE r[1]
         /\ tail' = IF count' = 0 THEN Null ELSE r[count']
    <2>1. head' = IF N = 1 THEN Null ELSE IF i = 1 THEN s[2] ELSE s[1]
      BY <1>4, <1>6, <1>8
    <2>2. tail' = IF N = 1 THEN Null ELSE IF i = N THEN s[N - 1] ELSE s[N]
      BY <1>4, <1>6, <1>8
    <2>3. N # 1 => /\ r[1] = IF i = 1 THEN s[2] ELSE s[1]
                   /\ r[N - 1] = IF i = N THEN s[N - 1] ELSE s[N]
      BY <1>9
    <2> QED
      BY <1>8, <2>1, <2>2, <2>3
  <1>13. ASSUME NEW j \in 1 .. N - 1
         PROVE  /\ entry'[r[j]].prev = IF j = 1 THEN Null ELSE r[j - 1]
                /\ entry'[r[j]].next = IF j = N - 1 THEN Null ELSE r[j + 1]
    <2>1. CASE j < i
      <3>1. r[j] = s[j] /\ s[j] # e /\ s[j] \in Entry /\ s[j] # n
        <4>1. r[j] = s[j] /\ j \in 1 .. N /\ j # i
          BY <1>9, <2>1
        <4>2. s[j] # e /\ s[j] \in Entry
          BY <1>4, <1>5, <4>1
        <4>3. s[j] # n
          BY <1>4, <1>6, <2>1, <4>1
        <4> QED
          BY <4>1, <4>2, <4>3
      <3>2. s[j] = p <=> j + 1 = i
        BY <1>4, <1>6, <2>1
      <3>3. entry'[r[j]].prev = IF j = 1 THEN Null ELSE s[j - 1]
        BY <1>4, <1>8, <3>1
      <3>4. entry'[r[j]].next = IF j + 1 = i THEN n ELSE s[j + 1]
        BY <1>4, <1>8, <2>1, <3>1, <3>2
      <3>5. (j # 1 => r[j - 1] = s[j - 1])
            /\ (j # N - 1 => r[j + 1] = IF j + 1 = i THEN s[j + 2] ELSE s[j + 1])
        BY <1>9, <2>1
      <3> QED
        BY <1>6, <2>1, <3>3, <3>4, <3>5
    <2>2. CASE j >= i
      <3>1. r[j] = s[j + 1] /\ s[j + 1] # e /\ s[j + 1] \in Entry /\ s[j + 1] # p
        <4>1. r[j] = s[j + 1] /\ j + 1 \in 1 .. N /\ j + 1 # i
          BY <1>9, <2>2
        <4>2. s[j + 1] # e /\ s[j + 1] \in Entry
          BY <1>4, <1>5, <4>1
        <4>3. s[j + 1] # p
          BY <1>4, <1>6, <2>2, <4>1
        <4> QED
          BY <4>1, <4>2, <4>3
      <3>2. s[j + 1] = n <=> j = i
        BY <1>4, <1>6, <2>2
      <3>3. entry'[r[j]].prev = IF j = i THEN p ELSE s[j]
        BY <1>4, <1>8, <3>1, <3>2
      <3>4. entry'[r[j]].next = IF j = N - 1 THEN Null ELSE s[j + 2]
        BY <1>4, <1>8, <3>1
      <3>5. (j # 1 => r[j - 1] = IF j = i THEN s[j - 1] ELSE s[j])
            /\ (j # N - 1 => r[j + 1] = s[j + 2])
        BY <1>9, <2>2
      <3> QED
        BY <1>6, <2>2, <3>3, <3>4, <3>5
    <2> QED
      BY <2>1, <2>2
  <1>14. Chain(r)'
    BY <1>8, <1>10, <1>11, <1>12, <1>13, Zenon DEF Chain
  <1>15. count > 0
    BY <1>2, <1>5
  <1> QED
    BY <1>14, <1>15 DEF Listing, Chain
-----------------------------------------------------------------------------
(* The inductive invariant.                                                *)

Lost(c) == IF c.op = "remove" THEN c.key ELSE c.victim

\* What a call knows where it stands, whatever the others do.
Sound(c) ==
  /\ c.at = "promote" => c.entry # Null
  /\ c.op = "insert" => c.key \in Key
  /\ c.at \in {"demote", "add", "put"} => c.op = "insert"
  /\ c.at = "age" => c.op = "flush"
  /\ c.at \in {"demote", "age", "find", "add"} => c.entry = Null
  /\ c.at = "find" => c.op \in {"insert", "flush"} /\ c.victim \in Key
  /\ c.at \in {"unlink", "forget"} =>
       /\ c.op \in {"insert", "flush", "remove"}
       /\ Lost(c) \in Key
       /\ c.entry \in {Lost(c)} \X Copy
  /\ c.at = "put" => c.entry \in {c.key} \X Copy

\* An entry that is being forgotten has left the list.  One that is being put is in the
\* list, is not in the map, and is known to nobody else.
InForget == \A t \in Thread : At(t, "forget") => entry[call[t].entry].key = Null
InPut ==
  \A t \in Thread : At(t, "put") =>
    /\ entry[call[t].entry].key = call[t].key
    /\ map[call[t].key] # call[t].entry
    /\ \A u \in Thread : call[u].entry = call[t].entry => u = t

OneEach    == \A e, f \in InList : entry[e].key = entry[f].key => e = f
MapKeys    == \A k \in Key : map[k] # Null => map[k] \in {k} \X Copy
EntryKeys  == \A e \in Entry : entry[e].key # Null => e \in {entry[e].key} \X Copy
MapListed  == \A k \in Key : map[k] # Null =>
                \/ entry[map[k]].key = k
                \/ \E t \in Thread : At(t, "forget") /\ call[t].entry = map[k]
ListMapped == \A k \in Key : \A e \in Listed(k) :
                map[k] = e \/ \E t \in Thread : At(t, "put") /\ call[t].entry = e

Orderly ==
  /\ Listing
  /\ OneEach
  /\ MapKeys
  /\ EntryKeys
  /\ MapListed
  /\ ListMapped
  /\ \A t \in Thread : Sound(call[t])
  /\ InForget
  /\ InPut

LRUInv == LruTypeOK /\ (~raced => Orderly)

LEMMA InitInv ==
  ASSUME LRUAssumption, Init
  PROVE  LRUInv
  <1>1. InList = {} /\ \A k \in Key : Listed(k) = {}
    <2>1. \A e \in Entry : entry[e].key = Null
      BY DEF Init, Unlinked
    <2>2. \A k \in Key : \A e \in {k} \X Copy : e \in Entry
      BY DEF Entry
    <2> QED
      BY <2>1, <2>2 DEF InList, Listed, LRUAssumption
  <1>2. LruTypeOK
    <2>1. Idle \in Call /\ Unlinked \in Link
      BY DEF Idle, Call, Unlinked, Link
    <2>2. call \in [Thread -> Call] /\ entry \in [Entry -> Link]
      BY <2>1 DEF Init
    <2>3. count \in 0 .. Capacity
      BY DEF Init, LRUAssumption
    <2>4. map \in [Key -> Entry \cup {Null}] /\ raced \in BOOLEAN
          /\ head \in Entry \cup {Null} /\ tail \in Entry \cup {Null}
      BY DEF Init
    <2> QED
      BY <2>2, <2>3, <2>4 DEF LruTypeOK, Link
  <1>3. Listing
    <2> DEFINE s == [i \in 1 .. 0 |-> Null]
    <2>1. s \in [1 .. count -> InList] /\ Chain(s)
      BY <1>1 DEF Init, Chain
    <2> QED
      BY <2>1 DEF Listing
  <1>4. \A t \in Thread : call[t] = Idle
    BY DEF Init
  <1>5. (\A t \in Thread : Sound(call[t])) /\ InForget /\ InPut
    BY <1>4 DEF Idle, Sound, InForget, InPut, At
  <1>6. OneEach /\ MapKeys /\ EntryKeys /\ MapListed /\ ListMapped
    <2>1. (\A k \in Key : map[k] = Null) /\ \A e \in Entry : entry[e].key = Null
      BY DEF Init, Unlinked
    <2> QED
      BY <1>1, <2>1 DEF OneEach, MapKeys, EntryKeys, MapListed, ListMapped
  <1> QED
    BY <1>2, <1>3, <1>5, <1>6 DEF LRUInv, Orderly

\* A step that only moves a call on.
LEMMA CallStep ==
  ASSUME LRUAssumption, LRUInv, ~raced, UNCHANGED <<map, list, raced>>,
         NEW t \in Thread, NEW c \in Call, call' = [call EXCEPT ![t] = c],
         call[t].at \notin {"forget", "put"}, c.at \notin {"forget", "put"}, Sound(c),
         c.entry = Null \/ \E k \in Key : c.entry = map[k]
  PROVE  LRUInv'
  <1>1. LruTypeOK /\ Orderly
    BY DEF LRUInv
  <1>2. LruTypeOK'
    BY <1>1 DEF LruTypeOK, list
  <1>3. /\ \A u \in Thread : u # t => call'[u] = call[u]
        /\ call'[t] = c
        /\ map' = map /\ entry' = entry
    BY <1>1 DEF LruTypeOK, list
  <1>4. Listing' /\ InList' = InList
    <2>1. InList' = InList
      BY <1>3 DEF InList
    <2>2. PICK s : Chain(s)
      BY <1>1 DEF Orderly, Listing
    <2>3. Chain(s)'
      BY <1>3, <2>1, <2>2 DEF Chain, list
    <2> QED
      BY <2>1, <2>3 DEF Listing, Chain
  <1>5. OneEach' /\ MapKeys' /\ EntryKeys'
    BY <1>1, <1>3, <1>4 DEF Orderly, OneEach, MapKeys, EntryKeys
  <1>6. MapListed'
    <2>1. \A u \in Thread : At(u, "forget") => At(u, "forget")' /\ call'[u].entry = call[u].entry
      BY <1>3 DEF At
    <2> QED
      BY <1>1, <1>3, <2>1 DEF Orderly, MapListed
  <1>7. ListMapped'
    <2>1. \A u \in Thread : At(u, "put") => At(u, "put")' /\ call'[u].entry = call[u].entry
      BY <1>3 DEF At
    <2>2. \A k \in Key : Listed(k)' = Listed(k)
      BY <1>3 DEF Listed
    <2> QED
      BY <1>1, <1>3, <2>1, <2>2 DEF Orderly, ListMapped
  <1>8. (\A u \in Thread : Sound(call[u]))'
    BY <1>1, <1>3 DEF Orderly
  <1>9. InForget'
    BY <1>1, <1>3 DEF Orderly, InForget, At
  <1>10. InPut'
    <2> SUFFICES ASSUME NEW u \in Thread, At(u, "put")'
                 PROVE  /\ entry'[call'[u].entry].key = call'[u].key
                        /\ map'[call'[u].key] # call'[u].entry
                        /\ \A v \in Thread : call'[v].entry = call'[u].entry => v = u
      BY DEF InPut
    <2>1. u # t /\ call'[u] = call[u] /\ At(u, "put")
      BY <1>3 DEF At
    <2>2. /\ entry[call[u].entry].key = call[u].key
          /\ map[call[u].key] # call[u].entry
          /\ \A v \in Thread : call[v].entry = call[u].entry => v = u
          /\ call[u].entry \in {call[u].key} \X Copy
          /\ call[u].key \in Key
      BY <1>1, <2>1 DEF Orderly, InPut, Sound, At
    <2>3. call[u].entry # c.entry
      BY <1>1, <2>2 DEF Orderly, MapKeys, LRUAssumption
    <2> QED
      BY <1>3, <2>1, <2>2, <2>3
  <1> QED
    BY <1>2, <1>4, <1>5, <1>6, <1>7, <1>8, <1>9, <1>10 DEF LRUInv, Orderly

LEMMA PromoteStep ==
  ASSUME LRUAssumption, LRUInv, ~raced, NEW t \in Thread, Promote(t)
  PROVE  LRUInv'
  <1>1. LruTypeOK /\ Orderly
    BY DEF LRUInv
  <1> DEFINE e == call[t].entry
  <1>2. e \in Entry /\ e \in InList /\ call[t].at = "promote"
    BY <1>1 DEF Promote, Orderly, Sound, Stale, At, InList, LruTypeOK, Call
  <1>3. ToFront(e) /\ map' = map /\ raced' = raced /\ call' = [call EXCEPT ![t] = Idle]
    BY DEF Promote, Ends
  <1>4. ListStep(e, entry[e].key) /\ count' = count
    BY <1>1, <1>2, <1>3, ToFrontStep
  <1>5. \A f \in Entry : entry'[f].key = entry[f].key
    BY <1>4 DEF ListStep
  <1>6. InList' = InList /\ \A k \in Key : Listed(k)' = Listed(k)
    BY <1>5 DEF InList, Listed, Entry
  <1>7. Idle \in Call /\ Idle.at = "idle" /\ Idle.entry = Null /\ Sound(Idle)
    BY DEF Idle, Call, Sound
  <1>8. /\ call' \in [Thread -> Call] /\ call'[t] = Idle
        /\ \A u \in Thread : u # t => call'[u] = call[u]
    BY <1>1, <1>3, <1>7 DEF LruTypeOK
  <1>9. LruTypeOK'
    BY <1>1, <1>3, <1>4, <1>8 DEF LruTypeOK, ListStep, Link
  <1>10. Listing'
    <2>1. PICK s : Chain(s)
      BY <1>1 DEF Orderly, Listing
    <2> QED
      BY <1>1, <1>2, <1>3, <2>1, FrontChain
  <1>11. OneEach' /\ MapKeys' /\ EntryKeys'
    <2>1. OneEach'
      BY <1>1, <1>5, <1>6 DEF Orderly, OneEach, InList
    <2> QED
      BY <1>1, <1>3, <1>5, <2>1 DEF Orderly, MapKeys, EntryKeys
  <1>12. \A u \in Thread : u # t => At(u, "forget") = At(u, "forget")' /\ At(u, "put") = At(u, "put")'
    BY <1>8 DEF At
  <1>13. ~At(t, "forget") /\ ~At(t, "put") /\ ~At(t, "forget")' /\ ~At(t, "put")'
    BY <1>2, <1>7, <1>8 DEF At
  <1>14. MapListed' /\ ListMapped'
    <2>1. MapListed'
      <3> SUFFICES ASSUME NEW k \in Key, map'[k] # Null
                   PROVE  \/ entry'[map'[k]].key = k
                          \/ \E u \in Thread : At(u, "forget")' /\ call'[u].entry = map'[k]
        BY DEF MapListed
      <3>1. map[k] \in Entry /\ map' = map
        BY <1>1, <1>3 DEF LruTypeOK
      <3> QED
        BY <1>1, <1>5, <1>8, <1>12, <1>13, <3>1 DEF Orderly, MapListed
    <2>2. ListMapped'
      BY <1>1, <1>3, <1>6, <1>8, <1>12, <1>13 DEF Orderly, ListMapped
    <2> QED
      BY <2>1, <2>2
  <1>15. (\A u \in Thread : Sound(call[u]))'
    BY <1>1, <1>7, <1>8 DEF Orderly
  <1>16. InForget'
    <2> SUFFICES ASSUME NEW u \in Thread, At(u, "forget")'
                 PROVE  entry'[call'[u].entry].key = Null
      BY DEF InForget
    <2>1. At(u, "forget") /\ call'[u] = call[u] /\ entry[call[u].entry].key = Null
      BY <1>1, <1>8, <1>12, <1>13 DEF Orderly, InForget
    <2>2. call[u].entry \in Entry
      BY <1>1, <2>1 DEF Orderly, Sound, At, Entry
    <2> QED
      BY <1>5, <2>1, <2>2
  <1>17. InPut'
    <2> SUFFICES ASSUME NEW u \in Thread, At(u, "put")'
                 PROVE  /\ entry'[call'[u].entry].key = call'[u].key
                        /\ map'[call'[u].key] # call'[u].entry
                        /\ \A v \in Thread : call'[v].entry = call'[u].entry => v = u
      BY DEF InPut
    <2>1. u # t /\ At(u, "put") /\ call'[u] = call[u]
      BY <1>8, <1>12, <1>13
    <2>2. /\ entry[call[u].entry].key = call[u].key
          /\ map[call[u].key] # call[u].entry
          /\ \A v \in Thread : call[v].entry = call[u].entry => v = u
          /\ call[u].entry \in {call[u].key} \X Copy
          /\ call[u].key \in Key
      BY <1>1, <2>1 DEF Orderly, InPut, Sound, At
    <2>3. call[u].entry \in Entry /\ call[u].entry # Null
      BY <2>2 DEF Entry, LRUAssumption
    <2> QED
      BY <1>3, <1>5, <1>7, <1>8, <2>1, <2>2, <2>3
  <1> QED
    BY <1>9, <1>10, <1>11, <1>14, <1>15, <1>16, <1>17 DEF LRUInv, Orderly

LEMMA UnlinkStep ==
  ASSUME LRUAssumption, LRUInv, ~raced, NEW t \in Thread, Unlink(t)
  PROVE  LRUInv'
  <1>1. LruTypeOK /\ Orderly
    BY DEF LRUInv
  <1> DEFINE e == call[t].entry
             c == [call[t] EXCEPT !.at = "forget"]
  <1>2. call[t].at = "unlink" /\ Sound(call[t]) /\ call[t] \in Call
    BY <1>1 DEF Unlink, At, Orderly, LruTypeOK
  <1>3. e \in Entry /\ e \in InList
    BY <1>2 DEF Unlink, Sound, Stale, InList, Entry
  <1>4. Takes(e) /\ map' = map /\ raced' = raced /\ call' = [call EXCEPT ![t] = c]
    BY DEF Unlink, Goto
  <1>5. ListStep(e, Null)
    BY <1>1, <1>3, <1>4, TakesStep
  <1>6. entry'[e].key = Null /\ \A f \in Entry : f # e => entry'[f].key = entry[f].key
    BY <1>5 DEF ListStep
  <1>7. InList' = InList \ {e} /\ \A k \in Key : Listed(k)' = Listed(k) \ {e}
    BY <1>6, LRUAssumption DEF InList, Listed, Entry, LRUAssumption
  <1>8. c \in Call /\ c.at = "forget" /\ c.op = call[t].op /\ c.entry = e /\ c.key = call[t].key /\ c.victim = call[t].victim
    BY <1>2 DEF Call
  <1>9. Sound(c)
    BY <1>2, <1>8 DEF Sound, Lost
  <1>10. /\ call' \in [Thread -> Call] /\ call'[t] = c
         /\ \A u \in Thread : u # t => call'[u] = call[u]
    BY <1>1, <1>4, <1>8 DEF LruTypeOK
  <1> HIDE DEF c
  <1>11. Listing' /\ count > 0
    <2>1. PICK s : Chain(s)
      BY <1>1 DEF Orderly, Listing
    <2> QED
      BY <1>1, <1>3, <1>4, <2>1, TakeChain
  <1>12. LruTypeOK'
    <2>1. count' = count - 1
      BY <1>4 DEF Takes
    <2>2. count' \in 0 .. Capacity
      BY <1>1, <1>11, <2>1 DEF LruTypeOK
    <2> QED
      BY <1>1, <1>4, <1>5, <1>10, <2>2 DEF LruTypeOK, ListStep, Link
  <1>13. OneEach' /\ MapKeys' /\ EntryKeys'
    <2>1. OneEach'
      BY <1>1, <1>6, <1>7 DEF Orderly, OneEach, InList
    <2> QED
      BY <1>1, <1>4, <1>6, <2>1 DEF Orderly, MapKeys, EntryKeys
  <1>14. \A u \in Thread : u # t => At(u, "forget") = At(u, "forget")' /\ At(u, "put") = At(u, "put")'
    BY <1>10 DEF At
  <1>15. ~At(t, "forget") /\ ~At(t, "put") /\ At(t, "forget")' /\ ~At(t, "put")'
    BY <1>2, <1>8, <1>10 DEF At
  <1>16. MapListed'
    <2> SUFFICES ASSUME NEW k \in Key, map'[k] # Null
                 PROVE  \/ entry'[map'[k]].key = k
                        \/ \E u \in Thread : At(u, "forget")' /\ call'[u].entry = map'[k]
      BY DEF MapListed
    <2>1. map[k] \in Entry /\ map' = map
      BY <1>1, <1>4 DEF LruTypeOK
    <2>2. CASE map[k] = e
      BY <1>8, <1>10, <1>15, <2>1, <2>2
    <2>3. CASE map[k] # e
      BY <1>1, <1>6, <1>10, <1>14, <1>15, <2>1, <2>3 DEF Orderly, MapListed
    <2> QED
      BY <2>2, <2>3
  <1>17. ListMapped'
    BY <1>1, <1>4, <1>7, <1>10, <1>14, <1>15 DEF Orderly, ListMapped
  <1>18. (\A u \in Thread : Sound(call[u]))'
    BY <1>1, <1>9, <1>10 DEF Orderly
  <1>19. InForget'
    <2> SUFFICES ASSUME NEW u \in Thread, At(u, "forget")'
                 PROVE  entry'[call'[u].entry].key = Null
      BY DEF InForget
    <2>1. CASE u = t
      BY <1>6, <1>8, <1>10, <2>1
    <2>2. CASE u # t
      <3>1. At(u, "forget") /\ call'[u] = call[u] /\ entry[call[u].entry].key = Null
        BY <1>1, <1>10, <1>14, <2>2 DEF Orderly, InForget
      <3>2. call[u].entry \in Entry
        BY <1>1, <3>1 DEF Orderly, Sound, At, Entry
      <3> QED
        BY <1>6, <3>1, <3>2
    <2> QED
      BY <2>1, <2>2
  <1>20. InPut'
    <2> SUFFICES ASSUME NEW u \in Thread, At(u, "put")'
                 PROVE  /\ entry'[call'[u].entry].key = call'[u].key
                        /\ map'[call'[u].key] # call'[u].entry
                        /\ \A v \in Thread : call'[v].entry = call'[u].entry => v = u
      BY DEF InPut
    <2>1. u # t /\ At(u, "put") /\ call'[u] = call[u]
      BY <1>10, <1>14, <1>15
    <2>2. /\ entry[call[u].entry].key = call[u].key
          /\ map[call[u].key] # call[u].entry
          /\ \A v \in Thread : call[v].entry = call[u].entry => v = u
          /\ call[u].entry \in {call[u].key} \X Copy
          /\ call[u].key \in Key
      BY <1>1, <2>1 DEF Orderly, InPut, Sound, At
    <2>3. call[u].entry \in Entry /\ call[u].entry # e
      BY <2>1, <2>2 DEF Entry
    <2> QED
      BY <1>4, <1>6, <1>8, <1>10, <2>1, <2>2, <2>3
  <1> QED
    BY <1>11, <1>12, <1>13, <1>16, <1>17, <1>18, <1>19, <1>20 DEF LRUInv, Orderly

LEMMA ResumesCall ==
  ASSUME LruTypeOK, NEW t \in Thread, Resumes(t), Sound(call[t]),
         call[t].at \in {"find", "forget"}, call[t].op # "remove"
  PROVE  \E c \in Call : /\ call' = [call EXCEPT ![t] = c]
                         /\ c.at \notin {"forget", "put"} /\ c.entry = Null /\ Sound(c)
  <1> DEFINE place == IF call[t].op = "flush" THEN "age" ELSE "add"
             c == [call[t] EXCEPT !.at = place, !.victim = Null, !.entry = Null]
  <1>1. call[t] \in Call /\ call \in [Thread -> Call]
    BY DEF LruTypeOK
  <1> DEFINE c1 == [call[t] EXCEPT !.at = place]
             c2 == [c1 EXCEPT !.victim = Null]
  <1>2. c1 \in Call /\ c1.at = place /\ c1.op = call[t].op /\ c1.key = call[t].key
    BY <1>1 DEF Call
  <1>3. c2 \in Call /\ c2.at = place /\ c2.op = call[t].op /\ c2.key = call[t].key
    <2> HIDE DEF c1
    <2> QED
      BY <1>2 DEF Call
  <1>7. c \in Call /\ c.at = place /\ c.op = call[t].op /\ c.key = call[t].key /\ c.entry = Null
    <2>1. c = [c2 EXCEPT !.entry = Null]
      OBVIOUS
    <2> HIDE DEF c, c2
    <2> QED
      BY <1>3, <2>1 DEF Call
  <1>4. call' = [call EXCEPT ![t] = c]
    BY <1>1 DEF Resumes
  <1>5. call[t].op \in {"insert", "flush"} /\ (call[t].op = "insert" => call[t].key \in Key)
    BY DEF Sound
  <1>6. Sound(c) /\ c.at \notin {"forget", "put"} /\ c.entry = Null
    <2> HIDE DEF c
    <2> QED
      BY <1>5, <1>7 DEF Sound
  <1> HIDE DEF c
  <1> QED
    BY <1>4, <1>6, <1>7

LEMMA ForgetStep ==
  ASSUME LRUAssumption, LRUInv, ~raced, NEW t \in Thread, Forget(t)
  PROVE  LRUInv'
  <1>1. LruTypeOK /\ Orderly
    BY DEF LRUInv
  <1> DEFINE g == Gone(t)
             e == call[t].entry
  <1>2. call[t].at = "forget" /\ Sound(call[t]) /\ g = Lost(call[t]) /\ g \in Key
    BY <1>1 DEF Forget, At, Orderly, Sound, Gone, Lost
  <1>3. /\ map[g] = e /\ map' = [map EXCEPT ![g] = Null]
        /\ entry' = entry /\ head' = head /\ tail' = tail /\ count' = count /\ raced' = raced
    BY DEF Forget, list
  <1>4. \E c \in Call : /\ call' = [call EXCEPT ![t] = c]
                        /\ c.at \notin {"forget", "put"} /\ c.entry = Null /\ Sound(c)
    <2>1. CASE call[t].op = "remove"
      <3>1. call' = [call EXCEPT ![t] = Idle]
        BY <2>1 DEF Forget, Ends
      <3>2. Idle \in Call /\ Idle.at = "idle" /\ Idle.entry = Null /\ Sound(Idle)
        BY DEF Idle, Call, Sound
      <3> QED
        BY <3>1, <3>2
    <2>2. CASE call[t].op # "remove"
      BY <1>1, <1>2, <2>2, ResumesCall DEF Forget
    <2> QED
      BY <2>1, <2>2
  <1>5. PICK c \in Call : /\ call' = [call EXCEPT ![t] = c]
                          /\ c.at \notin {"forget", "put"} /\ c.entry = Null /\ Sound(c)
    BY <1>4
  <1>6. /\ call' \in [Thread -> Call] /\ call'[t] = c
        /\ \A u \in Thread : u # t => call'[u] = call[u]
    BY <1>1, <1>5 DEF LruTypeOK
  <1>7. \A k \in Key : map'[k] = IF k = g THEN Null ELSE map[k]
    BY <1>1, <1>2, <1>3 DEF LruTypeOK
  <1> HIDE DEF g
  <1>8. LruTypeOK'
    <2>1. map' \in [Key -> Entry \cup {Null}]
      BY <1>1, <1>3 DEF LruTypeOK
    <2> QED
      BY <1>1, <1>3, <1>6, <2>1 DEF LruTypeOK
  <1>9. Listing' /\ InList' = InList
    <2>1. InList' = InList
      BY <1>3 DEF InList
    <2>2. PICK s : Chain(s)
      BY <1>1 DEF Orderly, Listing
    <2>3. Chain(s)'
      BY <1>3, <2>1, <2>2 DEF Chain
    <2> QED
      BY <2>1, <2>3 DEF Listing, Chain
  <1>10. OneEach' /\ MapKeys' /\ EntryKeys'
    BY <1>1, <1>3, <1>7, <1>9 DEF Orderly, OneEach, MapKeys, EntryKeys
  <1>11. MapListed'
    <2> SUFFICES ASSUME NEW k \in Key, map'[k] # Null
                 PROVE  \/ entry'[map'[k]].key = k
                        \/ \E u \in Thread : At(u, "forget")' /\ call'[u].entry = map'[k]
      BY DEF MapListed
    <2>1. k # g /\ map'[k] = map[k] /\ map[k] # Null /\ map[k] \in {k} \X Copy
      BY <1>1, <1>7 DEF Orderly, MapKeys
    <2>2. map[k] # e
      BY <1>1, <1>2, <1>3, <2>1 DEF Sound
    <2>3. CASE entry[map[k]].key = k
      BY <1>3, <2>1, <2>3
    <2>4. CASE \E u \in Thread : At(u, "forget") /\ call[u].entry = map[k]
      BY <1>6, <2>1, <2>2, <2>4 DEF At
    <2> QED
      BY <1>1, <2>1, <2>3, <2>4 DEF Orderly, MapListed
  <1>12. ListMapped'
    <2> SUFFICES ASSUME NEW k \in Key, NEW f \in Listed(k)'
                 PROVE  map'[k] = f \/ \E u \in Thread : At(u, "put")' /\ call'[u].entry = f
      BY DEF ListMapped
    <2>1. f \in Listed(k) /\ entry[f].key = k
      BY <1>3 DEF Listed
    <2>2. CASE map[k] = f
      <3>1. k # g
        BY <1>1, <1>2, <1>3, <2>1, <2>2 DEF Orderly, InForget, At, LRUAssumption
      <3> QED
        BY <1>7, <2>2, <3>1
    <2>3. CASE \E u \in Thread : At(u, "put") /\ call[u].entry = f
      BY <1>2, <1>6, <2>3 DEF At
    <2> QED
      BY <1>1, <2>1, <2>2, <2>3 DEF Orderly, ListMapped
  <1>13. (\A u \in Thread : Sound(call[u]))'
    BY <1>1, <1>5, <1>6 DEF Orderly
  <1>14. InForget'
    BY <1>1, <1>3, <1>5, <1>6 DEF Orderly, InForget, At
  <1>15. InPut'
    <2> SUFFICES ASSUME NEW u \in Thread, At(u, "put")'
                 PROVE  /\ entry'[call'[u].entry].key = call'[u].key
                        /\ map'[call'[u].key] # call'[u].entry
                        /\ \A v \in Thread : call'[v].entry = call'[u].entry => v = u
      BY DEF InPut
    <2>1. u # t /\ At(u, "put") /\ call'[u] = call[u]
      BY <1>5, <1>6 DEF At
    <2>2. /\ entry[call[u].entry].key = call[u].key
          /\ map[call[u].key] # call[u].entry
          /\ \A v \in Thread : call[v].entry = call[u].entry => v = u
          /\ call[u].entry \in {call[u].key} \X Copy
          /\ call[u].key \in Key
      BY <1>1, <2>1 DEF Orderly, InPut, Sound, At
    <2>3. call[u].entry # Null
      BY <2>2 DEF LRUAssumption
    <2> QED
      BY <1>3, <1>5, <1>6, <1>7, <2>1, <2>2, <2>3
  <1> QED
    BY <1>8, <1>9, <1>10, <1>11, <1>12, <1>13, <1>14, <1>15 DEF LRUInv, Orderly

LEMMA PutStep ==
  ASSUME LRUAssumption, LRUInv, ~raced, NEW t \in Thread, Put(t)
  PROVE  LRUInv'
  <1>1. LruTypeOK /\ Orderly
    BY DEF LRUInv
  <1> DEFINE g == call[t].key
             e == call[t].entry
  <1>2. call[t].at = "put" /\ g \in Key /\ e \in {g} \X Copy /\ e \in Entry /\ e # Null
    BY <1>1 DEF Put, At, Orderly, Sound, Entry, LRUAssumption
  <1>3. /\ entry[e].key = g /\ map[g] # e
        /\ \A u \in Thread : call[u].entry = e => u = t
    BY <1>1, <1>2 DEF Orderly, InPut, At
  <1>4. /\ map' = [map EXCEPT ![g] = e] /\ call' = [call EXCEPT ![t] = Idle]
        /\ entry' = entry /\ head' = head /\ tail' = tail /\ count' = count /\ raced' = raced
    BY DEF Put, Ends, list
  <1>5. Idle \in Call /\ Idle.at = "idle" /\ Idle.entry = Null /\ Sound(Idle)
    BY DEF Idle, Call, Sound
  <1>6. /\ call' \in [Thread -> Call] /\ call'[t] = Idle
        /\ \A u \in Thread : u # t => call'[u] = call[u]
    BY <1>1, <1>4, <1>5 DEF LruTypeOK
  <1>7. \A k \in Key : map'[k] = IF k = g THEN e ELSE map[k]
    BY <1>1, <1>2, <1>4 DEF LruTypeOK
  <1> HIDE DEF g, e
  <1>8. LruTypeOK'
    <2>1. map' \in [Key -> Entry \cup {Null}]
      BY <1>1, <1>2, <1>4 DEF LruTypeOK
    <2> QED
      BY <1>1, <1>4, <1>6, <2>1 DEF LruTypeOK
  <1>9. Listing' /\ InList' = InList
    <2>1. InList' = InList
      BY <1>4 DEF InList
    <2>2. PICK s : Chain(s)
      BY <1>1 DEF Orderly, Listing
    <2>3. Chain(s)'
      BY <1>4, <2>1, <2>2 DEF Chain
    <2> QED
      BY <2>1, <2>3 DEF Listing, Chain
  <1>10. OneEach' /\ MapKeys' /\ EntryKeys'
    BY <1>1, <1>2, <1>4, <1>7, <1>9 DEF Orderly, OneEach, MapKeys, EntryKeys
  <1>11. MapListed'
    <2> SUFFICES ASSUME NEW k \in Key, map'[k] # Null
                 PROVE  \/ entry'[map'[k]].key = k
                        \/ \E u \in Thread : At(u, "forget")' /\ call'[u].entry = map'[k]
      BY DEF MapListed
    <2>1. CASE k = g
      BY <1>3, <1>4, <1>7, <2>1
    <2>2. CASE k # g
      <3>1. map'[k] = map[k]
        BY <1>7, <2>2
      <3>2. \A u \in Thread : At(u, "forget") => At(u, "forget")' /\ call'[u].entry = call[u].entry
        BY <1>2, <1>6 DEF At
      <3> QED
        BY <1>1, <1>4, <3>1, <3>2 DEF Orderly, MapListed
    <2> QED
      BY <2>1, <2>2
  <1>12. ListMapped'
    <2> SUFFICES ASSUME NEW k \in Key, NEW f \in Listed(k)'
                 PROVE  map'[k] = f \/ \E u \in Thread : At(u, "put")' /\ call'[u].entry = f
      BY DEF ListMapped
    <2>1. f \in Listed(k) /\ entry[f].key = k /\ f \in {k} \X Copy /\ f \in InList
      BY <1>4, LRUAssumption DEF Listed, InList, Entry, LRUAssumption
    <2>2. CASE f = e
      BY <1>2, <1>7, <2>1, <2>2
    <2>3. CASE f # e
      <3>1. k # g
        BY <1>1, <1>2, <1>3, <2>1, <2>3, LRUAssumption DEF Orderly, OneEach, InList, LRUAssumption
      <3>2. \A u \in Thread : At(u, "put") /\ call[u].entry = f => At(u, "put")' /\ call'[u].entry = f
        BY <1>6, <2>3 DEF At, e
      <3> QED
        BY <1>1, <1>7, <2>1, <3>1, <3>2 DEF Orderly, ListMapped
    <2> QED
      BY <2>2, <2>3
  <1>13. (\A u \in Thread : Sound(call[u]))'
    BY <1>1, <1>5, <1>6 DEF Orderly
  <1>14. InForget'
    BY <1>1, <1>4, <1>5, <1>6 DEF Orderly, InForget, At
  <1>15. InPut'
    <2> SUFFICES ASSUME NEW u \in Thread, At(u, "put")'
                 PROVE  /\ entry'[call'[u].entry].key = call'[u].key
                        /\ map'[call'[u].key] # call'[u].entry
                        /\ \A v \in Thread : call'[v].entry = call'[u].entry => v = u
      BY DEF InPut
    <2>1. u # t /\ At(u, "put") /\ call'[u] = call[u]
      BY <1>5, <1>6 DEF At
    <2>2. /\ entry[call[u].entry].key = call[u].key
          /\ map[call[u].key] # call[u].entry
          /\ \A v \in Thread : call[v].entry = call[u].entry => v = u
          /\ call[u].entry \in {call[u].key} \X Copy
          /\ call[u].key \in Key
      BY <1>1, <2>1 DEF Orderly, InPut, Sound, At
    <2>3. call[u].entry # Null /\ call[u].entry # e
      BY <1>3, <2>1, <2>2 DEF LRUAssumption, e
    <2> QED
      BY <1>4, <1>5, <1>6, <1>7, <2>1, <2>2, <2>3
  <1> QED
    BY <1>8, <1>9, <1>10, <1>11, <1>12, <1>13, <1>14, <1>15 DEF LRUInv, Orderly

LEMMA AddStep ==
  ASSUME LRUAssumption, LRUInv, ~raced, NEW t \in Thread, Add(t)
  PROVE  LRUInv'
  <1>1. LruTypeOK /\ Orderly
    BY DEF LRUInv
  <1> DEFINE g == call[t].key
  <1>2. call[t].at = "add" /\ call[t].op = "insert" /\ g \in Key /\ call[t] \in Call /\ count < Capacity
    BY <1>1 DEF Add, At, Orderly, Sound, LruTypeOK
  <1>3. PICK e : /\ e \in Unused(g)
                 /\ AddFirst(e, g)
                 /\ call' = [call EXCEPT ![t].at = "put", ![t].entry = e]
    BY DEF Add
  <1>4. /\ e \in {g} \X Copy /\ e \in Entry /\ e # Null /\ entry[e].key = Null /\ e \notin InList
        /\ \A u \in Thread : call[u].entry # e
    BY <1>2, <1>3 DEF Unused, Entry, InList, LRUAssumption
  <1>5. Listed(g) = {} /\ map' = map /\ raced' = raced
    BY DEF Add
  <1>6. map[g] # e
    BY <1>1, <1>2, <1>4 DEF Orderly, MapListed, LRUAssumption
  <1>7. ListStep(e, g)
    BY <1>1, <1>2, <1>3, <1>4, AddFirstStep
  <1>8. entry'[e].key = g /\ \A f \in Entry : f # e => entry'[f].key = entry[f].key
    BY <1>7 DEF ListStep
  <1>9. InList' = InList \cup {e}
    BY <1>2, <1>4, <1>8, LRUAssumption DEF InList, LRUAssumption
  <1> DEFINE b == [call[t] EXCEPT !.at = "put"]
             c == [b EXCEPT !.entry = e]
  <1>10. b \in Call /\ b.at = "put" /\ b.op = "insert" /\ b.key = g
    BY <1>2 DEF Call
  <1>11. call' = [call EXCEPT ![t] = c]
    BY <1>1, <1>3 DEF LruTypeOK
  <1> HIDE DEF b
  <1>12. c \in Call /\ c.at = "put" /\ c.op = "insert" /\ c.key = g /\ c.entry = e
    BY <1>4, <1>10 DEF Call
  <1> HIDE DEF c
  <1>13. Sound(c)
    BY <1>2, <1>4, <1>12 DEF Sound
  <1>14. /\ call' \in [Thread -> Call] /\ call'[t] = c
         /\ \A u \in Thread : u # t => call'[u] = call[u]
    BY <1>1, <1>11, <1>12 DEF LruTypeOK
  <1>15. Listing'
    <2>1. PICK s : Chain(s)
      BY <1>1 DEF Orderly, Listing
    <2> QED
      BY <1>1, <1>2, <1>3, <1>4, <2>1, AddChain
  <1>16. LruTypeOK'
    <2>1. count' \in 0 .. Capacity
      BY <1>1, <1>2, <1>3, LRUAssumption DEF LruTypeOK, AddFirst, LRUAssumption
    <2> QED
      BY <1>1, <1>5, <1>7, <1>14, <2>1 DEF LruTypeOK, ListStep, Link
  <1>17. \A f \in InList : entry[f].key # g
    <2> SUFFICES ASSUME NEW f \in InList, entry[f].key = g
                 PROVE  FALSE
      OBVIOUS
    <2>1. f \in {g} \X Copy
      BY <1>1, <1>2, LRUAssumption DEF Orderly, EntryKeys, InList, LRUAssumption
    <2> QED
      BY <1>5, <2>1 DEF Listed
  <1>18. OneEach' /\ MapKeys' /\ EntryKeys'
    <2>1. OneEach'
      BY <1>1, <1>4, <1>8, <1>9, <1>17 DEF Orderly, OneEach, InList
    <2>2. EntryKeys'
      <3> SUFFICES ASSUME NEW f \in Entry, entry'[f].key # Null
                   PROVE  f \in {entry'[f].key} \X Copy
        BY DEF EntryKeys
      <3> QED
        BY <1>1, <1>4, <1>8 DEF Orderly, EntryKeys
    <2> QED
      BY <1>1, <1>5, <2>1, <2>2 DEF Orderly, MapKeys
  <1>19. MapListed'
    <2> SUFFICES ASSUME NEW k \in Key, map'[k] # Null
                 PROVE  \/ entry'[map'[k]].key = k
                        \/ \E u \in Thread : At(u, "forget")' /\ call'[u].entry = map'[k]
      BY DEF MapListed
    <2>1. map'[k] = map[k] /\ map[k] \in Entry /\ map[k] \in {k} \X Copy
      BY <1>1, <1>5 DEF LruTypeOK, Orderly, MapKeys
    <2>2. map[k] # e
      BY <1>2, <1>4, <1>6, <2>1
    <2>3. \A u \in Thread : At(u, "forget") => At(u, "forget")' /\ call'[u].entry = call[u].entry
      BY <1>2, <1>14 DEF At
    <2> QED
      BY <1>1, <1>8, <2>1, <2>2, <2>3 DEF Orderly, MapListed
  <1>20. ListMapped'
    <2> SUFFICES ASSUME NEW k \in Key, NEW f \in Listed(k)'
                 PROVE  map'[k] = f \/ \E u \in Thread : At(u, "put")' /\ call'[u].entry = f
      BY DEF ListMapped
    <2>1. CASE f = e
      BY <1>12, <1>14, <2>1 DEF At
    <2>2. CASE f # e
      <3>1. f \in Listed(k)
        BY <1>8, <2>2 DEF Listed, Entry
      <3>2. \A u \in Thread : At(u, "put") => At(u, "put")' /\ call'[u].entry = call[u].entry
        BY <1>2, <1>14 DEF At
      <3> QED
        BY <1>1, <1>5, <3>1, <3>2 DEF Orderly, ListMapped
    <2> QED
      BY <2>1, <2>2
  <1>21. (\A u \in Thread : Sound(call[u]))'
    BY <1>1, <1>13, <1>14 DEF Orderly
  <1>22. InForget'
    <2> SUFFICES ASSUME NEW u \in Thread, At(u, "forget")'
                 PROVE  entry'[call'[u].entry].key = Null
      BY DEF InForget
    <2>1. u # t /\ At(u, "forget") /\ call'[u] = call[u]
      BY <1>12, <1>14 DEF At
    <2>2. entry[call[u].entry].key = Null /\ call[u].entry \in Entry /\ call[u].entry # e
      BY <1>1, <1>4, <2>1 DEF Orderly, InForget, Sound, At, Entry
    <2> QED
      BY <1>8, <2>1, <2>2
  <1>23. InPut'
    <2> SUFFICES ASSUME NEW u \in Thread, At(u, "put")'
                 PROVE  /\ entry'[call'[u].entry].key = call'[u].key
                        /\ map'[call'[u].key] # call'[u].entry
                        /\ \A v \in Thread : call'[v].entry = call'[u].entry => v = u
      BY DEF InPut
    <2>1. CASE u = t
      BY <1>4, <1>5, <1>6, <1>8, <1>12, <1>14, <2>1
    <2>2. CASE u # t
      <3>1. At(u, "put") /\ call'[u] = call[u]
        BY <1>14, <2>2 DEF At
      <3>2. /\ entry[call[u].entry].key = call[u].key
            /\ map[call[u].key] # call[u].entry
            /\ \A v \in Thread : call[v].entry = call[u].entry => v = u
            /\ call[u].entry \in {call[u].key} \X Copy
            /\ call[u].key \in Key
        BY <1>1, <3>1 DEF Orderly, InPut, Sound, At
      <3>3. call[u].entry \in Entry /\ call[u].entry # e
        BY <1>4, <3>2 DEF Entry
      <3> QED
        BY <1>5, <1>8, <1>12, <1>14, <2>2, <3>1, <3>2, <3>3
    <2> QED
      BY <2>1, <2>2
  <1> QED
    BY <1>15, <1>16, <1>18, <1>19, <1>20, <1>21, <1>22, <1>23 DEF LRUInv, Orderly

LEMMA RaceStep ==
  ASSUME LRUInv, NEW t \in Thread, Race(t)
  PROVE  LRUInv'
  BY DEF LRUInv, LruTypeOK, Race, list

\* The tail of a list that is not empty has a key.
LEMMA TailHasKey ==
  ASSUME LRUAssumption, LruTypeOK, Listing, count > 0 \/ tail # Null
  PROVE  tail \in Entry /\ entry[tail].key \in Key
  <1>1. PICK s : Chain(s)
    BY DEF Listing
  <1>2. count > 0 /\ tail = s[count] /\ tail \in InList
    BY <1>1, ChainFacts
  <1> QED
    BY <1>2 DEF InList, LruTypeOK

LEMMA BeginsStep ==
  ASSUME LRUAssumption, LRUInv, ~raced, NEW t \in Thread,
         NEW op \in {"get", "insert", "remove", "flush"}, NEW k \in Key \cup {Null},
         NEW place \in {"promote", "demote", "unlink", "age"}, NEW e \in Entry \cup {Null},
         Begins(t, op, k, place, e),
         e = Null \/ \E l \in Key : e = map[l],
         \/ op = "get" /\ place = "promote" /\ e # Null
         \/ op = "insert" /\ place = "demote" /\ k \in Key /\ e = Null
         \/ op = "remove" /\ place = "unlink" /\ k \in Key /\ e \in {k} \X Copy
         \/ op = "flush" /\ place = "age" /\ e = Null
  PROVE  LRUInv'
  <1> DEFINE c == [at |-> place, op |-> op, key |-> k, victim |-> Null, entry |-> e]
  <1>1. call' = [call EXCEPT ![t] = c] /\ call[t].at = "idle" /\ UNCHANGED <<map, list, raced>>
    <2>1. [Idle EXCEPT !.at = place, !.op = op, !.key = k, !.entry = e] = c
      <3> DEFINE a1 == [Idle EXCEPT !.at = place]
                 a2 == [a1 EXCEPT !.op = op]
                 a3 == [a2 EXCEPT !.key = k]
                 a4 == [a3 EXCEPT !.entry = e]
      <3>1. a1 = [at |-> place, op |-> "none", key |-> Null, victim |-> Null, entry |-> Null]
        BY DEF Idle
      <3> HIDE DEF a1
      <3>2. a2 = [at |-> place, op |-> op, key |-> Null, victim |-> Null, entry |-> Null]
        BY <3>1
      <3> HIDE DEF a2
      <3>3. a3 = [at |-> place, op |-> op, key |-> k, victim |-> Null, entry |-> Null]
        BY <3>2
      <3> HIDE DEF a3
      <3>4. a4 = c
        BY <3>3
      <3> QED
        BY <3>4 DEF a1, a2, a3
    <2> HIDE DEF c
    <2> QED
      BY <2>1 DEF Begins, At
  <1>2. c \in Call
    BY DEF Call
  <1>3. Sound(c)
    BY DEF Sound, Lost
  <1>4. c.at \notin {"forget", "put"} /\ c.entry = e
    OBVIOUS
  <1> HIDE DEF c
  <1> QED
    BY <1>1, <1>2, <1>3, <1>4, CallStep

\* Demote and FlushTail, when they let the tail go.
LEMMA AgesOutStep ==
  ASSUME LRUAssumption, LRUInv, ~raced, NEW t \in Thread, AgesOut(t, tail),
         UNCHANGED <<map, list, raced>>, call[t].at \in {"demote", "age"},
         count > 0 \/ tail # Null
  PROVE  LRUInv'
  <1>1. LruTypeOK /\ Orderly /\ Sound(call[t]) /\ call[t] \in Call
    BY DEF LRUInv, Orderly, LruTypeOK
  <1>2. entry[tail].key \in Key
    BY <1>1, TailHasKey DEF Orderly
  <1> DEFINE b == [call[t] EXCEPT !.at = "find"]
             c == [b EXCEPT !.victim = entry[tail].key]
  <1>3. call' = [call EXCEPT ![t] = c]
    BY <1>1 DEF AgesOut, LruTypeOK
  <1>4. /\ b \in Call /\ b.at = "find" /\ b.op = call[t].op /\ b.key = call[t].key
        /\ b.entry = call[t].entry
    BY <1>1 DEF Call
  <1> HIDE DEF b
  <1>5. /\ c \in Call /\ c.at = "find" /\ c.op = call[t].op /\ c.key = call[t].key
        /\ c.entry = call[t].entry /\ c.victim \in Key
    BY <1>2, <1>4 DEF Call
  <1> HIDE DEF c
  <1>6. Sound(c) /\ c.entry = Null
    BY <1>1, <1>5 DEF Sound
  <1> QED
    BY <1>3, <1>5, <1>6, CallStep

LEMMA EndsStep ==
  ASSUME LRUAssumption, LRUInv, ~raced, NEW t \in Thread, Ends(t),
         UNCHANGED <<map, list, raced>>, call[t].at \notin {"forget", "put"}
  PROVE  LRUInv'
  <1>1. call' = [call EXCEPT ![t] = Idle]
    BY DEF Ends
  <1>2. Idle \in Call /\ Idle.at = "idle" /\ Idle.entry = Null /\ Sound(Idle)
    BY DEF Idle, Call, Sound
  <1> QED
    BY <1>1, <1>2, CallStep

LEMMA DemoteStep ==
  ASSUME LRUAssumption, LRUInv, ~raced, NEW t \in Thread, Demote(t)
  PROVE  LRUInv'
  <1>1. LruTypeOK /\ Sound(call[t]) /\ call[t] \in Call /\ call[t].at = "demote"
    BY DEF LRUInv, Orderly, LruTypeOK, Demote, At
  <1>2. CASE count = Capacity
    BY <1>1, <1>2, AgesOutStep DEF Demote, LRUAssumption
  <1>3. CASE count # Capacity
    <2> DEFINE c == [call[t] EXCEPT !.at = "add"]
    <2>1. call' = [call EXCEPT ![t] = c]
      BY <1>3 DEF Demote, Goto
    <2>2. /\ c \in Call /\ c.at = "add" /\ c.op = call[t].op /\ c.key = call[t].key
          /\ c.entry = call[t].entry
      BY <1>1 DEF Call
    <2> HIDE DEF c
    <2>3. Sound(c) /\ c.entry = Null
      BY <1>1, <2>2 DEF Sound
    <2> QED
      BY <1>1, <2>1, <2>2, <2>3, CallStep DEF Demote
  <1> QED
    BY <1>2, <1>3

LEMMA FlushTailStep ==
  ASSUME LRUAssumption, LRUInv, ~raced, NEW t \in Thread, FlushTail(t)
  PROVE  LRUInv'
  <1>1. call[t].at = "age" /\ UNCHANGED <<map, list, raced>>
    BY DEF FlushTail, At
  <1>2. CASE tail = Null
    BY <1>1, <1>2, EndsStep DEF FlushTail
  <1>3. CASE tail # Null
    BY <1>1, <1>3, AgesOutStep DEF FlushTail
  <1> QED
    BY <1>2, <1>3

LEMMA FindStep ==
  ASSUME LRUAssumption, LRUInv, ~raced, NEW t \in Thread, Find(t)
  PROVE  LRUInv'
  <1>1. LruTypeOK /\ Orderly /\ Sound(call[t]) /\ call[t] \in Call /\ call[t].at = "find"
    BY DEF LRUInv, Orderly, LruTypeOK, Find, At
  <1>2. call[t].op \in {"insert", "flush"} /\ call[t].victim \in Key
    BY <1>1 DEF Sound
  <1> DEFINE e == map[call[t].victim]
  <1>3. CASE e = Null
    <2>1. PICK c \in Call : /\ call' = [call EXCEPT ![t] = c]
                            /\ c.at \notin {"forget", "put"} /\ c.entry = Null /\ Sound(c)
      BY <1>1, <1>2, <1>3, ResumesCall DEF Find
    <2> QED
      BY <1>1, <2>1, CallStep DEF Find
  <1>4. CASE e # Null
    <2> DEFINE b == [call[t] EXCEPT !.at = "unlink"]
               c == [b EXCEPT !.entry = e]
    <2>1. call' = [call EXCEPT ![t] = c]
      BY <1>1, <1>4 DEF Find, LruTypeOK
    <2>2. e \in Entry /\ e \in {call[t].victim} \X Copy
      BY <1>1, <1>2, <1>4 DEF LruTypeOK, Orderly, MapKeys
    <2>3. /\ b \in Call /\ b.at = "unlink" /\ b.op = call[t].op /\ b.key = call[t].key
          /\ b.victim = call[t].victim
      BY <1>1 DEF Call
    <2> HIDE DEF b
    <2>4. /\ c \in Call /\ c.at = "unlink" /\ c.op = call[t].op /\ c.key = call[t].key
          /\ c.entry = e /\ c.victim = call[t].victim
      BY <2>2, <2>3 DEF Call
    <2> HIDE DEF c
    <2>5. Sound(c)
      BY <1>1, <1>2, <2>2, <2>4 DEF Sound, Lost
    <2> QED
      BY <1>1, <1>2, <2>1, <2>4, <2>5, CallStep DEF Find
  <1> QED
    BY <1>3, <1>4

LEMMA NextInv ==
  ASSUME LRUAssumption, LRUInv, [~raced /\ Next]_vars
  PROVE  LRUInv'
  <1>1. CASE UNCHANGED vars
    <2>1. /\ LruTypeOK' /\ raced' = raced /\ call' = call /\ map' = map
          /\ entry' = entry /\ head' = head /\ tail' = tail /\ count' = count
      BY <1>1 DEF vars, list, LRUInv, LruTypeOK
    <2>2. CASE raced
      BY <2>1, <2>2 DEF LRUInv
    <2>3. CASE ~raced
      <3>1. Orderly'
        BY <2>1, <2>3 DEF LRUInv, Orderly, Listing, Chain, InList, OneEach, MapKeys, EntryKeys,
                          MapListed, ListMapped, Listed, InForget, InPut, At
      <3> QED
        BY <2>1, <3>1 DEF LRUInv
    <2> QED
      BY <2>2, <2>3
  <1>2. CASE ~raced /\ Next
    <2>1. LruTypeOK /\ MapKeys
      BY <1>2 DEF LRUInv, Orderly
    <2>2. ASSUME NEW t \in Thread, NEW k \in Key, Get(t, k)
          PROVE  LRUInv'
      BY <1>2, <2>1, <2>2, BeginsStep DEF Get, LruTypeOK
    <2>3. ASSUME NEW t \in Thread, NEW k \in Key, Insert(t, k)
          PROVE  LRUInv'
      BY <1>2, <2>1, <2>3, BeginsStep DEF Insert, LruTypeOK
    <2>4. ASSUME NEW t \in Thread, NEW k \in Key, Remove(t, k)
          PROVE  LRUInv'
      BY <1>2, <2>1, <2>4, BeginsStep DEF Remove, LruTypeOK, MapKeys
    <2>5. ASSUME NEW t \in Thread, Flush(t)
          PROVE  LRUInv'
      BY <1>2, <2>5, BeginsStep DEF Flush
    <2>6. ASSUME NEW t \in Thread, AddFails(t)
          PROVE  LRUInv'
      BY <1>2, <2>6, EndsStep DEF AddFails, At
    <2>7. ASSUME NEW t \in Thread, Step(t)
          PROVE  LRUInv'
      BY <1>2, <2>6, <2>7, PromoteStep, DemoteStep, FlushTailStep, FindStep, UnlinkStep,
         ForgetStep, AddStep, PutStep, RaceStep DEF Step
    <2> QED
      BY <1>2, <2>2, <2>3, <2>4, <2>5, <2>7 DEF Next
  <1> QED
    BY <1>1, <1>2

LEMMA SpecInv == Spec => []LRUInv
  BY LRUAssumption, InitInv, NextInv, PTL DEF Spec

LEMMA InvImplies ==
  ASSUME LRUAssumption, LRUInv
  PROVE  LruTypeOK /\ Whole /\ MapIsList
  BY DEF LRUInv, Orderly, Listing, OneEach, MapListed, ListMapped, Whole, MapIsList
-----------------------------------------------------------------------------
(* Theorems                                                                *)

\* The list never has more entries than the cache has room for, whatever the calls of the
\* threads do between each other, and the links are links to entries.
THEOREM LruTypes == Spec => []LruTypeOK
  BY LRUAssumption, SpecInv, InvImplies, PTL

\* While no two calls have crossed on an entry, the links of the list are a chain of all its
\* entries, from the head to the tail and back, and no key has two.
THEOREM ListIsWhole == Spec => []Whole
  BY LRUAssumption, SpecInv, InvImplies, PTL

\* While no two calls have crossed on an entry, the map and the list have the same entries, but
\* for those that a call is about to forget or to put.
THEOREM MapAndListAgree == Spec => []MapIsList
  BY LRUAssumption, SpecInv, InvImplies, PTL
=============================================================================
