------------------------------ MODULE FastCache ------------------------------
(***************************************************************************)
(* The LRU directory-mapping cache of package filetree (fastcache.go): a   *)
(* map storage from plaintext path to a DirMapping node, the nodes kept in *)
(* a doubly linked list from head (least recently used) to last.  Every    *)
(* operation holds f.lock, so each is one step.  Nodes are numbered in     *)
(* allocation order; Clear drops them all, so numbering restarts at 1.     *)
(***************************************************************************)
EXTENDS Naturals, Sequences, FiniteSets, TLC
LOCAL INSTANCE Functions

CONSTANTS
  PPaths,      \* plaintext directory paths
  CPaths,      \* ciphertext directory paths
  CacheSize,   \* cacheSize (filetree.go: 16)
  NoPath       \* the zero string of a fresh DirMapping: no path

ASSUME CacheSize \in Nat \ {0} /\ NoPath \notin PPaths \cup CPaths

Nil == 0
Nodes == 1..CacheSize        \* at most cacheSize nodes are ever allocated

VARIABLES
  storage,     \* f.storage: plaintext path -> node
  pPath,       \* node.PlaintextPath
  cPath,       \* node.CiphertextPath
  prev,        \* node.prev
  next,        \* node.next
  head,        \* f.head
  last,        \* f.last
  count,       \* f.count
  stored       \* history: the ciphertext path last stored for each path

listVars == <<prev, next, head, last>>
vars == <<storage, pPath, cPath, prev, next, head, last, count, stored>>

-----------------------------------------------------------------------------
(* refreshNode: the list fields after moving d to the end.  The Go         *)
(* statements run in order, so the updates of next are composed in that   *)
(* order.  The old successor's prev field is left as it is.               *)
RefreshNode(d) ==
  IF next[d] # Nil
  THEN LET n1 == IF prev[d] # Nil THEN [next EXCEPT ![prev[d]] = next[d]] ELSE next
           n2 == [n1 EXCEPT ![d] = Nil]
       IN [prev |-> [prev EXCEPT ![d] = last],
           next |-> [n2 EXCEPT ![last] = d],
           head |-> IF prev[d] # Nil THEN head ELSE next[d],
           last |-> d]
  ELSE [prev |-> prev, next |-> next, head |-> head, last |-> last]

SetList(r) ==
  /\ prev' = r.prev /\ next' = r.next /\ head' = r.head /\ last' = r.last

\* Store: f.count++ went past the capacity.
\* mutant: one entry too many before the head is reused
OverCapacityLate(cnt) == cnt > CacheSize + 1

OverCapacity(cnt) == cnt > CacheSize

\* mutant: the key dropped from storage is read after the node is renamed
EvictedKeyAfterRename(d, p) == p

\* the key dropped from storage when the head node is reused (oldHeadPath)
EvictedKey(d, p) == pPath[d]

\* mutant: Clear drops the nodes but keeps f.count
ClearedCountKept(cnt) == cnt

\* Clear: f.count = 0
ClearedCount(cnt) == 0

-----------------------------------------------------------------------------
Init ==
  /\ storage = <<>>
  /\ pPath = [n \in Nodes |-> NoPath]
  /\ cPath = [n \in Nodes |-> NoPath]
  /\ prev = [n \in Nodes |-> Nil]
  /\ next = [n \in Nodes |-> Nil]
  /\ head = Nil /\ last = Nil
  /\ count = 0
  /\ stored = <<>>

\* Find of a cached path: refreshNode, return a copy.
Find(p) ==
  /\ p \in DOMAIN storage
  /\ SetList(RefreshNode(storage[p]))
  /\ UNCHANGED <<storage, pPath, cPath, count, stored>>

\* Find of a path that is not cached.
FindMiss(p) ==
  /\ p \notin DOMAIN storage
  /\ UNCHANGED vars

\* Store of a cached path: refreshNode, then the new ciphertext path.
StoreExisting(p, c) ==
  /\ p \in DOMAIN storage
  /\ SetList(RefreshNode(storage[p]))
  /\ cPath' = [cPath EXCEPT ![storage[p]] = c]
  /\ stored' = [stored EXCEPT ![p] = c]
  /\ UNCHANGED <<storage, pPath, count>>

\* Store of a new path at capacity: reuse the head node.
StoreEvict(p, c) ==
  LET d == head IN
  /\ p \notin DOMAIN storage
  /\ OverCapacity(count + 1)
  /\ SetList(RefreshNode(d))
  /\ pPath' = [pPath EXCEPT ![d] = p]
  /\ cPath' = [cPath EXCEPT ![d] = c]
  /\ count' = CacheSize
  /\ storage' = (p :> d) @@ Restrict(storage, DOMAIN storage \ {EvictedKey(d, p)})
  /\ stored' = (p :> c) @@ stored

\* Store of a new path below capacity: a new node at the end of the list.
StoreNew(p, c) ==
  LET n == count + 1 IN
  /\ p \notin DOMAIN storage
  /\ ~OverCapacity(count + 1)
  /\ storage' = (p :> n) @@ storage
  /\ pPath' = [pPath EXCEPT ![n] = p]
  /\ cPath' = [cPath EXCEPT ![n] = c]
  /\ count' = n
  /\ IF head = Nil
     THEN /\ head' = n /\ last' = n
          /\ prev' = [prev EXCEPT ![n] = Nil]
          /\ next' = [next EXCEPT ![n] = Nil]
     ELSE /\ prev' = [prev EXCEPT ![n] = last]
          /\ next' = [next EXCEPT ![last] = n, ![n] = Nil]
          /\ last' = n /\ UNCHANGED head
  /\ stored' = (p :> c) @@ stored

\* Clear: drop every node.
Clear ==
  /\ storage' = <<>>
  /\ head' = Nil /\ last' = Nil
  /\ count' = ClearedCount(count)
  /\ stored' = <<>>
  /\ UNCHANGED <<pPath, cPath, prev, next>>

Next ==
  \/ \E p \in PPaths : Find(p) \/ FindMiss(p)
  \/ \E p \in PPaths, c \in CPaths : StoreExisting(p, c) \/ StoreEvict(p, c) \/ StoreNew(p, c)
  \/ Clear

Spec == Init /\ [][Next]_vars

-----------------------------------------------------------------------------
(* Properties                                                              *)

TypeOK ==
  /\ DOMAIN storage \subseteq PPaths /\ \A p \in DOMAIN storage : storage[p] \in Nodes
  /\ pPath \in [Nodes -> PPaths \cup {NoPath}] /\ cPath \in [Nodes -> CPaths \cup {NoPath}]
  /\ prev \in [Nodes -> Nodes \cup {Nil}] /\ next \in [Nodes -> Nodes \cup {Nil}]
  /\ head \in Nodes \cup {Nil} /\ last \in Nodes \cup {Nil}
  /\ count \in 0..CacheSize
  /\ DOMAIN stored \subseteq PPaths /\ \A p \in DOMAIN stored : stored[p] \in CPaths

\* Find(p) returns the mapping last stored for p: the node storage[p]
\* names carries p and that ciphertext path, whatever evictions reused it.
MappingSound ==
  /\ DOMAIN storage \subseteq DOMAIN stored
  /\ \A p \in DOMAIN storage : pPath[storage[p]] = p /\ cPath[storage[p]] = stored[p]

\* f.count counts the entries of storage and never exceeds cacheSize.
SizeAccounting ==
  count = Cardinality(DOMAIN storage) /\ count <= CacheSize

\* The nodes met walking next from head (at most CacheSize + 1 of them).
RECURSIVE WalkNext(_, _)
WalkNext(n, k) == IF n = Nil \/ k = 0 THEN <<>> ELSE <<n>> \o WalkNext(next[n], k - 1)

\* FastCache implements the LRU specification: the walk from head is the
\* recency order, storage gives the map.
LRUOrder == LET fwd == WalkNext(head, CacheSize + 1) IN [i \in DOMAIN fwd |-> pPath[fwd[i]]]

Abstract == INSTANCE LRU WITH order <- LRUOrder,
                              map <- [p \in DOMAIN storage |-> cPath[storage[p]]],
                              Capacity <- CacheSize

ImplementsLRU == Abstract!LRUSpec
=============================================================================
