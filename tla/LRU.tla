-------------------------------- MODULE LRU --------------------------------
(***************************************************************************)
(* What FastCache (filetree/fastcache.go) promises, per its comments and  *)
(* spec section 4.D: a map of at most Capacity plaintext paths to          *)
(* ciphertext paths, kept in recency order.  Find of a present key and    *)
(* Store both count as a use; Store of a new key at capacity evicts the   *)
(* least recently used key.                                               *)
(***************************************************************************)
EXTENDS Naturals, Sequences
LOCAL INSTANCE SequencesExt
LOCAL INSTANCE Functions

CONSTANTS PPaths, CPaths, Capacity

VARIABLES order,  \* the cached keys, least recently used first
          map     \* key -> ciphertext path

lruVars == <<order, map>>

Touch(p) == Append(Remove(order, p), p)

LRUInit == order = <<>> /\ map = <<>>

LRUFind(p) ==
  /\ p \in DOMAIN map
  /\ order' = Touch(p)
  /\ UNCHANGED map

LRUMiss(p) ==
  /\ p \notin DOMAIN map
  /\ UNCHANGED lruVars

LRUStore(p, c) ==
  \/ /\ p \in DOMAIN map
     /\ order' = Touch(p)
     /\ map' = [map EXCEPT ![p] = c]
  \/ /\ p \notin DOMAIN map /\ Len(order) = Capacity
     /\ order' = Append(Tail(order), p)
     /\ map' = (p :> c) @@ Restrict(map, DOMAIN map \ {Head(order)})
  \/ /\ p \notin DOMAIN map /\ Len(order) < Capacity
     /\ order' = Append(order, p)
     /\ map' = (p :> c) @@ map

LRUClear == order' = <<>> /\ map' = <<>>

LRUNext ==
  \/ \E p \in PPaths : LRUFind(p) \/ LRUMiss(p)
  \/ \E p \in PPaths, c \in CPaths : LRUStore(p, c)
  \/ LRUClear

LRUSpec == LRUInit /\ [][LRUNext]_lruVars
=============================================================================
