------------------------------ MODULE KeyCache ------------------------------
(***************************************************************************)
(* What one coalescer cache promises (spec 4.C and 5), with no queue,     *)
(* tickets or condition variables: each key follows the state machine     *)
(*                                                                         *)
(*    Absent --GetOrInsert--> Pending(w) --op completes--> resolved       *)
(*    resolved --Delete or Clear--> Absent,  Pending --Clear--> Absent    *)
(*                                                                         *)
(* where a resolved entry holds data, an error, or nothing (the transient *)
(* empty result), always with ticket 0.  A worker whose op was in flight  *)
(* when a Clear removed its entry may still resolve the key (spec 5).     *)
(* A call returns, at one instant between its start and its return, the   *)
(* data the key then holds, or an error the key holds that was produced   *)
(* after the call began, or gives up (timeout, exhausted retries).        *)
(* A resolved entry's val numbers the op that produced it (0 for empty).  *)
(***************************************************************************)
EXTENDS Naturals

CONSTANTS Callers, Workers, Keys

VARIABLES
  entry,     \* entry[k]: the state of key k
  inflight,  \* pairs <<w, k>>: worker w runs the op for key k
  done,      \* ops completed so far
  busy,      \* busy[c]: caller c is inside a call
  key,       \* key[c]: the key of c's call
  since,     \* since[c]: ops completed when c's call began
  out        \* out[c]: what c's last call returned

avars == <<entry, inflight, done, busy, key, since, out>>

Absent == [kind |-> "Absent", tid |-> 0, val |-> 0]
Pending(w) == [kind |-> "Pending", tid |-> w, val |-> 0]
Settled(r, n) == [kind |-> r, tid |-> 0, val |-> n]
NoOutcome == [kind |-> "None", n |-> 0]

\* GetOrInsert on an absent key: the worker's ticket now owns the op.
Insert(w, k) ==
  /\ entry[k] = Absent /\ \A kk \in Keys : <<w, kk>> \notin inflight
  /\ entry' = [entry EXCEPT ![k] = Pending(w)]
  /\ inflight' = inflight \cup {<<w, k>>}
  /\ UNCHANGED <<done, busy, key, since, out>>

\* The op completes with r ("Data", "Err" or "Empty") and the key resolves.
Complete(w, k, r) ==
  /\ <<w, k>> \in inflight
  /\ done' = done + 1
  /\ entry' = [entry EXCEPT ![k] = Settled(r, IF r = "Empty" THEN 0 ELSE done + 1)]
  /\ inflight' = inflight \ {<<w, k>>}
  /\ UNCHANGED <<busy, key, since, out>>

Exhausted == [kind |-> "Exhausted", n |-> 0]

\* Caller c drops the resolved entry of its key, and on its last round
\* gives up in the same breath.
Delete(c) ==
  /\ busy[c] /\ entry[key[c]].kind \in {"Data", "Err", "Empty"}
  /\ entry' = [entry EXCEPT ![key[c]] = Absent]
  /\ \/ UNCHANGED <<busy, out>>
     \/ busy' = [busy EXCEPT ![c] = FALSE] /\ out' = [out EXCEPT ![c] = Exhausted]
  /\ UNCHANGED <<inflight, done, key, since>>

\* ClearCache removes any set of keys, pending ones included.
Clear(S) ==
  /\ entry' = [k \in Keys |-> IF k \in S THEN Absent ELSE entry[k]]
  /\ UNCHANGED <<inflight, done, busy, key, since, out>>

Call(c, k) ==
  /\ ~busy[c]
  /\ busy' = [busy EXCEPT ![c] = TRUE]
  /\ key' = [key EXCEPT ![c] = k]
  /\ since' = [since EXCEPT ![c] = done]
  /\ out' = [out EXCEPT ![c] = NoOutcome]
  /\ UNCHANGED <<entry, inflight, done>>

\* What caller c may return now.
Allowed(c) ==
  LET e == entry[key[c]] IN
  {o \in {[kind |-> "Data", n |-> e.val]} : e.kind = "Data"} \cup
  {o \in {[kind |-> "Err", n |-> e.val]} : e.kind = "Err" /\ e.val > since[c]} \cup
  {[kind |-> "Timeout", n |-> 0], Exhausted}

Return(c) ==
  /\ busy[c]
  /\ \E o \in Allowed(c) : out' = [out EXCEPT ![c] = o]
  /\ busy' = [busy EXCEPT ![c] = FALSE]
  /\ UNCHANGED <<entry, inflight, done, key, since>>

Init ==
  /\ entry = [k \in Keys |-> Absent]
  /\ inflight = {}
  /\ done = 0
  /\ busy = [c \in Callers |-> FALSE]
  /\ key \in [Callers -> Keys]
  /\ since = [c \in Callers |-> 0]
  /\ out = [c \in Callers |-> NoOutcome]

Next ==
  \/ \E w \in Workers, k \in Keys : Insert(w, k)
  \/ \E w \in Workers, k \in Keys, r \in {"Data", "Err", "Empty"} : Complete(w, k, r)
  \/ \E S \in SUBSET Keys : Clear(S)
  \/ \E c \in Callers : Return(c) \/ Delete(c) \/ \E k \in Keys : Call(c, k)

Spec == Init /\ [][Next]_avars
=============================================================================
