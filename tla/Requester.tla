------------------------------ MODULE Requester ------------------------------
(***************************************************************************)
(* The request coalescer of package requester (requester.go,              *)
(* makerequest.go, synccache.go).  Callers run makeRequest; a pool of      *)
(* workers drains the work queue and runs performRequestAndCache.  A      *)
(* cache entry names the ticket (lockers[i]) of the worker that owns the   *)
(* in-flight request; callers park on that ticket's condition variable.    *)
(*                                                                         *)
(* The three caches (file, dir, decrypt) run the same code and share the   *)
(* tickets; they are modelled as one syncCache whose Keys stand for the    *)
(* keys of all three.  A backend result is abstracted to its kind and the  *)
(* sequence number of the backend call that produced it, so that a value  *)
(* can be traced back to the call that made it.                           *)
(***************************************************************************)
EXTENDS Naturals, Sequences, FiniteSets, TLC
LOCAL INSTANCE Functions

CONSTANTS
  Callers,        \* goroutines that call ReadFile/ReadDir/DecryptName
  NumWorkers,     \* numWorkers given to New
  Keys,           \* cache keys: a path, or complexKey(name, iv)
  Results(_),     \* Results(n): what the n-th backend call may return,
                  \* a subset of {"Data", "Empty", "Err"}
  MaxCalls,       \* bound: makeRequest calls made by each caller
  MaxClears,      \* bound: ClearCache calls
  QueueTimeouts,  \* TRUE if the 20 s respChan timeout may fire
  MaxRetries,     \* cacheErrRetryAttempts
  QueueSize       \* workQueueSize, the capacity of r.workQueue

ASSUME /\ NumWorkers \in Nat \ {0}
       /\ MaxCalls \in Nat /\ MaxClears \in Nat /\ MaxRetries \in Nat \ {0}
       /\ QueueTimeouts \in BOOLEAN /\ QueueSize \in Nat \ {0}

Workers == 1..NumWorkers
Tickets == 0..NumWorkers            \* r.lockers; lockers[0] is never a worker's

-----------------------------------------------------------------------------
VARIABLES
  cache,       \* the syncCache map: key -> genCacheEntry
  queue,       \* r.workQueue, a FIFO of work items
  respClosed,  \* respClosed[c]: the current respChan of c has been closed
  cpc,         \* caller program counter in makeRequest
  ckey,        \* key of the caller's current call
  ctry,        \* loop index i of makeRequest
  cticket,     \* ticket received on respChan
  cok,         \* ok of the receive: FALSE when respChan was closed
  ncalls,      \* calls made so far by each caller
  result,      \* value returned by the caller's last call
  startSeq,    \* backend calls completed when the caller's call started
  wpc,         \* worker program counter
  witem,       \* work item the worker is handling
  wticket,     \* ticket the worker will send on respChan
  completed,   \* number of backend calls completed so far
  clears,      \* ClearCache calls started
  clearPc,     \* "idle" or "delete" (between the two phases of ClearCache)
  clearSnap,   \* keys snapshotted by the first phase of ClearCache
  stopped      \* Stop has closed the work queue

callerVars == <<respClosed, cpc, ckey, ctry, cticket, cok, ncalls, result, startSeq>>
workerVars == <<wpc, witem, wticket, completed>>
clearVars  == <<clears, clearPc, clearSnap>>
vars == <<cache, queue, stopped, callerVars, workerVars, clearVars>>

\* A completed backend call is numbered; 0 stands for a nil data or err.
MaxSeq == Cardinality(Callers) * MaxCalls * MaxRetries
Seqs == 0..MaxSeq
ASSUME \A n \in 1..MaxSeq : Results(n) \subseteq {"Data", "Empty", "Err"} /\ Results(n) # {}
Entry == [data : Seqs, err : Seqs, lockerNum : Tickets]
\* live: the caller still receives on the item's respChan; after a timeout
\* nobody ever will, so a send on it blocks forever.
WorkItem == [caller : Callers, key : Keys, live : BOOLEAN]
Outcome == [kind : {"None", "Data", "Err", "Timeout", "Exhausted"}, n : Seqs]
NoResult == [kind |-> "None", n |-> 0]

-----------------------------------------------------------------------------
(* syncCache (synccache.go).  Each operation holds s.lock, so it is one   *)
(* step.                                                                   *)

Has(k) == k \in DOMAIN cache

\* mutant: GetOrInsert replaced by a plain Set, every worker becomes leader
LoadedNever(k) == FALSE

\* GetOrInsert: the key was present (loaded).
Loaded(k) == Has(k)

\* mutant: the worker's Set does not overwrite an existing entry
CacheSetIfAbsent(k, e) == IF k \in DOMAIN cache THEN cache ELSE (k :> e) @@ cache

CacheSet(k, e) == (k :> e) @@ cache

CacheDelete(k) == Restrict(cache, DOMAIN cache \ {k})

\* mutant: the inserted entry does not record the leader's lockerNum
PendingEntryNoLocker(w) == [data |-> 0, err |-> 0, lockerNum |-> 0]

\* genCacheEntry{lockerNum: num}: the entry a leader inserts.
PendingEntry(w) == [data |-> 0, err |-> 0, lockerNum |-> w]

\* mutant: the completed entry keeps the worker's lockerNum
CompletedEntryKeepLocker(w, r, n) ==
  [data |-> IF r = "Data" THEN n ELSE 0, err |-> IF r = "Err" THEN n ELSE 0, lockerNum |-> w]

\* genCacheEntry{data: data, err: err}: the entry Set after request();
\* request() turns an empty payload into nil data.
CompletedEntry(w, r, n) ==
  [data |-> IF r = "Data" THEN n ELSE 0,
   err  |-> IF r = "Err" THEN n ELSE 0,
   lockerNum |-> 0]

Resolved(e) == e.data # 0 \/ e.err # 0

-----------------------------------------------------------------------------
(* Caller: makeRequest (makerequest.go).                                  *)

Return(c, r) ==
  /\ cpc' = [cpc EXCEPT ![c] = "idle"]
  /\ result' = [result EXCEPT ![c] = r]
  /\ UNCHANGED ctry

\* mutant: the loop runs while i <= cacheErrRetryAttempts
RetryOffByOne(c) ==
  IF ctry[c] < MaxRetries
  THEN /\ ctry' = [ctry EXCEPT ![c] = @ + 1]
       /\ cpc' = [cpc EXCEPT ![c] = "start"]
       /\ UNCHANGED result
  ELSE Return(c, [kind |-> "Exhausted", n |-> 0])

\* mutant: the loop forgets i++ and retries without bound
RetryNoIncrement(c) ==
  /\ cpc' = [cpc EXCEPT ![c] = "start"]
  /\ UNCHANGED <<ctry, result>>

\* continue the retry loop, or give up after cacheErrRetryAttempts rounds
Retry(c) ==
  IF ctry[c] + 1 < MaxRetries
  THEN /\ ctry' = [ctry EXCEPT ![c] = @ + 1]
       /\ cpc' = [cpc EXCEPT ![c] = "start"]
       /\ UNCHANGED result
  ELSE Return(c, [kind |-> "Exhausted", n |-> 0])

\* ReadFile / ReadDir / DecryptName call makeRequest with a key.
Call(c, k) ==
  /\ ~stopped
  /\ cpc[c] = "idle" /\ ncalls[c] < MaxCalls
  /\ cpc' = [cpc EXCEPT ![c] = "start"]
  /\ ckey' = [ckey EXCEPT ![c] = k]
  /\ ctry' = [ctry EXCEPT ![c] = 0]
  /\ ncalls' = [ncalls EXCEPT ![c] = @ + 1]
  /\ result' = [result EXCEPT ![c] = NoResult]
  /\ startSeq' = [startSeq EXCEPT ![c] = completed]
  /\ UNCHANGED <<cache, queue, stopped, respClosed, cticket, cok>>
  /\ UNCHANGED <<workerVars, clearVars>>

\* mutant: the fast path also returns a cached error
FastPathWithErr(e) ==
  IF e.data # 0 THEN [kind |-> "Data", n |-> e.data]
  ELSE IF e.err # 0 THEN [kind |-> "Err", n |-> e.err] ELSE NoResult

\* The fast path: what a cached entry lets the caller return at once.
FastPath(e) == IF e.data # 0 THEN [kind |-> "Data", n |-> e.data] ELSE NoResult

\* Top of the loop: return cached data, or make a fresh respChan.
Start(c) ==
  LET k == ckey[c]
      r == IF Has(k) THEN FastPath(cache[k]) ELSE NoResult
  IN /\ cpc[c] = "start"
     /\ IF r # NoResult
        THEN /\ Return(c, r)
             /\ UNCHANGED respClosed
        ELSE /\ respClosed' = [respClosed EXCEPT ![c] = FALSE]
             /\ cpc' = [cpc EXCEPT ![c] = "send"]
             /\ UNCHANGED <<ctry, result>>
  /\ UNCHANGED <<cache, queue, stopped, ckey, cticket, cok, ncalls, startSeq>>
  /\ UNCHANGED <<workerVars, clearVars>>

\* r.workQueue <- work{...}: blocks while the queue holds workQueueSize
\* items; no timer runs yet.
Enqueue(c) ==
  /\ cpc[c] = "send" /\ Len(queue) < QueueSize
  /\ queue' = Append(queue, [caller |-> c, key |-> ckey[c], live |-> TRUE])
  /\ cpc' = [cpc EXCEPT ![c] = "await"]
  /\ UNCHANGED <<cache, stopped, respClosed, ckey, ctry, cticket, cok>>
  /\ UNCHANGED <<ncalls, result, startSeq, workerVars, clearVars>>

\* select: respChan was closed without a ticket.
RecvClosed(c) ==
  /\ cpc[c] = "await" /\ respClosed[c]
  /\ cpc' = [cpc EXCEPT ![c] = "recv"]
  /\ cok' = [cok EXCEPT ![c] = FALSE]
  /\ UNCHANGED <<cache, queue, stopped, respClosed, ckey, ctry, cticket>>
  /\ UNCHANGED <<ncalls, result, startSeq, workerVars, clearVars>>

\* The caller abandons its respChan: its queued or taken item goes dead.
Abandon(c, item) == IF item.caller = c THEN [item EXCEPT !.live = FALSE] ELSE item

\* select: time.After(20 * time.Second) fires first.
Timeout(c) ==
  /\ QueueTimeouts
  /\ cpc[c] = "await"
  /\ Return(c, [kind |-> "Timeout", n |-> 0])
  /\ queue' = [i \in DOMAIN queue |-> Abandon(c, queue[i])]
  /\ witem' = [w \in Workers |-> Abandon(c, witem[w])]
  /\ UNCHANGED <<cache, stopped, respClosed, ckey, cticket, cok>>
  /\ UNCHANGED <<ncalls, startSeq, wpc, wticket, completed, clearVars>>

\* After the receive: re-read the cache.
Received(c) ==
  LET k == ckey[c] IN
  /\ cpc[c] = "recv"
  /\ \/ /\ ~Has(k)                                  \* cache wiped
        /\ Retry(c)
     \/ /\ Has(k) /\ cache[k].data # 0               \* completed already
        /\ Return(c, [kind |-> "Data", n |-> cache[k].data])
     \/ /\ Has(k) /\ cache[k].data = 0 /\ ~cok[c]     \* closed: stale entry
        /\ cpc' = [cpc EXCEPT ![c] = "delete"]
        /\ UNCHANGED <<ctry, result>>
     \/ /\ Has(k) /\ cache[k].data = 0 /\ cok[c]      \* park on the ticket
        /\ cpc' = [cpc EXCEPT ![c] = "lock"]
        /\ UNCHANGED <<ctry, result>>
  /\ UNCHANGED <<cache, queue, stopped, respClosed, ckey, cticket, cok>>
  /\ UNCHANGED <<ncalls, startSeq, workerVars, clearVars>>

\* cache.Delete(key); continue
DeleteEntry(c) ==
  /\ cpc[c] = "delete"
  /\ cache' = CacheDelete(ckey[c])
  /\ Retry(c)
  /\ UNCHANGED <<queue, stopped, respClosed, ckey, cticket, cok>>
  /\ UNCHANGED <<ncalls, startSeq, workerVars, clearVars>>

\* A ticket's mutex is held by its worker from wt.Lock() to wt.Unlock().
Locked(t) == t \in Workers /\ wpc[t] = "request"

\* ticket.Lock(), one round of the wait loop, and either ticket.Wait() or
\* the decision after ticket.Unlock().  Nothing else touches the ticket
\* while the caller holds it, so the round is one step.
LockAndCheck(c) ==
  LET k == ckey[c]
      t == cticket[c]
      found == Has(k)
      e == IF found THEN cache[k] ELSE PendingEntry(0)
      dataAvailable == Resolved(e)
      wrongLocker == t = 0 \/ e.lockerNum # t
  IN /\ cpc[c] = "lock"
     /\ ~Locked(t)
     /\ IF ~found \/ dataAvailable \/ wrongLocker
        THEN IF ~found \/ (e.data = 0 /\ e.err = 0)
             THEN Retry(c)
             ELSE IF e.err # 0
                  THEN Return(c, [kind |-> "Err", n |-> e.err])
                  ELSE Return(c, [kind |-> "Data", n |-> e.data])
        ELSE /\ cpc' = [cpc EXCEPT ![c] = "wait"]
             /\ UNCHANGED <<ctry, result>>
     /\ UNCHANGED <<cache, queue, stopped, respClosed, ckey, cticket, cok>>
     /\ UNCHANGED <<ncalls, startSeq, workerVars, clearVars>>

-----------------------------------------------------------------------------
(* Worker: worker and performRequestAndCache (requester.go).              *)

\* w, ok := <-r.workQueue, then cache.GetOrInsert; a worker that finds a
\* resolved entry closes respChan, one that finds a pending entry will send
\* that entry's ticket.
Dequeue(w) ==
  LET item == Head(queue)
      k == item.key
      c == item.caller
  IN /\ wpc[w] = "idle" /\ queue # <<>>
     /\ queue' = Tail(queue)
     /\ witem' = [witem EXCEPT ![w] = item]
     /\ IF ~Loaded(k)
        THEN /\ cache' = CacheSet(k, PendingEntry(w))
             /\ wpc' = [wpc EXCEPT ![w] = "sendLeader"]
             /\ wticket' = [wticket EXCEPT ![w] = w]
             /\ UNCHANGED respClosed
        ELSE IF Resolved(cache[k])
             THEN /\ respClosed' = [respClosed EXCEPT ![c] = @ \/ item.live]
                  /\ UNCHANGED <<cache, wpc, wticket>>
             ELSE /\ wpc' = [wpc EXCEPT ![w] = "sendTicket"]
                  /\ wticket' = [wticket EXCEPT ![w] = cache[k].lockerNum]
                  /\ UNCHANGED <<cache, respClosed>>
  /\ UNCHANGED <<stopped, cpc, ckey, ctry, cticket, cok, ncalls, result>>
  /\ UNCHANGED <<startSeq, completed, clearVars>>

\* responseCh <- wt: respChan is unbuffered, so the send completes only
\* when the caller is receiving on that same channel.
SendTicket(w) ==
  LET c == witem[w].caller IN
  /\ wpc[w] \in {"sendLeader", "sendTicket"}
  /\ cpc[c] = "await" /\ witem[w].live
  /\ cpc' = [cpc EXCEPT ![c] = "recv"]
  /\ cok' = [cok EXCEPT ![c] = TRUE]
  /\ cticket' = [cticket EXCEPT ![c] = wticket[w]]
  /\ wpc' = [wpc EXCEPT ![w] = IF @ = "sendLeader" THEN "lock" ELSE "idle"]
  /\ UNCHANGED <<cache, queue, stopped, respClosed, ckey, ctry, ncalls>>
  /\ UNCHANGED <<result, startSeq, witem, wticket, completed, clearVars>>

\* wt.Lock(): only this worker ever holds its own ticket across steps.
WorkerLock(w) ==
  /\ wpc[w] = "lock"
  /\ wpc' = [wpc EXCEPT ![w] = "request"]
  /\ UNCHANGED <<cache, queue, stopped, callerVars, witem, wticket, completed>>
  /\ UNCHANGED clearVars

\* wt.cv.Broadcast(): wake every caller waiting on ticket t.
Broadcast(t) ==
  [c \in Callers |-> IF cpc[c] = "wait" /\ cticket[c] = t THEN "lock" ELSE cpc[c]]

\* request(), cache.Set, wt.cv.Broadcast(), wt.Unlock().
Perform(w, r) ==
  LET n == completed + 1 IN
  /\ wpc[w] = "request"
  /\ completed' = n
  /\ cache' = CacheSet(witem[w].key, CompletedEntry(w, r, n))
  /\ cpc' = Broadcast(w)
  /\ wpc' = [wpc EXCEPT ![w] = "idle"]
  /\ UNCHANGED <<queue, stopped, respClosed, ckey, ctry, cticket, cok>>
  /\ UNCHANGED <<ncalls, result, startSeq, witem, wticket, clearVars>>

\* The queue is closed and drained: the receive yields workNone, !ok.
Exit(w) ==
  /\ wpc[w] = "idle" /\ stopped /\ queue = <<>>
  /\ wpc' = [wpc EXCEPT ![w] = "exited"]
  /\ UNCHANGED <<cache, queue, stopped, callerVars, witem, wticket, completed>>
  /\ UNCHANGED clearVars

-----------------------------------------------------------------------------
(* ClearCache (syncCache.ClearCache) and Stop.                            *)

\* Under RLock: collect the keys.
ClearSnapshot ==
  /\ clearPc = "idle" /\ clears < MaxClears /\ ~stopped
  /\ clearSnap' = DOMAIN cache
  /\ clearPc' = "delete"
  /\ clears' = clears + 1
  /\ UNCHANGED <<cache, queue, stopped, callerVars, workerVars>>

\* Under Lock: delete the collected keys.
ClearDelete ==
  /\ clearPc = "delete"
  /\ cache' = Restrict(cache, DOMAIN cache \ clearSnap)
  /\ clearPc' = "idle"
  /\ clearSnap' = {}
  /\ UNCHANGED <<queue, stopped, callerVars, workerVars, clears>>

\* close(r.workQueue), once no caller is inside makeRequest.
Stop ==
  /\ ~stopped
  /\ \A c \in Callers : cpc[c] = "idle"
  /\ clearPc = "idle"
  /\ stopped' = TRUE
  /\ UNCHANGED <<cache, queue, callerVars, workerVars, clearVars>>

Terminated ==
  /\ \A w \in Workers : wpc[w] = "exited"
  /\ UNCHANGED vars

-----------------------------------------------------------------------------
Init ==
  /\ cache = <<>>
  /\ queue = <<>>
  /\ respClosed = [c \in Callers |-> FALSE]
  /\ cpc = [c \in Callers |-> "idle"]
  /\ ckey = [c \in Callers |-> CHOOSE k \in Keys : TRUE]
  /\ ctry = [c \in Callers |-> 0]
  /\ cticket = [c \in Callers |-> 0]
  /\ cok = [c \in Callers |-> FALSE]
  /\ ncalls = [c \in Callers |-> 0]
  /\ result = [c \in Callers |-> NoResult]
  /\ startSeq = [c \in Callers |-> 0]
  /\ wpc = [w \in Workers |-> "idle"]
  /\ witem = [w \in Workers |-> [caller |-> CHOOSE c \in Callers : TRUE,
                                 key |-> CHOOSE k \in Keys : TRUE, live |-> FALSE]]
  /\ wticket = [w \in Workers |-> 0]
  /\ completed = 0
  /\ clears = 0
  /\ clearPc = "idle"
  /\ clearSnap = {}
  /\ stopped = FALSE

Next ==
  \/ \E c \in Callers, k \in Keys : Call(c, k)
  \/ \E c \in Callers :
        Start(c) \/ Enqueue(c) \/ RecvClosed(c) \/ Timeout(c) \/ Received(c)
          \/ DeleteEntry(c) \/ LockAndCheck(c)
  \/ \E w \in Workers :
        Dequeue(w) \/ SendTicket(w) \/ WorkerLock(w) \/ Exit(w)
          \/ \E r \in Results(completed + 1) : Perform(w, r)
  \/ ClearSnapshot \/ ClearDelete \/ Stop
  \/ Terminated

\* Every goroutine keeps running once it can: callers and workers are
\* weakly fair (each is in one state at a time, so one WF per goroutine);
\* acquiring a contended ticket mutex is strongly fair (Go's sync.Mutex
\* hands the lock to a waiter starved for 1 ms), and so is sending on a
\* full work queue (the runtime queues blocked senders in FIFO order and
\* each receive takes the oldest).  A caller blocked on its
\* respChan is eventually released by the 20 s timer when timeouts are
\* enabled.  Calls, ClearCache and Stop are choices of the environment.
Fairness ==
  /\ \A c \in Callers :
       /\ WF_vars(Start(c) \/ RecvClosed(c) \/ Timeout(c) \/ Received(c)
                 \/ DeleteEntry(c))
       /\ SF_vars(LockAndCheck(c))
       /\ SF_vars(Enqueue(c))
  /\ \A w \in Workers :
       WF_vars(Dequeue(w) \/ SendTicket(w) \/ WorkerLock(w) \/ Exit(w)
                 \/ \E r \in Results(completed + 1) : Perform(w, r))
  /\ WF_vars(ClearDelete)

Spec == Init /\ [][Next]_vars /\ Fairness

-----------------------------------------------------------------------------
(* Properties                                                              *)

TypeOK ==
  /\ DOMAIN cache \subseteq Keys /\ \A k \in DOMAIN cache : cache[k] \in Entry
  /\ queue \in Seq(WorkItem) /\ Len(queue) <= QueueSize
  /\ respClosed \in [Callers -> BOOLEAN]
  /\ cpc \in [Callers -> {"idle", "start", "send", "await", "recv", "delete", "lock", "wait"}]
  /\ ckey \in [Callers -> Keys] /\ ctry \in [Callers -> 0..MaxRetries - 1]
  /\ cticket \in [Callers -> Tickets] /\ cok \in [Callers -> BOOLEAN]
  /\ ncalls \in [Callers -> 0..MaxCalls] /\ result \in [Callers -> Outcome]
  /\ startSeq \in [Callers -> Seqs]
  /\ wpc \in [Workers -> {"idle", "sendLeader", "sendTicket", "lock", "request", "exited"}]
  /\ witem \in [Workers -> WorkItem] /\ wticket \in [Workers -> Tickets]
  /\ completed \in Seqs /\ clears \in 0..MaxClears
  /\ clearPc \in {"idle", "delete"} /\ clearSnap \subseteq Keys
  /\ stopped \in BOOLEAN

\* A worker leads a key from winning GetOrInsert until its cache.Set.
Leading(w) == wpc[w] \in {"sendLeader", "lock", "request"}

\* Single flight (spec section 1): at most one backend request per key is
\* in flight, i.e. no two workers lead the same key at once.
SingleFlight ==
  \A w1, w2 \in Workers :
    (w1 # w2 /\ Leading(w1) /\ Leading(w2)) => witem[w1].key # witem[w2].key

\* A pending entry (no data, no err, lockerNum # 0) names a worker that is
\* still leading that key and so will Set it and Broadcast: this is what
\* lets a caller that parks on the entry's ticket be woken.
PendingOwned ==
  \A k \in DOMAIN cache :
    (~Resolved(cache[k]) /\ cache[k].lockerNum # 0) =>
       LET t == cache[k].lockerNum IN Leading(t) /\ witem[t].key = k

\* Error caching policy (spec 4.C): an error a call returns was produced by
\* a backend call that completed after that call began; an error left in
\* the cache by an earlier call is never handed out again.
NoStaleError ==
  \A c \in Callers : result[c].kind = "Err" => result[c].n > startSeq[c]

\* The code calls the exhausted-retries error "somehow could not succeed",
\* and spec 4.C retries an empty result rather than latching onto it:
\* without ClearCache, and with a backend that answers with data whenever
\* it is asked again, no call should end in it.
NoExhaustion ==
  \A c \in Callers : result[c].kind # "Exhausted"

\* Every makeRequest call returns (spec 8.3: no call hangs).
CallsTerminate == \A c \in Callers : (cpc[c] # "idle") ~> (cpc[c] = "idle")


-----------------------------------------------------------------------------
(* Refinement of KeyCache: the caches' entries seen as the per-key state *)
(* machine, the leading workers as the ops in flight, completed as the   *)
(* count of ops, and each caller inside makeRequest as a call in         *)
(* progress.  An entry that is none of pending, data, error or empty     *)
(* (data or err with a lockerNum) maps to a state KeyCache never has.    *)

KeyState(k) ==
  IF ~Has(k) THEN [kind |-> "Absent", tid |-> 0, val |-> 0]
  ELSE LET e == cache[k] IN
       CASE e.data = 0 /\ e.err = 0 /\ e.lockerNum # 0 -> [kind |-> "Pending", tid |-> e.lockerNum, val |-> 0]
         [] e.data = 0 /\ e.err = 0 -> [kind |-> "Empty", tid |-> 0, val |-> 0]
         [] e.err = 0 /\ e.lockerNum = 0 -> [kind |-> "Data", tid |-> 0, val |-> e.data]
         [] e.data = 0 /\ e.lockerNum = 0 -> [kind |-> "Err", tid |-> 0, val |-> e.err]
         [] OTHER -> [kind |-> "Invalid", tid |-> e.lockerNum, val |-> 0]

KC == INSTANCE KeyCache WITH
        entry <- [k \in Keys |-> KeyState(k)],
        inflight <- {<<w, witem[w].key>> : w \in {w \in Workers : Leading(w)}},
        done <- completed,
        busy <- [c \in Callers |-> cpc[c] # "idle"],
        key <- ckey, since <- startSeq, out <- result

\* Spec 4.C and 5: every step of callers, workers and ClearCache is a step
\* of KeyCache.  A pending entry is only ever created on an absent key and
\* replaced by its op's result or removed by Clear; a caller only deletes
\* a resolved entry; a call returns the data or the fresh error its key
\* holds at the instant it returns, or gives up.
ImplementsKeyCache == KC!Spec

=============================================================================
