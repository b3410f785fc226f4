# TLA+ models of gocryptsftp

gocryptsftp is an SFTP server that serves a gocryptfs-encrypted directory tree
in decrypted form. The tree is read through a remote SFTP backend. This
directory holds TLA+ models of its concurrent parts, the TLC configurations
that check them, and `PROJECT.json`. That file lists each run, each mutant,
the source lines each definition models, the findings, and the hazards.

## The system

| part | source | state | operations |
|---|---|---|---|
| SFTP handlers | `handlers/decrypt.go` | none | route Fileread, List and Stat to FileTree; all writes fail |
| FileTree | `filetree/filetree.go` | a FastCache and a Requester | `findPath` resolves a plaintext path to its ciphertext path through the FastCache, then walks down with `findInDir`/`rangeInDir` (read `gocryptfs.diriv`, list, decrypt each name); `ReadFile`, `ReadDir`, `Stat` |
| FastCache | `filetree/fastcache.go` | map `storage`, doubly linked list `head`..`last`, `count`, all under one mutex | `Find` (refreshes the node), `Store` (refresh, or reuse the head node at capacity, or append), `Clear` |
| Requester | `requester/*.go` | three `syncCache`s (file, dir, decrypt), `workQueue` (capacity 1000), `lockers[0..numWorkers]` tickets, each a mutex and a condition variable | `makeRequest` run by each calling goroutine; `worker`/`performRequestAndCache` run by `numWorkers` goroutines; `Start`, `Stop`, `ClearCache` |
| syncCache | `requester/synccache.go` | a map under an RWMutex | `Get`, `GetOrInsert`, `Set`, `Delete`, and a two-phase `ClearCache` |
| backend | `backend/pool.go`, `provider.go` | a channel of up to 32 idle SSH/SFTP connections | `Get` (idle or dial), `Put` (keep or close), and a ping-then-close-or-put path after an operation error |
| content decryption | `filetree/decrypt.go` | none | `readFileID` (reject a file no longer than the header, parse the header), `decryptFile` (decrypt the blocks) |
| main, config | `main.go`, `config/` | the listener, each client's SSH connection and channels, a goroutine per channel for its out-of-band requests | flags, config and key loading; the accept loop with its password check; `handleChannels`, `handleChannel` (reject non-session channels, reply to requests, `server.Serve`) |

How they interact:

- `main` accepts SSH connections one after another and hands each one's
  channels to `handleChannel`. On a session channel it runs the sftp
  request server, while another goroutine replies to the channel's
  out-of-band requests. A panic in any goroutine ends the whole process.
- Every SFTP request runs on its own goroutine and goes into FileTree.
- FileTree calls `Requester.ReadFile`, `ReadDir` and `DecryptName` concurrently.
- The Requester **coalesces** them. The first worker to `GetOrInsert` a key
  becomes its *leader*. It stores a pending entry `{lockerNum: w}`, sends
  ticket `w` on the caller's `respChan`, locks the ticket, and calls the
  backend. It then `Set`s the result, `Broadcast`s and unlocks.
- A later worker for the same key finds the pending entry. It sends that
  entry's ticket to its own caller, who parks on the ticket's condition
  variable. If the entry is already resolved, the worker closes `respChan`.
- A caller retries up to `cacheErrRetryAttempts = 3` rounds. It gives up
  after 20 s without an answer on `respChan`.

The hard behaviours are the interleavings of callers, workers and
`ClearCache` around the cache entries. Two more come from the rendezvous on
an unbuffered `respChan` racing a timer. The last is the pointer surgery of
the LRU list.

## Modules

### `Requester.tla` (with `MCRequester.tla`)

This module models the request coalescer and the syncCache.

- **Constants:** `Callers`, `NumWorkers`, `Keys`, `Results(_)`, `MaxCalls`,
  `MaxClears`, `QueueTimeouts`, `MaxRetries` and `QueueSize` (the
  capacity of `workQueue`). `Results(n)` is the set of outcomes the n-th
  backend call may return, out of Data, Empty and Err. `MCRequester`
  defines `DataOrEmpty`, `DataOrErr` and `DataOnly` (the same set for every
  call), and `EmptyThenData`: the first call answers Empty and every later
  call Data, as for a directory that is empty when first read and then
  filled.
- **One cache for three:** the three caches run the same code and share the
  tickets, so they are modelled as one cache over `Keys`.
- **Backend results:** a result is abstracted to its kind plus the sequence
  number of the backend call that produced it (`completed`). This lets a
  returned value be traced to its call.

| model | code |
|---|---|
| `cache`, `Entry` | `syncCache.m`, `genCacheEntry` (0 stands for nil) |
| `queue`, `WorkItem` (with `live`: the caller still receives on its `respChan`) | `workQueue`, `work` |
| `cpc`: idle, start, send, await, recv, delete, lock, wait | the points of `makeRequest` between which other goroutines can act |
| `Call`, `Start`, `Enqueue`, `RecvClosed`, `Timeout`, `Received`, `DeleteEntry`, `LockAndCheck` | makeRequest entry (the key), fast path or the creation of `respChan`, the send on `workQueue` (blocked while the queue is full, before any timer runs), `select` closed branch, `time.After` branch, the `Get` after the receive, `cache.Delete`, the ticket wait loop plus the decision after it |
| `wpc`: idle, sendLeader, sendTicket, lock, request, exited | the points of `worker`/`performRequestAndCache` |
| `Dequeue`, `SendTicket`, `WorkerLock`, `Perform`, `Exit` | receive plus `GetOrInsert` (and `close(respChan)`), `responseCh <- wt`, `wt.Lock()`, `request()` plus `Set` plus `Broadcast` plus `Unlock`, return on a closed queue |
| `ClearSnapshot`, `ClearDelete` | the RLock and Lock phases of `syncCache.ClearCache` |
| `Stop`, `Terminated` | `close(workQueue)`, all workers returned |

The granularity of steps follows the code:

- Each syncCache operation holds the cache lock, so it is one step.
- The caller's wait loop runs while it holds the ticket mutex. The ticket's
  only other user, its worker, is then excluded. So one round of the loop
  (`Get`, check, then either `Wait` or unlock and decide) is one step. The
  step is enabled only when the worker does not hold the ticket (`Locked`).
- `Perform` is one step for the same reason: the worker holds its ticket
  throughout.
- `respChan` is unbuffered, so `SendTicket` is a rendezvous. It needs the
  receiver in `await` on that very channel.
- After a timeout the item is dead (`live = FALSE`). A send on it never
  completes, while `close` on it has no effect on anyone.

History variables support the properties: `completed` counts backend calls,
and `startSeq[c]` holds the value of `completed` when c's call began.

**Fairness.** Each caller and each worker goroutine is weakly fair on its
steps. Each goroutine is in one place at a time, so a single WF per goroutine
suffices. Taking a contended ticket mutex (`LockAndCheck`) is strongly fair.
Go's `sync.Mutex` switches to starvation mode and hands the lock to a waiter
that has waited over 1 ms.

The timeout is part of the caller's weak fairness: `time.After` always fires.
Calls, `ClearCache` and `Stop` are the environment's choices and are not
fair. `ClearDelete` is weakly fair, because a started ClearCache finishes.

### `KeyCache.tla`: the coalescer's contract

This module is the abstract specification of one coalescer cache, written
from spec 4.C ("State machine for one key") and spec 5 (Clear is not ordered
against in-flight work). It has no queue, tickets or condition variables.

- **Keys.** A key is `Absent`, `Pending(w)` or resolved: `Data`, `Err` or
  the transient `Empty`, always with ticket 0. Only an absent key becomes
  pending (`Insert`). An op in flight resolves its key (`Complete`), even
  after a Clear removed it. A caller deletes only a resolved entry
  (`Delete`). Clear removes any keys.
- **Calls.** A call returns, at the instant it returns, the data its key
  holds, or an error its key holds that was produced after the call began,
  or it gives up (timeout, exhausted retries).

`Requester.tla` maps onto it (`KC`):

- `KeyState` reads each `genCacheEntry` as a state. An entry with data or
  an error and a lockerNum is none of the spec's states and maps to
  `Invalid`.
- The leading workers are the ops in flight, and `completed` counts the ops.
- A caller inside makeRequest is a call in progress.
- The model merges `cache.Delete` with the give-up that follows on the last
  round, so the abstract `Delete` may end the call as `Exhausted`.

`ImplementsKeyCache` holds in the coalesce run. In the clear run's
configuration it fails, through finding 1: a stale `cache.Delete` removes a
pending entry. That finding already has its own run (`delete_race`).

### `FastCache.tla` (with `MCFastCache.tla`) and `LRU.tla`

**FastCache.tla** models `filetree/fastcache.go` with explicit node
identities.

- Nodes are `1..CacheSize`; a new node is `count + 1`.
- `prev`, `next`, `head`, `last` and `count` mirror the fields of the code.
- `RefreshNode` composes the Go statements of `refreshNode` in their order.
- `Find`, `FindMiss`, `StoreExisting`, `StoreEvict`, `StoreNew` and `Clear`
  are the branches of `Find`, `Store` and `Clear`.
- Each whole call holds `f.lock`, so each is one step.
- `stored` is a history variable: the ciphertext path last stored for each
  path.

**LRU.tla** is the abstract contract that `fastcache.go`'s comments and the
spec state:

- a recency sequence `order` (least recently used first) and a map;
- `Find` moves the path to the end;
- `Store` updates or appends, evicting the head at capacity;
- `Clear` empties both.

`FastCache` maps onto it:

- `order` is the path sequence met walking `next` from `head`;
- `map` is `storage` composed with the node's ciphertext path.

`ImplementsLRU` checks `Abstract!LRUSpec` as a temporal property.

FastCache's own invariants, `MappingSound` and `SizeAccounting`, are
checked as `CacheSound` in the resolver run. There, concurrent resolvers
Find, Store and evict. `Clear`, which the program never calls, is explored
only by the `fastcache_lru` run.

### `Session.tla` (with `MCSession.tla`)

This module models the SSH front in `main.go`. Each client opens one
connection and one channel on it.

- `Accept` is one round of the accept loop: `listener.Accept` and
  `ssh.NewServerConn`. The handshake succeeds only with the configured user
  and password (`CredOK`, the `PasswordCallback`), and may fail anyway on a
  broken connection. An `Accept` error changes nothing and is left out.
- `OpenChannel` is the client opening a channel, which `handleChannels`
  receives. `HandleChannel` is `handleChannel`: it rejects a channel that is
  not a session, `Accept` may fail, and otherwise the request goroutine and
  `server.Serve` start at once.
- `SendRequest` and `HandleRequest` are an out-of-band request and the
  goroutine that replies to it. A payload is abstracted to its length and
  to what `req.Payload[4:]` reads. A subsystem request is accepted when
  that is `sftp`. One shorter than 4 bytes panics (`Panics`). Then the
  process exits, and every channel that is new or serving is killed.
- `ServeEnd` is `server.Serve` returning, on the client's EOF or an error.
- Not modelled: flags, `config.LoadConfig`, `LoadSSHKey`'s three
  passphrase prompts, and the decryption passphrase. These are start-up
  file and terminal I/O, done before any goroutine runs.

### `Resolver.tla` (with `MCResolver.tla`)

This module models the path resolver and the ReadFile/ReadDir/Stat facade
of `filetree/filetree.go`.

- **Goroutines** are concurrent SFTP requests. `FastCache` is instantiated
  with its own variables (`FC`), so the resolvers share one real cache, with
  its `refreshNode` behaviour, evictions included.
- **Recursion.** `findPath`'s recursion is an explicit stack `frames`.
  `FindPathStep` handles three cases: `/` gives the encrypted root, a
  FastCache hit returns its mapping, and a miss pushes the parent.
  `WalkStep` runs `findInDir` on the parent's ciphertext path, rejects
  non-directories, `Store`s the mapping and pops. `FinishOp` is the rest of
  ReadFile, ReadDir or Stat.
- **Atomicity.** `findInDir` touches only the requester, so it forms one step
  with the `Store` that follows it.
- **The requester** is abstracted to its caches and what its calls can
  return. `dirCache` holds the listing of each ciphertext directory and
  `fileCache` the files whose read succeeded (`ListDir`, `ReadFileReq`,
  after `readdir.go` and `readfile.go` over `makeRequest`). Data once
  fetched is served from the cache at once, with no call that could fail,
  and is never invalidated, since `ClearCache` is never called. A miss asks
  the backend now: it fails when the path is gone, or when `ReqErrors`
  lets the call fail (backend error, 20 s timeout, exhausted retries). The
  diriv read is cached whenever the listing is, because it is read first,
  so one entry stands for both. `DecryptErrors` enables transient
  `DecryptName` failures.
- **The backend changes.** `tree` is the set of nodes the backend holds.
  `RemoveNode(x)` is another client removing a node of `Removable` and
  everything under it; no cache of the server hears of it. `trees` is a
  history variable: every tree the backend has held. `Stat` alone asks the
  backend afresh (`fsAccessor.Stat`, `StatOK`).
- **Names.** A plaintext path is a sequence of names. The
  ciphertext of a name is `Enc[n]`, an injective map, like EME under one
  IV. `Foreign` entries fail to decrypt. `CipherPathOf` is the reference
  definition of the right answer.
- **File contents.** `FileKind` gives each file the shape of its
  ciphertext: `Empty`, `HeaderOnly` (exactly `HeaderLen` bytes, an empty
  plaintext), `Blocks` or `Corrupt`. `Decrypts` is `decryptFile`'s outcome:
  an empty file never comes back from the requester (its empty result is
  latched), `readFileID` returns `io.EOF` for a header-only file
  (`len <= HeaderLen`), and a bad header or block fails. Only `Blocks`
  decrypts. The codec itself is data conversion and is abstracted away.
- **Handlers.** `Serve` is `handlers/decrypt.go`'s routing (`Route`): Get
  goes to ReadFile, List to ReadDir, Stat to Stat. `Reject` is every other
  method of `Unsupported` (Put, the `Filecmd` methods, Readlink), which
  fails without touching any state. `ListAt` is `listerat.ListAt`
  (`handlers/proxy.go`), through which `Filelist` hands a listing to the
  sftp server. `PagedFrom` is that server's loop, outside the repository:
  it asks again from offset + n until a call yields nothing.

The bounds are the tree `/ (a (b, f), b, f)` plus one foreign entry per
directory, and a missing path `/b/f`. In the resolver run, `/a/f` is of
kind `Blocks` and `/f` of kind `HeaderOnly`. The two violation runs make
every file `Blocks` (`MCAllBlocks`), so that each shows only its own
finding. The unsupported methods are Put, Mkdir and Readlink, one per
rejecting handler. There are 2 goroutines with 2 calls each, and the cache
capacity is 2. In the resolver run another client may remove `/a`
(`MCRemovable`), after `/a` and `/a/b` may already be in FastCache and their
listings in the requester's cache. The violation runs remove nothing.

- Resolving `/a/b` stores `/a` and `/a/b`, so a later `/b` evicts one of
  them.
- The other goroutine can interleave at every step of a three-level
  recursion.

### `Backend.tla` (with `MCBackend.tla`)

This module models `backend/pool.go` and `backend/provider.go`.

- **Clients** are the goroutines that call the provider; in the running
  system these are the requester's workers. Each walks `Call`, then one of
  `GetIdle`, `GetDial` or `GetDialFail`, then `OpenOk` (ReadFile), `QueryOk`
  (ReadDir, Stat) or `OpFail`. After that comes `WriteTo` (after `OpenOk`)
  or `Ping` (after `OpFail`).
- `PutConn` is `pool.Put`: a send on the channel, or `conn.Close()` when it is
  full. `HandleOpError` is the ping that chooses between Close and Put.
- `Break` is the network killing an open connection, whether idle or in use.
  A broken connection fails every operation and the ping.
- Connections are numbered in dial order. `MaxConns` bounds the dials and
  `MaxBreaks` bounds the breaks.
- Every step is one goroutine's action on the channel or on its own
  connection, so no finer interleaving exists. No liveness is checked:
  the pool never blocks, because `Get` and `Put` use `select` with
  `default`.

The bounds are 3 clients, capacity 2, 4 dials and 2 breaks.

- Capacity 2 makes the full-channel branch of `Put` reachable with three
  returns in a row, and lets a connection put twice sit in the channel
  twice, which capacity 1 would hide behind the full-channel Close.
- A third client finds the pool empty and dials.
- Client symmetry is sound: clients run the same code and no property names
  one of them.

## Runs

| run | cfg | expect | what it shows |
|---|---|---|---|
| coalesce | `coalesce.cfg` | pass | Shows `SingleFlight`, `PendingOwned`, `CallsTerminate` and `ImplementsKeyCache` when results are Data or Empty, with no clears or timeouts. |
| clear | `clear.cfg` | pass | One two-phase ClearCache and the 20 s timeout, racing calls and workers at any point, never make a call return an error cached before it began (`NoStaleError`). |
| delete_race | `delete_race.cfg` | violation | `SingleFlight` is broken by the stale `cache.Delete` (makerequest.go:68). |
| empty_result | `empty_result.cfg` | violation | With a backend whose first answer is empty and every later answer data, a call fails after 3 rounds without the backend being asked again (`NoExhaustion`). |
| timeout_hang | `timeout_hang.cfg` | violation | After a timeout, the leader blocks on the unbuffered `respChan` and later callers wait forever (`CallsTerminate`). |
| backend | `backend.cfg` | pass | Provider calls never share a connection (`ExclusiveUse`, the promise in the comment on `Provider`), never leak one (`NoLeak`), and never reuse a closed one (`NoClosedReuse`). |
| backend_failed_put | `backend_failed_put.cfg` | violation | A ReadFile whose `WriteTo` fails on a dead connection returns it to the pool unprobed (`FailedNotReturned`, spec section 5). |
| resolver | `resolver.cfg` | pass | Concurrent resolution over the shared FastCache and the never-invalidated requester caches, with evictions, failing requester calls and another client removing `/a`, only ever succeeds on the path asked for, and with a listing the backend held at one moment (`ResolvesCorrectly`). Paging a listing through `listerat` delivers it whole (`ListingPaged`). FastCache's mapping and count stay sound under the resolvers (`CacheSound`). |
| listing_decrypt | `listing_decrypt.cfg` | violation | A transient `DecryptName` failure drops a real entry from a successful ReadDir (`ListingComplete`). |
| stat_file | `stat_file.cfg` | violation | Stat of an existing regular file fails with no failing call (`NoSpuriousErrors`). |
| session_panic | `session_panic.cfg` | violation | A 2-byte subsystem payload from one client kills another client's SFTP session (`SessionsIsolated`). |
| fastcache_lru | `fastcache_lru.cfg` | violation | FastCache does not refine `LRU` (`ImplementsLRU`). |

**coalesce.** It allows Data and Empty but not Err. With Err, `delete_race`
already shows `SingleFlight` failing.

**clear.** Deadlock checking is off in this run. A timed-out caller
really leaves its worker blocked forever; `timeout_hang` shows that hang.
`NoExhaustion` is not checked here: a timeout, a cleared entry or a
cached error each cost a caller one of its 3 rounds, so exhaustion is
reachable by design. Only `empty_result` checks it, and there exhaustion
happens although any second backend call would return data: the spec's
retry of an empty result would succeed, the code never asks again.

`PendingOwned` is checked in coalesce only. With queue timeouts on, a
leader whose caller timed out stays in `sendLeader` for ever, so a
pending entry can name a worker that will never Set it; that case is
`timeout_hang`'s, not an invariant that holds here.

**Reading the properties.** Each property is stated in a comment above its
definition.

- `SingleFlight`: at most one backend call per key is in flight.
- `PendingOwned`: a pending entry names a worker that is still leading that
  key. This is what guarantees that a parked caller is woken.
- `NoStaleError`: an error a call returns came from a backend call completed
  after the call began. This is the error-caching policy.
- `NoExhaustion`: no call ends in "somehow could not succeed".
- `CallsTerminate`: every call returns.
- `ImplementsKeyCache`: the caches follow spec 4.C's per-key state machine,
  and each call returns what its key holds when it returns.
- `ResolvesCorrectly`: every success is for the plaintext path asked for.
  A listing equals the children of that directory in one tree the backend
  has held (`trees`), never a mix of two moments, however stale.
- `CacheSound`: every FastCache node maps its path to the ciphertext path
  last stored for it, and `count` is the number of entries, at most the
  capacity.
- `SessionsIsolated` (an action property, in a violation run): a serving
  session ends only when its own `Serve` returns or by its own request.
- `ListingPaged`: for buffers of 1 to 3 entries, paging a successful
  listing through `ListAt` gives back every name once, in order. The
  listings of 2 and 3 names meet a page that exactly fills the buffer, a
  short last page, and the empty page past the end.

**Mutants.** Every property of a passing run has a mutant in `PROJECT.json`:

- the retry loop off by one, or without its increment;
- GetOrInsert turned into a plain Set;
- a completed entry that keeps its lockerNum;
- a fast path that returns cached errors;
- a GetOrInsert whose pending entry has no lockerNum;
- the evicted key read after the rename;
- a full `Put` dropping the connection without closing it;
- a `defer Put` registered before the operation's error check, so the
  error path puts the connection twice;
- the ping path closing the connection and also putting it back;
- `filepath.Dir` returning its argument;
- `findPath` storing the parent's ciphertext path as the mapping;
- `ListAt` treating the last entry as past the end.

TLC finds each one violating its property under the run's own cfg.

## Findings

1. **Stale delete breaks single flight** (makerequest.go:68). A caller that
   saw a closed `respChan` deletes the key without checking that the entry
   is the one it read. Meanwhile another caller may have deleted it and a new
   leader inserted a pending entry. That entry is deleted, and a third
   GetOrInsert creates a second leader for the key.
2. **An empty result is latched** (requester.go:139, makerequest.go:121). An
   empty payload is cached as `{nil, nil, 0}`. Workers treat it as pending
   and send ticket 0. Callers retry without deleting the entry, so an empty
   file or directory can never be read.
3. **An unbuffered `respChan` plus a timeout hang the key**
   (makerequest.go:36, requester.go:130). The spec says the channel is sized
   1. Here the leader blocks forever on its send. The pending entry is never
   resolved and every later caller for the key waits forever.
4. **`refreshNode` never updates `d.next.prev`** (fastcache.go:51-63). After
   Store a, Store b, Find a, Find b, the list holds only b. The cache is then
   not LRU and evicts the wrong entries. Adding the missing assignment makes
   `ImplementsLRU` hold in the same model.
5. **A dead connection goes back to the pool** (provider.go:46). ReadFile
   defers `Put` as soon as `Open` succeeds. A `WriteTo` that fails because
   the connection died therefore skips the ping probe that spec section 5
   requires, and the next call on that connection fails too.

6. **A failed `DecryptName` hides a real entry** (filetree.go:236).
   `rangeInDir` treats any `DecryptName` error as a foreign file. A queue
   timeout or exhausted retries in the requester then gives ReadDir an
   incomplete listing reported as success. It also makes ReadFile and
   findPath report an existing name as not found.
7. **Stat of a regular file always fails** (filetree.go:188). Stat resolves
   the whole path with `findPath`, which accepts only directories (line
   294). The spec's 4.F describes Stat the same way, so the spec shares the
   defect.

8. **A short subsystem payload kills the server** (main.go:154). The
   request goroutine slices `req.Payload[4:]` without checking the length.
   One client's 2-byte payload panics, and the process exits with every
   other client's session. Spec 7: errors are returned, not thrown.

`handleChannel` also starts `server.Serve` before, and regardless of, a
subsystem request (main.go:164). `Session` models this, but no run checks
it. No comment or spec section promises otherwise, and the run list is
full.

A further edge has no run of its own: with the resolver run's `/f` of
kind `HeaderOnly`, `NoSpuriousErrors` is violated
by a ReadFile of a file that holds only its header (filetree/decrypt.go:12,
`<=` where spec 7 says HEADER_TRUNCATED is for content *shorter* than the
header). TLC shows this when `stat_file.cfg` uses `MCFileKind`. The hazard
list records it without a property: the stat_file run stops at the
shorter Stat violation first, and a run of its own would need a slot the
run list does not have.

## Bounds

- **Requester.** 2 callers, 2 workers, 1 key (2 in none of the current runs
  because one key already shows every race), 3 retries as in the code, and
  1 or 2 calls per caller.
  - Two callers and two workers are the least that gives a leader, a
    follower and a competing leader.
  - Two calls per caller let a caller come back for a key after its earlier
    call changed the entry.
  - The work queue holds one item (the code: 1000), so a second caller
    that misses the cache blocks on the send. `Enqueue` is strongly fair:
    Go queues blocked senders FIFO, so a sender whose send is enabled
    again and again is eventually served.
  - Larger bounds blow up the liveness check. The clear run, for example,
    takes over half an hour with 2 calls and liveness.
- **FastCache** (the `fastcache_lru` run). Capacity 3, 4 plaintext paths
  and 2 ciphertext paths.
  - Three nodes give an interior node, which is where `refreshNode`'s
    missing link matters.
  - Four paths force evictions.
  - Two ciphertext paths tell a stale mapping from a fresh one.
- **Backend.** 3 clients, pool capacity 2, 4 dials and 2 breaks.
  - Capacity 2 makes the full-channel branch of `Put` reachable after three
    calls, and leaves room for a connection put twice.
  - A third client finds the pool empty and dials.
- **Resolver.** 2 goroutines with 2 calls each (a call is Get, List, Stat
  or an unsupported method), cache capacity 2, a tree of 4 directories,
  2 files (one `HeaderOnly`), 1 missing path and 1 foreign entry per
  directory.
  - Every goroutine has weak fairness: each is a live Go goroutine whose
    next step is always enabled, and the requester's timeouts bound every
    call.
  - One removal, of `/a`, is the least change that leaves stale state in
    both caches: FastCache may map `/a` and `/a/b`, and the requester may
    hold the listings of `/a` and `/a/b` and the data of `/a/f`.
  - The goroutines run the same code, so the run uses symmetry over them.
    No property checked there tells them apart.
  - The run checks about 1.09 million distinct states in under 2 minutes.
- **Session.** 2 clients, a good and a bad password, a session and a
  `direct-tcpip` channel type, 2 requests per client from `subsystem sftp`,
  a 2-byte subsystem payload and an empty `pty-req`.
  - Two clients are the least that shows one client's request ending
    another's session.
  - The clients are symmetric.

## Not modelled yet, and the plan

- **Other changes to the backend tree.** The resolver run has another
  client remove `/a`. Creation and rename are not modelled. Since names
  encrypt under their directory's IV, a directory that is removed and
  created again gets new child names. The cached diriv, read before a
  listing that failed and was not cached, would then decrypt none of the
  fresh listing, so ReadDir could return an empty listing that the backend
  never held. That needs per-directory IVs in the model and a violation run
  against `ListingComplete`; the run list is full.
- **Freshness.** Answers served from the requester's caches are never
  refreshed. A property that a removal is eventually seen would be violated
  by design, and the spec promises no such freshness.
- **The requester's coalescing behind the resolver.** `Resolver` models the
  requester's caches and errors but not its tickets and workers.
  Composing it with `Requester` through `KeyCache`, which `Requester`
  refines, is left for later.
- **The refinement under ClearCache and errors.** `ImplementsKeyCache`
  fails there through finding 1. With that delete guarded, it could be
  checked in the clear run's configuration too.
- **Left out:** the codecs of content and name decryption (pure crypto,
  in `gocrypt/`, outside `src`), `main.go`'s start-up and `config` (flags, JSON config, key and
  passphrase input, all before any goroutine runs),
  `config/fake_password_reader.go` (counterfeiter-generated test code),
  `handlers/proxy.go`'s `ProxyHandler` (marked unused), and
  `complexKey`, which src never defines.
