# A TLA+ model of cirrus-kv

cirrus-kv is a remote object store: applications keep C++ objects under 64-bit
ids in the memory (or the RocksDB database) of a server. This directory holds
TLA+ models of its parts and of the example programs that come with it, TLC runs
that check them on small instances, and TLAPS proofs of the main invariants for
all instances. `PROJECT.json` maps every definition to the lines it models and
lists runs, mutants, hazards and theorems.

## The system

```
 examples: training jobs (Tasks, Input), graph programs (wcc, page_rank)
   |
   |  CirrusIterable ---> CacheManager (eviction policy, prefetching policy)
   |                           |
   +----------------- FullBladeObjectStore
                               |
                   BladeClient: TCPClient | RDMAClient
                               |                |
         TCPServer (Memory | RocksDB backend)   BladeAllocServer on RDMAServer
```

| component | state | operations | hard behaviour | module |
|---|---|---|---|---|
| Eviction policies | deque or list, set or map of ids | get, put, prefetch, remove | two containers, and a third in the cache, must agree | EvictionPolicy |
| CacheManager | cache entries, pending writes, prefetching policy | get, put, prefetch, remove, setMode, evict | entries whose object is still on its way; evicted objects not yet written; failures half way | CacheManager |
| Bulk methods of the cache, CirrusIterable | position, prefetch window | get_bulk, put_bulk, prefetchBulk, removeBulk, begin, ++, * | unsigned arithmetic on ranges; eviction of what was prefetched | CirrusIterable |
| FullBladeObjectStore | none of its own | get, put, remove and the bulk forms | many requests in flight; exceptions that leave futures behind | FullBladeObjectStore |
| TCPClient, futures | transaction map, send queue, semaphore, builders, two threads | connect, requests, wait/try_wait/get, destructor | three kinds of thread without a common lock; ids that wrap; shutdown | TCPClient |
| TCPServer, backends | descriptor table, byte counter, objects | accept, six requests, disconnects | purging the table while in use; accounting; dying clients; restart | TCPServer |
| RDMAClient, RDMAServer, BladeAllocServer | locations, one message buffer each way, send queue, pool | connect, write, read, remove, completions | one-sided access to memory another may be given; shared buffers; a bounded queue | RDMAStore |
| Training jobs | minibatches, model and gradients in the store | load, get, put, poll | processes that meet only in the store, start early or die | Training |
| `Input::read_input_csv` | queue of lines, two vectors | reader threads | two mutexes and a plain flag | InputReader |
| Graph programs | vertices in the cache | wcc, page_rank | updates through copies that are evicted and prefetched | GraphJobs |

## Modules

* **EvictionPolicy**: `LRAddedEvictionPolicy` and `LRUEvictionPolicy` as
  operators on their two containers (`order`, `ids`).
* **CacheManager**: one user thread. A call is cut into steps where the code
  blocks: `GetCall` (policy, evictions), then `GetHit`, `GetPrefetched`, `GetFull`
  or `GetMiss`, then one `PrefetchNext` per id the prefetching policy returned,
  then `GetReturn`. `PutCall`/`PutReturn`, `Prefetch`, `RemoveCall`, `SetMode` are
  the other methods. `ServeWrite`/`ServeRead` are the connection and the server:
  asynchronous requests are carried out in order, one at a time.
* **ObjectMap**: what the cache promises, a map from which get and remove answer at
  once and to which a put may be begun and return later. The refinement maps it to
  `given`, a history variable: what the user has put and not removed, whatever
  became of it in the cache, on the wire and in the store. `Contents` is where that
  object is (a dirty cached object, else the last write under way, else the store).
* **CirrusIterable** extends CacheManager by its callers: a range-based loop
  (`begin`, `PrefetchAhead`, `GetElement`, `GotElement`, `EndLoop`) and the bulk
  methods, every call of which is CacheManager's own action. `IDSpace` and
  `UIntSpace` are the sizes of the two integer types the loops count in.
* **FullBladeObjectStore**: threads that share a store. `IssueNext` is a turn of
  the loop that starts requests, `future_get` a turn of the loop that waits;
  `left` holds the futures an exception left behind, `Discard` is the client
  completing one of them. The client is `AsyncStore`, instantiated. `held` is a
  history variable: the contents the store has had since a call began.
* **TCPServer**: `loop()` (`Poll`, `Skip`, `HangUp`, `Accept`, `EndOfRound`) and
  `process()` (one action per request; a bulk write is one step per object), with
  unsigned arithmetic on `curr_size`. `lost` is a history variable: the bytes of
  stored objects that a rejected overwrite or a restart has taken off `curr_size`.
  Clients connect, send, leave and fail at any step; `Restart` is a new process.
* **TCPClient**: user, sender and receiver threads, connect and the destructor.
  One step is one access to shared data.
* **AsyncStore**: what the client promises: every request takes effect once,
  those of a thread in order, and a future delivers its own outcome. A bulk write
  may be cut short by a full pool, with a prefix of its objects stored.
* **RDMAStore**: clients with their user threads and poller, the server's event
  loop and poller, and the network cards (`Execute`, `Acknowledge`,
  `DeliverReply`), which are external: a queue pair carries out a client's
  requests in order and reads message buffers when it does so. A call is cut at
  every point where another thread can step in: `CopyMessage`, `post_receive`,
  `CheckLimit`, `post_send`, `WaitSent`, `WaitReply`, `Allocated`/`Deallocated`.
* **Training**: `LoadingTask`, `PSTask`, the workers (`GetModel`, `PrefetchBatch`,
  `GetBatch`, `PutGradient`) and `ErrorTask` of the logistic and the softmax job.
  One step is one call of the store. A model is the set of gradients folded into it.
* **InputReader**: the caller and the reader threads, one step per mutex operation,
  push or look at the flag.
* **GraphJobs**: wcc and page_rank, one step per turn of a loop with all its cache
  calls. What the two serializers write is part of the model. A probability is
  the list of what was added up.
* **MC...**: instances for TLC. **...Proofs**: theorems. The cache has
  **CacheManagerProofs** (types, policy, capacity) and **CacheMapProofs** on top of
  it (what get returns, refinement); the RDMA transport has **RDMACallProofs** and
  **RDMAStoreProofs**. **ExampleProofs** is about Training and GraphJobs.

How they fit: CirrusIterable runs on CacheManager; FullBladeObjectStore runs on
AsyncStore, which TCPClient is shown to implement; CacheManager's map of the
server, and the store of Training, take single requests to be atomic, as
AsyncStore says. TCPServer shows that each request is one step of the server.

Definitions named `X_Something` just before `X` are mutants: plausible mistakes
in the code `X` models. Each property of a passing run has one that violates it.

## Runs that pass

| run | instance | checks |
|---|---|---|
| CacheDeferred | 3 ids, 2 objects, cache of 2, LRAdded, deferred writes, 3 requests in flight | the policy agrees with the cache, capacity, no spurious failure, **ImplementsMap** with evicted objects under way, calls return |
| CacheLRU | the same with LRU, write-through, all methods, 4 prefetching modes | the policy's containers, the entry get returns is alive, get returns what the user last put although calls fail |
| CacheIterate | ids 4 to 7 of 8, cache of 2, loops over 5 to 7, bulk calls over 4 to 6 | loops see each element once with its object, ask for the right elements ahead, bulk calls are complete, all of them end |
| ServerStore | 2 clients that die anyhow, 2 ids, one of which changes between objects of sizes 1 and 3, pool of 3, words of 0 to 6, 2 slots, restarts | the counter is off by what rejected overwrites took from it and no more, no client forgotten, writes rejected only when full |
| ServerLoop | 3 clients, 2 slots for them, pool of one object | the pool with objects of one size, refusals, every request answered and every connection handled |
| ClientShared | 2 threads, 2 transaction ids, queue of 1, connect may fail, destructor at any time | **ImplementsAsyncStore**, waits and destructor return, requests are carried out |
| StoreBulk | 2 threads, 2 ids, 2 futures each, every method | reads return what was there, calls that return have taken effect, calls end |
| GraphExamples | wcc on all graphs of up to 3 vertices and all undirected ones of 4; page_rank, 2 rounds, on cycles of 5 with one vertex's edges replaced by any set and on all graphs of 2; cache of 4 | components, ranks, both programs end |
| InputCSV | 3 readers, 4 lines (two equal) in groups of 2 | labels and samples in step, each line once, the call returns |
| RdmaStore | 2 clients with an object each, pool of 1 cell, send queue of 2 | no shared memory, none lost, the queue's counter |
| RdmaCalls | 1 client, 2 objects, 2 values, pool of 1 cell, send queue of 3, fair | fresh reads, calls return, futures complete |
| TrainingJobs | 2 workers, 2 minibatches, 3 setups of both jobs | gradients used once and eventually, minibatches not mixed, the loss, workers start |

Two more configurations pass and are kept beside them: `ClientPipelined` (one
thread, two requests outstanding, connect may fail: that requests of a thread take
effect in order, which ClientShared, with one request per thread, cannot show,
830,357 states) and `ClientWide` (two threads, bulk requests, two transaction ids: also
`NoUnknownTxn`, `PostsMatchQueue`, `ConnectedMeansRunning`, 806,186 states).

Bounds. Three ids over a cache of two force evictions of clean, dirty, prefetched
and removed entries, with one id in the cache, one leaving and one entering.
`MaxInFlight` bounds the requests queued by the cache; two suffice for an
eviction's write followed by the prefetch it made room for. `TxnSpace` of 2 or 3
makes transaction ids wrap around all the time, and `IdsSuffice` keeps a request
from being outstanding while all ids are used again (in the code: 2^32 requests).
A queue of one message makes `push` fail and spin. Three clients for two slots
make the table fill, purge and refuse. In CacheIterate the ordered range ends at
the largest id, so that its end wraps to 0. `Depth` of 2 lets a call of two
requests leave one behind. A pool of fewer cells than objects makes allocation
fail and cells move between objects and clients. `MAX_SEND_WR` of 2 makes the send
queue fill, and lets a remove begin with a write or a read of the object in
flight; of 3, the cell a read is under way to is freed and allocated again.
In ServerStore an object of 3 bytes written over one of 1, beside another, is
rejected, and with `WordSize` of 7 a later overwrite discounts below zero and wraps.
`MaxVersion` bounds the gradients of a worker; versions wrap at `VersionSpace`,
above it, as 2^32 is in practice.

Assumptions of the passing runs, each dropped in a configuration of the next
section: the cache is not given a `put` of an id that was prefetched and not yet
read (`CarefulPuts`), a get prefetches fewer ids than the cache holds, and the
store has room for every id; in ServerStore the backend is
Memory; a future is waited on by the thread that made it; an RDMAClient has one
user thread, which keeps room in the send queue for the message of a remove, and for the
message and first write of an allocation
(`Careful`), exits with nothing in flight (`CleanExit`) and was made by
make_unique (`Zeroed`); wcc's graph
fits in the cache, page_rank's is not empty, and the temporary that page_rank's
iterable points into after its reassignment is not overwritten (`TempSurvives`;
`PageRank.cpp:46` is undefined behaviour); ranges do not end at
the largest value of the type they are counted in, except for ordered loops.

Fairness. The server's thread, the client's two threads and a user thread inside
a call are scheduled (weak fairness): each is an operating-system thread of its
own. In InputReader the threads contend for mutexes that are released again and
again, and each gets one some time (strong fairness); elsewhere no fairness is assumed of
taking a contended lock. Nothing is assumed of when calls are made, what clients
do, or that a worker lives. CacheManager, FullBladeObjectStore and TCPClient
assume that the server answers, which ServerLoop shows of a server whose clients
behave. The network cards of RDMAStore make progress while the connection is up.

## Where code and comments disagree

Each of these configurations states what a comment or a test says, or drops an
assumption above, and ends in a violation: `tlc -config V....cfg MC...`. Those without
a file are variants of one that has, given in the second table.

| configuration | what happens |
|---|---|
| VPutPrefetched | a put to a prefetched, unread id is undone by the next get: `PutSticks` and `GetsAreFresh` both fail (`CacheManager.h:312`; put "stores cached copy of object locally", :293) |
| VGetAbsent | the second get of an absent id returns a default object (:280; "If no object is stored under that ObjectID, throws", :232) |
| VDangling | the prefetching loop evicts the entry get returns (:288) |
| VLRUCapacity, VLRUPut | LRU does not track puts: max_size is exceeded ("Will never be exceeded", :174), puts fail ("a put will never require additional cache space", `LRUEvictionPolicy.cpp:26`) |
| VSweep | cleaning forgets writes that have not completed (:462; "removing all operations that have completed", :456) |
| VRejectedPut, VDeferredLoss | a write the server rejects is served from the cache (:327), or lost (:251) |
| VRemoveAbsent | remove of an absent id does not throw ("Exception will be thrown if oid nonexistent", :398) |
| VBulkWrap | prefetchBulk and removeBulk never end when last is the largest unsigned int (:417, :432) |
| VUnorderedTop, VRemoveTop | a loop up to the largest id never ends (`CirrusIterable.h:203`, `FullBladeObjectStore.h:313`) |
| VReadAhead | with room for the element and its read-ahead, prefetching evicts what was prefetched before ("Attempts to get the next readAhead items", `CirrusIterable.h:423`) |
| VPoolBounded, VAccounting | a rejected overwrite leaves the byte counter too low, then the pool holds more than pool_size (`TCPServer.cpp:417`; "Number of bytes currently in the pool", `TCPServer.h:50`) |
| VRestartCounts | RocksDB data with a fresh counter ("Number of bytes currently in the pool", `TCPServer.h:50`; `NVStorageBackend.cpp:24`) |
| VTornMessage | a client that dies half way through a message makes the server spin for ever (:287; "server loops infinitely, accepting new connections", :161) |
| VClientLeaves | a client that does not wait for its reply ends the server (SIGPIPE, reset) |
| VTwoWaiters, VTryWait | of two waiters on one future one never returns (`BladeClient.cpp:49`); the first try_wait answers true ("Returns true if the result is available, false otherwise", :55) |
| VDestroyLosesWrite | queued requests are dropped by the destructor (`TCPClient.cpp:607`) |
| VConnectAgain | connect after a failed connect returns normally (:65) |
| VSharedClient | two threads of one RDMAClient take each other's replies and two objects share memory (`RDMAClient.cpp:362`; `tests/object_store/test_mt.cpp:24` shares a store between threads) |
| VAllocAtLimit | a message that the full send queue refuses is not noticed, and an old reply is taken for the answer (:597) |
| VHalfPut | a new object is located before its first write, which may be refused; a read then returns what the memory held (:281) |
| VWriteSync | a synchronous write does not wait for its completion ("It will not return until the message is sent", :562) |
| VOpInfo | the poller deletes the op_info a thread is about to wait on (:486) |
| VStackClient | no constructor sets `outstanding_send_wr` (`RDMAClient.h:378`); in a client that is a local variable, as in `tests/client/RDMAClientmain.cpp:33`, the count starts anywhere, and `CountExact` fails from the first state |
| VServerId | the event loop destroys a connection whose message the poller handles (`RDMAServer.cpp:346`) |
| VFirstGradient, VHeadOfLine | the gradient with version 0 is never used ("check if this is a gradient we haven't used before", `Tasks.cpp:338`); a worker without a gradient holds up the others (:324) |
| VVersionWrap | after 2^32 versions new gradients look old (`ModelGradient.cpp:27`) |
| VPartialLoss | the loss covers what had been loaded ("we looked at all minibatches", `Tasks.cpp:430`) |
| VEarlyWorker | a worker of the logistic job that starts early leaves its failed reads in its cache: the retry finds the null pointer there and crashes, or a failed prefetch for ever ("this happens because the ps task has not uploaded the model yet"; :128) |
| VDirected | wcc's make_undirected edits copies: of a directed graph it does not find the components "ignoring the edges direction" (`Wcc.cpp:37`, `Wcc.h:18`) |
| VSeenLost | wcc's flag is not serialized: with a graph larger than the cache it never ends (`Wcc.cpp:17`) |
| VEmptyGraph, VIterReassigned | page_rank of an empty graph fails (`PageRank.cpp:31`); an iterable assigned from a temporary points into it (`PageRank.cpp:46`, `CirrusIterable.h:302`) |

| variant | of | changes | checks instead |
|---|---|---|---|
| VPoolBounded | VAccounting | - | `PoolBounded` |
| VLRUPut | VLRUCapacity | - | `PutNeedsNoSpace` |
| VGetAbsent | VPutPrefetched | `Calls = {"get"}`, `CarefulPuts = TRUE` | `GetOfAbsentThrows` |
| VRemoveAbsent | VPutPrefetched | `Calls = {"remove"}`, `CarefulPuts = TRUE` | `RemoveOfAbsentThrows` |
| VClientLeaves | VTornMessage | `Faults = {"abandon"}` | `LoopsInfinitely` |
| VRejectedPut | VPutPrefetched | `Calls = {"get", "put"}`, `CarefulPuts = TRUE`, `StoreCapacity = 1` | `GetReturnsStored` |
| VDeferredLoss | VPutPrefetched | the same, `DeferWrites = TRUE` | `PutSticks` |
| VWriteSync | VOpInfo | no `SYMMETRY` | `WriteSyncWaits` |
| VPartialLoss | VFirstGradient | - | `LossCoversAll` |
| VUnorderedTop | VBulkWrap | `BulkCalls = {}`, `Loops <- TopLoops`, `Ranges <- NoLoops` | `OperationsEnd` |
| VIterReassigned | VEmptyGraph | `Files <- DirectedFiles`, `TempSurvives = FALSE` | `JobsFinish` |
| VSeenLost | VEmptyGraph | `Files <- LargeFiles`, `PolicySize = 1`, `Programs = {"wcc"}` | `JobsFinish` |
| VDirected | VEmptyGraph | `Files <- DirectedFiles`, `Programs = {"wcc"}` | `WeaklyConnected` |
| VStackClient | VOpInfo | `Addrs = {a1, a2}`, `Depth = 1`, no `SYMMETRY`, `Zeroed = FALSE` | `CountExact` |
| VServerId | VOpInfo | `CleanExit = FALSE` | `ServerIdAlive` |
| VHalfPut | VOpInfo | `Careful = FALSE`, `Depth = 1` | `ReadsFresh` |
| VAllocAtLimit | VSharedClient | `Careful = FALSE`, `Depth = 2`, `MAX_SEND_WR = 2`, `NThreads = 1` | `DisjointObjects` |
| VHeadOfLine | VEarlyWorker | `MaxVersion = 2`, `Setups <- DyingSetups`, `nworkers = 2` | `OthersUsed` |
| VVersionWrap | VEarlyWorker | `Setups <- SafeSetups`, `VersionSpace = 2`, `nworkers = 2` | `GradientsUsed` |
| VRestartCounts | VAccounting | `Backend = "Storage"`, `Requests <- RestartRequests`, `Restarts = TRUE`, `Size <- UniformSize` | `CountsThePool` |
| VTryWait | VTwoWaiters | no `CHECK_DEADLOCK`, `SPECIFICATION Spec`, `SharedWaits = FALSE`, `Users = {u1}` | `TryWaitHonest` |
| VConnectAgain | VDestroyLosesWrite | `ConnectFails = TRUE`, `Destroys = FALSE`, `SPECIFICATION Spec` | `ConnectedMeansRunning` |
| VDangling | VPutPrefetched | `Calls = {"get", "setMode"}`, `CarefulPuts = TRUE`, `Modes <- MCWideModes` | `ReturnsLiveEntry` |

## Theorems

All hold for every value of the constants that satisfies the named assumptions
(`PolicyAssumption`, `CacheAssumption`, `ServerAssumption`, `StoreAssumption`,
`RDMAAssumption`, `TrainingAssumption`, `InputAssumption`, `GraphAssumption`) and the hypotheses given
below. A hypothesis is a condition on the constants: it says which programs use the code as
it has to be used, and a configuration of the previous section shows what
happens without it.

| module | theorem | property | hypotheses |
|---|---|---|---|
| CacheManagerProofs | TypeCorrect, PolicyContainers | `TypeOK`, `PolicyWellFormed` | none |
| | CacheIsSound, PolicyIsTracked, CallsFindRoom | `CapacityRespected`, `PolicyTracksCache`, `NoSpuriousFailure` | `PolicySuits` |
| CacheMapProofs | EntryOutlivesPrefetch | `ReturnsLiveEntry` | `ReadAheadFits` |
| | GetReturnsLastPut | `GetsAreFresh` | `StoreFits`, `CarefulPuts`, `ReadAheadFits` |
| | CacheImplementsMap | `ImplementsMap` | those, `PolicySuits`, `RangeCovers` |
| TCPServerProofs | CounterIsExact, RejectsOnlyIfFull | `AccountingExact`, `RejectedOnlyIfFull` | none |
| | PoolIsCounted | `CountsThePool`, `PoolBounded` | Memory backend or no restarts, `SizesKept` |
| | PoolIsSound | `UniformPool` | Memory backend or no restarts |
| | EveryClientIsPolled, RefusesOnlyWhenFull | `EveryClientPolled`, `RefusedOnlyWhenFull` | none |
| FullBladeObjectStoreProofs | ReadsReturnHeld | `ReadsHeld` | none |
| | CallsHaveEffect | `CallsTakeEffect` | `OneObjectEach` |
| RDMACallProofs, RDMAStoreProofs | ObjectsAreDisjoint, MemoryIsAccounted, ReadsAreFresh, CountIsExact | `DisjointObjects`, `MemoryAccounted`, `ReadsFresh`, `CountExact` | `Dependable` |
| ExampleProofs (Training) | GradientsAppliedOnce, SamplesMatchLabels, LossIsOfLoaded | `AppliedOnce`, `BatchesMatch`, `LossCoversLoaded` | none |
| InputReaderProofs | LabelsMatchSamples, ReadsEveryLine | `Paired`, `EveryLineOnce` | none |
| ExampleProofs (GraphJobs) | PageRankExact | `RanksExact` | `RankFilesFit` |
| | ComponentsFound | `ComponentsExact` | `WccFilesFit` |

The arguments:

* **Cache, types and policy.** The inductive invariant `TypeInv` is `TypeOK`
  strengthened in three places: a dirty entry holds a put object (else what evict
  sends has no type), an entry that is not cached has a future (else get would
  copy from none), and while get's pointer is live its entry is in the cache.
  The module begins with the facts about the policies' containers: each operation
  keeps a duplicate-free sequence that lists its set, within the size, and evicts
  what was in it.
* **Cache, capacity.** `PolicySuits`: LRAdded, or LRU without puts, and a policy no
  larger than the cache (VLRUCapacity shows why). `AgreeInv` adds that every cached
  id is tracked, also where `PolicyTracksCache` says nothing: once cleaning the
  pending writes has stepped past the end of the map. The capacity follows from
  the policy's own bound.
* **Cache, the entry get returns.** `ReadAheadFits`: get prefetches nothing, or the
  policy is LRU and reads ahead less than its size. `LiveInv` places the id of the
  get in the policy's list: so near the front that the ids still to be prefetched
  cannot push it out (`Shielded`).
* **Cache, what get returns.** `StoreFits`: the store has room for all ids.
  `FreshInv` relates an entry, the requests under way and the store: a clean entry
  or an answered prefetch holds what the last write under way of its id, or else
  the store, holds, and a prefetch without an answer has its read behind all other
  requests of the id. Evicting, sending, serving and prefetching then leave every
  id's value alone (`Untouched`), and put and remove change the one the user names, so
  that `given = Contents` is an invariant: what the user has put is there, in the
  cache, on the wire or in the store, and it is what get finds. A get that throws
  NoSuchID found the id in none of them (`NothingStored`).
* **Cache, refinement.** `CacheImplementsMap` maps each step to a step of
  `ObjectMap` or a stutter, along `given`; `RangeCovers` says that ordered
  prefetching was given the range of all ids (get throws outside it).
* **Server, accounting.** A byte is a pair of an id and an offset, and `Bytes` the
  number of them, which needs no sum over a set. `Drift` says that the counter and
  `lost` are words which add up to the bytes held, modulo the size of a word; it is
  inductive for every request, since unsigned arithmetic may be reduced at any
  point (`WordPlus`). With nothing lost the counter is the bytes held, as long as
  those fit in a word, which is all a rejection depends on. `SizesKept`: what is written
  under an id always has one size. Then an overwrite that was discounted fits
  again and the counter is the bytes in the pool (`Accounts`). VAccounting
  and VRestartCounts show that this hypothesis is needed.
* **Server, descriptors.** `TableInv`: slots 1 to `curr_index` hold the listening
  socket, the open connections, each once, and -1s; what waits in the backlog is
  not in the table; and when poll begins on a full table it holds no -1.
  That `remove_if` keeps this rests on lemmas on `Place`, the number of slots kept up to
  an index, and `Kept`, its inverse.
* **Store, reads.** `ClientSound`: the futures in a thread's queue are its own,
  distinct and without an outcome. `CallSound`: the loops' counters agree with the
  futures made; the futures a call still waits for are distinct, carry the
  requests of their ids, are none of those left behind, and any outcome they have
  is accounted for by contents the store has had since the call began; so is what
  get_bulk has put in the caller's array. Effect keeps it because the present
  contents are among those of every call in progress.
* **Store, writes.** `OneObjectEach`: the caller passes as many objects as ids.
  `WriteInv` adds that the requests of a call are those of its ids in order and one
  with a good outcome was carried out during the call (`Requested`), so those
  waited for have been (`SoFar`), and that the last request in a thread's
  queue is the last of its call (`InOrder`): once that has an outcome the queue is
  empty, requests of earlier calls included.
* **RDMA.** `Dependable`: one thread uses a client, allocates and removes only with
  room in the send queue, exits with nothing in flight, and made the client by
  make_unique; VSharedClient, VAllocAtLimit, VServerId and VStackClient drop them
  one by one. In the invariant an exchange of messages is at one `Stage`: in the send
  queue, at the server's completion queue or poller, a reply on its way, at the
  client's completion queue or poller, or announced by the semaphore. The stage says
  which cells the client owns besides its objects' (`Moving`: allocated and not yet
  located, or removed and not yet freed), and `Owners` that nobody else owns them
  and that with the abandoned ones they are all the allocated ones. `Fresh` says what the
  posted writes will have made of a cell when the read behind them is carried out;
  the one-sided writes of other clients are to other cells. `Room` ties
  `outstanding_send_wr` to the lengths of the queues, with the answer counted
  apart. The stages are quantified in the invariant, so the model carries no history of them.
  RDMACallProofs defines the invariant and shows that a client's threads and the
  network cards keep it; RDMAStoreProofs does so for the pollers and the server.
* **Training.** Gradients are numbered below their worker's version, and a stored
  gradient that has been used is the one whose version the parameter server
  remembers (`Numbered`); which minibatches a worker has read at each point
  (`ReadSoFar`); samples are at most one minibatch ahead of labels, and what the error task
  saw in the store when it took the model is still there (`LoadSound`, `ErrorSound`).
* **Input.** A reader between its two push_backs is alone there (`Exclusive`), what
  it has pushed is the sample of the label it will push next (`InStep`, from
  `Parsing`), and the vectors are shuffled only when all readers have ended
  (`Joined`). For the count of lines, some one-to-one function tells which line
  taken from the file is in each slot of the queue, of the readers' local vectors
  and of the results (`LinesAccounted`), duplicates told apart; readers that ended
  hold none (`Emptied`), and the flag is set with the queue empty (`Progress`).
* **page_rank.** `RankFilesFit`: the number of vertices is an unsigned int and edges
  lead to vertices; nothing is asked of the cache. `RankInv` says that every copy in
  the cache, and every answer to a prefetch that was not got, is what the store
  holds (`Coherent`), since every change is put at once, and what the store holds of
  each vertex at every point of the two loops (`Ranked`): one share of each
  neighbour handled, of this round, and the rank of this round or the next.
* **wcc.** `WccFilesFit`: the graph fits in the cache (the flag `seen` is not
  serialized, see VSeenLost); edges may lead one way. Then nothing is evicted and
  the cache shows exactly the vertices labelled so far as seen (`Holding`). A vertex
  belongs to its `Root`, the first vertex that reaches it, since searches start in
  the order of the vertices. What has been labelled is all that earlier starts
  reach, labelled by root from 1 to `cc - 1` (`Labelled`); within a bfs, what has
  been labelled, what is in the fringe and what is still to be looked at is reached
  from the start, and no other edge leaves what has been labelled (`Searching`).
  When the fringe is empty the set is closed, hence all of `Reached`, the least
  closed set; no induction over paths is needed. Where every edge is there in both
  directions, to be reached is symmetric and the roots' sets are the components.

Only model-checked: all liveness properties (liveness under fairness is outside the
prover's reach), that TCPClient implements `AsyncStore` (`ImplementsAsyncStore`), and
what loops over an iterable and the cache's bulk methods do (`VisitsEachOnce`,
`AsksForNext`, `BulkComplete`).

## Not modelled, and why

* **A connection that fails** under TCPClient: an error is an exception in one of
  its threads, which ends the process, and at the end of the stream the receiver
  spins; there is nothing the code promises then.
* **Replies above 4 GB**: the sizes of a bulk read are added in 32 bits
  (`TCPServer.cpp:594`); sizes are abstract in replies.
* **BladePoolServer, BladeObjectStore, ResourceAllocator**: no client in the
  repository sends the messages of the last two, and the first serves one kind.
* **RDMA memory**: registration (`RDMAMem`) and sizes of objects; a second connect
  of a client.
* **FullCacheStore** and the other files of `object_store/`: no Makefile compiles
  them.
* **Training mathematics**, normalisation of features and the sequential readers of
  `Input`: floating point.
* **Benchmarks**, logging, timing, flatbuffers and verbs (external), and classes
  without behaviour (locks, authentication tokens, quotas, storage-class memory).
