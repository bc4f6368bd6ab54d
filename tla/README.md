# Skia: TLA+ models, checks and proofs

Models of the parts of Skia (mid 2020) that are hard to test: its locks, its
thread pool, the cache of decoded images over discardable memory, the cache of GPU
resources, and the atlas of glyphs. Paths are those of the repository;
`SkFoo.cpp:12` is a line of a file under `src/` or `include/`.

* `tlc -config MCFoo.cfg MCFoo.tla` checks a module on a small instance.
* `tlapm SkFooProofs.tla` checks the proofs of a module.
* `PROJECT.json` lists components, runs, mutants (a plausible slip in the code
  for every property, which the run of that property finds), the source lines
  behind every definition, the hazards, the findings and the theorems.

## 1. The system and its parts

Skia is a library: it has no process or main loop of its own. Concurrency comes
from its callers' threads, which share process-wide caches and immutable objects,
and from an optional thread pool. A GPU context (`GrContext`) is used by one
thread at a time; other threads talk to it only by messages it polls.

### A. Concurrency base

| part | state | operations | what makes it correct |
|---|---|---|---|
| **SkSemaphore, SkOnce** (`SkSemaphore.h`, `SkOnce.h`) | an atomic count, negative when threads sleep; an OS semaphore created on first need | `signal(n)`, `wait`, `try_wait` | no wake-up lost or given twice; one OS semaphore ever |
| **SkMutex** | a semaphore of one; the owner in debug builds | `acquire`, `release`, `assertHeld` | exclusion; whoever gets the mutex may delete it |
| **SkSharedMutex** | three ten-bit counts in one atomic word and two semaphores (release), or thread sets under a mutex and three semaphores (debug) | `acquire(Shared)`, `release(Shared)` | a writer is alone; the next holder is decided once; readers and a writer alternate |
| **SkThreadPool, SkTaskGroup** (`SkExecutor.cpp`, `SkTaskGroup.cpp`) | a list of work under a mutex, a semaphore that counts it, a pending count per group | `add`, `borrow`, `Loop`, destructor; `add`, `batch`, `wait` | a token means work; `wait()` means the tasks have run; nested waits never block each other |
| SkMessageBus | inboxes under a mutex, each with messages under its own | `Post`, `poll`, register, remove | every message reaches every inbox that is registered, once |
| SkRefCnt, SkWeakRefCnt, SkSpinlock | atomic counts | `ref`, `unref`, `try_ref` | disposed once; no revival |

The mutex is built on the semaphore, the debug readers-writer mutex on mutex and
semaphore, the release one on the semaphore, the pool on mutex and semaphore, the
message bus on mutex and once; the caches below use all of them.

### B. Caches shared by all threads

| part | state | what is hard |
|---|---|---|
| **SkDiscardableMemoryPool** | list of blocks, locked or not, under a mutex | purging what somebody is about to lock |
| **SkCachedData** | owners, whether the cache is one, locked or not | lock state must follow owners, in any order of cache purge and client unref |
| **SkResourceCache, SkBitmapCache** | LRU list and hash table under one global mutex, purge messages | double computation of a record; records in use may not be purged |
| SkStrikeCache, SkScalerCache | LRU list of strikes with byte totals | strikes that grow after they were removed; pinned strikes |
| SkRemoteGlyphCache | tables of glyphs on two sides of a channel | lost agreement between the two |
| SkPixelRef, SkPathRef | generation IDs, listeners | an ID that outlives its content |
| SkRWBuffer | blocks with one writer and many snapshots | a reader must not see what is being written |

### C. GPU

| part | state | what is hard |
|---|---|---|
| **GrResourceCache, GrGpuResource** | an array and a priority queue of resources, tables by scratch and by unique key, running totals, wrapping timestamps, two inboxes, a table of textures that wait for a message | an `unref` may purge, and purging may `unref`: calls nest; messages arrive any time, also after teardown |
| GrBackendTextureImageGenerator | who borrows a texture | release on another thread than use |
| GrProxyProvider, GrSurfaceProxy | proxies by unique key | two tables with the same keys that must agree |
| **GrDrawOpAtlas, GrDeferredUpload, GrOpFlushState, GrAtlasTextOp** | pages of plots with use and upload tokens; uploads before all draws or between two; texts with the coordinates of their glyphs | eviction of a plot that unflushed draws read; texts that outlive what they were made with |
| GrResourceAllocator | intervals of use of a flush | reuse of a resource that is still needed |
| GrDrawingManager, GrRenderTask, SkTTopoSort | a graph of tasks | order after closing and splitting tasks |
| GrTextBlobCache, GrClientMappedBufferManager | like the resource cache, smaller | messages against teardown |
| back ends (GL, Vulkan, Metal, D3D, Dawn) | state of graphics APIs | outside the repository |

### D. The rest

SkCanvas and devices, surfaces and snapshots, raster pipeline, shaders and
filters, geometry and path operations, codecs, fonts, the SkSL compiler, document
back ends, serialisation, the modules on top of the library: sequential code whose
correctness is about data (numbers, pixels, bytes, meaning of programs) rather than
about states and their order. `PROJECT.json` names each with the reason it is left
out. The tests, benches and tools are not part of the library.

## 2. The modules

| module | models | kind |
|---|---|---|
| `Semaphore` | what a counting semaphore promises | abstract specification |
| `SkSemaphore` | `SkSemaphore` with its `SkOnce` | detailed, implements `Semaphore` |
| `SkMutex` | `SkMutex` | composed: extends `SkSemaphore`, shares its state |
| `ReadersWriterLock` | what `SkSharedMutex.h` promises | abstract specification |
| `SkSharedMutex` | the release build | detailed, implements `ReadersWriterLock` |
| `SkSharedMutexDebug` | the debug build | detailed, implements `ReadersWriterLock` |
| `SkMutexProofs` (also about `SkSemaphore`), `SkSharedMutexProofs`, `SkSharedMutexDebugProofs`, `SkThreadPoolProofs`, `SkResourceCacheProofs`, `GrResourceCacheProofs`, `GrDrawOpAtlasProofs` | theorems about these modules | proofs |
| `Lists` | `Omit`, a list without some of its elements | shared by the pool, the GPU cache and the atlas |
| `DataLemmas` | sums over finite sets, first places of lists, lists with elements taken out, rows and columns of a table | lemmas |
| `SkThreadPool` | `SkExecutor.cpp` and `SkTaskGroup.cpp` | composed: uses `Semaphore` as an instance |
| `SkDiscardableMemoryPool` | the pool, one operator per function | part of the next two |
| `SkCachedData` | data with owners | extends the pool |
| `SkResourceCache` | `SkResourceCache.cpp`, the records of `SkBitmapCache.cpp`, their clients, the purge messages | composed: extends `SkCachedData`, shares its state |
| `GrResourceCache` | `GrResourceCache.cpp` and the part of `GrGpuResource.cpp` it manages | detailed |
| `GrDrawOpAtlas` | the atlas, tokens and uploads of a flush, text ops | detailed |
| `MC...` | the instances TLC checks | |

`Omit` writes out what `SelectSeq` does, of which the provers have no definition;
`MCGrResourceCache` assumes that they agree on small lists (`OmitIsSelectSeq`), and TLC
evaluates the assumption on every run of it. `UsedAsMeant` in `MCSkThreadPool` checks the hypotheses of two
theorems for the instance that runs.

Definitions named "mutant" or "slip" in a module are the wrong variants used to
show that a property notices them; no specification uses them.

### Semaphore, SkSemaphore

A step is one atomic operation on `fCount`, one on the state of the `SkOnce`, or
one call of the OS semaphore. `pc[t]` says where a thread is, `toSignal[t]` is the
local of `signal()`, counted down by one `sem_post` at a time, `seen[t]` the count
that `try_wait()` loaded. `Signal`, `Wait`, `TryWait` begin a call; `TryCas`,
`OnceLoad` ... `OnceSpin`, `OsSignal`, `OsWait` go on with it. A
`compare_exchange_weak` may fail for no reason, and `TryCas` allows it. The
atomics' orders are strong enough for a model whose steps interleave: the data
they publish (the pointer `fOSSemaphore`) is written before a release and read
after an acquire.

`Semaphore` has only tokens and sleepers. The refinement maps free tokens to the
positive part of `fCount` plus the posts made or still owed, so that a post under
way is a token already.

### SkMutex

`MutexSpec` extends the semaphore's steps with what the mutex does around them:
`fOwner` is cleared before the signal and set after the wait, by plain writes.
`MutexInit` is a semaphore of one token (`SkSemaphore fSemaphore{1}`), so that
`InitCount` is 1 for it; the assumption on the mutex's constants asks only that `signal()`
may be called and that no thread is `Null`. `call[t]` is where the thread is in the mutex's
own code. `HolderIsAlone` says a
bit more than exclusion: while somebody has the mutex no other thread is still
inside the `signal()` of its release. `SkCachedData::internalUnref` (line 68),
which unlocks a mutex and then deletes it, needs it.

### ReadersWriterLock, SkSharedMutex, SkSharedMutexDebug

In `SkSharedMutex` the packed word is a record of three counts, and `AddShared`,
`AddExclusive`, `AddWaiting` do what adding to a packed field does, the carry into
the next one included. A load, a compare-and-exchange, a `fetch_add` and a
semaphore call are steps; `oldQueueCounts[t]` is what a CAS loop last read, so
that the CAS fails exactly when the word differs. `release()` or-s the waiting readers
into the field of the running ones (line 304), which is right only if that field is zero;
the model or-s as well, by the constant `BitOr`, which a run sets to `|` of `Bitwise` and of
which the proofs know only that or-ing into zero changes nothing. The semaphores are counts of
tokens, as `Semaphore` promises (their `Block` is `pc = "waitEx"` and `"waitSh"`).
In `SkSharedMutexDebug` a block that holds `fMu` is a step, and the semaphores are
used after it.

`ReadersWriterLock` says who holds, who waits and whose `turn` it is. Both builds
implement it: the mapping of `turn` is "the readers' while a reader runs or has
been let in".

The two builds differ in one respect: in the debug build no reader starves
(`EveryReaderServed`), because readers of successive batches wait on two queues.
In the release build there is one queue, and a reader that comes later may take
the token of one that was let in before; only `ReadersServed` (some reader gets
in) holds. `SkSharedMutex.h` promises no order, so this is not a defect.

### SkThreadPool

Every thread has a stack of unfinished work: a worker's `Loop()` at the bottom, a
task above it, and above a task that waits for its group whatever it borrowed.
`Frame(body)` holds the tasks the body has still to add and those of a batch that
are counted but not added. `Add` is `fPending.fetch_add`, `Push` the critical
section of `fWorkLock`, `Signal` the semaphore call, `LoopWait` the `wait()`, `Pop` the second
critical section. A group's `wait()` looks at `fPending` (`Done`, `NotDone`) and in a step
of its own tries to take a token (`Borrow`, or `BorrowNothing` when the `try_wait()` fails),
so that the group may be done, and its work taken, between the two.
`Return` is the end of the function, `CountDown` the last act of the wrapped one,
`AddNull` and `Join` the destructor. `fifo` is chosen at the start: both pools are
checked by the same run.

### SkDiscardableMemoryPool, SkCachedData, SkResourceCache

Three layers, each with a mutex of its own, taken in this order: the cache calls
records, a record its data, the data the pool. Calls of the pool and of the data are
critical sections, so the lower two modules are operators that the steps of the third
use as conjuncts; they have no `Next`, since a pool without owners of its blocks does
nothing. What a thread does while it holds `resource_cache_mutex()` is not one step:
clients give up records, the pool shrinks and messages arrive without that mutex. Each
record the owner of the mutex looks at (`Sweep`, `Find`, `Add`, `Reuse`, `Purge`) is a
step, with one call of the pool at most; `cur` is how far it has got.

A client finds a record or misses (`Find`), decodes outside of the mutex (`Alloc`),
adds (`Add` ... `Discard`, `Destroy`), and drops what it has (`Drop`, which is
`ReleaseProc()` for a bitmap and `unref()` for a mip map). `Share` is a client that
refs a mip map it has for another thread. `Alloc` may find no memory, and a decoder may
fail after it (`Discard` of a record that was `"built"`).

Decisions of the model:

* The build with `SK_USE_DISCARDABLE_SCALEDIMAGECACHE`: memory that can go away is what
  the three layers are for. With malloc nothing but the limits is left.
* A visitor of a mip map that finds its memory gone refs and unrefs the data in one
  critical section of the cache (`SkBitmapCache.cpp:253-257`); the two cancel, since
  nobody else can get at data that only the cache owns, and the model has the record
  removed with no change of the counts.
* Records and blocks are pooled: an object that was deleted may come again.
* Left out: see the component in `PROJECT.json`.

### GrResourceCache

`cache` is a record of the fields of the cache and of the resources. One thread
owns the cache, so what it does between two places where it looks at an inbox is
one function from records to records (`Inserted`, `Removed`, `KeyChanged`,
`Notified`, ...). What makes the code hard is that its calls nest:
`unref()` -> `notifyRefCntReachedZero()` -> `makeBudgeted()` ->
`purgeAsNeeded()` -> `processFreedGpuResources()` -> `unref()`. `calls` is the
stack of what the calls under way have still to do; a public operation is enabled
when it is empty (`Idle`), and `PollInvalid` ... `Return` take the next piece off
it. Other threads (`Posts`) may post between any two pieces. `owed[r]` counts the
messages other threads have yet to post for a texture.

Decisions of the model:

* The order of messages is left out: an inbox is a set of keys, or a count per
  texture, and a poll takes all of it, as `poll()` does; they are then
  processed in any order.
* Time is left out: `purgeResourcesNotUsedSince` may find any prefix of the LRU
  order old enough.
* `use` is a history variable, the order of last use that timestamps stand for.
* A key is not taken from a resource that has no references but can still be
  found: `changeUniqueKey()` would make a plain `ref()` of it (line 349), which
  `GrGpuResource.h:35-36` asserts never happens. Callers look the key up first.
* `InsertDelayedTextureUnref` may be followed by no message:
  `GrBackendTextureImageGenerator.cpp:53` precedes the test of line 57.
* `processFreedGpuResources()` finds an entry of `fTexturesAwaitingUnref`, unrefs the
  texture, with all that this runs, and then counts in the entry it found
  (`ProcessFreed`, `CountUnref`). Removing an entry may move others
  (`SkTHashTable::removeSlot`), and makes every pointer that a call still keeps
  `stale`: the count may then go to its own entry, to that of any other texture, or
  to an empty slot (`Pointed`; which one is up to hash values). `miscounted` is a history
  variable, the textures between which such a count went astray.
  `AwaitedHeld` and `MessagesMatched` are about all others, which
  says how far the damage goes; section 6 has the finding. Where a miscount makes the code assert
  (an entry that is missing or stands at zero) the model stops, and the owner leaves
  a miscounted texture alone.
* Left out: `refResource()`, which nobody calls; the table of unique keys that
  `GrProxyProvider` keeps, and removes in `releaseAll()`; resources that
  `onRelease()` of another lets go of; idle procs; the keys of a resource after it
  was destroyed; a poll of messages from within `fTexturesAwaitingUnref.reset()`,
  where the table is in destruction.
* `fNumBudgetedResourcesFlushWillMakePurgeable` is kept as the code keeps it. It is
  always zero (proved, `TotalsRight` of section 5), so `requestsFlush()` (line 621)
  returns false: a budgeted resource without references is always purgeable.

### GrDrawOpAtlas

One thread flushes. `pc` says which part of a flush it is in: ops are prepared
(`NextSubRun` ... `EndOp`), which places glyphs and records draws; then uploads and
draws are executed (`ASAPUpload`, `InlineUpload`, `Draw`); there may be more tasks of
the same flush (`MoreTasks`), and at last `compact()` (`PostFlush`). `plot` has the
`Plot` objects, also those an upload still holds after the atlas let go of them,
`texture` what the GPU has, which only uploads change.

`addToAtlas()` is four actions, one for each way it finds room, `Full` for
`kTryAgain`, and `Bail` for `kError` or a glyph without an image: the op ends without a
draw of what it has (`GrAtlasTextOp.cpp:383`), and leaves plots tagged and uploads scheduled
for it. A glyph is one unit of `Room`; a locator is a page, an index, a
generation and which unit. Draws are recorded as the set of `quads` they will read,
with the glyph each was made for, so that `ReadsRight` can ask the texture when the
draw is executed.

Decisions of the model:

* The glyphs of all texts are of one size and one mask format; `CompactDivisor` is the quarter of a page of `compact()`,
  `RecentlyUsedCount` its 256 flushes.
* `compact()` skips some generations where the code takes the next ones, and gives
  the atlas one new generation for all its evictions; only equality is ever asked. The order
  in which it goes through plots (`Before`) is kept, since it decides which are moved.
* A plot that an inline upload replaces goes on as an object of its own as long as an upload
  has it, so that the number of objects is bounded by the slots and the glyphs placed
  between two executions (`MaxPlots`); that there is always one more is proved (`PlotsLast`).
* `broken` is a history variable: texts that were last regenerated in several parts, for
  which the code goes wrong (section 6). `WholeSubRunsReadRight` and `GenerationTells`
  are about all others, so that the finding does not hide other mistakes.
* `gaveUp` and `lapsed` are history variables, the draw that an op last gave up and the
  generations of plots whose upload was for such a draw when the execution ended. The three
  properties that a bail-out can break except just these (section 6). `Reset` is
  `GrOpFlushState::reset()` of a release build, which forgets the uploads left over; a debug
  build stops there.
* The atlas calls no evictor for glyphs (`GrAtlasManager.cpp:162` passes none): a glyph keeps
  the locator of a plot that was evicted, and the plot's generation tells.
* Left out: the small path renderer, which uses the same operations; vertices that cannot be
  allocated (at the start of an op, nothing has happened yet; when the next quad buffer is
  due, the op ends after draws it has recorded); ops split because their quad buffer is full,
  which also resets the plots to tag for each part (`GrTextBlob.cpp:824`), with no full atlas;
  `GrDrawOpAtlas::instantiate()`, which creates textures before the draws.

## 3. The runs

Runs finish within three minutes on two cores. Each component's types are part
of one of its properties (its comment says "with the types").

| run | instance | shows |
|---|---|---|
| `semaphore` | a semaphore: 3 threads, `signal(1)` and `signal(2)`, count at most 2; or a mutex: 4 threads | `SleepersPaidFor`, `CreatedOnce`; refines `Semaphore` (`ImplementsSemaphore`); `NoLostWakeUp`; of the mutex `OwnerIsHolder`, `HolderIsAlone`; `MutexServed` |
| `shared_mutex` | 4 threads, counts up to 4 | `MutualExclusion`, `CountsAgree`; refines `ReadersWriterLock`; `WritersServed`, `ReadersServed` |
| `shared_mutex_debug` | 4 threads | no assertion fails, `QueuesApart`; refines `ReadersWriterLock`; `WritersServed`, `EveryReaderServed` |
| `thread_pool` | 2 workers, 2 clients, 5 tasks of which 2 have groups of their own and one has none; FIFO and LIFO | `TokensHaveWork`, `RunOnce`, `WaitMeansRun`, `FifoRunsAll`, `BorrowGetsWork`; `WaitsReturn` |
| `cache` | 3 resources of 2 bytes, budget 5, 2 unique keys, timestamps that wrap at 4 | `QueuesAgree`, `KeysAgree`, `BytesAgree`, `StampsFollowUse`; `NothingInUsePurged`, `PurgedToBudget` |
| `cache_messages` | 2 textures, up to 2 messages awaited, budget 1, entries that move | messages and entries match in every nesting but for what was miscounted (`AwaitedHeld`, `MessagesMatched`); teardown leaves nothing (`TornDownClean`) |
| `raster_cache` | 3 threads, 2 images, 2 bitmaps of 2 bytes and 2 mip maps of 1, a pool of 2 bytes, at most 3 records | `LockedWhileSeen`, `CountsAgree`, `PoolAgrees`, `CacheAgrees` |
| `atlas` | 5 glyphs in 3 texts, 2 pages of one plot with room for 2, 2 texts between executions, 2 flushes, 1 op that gives up | `WholeSubRunsReadRight`, `GenerationTells`, `UploadsAreUsed`; `SubRunsEnd` |
| `cache_moved`, `cache_abandon`, `raster_cache_add`, `atlas_text` | instances of the same, small or cut down to what the case needs | the findings of section 6 |

Why the bounds are enough:

* Semaphore: two sleepers and a signaller of two give every case of `min(-prev, n)`
  (fewer, as many, more sleepers than tokens) and a race for the creation of the OS
  semaphore; a third thread makes the race three-sided. The bound `MaxTokens` only
  stops `signal()` from counting for ever. The system may stop, since nobody need
  call, so the run does not check deadlock; `NoLostWakeUp` is about what is enabled.
  `MCSkSemaphore` starts in one of the two uses, a semaphore or a mutex, and stays in it.
* Mutexes: four threads give a writer that runs, one that waits, and two readers
  that wait or one of which comes late. The theorems show that nothing depends on
  the number. `kCountMask` is 4 instead of 1023, the least that `SharedMutexAssumption`
  allows for four threads (no more threads in the lock than a count can hold), so
  that one registration too many carries into the next field; the theorems hold for
  every width.
* Pool: two tasks with groups of their own are the least for two nested waits to lie
  on one thread's stack in either order; two workers and a second client are the
  least for both to be elsewhere, and one task of no group makes the pool's
  destructor find work. In this run such a task has no group of its own.
* Cache, `cache`: three resources against a budget for two force purges; two keys
  and three resources give every exchange of keys; `Stamps = 4` makes timestamps
  wrap after every few calls with live resources in both lists (2^32 in the code;
  the code needs more stamps than resources, `CacheAssumption`). One reference of
  the owner at a time is enough, since only the last one matters. Resources are
  symmetric in all that is checked (`SYMMETRY`, safety only).
* Cache, `cache_messages`: two textures where only one fits the budget are the least
  for the processing of one message to purge the other texture and process messages
  from within; two messages for one texture are the least for a count, and entries of two
  textures are the least for a pointer to come to another's.
* Cache, `cache_moved`: a count goes astray when two messages are under way for textures
  whose `unref()` purges a third, so there are three with one message each. The shortest
  sequence has 36 states; `Unwrapped` keeps the context alive and textures unwrapped (a state
  constraint only makes a counterexample harder to find, never wrong).
* The cache's runs do not check deadlock: after teardown nothing need happen.
* Raster cache: two threads may decode the same key at a time, with a third that purges,
  posts or holds the first record; two blocks of a kind are the least for that. The
  pool's budget is one bitmap, so that every second block is over it, and `dumpPool()`
  takes what is unlocked at any time. One message waits at most (`MaxInbox`); one more
  only makes the sweep longer. Two images make keys that are not concerned by a message.
* Atlas: a page has one plot, so that the list of a page is also its least recently used
  plot; two pages of two glyphs are the least for sharing, growing, evicting (of
  flushed plots, and inline), `compact()` and giving a page up to happen, with texts that
  need one plot, two and a part. With `RecentlyUsedCount = 0` a plot is old after one
  flush. One op may give up (`MaxBails`), at any glyph that is not in the atlas; what it
  leaves matters to the next draw and to the next execution, both of which there are. Larger
  instances without such an op (3 texts with 1 flush, 2 texts with 3 flushes, 3 with 2) pass as well, but
  take longer than a check should. The run stops after `MaxFlushes`, so deadlock is not checked.

## 4. Fairness

* Semaphore, mutexes: a thread inside a call is scheduled (`WF` of its steps); a
  thread that holds a lock gives it back. Nothing makes a thread begin a call. This
  is what an OS scheduler gives. It is weak: the OS semaphore may prefer one
  sleeper for ever, a CAS loop may lose again and again to others that make
  progress. Hence the liveness of a lock is about some waiting thread, except for
  `EveryReaderServed`, where the code itself makes it individual.
* Pool: every thread is scheduled (`WF` of its steps). Tasks end. The `try_wait()` of a
  `borrow()` may fail though there is a token (a `compare_exchange_weak` fails for no reason,
  or because another thread was faster), but not every time: a thread that comes
  to it over and over while there are tokens gets one (`SF` of `Borrow`). Others can be
  faster only as often as there are tasks, which are finitely many, so that this asks no
  more than that a weak exchange does not fail for ever by itself.
* Cache: no fairness. Its promises are safety; purging happens inside calls that
  cannot be suspended by anything but the nesting the model has.
* Raster cache: none. No thread promises to give up what it holds, and a purge waits for
  nobody.
* Atlas: the flushing thread goes on with the op it has begun (`WF` of `OpStep`); an op is
  a function call. `SubRunsEnd` then says that the loop of calls ends, unless an op
  before gave up the next draw (section 6).

## 5. What is proved

Seven modules hold theorems about components, and `DataLemmas` what they share, each for every value of
the constants that its component's assumption allows. The assumptions ask for little:
threads, clients, tasks, records, resources and subruns are finite sets; names of different
things differ; a count is wide enough for the threads there are, and a timestamp for
the resources. Two theorems about the pool have a hypothesis more, which their paragraph
explains.

| module | theorem | statement |
|---|---|---|
| `SkMutexProofs` | `Invariance` | `Spec => []SemInv`, of the semaphore |
| | `SleepersArePaidFor` | `[]SleepersPaidFor`: no wake-up is lost or given twice |
| | `CreatedByOne` | `[]CreatedOnce`: one thread creates the OS semaphore |
| | `Refinement` | `ImplementsSemaphore`: `SkSemaphore` implements `Semaphore` |
| | `MutexInvariance` | `MutexSpec => []MutexInv` |
| | `OwnerHolds`, `HolderAlone` | `[]OwnerIsHolder`, `[]HolderIsAlone` |
| | `OneHolder` | two threads that hold the mutex are one |
| `SkSharedMutexProofs` | `Invariance` | `Spec => []IInv` |
| | `TypeCorrect` | `[]TypeOK`: counts stay in their fields, so no carry ever happens |
| | `Exclusion`, `CountsCorrect` | `[]MutualExclusion`, `[]CountsAgree` |
| | `Refinement` | `ImplementsLock`: the release build implements `ReadersWriterLock` |
| `SkSharedMutexDebugProofs` | `DebugInvariance` | `Spec => []DebugInv` |
| | `NoAssertionFires`, `ReadersKeptApart` | `[]AssertionsHold`, `[]QueuesApart` |
| | `DebugRefinement` | `ImplementsLock`: so does the debug build |
| `SkThreadPoolProofs` | `PoolInvariance` | `Spec => []PoolInv` |
| | `TokensFindWork` | `[]TokensHaveWork`: `do_work()` never finds the list empty |
| | `EachRunsOnce` | `[]RunOnce` |
| | `WaitersFindThemRun` | `[]WaitMeansRun`: what `SkTaskGroup::wait()` promises |
| | `FifoRunsEverything` | `[]FifoRunsAll`: a FIFO pool is destroyed with all its work done |
| | `BorrowersGetWork` | `[]BorrowGetsWork`: the assertion of `borrow()` holds |
| `SkResourceCacheProofs` | `CacheInvariance` | `Spec => []CacheInv` |
| | `SeenIsLocked` | `[]LockedWhileSeen` |
| | `ClientsShare` | threads that have bitmaps of one image share one record |
| | `FullInvariance` | `Spec => []FullInv` |
| | `PoolStaysWithinBudget` | `[]PoolAgrees`: list and bytes of the pool, over budget only by what is locked |
| | `CountsAreClients` | `[]CountsAgree` |
| | `CacheListsAgree` | `[]CacheAgrees`: list, hash, count and total |
| `GrResourceCacheProofs` | `CacheInvariance` | `Spec => []CacheInv` |
| | `EachInItsList`, `EachFoundByItsKey` | `[]QueuesAgree`, `[]KeysAgree` |
| | `TotalsAreRight` | `[]BytesAgree`, for any number and sizes of resources |
| | `LeastRecentlyUsedFirst` | `[]StampsFollowUse`, across the wrap of any counter wide enough |
| | `AwaitedKeptAlive`, `MessagesHaveEntries` | `[]AwaitedHeld`, `[]MessagesMatched`: for every texture that was not miscounted through an entry that had moved |
| | `NothingLeftBehind` | `[]TornDownClean` |
| | `InUseStays`, `CallsPurgeToBudget` | the action properties `NothingInUsePurged`, `PurgedToBudget` |
| `GrDrawOpAtlasProofs` | `AtlasInvariance` | `Spec => []IInv` |
| | `GenerationAlwaysTells` | `[]GenerationTells`: while the generation is the same, coordinates are good |
| | `WholeSubRunsAlwaysReadRight` | `[]WholeSubRunsReadRight`: draws read the glyphs they were made for, but for plots whose upload lapsed |
| | `UploadsAreAlwaysUsed` | `[]UploadsAreUsed`: uploads are of dirty plots, for draws that come, and none is left, unless an op gave up the next draw and none was recorded in its place |

### The semaphore and the mutex

`SleepersPaidFor` is a balance, sleepers = posts made + posts owed + what `fCount` is
below zero, and nearly inductive. `SemInv` adds what a thread's locals are at each
label (`Places`) and who is inside the `SkOnce` (`OnceHeld`): a thread that owes posts
has a positive `toSignal`, and past the `SkOnce` the OS semaphore exists, so that a
post is never made to nothing. There is one lemma per kind of step about what it does
to the three counts (`SignalCounts`, `WaitCounts`, `QuietCounts`, `OsSignalCounts`,
`OsWaitCounts`). For them the posts owed are the cardinality of a set of pairs
(`OwedPosts`). The refinement follows from
the same balance: what one side of `fCount = 0` gives up the other gets.

A mutex is a semaphore with one token. `MutexInv` says so: `Cardinality(Holders) +
FreeTokens = 1`, where a token under way in `signal()` is free. A holder is then the
only one, and no post is owed, so that nobody is inside `signal()` any more
(`HolderHasTheToken`), which is `HolderIsAlone`. The steps inside the semaphore are
those of `SkSemaphore`, and its lemmas are used as they are.

### The readers-writer mutex

`MutualExclusion` is not inductive: nothing in it prevents two tokens in the
writers' semaphore. `IInv` (TLC checked it on the instance of the run before it was
proved) adds what the code's decisions keep: the counts say who
is where (`CountsAgree`); one pass for a writer (held, in the semaphore, or decided
on) exists exactly when a writer is registered and no reader runs
(`OneWriterPass`); readers wait only behind a writer (`WaitBehindWriter`); one
`release()` at a time owes readers tokens (`OneOwing`).

The argument is counting. `Num(pc, labels)` is the number of threads at some
labels; a thread that moves changes it by one in the place it leaves and the place
it enters (`NumMove`). `Balanced` restates the invariant by these numbers, so that
each action's proof is arithmetic over integers (`...Keeps`, one lemma per action).
`AddFits` and `Room` show that a thread outside the lock leaves room for one more
in each count, so that `AddShared` and its like never carry; this is where
`SharedMutexAssumption` is used. `WriterAlone` shows that at a `release()` no
reader runs, so that the `|=` of line 304 or-s into a zero (`OrIntoZero`), which is all the
proofs assume of `BitOr`. Exclusion follows from
`OneWriterPass` and `CountsAgree`. The refinement has one lemma per action
(`...Simulates`), each to one step or a stutter of the abstract lock, and combines
them with the invariant by temporal logic.

The debug build has sets of threads for counts and two queues for readers, and its
invariant `DebugInv` is about these: the sets say where the threads are (`SetsAgree`);
one pass for a writer is held, owed or in the queue exactly when a writer wants the
lock and no reader has it (`OnePass`); a reader that was let in waits in the queue not
selected, a later one in the selected one (`TwoQueues`), so that tokens in a queue or
owed to it are for exactly the readers let in that wait there (`TokensMatch`). The
assertions follow from `SetsAgree` and `OnePass`; the refinement goes as for the release build.

### The thread pool

The theorems hold for any workers and clients, any finite set of tasks that add one
another in any way (`AddedBy` is any function, groups nest to any depth), batches or
single tasks, borrowing, and both orders of `pop()`. `PoolInv` has three parts.

* `Shape`: no body is on two stacks or twice on one, only the top of a stack is
  anywhere but resuming, and a body has to add only what it was given to add. Who is about
  to borrow has nothing left to add, no token and no claim to one.
* The way of a task: to add, in a batch, in the list, under way, run. It is at one
  place of it (`OnePlace`; a task that has run and not counted down yet is at the
  last two), it is on it at all exactly if whoever adds it has started (`OnItsWay`),
  and who is past its `wait()` has nothing on the way (`Awaited`). `fPending` is the
  number of tasks of the group between its two ends (`Pended`), which is why a zero
  means that all have run.
* `Enough`: the list is as long as the tokens, the threads that hold one and the
  threads that owe one together, `Len(fWork) = tokens + Num("pop") + Num("signal")`.

Stacks change in three ways: the top is replaced, removed, or a frame put over it.
`GoesMoves`, `ReturnsMoves`, `EntersMoves` say once what each does to the shape and to
four sets of bodies and tasks (`Occupied`, `ToAdd`, `InBatch`, `Listed`), and
`AppendList`, `PopList` what the two ends of the list do; the lemma of each action
(`...Keeps`) is then about sets. `DoneMeansRun` is the heart of it: with
`fPending = 0` seen and nothing left to add, `OnItsWay` and `Pended` leave the tasks
of a group no place but run.

The end of the pool is a second invariant on top, `EndInv`. Its parts: the bottom of a
thread's stack, and nothing else on it, is the thread's own code (`Bottoms`); no loose
task waits (`LooseNeverWait`); while the destructor has added no empty function there is
none in the list (`NoNulls`); from then on all tasks of groups have run, nobody adds or
waits, and only `Loop()` takes work (`Ending`); and in a FIFO pool the empty functions
are behind all work (`NullsLast`), so that a worker that got one left no work behind. It
rests on `LooseAlone`: what is given to the executor itself has no group of its own. The
code does not enforce that, but its callers keep to it (`SkPDFTypes.cpp:475`,
`SkPDFBitmap.cpp:281` add functions that neither add nor wait), and without it the
statements are false (section 6). `Grounded` says that each task is added, in the end,
by a client: without it two tasks could add each other, which no program can start.

### The raster cache

`CacheInv` joins the three layers record by record. `Places` says what a thread has at
each label and that only the owner of the mutex is inside the cache; `MadeAlone`, that
a record being built or destroyed is one thread's and in no list; `HeldExists`, that
what a client has exists and, a bitmap, is in the cache; `ListsAgree`, that list and
hash are one to one; `Counted(r)`, that the lock of a block, `fDiscardableIsLocked`,
`fExternalCounter`, `fRefCnt`, `fIsLocked` and `fData` are those of the threads that
have the record or build it. `LockedWhileSeen` alone is not inductive: whether a
`ReleaseProc()` unlocks depends on the counter, and whether `remove()` may delete
depends on the counter as well.

A step changes one record. `Same(r)` and `SameCounted` dispose of the others; what the
pool does is in five lemmas (`...Effect`, `DumpKeeps`: a dump takes nothing from a
locked block); the ways a record changes hands are `JoinKeeps` (find, reuse, share),
`RemovedKeeps` (remove, from wherever it is called), `MakeKeeps`, `InsertKeeps` and
`LeaveKeeps`, and the lemma of an action (`...Keeps`) uses one of them. `Reuse` is the
case a reader may doubt: the record in use may have lost its client and its memory
since it was asked for, and then `FailsUnheld` shows that nobody loses it.

`FullInv` adds the other half: the pool's list has each live block once and its bytes are
their sum (`PoolInv`); a record that does not exist has no memory (`MemoryIsRecords`);
the cache's total is the sum over its list (`Totals`); purge messages name images, and a
thread that sweeps has one to sweep for (`Messages`). A step changes the lists in one of
a few ways (`PoolCall`, `ListCall`), so that actions that call neither are dismissed
together. Over the budget is only what is locked because `dumpPool()` goes through the
list until it is within the budget or through.

### The GPU resource cache

The theorems hold for any resources, keys, sizes, limits, widths of the timestamp and
numbers of references and messages, any nesting of the calls that process messages, and
whatever entries move when one is removed. `AwaitedKeptAlive` and `MessagesHaveEntries` are
about the textures that have not been miscounted; a miscount concerns the texture of
the message and the one whose entry was written, and the balance of every other is proved
to stand. All other theorems are about all textures.

`CacheInv` is about four things: the cache, the calls under way, the messages sent, and
whether the context has ended (`Fits`).

* `Good`, the cache between two steps. `Listed`: each resource is in the list and under
  the keys its fields say (`Right`), and each total is the sum over all resources of
  what each adds to it (`TotalsRight`). `Ordered`: the timestamps of the cached
  resources go up along the list of uses, and the next one is after all of them, or is
  zero, when the next use renumbers. `PaidFor`: whatever waits to be purged is budgeted.
* `Shaped`: which calls may lie on which. A teardown is below everything else
  (`destroyAll`, over it the reset of the table of awaited textures), or a purge is, of
  its own or for a request of bytes.
* `Balanced`, for each texture: `W` references are awaited in the table, `U` of them are
  gone while their entry is still there (a call is at `unreffed`), `X` were awaited when
  the table was reset and are being given back, and the rest are the owner's; of the
  messages, `m` are unsent or in the inbox and `F` taken by some call. `U <= W`, and
  while the table stands `m + F + U <= W`: a message never lacks its entry, nor an entry
  its reference. `U`, `X` and `F` are sums over all nested calls. Of a texture that was
  miscounted (`off`) only the bounds of these numbers are known (`Account`). A count
  through a `stale` pointer takes two textures out of the balance and leaves that
  of all others alone, since each entry's count is its own number.
* When the context has ended and no call is under way, no resource is cached.

None of the properties is inductive alone: that a purge may release a resource needs
that it is in the queue for good reasons (`Right`), that nobody drops a reference it has
not needs the balance, and the balance needs to know what each nested call still holds.

Each function of the cache that changes one resource has a lemma that says it keeps
`Good` and what it does to that resource's references (`...Good`, `Effect`); each way
the calls change has one about `Shaped` and the sums (`CallGoesOn`, `CallReturned`,
`Begun`); the lemma of an action joins the two. The loops over all purgeable resources,
and over all resources at teardown, are taken apart into the steps of one resource
(`After`). `Renumbered` is the most delicate: that the numbers of earlier resources are in
the order of use, and that there are enough of them, is about the cardinalities of nested
sets. The two action properties have an argument of their own, `Tidy`, shown for each
action: what leaves the cache is not in use, and a call that ends leaves nothing to
purge over the limit that was not there before it began.

### The atlas

The theorems hold for any number of pages and plots of any room, any glyphs and subruns,
any ages and shares for `compact()`, and any number of texts and flushes. That draws read
the right glyphs relates things far apart: what a draw recorded some time ago will find
when the uploads recorded before and after it have been done. `AtlasInv` takes it apart.

* The plots: a list per page, a plot for every slot (`ListsRight`), whose fields are within
  their bounds (`RecordsRight`); a locator with the generation of the plot in its slot is
  right about the glyph there (`LocatorsRight`). A generation is never used again, since
  all are below `fGeneration`.
* The texts: a subrun with the generation of the atlas has good coordinates and tags their
  plots (`GenerationsRight`); what has been placed of the subrun at hand, and the quads for
  the next draw, are in plots tagged for that draw (`PlacingRight`, `QuadsRight`).
* The uploads: each plot is in at most one, in the order of the draws they precede, and one
  that has left the lists is behind the upload of a plot that took its slot
  (`UploadsRight`); the part of a plot that is not in the texture is the part to be
  uploaded (`TextureRight`); while ops are prepared, a plot is to be uploaded exactly if
  its `lastUpload` is not flushed (`ScheduleRight`), which is the question `updatePlot()`
  asks; the draw that an upload precedes is recorded or will be (`TokensRight`). An op
  that gives up breaks the last of these, until the next draw is recorded, which takes over
  the uploads scheduled for the one given up: so `TokensRight` has the case `gaveUp =
  NextDrawToken`. If the execution ends first, the other two fail for the
  plots with such an upload, whose generations are `lapsed`; the exceptions are for good, since
  a generation is not used again.
* The draws: for every recorded draw and every place it reads, the last upload before it
  that covers the place has the glyph, or the texture has it and no such upload comes
  (`WillRead`); and while ops are prepared, the plot of the slot has the glyph and is tagged
  for that draw or a later one, or is one that an inline upload after the draw brings in
  (`Reserved`).
* There is an object for every plot still to be made (`PlotsLast`), so that the model's
  `CHOOSE` of one in `Replace` never chooses from nothing.

`WillRead` is what the property asks of the next draw when no upload is due. It is kept by
uploads, because each does what was said of it (`UploadKeeps`), and by draws, whose token it
counts with. `Reserved` is what keeps it while ops go on: a plot that is evicted at once has
no draw to be flushed (`FlushedTails`), so no recorded draw reads it, and one that such a
draw reads is replaced by an inline upload, behind the draw; a glyph that is added goes to a
place that nobody reads. `compact()` runs when nothing is recorded or to be uploaded
(`NothingLeft`), and need only keep lists, locators and generations.

Actions that change plots do it in few ways, and each way has its facts and a lemma that
they suffice: a glyph added by an upload before all draws (`AddsFacts`, `AddASAPKeeps`), one
that takes a plot's place between draws (`RenewsFacts`, `ReplaceKeeps`), plots tagged again
(`TaggingGoesOn`), an upload done (`UploadedFacts`, `UploadKeeps`), and a compaction
(`Compacts`, `CompactIs`): any plots may be evicted and others given up, those with any new
generations, if what is given up without an eviction was not used. So nothing depends on
which plots `compact()` picks. `IInv` adds that a plot of a page
that is not active holds nothing (`PagesRight`).

TLC checked every conjunct of `IInv` on the instance of the run `atlas` before it was
proved. Texts in `broken` are excepted from the invariant as from the properties: section 6
shows that they must be.

### Sums and lists

These theorems need sums over sets of any size and lists of any length, and the provers
have no induction over them. `DataLemmas` argues by least counterexamples: `MinimalSet`
says that a nonempty collection of subsets of a finite set has a smallest member (from
`WFMin` of the library, whose premises are sets and not operators), `FirstOf` that a
list that goes wrong somewhere has a first such place. The sum is the fold of the
community modules, in the order of `CHOOSE`; `TotalTake` shows that any element may be
taken first, and from it follow the sum of a union, of a changed weight, of ones (the
cardinality), and of two lists joined. `KeptIs` and `KeepsRest` say what is left of a
list when some elements are taken out, and in what order.

### Only model-checked

* Liveness (`WritersServed`, `ReadersServed`, `NoLostWakeUp`, `MutexServed`,
  `EveryReaderServed`, `WaitsReturn`, `SubRunsEnd`), which the proof system does not
  reach.
* That the hypothesis `LooseAlone` cannot be dropped, nor the proviso of `miscounted` and those of
  `gaveUp` and `lapsed`: TLC shows the violations (section 6).
* That `Omit` agrees with `SelectSeq` (`OmitIsSelectSeq`), since the provers have no
  definition of the latter.

Every safety invariant and action property that a passing run checks is stated by a theorem.

## 6. Findings

* `cache_moved`. `processFreedGpuResources()` uses the table entry it found after an
  `unref()` that may remove other entries (`GrResourceCache.cpp:652`).
  `SkTHashTable::removeSlot` moves entries into the place of one that is removed, if
  linear probing has put them behind it, and the `--fNumUnrefs` may then count for another texture. When
  that texture's message comes, its entry is finished or gone, against the comment and the
  assertion of lines 648-651 (an entry at zero fails the assertion of line 103). A release
  build uses an entry that is not there, or keeps the first texture's entry and reference until
  teardown. The run's sequence needs three textures that await
  messages, are unbudgeted and not wrapped, and have scratch keys, and messages
  that arrive while others are processed. `insertDelayedTextureUnref()` takes any
  texture; the two callers there are today (`GrBackendTextureImageGenerator.cpp:53`,
  `SkImage_GpuBase.cpp:508`) give it ones that are budgeted or wrapped, whose `unref()` does
  not become a purge, so that the defect waits for a third caller.
* `cache_abandon`. `abandonAll()` resets `fTexturesAwaitingUnref` (line 207) before
  it abandons the resources. Resetting drops references, and a texture nobody else
  wants is released, in an API that is lost. `GrContext.cpp:128-129` abandons
  first to prevent that.
* `raster_cache_add`. `SkResourceCache::add()` asks whether the record that is there
  can be purged (line 151), and if not installs it for the caller (line 156). The
  question is asked under the record's mutex and answered without it: the last client
  may leave in between, the pool take the memory, and the install fails. The caller has
  no pixels although it has just decoded them; in a debug build the assertion of
  `SkBitmapCache.cpp:98` fails.
* `atlas_text`. A text that does not fit into the atlas at once is regenerated in parts.
  A later part may evict an earlier one, and yet the text is marked valid as a whole
  (`GrTextBlob.cpp:831`). Drawn again while the atlas does not change, it reads what is
  now in the place of its first glyphs.

* `atlas`. An op that gives up (`GrAtlasTextOp.cpp:383`) leaves what it did to the atlas for
  a draw that it does not record. If another op records that draw, nothing is wrong. If not:
  an inline upload is left when the draws are done, which
  `GrOpFlushState::reset()` asserts never happens (line 77; `UploadsAreUsed`); an upload
  before all draws has been done, but passes for one to come when the next task of
  the same flush adds a glyph to the plot, which is never uploaded
  (`GrDrawOpAtlas.cpp:253`; `WholeSubRunsReadRight`); and when plots of all pages are
  tagged, the first glyph of the next op gets `kTryAgain`, the op has nothing to draw, so that
  the token does not advance, and it asks for ever (`GrDrawOpAtlas.cpp:370-375`;
  `SubRunsEnd`). Each of the three properties excepts exactly its case and holds otherwise;
  with the exception taken out, TLC refutes it on this run's instance.

Seen while modelling, without a run of its own:

* `purgeUnlockedResources(bytes)` computes `max(0, fBytes - bytesToPurge)` in an
  unsigned type (`GrResourceCache.cpp:583`): asked for more than the cache holds, it
  purges nothing, while `GrResourceCache.h:166-168` promises to purge everything
  that is unlocked. `PurgeBytes` models the wrap (`SizeT`).
* A task given to the executor itself (`Loose`) that has a group of its own while the
  pool is destroyed borrows a function that was to end a worker: the assertion of
  `SkExecutor.cpp:105` fails, and in a release build the worker's `join()` does not
  return. With `Loose = {l, a}` and one worker the run `thread_pool` violates
  `BorrowGetsWork`.
* `purgeUnlockedResources(bytes)` sets `fMaxBytes` for its purge and restores it after
  (line 617). With unbudgeted bytes in the cache the limit it sets may be the higher one;
  the purge processes messages on its way, which may make resources purgeable, and stops
  when it is within that limit. The limit restored, the cache is over its budget with
  something to purge, until something else purges. `PurgedToBudget` excepts this call: a
  proof without the exception failed here, and TLC gave the sequence (`MaxOwed = 1` and a
  request of 1 byte).

Seen while reading: `GrBackendTextureImageGenerator::Make` gives the
texture to the cache (line 53) before the test that makes it return `nullptr`
(line 59), so that no message ever comes and the reference stays until teardown;
the assertion of `GrResourceCache.cpp:513`, that an invalidated key finds nothing
any more, can fail in teardown, where an abandoned `GrResourceProvider` (line 343)
answers that there is no resource whose key could be removed;
with unbudgeted bytes in the cache
`purgeUnlockedResources(bytes)` compares them with a budget of budgeted bytes (line
617) and may purge less than asked.

## 7. Plan

Done: the locks, the pool, the raster cache with its pool of memory, the resource cache,
the atlas, and proofs of all safety properties of all of them. Not modelled yet, in the
order of what they would add:

1. The table of keys of `GrProxyProvider` as a second table that must agree with
   `GrResourceCache`'s; the small path renderer as a second client of the atlas; ops split
   because their quad buffer is full. For the last the invariant has to say that a subrun is
   regenerated as far as its current part only, where now it is whole or in `broken`.
2. `SkWeakRefCnt` (no revival) and `SkMessageBus` (inboxes that come and go), both small
   enough for proofs; `GrBackendTextureImageGenerator`, whose release proc runs on
   another thread.
3. `SkStrikeCache`, whose strikes grow after they were removed; generation IDs of
   `SkPixelRef`.
4. `SkTTopoSort` and `GrResourceAllocator` as functions checked against their
   definitions over all small graphs and interval sets.
