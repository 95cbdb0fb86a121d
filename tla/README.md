# Verification of the YYCache / YYWebImage stack

The repository collects annotated sources of Objective-C libraries. The part with
its own state, threads and persistence is the caching stack under
`src/YYCacheNote/Pods/YYCache/YYCache` (YYCache) and the image loader built on it
under `src/YYWebImageNote/Pods/YYWebImage/YYWebImage` (YYWebImage). This directory
holds TLA+ models of that stack, the TLC instances that check them, and proofs.

## 1. The system

| part | state | operations | who runs them |
|---|---|---|---|
| `_YYLinkedMap` | dictionary, doubly linked recency list, total cost and count | insert, bring to head, remove, remove tail, remove all | callers of YYMemoryCache, under its mutex |
| `YYMemoryCache` | one linked map, three limits, a serial queue | get, set, remove, remove all; trims by cost, count and age | any thread; the queue; a timer; memory-warning and background notifications |
| `YYKVStorage` | sqlite table `manifest`, data directory, trash directory, connection with an error count | save, remove, get, trims, remove all, open and reopen; emptying the trash | one caller at a time; the trash queue |
| `YYDiskCache` | one storage behind a semaphore, limits, a weak registry of instances per path | the same as YYKVStorage for archived objects, each also with a block; timer trims; termination | any thread; a concurrent queue; a timer |
| `YYCache` | a memory cache and a disk cache | get, set, remove, remove all, each also with a block | any thread; the disk cache's queue |
| `YYWebImageOperation` | NSOperation flags, connection, received data | start, cancel, connection delegate methods, completion | operation queue, network thread, image queue, canceller |
| `YYWebImageManager` | operation queue, count of active requests | request an image, count up and down | any thread |
| `_YYWebImageSetter`, categories | sentinel, current operation | new request, cancel, late completion | main thread, setter queue |
| `YYImageCache` | a memory cache and a disk cache of images | get, set, remove by type | any thread |

How they interact: YYCache calls the two caches one after the other, with no lock
of its own. YYDiskCache holds its semaphore around each call of YYKVStorage. An
image operation looks in YYImageCache, then loads from the network, and stores the
result there. A setter starts operations and drops completions of older requests.

What is hard about it: trims that give up the lock between two removals; wake-ups
that can be lost; a row and a file that are written at different times; failures
and crashes between the two; integers cut to 32 bits; two caches that evict
independently and are filled from one another; a connection that finishes while it
is cancelled.

Not modelled at all: `YYModel`, `MLeaksFinder`, `FBRetainCycleDetector`,
`ProtocolKit` (sequential, run-time introspection), the image decoders of `YYImage`
(byte-level computation), `DIS_KVC_KVO`, and the vendored sources of CoreFoundation,
dyld, objc4, xnu and GNUstep, which the repository keeps for reading.

## 2. Modules

| module | models | proofs |
|---|---|---|
| `LRUMap` | what `_YYLinkedMap` promises: the list as a sequence of keys | `LRUMapProofs` |
| `LRUList` | a specification of that promise, one action per method | |
| `YYLinkedMap` | `_YYLinkedMap` pointer by pointer; implements `LRUList` | `YYLinkedMapProofs` |
| `YYMemoryCache` | `YYMemoryCache.m` | `YYMemoryCacheProofs` |
| `ItemStore` | what `YYKVStorage` promises whatever fails: a store that may lose items | |
| `YYKVStorage` | `YYKVStorage.m`; implements `ItemStore` | `YYKVStorageProofs`, `YYKVStorageTrimProofs` |
| `YYCache` | `YYCache.m`, with one step per method of the caches below it | `YYCacheProofs` |
| `YYWebImageManager` | the count of active requests and the indicator of `YYWebImageManager.m` | |
| `YYWebImageOperation` | `YYWebImageOperation.m`; extends `YYWebImageManager` | `YYWebImageOperationProofs` |
| `NumberInduction` | nothing of the code: two induction rules the proofs use | itself |
| `MC*` | the instances: symmetry sets only | |

A definition whose comment begins with "Mutation:" is a faulty variant of the one that
follows it, and no specification uses it. In place of its definition it must make TLC
report the property it is listed with in `PROJECT.json`, which shows that the property
can fail.

### LRUMap, LRUList and YYLinkedMap

`LRUMap` has the methods of `_YYLinkedMap` as operators on a record: the dictionary, the
list as a sequence of keys, the two totals. `YYMemoryCache` uses it. `YYLinkedMap` has
the same methods as assignments to pointers: a node is a cell of `heap` at an address, a
node that leaves the dictionary is freed at once and its address may be used again, and
`_totalCost` counts modulo `Modulus` as an `NSUInteger` does. `Abstract(p)` is the map
its nodes form when one walks from `_head` along `_next`. Under it `YYLinkedMap`
implements `LRUList` (`ImplementsList`), and each method does to the list what its
namesake in `LRUMap` does (`MethodsAgree`).

### YYMemoryCache

`lru` is `_lru`. One lock hold is one action: `SetObject` is all of
`setObject:forKey:withCost:` (store, schedule a cost trim, evict one node over the
count limit). A trim is several actions: `CallTrim` or `StartQueuedTrim` begins it and
reads the clock, `CheckTrim` is its first lock hold, each `TrimStep` one successful
`trylock`. A failed `trylock` sleeps and retries, which is a stuttering step. `queue`
is the serial queue, as the sequence of trims its blocks will run; a limit is read when
a trim starts. `objectForKey:` reads `node->_value` after it unlocks, so it is three
actions: `ObjectForKey`, `LoadValue`, `ReturnValue`.

Left out: the queue on which evicted nodes are released, and the comparison of a total
cost that has wrapped at 2^64 with the limit (that the wrap leaves no error behind is
part of `WellLinked`).

### YYKVStorage and ItemStore

`rows` is the table, `files` the data directory, `op` the method under way. A value is
the number of the save that brought it. Each call that touches the disk is one action,
so that `Crash` can come between any two; only the three database files that `_reset`
removes go in one (`UnlinkDb`), since sqlite discards a log whose database is gone. (Not
covered: that the database cannot be removed but a log with newer rows, left by a crash,
can.) A trim asks for the oldest item each time where the code works through batches of
sixteen: the storage has one caller, so the items are the same. The constant `Faults`
says what may go wrong: `"io"`, a call fails and its caller is told; `"busy"`, a
deletion of several rows ends with a result other than `SQLITE_ERROR`; `"unlink"`, the
database file cannot be removed; `"crash"`, the process dies (what sqlite has committed
survives; a loss of power does not come into it). The methods share their steps:

* save: `SaveItem`, then `WriteFile`, `SaveRow`, and `UndoWrite` if the row fails; or,
  inline, `LookupFilename`, `DropFile`, `SaveRow`;
* remove: `RemoveItem`, `LookupFilename`, `DropFile`, `DeleteRow`;
* get: `GetItem`, `QueryRow`, `TouchRow`, `ReadFile`, and `DeleteRow` if the file is gone;
* trims to a size or a count: `RemoveItemsToFit`, `TotalItems`, then `PickOldest`,
  `DropFile`, `DeleteRow` until it fits;
* removals of several items: `RemoveItems`, `LookupFilename`, `DropFiles`, `DeleteRows`;
* start over: `RemoveAllItems`, `UnlinkDb`, `MoveToTrash`, `MakeDataDir`, `Reopen`;
  `Restart` is `initWithPath:type:` and may go the same way.

`ItemStore` is the view from outside. `store[k]` is what a read of `k` finds, that is
`Readable(k)`; `saves` is the number of the newest save and `saving` the key it is about
while it is under way. A save may come to light (`Store`), whole or `Torn`; items may be
lost at any time, but by a save only the one it replaces (`Lose`). Nothing else changes
what is found. So after a save a key has its old item, the new one, a part of the new
one, or none, and no other key is touched, and after a removal the old item or none. That
is what `DiskSet`, `DiskRemove` and `DiskRemoveAll` of `YYCache` assume of the disk cache
(with `DiskFails`; an archive that is cut off does not decode, and counts as none there).

`acked` and `floor` are history: what the callers have been told. A promise about a key
ends when something is done about that key, and there is one event that ends all of
them: if the database does not open at a launch, `initWithPath:type:` takes it for
broken and wipes the store (`YYKVStorage.m:744-748`), also when the failure was one of a
moment. `Restart` clears `acked` then, so `AckedDurable` says nothing of items saved
before. File names are those YYDiskCache makes by default, one for each key; a
`customFileNameBlock` that gives two keys one name is not modelled. Left out: reading
several items in one call.

### YYCache

One method of either cache is one step. `task` holds, for each thread and each block,
what is still to do. In `Spec` callers do as they like. In `InTurnSpec` they wait, before
they set or remove a key, for every method about that key, blocks included, and before
they look one up, for those that change it; methods about different keys overlap freely.

YYDiskCache drops the answers of its storage, so with `DiskFails` a save or a removal may
fail unnoticed and leave the old object on disk. A lookup finds it there once memory has
evicted the new one. `left` is the history of that: what the last change of a key left
behind. `LookupIsLatest` allows the object last set, nothing, or `left`, and nothing
older.

### YYWebImageOperation and YYWebImageManager

`op[o]` is one operation: the flags of NSOperation, `_connection`, the background task,
the selectors the network thread is still to perform (`performs`), where that thread is
in a handler (`thread`), and the block on the image queue (`block`). The rest is history:
`ends` and `stage`, how often `_completion` was told of the end and what it was told
last; `late`, whether it was told of progress after `cancel`; `reentered`, whether it
called `cancel` itself while it was told of the end. What the code does to an operation is
an operator on its record (`cancel`, `_finish`, `Complete`), and each handler one action:

* client: `start`, `Cancel`, `Expire` (the background task runs out), `dealloc`;
* network thread, performed: `Enter` is the first look at `isCancelled` in
  `_startOperation` and `_startRequest:`; what they do after that is `MemoryHit`,
  `MemoryMiss`, `RefuseRequest` and `OpenConnection`, so that `Cancel` fits in between;
  then `_cancelOperation` and the two `_didReceiveImage...`;
* network thread, delegate: `didReceiveData`, `didFailWithError` (also for a response
  with an error status), `connectionDidFinishLoading`;
* image queue: `StartBlock`, `LookedUp`, `Decoded`;
* main thread: `ChangeCount` and `_delaySetActivity` of `YYWebImageManager`.

Selectors of one operation may be performed in any order, which allows more than the
run loop does. All operations load one URL, so the blacklist is a flag. What caches,
network and decoder answer is arbitrary. The branch of `start` for an operation without
a request is dead, since `initWithRequest:` refuses it. An operation is started once, as
NSOperation demands, and has no dependencies, so `isReady` holds in `start`. Left out:
authentication and the image bytes.

`_completion` runs under the lock, which is recursive, and before `_finish`. If it cancels
its own operation there, `cancel` still sees it executing and asks for `_cancelOperation`,
and the block is called a second time, with the stage Cancelled. `Completed` has both
outcomes, and `CompletesOnce` allows the second report in that case only. (A block that
cancels while it is told of progress is a `Cancel` right after `didReceiveData`.)

A change of the count asked for on the main thread is made at once, ahead of those on the
main queue; elsewhere it is a block on that queue. Handlers run on the network thread,
only `dealloc` may be on either.

## 3. Runs

| run | bounds | shows |
|---|---|---|
| `memory_cache` | 3 keys, costs 1 and 2, limits on either side of them that change, one caller beside the queue, 2 ticks | list, dictionary, totals and order stay right; evictions are least recently used first; an age trim is complete; no cost trim is lost; a store never passes the count limit |
| `linked_map` | 4 keys, 5 addresses, costs that wrap modulo 4 | the pointers form one list in both directions; the pointer code implements the list |
| `memory_cache_live` | 2 keys, limits change, no symmetry | the cache settles within its limits once callers stop |
| `memory_cache_read` | 1 key, 2 callers | violated: the value being returned is released |
| `kv_faults` | 2 keys, 3 saves, 2 directories in the trash, failing calls, crashes, 2 reopen attempts | acknowledged saves survive everything but a launch at which the database does not open; replaced and removed values never return; the trash is always scheduled for emptying; what is read changes only as `ItemStore` allows |
| `kv_clean` | 3 keys, 3 saves of two sizes, no faults | rows and files agree; trims are LRU, minimal, and reach their limit |
| `kv_overflow` | `INT_MAX` = 3 | violated: a total beyond `INT_MAX` stops the trim |
| `kv_busy` | busy database | violated: `removeItemForKeys:` answers YES and removes nothing |
| `cache_serial` | 2 keys, 3 sets, 2 threads, 2 blocks, callers in turn for each key, a disk cache that may fail | lookups of a key that is not being changed return the latest object, nothing, or what the last change failed to replace on disk |
| `cache_reader` | a writer and a reader | violated: a removed object comes back |
| `web_operation` | 2 operations, 3 sets of options, no queue to retain them | one report of the end of each request, two if the block cancels its own operation, none after that; no request taken off the count twice; every request ends |
| `web_count` | 1 operation | violated: the count stays too high |

Why the bounds are enough. In a list of three nodes there is a head, a middle and a
tail. Three saves give a key an old value, a new one and one that fails. The size of
`INT_MAX` only matters relative to the totals. Operations meet only on the network
thread, on the blacklist and in the count, so two of them show every interference; a
queue only takes away cases of `dealloc`. Keys are interchangeable, so the runs use
symmetry on them, except where a liveness property is checked; in `cache_serial` threads
and blocks are interchangeable, too.

What `cache_serial` leaves to its hypothesis. Callers that do not wait break
`LookupIsLatest` in two ways. A lookup may overlap a change; `cache_reader` shows that,
with one writer. And two changes of a key may reach memory in one order and the disk in
the other: with two writers under `Spec` TLC finds this in five states (`SetObject`,
`RemoveObject`, `DiskRemove`, `DiskSet`). No run is kept for the second, since it refutes
the same sentence of the header.

Fairness. `FairSpec` of YYMemoryCache assumes that the system serves the queue and
fires the timer, and that a trim under way goes on: every critical section is short, so
a `trylock` that is repeated succeeds. It assumes nothing of callers.

That of YYWebImageOperation assumes that operations are started, that threads and queues
go on, and that a connection fails or finishes, since its request has a time-out. The
network thread serves all operations in turn, so an operation that is ready again and
again gets its turn (strong fairness). Nobody has to cancel.

## 4. What is proved

`tlapm` checks these for every number of keys, threads, limits, saves and steps. Every
safety property of a passing run is a theorem; `PROJECT.json` lists which is which.

### The linked map and the memory cache

* `LRUMapProofs`: each operation keeps a map `Sound`, that is well typed, consistent,
  sorted, and with a total equal to the sum of the costs. The sum is defined by
  recursion along the list; that it loses exactly the cost of a node that leaves,
  wherever in the list it was, is proved by induction over the length.
* `YYLinkedMapProofs`: `TypeCorrect`, `AlwaysWellLinked`, `Refinement`
  (`Spec => ImplementsList`) and `MethodsAlwaysAgree`. The inductive invariant is
  `Rep(map, Abstract(map))`: the pointers represent the map they are read as, and that
  map is whole. For each method a lemma takes any linked map that represents `m` to one
  that represents what `LRUMap` makes of `m`. Another lemma says that a linked map
  represents no other map than the one the walk reads, so the step of `Abstract(map)`
  is the step of `LRUMap`.
* `YYMemoryCacheProofs`: `TypeCorrect`, `ListAlwaysMatchesDic`, `RecencyAlwaysSorted`,
  `CostsAlwaysAddUp`, and the action properties `AgeTrimAlwaysComplete`,
  `EvictionFollowsRecency`, `CountStaysBounded` and `NoTrimIsLost`. `IInv` joins the
  types, `Sound` and the fact that a reader has a key. Sortedness needs consistency,
  since only then does an index of the list name a node; an age trim that stops at a
  young tail is complete because the list is sorted. `LimitsKept` adds, for limits that
  never change, that a cost over the limit always has a trim waiting or running for the
  present limit, and that the count is within its limit.

### The storage

`YYKVStorageProofs`, and for the last three `YYKVStorageTrimProofs`. A method is several
steps and the properties speak of the states in between, so the invariant says for each
place a method can be at what holds there.

* `Control` is what the method knows: which key it has, that a row it found is still
  there, that the file it wrote is in place when it writes the row. With the types it
  gives `TypeCorrect`; on top of it `TrashIsScheduled` is inductive as it stands
  (`TrashAlwaysScheduled`).
* `Durable` gives `AckedAlwaysDurable`, under every combination of faults (and with the
  exception above, the launch at which the database does not open): an
  acknowledged save is in its row, and in its file if it has one (`InPlace`), and a step
  that writes or deletes is about a key for which nothing is promised (`Released`).
* `Fresh` gives `NeverStale`: rows and files are never older than what their callers
  were told, and the file of a row never older than the row. It assumes that `"busy"`
  and `"unlink"` are not among the faults. Both assumptions are needed: the run `kv_busy`
  shows one, section 5 tells of the other.
* `StoreImplemented` (`Spec => ImplementsStore`) holds under every combination of faults
  and for every type, `"busy"`, `"unlink"` and SQLite included. Each step is shown to
  be one of `ItemStore` or to change nothing it sees. `Control` says why a row that
  names a file brings the right content to light (the file was written just before), and
  `SavePlace`, that a save is only ever at its own steps, why it touches no other
  key. A file left behind by a failed deletion, by a read that failed for a moment, or by
  a storage of type SQLite stays invisible: no row names it before it is written anew.
* `Clean` gives `RowsAndFilesAgree`, for `Faults = {}` and a type other than SQLite:
  `Pending` names the one key whose row and file may differ until the next step. In
  a storage of type SQLite a file written for a given file name outlives its row.
* `Trimming` gives `TrimEvictsOldestNeeded`, under every combination of faults: the total
  a trim keeps is never above the real one, and its item is the oldest, until the item's
  row goes. This holds past `INT_MAX` too, since the total an int shows is never above
  the true one.
* `Exact` gives `TrimFitsLimit`, for `Faults = {}` and totals that fit in an int
  (`NoOverflow`; the run `kv_overflow` shows why): the total a trim keeps is then the
  real one. That the sum of the sizes loses exactly the size of the row that goes is
  proved by induction over the number of rows (`SizeIsAdditive`).

`NumberInduction` makes these inductions possible. The library's induction rules take a
predicate, which the provers cannot instantiate; its `SetInduction` takes a set of
numbers instead. A recursive function is unfolded by exhibiting a function that solves
its equations.

### YYCache

* `YYCacheProofs`: `TypeCorrect` for every interleaving and `InTurnLookup` for callers
  in turn, whether or not the disk cache fails. `LookupIsLatest` is about keys that no
  method is changing. While one is, the disk may be behind memory, so the invariant says
  who still owes it a write (`Owes`), that no other method is then about that key
  (`InTurn`), and that what a step carries is the latest object. The run `cache_reader`
  shows that a lookup has to wait, too.

### The image operation

* `YYWebImageOperationProofs`: `TypeCorrect`, `CompletesAtMostOnce`,
  `FinishesOnlyAfterStart`, `TasksAreOwned`, `CancelIsFinal` and `IndicatorAgrees`. The
  invariant `Sound` of one operation says that the right to report the end is in one of
  three places, the executing flag, a `_cancelOperation` still to be performed, or the
  past; and that the work on a request goes on in at most one place (`Places`), which is
  why a handler that is not cancelled finds the flag still set. A completion block that
  cancels its own operation hands that right to `_cancelOperation` once more, hence the
  second report that `CompletesAtMostOnce` allows. Since a step changes one
  operation, it is enough that its record stays sound (`Follows`). For the indicator,
  a pending timer carries the answer for the present count (`TimerFollowsCount`).
* `CountNeverTooLow`, in the same module. Count and changes still on the main queue
  together are at least the number of open requests, since a request is counted up in
  the step that opens it and down only in one that forgets it, and is open in one place
  at a time.

Assumptions are the named `ASSUME`s of the modules: `Nil` is not a value, costs and
limits are natural numbers, sets of keys are finite where they are counted, and the
like. TLC evaluates them in every run.

Only model-checked: the liveness properties `SettlesWithinLimits` and
`EveryRequestEnds`, since the prover has neither fairness nor `ENABLED`. The properties
of the runs that end in a violation are false of the code as it is.

## 5. Findings

Each is a run that ends in a violation; `PROJECT.json` quotes the line it contradicts.

1. `objectForKey:` of the memory cache returns a value it read after unlocking.
2. A total size beyond `INT_MAX` disables `removeItemsToFitSize:`.
3. `removeItemForKeys:` answers YES when the database is busy or full.
4. A concurrent lookup brings a removed object of YYCache back into memory.
5. A connection that finishes between `cancel` and `_cancelOperation` is never taken off
   the count of active requests, and the indicator stays on.

Beside these, with the fault `"unlink"` (the database file cannot be removed)
`NoStaleRead` fails too: `_reset` ignores the answer, so `removeAllItems` answers YES
and leaves inline items readable. A storage of type SQLite that is given a file name
writes the file, against `YYKVStorage.h:147`. And an object can be in YYCache's memory
cache and not on disk, against the comment at `YYCache.m:104`, since the disk cache
evicts on its own. No runs are kept for these three.

## 6. Plan

1. `YYDiskCache`: the registry of instances, the lock, termination, the limits.
2. `_YYWebImageSetter` with the categories: a late completion never replaces the image
   of a newer request.
3. `YYImageCache`, and the operation's use of it.
4. `YYDiskCache` and `YYCache` on top of `ItemStore`.
