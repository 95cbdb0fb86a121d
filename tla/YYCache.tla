-------------------------------- MODULE YYCache --------------------------------
(***************************************************************************)
(* YYCache.m: a memory cache in front of a disk cache.  Each is thread-    *)
(* safe, so one method of either is one step here; YYCache adds no lock of *)
(* its own, so other calls come between the two steps of a method.  The    *)
(* synchronous methods run both steps on the caller's thread, those with a *)
(* block run the second one on the disk cache's concurrent queue, where    *)
(* blocks start and finish in any order.                                   *)
(*                                                                         *)
(* The memory cache may drop any object at any time (limits, trims, memory *)
(* warnings: YYMemoryCache), the disk cache too (trims: YYKVStorage).  An  *)
(* object is the number of the setObject: that brought it.                 *)
(***************************************************************************)
EXTENDS Integers

CONSTANTS
    Key, Nil,
    Thread,      \* the threads that call the cache
    Writer,      \* those that set and remove objects
    Block,       \* the blocks the disk cache's queue can run at a time
    DiskFails,   \* may the disk cache fail to save or remove an object?
    MaxSets      \* bound on the number of setObject: calls

ASSUME YYCacheAssumption ==
    /\ Nil \notin Nat /\ Nil \notin Key
    /\ Writer \subseteq Thread
    /\ Thread \cap Block = {}
    /\ DiskFails \in BOOLEAN
    /\ MaxSets \in Nat

VARIABLES
    mem,         \* _memoryCache
    dsk,         \* _diskCache
    task,        \* for each thread and block, the method it has yet to finish
    next,        \* history: the number of the next setObject:
    latest,      \* history: for each key, the object last set, Nil once removed
    left         \* history: for each key, the object that the last change of the
                 \* disk cache left there because it failed, Nil if it succeeded

vars == <<mem, dsk, task, next, latest, left>>

Executor == Thread \cup Block
Object == Nat
Task == [name : {"none", "set", "remove", "removeAll", "get", "check", "fill"},
         key : Key \cup {Nil}, obj : Object \cup {Nil}]
Idle == [name |-> "none", key |-> Nil, obj |-> Nil]

TypeOK ==
    /\ mem \in [Key -> Object \cup {Nil}]
    /\ dsk \in [Key -> Object \cup {Nil}]
    /\ task \in [Executor -> Task]
    /\ next \in Nat
    /\ latest \in [Key -> Object \cup {Nil}]
    /\ left \in [Key -> Object \cup {Nil}]

\* A new instance: nothing in memory, and on disk what was saved last time.
Init ==
    /\ mem = [k \in Key |-> Nil]
    /\ dsk \in [Key -> {Nil, 0}]
    /\ task = [e \in Executor |-> Idle]
    /\ next = 1
    /\ latest = dsk
    /\ left = [k \in Key |-> Nil]

\* Thread t calls a method whose second step is done by e: t itself, or a block.
Calls(t, e) == task[t] = Idle /\ e \in {t} \cup Block /\ task[e] = Idle

Then(e, name, k, obj) ==
    task' = [task EXCEPT ![e] = [name |-> name, key |-> k, obj |-> obj]]
Done(e) == task' = [task EXCEPT ![e] = Idle]

-------------------------------------------------------------------------------
(* The methods: what they do to the memory cache ...                         *)

\* Mutation: a new object is only written to disk.
SetObjectOnDisk(t, e, k) ==
    /\ t \in Writer /\ Calls(t, e)
    /\ next <= MaxSets
    /\ next' = next + 1
    /\ latest' = [latest EXCEPT ![k] = next]
    /\ Then(e, "set", k, next)
    /\ UNCHANGED <<mem, dsk, left>>

SetObject(t, e, k) ==
    /\ t \in Writer /\ Calls(t, e)
    /\ next <= MaxSets
    /\ next' = next + 1
    /\ mem' = [mem EXCEPT ![k] = next]
    /\ latest' = [latest EXCEPT ![k] = next]
    /\ Then(e, "set", k, next)
    /\ UNCHANGED <<dsk, left>>

RemoveObject(t, e, k) ==
    /\ t \in Writer /\ Calls(t, e)
    /\ mem' = [mem EXCEPT ![k] = Nil]
    /\ latest' = [latest EXCEPT ![k] = Nil]
    /\ Then(e, "remove", k, Nil)
    /\ UNCHANGED <<dsk, next, left>>

RemoveAllObjects(t, e) ==
    /\ t \in Writer /\ Calls(t, e)
    /\ mem' = [k \in Key |-> Nil]
    /\ latest' = [k \in Key |-> Nil]
    /\ Then(e, "removeAll", Nil, Nil)
    /\ UNCHANGED <<dsk, next, left>>

\* objectForKey: of an object that is not in memory; a hit changes nothing.
ObjectForKey(t, e, k) ==
    /\ Calls(t, e)
    /\ mem[k] = Nil
    /\ Then(e, "get", k, Nil)
    /\ UNCHANGED <<mem, dsk, next, latest, left>>

-------------------------------------------------------------------------------
(* ... and then to the disk cache, which tells nobody when it fails.         *)

\* A save that fails leaves the old object or none.
DiskSet(e) ==
    /\ task[e].name = "set"
    /\ \E obj \in IF DiskFails THEN {task[e].obj, dsk[task[e].key], Nil}
                  ELSE {task[e].obj} :
         /\ dsk' = [dsk EXCEPT ![task[e].key] = obj]
         /\ left' = [left EXCEPT ![task[e].key] =
                        IF obj = task[e].obj THEN Nil ELSE obj]
    /\ Done(e)
    /\ UNCHANGED <<mem, next, latest>>

\* A removal that fails leaves the object.
DiskRemove(e) ==
    /\ task[e].name = "remove"
    /\ \E obj \in IF DiskFails THEN {Nil, dsk[task[e].key]} ELSE {Nil} :
         /\ dsk' = [dsk EXCEPT ![task[e].key] = obj]
         /\ left' = [left EXCEPT ![task[e].key] = obj]
    /\ Done(e)
    /\ UNCHANGED <<mem, next, latest>>

\* The removal of all objects may fail at once, or (with a progress block) part way.
DiskRemoveAll(e) ==
    /\ task[e].name = "removeAll"
    /\ \E kept \in IF DiskFails THEN SUBSET Key ELSE {{}} :
         /\ dsk' = [k \in Key |-> IF k \in kept THEN dsk[k] ELSE Nil]
         /\ left' = dsk'
    /\ Done(e)
    /\ UNCHANGED <<mem, next, latest>>

\* Mutation: object and key change places.
DiskGetSwapped(e) ==
    /\ task[e].name = "get"
    /\ IF dsk[task[e].key] = Nil THEN Done(e)
       ELSE Then(e, "fill", dsk[task[e].key], task[e].key)
    /\ UNCHANGED <<mem, dsk, next, latest, left>>

\* The object is read from disk.  A block will look in memory again before it
\* puts the object there; the synchronous method will not.
DiskGet(e) ==
    /\ task[e].name = "get"
    /\ IF dsk[task[e].key] = Nil THEN Done(e)
       ELSE Then(e, IF e \in Block THEN "check" ELSE "fill",
                 task[e].key, dsk[task[e].key])
    /\ UNCHANGED <<mem, dsk, next, latest, left>>

CheckMemory(e) ==
    /\ task[e].name = "check"
    /\ IF mem[task[e].key] # Nil THEN Done(e)
       ELSE Then(e, "fill", task[e].key, task[e].obj)
    /\ UNCHANGED <<mem, dsk, next, latest, left>>

FillMemory(e) ==
    /\ task[e].name = "fill"
    /\ mem' = [mem EXCEPT ![task[e].key] = task[e].obj]
    /\ Done(e)
    /\ UNCHANGED <<dsk, next, latest, left>>

\* The caches evict.
EvictFromMemory(k) ==
    /\ mem' = [mem EXCEPT ![k] = Nil]
    /\ UNCHANGED <<dsk, task, next, latest, left>>

EvictFromDisk(k) ==
    /\ dsk' = [dsk EXCEPT ![k] = Nil]
    /\ UNCHANGED <<mem, task, next, latest, left>>

-------------------------------------------------------------------------------
Call ==
    \E t \in Thread, e \in Executor :
        \/ \E k \in Key : SetObject(t, e, k) \/ RemoveObject(t, e, k)
                          \/ ObjectForKey(t, e, k)
        \/ RemoveAllObjects(t, e)

Finish ==
    \E e \in Executor : DiskSet(e) \/ DiskRemove(e) \/ DiskRemoveAll(e)
                        \/ DiskGet(e) \/ CheckMemory(e) \/ FillMemory(e)

Evict == \E k \in Key : EvictFromMemory(k) \/ EvictFromDisk(k)

Spec == Init /\ [][Call \/ Finish \/ Evict]_vars

\* Methods under way: any, one about k, one that sets or removes k.
Quiet == \A e \in Executor : task[e] = Idle
Busy(k) == \E e \in Executor : task[e].name = "removeAll" \/ task[e].key = k
Owes(e, k) == \/ task[e].name = "removeAll"
              \/ task[e].name \in {"set", "remove"} /\ task[e].key = k
Changing(k) == \E e \in Executor : Owes(e, k)

\* Callers that wait, before a method, for those under way, and their blocks, that
\* concern the same key; lookups of a key need not wait for each other.
CallInTurn ==
    \E t \in Thread, e \in Executor :
        \/ \E k \in Key : ~Busy(k) /\ (SetObject(t, e, k) \/ RemoveObject(t, e, k))
        \/ \E k \in Key : ~Changing(k) /\ ObjectForKey(t, e, k)
        \/ Quiet /\ RemoveAllObjects(t, e)

InTurnSpec == Init /\ [][CallInTurn \/ Finish \/ Evict]_vars

-------------------------------------------------------------------------------
(* Properties. *)

Lookup(k) == IF mem[k] # Nil THEN mem[k] ELSE dsk[k]

\* Unless a method is just setting or removing it, objectForKey: of a key returns
\* the object last set, or nothing if that was removed or evicted: never one that
\* was replaced or removed, whatever was evicted, promoted from disk or half done
\* in between.  The one exception: an object that the last change of this key failed
\* to replace or remove on disk, which YYDiskCache tells nobody (setObject:forKey:,
\* removeObjectForKey: and removeAllObjects ignore what YYKVStorage answers), may be
\* found there; an object of an earlier failure is not.
LookupIsLatest ==
    \A k \in Key : ~Changing(k) => Lookup(k) \in {Nil, latest[k], left[k]}

===============================================================================
