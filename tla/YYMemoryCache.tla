----------------------------- MODULE YYMemoryCache -----------------------------
(***************************************************************************)
(* YYMemoryCache.m: an LRU cache shared by any number of threads.  All     *)
(* state is behind one pthread mutex, so a critical section is one atomic  *)
(* action.  What is not atomic, and is modelled step by step:              *)
(*   - a trim, which looks once under the lock and then removes one node   *)
(*     per (try)lock hold while other threads keep using the cache;        *)
(*   - the serial queue _queue, on which setObject: and the timer schedule *)
(*     trims that read the limits only when they run;                      *)
(*   - objectForKey:, which reads node->_value after unlocking.            *)
(* A failed trylock sleeps and tries again: a stuttering step.             *)
(***************************************************************************)
EXTENDS LRUMap

CONSTANTS
    Thread,          \* the threads that call the cache
    Worker,          \* the thread that serves _queue
    Cost,            \* costs callers pass
    CostLimits, CountLimits, AgeLimits,   \* values limits are given
    MaxTime,         \* bound on CACurrentMediaTime()
    MaxQueue         \* bound on the trims waiting in _queue

Executor == Thread \cup {Worker}

ASSUME CacheAssumption ==
    /\ Worker \notin Thread
    /\ Cost \subseteq Nat
    /\ CostLimits \subseteq Nat /\ CountLimits \subseteq Nat
    /\ AgeLimits \subseteq Nat
    /\ MaxTime \in Nat /\ MaxQueue \in Nat

VARIABLES
    lru,             \* _lru, the linked map
    costLimit, countLimit, ageLimit,
    clock,           \* CACurrentMediaTime()
    queue,           \* the trims the blocks waiting in _queue will run, in order
    run,             \* for each executor, the trim it is in the middle of
    reader           \* for each thread, the objectForKey: it is in the middle of

limits == <<costLimit, countLimit, ageLimit>>
vars == <<lru, limits, clock, queue, run, reader>>

TrimKind == {"cost", "count", "age"}
Run == [kind : TrimKind \cup {"idle"}, phase : {"check", "loop"},
        limit : Nat, now : Nat]
Idle == [kind |-> "idle", phase |-> "check", limit |-> 0, now |-> 0]

\* live: the node is still in the map.  owned: the node still holds a
\* reference to the value the reader has loaded.
Reader == [pc : {"idle", "found", "loaded"}, key : Key \cup {Nil},
           value : Value \cup {Nil}, live : BOOLEAN, owned : BOOLEAN]
NotReading == [pc |-> "idle", key |-> Nil, value |-> Nil,
               live |-> FALSE, owned |-> FALSE]

TypeOK ==
    /\ lru \in LinkedMap
    /\ costLimit \in Nat /\ countLimit \in Nat /\ ageLimit \in Nat
    /\ clock \in Nat
    /\ queue \in Seq(TrimKind)
    /\ run \in [Executor -> Run]
    /\ reader \in [Thread -> Reader]

\* A new cache, once its owner has set the limits it wants.
Init ==
    /\ lru = EmptyMap
    /\ costLimit \in CostLimits /\ countLimit \in CountLimits
    /\ ageLimit \in AgeLimits
    /\ clock = 0
    /\ queue = <<>>
    /\ run = [e \in Executor |-> Idle]
    /\ reader = [t \in Thread |-> NotReading]

Free(t) == run[t] = Idle /\ reader[t] = NotReading

(***************************************************************************)
(* A reader between unlock and return keeps its node alive, in the map or  *)
(* out of it.  A store into that node replaces the value it is about to    *)
(* load, and releases the one it has loaded but not yet retained.          *)
(***************************************************************************)
ReaderAfter(m) ==
    [t \in Thread |->
        LET r == reader[t] IN
        IF r.pc = "idle" \/ ~r.live THEN r
        ELSE IF m.dic[r.key] = Nil THEN [r EXCEPT !.live = FALSE]
        ELSE IF r.pc = "found" THEN [r EXCEPT !.value = m.dic[r.key].value]
        ELSE [r EXCEPT !.owned = @ /\ m.dic[r.key].value = r.value]]

\* Mutation: a nil object is stored.
StoreNil(m, k, v, c) ==
    LET n == [value |-> Nil, cost |-> c, time |-> clock] IN
    IF m.dic[k] = Nil THEN InsertNodeAtHead(m, k, n)
    ELSE BringNodeToHead(RewriteNode(m, k, n), k)

\* Mutation: replacing a value keeps counting the old cost.
StoreKeepingOldCost(m, k, v, c) ==
    LET n == [value |-> v, cost |-> c, time |-> clock] IN
    IF m.dic[k] = Nil THEN InsertNodeAtHead(m, k, n)
    ELSE BringNodeToHead([m EXCEPT !.totalCost = @ + c, !.dic[k] = n], k)

\* The part of setObject:forKey:withCost: that stores the object.
Store(m, k, v, c) ==
    LET n == [value |-> v, cost |-> c, time |-> clock] IN
    IF m.dic[k] = Nil THEN InsertNodeAtHead(m, k, n)
    ELSE BringNodeToHead(RewriteNode(m, k, n), k)

\* Mutation: the cost is compared with the limit before the object is stored.
SetObjectCheckingFirst(t, k, v, c) ==
    LET stored == Store(lru, k, v, c)
        fitted == IF stored.totalCount > countLimit
                  THEN RemoveTailNode(stored) ELSE stored
    IN /\ Free(t)
       /\ Len(queue) < MaxQueue
       /\ lru' = fitted
       /\ reader' = ReaderAfter(fitted)
       /\ queue' = IF lru.totalCost > costLimit
                   THEN Append(queue, "cost") ELSE queue
       /\ UNCHANGED <<limits, clock, run>>

\* Mutation: nothing is evicted for the count limit.
SetObjectUncounted(t, k, v, c) ==
    LET stored == Store(lru, k, v, c)
    IN /\ Free(t)
       /\ Len(queue) < MaxQueue
       /\ lru' = stored
       /\ reader' = ReaderAfter(stored)
       /\ queue' = IF stored.totalCost > costLimit
                   THEN Append(queue, "cost") ELSE queue
       /\ UNCHANGED <<limits, clock, run>>

\* setObject:forKey:withCost: with an object.
SetObject(t, k, v, c) ==
    LET stored == Store(lru, k, v, c)
        fitted == IF stored.totalCount > countLimit
                  THEN RemoveTailNode(stored) ELSE stored
    IN /\ Free(t)
       /\ Len(queue) < MaxQueue
       /\ lru' = fitted
       /\ reader' = ReaderAfter(fitted)
       /\ queue' = IF stored.totalCost > costLimit
                   THEN Append(queue, "cost") ELSE queue
       /\ UNCHANGED <<limits, clock, run>>

\* removeObjectForKey:, and setObject: with nil.
RemoveObjectForKey(t, k) ==
    /\ Free(t)
    /\ lru.dic[k] # Nil
    /\ lru' = RemoveNode(lru, k)
    /\ reader' = ReaderAfter(lru')
    /\ UNCHANGED <<limits, clock, queue, run>>

\* removeAllObjects, called by the program or by the memory-warning and
\* enter-background notifications.
RemoveAllObjects ==
    /\ lru' = EmptyMap
    /\ reader' = ReaderAfter(lru')
    /\ UNCHANGED <<limits, clock, queue, run>>

\* Mutation: an access sets the time and leaves the node where it is.
ObjectForKeyInPlace(t, k) ==
    /\ Free(t)
    /\ lru.dic[k] # Nil
    /\ lru' = [lru EXCEPT !.dic[k].time = clock]
    /\ reader' = [reader EXCEPT ![t] =
            [pc |-> "found", key |-> k, value |-> lru.dic[k].value,
             live |-> TRUE, owned |-> TRUE]]
    /\ UNCHANGED <<limits, clock, queue, run>>

\* objectForKey: up to its unlock; a miss returns at once and changes nothing.
ObjectForKey(t, k) ==
    /\ Free(t)
    /\ lru.dic[k] # Nil
    /\ lru' = BringNodeToHead(
            RewriteNode(lru, k, [lru.dic[k] EXCEPT !.time = clock]), k)
    /\ reader' = [reader EXCEPT ![t] =
            [pc |-> "found", key |-> k, value |-> lru.dic[k].value,
             live |-> TRUE, owned |-> TRUE]]
    /\ UNCHANGED <<limits, clock, queue, run>>

\* node->_value is loaded, then retained for the caller, with no lock held.
LoadValue(t) ==
    /\ reader[t].pc = "found"
    /\ reader' = [reader EXCEPT ![t].pc = "loaded"]
    /\ UNCHANGED <<lru, limits, clock, queue, run>>

ReturnValue(t) ==
    /\ reader[t].pc = "loaded"
    /\ reader' = [reader EXCEPT ![t] = NotReading]
    /\ UNCHANGED <<lru, limits, clock, queue, run>>

-------------------------------------------------------------------------------
(* Trims. *)

NewRun(kind, limit) ==
    [kind |-> kind, phase |-> "check", limit |-> limit,
     now |-> IF kind = "age" THEN clock ELSE 0]

\* trimToCost:, trimToCount: and trimToAge: called by the program.
CallTrim(t, kind, limit) ==
    /\ Free(t)
    /\ run' = [run EXCEPT ![t] = NewRun(kind, limit)]
    /\ UNCHANGED <<lru, limits, clock, queue, reader>>

LimitOf(kind) == CASE kind = "cost" -> costLimit
                   [] kind = "count" -> countLimit
                   [] kind = "age" -> ageLimit

\* _queue starts its next trim, with the limit as it is now.
StartQueuedTrim ==
    /\ queue # <<>>
    /\ run[Worker] = Idle
    /\ run' = [run EXCEPT ![Worker] = NewRun(Head(queue), LimitOf(Head(queue)))]
    /\ queue' = Tail(queue)
    /\ UNCHANGED <<lru, limits, clock, reader>>

\* Is the map over the limit of trim r?
Exceeds(m, r) ==
    CASE r.kind = "cost" -> m.totalCost > r.limit
      [] r.kind = "count" -> m.totalCount > r.limit
      [] r.kind = "age" -> /\ m.list # <<>>
                           /\ r.now - m.dic[m.list[Len(m.list)]].time > r.limit

\* The first lock hold of _trimToCost:, _trimToCount: and _trimToAge:.
CheckTrim(e) ==
    /\ run[e].kind # "idle" /\ run[e].phase = "check"
    /\ lru' = IF run[e].limit = 0 THEN EmptyMap ELSE lru
    /\ reader' = ReaderAfter(lru')
    /\ run' = [run EXCEPT ![e] =
            IF run[e].limit # 0 /\ Exceeds(lru, run[e])
            THEN [run[e] EXCEPT !.phase = "loop"] ELSE Idle]
    /\ UNCHANGED <<limits, clock, queue>>

\* Mutation: the loop of an age trim ends after one removal.
TrimStepOnce(e) ==
    /\ run[e].kind # "idle" /\ run[e].phase = "loop"
    /\ lru' = IF Exceeds(lru, run[e]) THEN RemoveTailNode(lru) ELSE lru
    /\ run' = IF Exceeds(lru, run[e]) /\ run[e].kind # "age" THEN run
              ELSE [run EXCEPT ![e] = Idle]
    /\ reader' = ReaderAfter(lru')
    /\ UNCHANGED <<limits, clock, queue>>

\* One pass of the trim loop that got the lock.
TrimStep(e) ==
    /\ run[e].kind # "idle" /\ run[e].phase = "loop"
    /\ IF Exceeds(lru, run[e])
       THEN lru' = RemoveTailNode(lru) /\ UNCHANGED run
       ELSE run' = [run EXCEPT ![e] = Idle] /\ UNCHANGED lru
    /\ reader' = ReaderAfter(lru')
    /\ UNCHANGED <<limits, clock, queue>>

\* Mutation: the timer trims by age only.
TrimInBackgroundByAge ==
    /\ Len(queue) + 3 <= MaxQueue
    /\ queue' = queue \o <<"age">>
    /\ UNCHANGED <<lru, limits, clock, run, reader>>

\* The timer of _trimRecursively fires and _trimInBackground schedules a block.
TrimInBackground ==
    /\ Len(queue) + 3 <= MaxQueue
    /\ queue' = queue \o <<"cost", "count", "age">>
    /\ UNCHANGED <<lru, limits, clock, run, reader>>

\* The limits are plain atomic properties: setting one touches nothing else.
SetLimits ==
    /\ \/ costLimit' \in CostLimits /\ UNCHANGED <<countLimit, ageLimit>>
       \/ countLimit' \in CountLimits /\ UNCHANGED <<costLimit, ageLimit>>
       \/ ageLimit' \in AgeLimits /\ UNCHANGED <<costLimit, countLimit>>
    /\ UNCHANGED <<lru, clock, queue, run, reader>>

Tick ==
    /\ clock < MaxTime
    /\ clock' = clock + 1
    /\ UNCHANGED <<lru, limits, queue, run, reader>>

LimitsOfKind(kind) == CASE kind = "cost" -> CostLimits
                        [] kind = "count" -> CountLimits
                        [] kind = "age" -> AgeLimits

\* Everything but a change of the limits.
Use ==
    \/ \E t \in Thread, k \in Key :
          \/ \E v \in Value, c \in Cost : SetObject(t, k, v, c)
          \/ RemoveObjectForKey(t, k)
          \/ ObjectForKey(t, k)
    \/ \E t \in Thread : LoadValue(t) \/ ReturnValue(t)
    \/ \E t \in Thread, kind \in TrimKind :
          \E limit \in LimitsOfKind(kind) : CallTrim(t, kind, limit)
    \/ \E e \in Executor : CheckTrim(e) \/ TrimStep(e)
    \/ RemoveAllObjects
    \/ StartQueuedTrim
    \/ TrimInBackground
    \/ Tick

Next == Use \/ SetLimits

Spec == Init /\ [][Next]_vars

\* The limits are set once, before the cache is used, as YYImageCache does.
FixedLimitsSpec == Init /\ [][Use]_vars

-------------------------------------------------------------------------------
(* Fairness.  The queue and the timer are served by the system; a thread     *)
(* inside a trim keeps running and gets the lock at some try, since every    *)
(* critical section is short.  Nothing is assumed of callers.                *)
FairSpec ==
    /\ Spec
    /\ WF_vars(StartQueuedTrim) /\ WF_vars(TrimInBackground)
    /\ \A e \in Executor : WF_vars(CheckTrim(e)) /\ WF_vars(TrimStep(e))

-------------------------------------------------------------------------------
(* Properties. *)

\* The dictionary and the list hold the same nodes, each exactly once, and
\* _totalCount is their number, whatever trims and calls interleave.
ListMatchesDic == Consistent(lru)

\* _totalCost is the sum of the costs of the nodes in the map: replacing,
\* removing and evicting nodes never lets the running total drift.
CostAccounting == CostsAddUp(lru)

\* The list is sorted by access time, newest first.  It holds because every
\* access reads the clock and moves the node in the same critical section; it
\* is why an age trim may stop at the first tail that is young enough.
RecencySorted == Sorted(lru, clock)

\* A step that evicts (any step but removeObjectForKey: of that very key)
\* never removes a node used more recently than one it keeps.
EvictsLeastRecentlyUsed ==
    [][\A k, kept \in Key :
         \/ k \notin Keys(lru) \ Keys(lru') \/ kept \notin Keys(lru')
         \/ \E t \in Thread : RemoveObjectForKey(t, k)
         \/ lru.dic[k].time <= lru'.dic[kept].time]_vars

\* When trimToAge: returns, no node is older than the age it was given,
\* counted from the moment the trim began, although other threads used the
\* cache between its lock holds (YYMemoryCache.h: "until all expiry objects
\* removed by the specified value").
AgeTrimComplete ==
    [][\A e \in Executor :
         run[e].kind = "age" /\ run'[e] = Idle =>
           \A k \in Keys(lru') : run[e].now - lru'.dic[k].time <= run[e].limit]_vars

\* A trim that brings the cache within its cost limit is waiting in _queue or
\* running there, unless it is within the limit already.
TrimPromised ==
    lru.totalCost > costLimit =>
        \/ \E i \in 1..Len(queue) : queue[i] = "cost"
        \/ run[Worker].kind = "cost" /\ run[Worker].limit <= costLimit

\* No interleaving of setObject: with the end of an earlier trim loses the
\* wake-up: only lowering the cost limit, which schedules nothing, leaves the
\* cache over it with no trim on the way.
NoLostTrim == [][TrimPromised /\ costLimit' >= costLimit => TrimPromised']_vars

WithinCount == lru.totalCount <= countLimit

\* The count limit is strict at every unlock, since setObject: adds at most one
\* node and then evicts one: only lowering the limit leaves the cache over it.
CountBounded == [][WithinCount /\ countLimit' >= countLimit => WithinCount']_vars

Grows == (\E t \in Thread, k \in Key, v \in Value, c \in Cost :
              SetObject(t, k, v, c)) \/ SetLimits

\* Once callers stop storing objects and changing limits, the cache comes
\* within its cost and count limits and stays there, however it got over them.
SettlesWithinLimits ==
    <>[][~Grows]_vars =>
        <>[](lru.totalCost <= costLimit /\ lru.totalCount <= countLimit)

\* YYMemoryCache.h: "all methods are thread-safe".  A value that objectForKey:
\* has loaded from a node and not yet retained is still held by that node.
LoadedValueIsOwned ==
    \A t \in Thread : reader[t].pc = "loaded" => reader[t].owned

===============================================================================
