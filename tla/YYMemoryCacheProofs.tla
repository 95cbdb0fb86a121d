-------------------------- MODULE YYMemoryCacheProofs --------------------------
(***************************************************************************)
(* The invariants of YYMemoryCache, for any keys, threads, costs and       *)
(* limits.  IInv is inductive: types need consistency (a key of the        *)
(* dictionary has an index in the list), consistency needs types, and a    *)
(* reader's key must be known to be one.                                   *)
(***************************************************************************)
EXTENDS YYMemoryCache, LRUMapProofs

\* A step that names no prover is tried with SMT, then with Zenon, then with
\* SMT again for longer.
USE SMTT(15), ZenonT(20), SMTT(60)

ReaderHasKey == \A t \in Thread : reader[t].pc # "idle" => reader[t].key \in Key

IInv == TypeOK /\ Sound(lru, clock) /\ ReaderHasKey

\* Time may pass over a sound map.
LEMMA SoundLater ==
    ASSUME NEW m, NEW now \in Nat, NEW later \in Nat, now <= later, Sound(m, now)
    PROVE  Sound(m, later)
<1>1. m \in LinkedMap /\ Consistent(m) /\ Sorted(m, now)
  BY DEF Sound, Whole
<1>2. ASSUME NEW i \in 1..Len(m.list)
      PROVE  m.dic[m.list[i]].time <= later
  <2>1. m.list[i] \in Key /\ m.dic[m.list[i]] # Nil
    BY <1>1 DEF LinkedMap, Consistent
  <2>2. m.dic[m.list[i]].time \in Nat
    BY <2>1, <1>1 DEF LinkedMap, Node
  <2>3. m.dic[m.list[i]].time <= now
    BY <1>1 DEF Sorted
  <2> QED
    BY <2>2, <2>3
<1> QED
  BY <1>1, <1>2 DEF Sound, Whole, Sorted

\* Whatever a step does to the map, the readers stay well typed.
LEMMA ReaderAfterType ==
    ASSUME IInv, NEW m \in LinkedMap
    PROVE  /\ ReaderAfter(m) \in [Thread -> Reader]
           /\ \A t \in Thread : /\ ReaderAfter(m)[t].pc = reader[t].pc
                                /\ ReaderAfter(m)[t].key = reader[t].key
<1>1. ASSUME NEW t \in Thread
      PROVE  /\ ReaderAfter(m)[t] \in Reader
             /\ ReaderAfter(m)[t].pc = reader[t].pc
             /\ ReaderAfter(m)[t].key = reader[t].key
  <2> DEFINE r == reader[t]
  <2>1. r \in Reader /\ (r.pc # "idle" => r.key \in Key)
    BY DEF IInv, TypeOK, ReaderHasKey
  <2>2. CASE r.pc = "idle" \/ ~r.live
    <3>1. ReaderAfter(m)[t] = r
      BY <2>2 DEF ReaderAfter
    <3> QED
      BY <3>1, <2>1
  <2>3. CASE ~(r.pc = "idle" \/ ~r.live) /\ m.dic[r.key] = Nil
    <3>1. ReaderAfter(m)[t] = [r EXCEPT !.live = FALSE]
      BY <2>3 DEF ReaderAfter
    <3> QED
      BY <3>1, <2>1, Zenon, ZenonT(60) DEF Reader
  <2>4. CASE ~(r.pc = "idle" \/ ~r.live) /\ m.dic[r.key] # Nil /\ r.pc = "found"
    <3>1. ReaderAfter(m)[t] = [r EXCEPT !.value = m.dic[r.key].value]
      BY <2>4 DEF ReaderAfter
    <3>2. m.dic[r.key].value \in Value
      BY <2>1, <2>4 DEF LinkedMap, Node
    <3> QED
      BY <3>1, <3>2, <2>1 DEF Reader
  <2>5. CASE ~(r.pc = "idle" \/ ~r.live) /\ m.dic[r.key] # Nil /\ r.pc # "found"
    <3>1. ReaderAfter(m)[t] =
             [r EXCEPT !.owned = @ /\ m.dic[r.key].value = r.value]
      BY <2>5 DEF ReaderAfter
    <3>2. (r.owned /\ m.dic[r.key].value = r.value) \in BOOLEAN
      OBVIOUS
    <3> QED
      BY <3>1, <3>2, <2>1, Zenon, ZenonT(60) DEF Reader
  <2> QED
    BY <2>2, <2>3, <2>4, <2>5
<1> QED
  BY <1>1 DEF ReaderAfter

\* A store, of a new key or of one already there, keeps the map sound.
LEMMA StoreSound ==
    ASSUME IInv, NEW k \in Key, NEW v \in Value, NEW c \in Cost
    PROVE  Sound(Store(lru, k, v, c), clock)
<1> DEFINE n == [value |-> v, cost |-> c, time |-> clock]
<1>1. n \in Node /\ n.time = clock /\ clock \in Nat /\ Sound(lru, clock)
  BY CacheAssumption DEF Node, IInv, TypeOK
<1>2. CASE lru.dic[k] = Nil
  <2>1. Store(lru, k, v, c) = InsertNodeAtHead(lru, k, n)
    BY <1>2 DEF Store
  <2> HIDE DEF n
  <2> QED
    BY <1>1, <1>2, <2>1, InsertSound
<1>3. CASE lru.dic[k] # Nil
  <2>1. Store(lru, k, v, c) = BringNodeToHead(RewriteNode(lru, k, n), k)
    BY <1>3 DEF Store
  <2> HIDE DEF n
  <2> QED
    BY <1>1, <1>3, <2>1, ReplaceSound
<1> QED
  BY <1>2, <1>3

\* The facts every step that only changes the map and the readers needs.
LEMMA MapStep ==
    ASSUME IInv, NEW m, Sound(m, clock), lru' = m, reader' = ReaderAfter(m),
           UNCHANGED <<limits, clock>>,
           queue' \in Seq(TrimKind), run' \in [Executor -> Run]
    PROVE  IInv'
<1>1. m \in LinkedMap
  BY DEF Sound, Whole
<1>2. /\ reader' \in [Thread -> Reader]
      /\ \A t \in Thread : /\ reader'[t].pc = reader[t].pc
                           /\ reader'[t].key = reader[t].key
  BY <1>1, ReaderAfterType
<1>3. ReaderHasKey'
  BY <1>2 DEF IInv, ReaderHasKey
<1>4. Sound(lru', clock')
  BY DEF limits
<1>5. TypeOK'
  BY <1>1, <1>2 DEF IInv, TypeOK, limits
<1> QED
  BY <1>3, <1>4, <1>5 DEF IInv

\* A new cache is empty, hence sound.
LEMMA InitIInv == Init => IInv
<1> SUFFICES ASSUME Init PROVE IInv
  OBVIOUS
<1>1. Sound(EmptyMap, 0)
  BY EmptyMapSound
<1>2. TypeOK
  <2>1. EmptyMap \in LinkedMap
    BY <1>1 DEF Sound, Whole
  <2>2. Idle \in Run /\ NotReading \in Reader
    BY DEF Idle, Run, NotReading, Reader
  <2> QED
    BY <2>1, <2>2, CacheAssumption DEF Init, TypeOK
<1>3. ReaderHasKey
  BY DEF Init, ReaderHasKey, NotReading
<1> QED
  BY <1>1, <1>2, <1>3 DEF Init, IInv

\* Every step of the cache keeps the inductive invariant.
LEMMA NextIInv == IInv /\ [Next]_vars => IInv'
<1> SUFFICES ASSUME IInv, [Next]_vars PROVE IInv'
  OBVIOUS
<1>0. /\ TypeOK /\ Sound(lru, clock) /\ clock \in Nat /\ ReaderHasKey
      /\ queue \in Seq(TrimKind) /\ run \in [Executor -> Run]
      /\ Sound(EmptyMap, clock) /\ Idle \in Run
  BY EmptyMapSound DEF IInv, TypeOK, Idle, Run
<1>1. ASSUME NEW t \in Thread, NEW k \in Key, NEW v \in Value, NEW c \in Cost,
             SetObject(t, k, v, c)
      PROVE  IInv'
  <2> DEFINE stored == Store(lru, k, v, c)
             fitted == IF stored.totalCount > countLimit
                       THEN RemoveTailNode(stored) ELSE stored
  <2>1. Sound(stored, clock)
    BY StoreSound
  <2>2. Sound(fitted, clock)
    BY <2>1, <1>0, RemoveTailSound
  <2>3. /\ lru' = fitted /\ reader' = ReaderAfter(fitted)
        /\ UNCHANGED <<limits, clock>> /\ run' = run
    BY <1>1 DEF SetObject
  <2>4. queue' \in Seq(TrimKind)
    BY <1>0, <1>1 DEF SetObject, TrimKind
  <2> HIDE DEF fitted
  <2> QED
    BY <1>0, <2>2, <2>3, <2>4, MapStep
<1>2. ASSUME NEW t \in Thread, NEW k \in Key, RemoveObjectForKey(t, k)
      PROVE  IInv'
  <2>1. Sound(RemoveNode(lru, k), clock)
    BY <1>0, <1>2, RemoveSound, Zenon, ZenonT(60) DEF RemoveObjectForKey
  <2> QED
    BY <1>0, <1>2, <2>1, MapStep DEF RemoveObjectForKey
<1>3. ASSUME NEW t \in Thread, NEW k \in Key, ObjectForKey(t, k)
      PROVE  IInv'
  <2> DEFINE n == [lru.dic[k] EXCEPT !.time = clock]
             m == BringNodeToHead(RewriteNode(lru, k, n), k)
  <2>1. lru.dic[k] \in Node
    BY <1>0, <1>3 DEF ObjectForKey, TypeOK, LinkedMap
  <2>2. n \in Node /\ n.time = clock
    BY <1>0, <2>1 DEF Node
  <2>3. lru' = m /\ UNCHANGED <<limits, clock, queue, run>>
    BY <1>3 DEF ObjectForKey
  <2> HIDE DEF n
  <2>4. Sound(m, clock)
    BY <1>0, <1>3, <2>2, ReplaceSound DEF ObjectForKey
  <2>5. /\ reader' \in [Thread -> Reader]
        /\ \A x \in Thread : reader'[x].pc # "idle" => reader'[x].key \in Key
    <3> DEFINE f == [pc |-> "found", key |-> k, value |-> lru.dic[k].value,
                     live |-> TRUE, owned |-> TRUE]
    <3>1. f \in Reader /\ f.key \in Key
      BY <2>1 DEF Reader, Node
    <3>2. reader' = [reader EXCEPT ![t] = f]
      BY <1>3 DEF ObjectForKey
    <3> HIDE DEF f
    <3> QED
      BY <3>1, <3>2, <1>0 DEF TypeOK, ReaderHasKey
  <2> QED
    BY <1>0, <2>3, <2>4, <2>5 DEF IInv, TypeOK, Sound, Whole, ReaderHasKey, limits
<1>4. ASSUME NEW t \in Thread, LoadValue(t) \/ ReturnValue(t)
      PROVE  IInv'
  <2>1. UNCHANGED <<lru, limits, clock, queue, run>>
    BY <1>4 DEF LoadValue, ReturnValue
  <2>2. NotReading \in Reader /\ NotReading.pc = "idle"
    BY DEF NotReading, Reader
  <2>3. reader[t] \in Reader
    BY <1>0 DEF TypeOK
  <2>4. [reader[t] EXCEPT !.pc = "loaded"] \in Reader
    BY <2>3 DEF Reader
  <2>5. reader' \in [Thread -> Reader] /\ ReaderHasKey'
    <3>1. CASE LoadValue(t)
      <4>1. /\ reader' = [reader EXCEPT ![t] = [reader[t] EXCEPT !.pc = "loaded"]]
            /\ reader[t].pc # "idle"
        BY <3>1 DEF LoadValue
      <4>2. [reader[t] EXCEPT !.pc = "loaded"].key = reader[t].key
        BY <2>3 DEF Reader
      <4> QED
        BY <4>1, <4>2, <2>4, <1>0 DEF TypeOK, ReaderHasKey
    <3>2. CASE ReturnValue(t)
      BY <3>2, <2>2, <1>0 DEF ReturnValue, TypeOK, ReaderHasKey
    <3> QED
      BY <1>4, <3>1, <3>2
  <2> QED
    BY <1>0, <2>1, <2>5 DEF IInv, TypeOK, limits
<1>5. ASSUME NEW t \in Thread, NEW kind \in TrimKind,
             NEW limit \in LimitsOfKind(kind), CallTrim(t, kind, limit)
      PROVE  IInv'
  <2>1. limit \in Nat
    BY CacheAssumption DEF LimitsOfKind, TrimKind
  <2>2. NewRun(kind, limit) \in Run /\ t \in Executor
    BY <1>0, <2>1 DEF NewRun, Run, Executor
  <2> QED
    BY <1>0, <1>5, <2>2 DEF CallTrim, IInv, TypeOK, ReaderHasKey, limits
<1>6. ASSUME NEW e \in Executor, CheckTrim(e)
      PROVE  IInv'
  <2>1. Sound(lru', clock) /\ reader' = ReaderAfter(lru')
    BY <1>0, <1>6 DEF CheckTrim
  <2>2. run[e] \in Run /\ [run[e] EXCEPT !.phase = "loop"] \in Run
    BY <1>0, Zenon, ZenonT(60) DEF Run
  <2>3. run' \in [Executor -> Run] /\ queue' \in Seq(TrimKind)
        /\ UNCHANGED <<limits, clock>>
    BY <1>0, <1>6, <2>2 DEF CheckTrim
  <2> QED
    BY <2>1, <2>3, MapStep
<1>7. ASSUME NEW e \in Executor, TrimStep(e)
      PROVE  IInv'
  <2>1. Sound(lru', clock) /\ reader' = ReaderAfter(lru')
    BY <1>0, <1>7, RemoveTailSound DEF TrimStep
  <2>2. run' \in [Executor -> Run] /\ queue' \in Seq(TrimKind)
        /\ UNCHANGED <<limits, clock>>
    BY <1>0, <1>7 DEF TrimStep
  <2> QED
    BY <2>1, <2>2, MapStep
<1>8. CASE RemoveAllObjects
  BY <1>0, <1>8, MapStep DEF RemoveAllObjects
<1>9. CASE StartQueuedTrim
  <2>1. Head(queue) \in TrimKind /\ Tail(queue) \in Seq(TrimKind)
    BY <1>0, <1>9 DEF StartQueuedTrim
  <2>2. LimitOf(Head(queue)) \in Nat
    BY <1>0, <2>1 DEF LimitOf, TrimKind, TypeOK
  <2>3. NewRun(Head(queue), LimitOf(Head(queue))) \in Run
    BY <1>0, <2>1, <2>2 DEF NewRun, Run
  <2> QED
    BY <1>0, <1>9, <2>1, <2>3, Zenon, ZenonT(60)
    DEF StartQueuedTrim, IInv, TypeOK, ReaderHasKey, limits
<1>10. CASE TrimInBackground
  <2>1. <<"cost", "count", "age">> \in Seq(TrimKind)
    BY DEF TrimKind
  <2>2. queue' \in Seq(TrimKind)
    BY <1>0, <1>10, <2>1 DEF TrimInBackground
  <2> QED
    BY <1>0, <1>10, <2>2
    DEF TrimInBackground, IInv, TypeOK, ReaderHasKey, limits
<1>11. CASE SetLimits
  BY <1>0, <1>11, CacheAssumption, Zenon, ZenonT(60)
  DEF SetLimits, IInv, TypeOK, ReaderHasKey
<1>12. CASE Tick
  <2>1. Sound(lru, clock + 1)
    BY <1>0, SoundLater
  <2> QED
    BY <1>0, <1>12, <2>1 DEF Tick, IInv, TypeOK, ReaderHasKey, limits
<1>13. CASE UNCHANGED vars
  BY <1>0, <1>13 DEF vars, limits, IInv, TypeOK, ReaderHasKey
<1> QED
  BY <1>1, <1>2, <1>3, <1>4, <1>5, <1>6, <1>7, <1>8, <1>9, <1>10, <1>11,
     <1>12, <1>13 DEF Next, Use

\* Types hold in every reachable state.
THEOREM TypeCorrect == Spec => []TypeOK
<1>1. IInv => TypeOK
  BY DEF IInv
<1> QED
  BY <1>1, InitIInv, NextIInv, PTL DEF Spec

\* Dictionary, list and count agree in every reachable state, whatever trims
\* and calls interleave.
THEOREM ListAlwaysMatchesDic == Spec => []ListMatchesDic
<1>1. IInv => ListMatchesDic
  BY DEF IInv, Sound, Whole, ListMatchesDic
<1> QED
  BY <1>1, InitIInv, NextIInv, PTL DEF Spec

\* The list is in order of access in every reachable state.
THEOREM RecencyAlwaysSorted == Spec => []RecencySorted
<1>1. IInv => RecencySorted
  BY DEF IInv, Sound, Whole, RecencySorted
<1> QED
  BY <1>1, InitIInv, NextIInv, PTL DEF Spec

\* The running total is the sum of the costs in the map after any number of
\* replacements, removals and evictions, by any threads.
THEOREM CostsAlwaysAddUp == Spec => []CostAccounting
<1>1. IInv => CostAccounting
  BY DEF IInv, Sound, Whole, CostAccounting
<1> QED
  BY <1>1, InitIInv, NextIInv, PTL DEF Spec
-------------------------------------------------------------------------------
(* Age trims. *)

\* If the tail is young enough for an age trim, so is every node: the list is
\* sorted.
LEMMA YoungTail ==
    ASSUME IInv, NEW r \in Run, r.kind = "age", ~Exceeds(lru, r)
    PROVE  \A k \in Keys(lru) : r.now - lru.dic[k].time <= r.limit
<1> SUFFICES ASSUME NEW k \in Keys(lru)
             PROVE  r.now - lru.dic[k].time <= r.limit
  OBVIOUS
<1>1. lru \in LinkedMap /\ Consistent(lru) /\ Sorted(lru, clock)
  BY DEF IInv, Sound, Whole
<1>2. k \in Key /\ lru.dic[k] # Nil
  BY DEF Keys
<1>3. PICK i \in 1..Len(lru.list) : lru.list[i] = k
  BY <1>1, <1>2 DEF Consistent
<1> DEFINE n == Len(lru.list)
           last == lru.list[n]
<1>4. n \in 1..Len(lru.list) /\ last \in Key /\ lru.list # <<>> /\ i <= n
  BY <1>1, <1>3 DEF LinkedMap
<1>5. lru.dic[last] # Nil
  BY <1>1, <1>4 DEF Consistent
<1>6. lru.dic[k].time \in Nat /\ lru.dic[last].time \in Nat
  BY <1>1, <1>2, <1>4, <1>5 DEF LinkedMap, Node
<1>7. lru.dic[last].time <= lru.dic[k].time
  BY <1>1, <1>3, <1>4 DEF Sorted
<1>8. ~(r.now - lru.dic[last].time > r.limit)
  BY <1>4 DEF Exceeds
<1>9. r.now \in Nat /\ r.limit \in Nat
  BY DEF Run
<1> HIDE DEF last
<1> QED
  BY <1>6, <1>7, <1>8, <1>9

\* trimToAge: is complete when it returns, although it released the lock
\* between removals.
THEOREM AgeTrimAlwaysComplete == Spec => AgeTrimComplete
<1> DEFINE A == \A e \in Executor :
         run[e].kind = "age" /\ run'[e] = Idle =>
           \A k \in Keys(lru') : run[e].now - lru'.dic[k].time <= run[e].limit
<1>1. IInv /\ [Next]_vars => [A]_vars
  <2> SUFFICES ASSUME IInv, Next, NEW e \in Executor,
                      run[e].kind = "age", run'[e] = Idle
               PROVE  \A k \in Keys(lru') :
                         run[e].now - lru'.dic[k].time <= run[e].limit
    OBVIOUS
  <2>0. run \in [Executor -> Run] /\ run[e] # Idle
    BY DEF IInv, TypeOK, Idle
  <2>1. CASE \E x \in Executor : CheckTrim(x)
    <3>1. PICK x \in Executor : CheckTrim(x)
      BY <2>1
    <3>2. x = e
      BY <3>1, <2>0 DEF CheckTrim
    <3>3. CASE run[e].limit = 0
      <4>1. lru' = EmptyMap
        BY <3>1, <3>2, <3>3 DEF CheckTrim
      <4>2. Keys(lru') = {}
        BY <4>1 DEF Keys, EmptyMap
      <4> QED
        BY <4>2
    <3>4. CASE run[e].limit # 0
      <4>1. lru' = lru
        BY <3>1, <3>2, <3>4 DEF CheckTrim
      <4>2. ~Exceeds(lru, run[e])
        <5>1. CASE Exceeds(lru, run[e])
          <6>1. run'[e] = [run[e] EXCEPT !.phase = "loop"]
            BY <5>1, <3>1, <3>2, <3>4, <2>0 DEF CheckTrim
          <6>2. [run[e] EXCEPT !.phase = "loop"].kind = "age"
            BY <2>0 DEF Run
          <6> QED
            BY <6>1, <6>2 DEF Idle
        <5> QED
          BY <5>1
      <4> QED
        BY <4>1, <4>2, <2>0, YoungTail
    <3> QED
      BY <3>3, <3>4
  <2>2. CASE \E x \in Executor : TrimStep(x)
    <3>1. PICK x \in Executor : TrimStep(x)
      BY <2>2
    <3>2. x = e /\ ~Exceeds(lru, run[e]) /\ lru' = lru
      BY <3>1, <2>0 DEF TrimStep
    <3> QED
      BY <3>2, <2>0, YoungTail
  <2>3. CASE StartQueuedTrim
    BY <2>3, <2>0 DEF StartQueuedTrim, NewRun, Idle
  <2>4. CASE \E t \in Thread, kind \in TrimKind :
                \E limit \in LimitsOfKind(kind) : CallTrim(t, kind, limit)
    <3>1. PICK t \in Thread, kind \in TrimKind :
                 \E limit \in LimitsOfKind(kind) : CallTrim(t, kind, limit)
      BY <2>4
    <3> PICK limit \in LimitsOfKind(kind) : CallTrim(t, kind, limit)
      BY <3>1
    <3>2. run[t] = Idle /\ run' = [run EXCEPT ![t] = NewRun(kind, limit)]
      BY DEF CallTrim, Free
    <3> QED
      BY <3>2, <2>0
  <2>5. CASE UNCHANGED run
    BY <2>5, <2>0
  <2>6. ASSUME NEW t \in Thread, NEW k \in Key,
               \/ \E v \in Value, c \in Cost : SetObject(t, k, v, c)
               \/ RemoveObjectForKey(t, k) \/ ObjectForKey(t, k)
        PROVE  UNCHANGED run
    BY <2>6 DEF SetObject, RemoveObjectForKey, ObjectForKey
  <2>7. ASSUME NEW t \in Thread, LoadValue(t) \/ ReturnValue(t)
        PROVE  UNCHANGED run
    BY <2>7 DEF LoadValue, ReturnValue
  <2>8. RemoveAllObjects \/ TrimInBackground \/ SetLimits \/ Tick => UNCHANGED run
    BY DEF RemoveAllObjects, TrimInBackground, SetLimits, Tick
  <2> QED
    BY <2>1, <2>2, <2>3, <2>4, <2>5, <2>6, <2>7, <2>8 DEF Next, Use
<1> QED
  BY <1>1, InitIInv, NextIInv, PTL DEF Spec, AgeTrimComplete
-------------------------------------------------------------------------------
(* Evictions. *)

\* removeTailNode removes the node that was used least recently.
LEMMA TailIsOldest ==
    ASSUME NEW m, NEW now \in Nat, Sound(m, now),
           NEW k \in Keys(m), k \notin Keys(RemoveTailNode(m)),
           NEW kept \in Keys(RemoveTailNode(m))
    PROVE  m.dic[k].time <= RemoveTailNode(m).dic[kept].time
<1> DEFINE n == Len(m.list)
           last == m.list[n]
<1>1. m \in LinkedMap /\ Consistent(m) /\ Sorted(m, now)
  BY DEF Sound, Whole
<1>2. m.list # <<>>
  BY DEF RemoveTailNode
<1>3. n \in 1..n /\ last \in Key /\ m.dic \in [Key -> Node \cup {Nil}]
  BY <1>1, <1>2 DEF LinkedMap
<1>4. m.dic[last] # Nil
  BY <1>1, <1>3 DEF Consistent
<1>5. RemoveTailNode(m).dic = [m.dic EXCEPT ![last] = Nil]
  <2>1. RemoveTailNode(m) = RemoveNode(m, last)
    BY <1>2 DEF RemoveTailNode
  <2> HIDE DEF last
  <2> QED
    BY <2>1, <1>3, <1>4, RemoveSound
<1> HIDE DEF last
<1>6. k = last
  BY <1>3, <1>5 DEF Keys
<1>7. /\ kept \in Key /\ m.dic[kept] # Nil
      /\ RemoveTailNode(m).dic[kept] = m.dic[kept]
  BY <1>3, <1>5 DEF Keys
<1>8. PICK i \in 1..n : m.list[i] = kept
  BY <1>1, <1>7 DEF Consistent
<1>9. m.dic[m.list[n]].time <= m.dic[m.list[i]].time
  BY <1>1, <1>3, <1>8 DEF Sorted
<1> QED
  BY <1>6, <1>7, <1>8, <1>9 DEF last

\* A store files one node and makes no other node older or newer.
LEMMA StoreFiles ==
    ASSUME IInv, NEW k \in Key, NEW v \in Value, NEW c \in Cost
    PROVE  \A x \in Keys(lru) : /\ x \in Keys(Store(lru, k, v, c))
                                /\ lru.dic[x].time <= Store(lru, k, v, c).dic[x].time
<1> DEFINE n == [value |-> v, cost |-> c, time |-> clock]
           stored == Store(lru, k, v, c)
<1>1. /\ lru \in LinkedMap /\ Consistent(lru) /\ Sorted(lru, clock)
      /\ lru.dic \in [Key -> Node \cup {Nil}] /\ n \in Node /\ n # Nil
  BY CacheAssumption, NilAssumption
  DEF IInv, TypeOK, Sound, Whole, LinkedMap, Node
<1>2. stored.dic = [lru.dic EXCEPT ![k] = n]
  BY DEF Store, InsertNodeAtHead, BringNodeToHead, RewriteNode
<1>3. n.time = clock
  OBVIOUS
<1> HIDE DEF n, stored
<1> SUFFICES ASSUME NEW x \in Keys(lru)
             PROVE  x \in Keys(stored) /\ lru.dic[x].time <= stored.dic[x].time
  BY DEF stored
<1>4. x \in Key /\ lru.dic[x] \in Node /\ lru.dic[x] # Nil
  BY <1>1 DEF Keys
<1>5. PICK i \in 1..Len(lru.list) : lru.list[i] = x
  BY <1>1, <1>4 DEF Consistent
<1>6. lru.dic[x].time <= clock /\ lru.dic[x].time \in Nat
  BY <1>1, <1>4, <1>5 DEF Sorted, Node
<1>7. CASE x = k
  BY <1>1, <1>2, <1>3, <1>4, <1>6, <1>7 DEF Keys
<1>8. CASE x # k
  <2>1. stored.dic[x] = lru.dic[x]
    BY <1>1, <1>2, <1>4, <1>8
  <2> QED
    BY <2>1, <1>4, <1>6 DEF Keys
<1> QED
  BY <1>7, <1>8

\* An eviction takes the least recently used node, whoever evicts: setObject:
\* over the count limit, a trim by cost, by count or by age.
THEOREM EvictionFollowsRecency == Spec => EvictsLeastRecentlyUsed
<1> DEFINE Fair(k, kept) ==
               \/ k \notin Keys(lru) \ Keys(lru') \/ kept \notin Keys(lru')
               \/ \E t \in Thread : RemoveObjectForKey(t, k)
               \/ lru.dic[k].time <= lru'.dic[kept].time
<1>1. ASSUME IInv, Next, NEW k \in Key, NEW kept \in Key
      PROVE  Fair(k, kept)
  <2> SUFFICES ASSUME k \in Keys(lru), k \notin Keys(lru'), kept \in Keys(lru'),
                      ~\E t \in Thread : RemoveObjectForKey(t, k)
               PROVE  lru.dic[k].time <= lru'.dic[kept].time
    OBVIOUS
  <2>0. Sound(lru, clock) /\ clock \in Nat /\ lru \in LinkedMap
    BY <1>1 DEF IInv, TypeOK
  <2>1. lru' # lru /\ lru' # EmptyMap
    BY DEF Keys, EmptyMap
  <2>2. ASSUME lru' = RemoveTailNode(lru)
        PROVE  lru.dic[k].time <= lru'.dic[kept].time
    BY <2>0, <2>2, TailIsOldest
  <2>3. ASSUME NEW t \in Thread, NEW x \in Key, NEW v \in Value, NEW c \in Cost,
               SetObject(t, x, v, c)
        PROVE  lru.dic[k].time <= lru'.dic[kept].time
    <3> DEFINE stored == Store(lru, x, v, c)
    <3>1. /\ Sound(stored, clock) /\ k \in Keys(stored)
          /\ lru.dic[k].time <= stored.dic[k].time
      BY <1>1, StoreSound, StoreFiles
    <3>2. lru' = RemoveTailNode(stored) \/ lru' = stored
      BY <2>3 DEF SetObject
    <3> HIDE DEF stored
    <3>3. lru' = RemoveTailNode(stored)
      BY <3>1, <3>2
    <3>4. stored.dic[k].time <= lru'.dic[kept].time
      BY <2>0, <3>1, <3>3, TailIsOldest
    <3>5. /\ lru.dic[k].time \in Int /\ stored.dic[k].time \in Int
          /\ lru'.dic[kept].time \in Int
      <4>1. Sound(lru', clock)
        BY <2>0, <3>1, <3>3, RemoveTailSound
      <4>2. lru'.dic[kept] \in Node /\ stored.dic[k] \in Node /\ lru.dic[k] \in Node
        BY <2>0, <3>1, <4>1 DEF Sound, Whole, LinkedMap, Keys
      <4> QED
        BY <4>2 DEF Node
    <3> QED
      BY <3>1, <3>4, <3>5
  <2>4. ASSUME NEW t \in Thread, NEW x \in Key, ObjectForKey(t, x)
        PROVE  FALSE
    <3> DEFINE n == [lru.dic[x] EXCEPT !.time = clock]
    <3>1. lru.dic[x] \in Node
      BY <2>0, <2>4 DEF ObjectForKey, LinkedMap
    <3>2. n # Nil
      <4>1. n \in Node
        BY <2>0, <3>1 DEF Node
      <4> QED
        BY <4>1, NilAssumption
    <3>3. lru'.dic = [lru.dic EXCEPT ![x] = n]
      BY <2>4 DEF ObjectForKey, BringNodeToHead, RewriteNode
    <3> HIDE DEF n
    <3> QED
      BY <3>2, <3>3, <2>0 DEF Keys, LinkedMap
  <2>5. ASSUME NEW t \in Thread, NEW x \in Key, RemoveObjectForKey(t, x)
        PROVE  FALSE
    <3>1. lru' = RemoveNode(lru, x) /\ x # k
      BY <2>5 DEF RemoveObjectForKey
    <3>2. lru'.dic = [lru.dic EXCEPT ![x] = Nil]
      BY <3>1 DEF RemoveNode
    <3> QED
      BY <3>1, <3>2, <2>0 DEF Keys, LinkedMap
  <2>6. ASSUME NEW e \in Executor, CheckTrim(e) \/ TrimStep(e)
        PROVE  lru' = lru \/ lru' = EmptyMap \/ lru' = RemoveTailNode(lru)
    BY <2>6 DEF CheckTrim, TrimStep
  <2>7. ASSUME NEW t \in Thread, LoadValue(t) \/ ReturnValue(t)
        PROVE  lru' = lru
    BY <2>7 DEF LoadValue, ReturnValue
  <2>8. ASSUME NEW t \in Thread, NEW kind \in TrimKind,
               NEW limit \in LimitsOfKind(kind), CallTrim(t, kind, limit)
        PROVE  lru' = lru
    BY <2>8 DEF CallTrim
  <2>9. /\ RemoveAllObjects => lru' = EmptyMap
        /\ StartQueuedTrim \/ TrimInBackground \/ Tick \/ SetLimits => lru' = lru
    BY DEF RemoveAllObjects, StartQueuedTrim, TrimInBackground, Tick, SetLimits
  <2> QED
    BY <1>1, <2>1, <2>2, <2>3, <2>4, <2>5, <2>6, <2>7, <2>8, <2>9 DEF Next, Use
<1>2. IInv /\ [Next]_vars => [\A k, kept \in Key : Fair(k, kept)]_vars
  BY <1>1
<1> QED
  BY <1>2, InitIInv, NextIInv, PTL DEF Spec, EvictsLeastRecentlyUsed
-------------------------------------------------------------------------------
(* Limits. *)

\* Removing a node never raises a total, and lowers the count by one.
LEMMA RemoveTotals ==
    ASSUME NEW m, NEW now \in Nat, Sound(m, now), NEW k \in Key, m.dic[k] # Nil
    PROVE  /\ RemoveNode(m, k).totalCost <= m.totalCost
           /\ RemoveNode(m, k).totalCount = m.totalCount - 1
<1>1. /\ m.totalCost \in Int /\ m.dic[k].cost \in Nat
  BY DEF Sound, Whole, LinkedMap, Node
<1> QED
  BY <1>1 DEF RemoveNode

\* The same for the tail, where there may be no node to remove.
LEMMA RemoveTailTotals ==
    ASSUME NEW m, NEW now \in Nat, Sound(m, now)
    PROVE  /\ RemoveTailNode(m).totalCost <= m.totalCost
           /\ RemoveTailNode(m).totalCount <= m.totalCount
           /\ m.totalCount > 0 =>
                 RemoveTailNode(m).totalCount = m.totalCount - 1
<1>1. m \in LinkedMap /\ Consistent(m)
  BY DEF Sound, Whole
<1>2. m.totalCost \in Int /\ m.totalCount = Len(m.list) /\ Len(m.list) \in Nat
  BY <1>1 DEF LinkedMap, Consistent
<1>3. CASE m.list = <<>>
  BY <1>2, <1>3 DEF RemoveTailNode
<1>4. CASE m.list # <<>>
  <2> DEFINE k == m.list[Len(m.list)]
  <2>1. Len(m.list) \in 1..Len(m.list) /\ k \in Key
    BY <1>1, <1>4 DEF LinkedMap
  <2>2. m.dic[k] # Nil
    BY <1>1, <2>1 DEF Consistent
  <2>3. RemoveTailNode(m) = RemoveNode(m, k)
    BY <1>4 DEF RemoveTailNode
  <2> HIDE DEF k
  <2>4. /\ RemoveNode(m, k).totalCost <= m.totalCost
        /\ RemoveNode(m, k).totalCount = m.totalCount - 1
    BY <2>1, <2>2, RemoveTotals
  <2> QED
    BY <2>3, <2>4, <1>2
<1> QED
  BY <1>3, <1>4

\* A store adds at most one node.
LEMMA StoreTotals ==
    ASSUME IInv, NEW k \in Key, NEW v \in Value, NEW c \in Cost
    PROVE  Store(lru, k, v, c).totalCount <= lru.totalCount + 1
<1>1. lru.totalCount \in Int
  BY DEF IInv, TypeOK, LinkedMap
<1> QED
  BY <1>1 DEF Store, InsertNodeAtHead, BringNodeToHead, RewriteNode

\* Only setObject: and a change of the limits can bring the cache over a limit:
\* every other step lowers the totals or keeps them.
LEMMA OthersShrink ==
    ASSUME IInv, [Next]_vars, ~SetLimits,
           ~\E t \in Thread, k \in Key, v \in Value, c \in Cost : SetObject(t, k, v, c)
    PROVE  /\ UNCHANGED limits
           /\ lru'.totalCost <= lru.totalCost /\ lru'.totalCount <= lru.totalCount
<1> DEFINE Shrunk == /\ UNCHANGED limits
                     /\ lru'.totalCost <= lru.totalCost
                     /\ lru'.totalCount <= lru.totalCount
<1>0. /\ Sound(lru, clock) /\ clock \in Nat /\ lru \in LinkedMap /\ Consistent(lru)
      /\ lru.totalCost \in Int /\ lru.totalCount \in Int
  BY DEF IInv, TypeOK, LinkedMap, Sound, Whole
<1>1. ASSUME lru' = lru, UNCHANGED limits
      PROVE  Shrunk
  BY <1>0, <1>1
<1>2. ASSUME lru' = EmptyMap, UNCHANGED limits
      PROVE  Shrunk
  <2>1. 0 <= lru.totalCost
    BY <1>0, CostNotNegative DEF Sound
  <2>2. 0 <= lru.totalCount
    BY <1>0 DEF Consistent, LinkedMap
  <2> QED
    BY <2>1, <2>2, <1>2 DEF EmptyMap
<1>3. ASSUME NEW t \in Thread, NEW k \in Key, RemoveObjectForKey(t, k)
      PROVE  Shrunk
  <2>1. lru.dic[k] # Nil /\ lru' = RemoveNode(lru, k) /\ UNCHANGED limits
    BY <1>3 DEF RemoveObjectForKey
  <2>2. lru'.totalCost <= lru.totalCost /\ lru'.totalCount = lru.totalCount - 1
    BY <1>0, <2>1, RemoveTotals
  <2> QED
    BY <1>0, <2>1, <2>2
<1>4. ASSUME NEW t \in Thread, NEW k \in Key, ObjectForKey(t, k)
      PROVE  Shrunk
  <2> DEFINE n == [lru.dic[k] EXCEPT !.time = clock]
  <2>1. lru.dic[k] \in Node
    BY <1>0, <1>4 DEF ObjectForKey, LinkedMap
  <2>2. n.cost = lru.dic[k].cost /\ n.cost \in Nat
    BY <2>1 DEF Node
  <2>3. lru' = BringNodeToHead(RewriteNode(lru, k, n), k) /\ UNCHANGED limits
    BY <1>4 DEF ObjectForKey
  <2> HIDE DEF n
  <2>4. lru'.totalCost = lru.totalCost /\ lru'.totalCount = lru.totalCount
    BY <1>0, <2>2, <2>3 DEF BringNodeToHead, RewriteNode
  <2> QED
    BY <1>0, <2>3, <2>4
<1>5. ASSUME NEW e \in Executor, CheckTrim(e)
      PROVE  Shrunk
  BY <1>1, <1>2, <1>5 DEF CheckTrim
<1>6. ASSUME NEW e \in Executor, TrimStep(e)
      PROVE  Shrunk
  <2>1. CASE lru' = RemoveTailNode(lru)
    BY <2>1, <1>0, <1>6, RemoveTailTotals DEF TrimStep
  <2>2. CASE lru' = lru
    BY <2>2, <1>1, <1>6 DEF TrimStep
  <2> QED
    BY <2>1, <2>2, <1>6 DEF TrimStep
<1>7. CASE RemoveAllObjects
  BY <1>2, <1>7 DEF RemoveAllObjects
<1>8. ASSUME NEW t \in Thread, LoadValue(t) \/ ReturnValue(t)
      PROVE  Shrunk
  BY <1>1, <1>8 DEF LoadValue, ReturnValue
<1>9. ASSUME NEW t \in Thread, NEW kind \in TrimKind,
             NEW limit \in LimitsOfKind(kind), CallTrim(t, kind, limit)
      PROVE  Shrunk
  BY <1>1, <1>9 DEF CallTrim
<1>10. CASE StartQueuedTrim \/ TrimInBackground \/ Tick \/ UNCHANGED vars
  BY <1>1, <1>10 DEF StartQueuedTrim, TrimInBackground, Tick, vars
<1> QED
  BY <1>3, <1>4, <1>5, <1>6, <1>7, <1>8, <1>9, <1>10 DEF Next, Use

\* setObject: leaves the cache within its count limit if it was, and schedules
\* a trim if what it stored brought the cache over its cost limit.
LEMMA SetObjectLimits ==
    ASSUME IInv, NEW t \in Thread, NEW k \in Key, NEW v \in Value, NEW c \in Cost,
           SetObject(t, k, v, c)
    PROVE  /\ UNCHANGED <<limits, run>>
           /\ WithinCount => WithinCount'
           /\ \/ lru'.totalCost <= costLimit /\ queue' = queue
              \/ queue' = Append(queue, "cost")
<1> DEFINE stored == Store(lru, k, v, c)
           fitted == IF stored.totalCount > countLimit
                     THEN RemoveTailNode(stored) ELSE stored
<1>0. /\ clock \in Nat /\ lru.totalCount \in Int
      /\ costLimit \in Nat /\ countLimit \in Nat
  BY DEF IInv, TypeOK, LinkedMap
<1>1. Sound(stored, clock) /\ stored.totalCount <= lru.totalCount + 1
  BY <1>0, StoreSound, StoreTotals
<1>2. stored.totalCost \in Int /\ stored.totalCount \in Int
  BY <1>1 DEF Sound, Whole, LinkedMap
<1>3. /\ lru' = fitted /\ run' = run /\ UNCHANGED limits
      /\ queue' = IF stored.totalCost > costLimit
                  THEN Append(queue, "cost") ELSE queue
  BY DEF SetObject
<1> HIDE DEF stored
<1>4. /\ RemoveTailNode(stored).totalCost <= stored.totalCost
      /\ stored.totalCount > 0 =>
            RemoveTailNode(stored).totalCount = stored.totalCount - 1
  BY <1>0, <1>1, RemoveTailTotals
<1>5. RemoveTailNode(stored).totalCost \in Int
  BY <1>0, <1>1, RemoveTailSound DEF Sound, Whole, LinkedMap
<1>6. WithinCount => WithinCount'
  BY <1>0, <1>1, <1>2, <1>3, <1>4 DEF WithinCount, limits
<1>7. lru'.totalCost <= stored.totalCost /\ lru'.totalCost \in Int
  BY <1>2, <1>3, <1>4, <1>5
<1>8. CASE stored.totalCost > costLimit
  BY <1>3, <1>6, <1>8
<1>9. CASE ~(stored.totalCost > costLimit)
  BY <1>0, <1>2, <1>3, <1>6, <1>7, <1>9
<1> QED
  BY <1>8, <1>9

\* The count limit is strict as long as it is not lowered: setObject: evicts
\* what it adds too much, and no other step adds a node.
THEOREM CountStaysBounded == Spec => CountBounded
<1>1. ASSUME IInv, [Next]_vars, WithinCount, countLimit' >= countLimit, IInv'
      PROVE  WithinCount'
  <2>0. /\ lru.totalCount \in Int /\ countLimit \in Nat
        /\ lru'.totalCount \in Int /\ countLimit' \in Nat
    BY <1>1 DEF IInv, TypeOK, LinkedMap
  <2>1. CASE \E t \in Thread, k \in Key, v \in Value, c \in Cost : SetObject(t, k, v, c)
    BY <2>1, <1>1, SetObjectLimits
  <2>2. CASE SetLimits
    <3>1. lru' = lru
      BY <2>2 DEF SetLimits
    <3> QED
      BY <3>1, <2>0, <1>1 DEF WithinCount
  <2>3. CASE /\ ~SetLimits
             /\ ~\E t \in Thread, k \in Key, v \in Value, c \in Cost : SetObject(t, k, v, c)
    <3>1. countLimit' = countLimit /\ lru'.totalCount <= lru.totalCount
      BY <2>3, <1>1, OthersShrink DEF limits
    <3> QED
      BY <3>1, <2>0, <1>1 DEF WithinCount
  <2> QED
    BY <2>1, <2>2, <2>3
<1> QED
  BY <1>1, InitIInv, NextIInv, PTL DEF Spec, CountBounded

\* A trim in _queue, or one running there with a limit that is low enough.
Waiting(q) == \E i \in 1..Len(q) : q[i] = "cost"
Running(r, limit) == r[Worker].kind = "cost" /\ r[Worker].limit <= limit

\* Once a trim is promised, only its end may take the promise back, and then
\* the cache is within the limit.
LEMMA PromiseKept ==
    ASSUME IInv, IInv', [Next]_vars, TrimPromised, costLimit' >= costLimit
    PROVE  TrimPromised'
<1>0. /\ lru.totalCost \in Int /\ costLimit \in Nat
      /\ lru'.totalCost \in Int /\ costLimit' \in Nat
      /\ queue \in Seq(TrimKind) /\ run \in [Executor -> Run]
      /\ Worker \in Executor /\ run[Worker].limit \in Nat
  BY DEF IInv, TypeOK, LinkedMap, Executor, Run
<1>1. /\ TrimPromised <=>
           (lru.totalCost > costLimit => Waiting(queue) \/ Running(run, costLimit))
      /\ TrimPromised' <=>
           (lru'.totalCost > costLimit' => Waiting(queue') \/ Running(run', costLimit'))
  BY DEF TrimPromised, Waiting, Running
<1> SUFFICES ASSUME lru'.totalCost > costLimit'
             PROVE  Waiting(queue') \/ Running(run', costLimit')
  BY <1>1
<1>2. Running(run, costLimit) => Running(run, costLimit')
  BY <1>0 DEF Running
<1>3. ASSUME NEW t \in Thread, NEW k \in Key, NEW v \in Value, NEW c \in Cost,
             SetObject(t, k, v, c)
      PROVE  Waiting(queue')
  <2>1. /\ UNCHANGED <<limits, run>>
        /\ \/ lru'.totalCost <= costLimit
           \/ queue' = Append(queue, "cost")
    BY <1>3, SetObjectLimits
  <2>2. queue' = Append(queue, "cost")
    BY <2>1, <1>0 DEF limits
  <2>3. Len(queue) + 1 \in 1..Len(queue') /\ queue'[Len(queue) + 1] = "cost"
    BY <2>2, <1>0
  <2> QED
    BY <2>3 DEF Waiting
<1>4. CASE SetLimits
  <2>1. UNCHANGED <<lru, queue, run>>
    BY <1>4 DEF SetLimits
  <2> QED
    BY <2>1, <1>0, <1>1, <1>2
<1>5. ASSUME ~SetLimits,
             ~\E t \in Thread, k \in Key, v \in Value, c \in Cost : SetObject(t, k, v, c)
      PROVE  Waiting(queue') \/ Running(run', costLimit')
  <2>0. /\ costLimit' = costLimit /\ lru'.totalCost <= lru.totalCost
        /\ (Waiting(queue) \/ Running(run, costLimit))
    <3>1. costLimit' = costLimit /\ lru'.totalCost <= lru.totalCost
      BY <1>5, OthersShrink DEF limits
    <3> QED
      BY <3>1, <1>0, <1>1
  <2>1. ASSUME UNCHANGED queue, UNCHANGED run
        PROVE  Waiting(queue') \/ Running(run', costLimit')
    BY <2>0, <2>1 DEF Running
  <2>2. ASSUME NEW t \in Thread, NEW kind \in TrimKind,
               NEW limit \in LimitsOfKind(kind), CallTrim(t, kind, limit)
        PROVE  Waiting(queue') \/ Running(run', costLimit')
    <3>1. run'[Worker] = run[Worker] /\ queue' = queue
      BY <1>0, <2>2, CacheAssumption DEF CallTrim
    <3> QED
      BY <2>0, <3>1 DEF Running
\* A trim that ends has seen the cache within its limit.
  <2>3. ASSUME NEW e \in Executor, UNCHANGED queue, run' = [run EXCEPT ![e] = Idle],
               run[e].kind = "cost" => lru'.totalCost <= run[e].limit
        PROVE  Waiting(queue') \/ Running(run', costLimit')
    <3>1. CASE e = Worker /\ Running(run, costLimit)
      BY <3>1, <2>0, <2>3, <1>0 DEF Running
    <3>2. CASE e # Worker
      BY <3>2, <2>0, <2>3, <1>0 DEF Running
    <3>3. CASE Waiting(queue)
      BY <3>3, <2>3
    <3> QED
      BY <3>1, <3>2, <3>3, <2>0
  <2>4. ASSUME NEW e \in Executor, CheckTrim(e)
        PROVE  Waiting(queue') \/ Running(run', costLimit')
    <3>0. queue' = queue
      BY <2>4 DEF CheckTrim
    <3>1. CASE run[e].limit = 0
      <4>1. lru'.totalCost = 0
        BY <2>4, <3>1 DEF CheckTrim, EmptyMap
      <4> QED
        BY <4>1, <1>0
    <3>2. CASE run[e].limit # 0 /\ Exceeds(lru, run[e])
      <4>1. run' = [run EXCEPT ![e] = [run[e] EXCEPT !.phase = "loop"]]
        BY <2>4, <3>2 DEF CheckTrim
      <4>2. /\ [run[e] EXCEPT !.phase = "loop"].kind = run[e].kind
            /\ [run[e] EXCEPT !.phase = "loop"].limit = run[e].limit
        BY <1>0 DEF Run
      <4>3. run'[Worker].kind = run[Worker].kind /\ run'[Worker].limit = run[Worker].limit
        BY <4>1, <4>2, <1>0
      <4> QED
        BY <4>3, <3>0, <2>0 DEF Running
    <3>3. CASE run[e].limit # 0 /\ ~Exceeds(lru, run[e])
      <4>1. lru' = lru /\ run' = [run EXCEPT ![e] = Idle]
        BY <2>4, <3>3 DEF CheckTrim
      <4>2. run[e].limit \in Nat
        BY <1>0 DEF Run
      <4>3. run[e].kind = "cost" => lru.totalCost <= run[e].limit
        BY <3>3, <4>2, <1>0 DEF Exceeds
      <4> QED
        BY <2>3, <3>0, <4>1, <4>3, Zenon, ZenonT(60)
    <3> QED
      BY <3>1, <3>2, <3>3
  <2>5. ASSUME NEW e \in Executor, TrimStep(e)
        PROVE  Waiting(queue') \/ Running(run', costLimit')
    <3>0. queue' = queue
      BY <2>5 DEF TrimStep
    <3>1. CASE Exceeds(lru, run[e])
      BY <3>0, <3>1, <2>1, <2>5 DEF TrimStep
    <3>2. CASE ~Exceeds(lru, run[e])
      <4>1. lru' = lru /\ run' = [run EXCEPT ![e] = Idle]
        BY <2>5, <3>2 DEF TrimStep
      <4>2. run[e].limit \in Nat
        BY <1>0 DEF Run
      <4>3. run[e].kind = "cost" => lru.totalCost <= run[e].limit
        BY <3>2, <4>2, <1>0 DEF Exceeds
      <4> QED
        BY <2>3, <3>0, <4>1, <4>3, Zenon, ZenonT(60)
    <3> QED
      BY <3>1, <3>2
  <2>6. CASE StartQueuedTrim
    <3> DEFINE h == Head(queue)
    <3>1. /\ queue # <<>> /\ run[Worker] = Idle /\ queue' = Tail(queue)
          /\ run' = [run EXCEPT ![Worker] = NewRun(h, LimitOf(h))]
      BY <2>6 DEF StartQueuedTrim
    <3>2. run'[Worker].kind = h /\ run'[Worker].limit = LimitOf(h)
      BY <3>1, <1>0 DEF NewRun
    <3>3. CASE h = "cost"
      <4>1. LimitOf(h) = costLimit
        BY <3>3 DEF LimitOf
      <4> QED
        BY <4>1, <3>2, <3>3, <2>0, <1>0 DEF Running
    <3>4. CASE h # "cost"
      <4>1. PICK i \in 1..Len(queue) : queue[i] = "cost"
        BY <2>0, <3>1 DEF Waiting, Running, Idle
      <4>2. i # 1 /\ Len(queue) \in Nat
        BY <4>1, <3>4, <3>1, <1>0
      <4>3. i - 1 \in 1..Len(queue') /\ queue'[i - 1] = "cost"
        BY <4>1, <4>2, <3>1, <1>0
      <4> QED
        BY <4>3 DEF Waiting
    <3> QED
      BY <3>3, <3>4
  <2>7. CASE TrimInBackground
    <3>1. queue' = queue \o <<"cost", "count", "age">>
      BY <2>7 DEF TrimInBackground
    <3>2. Len(queue) + 1 \in 1..Len(queue') /\ queue'[Len(queue) + 1] = "cost"
      BY <3>1, <1>0
    <3> QED
      BY <3>2 DEF Waiting
  <2>8. ASSUME NEW t \in Thread, NEW k \in Key,
               RemoveObjectForKey(t, k) \/ ObjectForKey(t, k)
        PROVE  UNCHANGED <<queue, run>>
    BY <2>8 DEF RemoveObjectForKey, ObjectForKey
  <2>9. ASSUME NEW t \in Thread, LoadValue(t) \/ ReturnValue(t)
        PROVE  UNCHANGED <<queue, run>>
    BY <2>9 DEF LoadValue, ReturnValue
  <2>10. RemoveAllObjects \/ Tick \/ UNCHANGED vars => UNCHANGED <<queue, run>>
    BY DEF RemoveAllObjects, Tick, vars
  <2> QED
    BY <1>5, <2>1, <2>2, <2>4, <2>5, <2>6, <2>7, <2>8, <2>9, <2>10 DEF Next, Use
<1> QED
  BY <1>3, <1>4, <1>5

\* No wake-up is lost, whatever the threads, the queue and the limits do, short
\* of lowering the cost limit.
THEOREM NoTrimIsLost == Spec => NoLostTrim
<1>1. IInv /\ IInv' /\ [Next]_vars
        => (TrimPromised /\ costLimit' >= costLimit => TrimPromised')
  BY PromiseKept
<1> QED
  BY <1>1, InitIInv, NextIInv, PTL DEF Spec, NoLostTrim

\* With limits set once, an over-budget cache always has a trim on the way,
\* and the count limit is never exceeded at an unlock.
THEOREM LimitsKept == FixedLimitsSpec => [](TrimPromised /\ WithinCount)
<1>1. Init => TrimPromised /\ WithinCount
  BY CacheAssumption DEF Init, EmptyMap, TrimPromised, WithinCount
<1>2. [Use]_vars => [Next]_vars /\ costLimit' = costLimit /\ countLimit' = countLimit
  <2> SUFFICES ASSUME [Use]_vars
               PROVE  costLimit' = costLimit /\ countLimit' = countLimit
    BY DEF Next
  <2>1. ASSUME NEW t \in Thread, NEW k \in Key,
               \/ \E v \in Value, c \in Cost : SetObject(t, k, v, c)
               \/ RemoveObjectForKey(t, k) \/ ObjectForKey(t, k)
        PROVE  UNCHANGED limits
    BY <2>1 DEF SetObject, RemoveObjectForKey, ObjectForKey
  <2>2. ASSUME NEW t \in Thread, LoadValue(t) \/ ReturnValue(t)
        PROVE  UNCHANGED limits
    BY <2>2 DEF LoadValue, ReturnValue
  <2>3. ASSUME NEW t \in Thread, NEW kind \in TrimKind,
               NEW limit \in LimitsOfKind(kind), CallTrim(t, kind, limit)
        PROVE  UNCHANGED limits
    BY <2>3 DEF CallTrim
  <2>4. ASSUME NEW e \in Executor, CheckTrim(e) \/ TrimStep(e)
        PROVE  UNCHANGED limits
    BY <2>4 DEF CheckTrim, TrimStep
  <2>5. RemoveAllObjects \/ StartQueuedTrim \/ TrimInBackground \/ Tick
          \/ UNCHANGED vars => UNCHANGED limits
    BY DEF RemoveAllObjects, StartQueuedTrim, TrimInBackground, Tick, vars
  <2>6. UNCHANGED limits
    BY <2>1, <2>2, <2>3, <2>4, <2>5 DEF Use
  <2> QED
    BY <2>6 DEF limits
<1>3. IInv => costLimit >= costLimit /\ countLimit >= countLimit
  BY DEF IInv, TypeOK
<1>4. Spec /\ [][Use]_vars => [](TrimPromised /\ WithinCount)
  <2>1. TrimPromised /\ WithinCount /\ IInv /\ [Use]_vars
          /\ [TrimPromised /\ costLimit' >= costLimit => TrimPromised']_vars
          /\ [WithinCount /\ countLimit' >= countLimit => WithinCount']_vars
        => (TrimPromised /\ WithinCount)'
    <3>1. CASE UNCHANGED vars
      BY <3>1 DEF vars, limits, TrimPromised, WithinCount
    <3>2. CASE ~UNCHANGED vars
      BY <3>2, <1>2, <1>3
    <3> QED
      BY <3>1, <3>2
  <2> QED
    BY <2>1, <1>1, InitIInv, NextIInv, NoTrimIsLost, CountStaysBounded, PTL
    DEF Spec, NoLostTrim, CountBounded
<1>5. FixedLimitsSpec => Spec
  BY <1>2, PTL DEF FixedLimitsSpec, Spec
<1> QED
  BY <1>4, <1>5, PTL DEF FixedLimitsSpec
===============================================================================
