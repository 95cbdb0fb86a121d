----------------------------- MODULE YYCacheProofs -----------------------------
(***************************************************************************)
(* Callers that wait for the methods about the same key always look up the *)
(* latest object, or the one that the last change failed to replace on     *)
(* disk, for any number of keys, threads and blocks.                       *)
(* LookupIsLatest speaks of keys that no method is changing; the inductive *)
(* invariant says what each step under way still owes.                     *)
(***************************************************************************)
EXTENDS YYCache, TLAPS

\* A step that names no prover is tried with SMT, then with Zenon, then with
\* SMT again for longer.
USE SMTT(15), ZenonT(20), SMTT(60)

\* e has yet to finish a method about k.
About(e, k) == task[e].name = "removeAll" \/ task[e].key = k

\* A method that changes a key is the only one about it.
InTurn == \A e, f \in Executor, k \in Key : Owes(e, k) /\ About(f, k) => e = f

\* The memory cache holds the latest object or one that was left on disk, and only
\* the latest one while its key is being changed.
MemoryIsLatest ==
    \A k \in Key : /\ mem[k] \in {Nil, latest[k], left[k]}
                   /\ Changing(k) => mem[k] \in {Nil, latest[k]}

\* The disk cache holds the latest object or one that was left there, or is about to.
DiskIsLatest == \A k \in Key : dsk[k] \in {Nil, latest[k], left[k]} \/ Changing(k)

\* What a method carries to its next step is the latest object of its key, or what
\* it found left on disk.
CarriesLatest ==
    \A e \in Executor :
        /\ task[e].name \in {"set", "remove", "get", "check", "fill"} =>
             task[e].key \in Key
        /\ task[e].name = "set" => task[e].obj = latest[task[e].key]
        /\ task[e].name \in {"check", "fill"} =>
             task[e].obj \in {latest[task[e].key], left[task[e].key]}

IInv == TypeOK /\ InTurn /\ MemoryIsLatest /\ DiskIsLatest /\ CarriesLatest

LEMMA InitIInv == Init => IInv
  BY YYCacheAssumption
     DEF Init, IInv, TypeOK, InTurn, About, MemoryIsLatest, DiskIsLatest, Owes,
         Changing, CarriesLatest, Idle, Task, Object

\* A lookup of a key that nothing changes, from the invariant.
LEMMA IInvLookup == IInv => LookupIsLatest
  BY DEF IInv, MemoryIsLatest, DiskIsLatest, LookupIsLatest, Lookup

\* What e alone has begun, gone on with or finished leaves the others as they were.
LEMMA Others ==
    ASSUME NEW e \in Executor, \A f \in Executor : f # e => task'[f] = task[f]
    PROVE  \A f \in Executor, k \in Key :
             f # e => (Owes(f, k)' <=> Owes(f, k)) /\ (About(f, k)' <=> About(f, k))
  BY DEF Owes, About

\* Methods stay in turn when e owes nothing new and is about nothing new.
LEMMA StaysInTurn ==
    ASSUME NEW e \in Executor, \A f \in Executor : f # e => task'[f] = task[f],
           InTurn, \A k \in Key : (Owes(e, k)' => Owes(e, k)) /\ (About(e, k)' => About(e, k))
    PROVE  InTurn'
<1>1. \A f \in Executor, k \in Key :
        (Owes(f, k)' => Owes(f, k)) /\ (About(f, k)' => About(f, k))
  BY Others
<1> QED BY <1>1 DEF InTurn

\* A change of k begins when nothing else is about k.
LEMMA BeginsInTurn ==
    ASSUME NEW e \in Executor, \A f \in Executor : f # e => task'[f] = task[f],
           InTurn, \A k \in Key : About(e, k)' => ~Busy(k)
    PROVE  InTurn'
<1> SUFFICES ASSUME NEW f \in Executor, NEW g \in Executor, NEW k \in Key,
                    Owes(f, k)', About(g, k)', f # g
             PROVE  FALSE
  BY DEF InTurn
<1>1. Owes(f, k)' => About(f, k)'
  BY DEF Owes, About
<1>2. f = e \/ g = e => ~Busy(k)
  BY <1>1
<1>3. (f # e => Owes(f, k)) /\ (g # e => About(g, k))
  BY Others
<1>4. f # e => About(f, k)
  BY <1>3 DEF Owes, About
<1>5. (f # e => Busy(k)) /\ (g # e => Busy(k))
  BY <1>3, <1>4 DEF Busy, About
<1> QED BY <1>2, <1>3, <1>5 DEF InTurn

\* A method that its turn allows.
LEMMA CallIInv ==
    ASSUME IInv, CallInTurn
    PROVE  IInv'
<1> USE YYCacheAssumption DEF IInv, TypeOK, Object
<1>1. PICK t \in Thread, e \in Executor :
        \/ \E k \in Key : ~Busy(k) /\ (SetObject(t, e, k) \/ RemoveObject(t, e, k))
        \/ \E k \in Key : ~Changing(k) /\ ObjectForKey(t, e, k)
        \/ Quiet /\ RemoveAllObjects(t, e)
  BY DEF CallInTurn
<1>2. task[e] = Idle /\ \A f \in Executor : f # e => task'[f] = task[f]
  BY <1>1 DEF SetObject, RemoveObject, ObjectForKey, RemoveAllObjects, Calls, Then
<1>3. \A k \in Key : ~Owes(e, k) /\ ~About(e, k)
  BY <1>2 DEF Owes, About, Idle
<1>4. ASSUME NEW k \in Key, Changing(k) PROVE Changing(k)'
  <2>1. PICK f \in Executor : Owes(f, k)
    BY <1>4 DEF Changing
  <2> QED BY <2>1, <1>2, <1>3, Others DEF Changing
<1>5. ASSUME NEW k \in Key, ~Busy(k), SetObject(t, e, k) \/ RemoveObject(t, e, k)
      PROVE  IInv'
  <2>1. \/ task'[e] = [name |-> "set", key |-> k, obj |-> next] /\ latest'[k] = next
        \/ task'[e] = [name |-> "remove", key |-> k, obj |-> Nil]
    BY <1>5 DEF SetObject, RemoveObject, Then
  <2>2. \A j \in Key : (Owes(e, j)' <=> j = k) /\ (About(e, j)' <=> j = k)
    BY <2>1 DEF Owes, About
  <2>3. TypeOK'
    BY <1>5 DEF SetObject, RemoveObject, Then, Task
  <2>4. InTurn'
    BY <1>2, <1>5, <2>2, BeginsInTurn
  <2>5. MemoryIsLatest'
    <3>1. left' = left /\ mem'[k] \in {Nil, latest'[k]}
      BY <1>5 DEF SetObject, RemoveObject
    <3>2. \A j \in Key : j # k => mem'[j] = mem[j] /\ latest'[j] = latest[j]
      BY <1>5 DEF SetObject, RemoveObject
    <3>3. \A j \in Key : j # k => (Changing(j)' => Changing(j))
      BY <1>2, <2>2, Others DEF Changing
    <3> QED BY <3>1, <3>2, <3>3 DEF MemoryIsLatest
  <2>6. dsk' = dsk /\ left' = left /\ \A j \in Key : j # k => latest'[j] = latest[j]
    BY <1>5 DEF SetObject, RemoveObject
  <2>7. DiskIsLatest'
    BY <1>4, <2>2, <2>6 DEF DiskIsLatest, Changing
  <2>8. \A f \in Executor : task[f].key # k
    BY <1>5 DEF Busy
  <2>9. CarriesLatest'
    BY <1>2, <2>1, <2>6, <2>8 DEF CarriesLatest
  <2> QED BY <2>3, <2>4, <2>5, <2>7, <2>9
<1>6. ASSUME NEW k \in Key, ~Changing(k), ObjectForKey(t, e, k)
      PROVE  IInv'
  <2>1. task'[e] = [name |-> "get", key |-> k, obj |-> Nil]
    BY <1>6 DEF ObjectForKey, Then
  <2>2. \A j \in Key : ~Owes(e, j)' /\ (About(e, j)' <=> j = k)
    BY <2>1 DEF Owes, About
  <2>3. TypeOK'
    BY <1>6 DEF ObjectForKey, Then, Task
  <2>4. InTurn'
    <3> SUFFICES ASSUME NEW f \in Executor, NEW g \in Executor, NEW j \in Key,
                        Owes(f, j)', About(g, j)'
                 PROVE  f = g
      BY DEF InTurn
    <3>1. f # e /\ Owes(f, j)
      BY <1>2, <2>2, Others
    <3>2. g = e => j = k
      BY <2>2
    <3>3. g # e => About(g, j)
      BY <1>2, Others
    <3> QED BY <1>6, <3>1, <3>2, <3>3 DEF InTurn, Changing
  <2>5. mem' = mem /\ dsk' = dsk /\ latest' = latest /\ left' = left
    BY <1>6 DEF ObjectForKey
  <2>6. MemoryIsLatest' /\ DiskIsLatest'
    <3>1. \A j \in Key : Changing(j)' => Changing(j)
      BY <1>2, <2>2, Others DEF Changing
    <3> QED BY <1>4, <2>5, <3>1 DEF MemoryIsLatest, DiskIsLatest
  <2>7. CarriesLatest'
    BY <1>2, <2>1, <2>5 DEF CarriesLatest
  <2> QED BY <2>3, <2>4, <2>6, <2>7
<1>7. ASSUME Quiet, RemoveAllObjects(t, e)
      PROVE  IInv'
  <2>1. task'[e] = [name |-> "removeAll", key |-> Nil, obj |-> Nil]
    BY <1>7 DEF RemoveAllObjects, Then
  <2>2. TypeOK'
    BY <1>7 DEF RemoveAllObjects, Then, Task
  <2>3. \A k \in Key : ~Busy(k)
    BY <1>7 DEF Quiet, Busy, Idle
  <2>4. InTurn'
    BY <1>2, <2>3, BeginsInTurn
  <2>5. MemoryIsLatest'
    BY <1>7 DEF RemoveAllObjects, MemoryIsLatest
  <2>6. DiskIsLatest'
    BY <2>1 DEF DiskIsLatest, Changing, Owes
  <2>7. \A f \in Executor : f # e => task'[f] = Idle
    BY <1>2, <1>7 DEF Quiet
  <2>8. CarriesLatest'
    BY <2>1, <2>7 DEF CarriesLatest, Idle
  <2> QED BY <2>2, <2>4, <2>5, <2>6, <2>8
<1> QED BY <1>1, <1>5, <1>6, <1>7

\* The step of a method that is under way.
LEMMA FinishIInv ==
    ASSUME IInv, Finish
    PROVE  IInv'
<1> USE YYCacheAssumption DEF IInv, TypeOK, Object
<1>1. PICK e \in Executor : DiskSet(e) \/ DiskRemove(e) \/ DiskRemoveAll(e)
                             \/ DiskGet(e) \/ CheckMemory(e) \/ FillMemory(e)
  BY DEF Finish
<1>2. latest' = latest /\ \A f \in Executor : f # e => task'[f] = task[f]
  BY <1>1 DEF DiskSet, DiskRemove, DiskRemoveAll, DiskGet, CheckMemory, FillMemory,
              Then, Done
<1>3. task[e].name # "removeAll" => task[e].key \in Key
  BY <1>1 DEF DiskSet, DiskRemove, DiskRemoveAll, DiskGet, CheckMemory, FillMemory,
              CarriesLatest
<1>4. ASSUME NEW k \in Key, Changing(k), ~Owes(e, k) PROVE Changing(k)'
  <2>1. PICK f \in Executor : Owes(f, k)
    BY <1>4 DEF Changing
  <2> QED BY <2>1, <1>2, <1>4, Others DEF Changing
<1>5. ASSUME NEW k \in Key, Changing(k)' PROVE Changing(k)
  <2>1. PICK f \in Executor : Owes(f, k)'
    BY <1>5 DEF Changing
  <2>2. task'[e].name \in {"none", "check", "fill"}
    BY <1>1 DEF DiskSet, DiskRemove, DiskRemoveAll, DiskGet, CheckMemory, FillMemory,
                Then, Done, Idle
  <2>3. f # e
    BY <2>1, <2>2 DEF Owes
  <2> QED BY <2>1, <2>3, <1>2, Others DEF Changing
<1>6. ASSUME task'[e] = Idle PROVE InTurn'
  <2>1. \A k \in Key : ~Owes(e, k)' /\ ~About(e, k)'
    BY <1>6 DEF Owes, About, Idle
  <2> QED BY <1>2, <2>1, StaysInTurn
\* The disk cache is changed, or fails to be: what it is left with is known.
<1>7. ASSUME NEW S \in SUBSET Key, \A k \in S : Owes(e, k), \A k \in Key \ S : ~Owes(e, k),
             task' = [task EXCEPT ![e] = Idle], mem' = mem, next' = next,
             dsk' \in [Key -> Nat \cup {Nil}], left' \in [Key -> Nat \cup {Nil}],
             \A k \in Key \ S : dsk'[k] = dsk[k] /\ left'[k] = left[k],
             \A k \in S : dsk'[k] \in {Nil, latest[k], left'[k]}
      PROVE  IInv'
  <2>1. TypeOK'
    BY <1>2, <1>7 DEF Task, Idle
  <2>2. \A k \in S : Changing(k)
    BY <1>7 DEF Changing
  <2>3. DiskIsLatest'
    BY <1>2, <1>4, <1>7 DEF DiskIsLatest
  <2>4. MemoryIsLatest'
    BY <1>2, <1>5, <1>7, <2>2 DEF MemoryIsLatest
  <2>5. \A f \in Executor : f # e /\ task[f].key \in Key => task[f].key \notin S
    BY <1>7 DEF InTurn, About
  <2>6. CarriesLatest'
    <3>1. \A f \in Executor : f # e => task'[f] = task[f]
      BY <1>7
    <3>2. task'[e].name = "none"
      BY <1>7 DEF Idle
    <3> QED BY <1>2, <1>7, <2>5, <3>1, <3>2 DEF CarriesLatest
  <2> QED BY <1>6, <1>7, <2>1, <2>3, <2>4, <2>6
<1>8. CASE DiskSet(e) \/ DiskRemove(e)
  <2>1. PICK j \in Key : j = task[e].key
    BY <1>3, <1>8 DEF DiskSet, DiskRemove
  <2>2. PICK obj \in {Nil, latest[j], dsk[j]}, kept \in {Nil, dsk[j]} :
          /\ dsk' = [dsk EXCEPT ![j] = obj] /\ left' = [left EXCEPT ![j] = kept]
          /\ obj \in {Nil, latest[j], kept}
    <3>1. CASE DiskSet(e)
      BY <2>1, <3>1 DEF DiskSet, CarriesLatest
    <3>2. CASE DiskRemove(e)
      BY <2>1, <3>2 DEF DiskRemove
    <3> QED BY <1>8, <3>1, <3>2
  <2>3. task' = [task EXCEPT ![e] = Idle] /\ mem' = mem /\ next' = next
    BY <1>8 DEF DiskSet, DiskRemove, Done
  <2>4. \A k \in Key : Owes(e, k) <=> k = j
    BY <1>8, <2>1 DEF DiskSet, DiskRemove, Owes
  <2>5. dsk' \in [Key -> Nat \cup {Nil}] /\ left' \in [Key -> Nat \cup {Nil}]
    BY <2>1, <2>2
  <2>6. /\ \A k \in Key : k # j => dsk'[k] = dsk[k] /\ left'[k] = left[k]
        /\ dsk'[j] \in {Nil, latest[j], left'[j]}
    BY <2>1, <2>2
  <2>7. {j} \in SUBSET Key
    BY <2>1
  <2> QED BY <1>7, <2>3, <2>4, <2>5, <2>6, <2>7
<1>9. CASE DiskRemoveAll(e)
  <2>1. task' = [task EXCEPT ![e] = Idle] /\ mem' = mem /\ next' = next
    BY <1>9 DEF DiskRemoveAll, Done
  <2>2. PICK kept \in SUBSET Key :
          dsk' = [k \in Key |-> IF k \in kept THEN dsk[k] ELSE Nil] /\ left' = dsk'
    BY <1>9 DEF DiskRemoveAll
  <2>3. \A k \in Key : Owes(e, k)
    BY <1>9 DEF DiskRemoveAll, Owes
  <2>4. dsk' \in [Key -> Nat \cup {Nil}] /\ left' \in [Key -> Nat \cup {Nil}]
    BY <2>2
  <2> QED BY <1>7, <2>1, <2>2, <2>3, <2>4
<1>10. CASE DiskGet(e) \/ CheckMemory(e) \/ FillMemory(e)
  <2>1. task[e].key \in Key /\ task[e].name \in {"get", "check", "fill"}
    BY <1>3, <1>10 DEF DiskGet, CheckMemory, FillMemory
  <2>2. \A k \in Key : ~Owes(e, k)
    BY <2>1 DEF Owes
  <2>3. ~Changing(task[e].key)
    BY <2>1, <2>2 DEF Changing, InTurn, About
  <2>4. dsk' = dsk /\ next' = next /\ left' = left
    BY <1>10 DEF DiskGet, CheckMemory, FillMemory
  <2>5. DiskIsLatest'
    BY <1>2, <1>4, <2>2, <2>4 DEF DiskIsLatest
  <2>6. MemoryIsLatest' /\ mem' \in [Key -> Nat \cup {Nil}]
    <3>1. task[e].name = "fill" => task[e].obj \in {latest[task[e].key], left[task[e].key]}
      BY DEF CarriesLatest
    <3>2. CASE mem' = mem
      BY <1>2, <1>5, <2>4, <3>2 DEF MemoryIsLatest
    <3>3. CASE FillMemory(e)
      <4>1. mem' = [mem EXCEPT ![task[e].key] = task[e].obj] /\ task[e].name = "fill"
        BY <3>3 DEF FillMemory
      <4>2. PICK j \in Key : j = task[e].key
        BY <2>1
      <4>3. mem' \in [Key -> Nat \cup {Nil}]
        BY <2>1, <3>1, <4>1
      <4>4. ~Changing(j)'
        BY <1>5, <2>3, <4>2
      <4>5. mem'[j] \in {latest'[j], left'[j]} /\ \A k \in Key : k # j => mem'[k] = mem[k]
        BY <1>2, <2>4, <3>1, <4>1, <4>2
      <4>6. MemoryIsLatest'
        BY <1>2, <1>5, <2>4, <4>4, <4>5 DEF MemoryIsLatest
      <4> QED BY <4>3, <4>6
    <3> QED BY <1>10, <3>2, <3>3 DEF DiskGet, CheckMemory
  <2>7. CASE task' = [task EXCEPT ![e] = Idle]
    <3>1. TypeOK'
      BY <1>2, <2>4, <2>6, <2>7 DEF Task, Idle
    <3>2. CarriesLatest'
      BY <1>2, <2>4, <2>7 DEF CarriesLatest, Idle
    <3> QED BY <1>6, <2>5, <2>6, <2>7, <3>1, <3>2
  <2>8. CASE task' # [task EXCEPT ![e] = Idle]
    <3>1. PICK name \in {"check", "fill"}, obj \in {latest[task[e].key], left[task[e].key]} :
            task' = [task EXCEPT ![e] = [name |-> name, key |-> task[e].key, obj |-> obj]]
      <4>1. CASE DiskGet(e)
        <5>1. dsk[task[e].key] \in {Nil, latest[task[e].key], left[task[e].key]}
          BY <2>1, <2>3 DEF DiskIsLatest
        <5> QED BY <2>8, <4>1, <5>1 DEF DiskGet, Then, Done
      <4>2. CASE CheckMemory(e)
        BY <2>8, <4>2 DEF CheckMemory, Then, Done, CarriesLatest
      <4> QED BY <1>10, <2>8, <4>1, <4>2 DEF FillMemory, Done
    <3>2. obj \in Nat \cup {Nil}
      BY <2>1
    <3>3. TypeOK'
      BY <1>2, <2>1, <2>4, <2>6, <3>1, <3>2 DEF Task
    <3>4. \A k \in Key : ~Owes(e, k)' /\ (About(e, k)' => About(e, k))
      BY <3>1 DEF Owes, About
    <3>5. InTurn'
      BY <1>2, <3>4, StaysInTurn
    <3>6. CarriesLatest'
      BY <1>2, <2>1, <2>4, <3>1 DEF CarriesLatest
    <3> QED BY <2>5, <2>6, <3>3, <3>5, <3>6
  <2> QED BY <2>7, <2>8
<1> QED BY <1>1, <1>8, <1>9, <1>10

\* An eviction forgets; it brings nothing back.
LEMMA EvictIInv ==
    ASSUME IInv, Evict
    PROVE  IInv'
<1>1. PICK k \in Key : EvictFromMemory(k) \/ EvictFromDisk(k)
  BY DEF Evict
<1>2. TypeOK' /\ MemoryIsLatest' /\ DiskIsLatest'
  BY <1>1 DEF IInv, TypeOK, MemoryIsLatest, DiskIsLatest, Changing, Owes,
              EvictFromMemory, EvictFromDisk
<1>3. InTurn' /\ CarriesLatest'
  BY <1>1 DEF IInv, InTurn, Owes, About, CarriesLatest, EvictFromMemory, EvictFromDisk
<1> QED BY <1>2, <1>3 DEF IInv

\* With callers that wait for the methods about the same key, objectForKey: of
\* YYCache never returns an object that was replaced or removed, however the two
\* caches evict, whatever objectForKey: has promoted from disk and however methods
\* about different keys overlap; except, if saves and removals on disk may fail, the
\* object that the last change of that key failed to replace or remove there.
THEOREM InTurnLookup == InTurnSpec => []LookupIsLatest
<1>1. IInv /\ [CallInTurn \/ Finish \/ Evict]_vars => IInv'
  <2> SUFFICES ASSUME IInv, [CallInTurn \/ Finish \/ Evict]_vars
               PROVE  IInv'
    OBVIOUS
  <2>1. CASE UNCHANGED vars
    BY <2>1 DEF vars, IInv, TypeOK, InTurn, About, MemoryIsLatest, DiskIsLatest,
                Changing, Owes, CarriesLatest
  <2> QED BY <2>1, CallIInv, FinishIInv, EvictIInv
<1> QED BY <1>1, InitIInv, IInvLookup, PTL DEF InTurnSpec
-------------------------------------------------------------------------------
(* Callers that do not wait for each other. *)

\* A step that is yet to be done knows the key and the object it is about.
KnowsItsKey ==
    \A e \in Executor :
        /\ task[e].name \in {"set", "remove", "get", "check", "fill"} =>
             task[e].key \in Key
        /\ task[e].name \in {"set", "check", "fill"} => task[e].obj \in Object

LEMMA CallTyped ==
    ASSUME TypeOK, KnowsItsKey, Call
    PROVE  TypeOK' /\ KnowsItsKey'
<1> USE DEF TypeOK, Object
<1>1. PICK t \in Thread, e \in Executor :
        \/ \E k \in Key : SetObject(t, e, k) \/ RemoveObject(t, e, k)
                          \/ ObjectForKey(t, e, k)
        \/ RemoveAllObjects(t, e)
  BY DEF Call
<1>2. PICK r \in Task : /\ task' = [task EXCEPT ![e] = r]
                        /\ r.name \in {"set", "remove", "get"} => r.key \in Key
                        /\ r.name = "set" => r.obj \in Nat
                        /\ r.name \in {"set", "remove", "removeAll", "get"}
  <2>1. ASSUME NEW k \in Key, SetObject(t, e, k)
        PROVE  task' = [task EXCEPT ![e] = [name |-> "set", key |-> k, obj |-> next]]
    BY <2>1 DEF SetObject, Then
  <2>2. ASSUME NEW k \in Key, RemoveObject(t, e, k)
        PROVE  task' = [task EXCEPT ![e] = [name |-> "remove", key |-> k, obj |-> Nil]]
    BY <2>2 DEF RemoveObject, Then
  <2>3. ASSUME NEW k \in Key, ObjectForKey(t, e, k)
        PROVE  task' = [task EXCEPT ![e] = [name |-> "get", key |-> k, obj |-> Nil]]
    BY <2>3 DEF ObjectForKey, Then
  <2>4. ASSUME RemoveAllObjects(t, e)
        PROVE  task' = [task EXCEPT ![e] = [name |-> "removeAll", key |-> Nil, obj |-> Nil]]
    BY <2>4 DEF RemoveAllObjects, Then
  <2> QED BY <1>1, <2>1, <2>2, <2>3, <2>4 DEF Task
<1>3. task' \in [Executor -> Task]
  BY <1>2
<1>4. /\ mem' \in [Key -> Nat \cup {Nil}] /\ dsk' = dsk /\ left' = left /\ next' \in Nat
      /\ latest' \in [Key -> Nat \cup {Nil}]
  BY <1>1 DEF SetObject, RemoveObject, ObjectForKey, RemoveAllObjects
<1>5. KnowsItsKey'
  BY <1>2 DEF KnowsItsKey
<1> QED BY <1>3, <1>4, <1>5

LEMMA FinishTyped ==
    ASSUME TypeOK, KnowsItsKey, Finish
    PROVE  TypeOK' /\ KnowsItsKey'
<1> USE DEF TypeOK, Object
<1>1. PICK e \in Executor : DiskSet(e) \/ DiskRemove(e) \/ DiskRemoveAll(e)
                             \/ DiskGet(e) \/ CheckMemory(e) \/ FillMemory(e)
  BY DEF Finish
<1> DEFINE k == task[e].key
           c(n, o) == [name |-> n, key |-> k, obj |-> o]
<1>2. task[e].name # "removeAll" => k \in Key
  BY <1>1 DEF KnowsItsKey, DiskSet, DiskRemove, DiskRemoveAll, DiskGet, CheckMemory,
              FillMemory
<1>3. task[e].name \in {"set", "check", "fill"} => task[e].obj \in Nat
  BY DEF KnowsItsKey
<1>4. /\ mem' \in [Key -> Nat \cup {Nil}] /\ next' = next /\ latest' = latest
  BY <1>1, <1>2, <1>3 DEF DiskSet, DiskRemove, DiskRemoveAll, DiskGet, CheckMemory,
                          FillMemory
<1>5. dsk' \in [Key -> Nat \cup {Nil}] /\ left' \in [Key -> Nat \cup {Nil}]
  <2>1. CASE DiskSet(e) \/ DiskRemove(e)
    <3>1. k \in Key /\ dsk[k] \in Nat \cup {Nil}
      BY <2>1, <1>2 DEF DiskSet, DiskRemove
    <3>2. PICK obj \in Nat \cup {Nil}, kept \in Nat \cup {Nil} :
            dsk' = [dsk EXCEPT ![k] = obj] /\ left' = [left EXCEPT ![k] = kept]
      <4>1. CASE DiskSet(e)
        BY <3>1, <4>1, <1>3 DEF DiskSet
      <4>2. CASE DiskRemove(e)
        BY <3>1, <4>2 DEF DiskRemove
      <4> QED BY <2>1, <4>1, <4>2
    <3> QED BY <3>1, <3>2
  <2>2. CASE DiskRemoveAll(e)
    BY <2>2 DEF DiskRemoveAll
  <2> QED BY <2>1, <2>2, <1>1 DEF DiskGet, CheckMemory, FillMemory
<1>6. \/ task' = [task EXCEPT ![e] = Idle]
      \/ \E n \in {"check", "fill"}, o \in Nat :
            k \in Key /\ task' = [task EXCEPT ![e] = c(n, o)]
  <2>1. CASE DiskGet(e) /\ dsk[k] # Nil
    <3>1. k \in Key /\ dsk[k] \in Nat
      BY <2>1, <1>2 DEF DiskGet
    <3>2. task' = [task EXCEPT ![e] = c(IF e \in Block THEN "check" ELSE "fill", dsk[k])]
      BY <2>1 DEF DiskGet, Then
    <3> QED BY <3>1, <3>2
  <2>2. CASE CheckMemory(e) /\ mem[k] = Nil
    <3>1. k \in Key /\ task[e].obj \in Nat
      BY <2>2, <1>2, <1>3 DEF CheckMemory
    <3>2. task' = [task EXCEPT ![e] = c("fill", task[e].obj)]
      BY <2>2 DEF CheckMemory, Then
    <3> QED BY <3>1, <3>2
  <2> QED BY <2>1, <2>2, <1>1 DEF DiskSet, DiskRemove, DiskRemoveAll, DiskGet,
                                  CheckMemory, FillMemory, Done
<1> HIDE DEF k
<1>7. task' \in [Executor -> Task] /\ KnowsItsKey'
  <2>1. CASE task' = [task EXCEPT ![e] = Idle]
    BY <2>1 DEF Idle, Task, KnowsItsKey
  <2>2. CASE \E n \in {"check", "fill"}, o \in Nat :
               k \in Key /\ task' = [task EXCEPT ![e] = c(n, o)]
    <3>1. PICK n \in {"check", "fill"}, o \in Nat :
             k \in Key /\ task' = [task EXCEPT ![e] = c(n, o)]
      BY <2>2, Zenon, ZenonT(60)
    <3>2. c(n, o) \in Task
      BY <3>1 DEF Task
    <3> QED BY <3>1, <3>2 DEF KnowsItsKey
  <2> QED BY <2>1, <2>2, <1>6
<1> QED BY <1>4, <1>5, <1>7

\* Every variable of the two-level cache keeps its type, however the callers of
\* YYCache and its blocks interleave.
THEOREM TypeCorrect == /\ Spec => []TypeOK
                       /\ InTurnSpec => []TypeOK
<1> DEFINE T == TypeOK /\ KnowsItsKey
<1>1. Init => T
  BY YYCacheAssumption DEF Init, TypeOK, KnowsItsKey, Idle, Task, Object
<1>2. T /\ [Call \/ Finish \/ Evict]_vars => T'
  <2> SUFFICES ASSUME TypeOK, KnowsItsKey, [Call \/ Finish \/ Evict]_vars
               PROVE  T'
    OBVIOUS
  <2>1. CASE Evict
    BY <2>1 DEF Evict, EvictFromMemory, EvictFromDisk, TypeOK, KnowsItsKey
  <2>2. CASE UNCHANGED vars
    BY <2>2 DEF vars, TypeOK, KnowsItsKey
  <2> QED BY <2>1, <2>2, CallTyped, FinishTyped
<1>3. [CallInTurn \/ Finish \/ Evict]_vars => [Call \/ Finish \/ Evict]_vars
  BY DEF CallInTurn, Call
<1> QED BY <1>1, <1>2, <1>3, PTL DEF Spec, InTurnSpec

===============================================================================
